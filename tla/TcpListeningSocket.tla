------------------------ MODULE TcpListeningSocket -------------------------
(***************************************************************************)
(* TcpListeningSocket.  A listenTo that fails in bind or listen closes its *)
(* descriptor and keeps the number; a listenTo that fails in socket leaves *)
(* -1.                                                                     *)
(***************************************************************************)
EXTENDS TcpSocket

VARIABLE lsock   \* lsock[l] = [fd, listening]

LsockFields == [fd : Fds \cup {-1, 0}, listening : BOOLEAN]
LsockInit == lsock = [l \in Listeners |-> [fd |-> 0, listening |-> FALSE]]

\* listenTo gets as far as bind and listen, which succeed, ...
ListenTo(l) ==
    /\ ~lsock[l].listening
    /\ \E f \in Fds :
          /\ Opens(l, f)
          /\ lsock' = [lsock EXCEPT ![l] = [fd |-> f, listening |-> TRUE]]
    /\ UNCHANGED sock

\* ... or one of them fails: socket and close in one call.
ListenToFails(l) ==
    /\ ~lsock[l].listening
    /\ \E f \in Fds : NextFd(f) /\ lsock' = [lsock EXCEPT ![l].fd = f]
    /\ UNCHANGED <<owner, sock>>

\* socket itself fails.
ListenToNoSocket(l) ==
    /\ ~lsock[l].listening
    /\ lsock' = [lsock EXCEPT ![l].fd = -1]
    /\ UNCHANGED <<owner, sock>>

\* acceptRequest does not look at listening: any listening descriptor will do.
AcceptRequest(l, s) ==
    /\ lsock[l].fd \in Fds
    /\ LET k == owner[lsock[l].fd] IN
       k \in Listeners /\ lsock[k].listening
    /\ \E f \in Fds : Opens(s, f) /\ FromSockfd(s, f)
    /\ UNCHANGED lsock

\* close and the destructor, after which the storage holds a new listener.
LsockClose(l) ==
    /\ owner' = IF lsock[l].fd > 0 THEN OwnerAfterClose(lsock[l].fd) ELSE owner
    /\ lsock' = [lsock EXCEPT ![l] = [fd |-> IF @.fd > 0 THEN 0 ELSE @.fd,
                                      listening |-> FALSE]]
    /\ UNCHANGED sock

LsockDestroy(l) ==
    /\ owner' = IF lsock[l].fd > 0 THEN OwnerAfterClose(lsock[l].fd) ELSE owner
    /\ lsock' = [lsock EXCEPT ![l] = [fd |-> 0, listening |-> FALSE]]
    /\ UNCHANGED sock
=============================================================================
