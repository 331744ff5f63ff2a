----------------------------- MODULE TcpSocket -----------------------------
(***************************************************************************)
(* TcpSocket: which descriptor each socket object holds and what it        *)
(* believes of it.  The bytes that send and receive move are the subject   *)
(* of DataExchanger; here these two operations matter when they fail.  A   *)
(* call that throws before it changes anything (a wrong address family, a  *)
(* size above INT_MAX, a socket that is not connected) is a stuttering     *)
(* step and has no action.                                                 *)
(***************************************************************************)
EXTENDS Descriptors

CONSTANTS Sockets, Listeners

VARIABLE sock   \* sock[s] = [fd, status]

SockFields == [fd : Fds \cup {0}, status : {"none", "CLOSED", "CONNECTED", "SS_ERROR"}]
NoSocket == [fd |-> 0, status |-> "none"]   \* storage without an object

SockInit == sock = [s \in Sockets |-> NoSocket]

\* The descriptor is open, and getsockopt, connect and recv accept it.
IsSocketFd(f) == f \in Fds /\ owner[f] \in Sockets \cup Listeners

\* What isConnected may answer.  When getsockopt fails, errorCode is read
\* uninitialised.
MayBeConnected(s) == sock[s].status = "CONNECTED"
MayBeDisconnected(s) == sock[s].status # "CONNECTED" \/ ~IsSocketFd(sock[s].fd)

SockConstruct(s) ==
    /\ sock[s].status = "none"
    /\ \E f \in Fds :
          /\ Opens(s, f)
          /\ sock' = [sock EXCEPT ![s] = [fd |-> f, status |-> "CLOSED"]]

\* fromSockfd, on the descriptor accept returned.
FromSockfd(s, f) ==
    /\ sock[s].status = "none"
    /\ sock' = [sock EXCEPT ![s] = [fd |-> f, status |-> "CONNECTED"]]

\* Mutant: the moved-from socket keeps its descriptor as well.
M_MoveKeepsFd(s, t) ==
    /\ sock[s].status # "none" /\ sock[t].status = "none"
    /\ sock' = [sock EXCEPT ![t] = sock[s]]
    /\ owner' = OwnerAfterMove(s, t)

\* The moved-from socket keeps its status.
SockMove(s, t) ==
    /\ sock[s].status # "none" /\ sock[t].status = "none"
    /\ sock' = [sock EXCEPT ![t] = sock[s], ![s].fd = 0]
    /\ owner' = OwnerAfterMove(s, t)

\* The three overloads of connectTo: connect needs an open socket to succeed.
ConnectTo(s) ==
    /\ sock[s].status # "none" /\ MayBeDisconnected(s)
    /\ \E result \in {"CONNECTED", "SS_ERROR"} :
          /\ result = "CONNECTED" => IsSocketFd(sock[s].fd)
          /\ sock' = [sock EXCEPT ![s].status = result]
    /\ UNCHANGED owner

SockSendFails(s) ==
    /\ MayBeConnected(s)
    /\ sock' = [sock EXCEPT ![s].status = "SS_ERROR"]
    /\ UNCHANGED owner

SockReceiveFails(s) ==
    /\ MayBeConnected(s)
    /\ sock' = [sock EXCEPT ![s].status = "SS_ERROR"]
    /\ UNCHANGED owner

\* Mutants: close leaves the status alone; close forgets ::close.
M_CloseKeepsStatus(s, after) ==
    /\ sock[s].status # "none"
    /\ owner' = OwnerAfterClose(sock[s].fd)
    /\ sock' = [sock EXCEPT ![s].fd = 0, ![s].status = IF after = "none" THEN after ELSE @]
M_CloseLeaks(s, after) ==
    /\ sock[s].status # "none"
    /\ sock' = [sock EXCEPT ![s] = [fd |-> 0, status |-> after]]
    /\ UNCHANGED owner

\* close, and close followed by the end of the object.
SockCloseThen(s, after) ==
    /\ sock[s].status # "none"
    /\ owner' = OwnerAfterClose(sock[s].fd)
    /\ sock' = [sock EXCEPT ![s] = [fd |-> 0, status |-> after]]

SockClose(s) == SockCloseThen(s, "CLOSED")
SockDestroy(s) == SockCloseThen(s, "none")
=============================================================================
