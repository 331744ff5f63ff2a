-------------------------- MODULE OsProcessProofs --------------------------
(***************************************************************************)
(* Proofs about OsProcess, for any sets of sockets, listeners, pipes and   *)
(* shared memories and any set of descriptors.  The inductive invariant    *)
(* OsInv says of each kind of object what its own fields tell about the    *)
(* descriptor it holds.                                                    *)
(***************************************************************************)
EXTENDS OsProcess, TLAPS

\* HolderIsOwner, kind by kind.
Holders ==
    ~failedListen =>
       /\ \A s \in Sockets : sock[s].fd \in Fds => owner[sock[s].fd] = s
       /\ \A l \in Listeners : lsock[l].fd \in Fds => owner[lsock[l].fd] = l
       /\ \A p \in Pipes : pipe[p].fd \in Fds => owner[pipe[p].fd] = p
       /\ \A m \in Memories : shm[m].fd \in Fds => owner[shm[m].fd] = m

\* An object at rest holds nothing: storage without a socket, a listener that
\* does not listen (but for a number it no longer owns), a closed pipe.
AtRest ==
    /\ \A s \in Sockets : sock[s].status = "none" => sock[s].fd = 0
    /\ \A l \in Listeners :
          lsock[l].fd \in Fds /\ owner[lsock[l].fd] = l => lsock[l].listening
    /\ \A p \in Pipes : pipe[p].state = "DISCONNECTED" => pipe[p].fd = -1

OsInv == TypeOK /\ Holders /\ AtRest /\ ConnectedHasDescriptor

USE ObjectsAssumption, FdsAssumption DEF Objects

\* The program starts with nothing open.
LEMMA InitOsInv == Init => OsInv
<1> SUFFICES ASSUME Init PROVE OsInv
    OBVIOUS
<1> USE DEF Init, SockInit, LsockInit, PipeInit, ShmInit, NoSocket, NewPipe, DeadShm, NewShm
<1>1. TypeOK
    BY DEF TypeOK, SockFields, LsockFields, PipeFields, ShmFields
<1>2. Holders /\ AtRest /\ ConnectedHasDescriptor
    BY DEF Holders, AtRest, ConnectedHasDescriptor
<1> QED
    BY <1>1, <1>2 DEF OsInv

\* The steps of one socket.
LEMMA SocketStep ==
    ASSUME OsInv, NEW s \in Sockets, UNCHANGED <<lsock, failedListen, pipeVars, shmVars>>,
           moved' = {t \in moved : sock'[t].status # "none"},
           \/ SockConstruct(s) \/ ConnectTo(s) \/ SockClose(s) \/ SockDestroy(s)
           \/ SockSendFails(s) \/ SockReceiveFails(s)
    PROVE  OsInv'
<1> USE DEF OsInv, TypeOK, SockFields, pipeVars, shmVars
<1>1. CASE SockConstruct(s)
    <2> USE <1>1 DEF SockConstruct, Opens, NextFd, FreeFds
    <2>1. TypeOK'
        OBVIOUS
    <2>2. Holders'
        BY DEF Holders
    <2>3. AtRest' /\ ConnectedHasDescriptor'
        BY DEF AtRest, ConnectedHasDescriptor
    <2> QED
        BY <2>1, <2>2, <2>3
<1>2. CASE ConnectTo(s) \/ SockSendFails(s) \/ SockReceiveFails(s)
    <2>1. PICK result \in {"CONNECTED", "SS_ERROR"} :
             /\ sock' = [sock EXCEPT ![s].status = result]
             /\ result = "CONNECTED" => sock[s].fd \in Fds
             /\ sock[s].status # "none" /\ owner' = owner
        BY <1>2 DEF ConnectTo, SockSendFails, SockReceiveFails, IsSocketFd, MayBeConnected
    <2>2. TypeOK'
        BY <2>1
    <2>3. Holders'
        BY <2>1 DEF Holders
    <2>4. AtRest'
        BY <2>1 DEF AtRest
    <2>5. ConnectedHasDescriptor'
        BY <2>1 DEF ConnectedHasDescriptor
    <2> QED
        BY <2>2, <2>3, <2>4, <2>5
<1>3. CASE SockClose(s) \/ SockDestroy(s)
    <2>1. PICK after \in {"CLOSED", "none"} : SockCloseThen(s, after)
        BY <1>3 DEF SockClose, SockDestroy
    <2> USE <2>1 DEF SockCloseThen, OwnerAfterClose
    <2>2. TypeOK'
        OBVIOUS
    <2>3. Holders'
        BY DEF Holders
    <2>4. AtRest' /\ ConnectedHasDescriptor'
        BY DEF AtRest, ConnectedHasDescriptor
    <2> QED
        BY <2>2, <2>3, <2>4
<1> QED
    BY <1>1, <1>2, <1>3

\* A socket is moved.
LEMMA SocketMove ==
    ASSUME OsInv, NEW s \in Sockets, NEW t \in Sockets, SockMove(s, t),
           moved' = moved \cup (IF s \in moved THEN {s, t} ELSE {s}),
           UNCHANGED <<lsock, failedListen, pipeVars, shmVars>>
    PROVE  OsInv'
<1> USE DEF OsInv, TypeOK, SockFields, pipeVars, shmVars, SockMove, OwnerAfterMove
<1>1. TypeOK'
    OBVIOUS
<1>2. Holders'
    BY DEF Holders
<1>3. AtRest' /\ ConnectedHasDescriptor'
    BY DEF AtRest, ConnectedHasDescriptor
<1> QED
    BY <1>1, <1>2, <1>3

\* The steps of one listener.
LEMMA ListenerStep ==
    ASSUME OsInv, NEW l \in Listeners, UNCHANGED <<moved, pipeVars, shmVars>>,
           \/ /\ UNCHANGED failedListen
              /\ \/ ListenTo(l) \/ ListenToNoSocket(l) \/ LsockClose(l) \/ LsockDestroy(l)
                 \/ \E s \in Sockets : AcceptRequest(l, s)
           \/ failedListen' = TRUE /\ ListenToFails(l)
    PROVE  OsInv'
<1> USE DEF OsInv, TypeOK, LsockFields, pipeVars, shmVars
<1>1. CASE ListenTo(l) /\ UNCHANGED failedListen
    <2> USE <1>1 DEF ListenTo, Opens, NextFd, FreeFds
    <2>1. TypeOK'
        OBVIOUS
    <2>2. Holders'
        BY DEF Holders
    <2>3. AtRest' /\ ConnectedHasDescriptor'
        BY DEF AtRest, ConnectedHasDescriptor
    <2> QED
        BY <2>1, <2>2, <2>3
<1>2. CASE ListenToFails(l) /\ failedListen' = TRUE
    <2> USE <1>2 DEF ListenToFails, NextFd, FreeFds
    <2>1. TypeOK'
        OBVIOUS
    <2>2. Holders'
        BY DEF Holders
    <2>3. AtRest' /\ ConnectedHasDescriptor'
        BY DEF AtRest, ConnectedHasDescriptor
    <2> QED
        BY <2>1, <2>2, <2>3
<1>3. CASE ListenToNoSocket(l) /\ UNCHANGED failedListen
    <2> USE <1>3 DEF ListenToNoSocket
    <2>1. TypeOK'
        OBVIOUS
    <2>2. Holders'
        BY DEF Holders
    <2>3. AtRest' /\ ConnectedHasDescriptor'
        BY DEF AtRest, ConnectedHasDescriptor
    <2> QED
        BY <2>1, <2>2, <2>3
<1>4. CASE (LsockClose(l) \/ LsockDestroy(l)) /\ UNCHANGED failedListen
    <2> DEFINE f == lsock[l].fd
    <2>1. PICK g \in {-1, 0} :
             /\ lsock' = [lsock EXCEPT ![l] = [fd |-> g, listening |-> FALSE]]
             /\ owner' = [h \in Fds |-> IF h = f THEN NoOne ELSE owner[h]]
             /\ sock' = sock
        <3>1. CASE f > 0
            BY <1>4, <3>1 DEF LsockClose, LsockDestroy, OwnerAfterClose
        <3>2. CASE ~(f > 0)
            <4>0. f \in Fds \cup {-1, 0} /\ \A g \in Fds : g > 0
                OBVIOUS
            <4>1. f \in {-1, 0} /\ f \notin Fds
                BY <3>2, <4>0
            <4>2. owner = [h \in Fds |-> IF h = f THEN NoOne ELSE owner[h]]
                BY <4>1
            <4> QED
                BY <1>4, <3>2, <4>1, <4>2 DEF LsockClose, LsockDestroy
        <3> QED
            BY <3>1, <3>2
    <2> USE <1>4, <2>1
    <2>2. TypeOK'
        OBVIOUS
    <2>3. Holders'
        BY DEF Holders
    <2>4. AtRest' /\ ConnectedHasDescriptor'
        BY DEF AtRest, ConnectedHasDescriptor
    <2> QED
        BY <2>2, <2>3, <2>4
<1>5. ASSUME NEW s \in Sockets, AcceptRequest(l, s), UNCHANGED failedListen
      PROVE  OsInv'
    <2> USE <1>5 DEF AcceptRequest, FromSockfd, Opens, NextFd, FreeFds, SockFields
    <2>1. TypeOK'
        OBVIOUS
    <2>2. Holders'
        BY DEF Holders
    <2>3. AtRest' /\ ConnectedHasDescriptor'
        BY DEF AtRest, ConnectedHasDescriptor
    <2> QED
        BY <2>1, <2>2, <2>3
<1> QED
    BY <1>1, <1>2, <1>3, <1>4, <1>5

\* The steps of one pipe: each of them closes it, opens it, or leaves its
\* descriptor alone.
LEMMA PipeStep ==
    ASSUME OsInv, PipeNext, UNCHANGED <<sockVars, shmVars>>
    PROVE  OsInv'
<1> USE DEF OsInv, TypeOK, PipeFields, sockVars, shmVars
<1>1. ASSUME NEW p \in Pipes, PipeClose(p), fifo' \in BOOLEAN
      PROVE  OsInv'
    <2> USE <1>1 DEF PipeClose, OwnerAfterClose, NewPipe
    <2>1. TypeOK'
        OBVIOUS
    <2>2. Holders'
        BY DEF Holders
    <2>3. AtRest' /\ ConnectedHasDescriptor'
        BY DEF AtRest, ConnectedHasDescriptor
    <2> QED
        BY <2>1, <2>2, <2>3
<1>2. ASSUME NEW p \in Pipes, PipeOpen(p)
      PROVE  OsInv'
    <2> USE <1>2 DEF PipeOpen, Opens, NextFd, FreeFds
    <2>1. TypeOK'
        OBVIOUS
    <2>2. Holders'
        BY DEF Holders
    <2>3. AtRest' /\ ConnectedHasDescriptor'
        BY DEF AtRest, ConnectedHasDescriptor
    <2> QED
        BY <2>1, <2>2, <2>3
<1>3. ASSUME NEW p \in Pipes, PipeCreate(p) \/ PipeOpenFails(p)
      PROVE  OsInv'
    <2> USE <1>3 DEF PipeCreate, PipeOpenFails, NewPipe
    <2>1. TypeOK'
        <3>1. CASE PipeCreate(p)
            BY <3>1
        <3>2. CASE PipeOpenFails(p)
            BY <3>2
        <3> QED
            BY <3>1, <3>2
    <2>2. Holders'
        BY DEF Holders
    <2>3. AtRest' /\ ConnectedHasDescriptor'
        BY DEF AtRest, ConnectedHasDescriptor
    <2> QED
        BY <2>1, <2>2, <2>3
<1>4. CASE UNCHANGED <<pipe, owner>> /\ fifo' = FALSE
    BY <1>4 DEF Holders, AtRest, ConnectedHasDescriptor
<1> QED
    BY <1>1, <1>2, <1>3, <1>4
       DEF PipeNext, PipeCreateFails, PipeSendFails, PipeReceiveFails, PipeUnlink

\* The steps of one shared memory.
LEMMA ShmStep ==
    ASSUME OsInv, ShmNext, UNCHANGED <<sockVars, pipeVars>>
    PROVE  OsInv'
<1> USE DEF OsInv, TypeOK, ShmFields, sockVars, pipeVars
<1>1. ASSUME NEW m \in Memories, NEW b \in BOOLEAN, ShmOpen(m, b)
      PROVE  OsInv'
    <2> USE <1>1 DEF ShmOpen, Opens, NextFd, FreeFds
    <2>1. TypeOK'
        OBVIOUS
    <2>2. Holders'
        BY DEF Holders
    <2>3. AtRest' /\ ConnectedHasDescriptor'
        BY DEF AtRest, ConnectedHasDescriptor
    <2> QED
        BY <2>1, <2>2, <2>3
<1>2. ASSUME NEW m \in Memories, NEW n \in Memories, ShmMove(m, n)
      PROVE  OsInv'
    <2> USE <1>2 DEF ShmMove, NewShm, OwnerAfterMove
    <2>1. TypeOK'
        OBVIOUS
    <2>2. Holders'
        BY DEF Holders
    <2>3. AtRest' /\ ConnectedHasDescriptor'
        BY DEF AtRest, ConnectedHasDescriptor
    <2> QED
        BY <2>1, <2>2, <2>3
<1>3. ASSUME NEW m \in Memories, NEW new \in ShmFields, shm' = [shm EXCEPT ![m] = new],
             new.fd \in {shm[m].fd, -1}, owner' = owner, segment' \in BOOLEAN
      PROVE  OsInv'
    <2> USE <1>3
    <2>1. TypeOK'
        OBVIOUS
    <2>2. Holders'
        BY DEF Holders
    <2>3. AtRest' /\ ConnectedHasDescriptor'
        BY DEF AtRest, ConnectedHasDescriptor
    <2> QED
        BY <2>1, <2>2, <2>3
<1>4. ASSUME NEW m \in Memories, ShmConstruct(m) \/ ShmDestroy(m)
      PROVE  OsInv'
    <2>1. shm' = [shm EXCEPT ![m] = NewShm] \/ shm' = [shm EXCEPT ![m] = DeadShm]
        BY <1>4 DEF ShmConstruct, ShmDestroy
    <2>2. NewShm \in ShmFields /\ NewShm.fd = -1 /\ DeadShm \in ShmFields /\ DeadShm.fd = -1
        BY DEF NewShm, DeadShm
    <2>3. owner' = owner /\ segment' \in BOOLEAN
        BY <1>4 DEF ShmConstruct, ShmDestroy
    <2> QED
        BY <1>3, <2>1, <2>2, <2>3 DEF ShmFields
<1>5. ASSUME NEW m \in Memories, ShmOpenFails(m)
      PROVE  OsInv'
    <2>1. [shm[m] EXCEPT !.fd = -1] \in ShmFields
        OBVIOUS
    <2>2. shm' = [shm EXCEPT ![m] = [shm[m] EXCEPT !.fd = -1]] /\ UNCHANGED <<owner, segment>>
        BY <1>5 DEF ShmOpenFails
    <2> QED
        BY <1>3, <2>1, <2>2
<1>6. ASSUME NEW m \in Memories, ShmClose(m) \/ ShmUnlink(m)
      PROVE  OsInv'
    <2>1. [shm[m] EXCEPT !.ptr = "NULL"] \in ShmFields
        OBVIOUS
    <2>2. /\ shm' = [shm EXCEPT ![m] = [shm[m] EXCEPT !.ptr = "NULL"]]
          /\ owner' = owner /\ segment' \in BOOLEAN
        BY <1>6 DEF ShmClose, ShmUnlink
    <2> QED
        BY <1>3, <2>1, <2>2
<1>7. ASSUME NEW m \in Memories, NEW b \in BOOLEAN, SetUnlinkOnDestruction(m, b)
      PROVE  OsInv'
    <2>1. [shm[m] EXCEPT !.uod = b] \in ShmFields
        BY SMTT(30)
    <2>2. shm' = [shm EXCEPT ![m] = [shm[m] EXCEPT !.uod = b]] /\ UNCHANGED <<owner, segment>>
        BY <1>7 DEF SetUnlinkOnDestruction
    <2> QED
        BY <1>3, <2>1, <2>2
<1> QED
    BY <1>1, <1>2, <1>4, <1>5, <1>6, <1>7 DEF ShmNext

\* A step of the program is one of these.
LEMMA NextOsInv == OsInv /\ [Next]_vars => OsInv'
<1> SUFFICES ASSUME OsInv, [Next]_vars PROVE OsInv'
    OBVIOUS
<1>1. CASE SocketNext /\ UNCHANGED <<pipeVars, shmVars>>
    BY <1>1, SocketStep, SocketMove, ListenerStep DEF SocketNext
<1>2. CASE PipeNext /\ UNCHANGED <<sockVars, shmVars>>
    BY <1>2, PipeStep
<1>3. CASE ShmNext /\ UNCHANGED <<sockVars, pipeVars>>
    BY <1>3, ShmStep
<1>4. CASE UNCHANGED vars
    BY <1>4 DEF vars, sockVars, pipeVars, shmVars, OsInv, TypeOK, Holders, AtRest,
                ConnectedHasDescriptor
<1> QED
    BY <1>1, <1>2, <1>3, <1>4 DEF Next

(* OsInv is an invariant of OsProcess: types, the owner of every descriptor *)
(* held, what an object at rest holds, and the status of the sockets.      *)
THEOREM OsInvariance == Spec => []OsInv
    BY InitOsInv, NextOsInv, PTL DEF Spec

(* Until a listenTo fails in bind or listen, no object of the process uses *)
(* or closes a descriptor of another one.                                  *)
THEOREM NobodyUsesAForeignDescriptor == Spec => []HolderIsOwner
<1>1. OsInv => HolderIsOwner
    BY DEF OsInv, Holders, HolderIsOwner, FdOf
<1> QED
    BY <1>1, OsInvariance, PTL

(* A TcpSocket that believes to be connected has a descriptor, or was      *)
(* moved from.                                                             *)
THEOREM ConnectedSocketsHaveDescriptors == Spec => []ConnectedHasDescriptor
<1>1. OsInv => ConnectedHasDescriptor
    BY DEF OsInv
<1> QED
    BY <1>1, OsInvariance, PTL

\* A socket gives up its descriptor only when it closes or passes it on.
LEMMA SocketsLeakNothing ==
    ASSUME OsInv, Next, NEW s \in Sockets, NEW f \in Fds,
           owner[f] = s, sock[s].fd = f, owner'[f] = s
    PROVE  sock'[s].fd = f
<1> USE DEF OsInv, TypeOK, SockFields
<1>1. ASSUME NEW t \in Sockets, SockConstruct(t) PROVE sock'[s].fd = f
    BY <1>1 DEF SockConstruct, AtRest
<1>2. ASSUME NEW t \in Sockets, ConnectTo(t) \/ SockSendFails(t) \/ SockReceiveFails(t)
      PROVE  sock'[s].fd = f
    BY <1>2 DEF ConnectTo, SockSendFails, SockReceiveFails
<1>3. ASSUME NEW t \in Sockets, SockClose(t) \/ SockDestroy(t) PROVE sock'[s].fd = f
    BY <1>3 DEF SockClose, SockDestroy, SockCloseThen, OwnerAfterClose
<1>4. ASSUME NEW t \in Sockets, NEW u \in Sockets, SockMove(t, u) PROVE sock'[s].fd = f
    BY <1>4 DEF SockMove, OwnerAfterMove, AtRest
<1>5. ASSUME NEW l \in Listeners, NEW t \in Sockets, AcceptRequest(l, t)
      PROVE  sock'[s].fd = f
    BY <1>5 DEF AcceptRequest, FromSockfd, AtRest
<1>6. CASE sock' = sock
    BY <1>6
<1> QED
    BY <1>1, <1>2, <1>3, <1>4, <1>5, <1>6
       DEF Next, SocketNext, sockVars, ListenTo, ListenToFails, ListenToNoSocket, LsockClose,
           LsockDestroy

\* A listener overwrites only a number it does not own.
LEMMA ListenersLeakNothing ==
    ASSUME OsInv, Next, NEW l \in Listeners, NEW f \in Fds,
           owner[f] = l, lsock[l].fd = f, owner'[f] = l
    PROVE  lsock'[l].fd = f
<1> USE DEF OsInv, TypeOK, LsockFields
<1>1. ASSUME NEW k \in Listeners, ListenTo(k) \/ ListenToFails(k) \/ ListenToNoSocket(k)
      PROVE  lsock'[l].fd = f
    BY <1>1 DEF ListenTo, ListenToFails, ListenToNoSocket, AtRest
<1>2. ASSUME NEW k \in Listeners, LsockClose(k) \/ LsockDestroy(k) PROVE lsock'[l].fd = f
    BY <1>2 DEF LsockClose, LsockDestroy, OwnerAfterClose
<1>3. CASE lsock' = lsock
    BY <1>3
<1> QED
    BY <1>1, <1>2, <1>3 DEF Next, SocketNext, sockVars, AcceptRequest

\* A pipe overwrites a number that it owns only in the state CREATED.
LEMMA PipesLeakWhenCreated ==
    ASSUME OsInv, Next, NEW p \in Pipes, NEW f \in Fds,
           owner[f] = p, pipe[p].fd = f, owner'[f] = p, pipe[p].state # "CREATED"
    PROVE  pipe'[p].fd = f
<1> USE DEF OsInv, TypeOK, PipeFields
<1>1. ASSUME NEW q \in Pipes, PipeClose(q) PROVE pipe'[p].fd = f
    BY <1>1 DEF PipeClose, OwnerAfterClose
<1>2. ASSUME NEW q \in Pipes, PipeCreate(q) PROVE pipe'[p].fd = f
    BY <1>2 DEF PipeCreate
<1>3. ASSUME NEW q \in Pipes, PipeOpen(q) \/ PipeOpenFails(q) PROVE pipe'[p].fd = f
    BY <1>3 DEF PipeOpen, PipeOpenFails, AtRest
<1>4. CASE pipe' = pipe
    BY <1>4
<1> QED
    BY <1>1, <1>2, <1>3, <1>4
       DEF Next, PipeNext, pipeVars, PipeCreateFails, PipeSendFails, PipeReceiveFails, PipeUnlink

(* Only shared memories, and pipes that were created again while they were *)
(* open, leak descriptors.                                                 *)
THEOREM OnlyTheseLeak == Spec => LeaksOnlyHere
<1>1. ASSUME OsInv, [Next]_vars
      PROVE  [\A f \in Fds, o \in Objects :
                 owner[f] = o /\ FdOf(o) = f /\ owner'[f] = o /\ FdOf(o)' # f
                    => o \in Memories \/ (o \in Pipes /\ pipe[o].state = "CREATED")]_vars
    <2> SUFFICES ASSUME Next, NEW f \in Fds, NEW o \in Objects,
                        owner[f] = o, FdOf(o) = f, owner'[f] = o, FdOf(o)' # f, o \notin Memories
                 PROVE  o \in Pipes /\ pipe[o].state = "CREATED"
        BY <1>1
    <2>1. CASE o \in Sockets
        BY <1>1, <2>1, SocketsLeakNothing DEF FdOf
    <2>2. CASE o \in Listeners
        BY <1>1, <2>2, ListenersLeakNothing DEF FdOf
    <2>3. CASE o \in Pipes
        BY <1>1, <2>3, PipesLeakWhenCreated DEF FdOf
    <2> QED
        BY <2>1, <2>2, <2>3
<1> QED
    BY <1>1, OsInvariance, PTL DEF Spec, LeaksOnlyHere
=============================================================================
