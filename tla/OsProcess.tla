----------------------------- MODULE OsProcess -----------------------------
(***************************************************************************)
(* One process that uses sockets, listeners, pipes and shared memories     *)
(* side by side.  They share nothing but the kernel's descriptor table,    *)
(* which is enough to let one object break another.                        *)
(***************************************************************************)
EXTENDS TcpListeningSocket, NamedPipe, SharedMemory

VARIABLES moved,         \* history: the sockets moved from, and those made from one
          failedListen   \* history: some listenTo failed in bind or listen

sockVars == <<sock, lsock, moved, failedListen>>
shmVars == <<shm, segment>>
pipeVars == <<pipe, fifo>>
vars == <<owner, sockVars, pipeVars, shmVars>>

Objects == Sockets \cup Listeners \cup Pipes \cup Memories

\* No storage is that of two objects.
ASSUME ObjectsAssumption ==
    /\ Sockets \cap Listeners = {} /\ Sockets \cap Pipes = {} /\ Sockets \cap Memories = {}
    /\ Listeners \cap Pipes = {} /\ Listeners \cap Memories = {} /\ Pipes \cap Memories = {}
    /\ NoOne \notin Objects

Init ==
    /\ owner = [f \in Fds |-> NoOne]
    /\ SockInit /\ LsockInit /\ PipeInit /\ ShmInit
    /\ moved = {} /\ failedListen = FALSE

SocketNext ==
    \/ /\ \E s \in Sockets :
             \/ SockConstruct(s) \/ ConnectTo(s) \/ SockClose(s) \/ SockDestroy(s)
             \/ SockSendFails(s) \/ SockReceiveFails(s)
       /\ moved' = {s \in moved : sock'[s].status # "none"}
       /\ UNCHANGED <<lsock, failedListen>>
    \/ /\ \E s, t \in Sockets : SockMove(s, t) /\ moved' = moved \cup (IF s \in moved THEN {s, t} ELSE {s})
       /\ UNCHANGED <<lsock, failedListen>>
    \/ /\ \E l \in Listeners :
             \/ ListenTo(l) \/ ListenToNoSocket(l) \/ LsockClose(l) \/ LsockDestroy(l)
             \/ \E s \in Sockets : AcceptRequest(l, s)
       /\ UNCHANGED <<moved, failedListen>>
    \/ /\ \E l \in Listeners : ListenToFails(l)
       /\ failedListen' = TRUE
       /\ UNCHANGED moved

PipeNext ==
    \E p \in Pipes :
       \/ PipeCreate(p) \/ PipeCreateFails(p) \/ PipeOpen(p) \/ PipeOpenFails(p)
       \/ PipeSendFails(p) \/ PipeReceiveFails(p) \/ PipeUnlink(p)
       \/ PipeClose(p) /\ UNCHANGED fifo

ShmNext ==
    \E m \in Memories :
       \/ ShmConstruct(m) \/ ShmOpenFails(m) \/ ShmClose(m) \/ ShmUnlink(m) \/ ShmDestroy(m)
       \/ \E b \in BOOLEAN : ShmOpen(m, b) \/ SetUnlinkOnDestruction(m, b)
       \/ \E n \in Memories : ShmMove(m, n)

Next ==
    \/ SocketNext /\ UNCHANGED <<pipeVars, shmVars>>
    \/ PipeNext /\ UNCHANGED <<sockVars, shmVars>>
    \/ ShmNext /\ UNCHANGED <<sockVars, pipeVars>>

Spec == Init /\ [][Next]_vars

TypeOK ==
    /\ owner \in [Fds -> Objects \cup {NoOne}]
    /\ sock \in [Sockets -> SockFields] /\ moved \subseteq Sockets
    /\ lsock \in [Listeners -> LsockFields]
    /\ pipe \in [Pipes -> PipeFields] /\ fifo \in BOOLEAN
    /\ shm \in [Memories -> ShmFields] /\ segment \in BOOLEAN
    /\ failedListen \in BOOLEAN

\* The descriptor number an object holds.
FdOf(o) ==
    CASE o \in Sockets -> sock[o].fd
      [] o \in Listeners -> lsock[o].fd
      [] o \in Pipes -> pipe[o].fd
      [] OTHER -> shm[o].fd

-----------------------------------------------------------------------------
(* Until some listenTo fails in bind or listen, an object that holds a     *)
(* descriptor number is the object the descriptor was opened for: nobody   *)
(* uses or closes a descriptor of somebody else, whatever is closed,       *)
(* reopened, moved or destroyed in between.  After such a failure it is    *)
(* not so: the listener keeps the number of the descriptor it has closed   *)
(* and closes it again, for whoever got it since, in close() or in its     *)
(* destructor (TcpListeningSocket.cpp 110, 124, 132, 176).                 *)
HolderIsOwner ==
    ~failedListen => \A o \in Objects : FdOf(o) \in Fds => owner[FdOf(o)] = o

(* A descriptor is leaked - still open for an object that no longer holds  *)
(* its number - only by a shared memory, which never closes one, or by     *)
(* open() on a pipe on which create() succeeded while it was connected.    *)
(* Sockets and listeners, moved or not, leak nothing.                      *)
LeaksOnlyHere ==
    [][\A f \in Fds, o \in Objects :
          owner[f] = o /\ FdOf(o) = f /\ owner'[f] = o /\ FdOf(o)' # f
             => o \in Memories \/ (o \in Pipes /\ pipe[o].state = "CREATED")]_vars

(* A socket that believes to be connected has a descriptor, unless it was  *)
(* moved from: the move constructor leaves the status behind               *)
(* (TcpSocket.cpp 50-57), and isConnected then answers from an             *)
(* uninitialised variable.                                                 *)
ConnectedHasDescriptor ==
    \A s \in Sockets : sock[s].status = "CONNECTED" => sock[s].fd # 0 \/ s \in moved
=============================================================================
