---------------------------- MODULE Descriptors ----------------------------
(***************************************************************************)
(* The descriptor table of one POSIX process, as the sockets, listeners,   *)
(* pipes and shared memories of the library use it (external: the kernel). *)
(* A call that opens something gets the lowest free descriptor, so a       *)
(* descriptor one object has given back is the next one another gets.      *)
(* 0, 1 and 2 are the standard streams and are never free.                 *)
(***************************************************************************)
EXTENDS Integers

CONSTANTS Fds,    \* the descriptors the process may open
          NoOne   \* the owner of a free descriptor

ASSUME FdsAssumption == Fds \subseteq Nat \ (0 .. 2)

VARIABLE owner    \* owner[f]: the object for which f was opened, or NoOne

FreeFds == {f \in Fds : owner[f] = NoOne}

NextFd(f) == f \in FreeFds /\ \A g \in FreeFds : f <= g

\* socket, accept, open, shm_open: o gets f.
Opens(o, f) ==
    /\ NextFd(f)
    /\ owner' = [owner EXCEPT ![f] = o]

\* close(f): whoever asks, and EBADF when f is not open.
OwnerAfterClose(f) == [g \in Fds |-> IF g = f THEN NoOne ELSE owner[g]]

\* A moved object: what o had opened is now opened for p.
OwnerAfterMove(o, p) == [g \in Fds |-> IF owner[g] = o THEN p ELSE owner[g]]
=============================================================================
