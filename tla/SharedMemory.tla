---------------------------- MODULE SharedMemory ---------------------------
(***************************************************************************)
(* SharedMemory (POSIX): objects with one name.  ptr tells a mapping from  *)
(* NULL, and from the MAP_FAILED of a failed mmap, which the code takes    *)
(* for an address.  No operation closes the descriptor.                    *)
(***************************************************************************)
EXTENDS Descriptors

CONSTANT Memories

VARIABLES shm,      \* shm[m] = [fd, ptr, uod, alive]
          segment   \* the name exists

ShmFields == [fd : Fds \cup {-1}, ptr : {"NULL", "MAPPED", "MAP_FAILED"},
              uod : BOOLEAN, alive : BOOLEAN]
NewShm == [fd |-> -1, ptr |-> "NULL", uod |-> TRUE, alive |-> TRUE]
DeadShm == [NewShm EXCEPT !.alive = FALSE]

ShmInit == shm = [m \in Memories |-> DeadShm] /\ segment = FALSE

ShmConstruct(m) ==
    /\ ~shm[m].alive
    /\ shm' = [shm EXCEPT ![m] = NewShm]
    /\ UNCHANGED <<owner, segment>>

ShmMove(m, n) ==
    /\ shm[m].alive /\ ~shm[n].alive
    /\ shm' = [shm EXCEPT ![n] = shm[m],
                          ![m] = [NewShm EXCEPT !.uod = FALSE]]
    /\ owner' = OwnerAfterMove(m, n)
    /\ UNCHANGED segment

\* open: shm_open, then ftruncate, then mmap.  When ftruncate fails, ptr
\* stays NULL and the name is removed.
ShmOpen(m, create) ==
    /\ shm[m].alive /\ shm[m].ptr = "NULL"
    /\ segment \/ create
    /\ \E f \in Fds, p \in {"NULL", "MAPPED", "MAP_FAILED"} :
          /\ Opens(m, f)
          /\ shm' = [shm EXCEPT ![m] = [fd |-> f, ptr |-> p, uod |-> @.uod, alive |-> @.alive]]
          /\ segment' = (p # "NULL")

\* shm_open fails: the number of an earlier descriptor is overwritten.
ShmOpenFails(m) ==
    /\ shm[m].alive /\ shm[m].ptr = "NULL"
    /\ shm' = [shm EXCEPT ![m].fd = -1]
    /\ UNCHANGED <<owner, segment>>

\* munmap; the descriptor stays open.
ShmClose(m) ==
    /\ shm[m].ptr # "NULL"
    /\ shm' = [shm EXCEPT ![m].ptr = "NULL"]
    /\ UNCHANGED <<owner, segment>>

ShmUnlink(m) ==
    /\ shm[m].alive
    /\ shm' = [shm EXCEPT ![m].ptr = "NULL"]
    /\ segment' = FALSE
    /\ UNCHANGED owner

SetUnlinkOnDestruction(m, uod) ==
    /\ shm[m].alive
    /\ shm' = [shm EXCEPT ![m].uod = uod]
    /\ UNCHANGED <<owner, segment>>

\* An object that was closed first does not unlink.
ShmDestroy(m) ==
    /\ shm[m].alive
    /\ shm' = [shm EXCEPT ![m] = DeadShm]
    /\ segment' = IF shm[m].ptr # "NULL" /\ shm[m].uod THEN FALSE ELSE segment
    /\ UNCHANGED owner
=============================================================================
