---------------------------- MODULE MCOsProcess ----------------------------
(***************************************************************************)
(* OsProcess for TLC.  A behaviour uses any CastSize of the objects: what  *)
(* a stale number can do takes the object that keeps it, the one that gets *)
(* the descriptor next, and the one that gets it after that.               *)
(***************************************************************************)
EXTENDS OsProcess, FiniteSetsExt, TLC

CONSTANT CastSize

VARIABLE cast

Symmetry == UNION {Permutations(S) : S \in {Sockets, Listeners, Pipes, Memories}}

MCInit == Init /\ cast \in kSubset(CastSize, Objects)

MCNext ==
    /\ Next
    /\ UNCHANGED cast
    /\ \A s \in Sockets \ cast : sock'[s] = sock[s]
    /\ \A l \in Listeners \ cast : lsock'[l] = lsock[l]
    /\ \A p \in Pipes \ cast : pipe'[p] = pipe[p]
    /\ \A m \in Memories \ cast : shm'[m] = shm[m]

MCSpec == MCInit /\ [][MCNext]_<<vars, cast>>
=============================================================================
