---------------------------- MODULE MCSignalGroup ---------------------------
(* SignalGroup for the liveness check: each thread keeps to one role, so   *)
(* that two waiters that compete and a signaller fit one state graph.      *)
EXTENDS SignalGroup

CONSTANTS Waiters, Signallers

ASSUME RolesAssumption == Waiters \cup Signallers = Threads

RoleCalls(t) ==
    \/ t \in Waiters /\ \/ \E i \in Signals : Wait(t, i) \/ WaitFor(t, i)
                        \/ WaitOne(t) \/ WaitOneFor(t)
    \/ t \in Signallers /\ \E i \in Signals : Signal(t, i)

RoleNext == \E t \in Threads : RoleCalls(t) \/ Runs(t) \/ Acquires(t) \/ MissStale(t) \/ WakeUp(t)

RoleSpec == /\ Init /\ [][RoleNext]_vars
            /\ \A t \in Threads : WF_vars(Runs(t)) /\ SF_vars(Acquires(t))
=============================================================================
