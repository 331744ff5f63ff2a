---------------------- MODULE InterprocessSignalProofs ----------------------
(***************************************************************************)
(* Proofs about InterprocessSignal, for any number of processes and all    *)
(* three builds.                                                           *)
(***************************************************************************)
EXTENDS InterprocessSignal, TLAPS

\* Where the builds differ: only the futex and posix builds put a process to
\* sleep outside of the kernel's own bookkeeping, and the posix build has no
\* word to remember a signal in.
BuildsInv ==
    /\ build = "windows" => \A p \in Procs : st[p] \in {"out", "try"}
    /\ build = "posix" => word = 0
    /\ build # "posix" => \A p \in Procs : st[p] # "stranded"

\* The inductive invariant.
SignalInv == SignalTypeOK /\ BuildsInv /\ NoForgottenSleeper

-----------------------------------------------------------------------------
\* The state a MASTER's constructor leaves.
LEMMA InitSignalInv == Init => SignalInv
<1> SUFFICES ASSUME Init PROVE SignalInv
    OBVIOUS
<1>1. SignalTypeOK
    <2>1. raised \in BOOLEAN
        BY Zenon DEF Init, SignalInit
    <2> QED
        BY <2>1 DEF Init, SignalInit, SignalTypeOK, States
<1> QED
    BY <1>1 DEF Init, SignalInit, SignalInv, BuildsInv, NoForgottenSleeper, Asleep

\* Types.
LEMMA NextTypeOK == SignalTypeOK /\ [Next]_signalVars => SignalTypeOK'
<1> SUFFICES ASSUME SignalTypeOK, [Next]_signalVars PROVE SignalTypeOK'
    OBVIOUS
<1> USE DEF SignalTypeOK, States
<1>1. CASE SlaveConstruct
    BY <1>1 DEF SlaveConstruct, Asleep
<1>2. ASSUME NEW p \in Procs, WaitBegin(p) \/ SpuriousWakeup(p) \/ FutexFails(p) \/ WaitStep(p)
      PROVE  SignalTypeOK'
    BY <1>2 DEF WaitBegin, SpuriousWakeup, FutexFails, WaitStep, CasFails, FutexWait, FutexRetry
<1>3. ASSUME NEW p \in Procs, WaitReturns(p) PROVE SignalTypeOK'
    <2>1. raised' \in BOOLEAN
        BY <1>3, Zenon DEF WaitReturns
    <2> QED
        BY <1>3, <2>1 DEF WaitReturns
<1>4. ASSUME NEW p \in Procs, PostCas(p) \/ SetEvent(p) PROVE SignalTypeOK'
    <2>1. raised' \in BOOLEAN
        BY <1>4, Zenon DEF PostCas, SetEvent
    <2> QED
        BY <1>4, <2>1 DEF PostCas, SetEvent
<1>5. ASSUME NEW p \in Procs, PostAbsorbed(p) \/ FutexWake(p) PROVE SignalTypeOK'
    BY <1>5 DEF PostAbsorbed, FutexWake, WakeOne, Asleep, signalVars
<1>6. ASSUME NEW p \in Procs, CondSignal(p) PROVE SignalTypeOK'
    <2>1. raised' \in BOOLEAN
        BY <1>6, Zenon DEF CondSignal
    <2> QED
        BY <1>6, <2>1 DEF CondSignal, WakeOne, Asleep
<1>7. CASE UNCHANGED signalVars
    BY <1>7 DEF signalVars
<1> QED
    BY <1>1, <1>2, <1>3, <1>4, <1>5, <1>6, <1>7 DEF Next, Waiting, SignalStep, SignalReturns

\* The builds keep apart.
LEMMA NextBuildsInv == SignalTypeOK /\ BuildsInv /\ [Next]_signalVars => BuildsInv'
<1> SUFFICES ASSUME SignalTypeOK, BuildsInv, [Next]_signalVars PROVE BuildsInv'
    OBVIOUS
<1> USE DEF SignalTypeOK, BuildsInv
<1>1. CASE SlaveConstruct
    BY <1>1 DEF SlaveConstruct
<1>2. ASSUME NEW p \in Procs, WaitBegin(p) \/ SpuriousWakeup(p) \/ FutexFails(p) \/ WaitStep(p)
      PROVE  BuildsInv'
    BY <1>2 DEF WaitBegin, SpuriousWakeup, FutexFails, WaitStep, CasFails, FutexWait, FutexRetry
<1>3. ASSUME NEW p \in Procs, WaitReturns(p) PROVE BuildsInv'
    BY <1>3 DEF WaitReturns
<1>4. ASSUME NEW p \in Procs, PostCas(p) \/ SetEvent(p) PROVE BuildsInv'
    BY <1>4 DEF PostCas, SetEvent
<1>5. ASSUME NEW p \in Procs, PostAbsorbed(p) \/ FutexWake(p) \/ CondSignal(p)
      PROVE  BuildsInv'
    BY <1>5 DEF PostAbsorbed, FutexWake, CondSignal, WakeOne, Asleep, signalVars
<1>6. CASE UNCHANGED signalVars
    BY <1>6 DEF signalVars
<1> QED
    BY <1>1, <1>2, <1>3, <1>4, <1>5, <1>6 DEF Next, Waiting, SignalStep, SignalReturns

\* Whoever is on the way stays on the way until the word is 0, or hands over:
\* fpost to the one it wakes, and a wakeup to the process that it is for.
LEMMA NextNoForgottenSleeper == SignalInv /\ [Next]_signalVars => NoForgottenSleeper'
<1> SUFFICES ASSUME SignalInv, [Next]_signalVars, word' = 1, Asleep' # {}
             PROVE  \E q \in Procs : st'[q] \in {"try", "fwait", "woken", "wake"}
    BY DEF NoForgottenSleeper
<1> USE DEF SignalInv, SignalTypeOK, BuildsInv
<1>1. PICK s \in Procs : st'[s] = "sleep"
    BY DEF Asleep
<1>2. CASE SlaveConstruct
    BY <1>1, <1>2 DEF SlaveConstruct, NoForgottenSleeper, Asleep
<1>3. ASSUME NEW p \in Procs, WaitBegin(p) \/ CasFails(p) \/ FutexRetry(p) \/ SpuriousWakeup(p)
      PROVE  \E q \in Procs : st'[q] \in {"try", "fwait", "woken", "wake"}
    BY <1>3 DEF WaitBegin, CasFails, FutexRetry, SpuriousWakeup
<1>4. ASSUME NEW p \in Procs, FutexWait(p)
      PROVE  \E q \in Procs : st'[q] \in {"try", "fwait", "woken", "wake"}
    BY <1>4 DEF FutexWait
<1>5. ASSUME NEW p \in Procs, FutexFails(p)
      PROVE  \E q \in Procs : st'[q] \in {"try", "fwait", "woken", "wake"}
    BY <1>1, <1>5 DEF FutexFails, NoForgottenSleeper, Asleep
<1>6. ASSUME NEW p \in Procs, WaitReturns(p) PROVE FALSE
    BY <1>6 DEF WaitReturns
<1>7. ASSUME NEW p \in Procs, PostCas(p)
      PROVE  \E q \in Procs : st'[q] \in {"try", "fwait", "woken", "wake"}
    BY <1>7 DEF PostCas
<1>8. ASSUME NEW p \in Procs, PostAbsorbed(p)
      PROVE  \E q \in Procs : st'[q] \in {"try", "fwait", "woken", "wake"}
    BY <1>1, <1>8 DEF PostAbsorbed, signalVars, NoForgottenSleeper, Asleep
<1>9. ASSUME NEW p \in Procs, FutexWake(p)
      PROVE  \E q \in Procs : st'[q] \in {"try", "fwait", "woken", "wake"}
    BY <1>1, <1>9 DEF FutexWake, WakeOne, Asleep
<1>10. ASSUME NEW p \in Procs, SetEvent(p) PROVE FALSE
    BY <1>1, <1>10 DEF SetEvent
<1>11. ASSUME NEW p \in Procs, CondSignal(p) PROVE FALSE
    BY <1>11 DEF CondSignal
<1>12. CASE UNCHANGED signalVars
    BY <1>1, <1>12 DEF signalVars, NoForgottenSleeper, Asleep
<1> QED
    BY <1>2, <1>3, <1>4, <1>5, <1>6, <1>7, <1>8, <1>9, <1>10, <1>11, <1>12
    DEF Next, Waiting, WaitStep, SignalStep, SignalReturns

(* SignalInv is an invariant of the signal in all three builds.            *)
THEOREM SignalInvariance == Spec => []SignalInv
<1>1. SignalInv /\ [Next]_signalVars => SignalInv'
    BY NextTypeOK, NextBuildsInv, NextNoForgottenSleeper DEF SignalInv
<1> QED
    BY <1>1, InitSignalInv, PTL DEF Spec

(* fwait and fpost leave no sleeper beside a signal that is up, with any   *)
(* number of processes, interrupted sleeps and a constructor at any time.  *)
THEOREM NobodySleepsForgotten == Spec => []NoForgottenSleeper
<1>1. SignalInv => NoForgottenSleeper
    BY DEF SignalInv
<1> QED
    BY <1>1, SignalInvariance, PTL
=============================================================================
