------------------------- MODULE SignalGroupProofs --------------------------
(***************************************************************************)
(* Proofs about SignalGroup, for any number of signals and threads: the    *)
(* group invariant GroupInv is inductive.  A wakeup is not lost because a  *)
(* thread decides to sleep and falls asleep under the mutex that every     *)
(* notification takes.                                                     *)
(***************************************************************************)
EXTENDS SignalGroup, TLAPS

\* The constructor establishes the invariant.
LEMMA InitGroupInv == Init => GroupInv
<1> SUFFICES ASSUME Init PROVE GroupInv
    OBVIOUS
<1>1. TypeOK
    BY SigCountAssumption DEF Init, TypeOK, Signals, PCs, NoCall, Timeouts
<1>2. MutexHeld
    BY NoThreadAssumption DEF Init, MutexHeld, Locked
<1>3. NoLostWakeup
    BY DEF Init, NoLostWakeup
<1>4. PendingIsUp /\ LowestFirst
    BY DEF Init, PendingIsUp, LowestFirst, Scanning
<1> QED
    BY <1>1, <1>2, <1>3, <1>4 DEF GroupInv

\* Starting a call.
LEMMA BeginInv ==
    ASSUME GroupInv, NEW t \in Threads, NEW first \in Signals, NEW last \in Signals,
           NEW timeout \in Timeouts, Begin(t, first, last, timeout)
    PROVE  GroupInv'
<1> USE DEF Begin, StartScan
<1>1. TypeOK'
    BY SigCountAssumption DEF GroupInv, TypeOK, Signals, PCs
<1>2. MutexHeld'
    BY DEF GroupInv, TypeOK, MutexHeld, Locked
<1>3. NoLostWakeup'
    BY DEF GroupInv, TypeOK, NoLostWakeup, Notifying, Range
<1>4. PendingIsUp'
    BY DEF GroupInv, TypeOK, PendingIsUp, Rising, Scanning
<1>5. LowestFirst'
    BY SigCountAssumption DEF GroupInv, TypeOK, LowestFirst, Scanning, Range, Signals
<1> QED
    BY <1>1, <1>2, <1>3, <1>4, <1>5 DEF GroupInv

\* Consuming a signal.
LEMMA ConsumeInv ==
    ASSUME GroupInv, NEW t \in Threads, Consume(t) PROVE GroupInv'
<1> USE DEF Consume, Return
<1>1. TypeOK'
    BY SigCountAssumption DEF GroupInv, TypeOK, Signals, PCs, NoCall, Timeouts
<1>2. MutexHeld'
    BY NoThreadAssumption DEF GroupInv, TypeOK, MutexHeld, Locked
<1>3. NoLostWakeup'
    BY DEF GroupInv, TypeOK, NoLostWakeup, Notifying, Range, Scanning
<1>4. PendingIsUp'
    BY DEF GroupInv, TypeOK, PendingIsUp, Rising, Scanning
<1>5. LowestFirst'
    BY SigCountAssumption DEF GroupInv, TypeOK, LowestFirst, Scanning, Range, Signals
<1> QED
    BY <1>1, <1>2, <1>3, <1>4, <1>5 DEF GroupInv

\* Passing over a signal that is down.
LEMMA MissInv ==
    ASSUME GroupInv, NEW t \in Threads, Miss(t) PROVE GroupInv'
<1> USE DEF Miss
<1>1. TypeOK'
    BY SigCountAssumption DEF GroupInv, TypeOK, Signals, PCs, NoCall, Timeouts
<1>2. MutexHeld'
    BY NoThreadAssumption DEF GroupInv, TypeOK, MutexHeld, Locked
<1>3. NoLostWakeup'
    BY SigCountAssumption DEF GroupInv, TypeOK, NoLostWakeup, Notifying, Range, Signals
<1>4. PendingIsUp'
    BY DEF GroupInv, TypeOK, PendingIsUp, Rising, Scanning
<1>5. LowestFirst'
    BY SigCountAssumption DEF GroupInv, TypeOK, LowestFirst, PendingIsUp, Scanning, Range, Signals
<1> QED
    BY <1>1, <1>2, <1>3, <1>4, <1>5 DEF GroupInv

\* Passing over a signal whose signal() has yet to lock the mutex.
LEMMA MissStaleInv ==
    ASSUME GroupInv, NEW t \in Threads, MissStale(t) PROVE GroupInv'
<1> USE DEF MissStale
<1>1. TypeOK'
    BY SigCountAssumption DEF GroupInv, TypeOK, Signals, PCs, NoCall, Timeouts
<1>2. MutexHeld'
    BY NoThreadAssumption DEF GroupInv, TypeOK, MutexHeld, Locked
<1>3. NoLostWakeup'
    BY SigCountAssumption DEF GroupInv, TypeOK, NoLostWakeup, Notifying, Range, Rising, Signals
<1>4. PendingIsUp'
    BY DEF GroupInv, TypeOK, PendingIsUp, Rising, Scanning
<1>5. LowestFirst'
    BY SigCountAssumption DEF GroupInv, TypeOK, LowestFirst, PendingIsUp, Scanning, Range, Signals
<1> QED
    BY <1>1, <1>2, <1>3, <1>4, <1>5 DEF GroupInv

\* Leaving the fast path.
LEMMA FastPathEndsInv ==
    ASSUME GroupInv, NEW t \in Threads, FastPathEnds(t) PROVE GroupInv'
<1> USE DEF FastPathEnds
<1>1. TypeOK'
    BY SigCountAssumption DEF GroupInv, TypeOK, Signals, PCs, NoCall, Timeouts
<1>2. MutexHeld'
    BY NoThreadAssumption DEF GroupInv, TypeOK, MutexHeld, Locked
<1>3. NoLostWakeup'
    BY DEF GroupInv, TypeOK, NoLostWakeup, Notifying, Range
<1>4. PendingIsUp'
    BY DEF GroupInv, TypeOK, PendingIsUp, Rising, Scanning
<1>5. LowestFirst'
    BY SigCountAssumption DEF GroupInv, TypeOK, LowestFirst, PendingIsUp, Scanning, Range, Signals
<1> QED
    BY <1>1, <1>2, <1>3, <1>4, <1>5 DEF GroupInv

\* Returning without a signal.
LEMMA GiveUpInv ==
    ASSUME GroupInv, NEW t \in Threads, GiveUp(t) PROVE GroupInv'
<1> USE DEF GiveUp, Return
<1>1. TypeOK'
    BY SigCountAssumption DEF GroupInv, TypeOK, Signals, PCs, NoCall, Timeouts
<1>2. MutexHeld'
    BY NoThreadAssumption DEF GroupInv, TypeOK, MutexHeld, Locked
<1>3. NoLostWakeup'
    BY DEF GroupInv, TypeOK, NoLostWakeup, Notifying, Range
<1>4. PendingIsUp'
    BY DEF GroupInv, TypeOK, PendingIsUp, Rising, Scanning
<1>5. LowestFirst'
    BY SigCountAssumption DEF GroupInv, TypeOK, LowestFirst, PendingIsUp, Scanning, Range, Signals
<1> QED
    BY <1>1, <1>2, <1>3, <1>4, <1>5 DEF GroupInv

\* Taking the mutex: the scan starts afresh.
LEMMA LockInv ==
    ASSUME GroupInv, NEW t \in Threads, Lock(t) PROVE GroupInv'
<1> USE DEF Lock, StartScan
<1>1. TypeOK'
    BY SigCountAssumption DEF GroupInv, TypeOK, Signals, PCs, NoCall, Timeouts
<1>2. MutexHeld'
    BY NoThreadAssumption DEF GroupInv, TypeOK, MutexHeld, Locked
<1>3. NoLostWakeup'
    <2> SUFFICES ASSUME NEW w \in Threads, NEW i \in call'[w].lo .. call'[w].hi, events'[i] = 1,
                        pc'[w] = "sleep" \/ (pc'[w] = "scan" /\ i < pos'[w])
                 PROVE  \E u \in Threads : Notifying(u, i)'
        BY DEF NoLostWakeup, Range, Notifying
    <2>1. i \in Range(w) /\ events[i] = 1
        BY DEF Range
    <2>2. w # t
        BY SigCountAssumption DEF GroupInv, TypeOK, Range, Signals
    <2>3. PICK u \in Threads : Notifying(u, i)
        BY <2>1, <2>2 DEF GroupInv, TypeOK, NoLostWakeup
    <2> QED
        BY <2>3 DEF GroupInv, TypeOK, Notifying
<1>4. PendingIsUp'
    BY DEF GroupInv, TypeOK, PendingIsUp, Rising, Scanning
<1>5. LowestFirst'
    BY SigCountAssumption DEF GroupInv, TypeOK, LowestFirst, PendingIsUp, Scanning, Range, Signals
<1> QED
    BY <1>1, <1>2, <1>3, <1>4, <1>5 DEF GroupInv

\* Falling asleep: whatever was passed over under the mutex is down, or its
\* signal() has yet to notify.
LEMMA SleepInv ==
    ASSUME GroupInv, NEW t \in Threads, Sleep(t) PROVE GroupInv'
<1> USE DEF Sleep
<1>1. TypeOK'
    BY SigCountAssumption DEF GroupInv, TypeOK, Signals, PCs, NoCall, Timeouts
<1>2. MutexHeld'
    BY NoThreadAssumption DEF GroupInv, TypeOK, MutexHeld, Locked
<1>3. NoLostWakeup'
    <2> SUFFICES ASSUME NEW w \in Threads, NEW i \in call'[w].lo .. call'[w].hi, events'[i] = 1,
                        pc'[w] = "sleep" \/ (pc'[w] = "scan" /\ i < pos'[w])
                 PROVE  \E u \in Threads : Notifying(u, i)'
        BY DEF NoLostWakeup, Range, Notifying
    <2>1. i \in Range(w) /\ events[i] = 1
        BY DEF Range
    <2>2. PICK u \in Threads : Notifying(u, i)
        <3>1. CASE w = t
            <4>1. pc[w] = "scan" /\ i < pos[w]
                BY <2>1, <3>1, SigCountAssumption DEF GroupInv, TypeOK, Range, Exhausted, Signals
            <4> QED
                BY <2>1, <4>1 DEF GroupInv, NoLostWakeup
        <3>2. CASE w # t
            BY <2>1, <3>2 DEF GroupInv, TypeOK, NoLostWakeup
        <3> QED
            BY <3>1, <3>2
    <2> QED
        BY <2>2 DEF GroupInv, TypeOK, Notifying
<1>4. PendingIsUp'
    BY DEF GroupInv, TypeOK, PendingIsUp, Rising, Scanning
<1>5. LowestFirst'
    BY SigCountAssumption DEF GroupInv, TypeOK, LowestFirst, PendingIsUp, Scanning, Range, Signals
<1> QED
    BY <1>1, <1>2, <1>3, <1>4, <1>5 DEF GroupInv

\* Waking up for no reason.
LEMMA WakeUpInv ==
    ASSUME GroupInv, NEW t \in Threads, WakeUp(t) PROVE GroupInv'
<1> USE DEF WakeUp
<1>1. TypeOK'
    BY SigCountAssumption DEF GroupInv, TypeOK, Signals, PCs, NoCall, Timeouts
<1>2. MutexHeld'
    BY NoThreadAssumption DEF GroupInv, TypeOK, MutexHeld, Locked
<1>3. NoLostWakeup'
    BY DEF GroupInv, TypeOK, NoLostWakeup, Notifying, Range
<1>4. PendingIsUp'
    BY DEF GroupInv, TypeOK, PendingIsUp, Rising, Scanning
<1>5. LowestFirst'
    BY SigCountAssumption DEF GroupInv, TypeOK, LowestFirst, PendingIsUp, Scanning, Range, Signals
<1> QED
    BY <1>1, <1>2, <1>3, <1>4, <1>5 DEF GroupInv

\* Getting the mutex back: the scan starts afresh.
LEMMA RelockInv ==
    ASSUME GroupInv, NEW t \in Threads, Relock(t) PROVE GroupInv'
<1> USE DEF Relock, StartScan
<1>1. TypeOK'
    <2>1. pc' \in [Threads -> PCs]
        BY DEF GroupInv, TypeOK, PCs
    <2>2. pos' \in [Threads -> 0 .. SIG_COUNT] /\ pend' \in [Threads -> SUBSET Signals]
        BY SigCountAssumption DEF GroupInv, TypeOK, Signals
    <2> QED
        BY <2>1, <2>2 DEF GroupInv, TypeOK
<1>2. MutexHeld'
    BY NoThreadAssumption DEF GroupInv, TypeOK, MutexHeld, Locked
<1>3. NoLostWakeup'
    <2> SUFFICES ASSUME NEW w \in Threads, NEW i \in call'[w].lo .. call'[w].hi, events'[i] = 1,
                        pc'[w] = "sleep" \/ (pc'[w] = "scan" /\ i < pos'[w])
                 PROVE  \E u \in Threads : Notifying(u, i)'
        BY DEF NoLostWakeup, Range, Notifying
    <2>1. i \in Range(w) /\ events[i] = 1
        BY DEF Range
    <2>2. w # t
        BY SigCountAssumption DEF GroupInv, TypeOK, Range, Signals
    <2>3. PICK u \in Threads : Notifying(u, i)
        BY <2>1, <2>2 DEF GroupInv, TypeOK, NoLostWakeup
    <2> QED
        BY <2>3 DEF GroupInv, TypeOK, Notifying
<1>4. PendingIsUp'
    BY DEF GroupInv, TypeOK, PendingIsUp, Rising, Scanning
<1>5. LowestFirst'
    BY SigCountAssumption DEF GroupInv, TypeOK, LowestFirst, PendingIsUp, Scanning, Range, Signals
<1> QED
    BY <1>1, <1>2, <1>3, <1>4, <1>5 DEF GroupInv

\* Notifying: nobody scans under the mutex, and nobody stays asleep.
LEMMA NotifyAllInv ==
    ASSUME GroupInv, NEW t \in Threads, NotifyAll(t) PROVE GroupInv'
<1> USE DEF NotifyAll
<1>1. TypeOK'
    BY SigCountAssumption DEF GroupInv, TypeOK, Signals, PCs, NoCall, Timeouts
<1>2. MutexHeld'
    BY NoThreadAssumption DEF GroupInv, TypeOK, MutexHeld, Locked
<1>3. NoLostWakeup'
    <2> SUFFICES ASSUME NEW w \in Threads PROVE pc'[w] \notin {"sleep", "scan"}
        BY DEF NoLostWakeup
    <2>1. pc[w] # "scan"
        BY NoThreadAssumption DEF GroupInv, MutexHeld, Locked
    <2> QED
        BY <2>1 DEF GroupInv, TypeOK
<1>4. PendingIsUp'
    BY DEF GroupInv, TypeOK, PendingIsUp, Rising, Scanning
<1>5. LowestFirst'
    BY SigCountAssumption DEF GroupInv, TypeOK, LowestFirst, PendingIsUp, Scanning, Range, Signals
<1> QED
    BY <1>1, <1>2, <1>3, <1>4, <1>5 DEF GroupInv

\* Raising a signal: its call will notify.
LEMMA SignalInv ==
    ASSUME GroupInv, NEW t \in Threads, NEW i \in Signals, Signal(t, i) PROVE GroupInv'
<1> USE DEF Signal
<1>1. TypeOK'
    BY SigCountAssumption DEF GroupInv, TypeOK, Signals, PCs, NoCall, Timeouts
<1>2. MutexHeld'
    BY NoThreadAssumption DEF GroupInv, TypeOK, MutexHeld, Locked
<1>3. NoLostWakeup'
    BY DEF GroupInv, TypeOK, NoLostWakeup, Notifying, Range
<1>4. PendingIsUp'
    BY DEF GroupInv, TypeOK, PendingIsUp, Rising, Scanning
<1>5. LowestFirst'
    BY SigCountAssumption DEF GroupInv, TypeOK, LowestFirst, PendingIsUp, Scanning, Range, Signals
<1> QED
    BY <1>1, <1>2, <1>3, <1>4, <1>5 DEF GroupInv

\* Every step of every thread preserves the group invariant.
LEMMA NextGroupInv == GroupInv /\ [Next]_vars => GroupInv'
<1> SUFFICES ASSUME GroupInv, [Next]_vars PROVE GroupInv'
    OBVIOUS
<1>1. CASE UNCHANGED vars
    BY <1>1 DEF vars, GroupInv, TypeOK, MutexHeld, NoLostWakeup, PendingIsUp, LowestFirst,
                Range, Notifying, Rising
<1>2. CASE Next
    <2> PICK t \in Threads : Calls(t) \/ Runs(t) \/ Acquires(t) \/ MissStale(t) \/ WakeUp(t)
        BY <1>2 DEF Next
    <2>1. CASE Calls(t)
        <3>1. 0 \in Signals /\ SIG_COUNT - 1 \in Signals
            BY SigCountAssumption DEF Signals
        <3>2. "none" \in Timeouts /\ "zero" \in Timeouts /\ "some" \in Timeouts
            BY DEF Timeouts
        <3> QED
            BY <2>1, <3>1, <3>2, BeginInv, SignalInv
            DEF Calls, Wait, WaitFor, WaitOne, WaitOneFor
    <2>2. CASE Runs(t)
        BY <2>2, ConsumeInv, MissInv, FastPathEndsInv, GiveUpInv, SleepInv DEF Runs
    <2>3. CASE Acquires(t)
        BY <2>3, LockInv, RelockInv, NotifyAllInv DEF Acquires
    <2>4. CASE MissStale(t) \/ WakeUp(t)
        BY <2>4, MissStaleInv, WakeUpInv
    <2> QED
        BY <2>1, <2>2, <2>3, <2>4
<1> QED
    BY <1>1, <1>2

-----------------------------------------------------------------------------
\* The group invariant holds in every reachable state.
THEOREM GroupInvariance == Spec => []GroupInv
<1> QED
    BY InitGroupInv, NextGroupInv, PTL DEF Spec

\* Signal and SignalGroup never lose a wakeup, although signal() stores the
\* event outside the mutex and waiters read it with a relaxed load.
THEOREM GroupLosesNoWakeup == Spec => []NoLostWakeup
<1>1. GroupInv => NoLostWakeup
    BY DEF GroupInv
<1> QED
    BY <1>1, GroupInvariance, PTL

\* waitOne() returns the lowest of the signals that were up all through its scan.
THEOREM WaitOneIsLowestFirst == Spec => []LowestFirst
<1>1. GroupInv => LowestFirst
    BY DEF GroupInv
<1> QED
    BY <1>1, GroupInvariance, PTL

\* The mutex is held by a thread exactly while it scans under it.
THEOREM GroupMutualExclusion == Spec => []MutexHeld
<1>1. GroupInv => MutexHeld
    BY DEF GroupInv
<1> QED
    BY <1>1, GroupInvariance, PTL
=============================================================================
