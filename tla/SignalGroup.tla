----------------------------- MODULE SignalGroup ----------------------------
(***************************************************************************)
(* SignalGroup<SIG_COUNT>: sticky two-level signals that share one mutex   *)
(* and one condition variable.  Signal is the same code for one signal     *)
(* (SIG_COUNT = 1), and SignalOfAGroup forwards to it.                     *)
(*                                                                         *)
(* All four waiting calls scan a range of signals: wait(i) scans i..i and  *)
(* waitOne() scans them all from 0.  A scan runs without the mutex first,  *)
(* then under it, then the thread sleeps; a timed wait that expires scans  *)
(* once more under the mutex.  One tryConsume is one step.  Its first load *)
(* is relaxed: it may still see the 0 that a signal() under way has just   *)
(* replaced, until the mutex orders the two (MissStale).                   *)
(***************************************************************************)
EXTENDS Integers

CONSTANTS SIG_COUNT,  \* number of signals of the group
          Threads,    \* the threads that use it
          NoThread    \* nobody: the owner of a free mutex

ASSUME SigCountAssumption == SIG_COUNT \in Nat \ {0}
ASSUME NoThreadAssumption == NoThread \notin Threads

VARIABLES
    events,  \* events[i]: 0 or 1
    mtx,     \* the owner of the mutex, or NoThread
    pc,      \* where each thread is in wait, waitOne or signal
    call,    \* the arguments of its call: the signals lo..hi and the timeout
    pos,     \* the signal its scan tries next
    pend     \* history: the signals up since its current scan began

vars == <<events, mtx, pc, call, pos, pend>>

Signals == 0 .. SIG_COUNT - 1
Timeouts == {"none", "zero", "some"}  \* no timeout argument, 0 ms, more
NoCall == [lo |-> 0, hi |-> 0, timeout |-> "none"]

\* "raise" and "again" are both between the store of signal() and its lock; the
\* store changed 0 to 1 in the first and left 1 in the second.
PCs == {"idle", "fast", "lock", "scan", "sleep", "relock", "last", "raise", "again"}
Scanning == {"fast", "scan", "last"}
Locked == {"scan", "last"}

Range(t) == call[t].lo .. call[t].hi

\* A call of signal(i) that has yet to lock the mutex and notify.
Notifying(t, i) == pc[t] \in {"raise", "again"} /\ call[t].lo = i
Rising(i) == \E t \in Threads : pc[t] = "raise" /\ call[t].lo = i

Init ==
    /\ events = [i \in Signals |-> 0]
    /\ mtx = NoThread
    /\ pc = [t \in Threads |-> "idle"]
    /\ call = [t \in Threads |-> NoCall]
    /\ pos = [t \in Threads |-> 0]
    /\ pend = [t \in Threads |-> {}]

-----------------------------------------------------------------------------
\* A scan begins: at the first signal of the range, with the signals that are
\* up and whose signal() the scan does not race with.
StartScan(t, from) ==
    /\ pos' = [pos EXCEPT ![t] = from]
    /\ pend' = [pend EXCEPT ![t] = {i \in Signals : events[i] = 1 /\ ~Rising(i)}]

\* The fast path of all four waiting calls.
Begin(t, first, last, timeout) ==
    /\ pc[t] = "idle"
    /\ pc' = [pc EXCEPT ![t] = "fast"]
    /\ call' = [call EXCEPT ![t] = [lo |-> first, hi |-> last, timeout |-> timeout]]
    /\ StartScan(t, first)
    /\ UNCHANGED <<events, mtx>>

Wait(t, i) == Begin(t, i, i, "none")
WaitFor(t, i) == \E timeout \in {"zero", "some"} : Begin(t, i, i, timeout)
WaitOne(t) == Begin(t, 0, SIG_COUNT - 1, "none")
WaitOneFor(t) == \E timeout \in {"zero", "some"} : Begin(t, 0, SIG_COUNT - 1, timeout)

\* Mutant: the mutex is not given back.
ReturnLocked(t) ==
    /\ pc' = [pc EXCEPT ![t] = "idle"]
    /\ call' = [call EXCEPT ![t] = NoCall]
    /\ pos' = [pos EXCEPT ![t] = 0]
    /\ UNCHANGED mtx

\* The call returns, giving back the mutex if the thread holds it.
Return(t) ==
    /\ pc' = [pc EXCEPT ![t] = "idle"]
    /\ call' = [call EXCEPT ![t] = NoCall]
    /\ pos' = [pos EXCEPT ![t] = 0]
    /\ mtx' = IF pc[t] \in Locked THEN NoThread ELSE mtx

\* tryConsume succeeds, and the call returns this signal.
Consume(t) ==
    /\ pc[t] \in Scanning
    /\ pos[t] <= call[t].hi
    /\ events[pos[t]] = 1
    /\ events' = [events EXCEPT ![pos[t]] = 0]
    /\ pend' = [u \in Threads |-> IF u = t THEN {} ELSE pend[u] \ {pos[t]}]
    /\ Return(t)

\* tryConsume fails on a signal that is down: on to the next one.
Miss(t) ==
    /\ pc[t] \in Scanning
    /\ pos[t] <= call[t].hi
    /\ events[pos[t]] = 0
    /\ pos' = [pos EXCEPT ![t] = @ + 1]
    /\ UNCHANGED <<events, mtx, pc, call, pend>>

\* The relaxed load misses a store that its signal() has not published yet.
MissStale(t) ==
    /\ pc[t] \in Scanning
    /\ pos[t] <= call[t].hi
    /\ events[pos[t]] = 1 /\ Rising(pos[t])
    /\ pos' = [pos EXCEPT ![t] = @ + 1]
    /\ UNCHANGED <<events, mtx, pc, call, pend>>

\* Nothing found in the whole range.
Exhausted(t) == pos[t] > call[t].hi

\* The fast path found nothing and there is time to wait.
FastPathEnds(t) ==
    /\ pc[t] = "fast" /\ Exhausted(t)
    /\ call[t].timeout # "zero"
    /\ pc' = [pc EXCEPT ![t] = "lock"]
    /\ pend' = [pend EXCEPT ![t] = {}]
    /\ UNCHANGED <<events, mtx, call, pos>>

\* No signal: after the fast path with a timeout of 0, or after the one last
\* check that follows the deadline.
GiveUp(t) ==
    /\ \/ pc[t] = "fast" /\ call[t].timeout = "zero"
       \/ pc[t] = "last"
    /\ Exhausted(t)
    /\ Return(t)
    /\ pend' = [pend EXCEPT ![t] = {}]
    /\ UNCHANGED events

Lock(t) ==
    /\ pc[t] = "lock" /\ mtx = NoThread
    /\ mtx' = t
    /\ pc' = [pc EXCEPT ![t] = "scan"]
    /\ StartScan(t, call[t].lo)
    /\ UNCHANGED <<events, call>>

\* eventFired.wait / wait_until: release the mutex and sleep, in one step.
Sleep(t) ==
    /\ pc[t] = "scan" /\ Exhausted(t)
    /\ mtx' = NoThread
    /\ pc' = [pc EXCEPT ![t] = "sleep"]
    /\ pend' = [pend EXCEPT ![t] = {}]
    /\ UNCHANGED <<events, call, pos>>

\* The sleep ends without a notification: spuriously, or at the deadline.
WakeUp(t) ==
    /\ pc[t] = "sleep"
    /\ pc' = [pc EXCEPT ![t] = "relock"]
    /\ UNCHANGED <<events, mtx, call, pos, pend>>

\* Mutant: the scan goes on where it ended before the sleep.
RelockResumes(t) ==
    /\ pc[t] = "relock" /\ mtx = NoThread
    /\ mtx' = t
    /\ pc' = [pc EXCEPT ![t] = "scan"]
    /\ StartScan(t, pos[t])
    /\ UNCHANGED <<events, call>>

\* The thread has the mutex back; wait_until reports a timeout if the deadline
\* has passed by now, even when it was notified.
Relock(t) ==
    /\ pc[t] = "relock" /\ mtx = NoThread
    /\ mtx' = t
    /\ \/ pc' = [pc EXCEPT ![t] = "scan"]
       \/ call[t].timeout = "some" /\ pc' = [pc EXCEPT ![t] = "last"]
    /\ StartScan(t, call[t].lo)
    /\ UNCHANGED <<events, call>>

\* signal(i): the store.
Signal(t, i) ==
    /\ pc[t] = "idle"
    /\ events' = [events EXCEPT ![i] = 1]
    /\ call' = [call EXCEPT ![t] = [lo |-> i, hi |-> i, timeout |-> "none"]]
    /\ pc' = [pc EXCEPT ![t] = IF events[i] = 0 THEN "raise" ELSE "again"]
    /\ UNCHANGED <<mtx, pos, pend>>

\* Mutant: notify_one, which the comment in signal() warns against.
NotifyOne(t) ==
    /\ pc[t] \in {"raise", "again"} /\ mtx = NoThread
    /\ \/ /\ \A u \in Threads : pc[u] # "sleep"
          /\ pc' = [pc EXCEPT ![t] = "idle"]
       \/ \E u \in Threads : /\ pc[u] = "sleep"
                             /\ pc' = [pc EXCEPT ![t] = "idle", ![u] = "relock"]
    /\ call' = [call EXCEPT ![t] = NoCall]
    /\ UNCHANGED <<events, mtx, pos, pend>>

\* Mutant: signal() notifies without the mutex.
NotifyUnlocked(t) ==
    /\ pc[t] \in {"raise", "again"}
    /\ pc' = [u \in Threads |-> IF u = t THEN "idle"
                                ELSE IF pc[u] = "sleep" THEN "relock" ELSE pc[u]]
    /\ call' = [call EXCEPT ![t] = NoCall]
    /\ UNCHANGED <<events, mtx, pos, pend>>

\* signal(i): lock, notify_all, unlock.
NotifyAll(t) ==
    /\ pc[t] \in {"raise", "again"} /\ mtx = NoThread
    /\ pc' = [u \in Threads |-> IF u = t THEN "idle"
                                ELSE IF pc[u] = "sleep" THEN "relock" ELSE pc[u]]
    /\ call' = [call EXCEPT ![t] = NoCall]
    /\ UNCHANGED <<events, mtx, pos, pend>>

-----------------------------------------------------------------------------
Calls(t) == \/ \E i \in Signals : Wait(t, i) \/ WaitFor(t, i) \/ Signal(t, i)
            \/ WaitOne(t) \/ WaitOneFor(t)

\* The steps of a call that do not need the mutex, and those that do.
Runs(t) == Consume(t) \/ Miss(t) \/ FastPathEnds(t) \/ GiveUp(t) \/ Sleep(t)
Acquires(t) == Lock(t) \/ Relock(t) \/ NotifyAll(t)

Next == \E t \in Threads : Calls(t) \/ Runs(t) \/ Acquires(t) \/ MissStale(t) \/ WakeUp(t)

Spec == Init /\ [][Next]_vars

\* A thread inside a call runs when it can.  The mutex is released again and
\* again, and a thread that keeps asking for it gets it some time.  Nothing is
\* assumed about spurious wakeups, deadlines or stale loads.
FairSpec == Spec /\ \A t \in Threads : WF_vars(Runs(t)) /\ SF_vars(Acquires(t))

-----------------------------------------------------------------------------
(* Properties.                                                             *)

\* The types of the state.
TypeOK ==
    /\ events \in [Signals -> {0, 1}]
    /\ mtx \in Threads \cup {NoThread}
    /\ pc \in [Threads -> PCs]
    /\ call \in [Threads -> [lo : Signals, hi : Signals, timeout : Timeouts]]
    /\ pos \in [Threads -> 0 .. SIG_COUNT]
    /\ pend \in [Threads -> SUBSET Signals]

\* The mutex is held exactly by the thread that scans under it.
MutexHeld == \A t \in Threads : mtx = t <=> pc[t] \in Locked

\* No wakeup is lost: a thread asleep, or about to sleep, on a signal that is up
\* has a signal() call of that very signal still to notify it.
NoLostWakeup ==
    \A t \in Threads : \A i \in Range(t) :
        /\ events[i] = 1
        /\ \/ pc[t] = "sleep"
           \/ pc[t] = "scan" /\ i < pos[t]
        => \E u \in Threads : Notifying(u, i)

\* "waitOne() returns the lowest index": no signal that was up all through a
\* scan is passed over.  So the signal a scan returns is the lowest of those,
\* and a wait that gives up leaves none of them behind.
LowestFirst ==
    \A t \in Threads : pc[t] \in Scanning =>
        \A i \in pend[t] \cap Range(t) : i >= pos[t]

\* What the history records: signals that are up and not in a race.
PendingIsUp ==
    \A t \in Threads : pc[t] \in Scanning =>
        \A i \in pend[t] : events[i] = 1 /\ ~Rising(i)

\* The group invariant: preserved by every step.
GroupInv ==
    /\ TypeOK
    /\ MutexHeld
    /\ NoLostWakeup
    /\ PendingIsUp
    /\ LowestFirst

\* Signals are delivered: none stays up for ever while a thread waits for it.
SignalsAreDelivered ==
    \A t \in Threads, i \in Signals :
        ~ <>[](/\ pc[t] \notin {"idle", "raise", "again"}
               /\ i \in Range(t)
               /\ events[i] = 1)
=============================================================================
