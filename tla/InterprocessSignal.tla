------------------------- MODULE InterprocessSignal -------------------------
(***************************************************************************)
(* InterprocessSignal in its three builds, selected by the preprocessor    *)
(* in the source and by the variable build, which never changes, here:     *)
(*   "windows"  an auto-reset event;                                       *)
(*   "futex"    GICAME_USE_FUTEX, a futex word with fwait and fpost;       *)
(*   "posix"    a process-shared mutex and condition variable, the build   *)
(*              the Makefile makes.                                        *)
(*                                                                         *)
(* The posix build holds the mutex only around pthread_cond_wait and       *)
(* pthread_cond_signal and never blocks while holding it, so each of the   *)
(* two critical sections is one step.                                      *)
(***************************************************************************)
EXTENDS Naturals

CONSTANTS Builds,  \* the builds considered
          Procs    \* the processes that use the signal

ASSUME BuildsAssumption == Builds \subseteq {"windows", "futex", "posix"}

VARIABLES
    build,   \* "windows", "futex" or "posix"
    word,    \* the state of the event, or the futex word; always 0 in posix
    st,      \* where each process is in wait or signal
    one,     \* each process's local "one" of fwait
    raised   \* history: a signal was raised and no wait has returned since

signalVars == <<build, word, st, one, raised>>

\* "try": at the CAS of fwait, or inside WaitForSingleObject; "fwait": about to
\* call FUTEX_WAIT; "sleep": asleep; "woken": woken and not yet returned;
\* "stranded": asleep on a condition variable that was initialised again under
\* it, where no signal finds it; "wake": about to call FUTEX_WAKE.
States == {"out", "try", "fwait", "sleep", "woken", "stranded", "wake"}

Asleep == {q \in Procs : st[q] = "sleep"}

\* The state a MASTER's constructor leaves.
SignalInit ==
    /\ build \in Builds
    /\ word = 0
    /\ st = [p \in Procs |-> "out"]
    /\ one = [p \in Procs |-> 1]
    /\ raised = FALSE

-----------------------------------------------------------------------------
\* The constructor run by a SLAVE: opening the event leaves it alone, the futex
\* build clears the word, and the posix build initialises the mutex and the
\* condition variable again.  Doing that under a sleeper is undefined: it may
\* or may not be found by later signals.
SlaveConstruct ==
    /\ word' = IF build = "futex" THEN 0 ELSE word
    /\ IF build = "posix"
       THEN \E lost \in SUBSET Asleep :
                st' = [q \in Procs |-> IF q \in lost THEN "stranded" ELSE st[q]]
       ELSE UNCHANGED st
    /\ UNCHANGED <<build, one, raised>>

\* wait() is called.  In posix, lock and pthread_cond_wait: asleep at once,
\* whatever was signalled before.
WaitBegin(p) ==
    /\ st[p] = "out"
    /\ st' = [st EXCEPT ![p] = IF build = "posix" THEN "sleep" ELSE "try"]
    /\ one' = [one EXCEPT ![p] = 1]
    /\ UNCHANGED <<build, word, raised>>

\* Mutant: having failed the CAS, sleep without comparing the word again.
CasFailsSleeps(p) ==
    /\ build = "futex" /\ st[p] = "try"
    /\ word # one[p]
    /\ one' = [one EXCEPT ![p] = word]
    /\ st' = [st EXCEPT ![p] = "sleep"]
    /\ UNCHANGED <<build, word, raised>>

\* fwait: the CAS fails and leaves the word's value in "one".
CasFails(p) ==
    /\ build = "futex" /\ st[p] = "try"
    /\ word # one[p]
    /\ one' = [one EXCEPT ![p] = word]
    /\ st' = [st EXCEPT ![p] = "fwait"]
    /\ UNCHANGED <<build, word, raised>>

\* fwait: FUTEX_WAIT sleeps only if the word is still 0, else EAGAIN.
FutexWait(p) ==
    /\ build = "futex" /\ st[p] = "fwait"
    /\ st' = [st EXCEPT ![p] = IF word = 0 THEN "sleep" ELSE "try"]
    /\ UNCHANGED <<build, word, one, raised>>

\* fwait: back to the CAS after FUTEX_WAIT returned.
FutexRetry(p) ==
    /\ build = "futex" /\ st[p] = "woken"
    /\ st' = [st EXCEPT ![p] = "try"]
    /\ UNCHANGED <<build, word, one, raised>>

\* pthread_cond_wait and FUTEX_WAIT may return without a signal.
SpuriousWakeup(p) ==
    /\ st[p] = "sleep"
    /\ st' = [st EXCEPT ![p] = "woken"]
    /\ UNCHANGED <<build, word, one, raised>>

\* FUTEX_WAIT is interrupted, and fwait throws on any error but EAGAIN.
FutexFails(p) ==
    /\ build = "futex" /\ st[p] = "sleep"
    /\ st' = [st EXCEPT ![p] = "out"]
    /\ UNCHANGED <<build, word, one, raised>>

WaitStep(p) == CasFails(p) \/ FutexWait(p) \/ FutexRetry(p)

\* wait() returns: the event is taken and reset; the CAS of fwait succeeds; the
\* woken posix waiter unlocks the mutex.
WaitReturns(p) ==
    /\ \/ build = "windows" /\ st[p] = "try" /\ word = 1
       \/ build = "futex" /\ st[p] = "try" /\ word = one[p]
       \/ build = "posix" /\ st[p] = "woken"
    /\ word' = 0
    /\ st' = [st EXCEPT ![p] = "out"]
    /\ raised' = FALSE
    /\ UNCHANGED <<build, one>>

\* Wake one of the processes asleep, if there is one; base is st otherwise.
WakeOne(base) ==
    IF Asleep = {} THEN st' = base
    ELSE \E q \in Asleep : st' = [base EXCEPT ![q] = "woken"]

\* Mutant: fpost sets the word and wakes nobody.
PostCasOnly(p) ==
    /\ build = "futex" /\ st[p] = "out" /\ word = 0
    /\ word' = 1
    /\ raised' = TRUE
    /\ UNCHANGED <<build, st, one>>

\* fpost: the CAS from 0 to 1 succeeded, FUTEX_WAKE is next.
PostCas(p) ==
    /\ build = "futex" /\ st[p] = "out" /\ word = 0
    /\ word' = 1
    /\ raised' = TRUE
    /\ st' = [st EXCEPT ![p] = "wake"]
    /\ UNCHANGED <<build, one>>

\* fpost after its CAS failed, the signal being up already.
PostAbsorbed(p) ==
    /\ build = "futex" /\ st[p] = "out" /\ word = 1
    /\ UNCHANGED signalVars

\* FUTEX_WAKE of one waiter, the end of fpost.
FutexWake(p) ==
    /\ build = "futex" /\ st[p] = "wake"
    /\ WakeOne([st EXCEPT ![p] = "out"])
    /\ UNCHANGED <<build, word, one, raised>>

\* Mutant: the event is pulsed, not set.
PulseEvent(p) ==
    /\ build = "windows" /\ st[p] = "out"
    /\ raised' = TRUE
    /\ UNCHANGED <<build, word, st, one>>

SetEvent(p) ==
    /\ build = "windows" /\ st[p] = "out"
    /\ word' = 1
    /\ raised' = TRUE
    /\ UNCHANGED <<build, st, one>>

\* Lock, pthread_cond_signal, unlock: nothing is remembered.
CondSignal(p) ==
    /\ build = "posix" /\ st[p] = "out"
    /\ WakeOne(st)
    /\ raised' = TRUE
    /\ UNCHANGED <<build, word, one>>

SignalStep(p) == PostCas(p)
SignalReturns(p) == PostAbsorbed(p) \/ FutexWake(p) \/ SetEvent(p) \/ CondSignal(p)

-----------------------------------------------------------------------------
\* The signal on its own: any process may wait or signal at any time.
Init == SignalInit

Waiting(p) == WaitStep(p) \/ WaitReturns(p)

Next == \/ SlaveConstruct
        \/ \E p \in Procs : \/ WaitBegin(p) \/ SpuriousWakeup(p) \/ FutexFails(p)
                            \/ Waiting(p) \/ SignalStep(p) \/ SignalReturns(p)

Spec == Init /\ [][Next]_signalVars

\* A process that is not asleep runs; nothing makes a sleep end but a wakeup.
FairSpec == Spec /\ \A p \in Procs : WF_signalVars(Waiting(p) \/ FutexWake(p))

\* The types of the state; the word of the event or futex stays two-valued.
SignalTypeOK ==
    /\ build \in Builds
    /\ word \in {0, 1}
    /\ st \in [Procs -> States]
    /\ one \in [Procs -> {0, 1}]
    /\ raised \in BOOLEAN

\* "Wait for its value to become 1, and then set the value to 0" (Futex.h): a
\* wait that returns takes a signal that was raised and not yet taken.
ReturnTakesASignal ==
    [][\A p \in Procs : WaitReturns(p) => raised]_signalVars

\* fwait and fpost leave no sleeper behind: while the futex word says that a
\* signal is up and a process sleeps, another one is on the way, either to wake
\* it or to take the signal itself.
NoForgottenSleeper ==
    word = 1 /\ Asleep # {} =>
        \E q \in Procs : st[q] \in {"try", "fwait", "woken", "wake"}

\* A signal that is up and waited for is taken some time, by whichever process
\* gets it.
SignalIsTaken ==
    \A p \in Procs : ~ <>[](word = 1 /\ st[p] \notin {"out", "wake"})
=============================================================================
