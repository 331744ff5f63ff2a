------------------------- MODULE TaskExecutorProofs -------------------------
(***************************************************************************)
(* Proofs about TaskExecutor, for any number of clients and tasks, and     *)
(* about the client that takes turns (MCTaskExecutor).                     *)
(***************************************************************************)
EXTENDS MCTaskExecutor, FiniteSetTheorems, TLAPS

\* Submissions that are blocked count as made: the bound on the tasks holds.
WithinBound == submitted + Cardinality(Blocked) <= MaxTasks

\* A task that runs has not finished, and nothing of its outcome is recorded.
Running ==
    /\ finished <= started
    /\ worker = "run" => /\ finished < started
                         /\ taskCompletionState = "NOT_DONE" /\ lastTaskException = 0

ExecInv ==
    /\ TypeOK /\ WithinBound /\ Running
    /\ NoTaskLost /\ CompletionIsRecent /\ ExceptionIsOfLastTask

\* What taking turns adds: nobody else calls, the caller never finds the slot
\* taken, and there is never more than one task that has not finished.
Turns ==
    turn # "any" =>
       /\ \A c \in Clients \ {Caller} : client[c] = "idle"
       /\ turn = "submit" => client[Caller] \in {"idle", "doneAsleep", "doneWoken"}
       /\ turn = "wait" => client[Caller] \in {"idle", "submitNotify"}
       /\ taskAvailable => task = "function" /\ taskCompletionState = "NOT_DONE"
       /\ worker = "run" => ~taskAvailable
       /\ worker # "run" => finished = started

TurnsInv == ExecInv /\ turn \in {"any", "submit", "wait"} /\ Turns /\ CompletionIsOwn

-----------------------------------------------------------------------------
(* How the set of blocked submitters changes.                              *)

\* A step that blocks nobody and frees nobody.
LEMMA SameBlocked ==
    ASSUME \A c \in Clients : client'[c] \in {"submitAsleep", "submitWoken"}
                                <=> client[c] \in {"submitAsleep", "submitWoken"}
    PROVE  Blocked' = Blocked
    BY DEF Blocked

\* Sets of clients are finite.
LEMMA BlockedIsFinite == IsFiniteSet(Blocked) /\ Cardinality(Blocked) \in Nat
    BY ClientsAssumption, FS_Subset, FS_CardinalityType DEF Blocked

-----------------------------------------------------------------------------
\* The constructor starts with nothing submitted.
LEMMA InitExecInv == Init => ExecInv
<1> SUFFICES ASSUME Init PROVE ExecInv
    OBVIOUS
<1>1. Blocked = {}
    BY DEF Init, Blocked
<1>2. WithinBound
    BY <1>1, FS_EmptySet, MaxTasksAssumption DEF Init, WithinBound
<1>3. TypeOK
    <2>1. taskAvailable \in BOOLEAN /\ stopFlag \in BOOLEAN
        BY Zenon DEF Init
    <2>2. 0 \in 0 .. MaxTasks
        BY MaxTasksAssumption
    <2>3. client \in [Clients -> {"idle", "submitAsleep", "submitWoken", "submitNotify",
                                  "doneAsleep", "doneWoken"}] /\ arg \in [Clients -> Functions]
        BY DEF Init, Functions
    <2> QED
        BY <2>1, <2>2, <2>3 DEF Init, TypeOK, Functions
<1>4. NoTaskLost
    BY DEF Init, NoTaskLost
<1>5. Running /\ CompletionIsRecent /\ ExceptionIsOfLastTask
    BY DEF Init, Running, CompletionIsRecent, ExceptionIsOfLastTask
<1> QED
    BY <1>2, <1>3, <1>4, <1>5 DEF ExecInv

\* The worker thread.
LEMMA WorkerInv == ExecInv /\ Worker => ExecInv'
<1> SUFFICES ASSUME ExecInv, Worker PROVE ExecInv'
    OBVIOUS
<1> USE DEF ExecInv, TypeOK, Functions, Running, NoTaskLost, CompletionIsRecent,
            ExceptionIsOfLastTask
<1>1. CASE WorkerSleeps \/ WorkerExits
    <2>1. Blocked' = Blocked
        BY <1>1 DEF WorkerSleeps, WorkerExits, Blocked
    <2> QED
        BY <1>1, <2>1 DEF WorkerSleeps, WorkerExits, WithinBound, slot, result, history
<1>2. CASE TakeTask
    <2>1. Blocked' = Blocked
        BY <1>2 DEF TakeTask, Blocked
    <2>2. submitted = started + 1 /\ started + 1 \in 0 .. MaxTasks
        BY <1>2, MaxTasksAssumption DEF TakeTask
    <2>3. TypeOK'
        <3>1. taskAvailable' \in BOOLEAN /\ stopFlag' \in BOOLEAN
            BY <1>2, Zenon DEF TakeTask
        <3>2. 0 \in 0 .. MaxTasks /\ started' \in 0 .. MaxTasks
            BY <1>2, <2>2, MaxTasksAssumption DEF TakeTask
        <3> QED
            BY <1>2, <3>1, <3>2 DEF TakeTask
    <2>4. NoTaskLost'
        BY <1>2, <2>2 DEF TakeTask
    <2>5. Running' /\ CompletionIsRecent' /\ ExceptionIsOfLastTask'
        BY <1>2, <2>2 DEF TakeTask
    <2> QED
        BY <1>2, <2>1, <2>3, <2>4, <2>5 DEF TakeTask, WithinBound
<1>3. CASE RunTask
    <2>1. Blocked' = Blocked
        BY <1>3 DEF RunTask, Blocked
    <2> QED
        BY <1>3, <2>1, MaxTasksAssumption DEF RunTask, WithinBound, slot
<1>4. CASE NotifyTaskDone
    <2>1. client' \in [Clients -> {"idle", "submitAsleep", "submitWoken", "submitNotify",
                                   "doneAsleep", "doneWoken"}]
        BY <1>4 DEF NotifyTaskDone
    <2>2. Blocked' = Blocked
        BY <1>4, SameBlocked DEF NotifyTaskDone
    <2> QED
        BY <1>4, <2>1, <2>2 DEF NotifyTaskDone, WithinBound, slot, result, history
<1> QED
    BY <1>1, <1>2, <1>3, <1>4 DEF Worker

\* A submission that finds the slot free or sleeps for it.
LEMMA SubmitInv ==
    ASSUME ExecInv, NEW c \in Clients, NEW f \in Functions,
           PutTask(c, f) \/ SleepForSlot(c),
           \/ c \in Blocked
           \/ c \notin Blocked /\ submitted + Cardinality(Blocked) < MaxTasks,
           arg' \in [Clients -> Functions],
           UNCHANGED <<stopFlag, worker, owner>>
    PROVE  ExecInv'
<1> USE DEF ExecInv, TypeOK, Functions, Running, NoTaskLost, CompletionIsRecent,
            ExceptionIsOfLastTask
<1>1. client' \in [Clients -> {"idle", "submitAsleep", "submitWoken", "submitNotify",
                               "doneAsleep", "doneWoken"}]
    BY DEF PutTask, SleepForSlot
<1>2. CASE PutTask(c, f)
    <2>1. Blocked' = Blocked \ {c}
        BY <1>2 DEF PutTask, Blocked
    <2>2. submitted' + Cardinality(Blocked') <= MaxTasks
        <3>1. Cardinality(Blocked \ {c}) =
                  IF c \in Blocked THEN Cardinality(Blocked) - 1 ELSE Cardinality(Blocked)
            BY BlockedIsFinite, FS_RemoveElement
        <3> QED
            BY <1>2, <2>1, <3>1, BlockedIsFinite, MaxTasksAssumption DEF PutTask, WithinBound
    <2>3. IsFiniteSet(Blocked') /\ Cardinality(Blocked') \in Nat
        BY <2>1, BlockedIsFinite, FS_RemoveElement, FS_CardinalityType
    <2>4. submitted' = submitted + 1 /\ submitted' \in 0 .. MaxTasks
        BY <1>2, <2>2, <2>3, MaxTasksAssumption DEF PutTask
    <2> QED
        BY <1>1, <1>2, <2>2, <2>4, MaxTasksAssumption DEF PutTask, WithinBound
<1>3. CASE SleepForSlot(c)
    <2>1. Blocked' = Blocked \cup {c}
        BY <1>3 DEF SleepForSlot, Blocked
    <2>2. submitted + Cardinality(Blocked') <= MaxTasks
        <3>1. Cardinality(Blocked \cup {c}) =
                  IF c \in Blocked THEN Cardinality(Blocked) ELSE Cardinality(Blocked) + 1
            BY BlockedIsFinite, FS_AddElement
        <3> QED
            BY <2>1, <3>1, BlockedIsFinite, MaxTasksAssumption DEF WithinBound
    <2> QED
        BY <1>1, <1>3, <2>2, MaxTasksAssumption
        DEF SleepForSlot, WithinBound, slot, result, history
<1> QED
    BY <1>2, <1>3

\* The calls of the clients and what is left of them after a sleep.
LEMMA ClientInv == ASSUME ExecInv, NEW c \in Clients, Calls(c) \/ Continues(c) PROVE ExecInv'
<1>1. ASSUME NEW f \in Functions, SubmitVoidTask(c, f) PROVE ExecInv'
    <2>1. c \notin Blocked /\ submitted + Cardinality(Blocked) < MaxTasks
        BY <1>1 DEF SubmitVoidTask, Blocked
    <2>2. arg' \in [Clients -> Functions]
        BY <1>1 DEF SubmitVoidTask, ExecInv, TypeOK
    <2> QED
        BY <1>1, <2>1, <2>2, SubmitInv DEF SubmitVoidTask
<1>2. CASE SubmitRechecks(c)
    <2>1. c \in Blocked /\ arg[c] \in Functions /\ arg' \in [Clients -> Functions]
        BY <1>2 DEF SubmitRechecks, Blocked, ExecInv, TypeOK
    <2> QED
        BY <1>2, <2>1, SubmitInv DEF SubmitRechecks
<1> USE DEF ExecInv, TypeOK, Functions, Running, NoTaskLost, CompletionIsRecent,
            ExceptionIsOfLastTask
<1>3. CASE NotifyTaskAvailable(c)
    <2>1. /\ client' \in [Clients -> {"idle", "submitAsleep", "submitWoken", "submitNotify",
                                      "doneAsleep", "doneWoken"}]
          /\ worker' = worker \/ (worker = "asleep" /\ worker' = "wait")
        BY <1>3 DEF NotifyTaskAvailable
    <2>2. Blocked' = Blocked
        BY <1>3, SameBlocked DEF NotifyTaskAvailable
    <2> QED
        BY <1>3, <2>1, <2>2 DEF NotifyTaskAvailable, WithinBound, slot, result, history
<1>4. CASE WaitForTaskCompletion(c) \/ WaitRechecks(c)
    <2>1. client' \in [Clients -> {"idle", "submitAsleep", "submitWoken", "submitNotify",
                                   "doneAsleep", "doneWoken"}]
        BY <1>4 DEF WaitForTaskCompletion, WaitRechecks, CheckDone
    <2>2. Blocked' = Blocked
        BY <1>4, SameBlocked DEF WaitForTaskCompletion, WaitRechecks, CheckDone
    <2> QED
        BY <1>4, <2>1, <2>2
        DEF WaitForTaskCompletion, WaitRechecks, CheckDone, WithinBound, slot, result, history
<1> QED
    BY <1>1, <1>2, <1>3, <1>4 DEF Calls, Continues

\* Wakeups for no reason, and the destructor.
LEMMA OtherInv == ExecInv /\ (SpuriousWakeup \/ Destroy \/ Destructor) => ExecInv'
<1> SUFFICES ASSUME ExecInv, SpuriousWakeup \/ Destroy \/ Destructor PROVE ExecInv'
    OBVIOUS
<1> USE DEF ExecInv, TypeOK, Functions, Running, NoTaskLost, CompletionIsRecent,
            ExceptionIsOfLastTask
<1>1. CASE SpuriousWakeup
    <2>1. /\ client' \in [Clients -> {"idle", "submitAsleep", "submitWoken", "submitNotify",
                                      "doneAsleep", "doneWoken"}]
          /\ worker' = worker \/ (worker = "asleep" /\ worker' = "wait")
        BY <1>1 DEF SpuriousWakeup
    <2>2. Blocked' = Blocked
        BY <1>1, SameBlocked DEF SpuriousWakeup
    <2> QED
        BY <1>1, <2>1, <2>2 DEF SpuriousWakeup, WithinBound, slot, result, history
<1>2. CASE Destroy \/ Destructor
    <2>1. Blocked' = Blocked
        BY <1>2 DEF Destroy, Destructor, NotifyStop, Join, Blocked
    <2>2. TypeOK'
        BY <1>2 DEF Destroy, Destructor, NotifyStop, Join, slot, result, history
    <2>3. /\ worker' = worker \/ (worker = "asleep" /\ worker' = "wait")
          /\ UNCHANGED <<slot, result, history>>
        BY <1>2 DEF Destroy, Destructor, NotifyStop, Join
    <2> QED
        BY <2>1, <2>2, <2>3 DEF WithinBound, slot, result, history
<1> QED
    BY <1>1, <1>2

\* Every step.
LEMMA NextExecInv == ExecInv /\ [Next]_vars => ExecInv'
<1> SUFFICES ASSUME ExecInv, [Next]_vars PROVE ExecInv'
    OBVIOUS
<1>1. CASE Next
    BY <1>1, WorkerInv, ClientInv, OtherInv DEF Next
<1>2. CASE UNCHANGED vars
    BY <1>2
    DEF vars, ExecInv, TypeOK, WithinBound, Blocked, Running, NoTaskLost, CompletionIsRecent,
        ExceptionIsOfLastTask
<1> QED
    BY <1>1, <1>2

(* ExecInv is an invariant of the executor, whatever its clients do.       *)
THEOREM ExecInvariance == Spec => []ExecInv
    BY InitExecInv, NextExecInv, PTL DEF Spec

(* No task is lost, overwritten in the slot or run twice (submitVoidTask   *)
(* and the swap of the worker).                                            *)
THEOREM TasksAreNotLost == Spec => []NoTaskLost
<1>1. ExecInv => NoTaskLost
    BY DEF ExecInv
<1> QED
    BY <1>1, ExecInvariance, PTL

(* A completion that waitForTaskCompletion returns is that of the task     *)
(* the worker took last, and at most one submission old.                   *)
THEOREM CompletionsAreRecent == Spec => []CompletionIsRecent
<1>1. ExecInv => CompletionIsRecent
    BY DEF ExecInv
<1> QED
    BY <1>1, ExecInvariance, PTL

(* The exception on record is that of the last task, and only if that task *)
(* failed: the worker clears it when it takes a task.                      *)
THEOREM ExceptionsAreOfTheLastTask == Spec => []ExceptionIsOfLastTask
<1>1. ExecInv => ExceptionIsOfLastTask
    BY DEF ExecInv
<1> QED
    BY <1>1, ExecInvariance, PTL

-----------------------------------------------------------------------------
(* Taking turns.                                                           *)

\* A client that takes turns is one of the clients.
LEMMA TurnsAreSteps == [MCNext]_<<vars, turn>> => [Next]_vars
    BY CallerAssumption
    DEF MCNext, Next, AnyCall, Submits, Awaits, Calls, Functions

\* The first turn.
LEMMA InitTurnsInv == MCInit => TurnsInv
<1> SUFFICES ASSUME MCInit PROVE TurnsInv
    OBVIOUS
<1>1. ExecInv
    BY InitExecInv DEF MCInit
<1>2. Turns
    BY CallerAssumption DEF MCInit, Init, Turns
<1> QED
    BY <1>1, <1>2 DEF MCInit, Init, TurnsInv, CompletionIsOwn

\* A step that is no call, when turns are taken.
LEMMA TurnsStep ==
    ASSUME TurnsInv, ExecInv', turn # "any", turn' = turn,
           Worker \/ SpuriousWakeup \/ Destroy \/ Destructor
             \/ \E c \in Clients : Continues(c)
    PROVE  Turns' /\ CompletionIsOwn'
<1> USE CallerAssumption, MaxTasksAssumption DEF TurnsInv, ExecInv, TypeOK, Running
<1>1. CASE WorkerSleeps \/ WorkerExits
    BY <1>1 DEF WorkerSleeps, WorkerExits, Turns, CompletionIsOwn, slot, result, history
<1>2. CASE TakeTask
    BY <1>2 DEF TakeTask, Turns, CompletionIsOwn, NoTaskLost
<1>3. CASE RunTask
    BY <1>3 DEF RunTask, Turns, CompletionIsOwn, NoTaskLost, slot
<1>4. CASE NotifyTaskDone
    BY <1>4 DEF NotifyTaskDone, Turns, CompletionIsOwn, slot, result, history
<1>5. CASE SpuriousWakeup
    BY <1>5 DEF SpuriousWakeup, Turns, CompletionIsOwn, slot, result, history
<1>6. CASE Destroy \/ Destructor
    BY <1>6 DEF Destroy, Destructor, NotifyStop, Join, Turns, CompletionIsOwn, slot, result,
                history
<1>7. ASSUME NEW c \in Clients, Continues(c) PROVE Turns' /\ CompletionIsOwn'
    <2>1. c = Caller /\ client[c] \in {"doneAsleep", "doneWoken", "submitNotify"}
        BY <1>7 DEF Continues, SubmitRechecks, NotifyTaskAvailable, WaitRechecks, Turns
    <2>2. CASE NotifyTaskAvailable(c)
        BY <2>1, <2>2 DEF NotifyTaskAvailable, Turns, CompletionIsOwn, slot, result, history
    <2>3. CASE WaitRechecks(c)
        BY <2>1, <2>3
        DEF WaitRechecks, CheckDone, Turns, CompletionIsOwn, slot, result, history,
            CompletionIsRecent, NoTaskLost
    <2> QED
        BY <1>7, <2>1, <2>2, <2>3 DEF Continues, SubmitRechecks
<1> QED
    BY <1>1, <1>2, <1>3, <1>4, <1>5, <1>6, <1>7 DEF Worker

\* The calls of the client that takes turns.
LEMMA TurnsCalls ==
    ASSUME TurnsInv, ExecInv', Submits \/ Awaits
    PROVE  Turns' /\ CompletionIsOwn'
<1> USE CallerAssumption, MaxTasksAssumption DEF TurnsInv, ExecInv, TypeOK, Running
<1>1. CASE Submits
    <2>1. ~taskAvailable /\ worker # "run" /\ finished = started
        BY <1>1 DEF Submits, SubmitVoidTask, CompletionIsOwn, NoTaskLost
    <2>2. PutTask(Caller, "function") /\ UNCHANGED worker
        BY <1>1, <2>1 DEF Submits, SubmitVoidTask, SleepForSlot
    <2> QED
        BY <1>1, <2>1, <2>2 DEF Submits, PutTask, Turns, CompletionIsOwn
<1>2. CASE Awaits
    BY <1>2
    DEF Awaits, WaitForTaskCompletion, CheckDone, Turns, CompletionIsOwn, slot, result, history,
        CompletionIsRecent, NoTaskLost
<1> QED
    BY <1>1, <1>2

\* Every step.
LEMMA NextTurnsInv == TurnsInv /\ [MCNext]_<<vars, turn>> => TurnsInv'
<1> SUFFICES ASSUME TurnsInv, [MCNext]_<<vars, turn>> PROVE TurnsInv'
    OBVIOUS
<1>1. ExecInv'
    BY TurnsAreSteps, NextExecInv DEF TurnsInv
<1>2. CASE turn = "any" /\ turn' = "any"
    BY <1>1, <1>2 DEF TurnsInv, Turns, CompletionIsOwn
<1>3. CASE Submits \/ Awaits
    BY <1>1, <1>3, TurnsCalls DEF TurnsInv, Submits, Awaits
<1>4. CASE turn # "any" /\ turn' = turn /\ MCNext
    BY <1>1, <1>4, TurnsStep DEF MCNext, AnyCall, Submits, Awaits, TurnsInv
<1>5. CASE UNCHANGED <<vars, turn>>
    BY <1>1, <1>5 DEF vars, TurnsInv, Turns, CompletionIsOwn
<1> QED
    BY <1>2, <1>3, <1>4, <1>5 DEF MCNext, AnyCall

(* A client that submits and waits in turns is given the completion of its *)
(* own task, never one left over from the task before.                     *)
THEOREM TurnsGetTheirOwnCompletion == MCSpec => []CompletionIsOwn
<1>1. TurnsInv => CompletionIsOwn
    BY DEF TurnsInv
<1> QED
    BY <1>1, InitTurnsInv, NextTurnsInv, PTL DEF MCSpec

(* A client that takes turns uses the executor as any client may, so that  *)
(* all that is proved of Spec holds for it.                                *)
THEOREM TurnsImplementExecutor == MCSpec => Spec
    BY TurnsAreSteps, PTL DEF MCSpec, MCInit, Spec
=============================================================================
