---------------------------- MODULE TaskExecutor ----------------------------
(***************************************************************************)
(* TaskExecutor: one worker thread, a slot for one pending task, and two   *)
(* condition variables.  cvTaskAvailable has both the worker (for a task)  *)
(* and blocked submitters (for the slot) among its sleepers; cvTaskDone    *)
(* has the threads inside waitForTaskCompletion.                           *)
(*                                                                         *)
(* Every critical section of mtx is one step; the notifications, which the *)
(* code sends after unlocking, are steps of their own.  Tasks are numbered *)
(* in the order their submission enters the slot.  A function object may   *)
(* be empty, and a task may return, throw a std::exception or throw        *)
(* something else.                                                         *)
(***************************************************************************)
EXTENDS Naturals, FiniteSets

CONSTANTS Clients,   \* the threads that call the executor
          MaxTasks   \* bound on the tasks submitted in a behaviour

ASSUME MaxTasksAssumption == MaxTasks \in Nat
ASSUME ClientsAssumption == IsFiniteSet(Clients)

VARIABLES
    taskAvailable, stopFlag,
    task,       \* the pending function: "function" or "empty"
    taskCompletionState,
    lastTaskException,  \* the number of the task that threw it, or 0
    worker,     \* where the worker thread is
    client,     \* where each client is
    arg,        \* the function a client is submitting
    owner,      \* where the destructor is
    submitted,  \* history: number of the last task put into the slot
    started,    \* history: number of the last task taken from it
    finished    \* history: number of the last task run to its end

vars == <<taskAvailable, stopFlag, task, taskCompletionState, lastTaskException,
          worker, client, arg, owner, submitted, started, finished>>
slot == <<taskAvailable, task>>
result == <<taskCompletionState, lastTaskException>>
history == <<submitted, started, finished>>

Functions == {"function", "empty"}

Init ==
    /\ taskAvailable = FALSE /\ stopFlag = FALSE
    /\ task = "empty"
    /\ taskCompletionState = "NOT_DONE" /\ lastTaskException = 0
    /\ worker = "wait"
    /\ client = [c \in Clients |-> "idle"]
    /\ arg = [c \in Clients |-> "empty"]
    /\ owner = "alive"
    /\ submitted = 0 /\ started = 0 /\ finished = 0

-----------------------------------------------------------------------------
(* The worker thread.                                                      *)

\* cvTaskAvailable.wait: nothing to do.
WorkerSleeps ==
    /\ worker = "wait" /\ ~taskAvailable /\ ~stopFlag
    /\ worker' = "asleep"
    /\ UNCHANGED <<slot, result, history, stopFlag, client, arg, owner>>

\* Stop wins over a pending task.
WorkerExits ==
    /\ worker = "wait" /\ stopFlag
    /\ worker' = "exited"
    /\ UNCHANGED <<slot, result, history, stopFlag, client, arg, owner>>

\* Mutants: the completion state is not reset ("could be not necessary"), or
\* the last exception is kept.
TakeTaskNoReset ==
    /\ worker = "wait" /\ taskAvailable /\ ~stopFlag
    /\ taskAvailable' = FALSE /\ task' = "empty"
    /\ lastTaskException' = 0 /\ UNCHANGED taskCompletionState
    /\ started' = started + 1
    /\ worker' = IF task = "empty" THEN "wait" ELSE "run"
    /\ UNCHANGED <<stopFlag, client, arg, owner, submitted, finished>>

TakeTaskKeepsException ==
    /\ worker = "wait" /\ taskAvailable /\ ~stopFlag
    /\ taskAvailable' = FALSE /\ task' = "empty"
    /\ taskCompletionState' = "NOT_DONE" /\ UNCHANGED lastTaskException
    /\ started' = started + 1
    /\ worker' = IF task = "empty" THEN "wait" ELSE "run"
    /\ UNCHANGED <<stopFlag, client, arg, owner, submitted, finished>>

\* Swap the task out of the slot; an empty function is dropped without a word.
TakeTask ==
    /\ worker = "wait" /\ taskAvailable /\ ~stopFlag
    /\ taskAvailable' = FALSE
    /\ task' = "empty"
    /\ taskCompletionState' = "NOT_DONE"
    /\ lastTaskException' = 0
    /\ started' = started + 1
    /\ worker' = IF task = "empty" THEN "wait" ELSE "run"
    /\ UNCHANGED <<stopFlag, client, arg, owner, submitted, finished>>

\* The task ends: it returns, throws a std::exception, or throws something else.
RunTask ==
    /\ worker = "run"
    /\ \/ taskCompletionState' = "DONE" /\ UNCHANGED lastTaskException
       \/ /\ taskCompletionState' = "DONE_WITH_ERRORS"
          /\ lastTaskException' \in {started, lastTaskException}
    /\ finished' = started
    /\ worker' = "notify"
    /\ UNCHANGED <<slot, stopFlag, client, arg, owner, submitted, started>>

\* cvTaskDone.notify_one.
NotifyTaskDone ==
    /\ worker = "notify"
    /\ worker' = "wait"
    /\ LET waiting == {c \in Clients : client[c] = "doneAsleep"}
       IN  IF waiting = {} THEN UNCHANGED client
           ELSE \E c \in waiting : client' = [client EXCEPT ![c] = "doneWoken"]
    /\ UNCHANGED <<slot, result, history, stopFlag, arg, owner>>

-----------------------------------------------------------------------------
(* The clients.                                                            *)

\* Mutants: a submission does not wait for the slot to be free, or leaves the
\* completion of an earlier task in place.
PutTaskOver(c, f) ==
    /\ taskAvailable' = TRUE /\ task' = f
    /\ taskCompletionState' = "NOT_DONE"
    /\ submitted' = submitted + 1
    /\ client' = [client EXCEPT ![c] = "submitNotify"]
    /\ UNCHANGED <<lastTaskException, started, finished>>

PutTaskStale(c, f) ==
    /\ ~taskAvailable
    /\ taskAvailable' = TRUE /\ task' = f
    /\ submitted' = submitted + 1
    /\ client' = [client EXCEPT ![c] = "submitNotify"]
    /\ UNCHANGED <<result, started, finished>>

\* The critical section of submitVoidTask once the slot is free.
PutTask(c, f) ==
    /\ ~taskAvailable
    /\ taskAvailable' = TRUE /\ task' = f
    /\ taskCompletionState' = "NOT_DONE"
    /\ submitted' = submitted + 1
    /\ client' = [client EXCEPT ![c] = "submitNotify"]
    /\ UNCHANGED <<lastTaskException, started, finished>>

\* cvTaskAvailable.wait of submitVoidTask.
SleepForSlot(c) ==
    /\ taskAvailable
    /\ client' = [client EXCEPT ![c] = "submitAsleep"]
    /\ UNCHANGED <<slot, result, history>>

\* Submitters that have not yet put their task into the slot.
Blocked == {d \in Clients : client[d] \in {"submitAsleep", "submitWoken"}}

SubmitVoidTask(c, f) ==
    /\ client[c] = "idle" /\ owner = "alive"
    /\ submitted + Cardinality(Blocked) < MaxTasks
    /\ PutTask(c, f) \/ SleepForSlot(c)
    /\ arg' = [arg EXCEPT ![c] = f]
    /\ UNCHANGED <<stopFlag, worker, owner>>

SubmitRechecks(c) ==
    /\ client[c] = "submitWoken"
    /\ PutTask(c, arg[c]) \/ SleepForSlot(c)
    /\ UNCHANGED <<arg, stopFlag, worker, owner>>

\* Mutant: the notification of a submission goes missing.
NotifyTaskMissing(c) ==
    /\ client[c] = "submitNotify"
    /\ client' = [client EXCEPT ![c] = "idle"]
    /\ UNCHANGED <<slot, result, history, stopFlag, worker, arg, owner>>

\* cvTaskAvailable.notify_one: one sleeper, the worker or a submitter.
NotifyTaskAvailable(c) ==
    /\ client[c] = "submitNotify"
    /\ LET idle == [client EXCEPT ![c] = "idle"]
           blocked == {d \in Clients : client[d] = "submitAsleep"}
       IN  \/ worker = "asleep" /\ worker' = "wait" /\ client' = idle
           \/ \E d \in blocked : client' = [idle EXCEPT ![d] = "submitWoken"] /\ UNCHANGED worker
           \/ worker # "asleep" /\ blocked = {} /\ client' = idle /\ UNCHANGED worker
    /\ UNCHANGED <<slot, result, history, stopFlag, arg, owner>>

\* cvTaskDone.wait: sleep until there is a completion to return.
CheckDone(c) ==
    /\ client' = [client EXCEPT ![c] =
                      IF taskCompletionState = "NOT_DONE" THEN "doneAsleep" ELSE "idle"]
    /\ UNCHANGED <<slot, result, history, stopFlag, worker, arg, owner>>

WaitForTaskCompletion(c) == client[c] = "idle" /\ owner = "alive" /\ CheckDone(c)

WaitRechecks(c) == client[c] = "doneWoken" /\ CheckDone(c)

\* A sleep on either condition variable may end for no reason.
SpuriousWakeup ==
    /\ \/ worker = "asleep" /\ worker' = "wait" /\ UNCHANGED client
       \/ \E c \in Clients : /\ client[c] = "submitAsleep"
                             /\ client' = [client EXCEPT ![c] = "submitWoken"]
                             /\ UNCHANGED worker
       \/ \E c \in Clients : /\ client[c] = "doneAsleep"
                             /\ client' = [client EXCEPT ![c] = "doneWoken"]
                             /\ UNCHANGED worker
    /\ UNCHANGED <<slot, result, history, stopFlag, arg, owner>>

-----------------------------------------------------------------------------
(* The destructor.  No call may be in progress when it starts.             *)

Destroy ==
    /\ owner = "alive" /\ \A c \in Clients : client[c] = "idle"
    /\ stopFlag' = TRUE
    /\ owner' = "notify"
    /\ UNCHANGED <<slot, result, history, worker, client, arg>>

\* Mutant: the destructor forgets to notify.
NotifyStopMissing ==
    /\ owner = "notify"
    /\ owner' = "join"
    /\ UNCHANGED <<slot, result, history, stopFlag, worker, client, arg>>

\* cvTaskAvailable.notify_all: only the worker can be asleep by now.
NotifyStop ==
    /\ owner = "notify"
    /\ worker' = IF worker = "asleep" THEN "wait" ELSE worker
    /\ owner' = "join"
    /\ UNCHANGED <<slot, result, history, stopFlag, client, arg>>

Join ==
    /\ owner = "join" /\ worker = "exited"
    /\ owner' = "gone"
    /\ UNCHANGED <<slot, result, history, stopFlag, worker, client, arg>>

-----------------------------------------------------------------------------
Worker == WorkerSleeps \/ WorkerExits \/ TakeTask \/ RunTask \/ NotifyTaskDone
Calls(c) == WaitForTaskCompletion(c) \/ \E f \in Functions : SubmitVoidTask(c, f)
Continues(c) == \/ SubmitRechecks(c) \/ NotifyTaskAvailable(c)
                \/ WaitRechecks(c)
Destructor == NotifyStop \/ Join

Next == \/ Worker \/ SpuriousWakeup \/ Destroy \/ Destructor
        \/ \E c \in Clients : Calls(c) \/ Continues(c)

Spec == Init /\ [][Next]_vars

\* Threads that are not asleep run, and tasks end.
Fairness == /\ WF_vars(Worker) /\ WF_vars(Destructor)
            /\ \A c \in Clients : WF_vars(Continues(c))

FairSpec == Spec /\ Fairness

-----------------------------------------------------------------------------
(* Properties.                                                             *)

\* The types of the state.
TypeOK ==
    /\ taskAvailable \in BOOLEAN /\ stopFlag \in BOOLEAN
    /\ task \in Functions
    /\ taskCompletionState \in {"NOT_DONE", "DONE", "DONE_WITH_ERRORS"}
    /\ lastTaskException \in 0 .. MaxTasks
    /\ worker \in {"wait", "asleep", "run", "notify", "exited"}
    /\ client \in [Clients -> {"idle", "submitAsleep", "submitWoken", "submitNotify",
                               "doneAsleep", "doneWoken"}]
    /\ arg \in [Clients -> Functions]
    /\ owner \in {"alive", "notify", "join", "gone"}
    /\ submitted \in 0 .. MaxTasks /\ started \in 0 .. MaxTasks /\ finished \in 0 .. MaxTasks

\* No task is lost, overwritten in the slot or run twice: all tasks but the one
\* in the slot have been taken by the worker.
NoTaskLost == submitted = started + (IF taskAvailable THEN 1 ELSE 0)

\* A completion that a client sees is that of the task the worker took last, and
\* at most one task behind the last one submitted.
CompletionIsRecent ==
    taskCompletionState # "NOT_DONE" => finished = started /\ submitted <= finished + 1

\* The exception on record is that of the last task, and only if it failed.
ExceptionIsOfLastTask ==
    lastTaskException # 0 =>
        /\ lastTaskException = finished /\ finished = started
        /\ taskCompletionState # "DONE"

\* The destructor ends, whatever the worker is doing when it starts.
DestructorReturns == stopFlag ~> owner = "gone"

\* "Notify the worker thread" (submitVoidTask): the worker does not sleep for
\* ever beside a task in the slot.
WorkerIsNotified == ~ <>[](taskAvailable /\ worker = "asleep")
=============================================================================
