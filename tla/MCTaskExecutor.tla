--------------------------- MODULE MCTaskExecutor ---------------------------
(* TaskExecutor used in two ways: by any number of clients that submit and *)
(* wait as they like, and the way its interface suggests, by one thread    *)
(* that submits a task, waits for its completion, and only then submits    *)
(* the next one.                                                           *)
EXTENDS TaskExecutor

CONSTANT Caller  \* the client that takes turns

ASSUME CallerAssumption == Caller \in Clients

VARIABLE turn  \* "any", or the call the caller makes next

MCInit == Init /\ turn \in {"any", "submit"}

AnyCall == turn = "any" /\ (\E c \in Clients : Calls(c)) /\ UNCHANGED turn
Submits == turn = "submit" /\ SubmitVoidTask(Caller, "function") /\ turn' = "wait"
Awaits == turn = "wait" /\ WaitForTaskCompletion(Caller) /\ turn' = "submit"

MCNext == \/ AnyCall \/ Submits \/ Awaits
          \/ /\ \/ Worker \/ SpuriousWakeup \/ Destroy \/ Destructor
                \/ \E c \in Clients : Continues(c)
             /\ UNCHANGED turn

MCSpec == MCInit /\ [][MCNext]_<<vars, turn>> /\ Fairness

\* With turns, the completion that waitForTaskCompletion returns is that of the
\* caller's own task, never one left over from the task before.
CompletionIsOwn == turn = "submit" /\ client[Caller] = "idle" => finished = submitted

\* With turns, waitForTaskCompletion returns: neither the notification of the
\* task to the worker nor that of the completion to the caller can go missing.
WaitCompletes ==
    (turn # "any" /\ client[Caller] = "doneAsleep") ~> client[Caller] = "idle"
=============================================================================
