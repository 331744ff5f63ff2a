----------------------------- MODULE NamedPipe -----------------------------
(***************************************************************************)
(* NamedPipe (POSIX): the pipes of the model share one name, as the two    *)
(* ends of a pipe do.                                                      *)
(***************************************************************************)
EXTENDS Descriptors

CONSTANT Pipes

VARIABLES pipe,   \* pipe[p] = [fd, state]
          fifo    \* the name exists in the file system

PipeFields == [fd : Fds \cup {-1}, state : {"DISCONNECTED", "CREATED", "CONNECTED"}]
NewPipe == [fd |-> -1, state |-> "DISCONNECTED"]

PipeInit == pipe = [p \in Pipes |-> NewPipe] /\ fifo = FALSE

\* close(): also the end of every failing operation, and the destructor.
PipeClose(p) ==
    /\ owner' = OwnerAfterClose(pipe[p].fd)
    /\ pipe' = [pipe EXCEPT ![p] = NewPipe]

\* mkfifo succeeds, whatever the pipe was doing, ...
PipeCreate(p) ==
    /\ ~fifo /\ fifo' = TRUE
    /\ pipe' = [pipe EXCEPT ![p].state = "CREATED"]
    /\ UNCHANGED owner

\* ... or fails, most often because the name is in use.
PipeCreateFails(p) == PipeClose(p) /\ UNCHANGED fifo

\* The descriptor of an earlier open is overwritten.
PipeOpen(p) ==
    /\ pipe[p].state # "CONNECTED" /\ fifo
    /\ \E f \in Fds :
          /\ Opens(p, f)
          /\ pipe' = [pipe EXCEPT ![p] = [fd |-> f, state |-> "CONNECTED"]]
    /\ UNCHANGED fifo

\* fd is already -1 when close() runs: an earlier descriptor is not closed.
PipeOpenFails(p) ==
    /\ pipe[p].state # "CONNECTED"
    /\ pipe' = [pipe EXCEPT ![p] = NewPipe]
    /\ UNCHANGED <<owner, fifo>>

PipeSendFails(p) == pipe[p].state = "CONNECTED" /\ PipeClose(p) /\ UNCHANGED fifo
PipeReceiveFails(p) == pipe[p].state = "CONNECTED" /\ PipeClose(p) /\ UNCHANGED fifo

PipeUnlink(p) ==
    /\ pipe[p].state # "CONNECTED"
    /\ IF pipe[p].state # "DISCONNECTED" THEN PipeClose(p) ELSE UNCHANGED <<pipe, owner>>
    /\ fifo' = FALSE
=============================================================================
