--------------------------- MODULE DataExchanger ---------------------------
(***************************************************************************)
(* What a TcpSocket or NamedPipe does with the bytes it is given: two      *)
(* directions, each a sequence of cells (a cell stands for some bytes),    *)
(* each with a sending side that may hang up.  Cells carry what they were  *)
(* made from, so that cells read in the wrong place can be told.           *)
(***************************************************************************)
EXTENDS Naturals, Sequences, SequencesExt

CONSTANT HdrLen   \* cells of a request header, and of a size prefix

ASSUME HdrLenAssumption == HdrLen \in Nat \ {0}

VARIABLES wire,   \* wire[d]: sent in direction d and not received yet
          hungUp  \* hungUp[d]: the sending side of d is closed

Directions == {"request", "reply"}
exchanger == <<wire, hungUp>>

ExchangerInit ==
    /\ wire = [d \in Directions |-> <<>>]
    /\ hungUp = [d \in Directions |-> FALSE]

Cell(tag, n, i) == [tag |-> tag, n |-> n, i |-> i, args |-> <<>>]
Cells(tag, n, len) == [i \in 1 .. len |-> Cell(tag, n, i)]

\* send puts the first k cells on the wire and returns k.
Send(d, cells, k) == wire' = [wire EXCEPT ![d] = @ \o SubSeq(cells, 1, k)]

\* The counts receive(len) may return, none of them when it blocks; even one of
\* nothing waits for something to be there, or for the end of the stream.  With
\* waitAll (MSG_WAITALL, and no signal that interrupts the wait) it waits for
\* all of len; a program that takes signals has the counts of waitAll = FALSE.
ReceiveCounts(d, len, waitAll) ==
    LET there == Len(wire[d]) IN
    IF waitAll /\ there < len
    THEN {there} \cap (IF hungUp[d] THEN Nat ELSE {})
    ELSE {k \in 0 .. len : /\ k <= there /\ (waitAll => k = len)
                           /\ k = 0 => IF there = 0 THEN hungUp[d] ELSE len = 0}

Received(d, k) == SubSeq(wire[d], 1, k)
Receive(d, k) == wire' = [wire EXCEPT ![d] = SubSeq(@, k + 1, Len(@))]

HangUp(d) == hungUp' = [hungUp EXCEPT ![d] = TRUE]
=============================================================================
