--------------------------- MODULE ObjectTransfer --------------------------
(***************************************************************************)
(* ObjectSender and ObjectReceiver; TextSender and TextReceiver have the   *)
(* same control.  An object travels as its size followed by its bytes, and *)
(* each of the two is sent and received in a loop that adds up what the    *)
(* transport returns, in a size_t.  The transports fail differently: a     *)
(* TcpSocket throws; a NamedPipe closes itself and returns ~size_t(0),     *)
(* which the loops take for a count.                                       *)
(***************************************************************************)
EXTENDS DataExchanger

CONSTANTS MaxSize,      \* the largest object sent
          BufferSize,   \* the receiver's bufferSize (maxTextSize)
          MaxObjects,   \* bound on the objects sent
          SIZE_MAX      \* ~size_t(0)

ASSUME SizeAssumption ==
    /\ MaxSize \in Nat /\ BufferSize \in Nat /\ SIZE_MAX \in Nat
    /\ HdrLen < SIZE_MAX /\ MaxSize < SIZE_MAX

VARIABLES transport,    \* "tcp" or "pipe"
          sender,       \* [pc, count, open]
          receiver,     \* [pc, count, open, size, data]
          sizes,        \* history: the size of each object sent
          arrived       \* history: how each receiveObject ended: [outcome, data]

transferVars == <<transport, sender, receiver, sizes, arrived>>

TransferInit ==
    /\ transport \in {"tcp", "pipe"}
    /\ sender = [pc |-> "idle", count |-> 0, open |-> TRUE]
    /\ receiver = [pc |-> "idle", count |-> 0, open |-> TRUE, size |-> 0, data |-> <<>>]
    /\ sizes = <<>> /\ arrived = <<>>

Plus(count, returned) == (count + returned) % (SIZE_MAX + 1)

-----------------------------------------------------------------------------
(* sendObject / sendText.                                                  *)

SendObject(size) ==
    /\ sender.pc = "idle" /\ Len(sizes) < MaxObjects
    /\ sizes' = Append(sizes, size)
    /\ sender' = [sender EXCEPT !.pc = "size", !.count = 0]
    /\ UNCHANGED <<exchanger, transport, receiver, arrived>>

SenderGoal == IF sender.pc = "size" THEN HdrLen ELSE Last(sizes)
SenderCells ==
    IF sender.pc = "size"
    THEN Cells("size", Len(sizes), HdrLen)
    ELSE Cells("body", Len(sizes), Last(sizes))

\* Mutant: send is called once, whatever it returns.
M_SenderLoopsOnce(count, open) ==
    sender' = [pc |-> IF sender.pc = "size" THEN "body" ELSE "idle",
               count |-> 0, open |-> open]

\* One round of a loop ends with count.
SenderAfter(count, open) ==
    sender' = IF count < SenderGoal
              THEN [sender EXCEPT !.count = count, !.open = open]
              ELSE [pc |-> IF sender.pc = "size" THEN "body" ELSE "idle",
                    count |-> 0, open |-> open]

SenderSend ==
    /\ sender.pc \in {"size", "body"} /\ sender.open
    /\ \E k \in IF SenderGoal = 0 THEN {0} ELSE 1 .. SenderGoal - sender.count :
          /\ Send("request", SubSeq(SenderCells, sender.count + 1, SenderGoal), k)
          /\ SenderAfter(Plus(sender.count, k), TRUE)
    /\ UNCHANGED <<hungUp, transport, receiver, sizes, arrived>>

\* A NamedPipe that fails, and any transport that is used after it did.
SenderSendFails ==
    /\ sender.pc \in {"size", "body"}
    /\ IF transport = "pipe" /\ sender.open
       THEN SenderAfter(Plus(sender.count, SIZE_MAX), FALSE)
       ELSE sender' = [sender EXCEPT !.pc = "threw", !.open = FALSE]
    /\ UNCHANGED <<exchanger, transport, receiver, sizes, arrived>>

\* The sending program ends, or closes its socket.
SenderHangUp ==
    /\ transport = "tcp" /\ ~hungUp["request"] /\ sender.pc \in {"idle", "threw"}
    /\ HangUp("request")
    /\ sender' = [sender EXCEPT !.pc = "threw", !.open = FALSE]
    /\ UNCHANGED <<wire, transport, receiver, sizes, arrived>>

-----------------------------------------------------------------------------
(* receiveObject / receiveText.                                            *)

ReceiveObject ==
    /\ receiver.pc = "idle" /\ Len(arrived) < MaxObjects
    /\ receiver' = [receiver EXCEPT !.pc = "size", !.count = 0, !.data = <<>>]
    /\ UNCHANGED <<exchanger, transport, sender, sizes, arrived>>

ReceiverGoal == IF receiver.pc = "size" THEN HdrLen ELSE receiver.size

\* The incomingObjectSize that was read: garbage if it was not one size, whole.
IncomingSizes(cells) ==
    IF cells # <<>> /\ cells = Cells("size", cells[1].n, HdrLen)
    THEN {sizes[cells[1].n]}
    ELSE 0 .. MaxSize

ReceiveEnds(outcome, data, open) ==
    /\ arrived' = Append(arrived, [outcome |-> outcome, data |-> data])
    /\ receiver' = [receiver EXCEPT !.pc = IF open \/ outcome = "returns" THEN "idle" ELSE "threw",
                                    !.open = open, !.count = 0, !.data = <<>>]

\* One round of a loop ends with count, having read data.
ReceiverAfter(count, data, open) ==
    CASE count < ReceiverGoal ->
            /\ receiver' = [receiver EXCEPT !.count = count, !.data = data, !.open = open]
            /\ UNCHANGED arrived
      [] count >= ReceiverGoal /\ receiver.pc = "size" ->
            \E size \in IncomingSizes(data) :
               IF size > BufferSize
               THEN ReceiveEnds("throws", <<>>, open)
               ELSE /\ receiver' = [pc |-> "body", count |-> 0, open |-> open,
                                    size |-> size, data |-> <<>>]
                    /\ UNCHANGED arrived
      [] count >= ReceiverGoal /\ receiver.pc = "body" ->
            ReceiveEnds("returns", data, open)

\* The counts of one receive of len: a NamedPipe answers at once when len is 0,
\* a TcpSocket waits for the bytes of the next object all the same.
ReceiverCounts(len) ==
    IF transport = "pipe" /\ len = 0 THEN {0} ELSE ReceiveCounts("request", len, FALSE)

\* Mutant: asks for the whole again instead of for the rest.
M_ReceiverRereads ==
    /\ receiver.pc \in {"size", "body"} /\ receiver.open
    /\ \E k \in ReceiverCounts(ReceiverGoal) :
          /\ Receive("request", k)
          /\ ReceiverAfter(Plus(receiver.count, k), receiver.data \o Received("request", k), TRUE)
    /\ UNCHANGED <<hungUp, transport, sender, sizes>>

\* A socket whose peer has closed returns 0 again and again.
ReceiverRead ==
    /\ receiver.pc \in {"size", "body"} /\ receiver.open
    /\ \E k \in ReceiverCounts(ReceiverGoal - receiver.count) :
          /\ Receive("request", k)
          /\ ReceiverAfter(Plus(receiver.count, k), receiver.data \o Received("request", k), TRUE)
    /\ UNCHANGED <<hungUp, transport, sender, sizes>>

ReceiverReadFails ==
    /\ receiver.pc \in {"size", "body"}
    /\ IF transport = "pipe" /\ receiver.open
       THEN ReceiverAfter(Plus(receiver.count, SIZE_MAX), receiver.data, FALSE)
       ELSE ReceiveEnds("throws", <<>>, FALSE)
    /\ UNCHANGED <<exchanger, transport, sender, sizes>>

TransferNext ==
    \/ \E size \in 0 .. MaxSize : SendObject(size)
    \/ SenderSend \/ SenderSendFails \/ SenderHangUp
    \/ ReceiveObject \/ ReceiverRead \/ ReceiverReadFails

-----------------------------------------------------------------------------
(* However the transport cuts the bytes up, the n-th receiveObject that    *)
(* returns has the n-th object in its buffer - unless an earlier one threw *)
(* (an object larger than the buffer stays on the stream and is read as    *)
(* sizes), or the receiving pipe failed: an error at the start of the body *)
(* counts as SIZE_MAX bytes, and receiveObject returns without having      *)
(* received anything (ObjectReceiver.h 47).                                *)
ObjectsArriveIntact ==
    \A n \in 1 .. Len(arrived) :
       /\ arrived[n].outcome = "returns"
       /\ \A m \in 1 .. n : arrived[m].outcome # "throws"
       /\ receiver.open
       => arrived[n].data = Cells("body", n, sizes[n])

(* The n-th receiveObject ends once n objects were handed to sendObject,   *)
(* if neither side fails or closes and none of the n is too large for the  *)
(* buffer - but on a TcpSocket the one of an empty object ends only when   *)
(* another object follows it: the loop calls receive with a length of 0    *)
(* (ObjectReceiver.h 47), which waits for bytes that are not its own.      *)
TransferUndisturbed(n) ==
    /\ sender.open /\ receiver.open
    /\ \A m \in 1 .. Len(sizes) : m <= n => sizes[m] <= BufferSize
HasBytesToCome(n) ==
    Len(sizes) >= n /\ (transport = "tcp" /\ sizes[n] = 0 => Len(sizes) > n)
InReception(n) == Len(arrived) = n - 1 /\ receiver.pc \in {"size", "body"}
TransferCompletes ==
    \A n \in 1 .. MaxObjects :
       InReception(n) /\ HasBytesToCome(n) /\ TransferUndisturbed(n)
          ~> ~InReception(n) \/ ~TransferUndisturbed(n)
=============================================================================
