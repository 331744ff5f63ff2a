--------------------------- MODULE ExchangeProofs --------------------------
(***************************************************************************)
(* Proofs about Rpc and ObjectTransfer over a connection that delivers in  *)
(* pieces, fails and closes, for every length of headers, objects, buffers *)
(* and parameter lists.                                                    *)
(***************************************************************************)
EXTENDS MCExchange, SequenceTheorems, WellFoundedInduction, TLAPS

\* What sequences of cells hold: requests and objects are cells without
\* arguments, a reply carries the arguments it was computed from.
PlainCell == [tag : {"header", "param", "size", "body"}, n : Nat, i : Nat, args : {<<>>}]
ReplyCell == [tag : {"done", "result"}, n : Nat, i : Nat, args : Seq(PlainCell)]

-----------------------------------------------------------------------------
(* Object transfer.                                                        *)

TransferTypeOK ==
    /\ transport \in {"tcp", "pipe"}
    /\ DOMAIN wire = Directions /\ wire["request"] \in Seq(PlainCell)
    /\ sizes \in Seq(0 .. MaxSize)
    /\ sender \in [pc : {"idle", "size", "body", "threw"}, count : Nat, open : BOOLEAN]
    /\ sender.open => sender.pc # "threw"
    /\ receiver \in [pc : {"idle", "size", "body", "threw"}, count : Nat, open : BOOLEAN,
                     size : Nat, data : Seq(PlainCell)]
    /\ arrived \in Seq([outcome : {"returns", "throws"}, data : Seq(PlainCell)])

\* Every cell is of an object that was given to sendObject.
OfObjects ==
    /\ \A j \in 1 .. Len(wire["request"]) : wire["request"][j].n \in 1 .. Len(sizes)
    /\ \A j \in 1 .. Len(receiver.data) : receiver.data[j].n \in 1 .. Len(sizes)

\* The cell that follows x in what a sender that never fails sends: the size
\* of an object, its bytes if it has any, the size of the next object.  sz has
\* the sizes of the objects.
After(x, sz) ==
    IF x.tag = "size" /\ x.i < HdrLen THEN Cell("size", x.n, x.i + 1)
    ELSE IF x.tag = "size" /\ sz[x.n] > 0 THEN Cell("body", x.n, 1)
    ELSE IF x.tag = "body" /\ x.i < sz[x.n] THEN Cell("body", x.n, x.i + 1)
    ELSE Cell("size", x.n + 1, 1)

\* The cell that the sender sends next.
SenderNext ==
    IF sender.pc = "size" THEN Cell("size", Len(sizes), sender.count + 1)
    ELSE IF sender.pc = "body" /\ sender.count < Last(sizes)
    THEN Cell("body", Len(sizes), sender.count + 1)
    ELSE Cell("size", Len(sizes) + 1, 1)

\* The cell that the receiver is to read next.
ReceiverNext ==
    IF receiver.pc = "size" THEN Cell("size", Len(arrived) + 1, receiver.count + 1)
    ELSE IF receiver.pc = "body" /\ receiver.count < receiver.size
    THEN Cell("body", Len(arrived) + 1, receiver.count + 1)
    ELSE IF receiver.pc = "body" THEN Cell("size", Len(arrived) + 2, 1)
    ELSE Cell("size", Len(arrived) + 1, 1)

\* A loop that has not ended has something left to do, or nothing at all.
SenderInLoop ==
    sender.open /\ sender.pc # "idle" =>
       /\ Len(sizes) > 0
       /\ sender.count \in 0 .. SenderGoal
       /\ sender.count = SenderGoal => SenderGoal = 0

\* What a receiver that is in step has read of the object it is at.
ReceiverInLoop ==
    /\ receiver.pc \in {"size", "body"} =>
          /\ receiver.count \in 0 .. ReceiverGoal
          /\ receiver.count = ReceiverGoal => ReceiverGoal = 0
          /\ receiver.data = Cells(receiver.pc, Len(arrived) + 1, receiver.count)
    /\ receiver.pc = "body" =>
          Len(arrived) < Len(sizes) /\ receiver.size = sizes[Len(arrived) + 1]

\* The wire is a part of the stream, from where the receiver is to where the
\* sender is or was when it failed.
WireInStep ==
    LET w == wire["request"] IN
    /\ \A j \in 1 .. Len(w) : j < Len(w) => w[j + 1] = After(w[j], sizes)
    /\ Len(w) > 0 => w[1] = ReceiverNext
    /\ sender.open =>
          SenderNext = IF Len(w) = 0 THEN ReceiverNext ELSE After(w[Len(w)], sizes)

\* The first n calls of receiveObject have returned.
Arrived(n) == \A m \in 1 .. n : arrived[m].outcome # "throws"

\* Nothing arrives that was not sent.
ArrivedWereSent ==
    \A n \in 1 .. Len(arrived) : receiver.open /\ Arrived(n) => n <= Len(sizes)

TransferInStep ==
    receiver.open /\ Arrived(Len(arrived)) =>
       receiver.pc # "threw" /\ ReceiverInLoop /\ WireInStep

TransferInv ==
    /\ TransferTypeOK /\ OfObjects /\ SenderInLoop /\ ArrivedWereSent
    /\ ObjectsArriveIntact
    /\ TransferInStep

-----------------------------------------------------------------------------
(* RPC.                                                                    *)

RpcTypeOK ==
    /\ env \in RpcEnvs
    /\ DOMAIN wire = Directions /\ DOMAIN hungUp = Directions
    /\ wire["request"] \in Seq(PlainCell) /\ wire["reply"] \in Seq(ReplyCell)
    /\ client \in {"idle", "reply", "broken", "closed"}
    /\ server.pc \in {"header", "params", "stopped"}
    /\ server.pc = "params" => server.call \in 1 .. Len(calls)
    /\ calls \in Seq(Functions)
    /\ results \in Seq([outcome : {"void", "value", "throws"}, value : Seq(ReplyCell)])
    /\ executed \in Seq([call : Nat, args : Seq(PlainCell)])
    /\ rejected \subseteq 0 .. Len(calls)
    /\ Len(calls) = Len(results) + (IF client = "reply" THEN 1 ELSE 0)

\* Every request on the wire and every execution is of a call that was made.
OfCalls ==
    /\ \A i \in 1 .. Len(wire["request"]) : wire["request"][i].n \in 1 .. Len(calls)
    /\ \A i \in 1 .. Len(executed) : executed[i].call \in 1 .. Len(calls)

HangUps ==
    /\ hungUp["request"] <=> client = "closed"
    /\ hungUp["reply"] => server.pc = "stopped"

IsBeginning(w, s) == Len(w) <= Len(s) /\ \A i \in 1 .. Len(w) : w[i] = s[i]

\* Reply and Arguments, of the function and of the order that they use.
ReplyOf(f, c, args) ==
    IF f.void
    THEN <<Cell("done", c, 1)>>
    ELSE [i \in 1 .. RetLen |-> [Cell("result", c, i) EXCEPT !.args = args]]
ArgumentsIn(order, params) == IF order = "ltr" THEN params ELSE Reverse(params)

\* Calls 1 to c have returned, when rs are the results.
Returned(rs, c) == \A b \in 1 .. c : rs[b].outcome # "throws"

\* Call c is executed once, when es are the executions.
Once(es, c) == \E i \in 1 .. Len(es) : \A j \in 1 .. Len(es) : es[j].call = c <=> j = i

\* ReturnedValueIsOwn and ReturnedWasExecuted in these terms.
OwnValues ==
    \A c \in 1 .. Len(results) :
       /\ results[c].outcome = "value" /\ Returned(results, c)
       /\ env.order = "ltr" \/ calls[c].params < 2
       => results[c].value = ReplyOf(calls[c], c, Cells("param", c, calls[c].params))
OnceEach ==
    \A c \in 1 .. Len(results) :
       /\ Returned(results, c)
       /\ results[c].outcome = "value" \/ ~hungUp["reply"]
       => Once(executed, c)

\* Between two calls nothing is on the way to the client, and nothing to a
\* server that would take it for a request.
AtRest ==
    /\ wire["reply"] = <<>>
    /\ server.pc # "params"
    /\ server.pc = "header" => wire["request"] = <<>>

\* The last call is on the wire, in the server, or was refused by it.
NotYetExecuted ==
    LET c == Len(calls)
        f == calls[c]
        w == wire["request"] IN
    /\ wire["reply"] = <<>>
    /\ \A i \in 1 .. Len(executed) : executed[i].call # c
    /\ \/ /\ server.pc = "header"
          /\ IsBeginning(w, Request(c, f))
          /\ ~env.shortSend => Len(w) = HdrLen + f.params
       \/ /\ server.pc = "params" /\ server.call = c
          /\ IsBeginning(w, Cells("param", c, f.params))
          /\ ~env.shortSend => Len(w) = f.params
       \/ /\ server.pc = "header"
          /\ \A i \in 1 .. Len(w) : w[i].tag = "param"
       \/ server.pc = "stopped"

\* The last call has been executed, and its reply, if the server did not fail,
\* is on the wire.
ReplyOnTheWay ==
    LET c == Len(calls)
        f == calls[c] IN
    /\ server.pc \in {"header", "stopped"} /\ wire["request"] = <<>>
    /\ IsBeginning(wire["reply"],
                   ReplyOf(f, c, ArgumentsIn(env.order, Cells("param", c, f.params))))
    /\ Once(executed, c)

\* Until a call throws, client and server are in step.
RpcInStep ==
    Returned(results, Len(results)) =>
       IF client = "reply" THEN NotYetExecuted \/ ReplyOnTheWay ELSE AtRest

\* The server does not meet a call again that has returned.
Settled ==
    \A c \in 1 .. Len(results) :
       Returned(results, c) /\ server.pc # "stopped" =>
          /\ server.pc = "params" => server.call # c
          /\ \A i \in 1 .. Len(wire["request"]) : wire["request"][i].n # c

\* With MSG_WAITALL and whole sends the client makes no other call after one
\* that threw, unless the server has ended.
ThrowsAtTheEnd ==
    env.blocking /\ ~env.shortSend /\ ~Returned(results, Len(results))
       => server.pc = "stopped" \/ client \in {"broken", "closed"}

\* A request that is read, or about to be read, is all there; only a refused
\* one leaves parameters behind.
WholeRequests ==
    env.blocking /\ ~env.shortSend =>
       /\ server.pc = "params" =>
             /\ Len(wire["request"]) = calls[server.call].params
             /\ \A i \in 1 .. Len(wire["request"]) : wire["request"][i].tag = "param"
       /\ server.pc = "header" =>
             \/ \E c \in 1 .. Len(calls) : wire["request"] = Request(c, calls[c])
             \/ wire["request"] = <<>>
             \/ /\ rejected # {}
                /\ \A i \in 1 .. Len(wire["request"]) : wire["request"][i].tag = "param"

RpcInv ==
    /\ RpcTypeOK /\ OfCalls /\ HangUps
    /\ OwnValues /\ OnceEach /\ RejectedOnlyIf
    /\ RpcInStep /\ Settled /\ ThrowsAtTheEnd /\ WholeRequests

ExchangeInv ==
    /\ protocol \in {"rpc", "transfer"}
    /\ protocol = "rpc" => RpcInv /\ arrived = <<>>
    /\ protocol = "transfer" =>
          TransferInv /\ results = <<>> /\ rejected = {} /\ server.pc = "header"

-----------------------------------------------------------------------------
(* Sequences.                                                              *)

\* Every non-empty set of naturals has a least element.
LEMMA NatMin ==
    ASSUME NEW T \in SUBSET Nat, T # {}
    PROVE  \E x \in T : \A y \in T : x <= y
<1> DEFINE R == OpToRel(<, Nat)
<1>1. IsWellFoundedOn(R, Nat)
    BY NatLessThanWellFounded, Zenon
<1>2. PICK x \in T : \A y \in T : ~(<<y, x>> \in R)
    <2> HIDE DEF R
    <2> QED
        BY <1>1, WFMin
<1>3. \A y \in T : y < x => <<y, x>> \in R
    BY DEF OpToRel
<1>4. \A y \in T : ~(y < x)
    BY <1>2, <1>3, Zenon
<1> QED
    BY <1>4

\* A part of a sequence.
LEMMA PartOf ==
    ASSUME NEW S, NEW w \in Seq(S), NEW a \in Nat, NEW b \in Nat, a <= b, b <= Len(w)
    PROVE  /\ SubSeq(w, a + 1, b) \in Seq(S)
           /\ Len(SubSeq(w, a + 1, b)) = b - a
           /\ \A i \in 1 .. b - a : SubSeq(w, a + 1, b)[i] = w[a + i]
<1>1. Len(w) \in Nat /\ \A i \in (a + 1) .. b : w[i] \in S
    BY LenProperties, ElementOfSeq
<1>2. /\ SubSeq(w, a + 1, b) \in Seq(S)
      /\ Len(SubSeq(w, a + 1, b)) = IF a + 1 <= b THEN b - (a + 1) + 1 ELSE 0
      /\ \A i \in 1 .. b - (a + 1) + 1 : SubSeq(w, a + 1, b)[i] = w[(a + 1) + i - 1]
    BY <1>1, SubSeqProperties
<1> QED
    BY <1>2

\* What is left after k cells were received, and what was received.
LEMMA ReceiveSeq ==
    ASSUME NEW S, NEW w \in Seq(S), NEW k \in 0 .. Len(w)
    PROVE  /\ Len(w) \in Nat /\ k \in Nat
           /\ SubSeq(w, k + 1, Len(w)) \in Seq(S)
           /\ Len(SubSeq(w, k + 1, Len(w))) = Len(w) - k
           /\ \A i \in 1 .. Len(w) - k : SubSeq(w, k + 1, Len(w))[i] = w[k + i]
           /\ SubSeq(w, 1, k) \in Seq(S)
           /\ Len(SubSeq(w, 1, k)) = k
           /\ \A i \in 1 .. k : SubSeq(w, 1, k)[i] = w[i]
<1>1. Len(w) \in Nat /\ k \in Nat /\ k <= Len(w)
    BY LenProperties
<1>2. /\ SubSeq(w, 0 + 1, k) \in Seq(S)
      /\ Len(SubSeq(w, 0 + 1, k)) = k - 0
      /\ \A i \in 1 .. k - 0 : SubSeq(w, 0 + 1, k)[i] = w[0 + i]
    BY <1>1, PartOf
<1>3. /\ SubSeq(w, k + 1, Len(w)) \in Seq(S)
      /\ Len(SubSeq(w, k + 1, Len(w))) = Len(w) - k
      /\ \A i \in 1 .. Len(w) - k : SubSeq(w, k + 1, Len(w))[i] = w[k + i]
    BY <1>1, PartOf
<1> QED
    BY <1>1, <1>2, <1>3

\* The wire after the first k of cells have been sent.
LEMMA SendSeq ==
    ASSUME NEW S, NEW w \in Seq(S), NEW cells \in Seq(S), NEW k \in 0 .. Len(cells)
    PROVE  /\ Len(w) \in Nat /\ k \in Nat
           /\ w \o SubSeq(cells, 1, k) \in Seq(S)
           /\ Len(w \o SubSeq(cells, 1, k)) = Len(w) + k
           /\ \A i \in 1 .. Len(w) : (w \o SubSeq(cells, 1, k))[i] = w[i]
           /\ \A i \in 1 .. k : (w \o SubSeq(cells, 1, k))[Len(w) + i] = cells[i]
<1> DEFINE t == SubSeq(cells, 1, k)
<1>1. Len(w) \in Nat /\ k \in Nat
    BY LenProperties
<1>2. t \in Seq(S) /\ Len(t) = k /\ \A i \in 1 .. k : t[i] = cells[i]
    BY ReceiveSeq
<1> HIDE DEF t
<1>3. /\ w \o t \in Seq(S)
      /\ Len(w \o t) = Len(w) + Len(t)
      /\ \A i \in 1 .. Len(w) + Len(t) :
             (w \o t)[i] = IF i <= Len(w) THEN w[i] ELSE t[i - Len(w)]
    BY <1>2, ConcatProperties
<1>4. \A i \in 1 .. k : (w \o t)[Len(w) + i] = cells[i]
    <2> SUFFICES ASSUME NEW i \in 1 .. k PROVE (w \o t)[Len(w) + i] = cells[i]
        OBVIOUS
    <2>1. Len(w) + i \in 1 .. Len(w) + Len(t) /\ ~(Len(w) + i <= Len(w)) /\ (Len(w) + i) - Len(w) = i
        BY <1>1, <1>2
    <2> QED
        BY <1>2, <1>3, <2>1
<1>5. \A i \in 1 .. Len(w) : (w \o t)[i] = w[i]
    BY <1>1, <1>2, <1>3
<1> QED
    BY <1>1, <1>2, <1>3, <1>4, <1>5 DEF t

\* The cells of a message.
LEMMA CellsSeq ==
    ASSUME NEW tag \in {"header", "param", "size", "body"}, NEW n \in Nat, NEW len \in Nat
    PROVE  /\ Cells(tag, n, len) \in Seq(PlainCell)
           /\ Len(Cells(tag, n, len)) = len
           /\ \A i \in 1 .. len : Cells(tag, n, len)[i] = Cell(tag, n, i)
<1>1. \A i \in 1 .. len : Cell(tag, n, i) \in PlainCell
    BY DEF Cell, PlainCell
<1> QED
    BY <1>1 DEF Cells

-----------------------------------------------------------------------------
(* Object transfer: the stream.                                            *)

\* The length of the size prefix or of the body of object n.
Goal(tag, n) == IF tag = "size" THEN HdrLen ELSE sizes[n]

\* Inside a prefix or a body, After is the next cell of it.
LEMMA RunOfCells ==
    ASSUME NEW w \in Seq(PlainCell),
           \A j \in 1 .. Len(w) : j < Len(w) => w[j + 1] = After(w[j], sizes),
           NEW tag \in {"size", "body"}, NEW n \in Nat, NEW c \in Nat, NEW k \in 1 .. Len(w),
           Goal(tag, n) \in Nat, c + k <= Goal(tag, n),
           w[1] = Cell(tag, n, c + 1)
    PROVE  \A i \in 1 .. k : w[i] = Cell(tag, n, c + i)
<1> DEFINE T == {i \in Nat : i \in 1 .. k /\ w[i] # Cell(tag, n, c + i)}
<1> SUFFICES ASSUME T # {} PROVE FALSE
    OBVIOUS
<1>0. Len(w) \in Nat /\ k \in Nat
    BY LenProperties
<1>1. PICK x \in T : \A y \in T : x <= y
    <2>1. T \in SUBSET Nat
        OBVIOUS
    <2> QED
        BY <2>1, NatMin
<1>2. x \in 2 .. k /\ w[x] # Cell(tag, n, c + x)
    BY <1>0
<1>3. x - 1 \in Nat /\ x - 1 \in 1 .. k /\ ~(x <= x - 1) /\ (x - 1) + 1 = x
    BY <1>0, <1>2
<1>4. w[x - 1] = Cell(tag, n, c + (x - 1))
    BY <1>1, <1>3
<1>5. w[x] = After(w[x - 1], sizes)
    <2>1. x - 1 \in 1 .. Len(w) /\ x - 1 < Len(w)
        BY <1>0, <1>2
    <2>2. w[(x - 1) + 1] = After(w[x - 1], sizes)
        BY <2>1
    <2> QED
        BY <2>2, <1>3
<1>6. c + (x - 1) < Goal(tag, n) /\ c + (x - 1) + 1 = c + x
    BY <1>0, <1>2
<1>7. After(Cell(tag, n, c + (x - 1)), sizes) = Cell(tag, n, c + x)
    BY <1>6, <1>2, <1>0, HdrLenAssumption DEF After, Cell, Goal
<1> QED
    BY <1>2, <1>4, <1>5, <1>7

\* A sum that does not exceed SIZE_MAX does not wrap.
LEMMA PlusFits ==
    ASSUME NEW a \in Nat, NEW b \in Nat, a + b <= SIZE_MAX
    PROVE  Plus(a, b) = a + b
BY SizeAssumption DEF Plus


-----------------------------------------------------------------------------
(* Object transfer: the sender.                                            *)

\* The initial state, whose wire is empty on both ends.
LEMMA TransferInitInv == ExchangerInit /\ TransferInit => TransferInv
<1> SUFFICES ASSUME ExchangerInit, TransferInit PROVE TransferInv
    OBVIOUS
<1> USE DEF ExchangerInit, TransferInit
<1>1. wire["request"] = <<>> /\ DOMAIN wire = Directions /\ Len(<<>>) = 0
    BY DEF Directions
<1>2. TransferTypeOK
    <2>1. TRUE \in BOOLEAN /\ <<>> \in Seq(PlainCell)
        BY EmptySeq
    <2> QED
        BY <1>1, <2>1, EmptySeq DEF TransferTypeOK
<1>3. WireInStep
    BY <1>1 DEF WireInStep, SenderNext, ReceiverNext
<1> QED
    BY <1>1, <1>2, <1>3
       DEF TransferInv, OfObjects, SenderInLoop, ArrivedWereSent, ObjectsArriveIntact,
           TransferInStep, ReceiverInLoop

\* A new object does not change what is on the way of the others.
LEMMA SendObjectInv ==
    ASSUME TransferInv, NEW size \in 0 .. MaxSize, SendObject(size)
    PROVE  TransferInv'
<1> DEFINE N == Len(sizes)
<1>1. /\ N \in Nat
      /\ sizes' \in Seq(0 .. MaxSize)
      /\ Len(sizes') = N + 1
      /\ \A i \in 1 .. N : sizes'[i] = sizes[i]
      /\ Last(sizes') = size
    BY AppendProperties, LenProperties DEF TransferInv, TransferTypeOK, SendObject, Last
<1>2. /\ sender'.pc = "size" /\ sender'.count = 0 /\ sender'.open = sender.open
      /\ sender' \in [pc : {"idle", "size", "body", "threw"}, count : Nat, open : BOOLEAN]
      /\ sender.pc = "idle"
    BY DEF TransferInv, TransferTypeOK, SendObject
<1>3. UNCHANGED <<wire, transport, receiver, arrived>>
    BY DEF SendObject, exchanger
<1>4. TransferTypeOK'
    BY <1>1, <1>2, <1>3 DEF TransferInv, TransferTypeOK
<1>5. SenderInLoop' /\ OfObjects'
    BY <1>1, <1>2, <1>3, HdrLenAssumption DEF SenderInLoop, SenderGoal, TransferInv, OfObjects
<1>6. ArrivedWereSent'
    BY <1>1, <1>3 DEF TransferInv, ArrivedWereSent, Arrived
<1>7. ObjectsArriveIntact'
    <2> SUFFICES ASSUME NEW n \in 1 .. Len(arrived), arrived[n].outcome = "returns",
                        \A m \in 1 .. n : arrived[m].outcome # "throws", receiver.open
                 PROVE  arrived[n].data = Cells("body", n, sizes'[n])
        BY <1>3 DEF ObjectsArriveIntact
    <2>1. n \in 1 .. N
        BY <1>1 DEF TransferInv, ArrivedWereSent, Arrived
    <2> QED
        BY <2>1, <1>1 DEF TransferInv, ObjectsArriveIntact
<1>8. TransferInStep'
    <2> SUFFICES ASSUME receiver.open, Arrived(Len(arrived))
                 PROVE  receiver.pc # "threw" /\ ReceiverInLoop' /\ WireInStep'
        BY <1>3 DEF TransferInStep, Arrived
    <2>0. receiver.pc # "threw" /\ ReceiverInLoop /\ WireInStep
        BY DEF TransferInv, TransferInStep
    <2>1. Len(arrived) \in Nat
        BY LenProperties DEF TransferInv, TransferTypeOK
    <2>2. ReceiverInLoop'
        BY <2>0, <2>1, <1>1, <1>3 DEF ReceiverInLoop, ReceiverGoal
    <2>3. ReceiverNext' = ReceiverNext
        BY <1>3 DEF ReceiverNext
    <2>4. SenderNext' = SenderNext
        BY <1>1, <1>2 DEF SenderNext
    <2>5. \A x : x.n \in 1 .. N => After(x, sizes') = After(x, sizes)
        BY <1>1 DEF After
    <2>6. Len(wire["request"]) \in Nat
        BY LenProperties DEF TransferInv, TransferTypeOK
    <2>7. WireInStep'
        <3>1. \A j \in 1 .. Len(wire["request"]) :
                 After(wire["request"][j], sizes') = After(wire["request"][j], sizes)
            BY <2>5 DEF TransferInv, OfObjects
        <3> QED
            BY <2>0, <2>3, <2>4, <2>6, <3>1, <1>2, <1>3 DEF WireInStep
    <2> QED
        BY <2>0, <2>2, <2>7
<1> QED
    BY <1>4, <1>5, <1>6, <1>7, <1>8 DEF TransferInv

\* A sender that has failed promises nothing any more.
LEMMA SenderFailsInv ==
    ASSUME TransferInv, SenderSendFails \/ SenderHangUp
    PROVE  TransferInv'
<1>1. UNCHANGED <<wire, transport, receiver, arrived, sizes>>
    BY DEF SenderSendFails, SenderHangUp, exchanger
<1>2. /\ ~sender'.open
      /\ sender' \in [pc : {"idle", "size", "body", "threw"}, count : Nat, open : BOOLEAN]
    <2>1. CASE SenderHangUp
        BY <2>1 DEF SenderHangUp, TransferInv, TransferTypeOK
    <2>2. CASE SenderSendFails
        <3>1. Plus(sender.count, SIZE_MAX) \in Nat
            BY SizeAssumption DEF TransferInv, TransferTypeOK, Plus
        <3>2. CASE sender' = [sender EXCEPT !.pc = "threw", !.open = FALSE]
            BY <3>2 DEF TransferInv, TransferTypeOK
        <3>3. CASE SenderAfter(Plus(sender.count, SIZE_MAX), FALSE)
            <4>1. CASE Plus(sender.count, SIZE_MAX) < SenderGoal
                BY <3>1, <3>3, <4>1 DEF SenderAfter, TransferInv, TransferTypeOK
            <4>2. CASE ~(Plus(sender.count, SIZE_MAX) < SenderGoal)
                BY <3>3, <4>2 DEF SenderAfter, TransferInv, TransferTypeOK
            <4> QED
                BY <4>1, <4>2
        <3> QED
            BY <2>2, <3>2, <3>3 DEF SenderSendFails
    <2> QED
        BY <2>1, <2>2
<1>3. TransferTypeOK' /\ OfObjects' /\ SenderInLoop' /\ ArrivedWereSent' /\ ObjectsArriveIntact'
    BY <1>1, <1>2 DEF TransferInv, TransferTypeOK, OfObjects, SenderInLoop, ArrivedWereSent, Arrived, ObjectsArriveIntact
<1>4. TransferInStep'
    BY <1>1, <1>2 DEF TransferInv, TransferInStep, Arrived, ReceiverInLoop, ReceiverGoal, WireInStep, ReceiverNext, After
<1> QED
    BY <1>3, <1>4 DEF TransferInv


\* The sender appends the cells that SenderNext announced.
LEMMA SenderSendInv ==
    ASSUME TransferInv, SenderSend
    PROVE  TransferInv'
<1> DEFINE N == Len(sizes)
           pc == sender.pc
           c == sender.count
           g == SenderGoal
           w == wire["request"]
<1>1. /\ pc \in {"size", "body"} /\ sender.open /\ c \in Nat
      /\ UNCHANGED <<transport, receiver, arrived, sizes>>
      /\ w \in Seq(PlainCell) /\ Len(w) \in Nat
    BY LenProperties DEF TransferInv, TransferTypeOK, SenderSend
<1>2. PICK k \in IF g = 0 THEN {0} ELSE 1 .. g - c :
          /\ Send("request", SubSeq(SenderCells, c + 1, g), k)
          /\ SenderAfter(Plus(c, k), TRUE)
    BY DEF SenderSend
<1>3. /\ N \in Nat /\ N > 0 /\ g \in Nat /\ c <= g /\ (c = g => g = 0)
      /\ g < SIZE_MAX /\ SIZE_MAX \in Nat
      /\ pc = "size" => g = HdrLen
      /\ pc = "body" => g = Last(sizes)
      /\ Last(sizes) = sizes[N] /\ sizes[N] \in Nat
    <2>1. N \in Nat /\ N > 0
        BY <1>1, LenProperties DEF TransferInv, TransferTypeOK, SenderInLoop
    <2>2. Last(sizes) = sizes[N] /\ sizes[N] \in 0 .. MaxSize
        <3>1. sizes \in Seq(0 .. MaxSize) /\ N \in 1 .. Len(sizes)
            BY <2>1 DEF TransferInv, TransferTypeOK
        <3> QED
            BY <3>1, ElementOfSeq DEF Last
    <2> QED
        BY <1>1, <2>1, <2>2, SizeAssumption, HdrLenAssumption
           DEF TransferInv, SenderInLoop, SenderGoal
<1> HIDE DEF N, pc, c, g, w
<1>4. /\ SenderCells \in Seq(PlainCell) /\ Len(SenderCells) = g
      /\ \A i \in 1 .. g : SenderCells[i] = Cell(pc, N, i)
    <2>1. CASE pc = "size"
        <3>1. SenderCells = Cells("size", N, g)
            BY <2>1, <1>3 DEF SenderCells, pc, N
        <3>2. /\ Cells("size", N, g) \in Seq(PlainCell)
              /\ Len(Cells("size", N, g)) = g
              /\ \A i \in 1 .. g : Cells("size", N, g)[i] = Cell("size", N, i)
            BY <1>3, CellsSeq
        <3> QED
            BY <2>1, <3>1, <3>2
    <2>2. CASE pc = "body"
        <3>1. SenderCells = Cells("body", N, g)
            BY <2>2, <1>3 DEF SenderCells, pc, N
        <3>2. /\ Cells("body", N, g) \in Seq(PlainCell)
              /\ Len(Cells("body", N, g)) = g
              /\ \A i \in 1 .. g : Cells("body", N, g)[i] = Cell("body", N, i)
            BY <1>3, CellsSeq
        <3> QED
            BY <2>2, <3>1, <3>2
    <2> QED
        BY <1>1, <2>1, <2>2
<1>5. k \in Nat /\ c + k <= g /\ (k = 0 <=> g = 0) /\ Plus(c, k) = c + k
    <2>1. k \in Nat /\ c + k <= g /\ (k = 0 <=> g = 0) /\ c + k <= SIZE_MAX
        BY <1>1, <1>3
    <2> QED
        BY <1>1, <2>1, PlusFits
<1>6. /\ wire'["request"] \in Seq(PlainCell) /\ DOMAIN wire' = Directions
      /\ Len(wire'["request"]) = Len(w) + k
      /\ \A i \in 1 .. Len(w) : wire'["request"][i] = w[i]
      /\ \A i \in 1 .. k : wire'["request"][Len(w) + i] = Cell(pc, N, c + i)
    <2> DEFINE t == SubSeq(SenderCells, c + 1, g)
    <2>1. t \in Seq(PlainCell) /\ Len(t) = g - c /\ \A i \in 1 .. g - c : t[i] = SenderCells[c + i]
        <3>1. g <= Len(SenderCells)
            BY <1>3, <1>4
        <3> QED
            <4>1. \A s \in Seq(PlainCell) : \A a, b \in Nat : a <= b /\ b <= Len(s) =>
                     /\ SubSeq(s, a + 1, b) \in Seq(PlainCell)
                     /\ Len(SubSeq(s, a + 1, b)) = b - a
                     /\ \A i \in 1 .. b - a : SubSeq(s, a + 1, b)[i] = s[a + i]
                BY PartOf
            <4> QED
                <5>1. SenderCells \in Seq(PlainCell) /\ c \in Nat /\ g \in Nat /\ c <= g
                    BY <1>1, <1>3, <1>4
                <5>2. /\ SubSeq(SenderCells, c + 1, g) \in Seq(PlainCell)
                      /\ Len(SubSeq(SenderCells, c + 1, g)) = g - c
                      /\ \A i \in 1 .. g - c : SubSeq(SenderCells, c + 1, g)[i] = SenderCells[c + i]
                    BY <4>1, <5>1, <3>1, Zenon
                <5> QED
                    BY <5>2, Zenon DEF t
    <2> HIDE DEF t
    <2>2. \A i \in 1 .. g - c : t[i] = Cell(pc, N, c + i)
        <3>1. \A i \in 1 .. g - c : c + i \in 1 .. g
            BY <1>1, <1>3
        <3> QED
            BY <3>1, <1>4, <2>1, Zenon
    <2>3. k \in 0 .. Len(t)
        BY <1>1, <1>3, <1>5, <2>1
    <2>4. /\ w \o SubSeq(t, 1, k) \in Seq(PlainCell)
          /\ Len(w \o SubSeq(t, 1, k)) = Len(w) + k
          /\ \A i \in 1 .. Len(w) : (w \o SubSeq(t, 1, k))[i] = w[i]
          /\ \A i \in 1 .. k : (w \o SubSeq(t, 1, k))[Len(w) + i] = t[i]
        BY <1>1, <2>1, <2>3, SendSeq
    <2>5. wire'["request"] = w \o SubSeq(t, 1, k) /\ DOMAIN wire' = Directions
        BY <1>2 DEF Send, t, w, TransferInv, TransferTypeOK, Directions
    <2>6. \A i \in 1 .. k : i \in 1 .. g - c
        BY <1>1, <1>3, <1>5
    <2> QED
        BY <2>2, <2>4, <2>5, <2>6, Zenon
<1>7. /\ sender' \in [pc : {"idle", "size", "body", "threw"}, count : Nat, open : BOOLEAN]
      /\ sender'.open
      /\ c + k < g => sender'.pc = pc /\ sender'.count = c + k
      /\ c + k = g => sender'.pc = (IF pc = "size" THEN "body" ELSE "idle") /\ sender'.count = 0
    <2>1. CASE c + k < g
        <3>1. sender' = [sender EXCEPT !.count = c + k, !.open = TRUE]
            BY <2>1, <1>2, <1>5 DEF SenderAfter, g
        <3> QED
            <4>1. c + k \in Nat /\ c + k # g
                BY <2>1, <1>1, <1>3, <1>5
            <4>2. sender \in [pc : {"idle", "size", "body", "threw"}, count : Nat, open : BOOLEAN]
                BY DEF TransferInv, TransferTypeOK
            <4> QED
                BY <3>1, <4>1, <4>2 DEF pc
    <2>2. CASE ~(c + k < g)
        BY <2>2, <1>1, <1>2, <1>3, <1>5 DEF SenderAfter, g, pc
    <2> QED
        BY <1>1, <1>3, <1>5, <2>1, <2>2
<1>8. TransferTypeOK'
    BY <1>1, <1>3, <1>6, <1>7 DEF TransferInv, TransferTypeOK
<1>9. SenderInLoop'
    <2>1. CASE c + k < g
        BY <2>1, <1>1, <1>3, <1>5, <1>7 DEF SenderInLoop, SenderGoal, N, pc, g
    <2>2. CASE c + k = g
        BY <2>2, <1>1, <1>3, <1>7 DEF SenderInLoop, SenderGoal, N
    <2> QED
        BY <1>1, <1>3, <1>5, <2>1, <2>2
<1>10. OfObjects'
    <2> SUFFICES ASSUME NEW j \in 1 .. Len(w) + k PROVE wire'["request"][j].n \in 1 .. N
        BY <1>1, <1>6 DEF TransferInv, OfObjects, N
    <2>1. CASE j \in 1 .. Len(w)
        BY <2>1, <1>6 DEF TransferInv, OfObjects, N, w
    <2>2. CASE j \notin 1 .. Len(w)
        <3>1. j - Len(w) \in 1 .. k /\ Len(w) + (j - Len(w)) = j /\ N \in 1 .. N
            BY <2>2, <1>1, <1>3, <1>5
        <3>2. wire'["request"][j] = Cell(pc, N, c + (j - Len(w)))
            BY <3>1, <1>6
        <3> QED
            BY <3>1, <3>2 DEF Cell
    <2> QED
        BY <2>1, <2>2
<1>11. ArrivedWereSent' /\ ObjectsArriveIntact'
    BY <1>1 DEF TransferInv, ArrivedWereSent, Arrived, ObjectsArriveIntact
<1>12. TransferInStep'
    <2> SUFFICES ASSUME receiver.open, Arrived(Len(arrived))
                 PROVE  receiver.pc # "threw" /\ ReceiverInLoop' /\ WireInStep'
        BY <1>1 DEF TransferInStep, Arrived
    <2>0. receiver.pc # "threw" /\ ReceiverInLoop /\ WireInStep
        BY DEF TransferInv, TransferInStep
    <2>1. ReceiverInLoop'
        BY <2>0, <1>1 DEF ReceiverInLoop, ReceiverGoal
    <2>2. ReceiverNext' = ReceiverNext
        BY <1>1 DEF ReceiverNext
    <2>3. g > 0 => SenderNext = Cell(pc, N, c + 1)
        BY <1>1, <1>3 DEF SenderNext, N, pc, c
    <2>4. \A i \in Nat : 0 < i /\ i < g => After(Cell(pc, N, i), sizes) = Cell(pc, N, i + 1)
        BY <1>1, <1>3 DEF After, Cell
    <2>5. k > 0 => SenderNext' = After(Cell(pc, N, c + k), sizes)
        <3>1. CASE c + k < g
            BY <3>1, <1>1, <1>3, <1>5, <1>7 DEF SenderNext, After, Cell, N
        <3>2. CASE c + k = g
            <4>1. pc = "body" => c + k = sizes[N]
                BY <3>2, <1>3
            <4>2. Last(sizes) = sizes[N] /\ sizes[N] \in Nat
                BY <1>3
            <4>3. CASE pc = "size"
                <5>1. c + k = HdrLen /\ ~(HdrLen < HdrLen) /\ HdrLen \in Nat
                    BY <3>2, <4>3, <1>3, HdrLenAssumption
                <5>2. After(Cell(pc, N, c + k), sizes)
                        = IF sizes[N] > 0 THEN Cell("body", N, 1) ELSE Cell("size", N + 1, 1)
                    BY <5>1, <4>3 DEF After, Cell
                <5>3. sender'.pc = "body" /\ sender'.count = 0 /\ sizes' = sizes
                    BY <3>2, <4>3, <1>1, <1>7
                <5>4. SenderNext' = IF 0 < sizes[N] THEN Cell("body", N, 1) ELSE Cell("size", N + 1, 1)
                    BY <5>3, <4>2 DEF SenderNext, N
                <5> QED
                    BY <5>2, <5>4, <4>2
            <4>4. CASE pc = "body"
                BY <3>2, <4>1, <4>2, <4>4, <1>1, <1>3, <1>5, <1>7 DEF SenderNext, After, Cell, N
            <4> QED
                BY <1>1, <4>3, <4>4
        <3> QED
            BY <1>1, <1>3, <1>5, <3>1, <3>2
    <2>6. k = 0 => SenderNext' = SenderNext
        BY <1>1, <1>3, <1>5, <1>7, HdrLenAssumption DEF SenderNext, N, pc, c
    <2>7. /\ \A j \in 1 .. Len(w) : j < Len(w) => w[j + 1] = After(w[j], sizes)
          /\ Len(w) > 0 => w[1] = ReceiverNext
          /\ SenderNext = IF Len(w) = 0 THEN ReceiverNext ELSE After(w[Len(w)], sizes)
        BY <2>0, <1>1 DEF WireInStep, w, N
    <2> DEFINE v == wire'["request"]
    <2>9. \A j \in 1 .. Len(v) : j < Len(v) => v[j + 1] = After(v[j], sizes)
        <3> SUFFICES ASSUME NEW j \in 1 .. Len(v), j < Len(v)
                     PROVE  v[j + 1] = After(v[j], sizes)
            OBVIOUS
        <3> HIDE DEF v
        <3>0. /\ Len(v) = Len(w) + k
              /\ \A i \in 1 .. Len(w) : v[i] = w[i]
              /\ \A i \in 1 .. k : v[Len(w) + i] = Cell(pc, N, c + i)
            BY <1>6 DEF v
        <3>1. CASE j < Len(w)
            <4>1. j \in 1 .. Len(w) /\ j + 1 \in 1 .. Len(w)
                BY <3>1, <1>1
            <4> QED
                BY <4>1, <3>0, <3>1, <2>7
        <3>2. CASE j = Len(w)
            <4>1. j \in 1 .. Len(w) /\ 1 \in 1 .. k /\ g > 0
                BY <3>0, <3>2, <1>1, <1>3, <1>5
            <4>2. v[Len(w) + 1] = Cell(pc, N, c + 1)
                BY <4>1, <3>0
            <4> QED
                BY <4>1, <4>2, <3>0, <3>2, <2>3, <2>7, <1>1
        <3>3. CASE j > Len(w)
            <4>1. PICK i \in 1 .. k : j = Len(w) + i
                <5>1. j - Len(w) \in 1 .. k /\ j = Len(w) + (j - Len(w))
                    BY <3>3, <3>0, <1>1, <1>5
                <5> QED
                    BY <5>1
            <4>2. v[j] = Cell(pc, N, c + i)
                BY <4>1, <3>0
            <4>3. i + 1 \in 1 .. k /\ j + 1 = Len(w) + (i + 1)
                BY <4>1, <3>0, <1>1, <1>5
            <4>4. v[j + 1] = Cell(pc, N, c + (i + 1))
                BY <4>3, <3>0
            <4>5. c + i \in Nat /\ 0 < c + i /\ c + i < g /\ (c + i) + 1 = c + (i + 1)
                BY <4>1, <4>3, <1>1, <1>3, <1>5
            <4> QED
                BY <4>2, <4>4, <4>5, <2>4
        <3> QED
            BY <3>1, <3>2, <3>3, <1>1, <1>5, <3>0
    <2>10. Len(v) > 0 => v[1] = ReceiverNext
        <3>1. CASE Len(w) > 0
            <4>1. 1 \in 1 .. Len(w)
                BY <3>1, <1>1
            <4> QED
                BY <3>1, <4>1, <1>6, <2>7
        <3>2. CASE Len(w) = 0 /\ k > 0
            <4>1. 1 \in 1 .. k /\ Len(w) + 1 = 1 /\ g > 0
                BY <3>2, <1>1, <1>3, <1>5
            <4>2. v[Len(w) + 1] = Cell(pc, N, c + 1)
                BY <4>1, <1>6
            <4> QED
                BY <3>2, <4>1, <4>2, <2>3, <2>7
        <3> QED
            BY <3>1, <3>2, <1>1, <1>5, <1>6
    <2>11. SenderNext' = IF Len(v) = 0 THEN ReceiverNext ELSE After(v[Len(v)], sizes)
        <3>1. CASE k > 0
            <4>1. k \in 1 .. k /\ Len(v) > 0 /\ Len(v) = Len(w) + k
                BY <3>1, <1>1, <1>5, <1>6
            <4>2. v[Len(w) + k] = Cell(pc, N, c + k)
                BY <4>1, <1>6
            <4> QED
                BY <3>1, <4>1, <4>2, <2>5
        <3>2. CASE k = 0
            <4>1. Len(v) = Len(w) /\ (Len(w) > 0 => Len(w) \in 1 .. Len(w))
                BY <3>2, <1>1, <1>6
            <4> QED
                BY <3>2, <4>1, <1>1, <1>6, <2>6, <2>7
        <3> QED
            BY <3>1, <3>2, <1>5
    <2>12. WireInStep'
        BY <2>2, <2>9, <2>10, <2>11, <1>1 DEF WireInStep, N
    <2> QED
        BY <2>0, <2>1, <2>12
<1> QED
    BY <1>8, <1>9, <1>10, <1>11, <1>12 DEF TransferInv


-----------------------------------------------------------------------------
(* Object transfer: the receiver.                                          *)

LEMMA ReceiveObjectInv ==
    ASSUME TransferInv, ReceiveObject
    PROVE  TransferInv'
<1>1. /\ UNCHANGED <<wire, transport, sender, sizes, arrived>>
      /\ receiver.pc = "idle"
    BY DEF ReceiveObject, exchanger
<1>2. /\ receiver' \in [pc : {"idle", "size", "body", "threw"}, count : Nat, open : BOOLEAN,
                        size : Nat, data : Seq(PlainCell)]
      /\ receiver'.pc = "size" /\ receiver'.count = 0 /\ receiver'.data = <<>>
      /\ receiver'.open = receiver.open
    <2>1. receiver \in [pc : {"idle", "size", "body", "threw"}, count : Nat, open : BOOLEAN,
                        size : Nat, data : Seq(PlainCell)]
        BY DEF TransferInv, TransferTypeOK
    <2>2. receiver' = [receiver EXCEPT !.pc = "size", !.count = 0, !.data = <<>>]
        BY DEF ReceiveObject
    <2>3. <<>> \in Seq(PlainCell)
        BY EmptySeq
    <2> QED
        BY <2>1, <2>2, <2>3
<1>3. Len(<<>>) = 0
    OBVIOUS
<1>4. TransferTypeOK' /\ OfObjects'
    BY <1>1, <1>2, <1>3 DEF TransferInv, TransferTypeOK, OfObjects
<1>5. SenderInLoop' /\ ArrivedWereSent' /\ ObjectsArriveIntact'
    BY <1>1, <1>2 DEF TransferInv, SenderInLoop, SenderGoal, ArrivedWereSent, Arrived, ObjectsArriveIntact
<1>6. TransferInStep'
    <2> SUFFICES ASSUME receiver.open, Arrived(Len(arrived))
                 PROVE  ReceiverInLoop' /\ WireInStep'
        BY <1>1, <1>2 DEF TransferInStep, Arrived
    <2>1. WireInStep
        BY DEF TransferInv, TransferInStep
    <2>2. ReceiverNext' = ReceiverNext
        BY <1>1, <1>2 DEF ReceiverNext
    <2>3. Cells("size", Len(arrived) + 1, 0) = <<>>
        BY DEF Cells
    <2> QED
        BY <2>1, <2>2, <2>3, <1>1, <1>2, HdrLenAssumption
           DEF ReceiverInLoop, ReceiverGoal, WireInStep, SenderNext
<1> QED
    BY <1>4, <1>5, <1>6 DEF TransferInv

\* The four ways a round of a loop of receiveObject ends, when open is what
\* became of the transport.
ReceiverOutcome(count, data, open) ==
    \/ /\ count < ReceiverGoal
       /\ receiver'.pc = receiver.pc /\ receiver'.count = count
       /\ receiver'.size = receiver.size /\ receiver'.data = data
       /\ arrived' = arrived
    \/ arrived' = Append(arrived, [outcome |-> "throws", data |-> <<>>])
    \/ /\ count >= ReceiverGoal /\ receiver.pc = "size"
       /\ receiver'.pc = "body" /\ receiver'.count = 0 /\ receiver'.data = <<>>
       /\ receiver'.size \in IncomingSizes(data)
       /\ arrived' = arrived
    \/ /\ count >= ReceiverGoal /\ receiver.pc = "body"
       /\ receiver'.pc = "idle" /\ receiver'.count = 0
       /\ arrived' = Append(arrived, [outcome |-> "returns", data |-> data])

LEMMA ReceiveEndsTypes ==
    ASSUME TransferInv, NEW outcome \in {"returns", "throws"}, NEW data \in Seq(PlainCell),
           NEW open \in BOOLEAN, ReceiveEnds(outcome, data, open)
    PROVE  /\ receiver' \in [pc : {"idle", "size", "body", "threw"}, count : Nat, open : BOOLEAN,
                             size : Nat, data : Seq(PlainCell)]
           /\ receiver'.count = 0 /\ receiver'.data = <<>>
           /\ receiver'.open = open /\ (outcome = "returns" => receiver'.pc = "idle")
           /\ arrived' \in Seq([outcome : {"returns", "throws"}, data : Seq(PlainCell)])
           /\ arrived' = Append(arrived, [outcome |-> outcome, data |-> data])
<1>1. receiver \in [pc : {"idle", "size", "body", "threw"}, count : Nat, open : BOOLEAN,
                    size : Nat, data : Seq(PlainCell)]
    BY DEF TransferInv, TransferTypeOK
<1>2. PICK pc \in {"idle", "threw"} :
        /\ receiver' = [receiver EXCEPT !.pc = pc, !.open = open, !.count = 0, !.data = <<>>]
        /\ outcome = "returns" => pc = "idle"
    BY DEF ReceiveEnds
<1>3. <<>> \in Seq(PlainCell)
    BY EmptySeq
<1>4. /\ arrived' \in Seq([outcome : {"returns", "throws"}, data : Seq(PlainCell)])
      /\ arrived' = Append(arrived, [outcome |-> outcome, data |-> data])
    <2>1. [outcome |-> outcome, data |-> data] \in [outcome : {"returns", "throws"}, data : Seq(PlainCell)]
        OBVIOUS
    <2> QED
        BY <2>1, AppendProperties DEF TransferInv, TransferTypeOK, ReceiveEnds
<1> QED
    BY <1>1, <1>2, <1>3, <1>4

\* A size that is read is a number, also when it is garbage.
LEMMA IncomingSizesTypes ==
    ASSUME TransferInv, NEW data \in Seq(PlainCell),
           \A j \in 1 .. Len(data) : data[j].n \in 1 .. Len(sizes)
    PROVE  IncomingSizes(data) \subseteq Nat
<1>1. CASE data # <<>> /\ data = Cells("size", data[1].n, HdrLen)
    <2>1. 1 \in 1 .. Len(data)
        BY <1>1, LenProperties, EmptySeq
    <2>2. sizes \in Seq(0 .. MaxSize) /\ data[1].n \in 1 .. Len(sizes)
        BY <2>1 DEF TransferInv, TransferTypeOK
    <2>3. sizes[data[1].n] \in 0 .. MaxSize
        BY <2>2, ElementOfSeq
    <2> QED
        BY <1>1, <2>3, SizeAssumption DEF IncomingSizes
<1>2. CASE ~(data # <<>> /\ data = Cells("size", data[1].n, HdrLen))
    BY <1>2, SizeAssumption DEF IncomingSizes
<1> QED
    BY <1>1, <1>2

LEMMA ReceiverAfterOutcome ==
    ASSUME TransferInv, receiver.pc \in {"size", "body"},
           NEW count \in Nat, NEW data \in Seq(PlainCell), NEW open \in BOOLEAN,
           \A j \in 1 .. Len(data) : data[j].n \in 1 .. Len(sizes),
           ReceiverAfter(count, data, open)
    PROVE  /\ receiver' \in [pc : {"idle", "size", "body", "threw"}, count : Nat, open : BOOLEAN,
                             size : Nat, data : Seq(PlainCell)]
           /\ arrived' \in Seq([outcome : {"returns", "throws"}, data : Seq(PlainCell)])
           /\ receiver'.open = open
           /\ receiver'.data \in {<<>>, data}
           /\ ReceiverOutcome(count, data, open)
<1>0. /\ receiver \in [pc : {"idle", "size", "body", "threw"}, count : Nat, open : BOOLEAN,
                       size : Nat, data : Seq(PlainCell)]
      /\ arrived \in Seq([outcome : {"returns", "throws"}, data : Seq(PlainCell)])
      /\ ReceiverGoal \in Nat /\ <<>> \in Seq(PlainCell)
    BY EmptySeq, HdrLenAssumption DEF TransferInv, TransferTypeOK, ReceiverGoal
<1>1. CASE count < ReceiverGoal
    <2>1. receiver' = [receiver EXCEPT !.count = count, !.data = data, !.open = open] /\ arrived' = arrived
        <3>1. ~(count >= ReceiverGoal)
            BY <1>0, <1>1
        <3> QED
            BY <1>1, <3>1, Zenon DEF ReceiverAfter
    <2> QED
        BY <1>0, <1>1, <2>1 DEF ReceiverOutcome
<1>2. CASE count >= ReceiverGoal /\ receiver.pc = "size"
    <2>1. PICK size \in IncomingSizes(data) :
            IF size > BufferSize
            THEN ReceiveEnds("throws", <<>>, open)
            ELSE /\ receiver' = [pc |-> "body", count |-> 0, open |-> open,
                                 size |-> size, data |-> <<>>]
                 /\ arrived' = arrived
        BY <1>0, <1>2 DEF ReceiverAfter
    <2>2. CASE ReceiveEnds("throws", <<>>, open)
        BY <2>2, <1>0, ReceiveEndsTypes DEF ReceiverOutcome
    <2>3. CASE /\ receiver' = [pc |-> "body", count |-> 0, open |-> open, size |-> size, data |-> <<>>]
               /\ arrived' = arrived
        <3>1. size \in Nat
            BY <2>1, IncomingSizesTypes
        <3> QED
            BY <1>0, <1>2, <2>3, <3>1 DEF ReceiverOutcome
    <2> QED
        BY <2>1, <2>2, <2>3
<1>3. CASE count >= ReceiverGoal /\ receiver.pc = "body"
    <2>1. ReceiveEnds("returns", data, open)
        BY <1>0, <1>3 DEF ReceiverAfter
    <2> QED
        BY <2>1, <1>3, ReceiveEndsTypes DEF ReceiverOutcome
<1> QED
    BY <1>0, <1>1, <1>2, <1>3

\* A receiver whose transport has failed promises nothing any more.
LEMMA ReceiverReadFailsInv ==
    ASSUME TransferInv, ReceiverReadFails
    PROVE  TransferInv'
<1>1. UNCHANGED <<wire, transport, sender, sizes>> /\ receiver.pc \in {"size", "body"}
    BY DEF ReceiverReadFails, exchanger
<1>2. /\ receiver' \in [pc : {"idle", "size", "body", "threw"}, count : Nat, open : BOOLEAN,
                        size : Nat, data : Seq(PlainCell)]
      /\ arrived' \in Seq([outcome : {"returns", "throws"}, data : Seq(PlainCell)])
      /\ ~receiver'.open
      /\ receiver'.data \in {<<>>, receiver.data}
    <2>1. CASE ReceiveEnds("throws", <<>>, FALSE)
        BY <2>1, EmptySeq, ReceiveEndsTypes
    <2>2. CASE ReceiverAfter(Plus(receiver.count, SIZE_MAX), receiver.data, FALSE)
        <3>1. Plus(receiver.count, SIZE_MAX) \in Nat /\ receiver.data \in Seq(PlainCell)
            BY SizeAssumption DEF TransferInv, TransferTypeOK, Plus
        <3>2. \A j \in 1 .. Len(receiver.data) : receiver.data[j].n \in 1 .. Len(sizes)
            BY DEF TransferInv, OfObjects
        <3> QED
            BY <1>1, <2>2, <3>1, <3>2, ReceiverAfterOutcome
    <2> QED
        BY <2>1, <2>2 DEF ReceiverReadFails
<1>3. Len(<<>>) = 0
    OBVIOUS
<1> QED
    BY <1>1, <1>2, <1>3
       DEF TransferInv, TransferTypeOK, OfObjects, SenderInLoop, SenderGoal, ArrivedWereSent,
           ObjectsArriveIntact, TransferInStep


\* Whoever takes k cells from a wire in step, the last of them x, and goes on
\* with the cell after x, leaves the wire in step.
LEMMA WireStaysInStep ==
    ASSUME TransferInv, WireInStep, UNCHANGED <<sender, sizes>>,
           NEW w \in Seq(PlainCell), w = wire["request"],
           NEW v \in Seq(PlainCell), v = wire'["request"],
           NEW k \in 0 .. Len(w),
           Len(v) = Len(w) - k, \A i \in 1 .. Len(w) - k : v[i] = w[k + i],
           k = 0 => ReceiverNext' = ReceiverNext,
           k > 0 => ReceiverNext' = After(w[k], sizes)
    PROVE  WireInStep'
<1>1. Len(w) \in Nat /\ k \in Nat /\ Len(v) \in Nat
    BY LenProperties
<1>2. /\ \A j \in 1 .. Len(w) : j < Len(w) => w[j + 1] = After(w[j], sizes)
      /\ Len(w) > 0 => w[1] = ReceiverNext
      /\ sender.open => SenderNext = IF Len(w) = 0 THEN ReceiverNext ELSE After(w[Len(w)], sizes)
    BY DEF WireInStep
<1>3. SenderNext' = SenderNext
    BY DEF SenderNext
<1>4. \A j \in 1 .. Len(v) : j < Len(v) => v[j + 1] = After(v[j], sizes)
    <2> SUFFICES ASSUME NEW j \in 1 .. Len(v), j < Len(v) PROVE v[j + 1] = After(v[j], sizes)
        OBVIOUS
    <2>1. /\ j \in 1 .. Len(w) - k /\ j + 1 \in 1 .. Len(w) - k
          /\ k + j \in 1 .. Len(w) /\ k + j < Len(w) /\ (k + j) + 1 = k + (j + 1)
        BY <1>1
    <2> QED
        BY <2>1, <1>2
<1>5. Len(v) > 0 => v[1] = ReceiverNext'
    <2> SUFFICES ASSUME Len(v) > 0 PROVE v[1] = ReceiverNext'
        OBVIOUS
    <2>1. 1 \in 1 .. Len(w) - k /\ v[1] = w[k + 1]
        BY <1>1
    <2>2. CASE k > 0
        <3>1. k \in 1 .. Len(w) /\ k < Len(w)
            BY <2>2, <1>1
        <3> QED
            BY <2>1, <2>2, <3>1, <1>2
    <2>3. CASE k = 0
        BY <2>1, <2>3, <1>1, <1>2
    <2> QED
        BY <1>1, <2>2, <2>3
<1>6. sender.open => SenderNext = IF Len(v) = 0 THEN ReceiverNext' ELSE After(v[Len(v)], sizes)
    <2> SUFFICES ASSUME sender.open
                 PROVE  SenderNext = IF Len(v) = 0 THEN ReceiverNext' ELSE After(v[Len(v)], sizes)
        OBVIOUS
    <2>1. CASE Len(v) = 0
        <3>1. k = Len(w)
            BY <2>1, <1>1
        <3> QED
            BY <2>1, <3>1, <1>1, <1>2
    <2>2. CASE Len(v) > 0
        <3>1. Len(v) \in 1 .. Len(w) - k /\ k + Len(v) = Len(w) /\ Len(w) > 0
            BY <2>2, <1>1
        <3> QED
            BY <2>2, <3>1, <1>1, <1>2
    <2> QED
        BY <1>1, <2>1, <2>2
<1> QED
    BY <1>3, <1>4, <1>5, <1>6 DEF WireInStep

\* The receiver takes the cells that the wire has for it.
LEMMA ReceiverReadInv ==
    ASSUME TransferInv, ReceiverRead
    PROVE  TransferInv'
<1> DEFINE N == Len(sizes)
           A == Len(arrived)
           pc == receiver.pc
           c == receiver.count
           g == ReceiverGoal
           w == wire["request"]
           Seqs == Seq([outcome : {"returns", "throws"}, data : Seq(PlainCell)])
<1>1. /\ UNCHANGED <<transport, sender, sizes>> /\ receiver.open /\ pc \in {"size", "body"}
      /\ w \in Seq(PlainCell) /\ Len(w) \in Nat /\ N \in Nat /\ A \in Nat /\ c \in Nat /\ g \in Nat
      /\ receiver.data \in Seq(PlainCell) /\ arrived \in Seqs
    BY LenProperties, HdrLenAssumption DEF TransferInv, TransferTypeOK, ReceiverRead, ReceiverGoal
<1>2. PICK k \in ReceiverCounts(g - c) :
          /\ Receive("request", k)
          /\ ReceiverAfter(Plus(c, k), receiver.data \o Received("request", k), TRUE)
    BY DEF ReceiverRead
<1>3. k \in Nat /\ k <= g - c /\ k <= Len(w) /\ k \in 0 .. Len(w)
    BY <1>1, <1>2 DEF ReceiverCounts, ReceiveCounts
<1> DEFINE d == receiver.data \o SubSeq(w, 1, k)
<1> HIDE DEF N, A, pc, c, g, w, Seqs
<1>4. /\ wire'["request"] \in Seq(PlainCell) /\ DOMAIN wire' = Directions
      /\ Len(wire'["request"]) = Len(w) - k
      /\ \A i \in 1 .. Len(w) - k : wire'["request"][i] = w[k + i]
    <2>1. /\ SubSeq(w, k + 1, Len(w)) \in Seq(PlainCell)
          /\ Len(SubSeq(w, k + 1, Len(w))) = Len(w) - k
          /\ \A i \in 1 .. Len(w) - k : SubSeq(w, k + 1, Len(w))[i] = w[k + i]
        BY <1>1, <1>3, ReceiveSeq
    <2>2. wire'["request"] = SubSeq(w, k + 1, Len(w)) /\ DOMAIN wire' = Directions
        BY <1>2 DEF Receive, TransferInv, TransferTypeOK, Directions, w
    <2> QED
        BY <2>1, <2>2
<1>5. /\ d \in Seq(PlainCell) /\ Len(d) = Len(receiver.data) + k /\ Len(receiver.data) \in Nat
      /\ \A i \in 1 .. Len(receiver.data) : d[i] = receiver.data[i]
      /\ \A i \in 1 .. k : d[Len(receiver.data) + i] = w[i]
    <2>1. receiver.data \in Seq(PlainCell) /\ w \in Seq(PlainCell) /\ k \in 0 .. Len(w)
        BY <1>1, <1>3
    <2> DEFINE r == receiver.data
    <2> HIDE DEF r
    <2>2. r \in Seq(PlainCell)
        BY <2>1 DEF r
    <2>3. /\ Len(r) \in Nat
          /\ r \o SubSeq(w, 1, k) \in Seq(PlainCell)
          /\ Len(r \o SubSeq(w, 1, k)) = Len(r) + k
          /\ \A i \in 1 .. Len(r) : (r \o SubSeq(w, 1, k))[i] = r[i]
          /\ \A i \in 1 .. k : (r \o SubSeq(w, 1, k))[Len(r) + i] = w[i]
        BY <2>1, <2>2, SendSeq
    <2> QED
        BY <2>3 DEF r
<1>6. ReceiverAfter(Plus(c, k), d, TRUE)
    BY <1>2 DEF Received, w
<1> HIDE DEF d
<1>7. \A j \in 1 .. Len(d) : d[j].n \in 1 .. N
    <2> SUFFICES ASSUME NEW j \in 1 .. Len(d) PROVE d[j].n \in 1 .. N
        OBVIOUS
    <2>1. CASE j \in 1 .. Len(receiver.data)
        BY <2>1, <1>5 DEF TransferInv, OfObjects, N
    <2>2. CASE j \notin 1 .. Len(receiver.data)
        <3>1. j - Len(receiver.data) \in 1 .. k /\ Len(receiver.data) + (j - Len(receiver.data)) = j
            BY <2>2, <1>3, <1>5
        <3>2. d[j] = w[j - Len(receiver.data)] /\ j - Len(receiver.data) \in 1 .. Len(w)
            BY <3>1, <1>1, <1>3, <1>5
        <3> QED
            BY <3>2 DEF TransferInv, OfObjects, N, w
    <2> QED
        BY <2>1, <2>2
<1>8. /\ receiver' \in [pc : {"idle", "size", "body", "threw"}, count : Nat, open : BOOLEAN,
                        size : Nat, data : Seq(PlainCell)]
      /\ arrived' \in Seqs
      /\ receiver'.open
      /\ receiver'.data \in {<<>>, d}
      /\ ReceiverOutcome(Plus(c, k), d, TRUE)
    <2>1. Plus(c, k) \in Nat /\ TRUE \in BOOLEAN
        BY <1>1, <1>3, SizeAssumption DEF Plus
    <2>2. receiver.pc \in {"size", "body"} /\ \A j \in 1 .. Len(d) : d[j].n \in 1 .. Len(sizes)
        BY <1>1, <1>7 DEF pc, N
    <2> QED
        BY <1>5, <1>6, <2>1, <2>2, ReceiverAfterOutcome DEF Seqs
<1>9. TransferTypeOK'
    BY <1>1, <1>4, <1>8 DEF TransferInv, TransferTypeOK, Seqs
<1>10. OfObjects'
    <2>1. \A j \in 1 .. Len(wire'["request"]) : wire'["request"][j].n \in 1 .. N
        <3> SUFFICES ASSUME NEW j \in 1 .. Len(w) - k PROVE wire'["request"][j].n \in 1 .. N
            BY <1>4
        <3>1. k + j \in 1 .. Len(w) /\ wire'["request"][j] = w[k + j]
            BY <1>1, <1>3, <1>4
        <3> QED
            BY <3>1 DEF TransferInv, OfObjects, N, w
    <2>2. \A j \in 1 .. Len(receiver'.data) : receiver'.data[j].n \in 1 .. N
        <3>1. CASE receiver'.data = <<>>
            BY <3>1, EmptySeq
        <3>2. CASE receiver'.data = d
            BY <3>2, <1>7
        <3> QED
            BY <3>1, <3>2, <1>8
    <2> QED
        BY <2>1, <2>2, <1>1 DEF OfObjects, N
<1>11. SenderInLoop'
    BY <1>1 DEF TransferInv, SenderInLoop, SenderGoal

\* In step, what was read are the next cells of the size or the body.
<1>12. ASSUME Arrived(A)
       PROVE  /\ Plus(c, k) = c + k /\ c + k <= g /\ (c = g => g = 0)
              /\ d = Cells(pc, A + 1, c + k)
              /\ k > 0 => w[k] = Cell(pc, A + 1, c + k) /\ A + 1 \in 1 .. N
              /\ pc = "body" => A < N /\ g = sizes[A + 1]
              /\ pc = "size" => g = HdrLen
              /\ ReceiverInLoop /\ WireInStep
    <2>1. ReceiverInLoop /\ WireInStep
        BY <1>1, <1>12 DEF TransferInv, TransferInStep, A
    <2>2. /\ c <= g /\ (c = g => g = 0)
          /\ receiver.data = Cells(pc, A + 1, c)
          /\ pc = "body" => A < N /\ g = sizes[A + 1]
          /\ pc = "size" => g = HdrLen
        BY <1>1, <2>1 DEF ReceiverInLoop, ReceiverGoal, A, pc, c, g, N
    <2>3. g < SIZE_MAX /\ SIZE_MAX \in Nat
        <3>1. CASE pc = "size"
            BY <3>1, <2>2, SizeAssumption
        <3>2. CASE pc = "body"
            <4>1. A + 1 \in 1 .. Len(sizes) /\ sizes \in Seq(0 .. MaxSize)
                BY <3>2, <2>2, <1>1 DEF N, TransferInv, TransferTypeOK
            <4>2. sizes[A + 1] \in 0 .. MaxSize
                BY <4>1, ElementOfSeq
            <4> QED
                BY <3>2, <4>2, <2>2, SizeAssumption
        <3> QED
            BY <1>1, <3>1, <3>2
    <2>4. c + k <= g /\ Plus(c, k) = c + k /\ c + k \in Nat
        <3>1. c + k <= g /\ c + k <= SIZE_MAX /\ c + k \in Nat
            BY <1>1, <1>3, <2>3
        <3> QED
            BY <3>1, <1>1, <1>3, PlusFits
    <2>5. /\ Cells(pc, A + 1, c) \in Seq(PlainCell) /\ Len(Cells(pc, A + 1, c)) = c
          /\ \A i \in 1 .. c : Cells(pc, A + 1, c)[i] = Cell(pc, A + 1, i)
          /\ Cells(pc, A + 1, c + k) \in Seq(PlainCell) /\ Len(Cells(pc, A + 1, c + k)) = c + k
          /\ \A i \in 1 .. c + k : Cells(pc, A + 1, c + k)[i] = Cell(pc, A + 1, i)
        <3>1. A + 1 \in Nat /\ pc \in {"header", "param", "size", "body"} /\ c \in Nat
            BY <1>1
        <3>2. /\ Cells(pc, A + 1, c) \in Seq(PlainCell) /\ Len(Cells(pc, A + 1, c)) = c
              /\ \A i \in 1 .. c : Cells(pc, A + 1, c)[i] = Cell(pc, A + 1, i)
            BY <3>1, CellsSeq, Zenon
        <3>3. /\ Cells(pc, A + 1, c + k) \in Seq(PlainCell) /\ Len(Cells(pc, A + 1, c + k)) = c + k
              /\ \A i \in 1 .. c + k : Cells(pc, A + 1, c + k)[i] = Cell(pc, A + 1, i)
            BY <3>1, <2>4, CellsSeq, Zenon
        <3> QED
            BY <3>2, <3>3
    <2>6. \A i \in 1 .. k : w[i] = Cell(pc, A + 1, c + i)
        <3>1. CASE k > 0
            <4>1. k \in 1 .. Len(w) /\ c < g /\ A + 1 \in Nat
                BY <3>1, <1>1, <1>3
            <4>2. w[1] = Cell(pc, A + 1, c + 1)
                <5>1. w[1] = ReceiverNext
                    BY <2>1, <4>1, <1>1 DEF WireInStep, w
                <5> QED
                    BY <5>1, <4>1, <1>1 DEF ReceiverNext, ReceiverGoal, pc, c, g, A
            <4>3. \A j \in 1 .. Len(w) : j < Len(w) => w[j + 1] = After(w[j], sizes)
                BY <2>1 DEF WireInStep, w
            <4>4. Goal(pc, A + 1) = g
                BY <1>1, <2>2 DEF Goal
            <4>5. Goal(pc, A + 1) \in Nat /\ c + k <= Goal(pc, A + 1)
                BY <1>1, <2>4, <4>4
            <4>6. w \in Seq(PlainCell) /\ pc \in {"size", "body"} /\ c \in Nat
                BY <1>1
            <4> QED
                BY <4>1, <4>2, <4>3, <4>5, <4>6, RunOfCells, SMTT(30)
        <3>2. CASE k = 0
            BY <3>2
        <3> QED
            BY <1>3, <3>1, <3>2
    <2>7. d = Cells(pc, A + 1, c + k)
        <3>1. Len(d) = c + k
            BY <1>5, <2>2, <2>5
        <3>2. \A i \in 1 .. Len(d) : d[i] = Cells(pc, A + 1, c + k)[i]
            <4> SUFFICES ASSUME NEW i \in 1 .. c + k PROVE d[i] = Cell(pc, A + 1, i)
                BY <3>1, <2>5
            <4>1. CASE i \in 1 .. c
                BY <4>1, <1>5, <2>2, <2>5
            <4>2. CASE i \notin 1 .. c
                <5>1. i - c \in 1 .. k /\ c + (i - c) = i
                    BY <4>2, <1>1, <1>3
                <5>2. d[c + (i - c)] = w[i - c] /\ w[i - c] = Cell(pc, A + 1, c + (i - c))
                    BY <5>1, <1>5, <2>2, <2>5, <2>6
                <5> QED
                    BY <5>1, <5>2
            <4> QED
                BY <4>1, <4>2
        <3> QED
            BY <3>1, <3>2, <1>5, <2>5, SeqEqual
    <2>8. ASSUME k > 0 PROVE w[k] = Cell(pc, A + 1, c + k) /\ A + 1 \in 1 .. N
        <3>1. k \in 1 .. k /\ k \in 1 .. Len(w)
            BY <2>8, <1>3
        <3>2. w[k] = Cell(pc, A + 1, c + k)
            BY <3>1, <2>6
        <3>3. w[k].n \in 1 .. N
            BY <3>1 DEF TransferInv, OfObjects, N, w
        <3> QED
            BY <3>2, <3>3 DEF Cell
    <2>9. k > 0 => w[k] = Cell(pc, A + 1, c + k) /\ A + 1 \in 1 .. N
        BY <2>8
    <2> QED
        BY <2>1, <2>2, <2>4, <2>7, <2>9, Zenon

<1>13. ASSUME Arrived(A), k > 0 => ReceiverNext' = After(w[k], sizes), k = 0 => ReceiverNext' = ReceiverNext
       PROVE  WireInStep'
    <2> DEFINE v == wire'["request"]
    <2>1. v \in Seq(PlainCell) /\ Len(v) = Len(w) - k /\ \A i \in 1 .. Len(w) - k : v[i] = w[k + i]
        BY <1>4
    <2>2. WireInStep /\ w = wire["request"] /\ v = wire'["request"]
        BY <1>12, <1>13 DEF w
    <2> HIDE DEF v
    <2> QED
        BY <1>1, <1>3, <1>13, <2>1, <2>2, WireStaysInStep
<1>14. ASSUME arrived' = arrived PROVE ArrivedWereSent' /\ ObjectsArriveIntact'
    BY <1>1, <1>8, <1>14 DEF TransferInv, ArrivedWereSent, Arrived, ObjectsArriveIntact
<1>15. ASSUME NEW o \in {"returns", "throws"}, NEW e \in Seq(PlainCell),
              arrived' = Append(arrived, [outcome |-> o, data |-> e])
       PROVE  /\ Len(arrived') = A + 1
              /\ \A i \in 1 .. A : arrived'[i] = arrived[i]
              /\ arrived'[A + 1] = [outcome |-> o, data |-> e]
    <2>1. [outcome |-> o, data |-> e] \in [outcome : {"returns", "throws"}, data : Seq(PlainCell)]
        OBVIOUS
    <2> QED
        BY <1>1, <1>15, <2>1, AppendProperties DEF Seqs, A
<1>16. CASE /\ Plus(c, k) < g
            /\ receiver'.pc = pc /\ receiver'.count = Plus(c, k)
            /\ receiver'.size = receiver.size /\ receiver'.data = d
            /\ arrived' = arrived
    <2>1. TransferInStep'
        <3> SUFFICES ASSUME Arrived(A) PROVE receiver'.pc # "threw" /\ ReceiverInLoop' /\ WireInStep'
            BY <1>16 DEF TransferInStep, Arrived, A
        <3>1. ReceiverInLoop'
            BY <1>1, <1>3, <1>12, <1>16 DEF ReceiverInLoop, ReceiverGoal, A, N, pc, c, g
        <3>2. k = 0 => ReceiverNext' = ReceiverNext
            BY <1>1, <1>12, <1>16 DEF ReceiverNext, A, pc, c
        <3>3. k > 0 => ReceiverNext' = After(w[k], sizes)
            BY <1>1, <1>12, <1>16 DEF ReceiverNext, After, Cell, ReceiverGoal, A, pc, g
        <3>4. WireInStep'
            BY <3>2, <3>3, <1>13
        <3> QED
            BY <3>1, <3>4, <1>1, <1>16
    <2> QED
        BY <1>9, <1>10, <1>11, <1>14, <1>16, <2>1 DEF TransferInv
<1>17. CASE arrived' = Append(arrived, [outcome |-> "throws", data |-> <<>>])
    <2>1. /\ Len(arrived') = A + 1
          /\ \A i \in 1 .. A : arrived'[i] = arrived[i]
          /\ arrived'[A + 1].outcome = "throws"
        <3>1. <<>> \in Seq(PlainCell) /\ "throws" \in {"returns", "throws"}
            BY EmptySeq
        <3>2. arrived'[A + 1] = [outcome |-> "throws", data |-> <<>>] => arrived'[A + 1].outcome = "throws"
            OBVIOUS
        <3> QED
            BY <3>1, <3>2, <1>15, <1>17, Zenon
    <2>2. ASSUME NEW n \in 1 .. A + 1, \A m \in 1 .. n : arrived'[m].outcome # "throws"
          PROVE  n \in 1 .. A /\ Arrived(n)
        <3>1. n # A + 1
            BY <2>1, <2>2, <1>1
        <3>2. n \in 1 .. A /\ \A m \in 1 .. n : m \in 1 .. A
            BY <3>1, <1>1
        <3> QED
            BY <3>2, <2>1, <2>2 DEF Arrived
    <2>3. ArrivedWereSent'
        BY <2>1, <2>2, <1>1 DEF TransferInv, ArrivedWereSent, Arrived, A
    <2>4. ObjectsArriveIntact'
        <3> SUFFICES ASSUME NEW n \in 1 .. A + 1, arrived'[n].outcome = "returns",
                            \A m \in 1 .. n : arrived'[m].outcome # "throws"
                     PROVE  arrived'[n].data = Cells("body", n, sizes[n])
            BY <2>1, <1>1 DEF ObjectsArriveIntact
        <3> QED
            BY <2>1, <2>2, <1>1 DEF TransferInv, ObjectsArriveIntact, Arrived, A
    <2>5. TransferInStep'
        <3>1. A + 1 \in 1 .. A + 1
            BY <1>1
        <3> QED
            BY <3>1, <2>1 DEF TransferInStep, Arrived
    <2> QED
        BY <1>9, <1>10, <1>11, <2>3, <2>4, <2>5 DEF TransferInv
<1>18. CASE /\ Plus(c, k) >= g /\ pc = "size"
            /\ receiver'.pc = "body" /\ receiver'.count = 0 /\ receiver'.data = <<>>
            /\ receiver'.size \in IncomingSizes(d)
            /\ arrived' = arrived
    <2>1. TransferInStep'
        <3> SUFFICES ASSUME Arrived(A) PROVE receiver'.pc # "threw" /\ ReceiverInLoop' /\ WireInStep'
            BY <1>18 DEF TransferInStep, Arrived, A
        <3>1. c + k = HdrLen /\ k > 0 /\ g = HdrLen
            BY <1>1, <1>3, <1>12, <1>18, HdrLenAssumption
        <3>2. A + 1 \in 1 .. N /\ w[k] = Cell("size", A + 1, HdrLen)
            BY <3>1, <1>12, <1>18
        <3>3. sizes[A + 1] \in Nat
            <4>1. sizes \in Seq(0 .. MaxSize) /\ A + 1 \in 1 .. Len(sizes)
                BY <3>2 DEF TransferInv, TransferTypeOK, N
            <4>2. sizes[A + 1] \in 0 .. MaxSize
                BY <4>1, ElementOfSeq
            <4> QED
                BY <4>2, SizeAssumption
        <3>4. receiver'.size = sizes[A + 1]
            <4>1. d = Cells("size", A + 1, HdrLen)
                BY <3>1, <1>12, <1>18
            <4>2. d # <<>> /\ d[1].n = A + 1
                <5>1. Len(d) = HdrLen /\ d[1] = Cell("size", A + 1, 1)
                    <6>1. "size" \in {"header", "param", "size", "body"} /\ A + 1 \in Nat /\ HdrLen \in Nat
                          /\ 1 \in 1 .. HdrLen
                        BY <1>1, HdrLenAssumption
                    <6> QED
                        BY <4>1, <6>1, CellsSeq, Zenon
                <5> QED
                    BY <5>1, EmptySeq, HdrLenAssumption DEF Cell
            <4>3. IncomingSizes(d) = {sizes[A + 1]}
                BY <4>1, <4>2 DEF IncomingSizes
            <4> QED
                BY <4>3, <1>18
        <3>5. Cells("body", A + 1, 0) = <<>>
            BY DEF Cells
        <3>6. ReceiverInLoop'
            BY <3>2, <3>3, <3>4, <3>5, <1>1, <1>18 DEF ReceiverInLoop, ReceiverGoal, A, N
        <3>7. ReceiverNext' = After(w[k], sizes)
            BY <3>2, <3>3, <3>4, <1>1, <1>18, HdrLenAssumption DEF ReceiverNext, After, Cell, A
        <3>8. WireInStep'
            BY <3>1, <3>7, <1>13
        <3> QED
            BY <3>6, <3>8, <1>18
    <2> QED
        BY <1>9, <1>10, <1>11, <1>14, <1>18, <2>1 DEF TransferInv
<1>19. CASE /\ Plus(c, k) >= g /\ pc = "body"
            /\ receiver'.pc = "idle" /\ receiver'.count = 0
            /\ arrived' = Append(arrived, [outcome |-> "returns", data |-> d])
    <2>1. /\ Len(arrived') = A + 1
          /\ \A i \in 1 .. A : arrived'[i] = arrived[i]
          /\ arrived'[A + 1].outcome = "returns" /\ arrived'[A + 1].data = d
        <3>1. "returns" \in {"returns", "throws"}
            OBVIOUS
        <3>2. arrived'[A + 1] = [outcome |-> "returns", data |-> d]
                 => arrived'[A + 1].outcome = "returns" /\ arrived'[A + 1].data = d
            OBVIOUS
        <3> QED
            BY <3>1, <3>2, <1>5, <1>15, <1>19, Zenon
    <2>2. ASSUME NEW n \in 1 .. A + 1, \A m \in 1 .. n : arrived'[m].outcome # "throws"
          PROVE  (n \in 1 .. A /\ Arrived(n)) \/ (n = A + 1 /\ Arrived(A))
        <3>1. (n \in 1 .. A /\ \A m \in 1 .. n : m \in 1 .. A) \/ (n = A + 1 /\ \A m \in 1 .. A : m \in 1 .. n)
            BY <1>1
        <3> QED
            BY <3>1, <2>1, <2>2 DEF Arrived
    <2>3. ASSUME Arrived(A) PROVE A + 1 <= N /\ d = Cells("body", A + 1, sizes[A + 1]) /\ c + k = g
        <3>1. c + k = g /\ g = sizes[A + 1] /\ A < N
            BY <2>3, <1>1, <1>3, <1>12, <1>19
        <3>2. A + 1 <= N
            BY <3>1, <1>1
        <3>3. d = Cells(pc, A + 1, c + k) /\ pc = "body"
            BY <2>3, <1>12, <1>19
        <3> QED
            BY <3>1, <3>2, <3>3, Zenon
    <2>4. ArrivedWereSent'
        <3> SUFFICES ASSUME NEW n \in 1 .. A + 1, \A m \in 1 .. n : arrived'[m].outcome # "throws"
                     PROVE  n <= N
            BY <2>1, <1>1 DEF ArrivedWereSent, Arrived, N
        <3>1. CASE n \in 1 .. A /\ Arrived(n)
            BY <3>1, <1>1 DEF TransferInv, ArrivedWereSent, A, N
        <3>2. CASE n = A + 1 /\ Arrived(A)
            BY <3>2, <2>3
        <3> QED
            BY <2>2, <3>1, <3>2
    <2>5. ObjectsArriveIntact'
        <3> SUFFICES ASSUME NEW n \in 1 .. A + 1, arrived'[n].outcome = "returns",
                            \A m \in 1 .. n : arrived'[m].outcome # "throws"
                     PROVE  arrived'[n].data = Cells("body", n, sizes[n])
            BY <2>1, <1>1 DEF ObjectsArriveIntact
        <3>1. CASE n \in 1 .. A /\ Arrived(n)
            BY <3>1, <2>1, <1>1 DEF TransferInv, ObjectsArriveIntact, Arrived, A
        <3>2. CASE n = A + 1 /\ Arrived(A)
            BY <3>2, <2>1, <2>3
        <3> QED
            BY <2>2, <3>1, <3>2
    <2>6. TransferInStep'
        <3> SUFFICES ASSUME \A m \in 1 .. A + 1 : arrived'[m].outcome # "throws"
                     PROVE  receiver'.pc # "threw" /\ ReceiverInLoop' /\ WireInStep'
            BY <2>1 DEF TransferInStep, Arrived
        <3>1. Arrived(A)
            <4>1. A + 1 \in 1 .. A + 1 /\ ~(A + 1 \in 1 .. A)
                BY <1>1
            <4>2. \A m \in 1 .. A : m \in 1 .. A + 1
                BY <1>1
            <4> QED
                BY <4>2, <2>1 DEF Arrived
        <3>2. ReceiverNext' = Cell("size", A + 2, 1)
            BY <2>1, <1>1, <1>19 DEF ReceiverNext
        <3>3. k = 0 => ReceiverNext' = ReceiverNext
            BY <3>1, <3>2, <2>3, <1>1, <1>12, <1>19 DEF ReceiverNext, ReceiverGoal, A, pc, c, g
        <3>4. k > 0 => ReceiverNext' = After(w[k], sizes)
            <4> SUFFICES ASSUME k > 0 PROVE Cell("size", A + 2, 1) = After(w[k], sizes)
                BY <3>2
            <4>1. w[k] = Cell("body", A + 1, sizes[A + 1]) /\ sizes[A + 1] \in Nat
                BY <3>1, <2>3, <1>1, <1>12, <1>19
            <4> QED
                BY <4>1, <1>1 DEF After, Cell
        <3>5. WireInStep'
            BY <3>1, <3>3, <3>4, <1>13
        <3> QED
            BY <3>5, <1>19 DEF ReceiverInLoop
    <2> QED
        BY <1>9, <1>10, <1>11, <2>4, <2>5, <2>6 DEF TransferInv
<1> QED
    BY <1>8, <1>16, <1>17, <1>18, <1>19 DEF ReceiverOutcome, pc, g

\* Every step of a transfer.
LEMMA TransferNextInv ==
    ASSUME TransferInv, TransferNext
    PROVE  TransferInv'
BY SendObjectInv, SenderSendInv, SenderFailsInv, ReceiveObjectInv, ReceiverReadInv, ReceiverReadFailsInv
   DEF TransferNext


-----------------------------------------------------------------------------
(* RPC: requests, arguments and replies.                                   *)

LEMMA RequestSeq ==
    ASSUME NEW c \in Nat, NEW f \in Functions
    PROVE  /\ f.params \in Nat
           /\ Request(c, f) \in Seq(PlainCell)
           /\ Len(Request(c, f)) = HdrLen + f.params
           /\ \A i \in 1 .. HdrLen : Request(c, f)[i] = Cell("header", c, i)
           /\ \A i \in 1 .. f.params : Request(c, f)[HdrLen + i] = Cell("param", c, i)
<1> DEFINE h == Cells("header", c, HdrLen)
           p == Cells("param", c, f.params)
<1>1. f.params \in Nat /\ HdrLen \in Nat
    BY FunctionsAssumption, HdrLenAssumption
<1>2. h \in Seq(PlainCell) /\ Len(h) = HdrLen /\ \A i \in 1 .. HdrLen : h[i] = Cell("header", c, i)
    BY <1>1, CellsSeq
<1>3. p \in Seq(PlainCell) /\ Len(p) = f.params /\ \A i \in 1 .. f.params : p[i] = Cell("param", c, i)
    BY <1>1, CellsSeq
<1> HIDE DEF h, p
<1>4. /\ h \o p \in Seq(PlainCell)
      /\ Len(h \o p) = Len(h) + Len(p)
      /\ \A i \in 1 .. Len(h) + Len(p) :
            (h \o p)[i] = IF i <= Len(h) THEN h[i] ELSE p[i - Len(h)]
    BY <1>2, <1>3, ConcatProperties
<1>5. \A i \in 1 .. f.params : (h \o p)[HdrLen + i] = Cell("param", c, i)
    <2> SUFFICES ASSUME NEW i \in 1 .. f.params PROVE (h \o p)[HdrLen + i] = Cell("param", c, i)
        OBVIOUS
    <2>1. /\ HdrLen + i \in 1 .. Len(h) + Len(p) /\ ~(HdrLen + i <= Len(h))
          /\ (HdrLen + i) - Len(h) = i
        BY <1>1, <1>2, <1>3
    <2> QED
        BY <2>1, <1>3, <1>4
<1>6. \A i \in 1 .. HdrLen : (h \o p)[i] = Cell("header", c, i)
    BY <1>1, <1>2, <1>3, <1>4
<1>7. Request(c, f) = h \o p
    BY DEF Request, h, p
<1> QED
    BY <1>1, <1>2, <1>3, <1>4, <1>5, <1>6, <1>7

LEMMA ReplySeq ==
    ASSUME NEW c \in Nat, NEW f \in Functions, NEW args \in Seq(PlainCell)
    PROVE  /\ ReplyOf(f, c, args) \in Seq(ReplyCell)
           /\ Len(ReplyOf(f, c, args)) = IF f.void THEN 1 ELSE RetLen
<1>1. Cell("done", c, 1) \in ReplyCell
    BY EmptySeq DEF Cell, ReplyCell
<1>2. \A i \in 1 .. RetLen : [Cell("result", c, i) EXCEPT !.args = args] \in ReplyCell
    BY DEF Cell, ReplyCell, RetLen
<1>3. CASE f.void
    BY <1>1, <1>3 DEF ReplyOf
<1>4. CASE ~f.void
    BY <1>2, <1>4 DEF ReplyOf, RetLen
<1> QED
    BY <1>3, <1>4

LEMMA ArgumentsSeq ==
    ASSUME NEW order, NEW params \in Seq(PlainCell)
    PROVE  ArgumentsIn(order, params) \in Seq(PlainCell)
<1>1. Len(params) \in Nat /\ \A i \in 1 .. Len(params) : params[i] \in PlainCell
    BY LenProperties, ElementOfSeq
<1>2. \A i \in 1 .. Len(params) : params[(Len(params) - i) + 1] \in PlainCell
    BY <1>1
<1>3. Reverse(params) \in Seq(PlainCell)
    BY <1>1, <1>2 DEF Reverse
<1> QED
    BY <1>3 DEF ArgumentsIn

\* With fewer than two parameters the order of evaluation does not matter.
LEMMA FewArguments ==
    ASSUME NEW order, NEW c \in Nat, NEW n \in Nat, order = "ltr" \/ n < 2
    PROVE  ArgumentsIn(order, Cells("param", c, n)) = Cells("param", c, n)
<1>1. CASE order = "ltr"
    BY <1>1 DEF ArgumentsIn
<1>2. CASE order # "ltr"
    <2>1. Len(Cells("param", c, n)) = n
        BY CellsSeq
    <2>2. Reverse(Cells("param", c, n)) = [i \in 1 .. n |-> Cells("param", c, n)[(n - i) + 1]]
        BY <2>1 DEF Reverse
    <2>3. \A i \in 1 .. n : (n - i) + 1 = i
        BY <1>2
    <2> QED
        BY <1>2, <2>2, <2>3 DEF ArgumentsIn, Cells
<1> QED
    BY <1>1, <1>2

-----------------------------------------------------------------------------
(* RPC: the ends of the connection.                                        *)

LEMMA RpcInitInv == ExchangerInit /\ RpcInit => RpcInv
<1> SUFFICES ASSUME ExchangerInit, RpcInit PROVE RpcInv
    OBVIOUS
<1> USE DEF ExchangerInit, RpcInit
<1>1. /\ wire["request"] = <<>> /\ wire["reply"] = <<>> /\ Len(<<>>) = 0
      /\ DOMAIN wire = Directions /\ DOMAIN hungUp = Directions
      /\ ~hungUp["request"] /\ ~hungUp["reply"]
    BY DEF Directions
<1>2. RpcTypeOK
    <2>1. \A S : <<>> \in Seq(S)
        BY EmptySeq
    <2>2. /\ server.pc = "header" /\ client = "idle"
          /\ calls = <<>> /\ results = <<>> /\ executed = <<>> /\ rejected = {}
        OBVIOUS
    <2>3. env \in RpcEnvs
        OBVIOUS
    <2>4. rejected \subseteq 0 .. Len(calls) /\ Len(calls) = Len(results) + (IF client = "reply" THEN 1 ELSE 0)
        BY <2>2
    <2> QED
        BY <1>1, <2>1, <2>2, <2>3, <2>4, Zenon DEF RpcTypeOK
<1>3. rejected # {0}
    OBVIOUS
<1> QED
    BY <1>1, <1>2, <1>3
       DEF RpcInv, OfCalls, HangUps, OwnValues, OnceEach, RejectedOnlyIf, RpcInStep, AtRest,
           Settled, ThrowsAtTheEnd, WholeRequests, Returned

LEMMA ServerCloseInv ==
    ASSUME RpcInv, ServerClose
    PROVE  RpcInv'
<1>1. /\ UNCHANGED <<wire, env, client, server, calls, results, executed, rejected, failed>>
      /\ server.pc = "stopped"
    BY DEF ServerClose, rpcVars
<1>2. /\ DOMAIN hungUp' = Directions
      /\ hungUp'["reply"] /\ hungUp'["request"] = hungUp["request"]
    BY DEF ServerClose, HangUp, RpcInv, RpcTypeOK, Directions
<1>3. RpcTypeOK' /\ OfCalls' /\ HangUps'
    BY <1>1, <1>2 DEF RpcInv, RpcTypeOK, OfCalls, HangUps
<1>4. OwnValues' /\ OnceEach'
    BY <1>1, <1>2 DEF RpcInv, OwnValues, OnceEach
<1>5. RejectedOnlyIf'
    BY <1>1, <1>2 DEF RpcInv, RejectedOnlyIf
<1>6. RpcInStep' /\ Settled' /\ ThrowsAtTheEnd' /\ WholeRequests'
    BY <1>1 DEF RpcInv, RpcInStep, AtRest, NotYetExecuted, ReplyOnTheWay, Settled, ThrowsAtTheEnd,
                WholeRequests
<1> QED
    BY <1>3, <1>4, <1>5, <1>6 DEF RpcInv

LEMMA ClientCloseInv ==
    ASSUME RpcInv, ClientClose
    PROVE  RpcInv'
<1>1. /\ UNCHANGED <<wire, env, server, calls, results, executed, rejected, failed>>
      /\ client # "reply" /\ client' = "closed"
    BY DEF ClientClose
<1>2. /\ DOMAIN hungUp' = Directions
      /\ hungUp'["request"] /\ hungUp'["reply"] = hungUp["reply"]
    BY DEF ClientClose, HangUp, RpcInv, RpcTypeOK, Directions
<1>3. RpcTypeOK' /\ OfCalls' /\ HangUps'
    BY <1>1, <1>2 DEF RpcInv, RpcTypeOK, OfCalls, HangUps
<1>4. OwnValues' /\ OnceEach'
    BY <1>1, <1>2 DEF RpcInv, OwnValues, OnceEach
<1>5. RejectedOnlyIf'
    BY <1>1, <1>2 DEF RpcInv, RejectedOnlyIf
<1>6. RpcInStep' /\ Settled' /\ ThrowsAtTheEnd' /\ WholeRequests'
    BY <1>1 DEF RpcInv, RpcInStep, AtRest, Settled, ThrowsAtTheEnd, WholeRequests
<1> QED
    BY <1>3, <1>4, <1>5, <1>6 DEF RpcInv


-----------------------------------------------------------------------------
(* RPC: the client.                                                        *)

ResultSet == [outcome : {"void", "value", "throws"}, value : Seq(ReplyCell)]

LEMMA ResultAppended ==
    ASSUME NEW rs \in Seq(ResultSet), NEW e \in ResultSet
    PROVE  /\ Len(rs) \in Nat
           /\ Append(rs, e) \in Seq(ResultSet)
           /\ Len(Append(rs, e)) = Len(rs) + 1
           /\ \A c \in 1 .. Len(rs) : /\ Append(rs, e)[c] = rs[c]
                                      /\ Returned(Append(rs, e), c) <=> Returned(rs, c)
           /\ Append(rs, e)[Len(rs) + 1] = e
           /\ Returned(Append(rs, e), Len(rs) + 1)
                 <=> Returned(rs, Len(rs)) /\ e.outcome # "throws"
<1> DEFINE t == Append(rs, e)
<1>1. /\ Len(rs) \in Nat /\ t \in Seq(ResultSet) /\ Len(t) = Len(rs) + 1
      /\ \A i \in 1 .. Len(rs) : t[i] = rs[i]
      /\ t[Len(rs) + 1] = e
    BY AppendProperties, LenProperties
<1> HIDE DEF t
<1>2. ASSUME NEW c \in 1 .. Len(rs) PROVE Returned(t, c) <=> Returned(rs, c)
    <2>1. \A b \in 1 .. c : b \in 1 .. Len(rs)
        BY <1>1
    <2> QED
        BY <2>1, <1>1 DEF Returned
<1>3. Returned(t, Len(rs) + 1) <=> Returned(rs, Len(rs)) /\ e.outcome # "throws"
    <2>1. \A b : b \in 1 .. Len(rs) + 1 <=> b \in 1 .. Len(rs) \/ b = Len(rs) + 1
        BY <1>1
    <2> QED
        BY <2>1, <1>1 DEF Returned
<1> QED
    BY <1>1, <1>2, <1>3 DEF t

\* A call that ends with outcome o and value v, in three cases: it returns in
\* step, it throws, or an earlier one has thrown.
LEMMA ReturnInv ==
    ASSUME RpcInv, client = "reply",
           NEW o \in {"void", "value", "throws"}, NEW v \in Seq(ReplyCell), Return(o, v),
           UNCHANGED <<hungUp, env, server, calls, executed, rejected, failed>>,
           DOMAIN wire' = Directions, wire'["request"] = wire["request"],
           wire'["reply"] \in Seq(ReplyCell),
           o # "throws" /\ Returned(results, Len(results)) =>
              /\ wire'["reply"] = <<>> /\ server.pc # "params"
              /\ server.pc = "header" => wire["request"] = <<>>
              /\ o = "value" /\ (env.order = "ltr" \/ calls[Len(calls)].params < 2)
                    => v = ReplyOf(calls[Len(calls)], Len(calls),
                                   Cells("param", Len(calls), calls[Len(calls)].params))
              /\ o = "value" \/ ~hungUp["reply"] => Once(executed, Len(calls)),
           o = "throws" /\ Returned(results, Len(results)) /\ env.blocking /\ ~env.shortSend
              => server.pc = "stopped"
    PROVE  RpcInv'
<1> DEFINE R == Len(results)
           e == [outcome |-> o, value |-> v]
<1>1. /\ results \in Seq(ResultSet) /\ e \in ResultSet /\ Len(calls) = R + 1
    BY DEF RpcInv, RpcTypeOK, ResultSet
<1>2. results' = Append(results, e) /\ client' = "idle"
    BY DEF Return
<1> HIDE DEF e
<1>3. /\ R \in Nat /\ results' \in Seq(ResultSet) /\ Len(results') = R + 1
      /\ \A c \in 1 .. R : results'[c] = results[c] /\ (Returned(results', c) <=> Returned(results, c))
      /\ results'[R + 1] = e
      /\ Returned(results', R + 1) <=> Returned(results, R) /\ e.outcome # "throws"
    BY <1>1, <1>2, ResultAppended
<1>4. results'[R + 1].outcome = o /\ results'[R + 1].value = v /\ e.outcome = o
    BY <1>3 DEF e
<1>5. RpcTypeOK' /\ OfCalls' /\ HangUps'
    <2>1. RpcTypeOK'
        <3>1. Len(calls) = Len(results') + (IF client' = "reply" THEN 1 ELSE 0)
            BY <1>1, <1>2, <1>3
        <3>2. /\ client' \in {"idle", "reply", "broken", "closed"}
              /\ results' \in Seq([outcome : {"void", "value", "throws"}, value : Seq(ReplyCell)])
            BY <1>2, <1>3 DEF ResultSet
        <3> QED
            BY <3>1, <3>2 DEF RpcInv, RpcTypeOK
    <2> QED
        BY <1>2, <2>1 DEF RpcInv, OfCalls, HangUps
<1> HIDE DEF R
<1>6. OwnValues'
    <2> SUFFICES ASSUME NEW c \in 1 .. R + 1, results'[c].outcome = "value", Returned(results', c),
                        env.order = "ltr" \/ calls[c].params < 2
                 PROVE  results'[c].value = ReplyOf(calls[c], c, Cells("param", c, calls[c].params))
        BY <1>3 DEF OwnValues
    <2>1. CASE c \in 1 .. R
        BY <2>1, <1>3 DEF RpcInv, OwnValues, R
    <2>2. CASE c = R + 1
        BY <2>2, <1>1, <1>3, <1>4 DEF R
    <2> QED
        BY <2>1, <2>2, <1>3
<1>7. OnceEach'
    <2> SUFFICES ASSUME NEW c \in 1 .. R + 1, Returned(results', c),
                        results'[c].outcome = "value" \/ ~hungUp["reply"]
                 PROVE  Once(executed, c)
        BY <1>3 DEF OnceEach
    <2>1. CASE c \in 1 .. R
        BY <2>1, <1>3 DEF RpcInv, OnceEach, R
    <2>2. CASE c = R + 1
        BY <2>2, <1>1, <1>3, <1>4 DEF R
    <2> QED
        BY <2>1, <2>2, <1>3
<1>8. RejectedOnlyIf'
    BY DEF RpcInv, RejectedOnlyIf
<1>9. RpcInStep'
    BY <1>2, <1>3, <1>4 DEF RpcInStep, AtRest, R
<1>10. Settled'
    <2> SUFFICES ASSUME NEW c \in 1 .. R + 1, Returned(results', c), server.pc # "stopped"
                 PROVE  /\ server.pc = "params" => server.call # c
                        /\ \A i \in 1 .. Len(wire["request"]) : wire["request"][i].n # c
        <3>1. server' = server /\ wire'["request"] = wire["request"] /\ Len(results') = R + 1
            BY <1>3
        <3> QED
            BY <3>1, Zenon DEF Settled
    <2>1. CASE c \in 1 .. R
        BY <2>1, <1>3 DEF RpcInv, Settled, R
    <2>2. CASE c = R + 1
        <3>1. server.pc = "header" /\ wire["request"] = <<>>
            BY <2>2, <1>3, <1>4 DEF RpcInv, RpcTypeOK, R
        <3> QED
            BY <3>1, EmptySeq
    <2> QED
        BY <2>1, <2>2, <1>3
<1>11. ThrowsAtTheEnd'
    BY <1>3, <1>4 DEF RpcInv, ThrowsAtTheEnd, R
<1>12. WholeRequests'
    BY DEF RpcInv, WholeRequests
<1> QED
    BY <1>5, <1>6, <1>7, <1>8, <1>9, <1>10, <1>11, <1>12 DEF RpcInv

\* A call that ends because the client's socket failed: the last one, or one
\* that is made now and not sent.
LEMMA ThrowInv ==
    ASSUME RpcInv, client # "closed", Throw,
           UNCHANGED <<wire, hungUp, env, server, executed, rejected, failed>>,
           calls' \in Seq(Functions), Len(calls') = Len(results) + 1,
           \A c \in 1 .. Len(calls) : calls'[c] = calls[c]
    PROVE  RpcInv'
<1> DEFINE R == Len(results)
           e == [outcome |-> "throws", value |-> <<>>]
<1>1. /\ results \in Seq(ResultSet) /\ e \in ResultSet /\ e.outcome = "throws"
      /\ Len(calls) = R + (IF client = "reply" THEN 1 ELSE 0)
    BY EmptySeq DEF RpcInv, RpcTypeOK, ResultSet
<1>2. results' = Append(results, e) /\ client' = "broken"
    BY DEF Throw
<1> HIDE DEF e
<1>3. /\ R \in Nat /\ results' \in Seq(ResultSet) /\ Len(results') = R + 1
      /\ \A c \in 1 .. R : results'[c] = results[c] /\ (Returned(results', c) <=> Returned(results, c))
      /\ results'[R + 1] = e /\ ~Returned(results', R + 1)
    BY <1>1, <1>2, ResultAppended
<1> HIDE DEF R
<1>4. /\ Len(calls) \in Nat /\ R <= Len(calls) /\ Len(calls) <= R + 1 /\ Len(calls') = R + 1
      /\ \A c \in 1 .. R : c \in 1 .. Len(calls) /\ calls'[c] = calls[c]
    BY <1>1, <1>3 DEF R
<1>5. RpcTypeOK'
    <2>1. rejected \subseteq 0 .. Len(calls') /\ (server.pc = "params" => server.call \in 1 .. Len(calls'))
        BY <1>4 DEF RpcInv, RpcTypeOK
    <2>2. Len(calls') = Len(results') + (IF client' = "reply" THEN 1 ELSE 0)
        BY <1>2, <1>3, <1>4
    <2>3. /\ client' \in {"idle", "reply", "broken", "closed"}
          /\ results' \in Seq([outcome : {"void", "value", "throws"}, value : Seq(ReplyCell)])
        BY <1>2, <1>3 DEF ResultSet
    <2> QED
        BY <2>1, <2>2, <2>3 DEF RpcInv, RpcTypeOK
<1>6. OfCalls' /\ HangUps'
    <2>1. \A x : x \in 1 .. Len(calls) => x \in 1 .. Len(calls')
        BY <1>4
    <2> QED
        BY <1>2, <2>1 DEF RpcInv, OfCalls, HangUps
<1>7. \A c \in 1 .. Len(results') : Returned(results', c) => c \in 1 .. R
    BY <1>3, <1>4
<1>8. OwnValues' /\ OnceEach'
    BY <1>3, <1>4, <1>7 DEF RpcInv, OwnValues, OnceEach, R
<1>9. RejectedOnlyIf'
    <2>1. \A c \in rejected \ {0} : calls'[c] = calls[c]
        BY <1>4 DEF RpcInv, RpcTypeOK
    <2> QED
        BY <2>1 DEF RpcInv, RejectedOnlyIf
<1>10. RpcInStep' /\ ThrowsAtTheEnd'
    BY <1>2, <1>3 DEF RpcInStep, ThrowsAtTheEnd
<1>11. Settled'
    BY <1>3, <1>7 DEF RpcInv, Settled, R
<1>12. WholeRequests'
    <2>1. /\ server.pc = "params" => calls'[server.call] = calls[server.call]
          /\ \A c \in 1 .. Len(calls) : c \in 1 .. Len(calls') /\ Request(c, calls'[c]) = Request(c, calls[c])
        BY <1>4 DEF RpcInv, RpcTypeOK
    <2> QED
        BY <2>1 DEF RpcInv, WholeRequests
<1> QED
    BY <1>5, <1>6, <1>8, <1>9, <1>10, <1>11, <1>12 DEF RpcInv

LEMMA CallFailsInv ==
    ASSUME RpcInv, CallFails
    PROVE  RpcInv'
<1>1. /\ client = "reply" /\ Throw
      /\ UNCHANGED <<wire, hungUp, env, server, calls, executed, rejected, failed>>
    BY DEF CallFails, exchanger
<1>2. calls' \in Seq(Functions) /\ Len(calls') = Len(results) + 1
    BY <1>1 DEF RpcInv, RpcTypeOK
<1> QED
    BY <1>1, <1>2, ThrowInv

LEMMA ReceiveReplyInv ==
    ASSUME RpcInv, ReceiveReply
    PROVE  RpcInv'
<1> DEFINE C == Len(calls)
           f == calls[C]
           size == IF f.void THEN 1 ELSE RetLen
           w == wire["reply"]
<1>1. /\ client = "reply" /\ UNCHANGED <<hungUp, env, server, calls, executed, rejected, failed>>
      /\ w \in Seq(ReplyCell) /\ Len(w) \in Nat
      /\ DOMAIN wire = Directions
      /\ C \in Nat /\ C > 0 /\ f \in Functions /\ f.params \in Nat
      /\ Last(calls) = f
    <2>1. /\ client = "reply" /\ UNCHANGED <<hungUp, env, server, calls, executed, rejected, failed>>
          /\ w \in Seq(ReplyCell) /\ calls \in Seq(Functions) /\ C = Len(results) + 1
          /\ results \in Seq([outcome : {"void", "value", "throws"}, value : Seq(ReplyCell)])
          /\ DOMAIN wire = Directions
        BY DEF ReceiveReply, RpcInv, RpcTypeOK
    <2>2. Len(results) \in Nat /\ Len(w) \in Nat
        BY <2>1, LenProperties
    <2>3. C \in Nat /\ C \in 1 .. C
        BY <2>1, <2>2
    <2>4. f \in Functions
        BY <2>1, <2>3, ElementOfSeq
    <2> QED
        BY <2>1, <2>2, <2>3, <2>4, FunctionsAssumption DEF Last
<1>2. PICK k \in ReceiveCounts("reply", size, env.blocking) :
          /\ Receive("reply", k)
          /\ CASE f.void             -> Return("void", <<>>)
               [] ~f.void /\ k = size -> Return("value", Received("reply", k))
               [] ~f.void /\ k < size -> Return("throws", <<>>)
    BY <1>1 DEF ReceiveReply
<1>3. size \in {1, 2} /\ (f.void => size = 1) /\ (~f.void => size = 2)
    BY DEF RetLen
<1> HIDE DEF C, f, size, w
<1>4. /\ k \in Nat /\ k <= Len(w) /\ k <= size
      /\ env.blocking /\ k < size => hungUp["reply"]
      /\ k = 0 => hungUp["reply"] /\ Len(w) = 0
    BY <1>1, <1>3 DEF ReceiveCounts, w
<1>5. /\ wire'["reply"] = SubSeq(w, k + 1, Len(w)) /\ wire'["reply"] \in Seq(ReplyCell)
      /\ wire'["request"] = wire["request"] /\ DOMAIN wire' = Directions
      /\ Len(wire'["reply"]) = Len(w) - k
      /\ SubSeq(w, 1, k) \in Seq(ReplyCell) /\ Len(SubSeq(w, 1, k)) = k
      /\ \A i \in 1 .. k : SubSeq(w, 1, k)[i] = w[i]
    <2>1. k \in 0 .. Len(w)
        BY <1>1, <1>4
    <2>2. /\ wire'["reply"] = SubSeq(w, k + 1, Len(w))
          /\ wire'["request"] = wire["request"] /\ DOMAIN wire' = Directions
        BY <1>1, <1>2 DEF Receive, Directions, w
    <2> QED
        BY <1>1, <2>1, <2>2, ReceiveSeq
<1>6. PICK o \in {"void", "value", "throws"}, v \in Seq(ReplyCell) :
          /\ Return(o, v)
          /\ f.void <=> o = "void"
          /\ o = "value" => k = size /\ v = SubSeq(w, 1, k)
          /\ o = "throws" => k < size
    <2>1. CASE f.void
        BY <2>1, <1>2, EmptySeq
    <2>2. CASE ~f.void /\ k = size
        <3>1. Return("value", Received("reply", k))
            <4>1. ~(k < size)
                BY <2>2, <1>3
            <4> QED
                BY <2>2, <4>1, <1>2, Zenon
        <3> QED
            BY <2>2, <3>1, <1>5 DEF Received, w
    <2>3. CASE ~f.void /\ k < size
        <3>1. Return("throws", <<>>)
            <4>1. k # size
                BY <2>3, <1>3, <1>4
            <4> QED
                BY <2>3, <4>1, <1>2, Zenon
        <3> QED
            BY <2>3, <3>1, EmptySeq
    <2> QED
        BY <2>1, <2>2, <2>3, <1>3, <1>4
<1>7. ASSUME o # "throws", Returned(results, Len(results))
      PROVE  /\ wire'["reply"] = <<>> /\ server.pc # "params"
             /\ server.pc = "header" => wire["request"] = <<>>
             /\ o = "value" /\ (env.order = "ltr" \/ f.params < 2)
                   => v = ReplyOf(f, C, Cells("param", C, f.params))
             /\ o = "value" \/ ~hungUp["reply"] => Once(executed, C)
    <2>1. NotYetExecuted \/ ReplyOnTheWay
        BY <1>1, <1>7 DEF RpcInv, RpcInStep
    <2>2. CASE NotYetExecuted
        <3>1. Len(w) = 0
            BY <2>2, EmptySeq DEF NotYetExecuted, w
        <3>2. k = 0 /\ hungUp["reply"] /\ o = "void"
            BY <3>1, <1>1, <1>3, <1>4, <1>6, <1>7
        <3>3. server.pc = "stopped"
            BY <3>2 DEF RpcInv, HangUps
        <3>4. wire'["reply"] = <<>>
            BY <3>1, <3>2, <1>5, EmptySeq
        <3> QED
            BY <3>2, <3>3, <3>4
    <2>3. CASE ReplyOnTheWay
        <3> DEFINE args == ArgumentsIn(env.order, Cells("param", C, f.params))
                   r == ReplyOf(f, C, args)
        <3>1. /\ server.pc \in {"header", "stopped"} /\ wire["request"] = <<>> /\ Once(executed, C)
              /\ Len(w) <= Len(r) /\ \A i \in 1 .. Len(w) : w[i] = r[i]
            BY <2>3 DEF ReplyOnTheWay, IsBeginning, C, f, w
        <3>2. Cells("param", C, f.params) \in Seq(PlainCell)
            BY <1>1, CellsSeq
        <3>3. args \in Seq(PlainCell)
            BY <3>2, ArgumentsSeq
        <3> HIDE DEF args
        <3>4. r \in Seq(ReplyCell) /\ Len(r) = size
            BY <1>1, <3>3, ReplySeq DEF size
        <3> HIDE DEF r
        <3>5. Len(w) <= size /\ (o = "value" => k = size /\ Len(w) = size)
            BY <3>1, <3>4, <1>1, <1>3, <1>4, <1>6
        <3>6. Len(w) = k
            BY <3>5, <1>1, <1>3, <1>4, <1>6, <1>7
        <3>7. wire'["reply"] = <<>>
            BY <3>6, <1>1, <1>4, <1>5, EmptySeq
        <3>8. o = "value" => v = r
            <4> SUFFICES ASSUME o = "value" PROVE SubSeq(w, 1, k) = r
                BY <1>6
            <4>1. \A i \in 1 .. Len(SubSeq(w, 1, k)) : SubSeq(w, 1, k)[i] = r[i]
                BY <3>1, <3>6, <1>5
            <4> QED
                BY <4>1, <3>4, <3>5, <1>5, SeqEqual
        <3>9. env.order = "ltr" \/ f.params < 2 => r = ReplyOf(f, C, Cells("param", C, f.params))
            BY <1>1, FewArguments DEF r, args
        <3> QED
            BY <3>1, <3>7, <3>8, <3>9
    <2> QED
        BY <2>1, <2>2, <2>3
<1>8. o = "throws" /\ env.blocking => server.pc = "stopped"
    BY <1>4, <1>6 DEF RpcInv, HangUps
<1> QED
    BY <1>1, <1>5, <1>6, <1>7, <1>8, ReturnInv DEF C, f


\* A new call finds the wires empty, if no call has thrown before.
LEMMA CallSentInv ==
    ASSUME RpcInv, NEW f \in Functions, Call(f), client = "idle", client' = "reply",
           UNCHANGED results,
           \E k \in SendCounts(Len(Request(Len(calls) + 1, f))) :
              Send("request", Request(Len(calls) + 1, f), k)
    PROVE  RpcInv'
<1> DEFINE C == Len(calls)
           q == Request(C + 1, f)
           w == wire["request"]
<1>1. /\ client = "idle" /\ client' = "reply"
      /\ UNCHANGED <<hungUp, env, server, results, executed, rejected, failed>>
      /\ w \in Seq(PlainCell) /\ wire["reply"] \in Seq(ReplyCell) /\ DOMAIN wire = Directions
      /\ calls \in Seq(Functions) /\ calls' = Append(calls, f) /\ C = Len(results)
    BY DEF Call, RpcInv, RpcTypeOK
<1>2. PICK k \in SendCounts(Len(q)) : Send("request", q, k)
    OBVIOUS
<1>3. /\ Len(w) \in Nat /\ C \in Nat
      /\ calls' \in Seq(Functions) /\ Len(calls') = C + 1 /\ calls'[C + 1] = f
      /\ \A c \in 1 .. C : calls'[c] = calls[c]
    <2>1. Len(w) \in Nat /\ C \in Nat
        BY <1>1, LenProperties
    <2> QED
        BY <2>1, <1>1, AppendProperties
<1>4. /\ f.params \in Nat /\ q \in Seq(PlainCell) /\ Len(q) = HdrLen + f.params
      /\ \A i \in 1 .. HdrLen : q[i] = Cell("header", C + 1, i)
      /\ \A i \in 1 .. f.params : q[HdrLen + i] = Cell("param", C + 1, i)
    <2>1. C + 1 \in Nat
        BY <1>3
    <2> QED
        BY <2>1, RequestSeq, Zenon
<1> HIDE DEF C, q, w
<1>5. k \in 0 .. Len(q) /\ (~env.shortSend => k = Len(q))
    BY <1>2, <1>4, HdrLenAssumption DEF SendCounts
<1>6. /\ wire'["request"] \in Seq(PlainCell) /\ Len(wire'["request"]) = Len(w) + k
      /\ \A i \in 1 .. Len(w) : wire'["request"][i] = w[i]
      /\ \A i \in 1 .. k : wire'["request"][Len(w) + i] = q[i]
      /\ wire'["reply"] = wire["reply"] /\ DOMAIN wire' = Directions
    <2>1. /\ wire'["request"] = w \o SubSeq(q, 1, k)
          /\ wire'["reply"] = wire["reply"] /\ DOMAIN wire' = Directions
        BY <1>1, <1>2 DEF Send, Directions, w
    <2>2. w \in Seq(PlainCell) /\ q \in Seq(PlainCell) /\ k \in 0 .. Len(q)
        BY <1>1, <1>4, <1>5 DEF w
    <2>3. /\ w \o SubSeq(q, 1, k) \in Seq(PlainCell) /\ Len(w \o SubSeq(q, 1, k)) = Len(w) + k
          /\ \A i \in 1 .. Len(w) : (w \o SubSeq(q, 1, k))[i] = w[i]
          /\ \A i \in 1 .. k : (w \o SubSeq(q, 1, k))[Len(w) + i] = q[i]
        BY <2>2, SendSeq, SMTT(30)
    <2> QED
        BY <2>1, <2>3, Zenon
<1>7. \A i \in 1 .. k : wire'["request"][Len(w) + i].n = C + 1
    <2> SUFFICES ASSUME NEW i \in 1 .. k PROVE q[i].n = C + 1
        BY <1>6
    <2>1. CASE i \in 1 .. HdrLen
        <3>1. q[i] = Cell("header", C + 1, i)
            BY <2>1, <1>4
        <3> QED
            BY <3>1 DEF Cell
    <2>2. CASE i \notin 1 .. HdrLen
        <3>1. i - HdrLen \in 1 .. f.params /\ HdrLen + (i - HdrLen) = i
            BY <2>2, <1>4, <1>5, HdrLenAssumption
        <3>2. q[i] = Cell("param", C + 1, i - HdrLen)
            BY <3>1, <1>4
        <3> QED
            BY <3>2 DEF Cell
    <2> QED
        BY <2>1, <2>2
<1>8. ASSUME NEW j \in 1 .. Len(wire'["request"])
      PROVE  \/ j \in 1 .. Len(w) /\ wire'["request"][j] = w[j]
             \/ wire'["request"][j].n = C + 1
    <2>1. CASE j \in 1 .. Len(w)
        BY <2>1, <1>6
    <2>2. CASE j \notin 1 .. Len(w)
        <3>1. j - Len(w) \in 1 .. k /\ Len(w) + (j - Len(w)) = j
            BY <2>2, <1>3, <1>4, <1>5, <1>6
        <3> QED
            BY <3>1, <1>7
    <2> QED
        BY <2>1, <2>2
<1>9. RpcTypeOK'
    BY <1>1, <1>3, <1>6 DEF RpcInv, RpcTypeOK, C
<1>10. OfCalls'
    <2>1. \A j \in 1 .. Len(wire'["request"]) : wire'["request"][j].n \in 1 .. C + 1
        <3> SUFFICES ASSUME NEW j \in 1 .. Len(wire'["request"])
                     PROVE  wire'["request"][j].n \in 1 .. C + 1
            OBVIOUS
        <3>1. CASE j \in 1 .. Len(w) /\ wire'["request"][j] = w[j]
            <4>1. w[j].n \in 1 .. C
                BY <3>1 DEF RpcInv, OfCalls, C, w
            <4> QED
                BY <3>1, <4>1, <1>3
        <3>2. CASE wire'["request"][j].n = C + 1
            BY <3>2, <1>3
        <3> QED
            BY <3>1, <3>2, <1>8
    <2>2. \A i \in 1 .. Len(executed) : executed[i].call \in 1 .. C + 1
        <3>1. \A i \in 1 .. Len(executed) : executed[i].call \in 1 .. C
            BY DEF RpcInv, OfCalls, C
        <3> QED
            BY <3>1, <1>3
    <2> QED
        BY <2>1, <2>2, <1>1, <1>3 DEF OfCalls
<1>11. HangUps'
    BY <1>1 DEF RpcInv, HangUps
<1>12. OwnValues' /\ OnceEach'
    BY <1>1, <1>3 DEF RpcInv, OwnValues, OnceEach, C
<1>13. RejectedOnlyIf'
    <2>1. \A c \in rejected \ {0} : calls'[c] = calls[c]
        BY <1>3 DEF RpcInv, RpcTypeOK, C
    <2> QED
        BY <2>1, <1>1 DEF RpcInv, RejectedOnlyIf
<1>14. RpcInStep'
    <2> SUFFICES ASSUME Returned(results, Len(results)) PROVE NotYetExecuted'
        BY <1>1 DEF RpcInStep
    <2>1. AtRest
        BY <1>1 DEF RpcInv, RpcInStep
    <2>2. wire'["reply"] = <<>>
        BY <2>1, <1>6 DEF AtRest
    <2>3. \A i \in 1 .. Len(executed) : executed[i].call # C + 1
        BY <1>3 DEF RpcInv, OfCalls, C
    <2>4. CASE server.pc = "header"
        <3>1. Len(w) = 0
            BY <2>1, <2>4, EmptySeq DEF AtRest, w
        <3>2. Len(wire'["request"]) = k /\ \A i \in 1 .. k : wire'["request"][i] = q[i]
            BY <3>1, <1>5, <1>6
        <3>3. IsBeginning(wire'["request"], q)
            BY <3>2, <1>4, <1>5 DEF IsBeginning
        <3>4. ~env.shortSend => Len(wire'["request"]) = HdrLen + f.params
            BY <3>2, <1>4, <1>5
        <3> QED
            BY <2>2, <2>3, <2>4, <3>3, <3>4, <1>1, <1>3 DEF NotYetExecuted, q
    <2>5. CASE server.pc = "stopped"
        BY <2>2, <2>3, <2>5, <1>1, <1>3 DEF NotYetExecuted
    <2> QED
        BY <2>1, <2>4, <2>5 DEF RpcInv, RpcTypeOK, AtRest
<1>15. Settled'
    <2> SUFFICES ASSUME NEW c \in 1 .. C, Returned(results, c), server.pc # "stopped"
                 PROVE  /\ server.pc = "params" => server.call # c
                        /\ \A i \in 1 .. Len(wire'["request"]) : wire'["request"][i].n # c
        BY <1>1 DEF Settled
    <2>1. server.pc = "params" => server.call # c
        BY <1>1 DEF RpcInv, Settled
    <2>2. \A i \in 1 .. Len(w) : w[i].n # c
        BY <1>1 DEF RpcInv, Settled, w
    <2>3. c # C + 1
        BY <1>3
    <2> QED
        BY <2>1, <2>2, <2>3, <1>8
<1>16. ThrowsAtTheEnd'
    BY <1>1 DEF RpcInv, ThrowsAtTheEnd
<1>17. WholeRequests'
    <2> SUFFICES ASSUME env.blocking, ~env.shortSend, server.pc # "stopped"
                 PROVE  /\ server.pc = "header"
                        /\ wire'["request"] = Request(C + 1, calls'[C + 1])
                        /\ C + 1 \in 1 .. Len(calls')
        BY <1>1 DEF WholeRequests
    <2>1. AtRest
        BY <1>1 DEF RpcInv, RpcInStep, ThrowsAtTheEnd
    <2>2. server.pc = "header" /\ Len(w) = 0
        BY <2>1, EmptySeq DEF AtRest, RpcInv, RpcTypeOK, w
    <2>3. Len(wire'["request"]) = Len(q) /\ \A i \in 1 .. Len(q) : wire'["request"][i] = q[i]
        BY <2>2, <1>4, <1>5, <1>6, HdrLenAssumption
    <2>4. wire'["request"] = q
        BY <2>3, <1>4, <1>6, SeqEqual
    <2>5. C + 1 \in 1 .. Len(calls')
        BY <1>3
    <2> QED
        BY <2>2, <2>4, <2>5, <1>3 DEF q
<1> QED
    BY <1>9, <1>10, <1>11, <1>12, <1>13, <1>14, <1>15, <1>16, <1>17 DEF RpcInv

LEMMA CallInv ==
    ASSUME RpcInv, NEW f \in Functions, Call(f)
    PROVE  RpcInv'
<1>1. CASE Throw /\ UNCHANGED wire
    <2>1. /\ client \in {"idle", "broken"} /\ calls' = Append(calls, f)
          /\ UNCHANGED <<wire, hungUp, env, server, executed, rejected, failed>>
          /\ calls \in Seq(Functions) /\ Len(calls) = Len(results)
        BY <1>1 DEF Call, RpcInv, RpcTypeOK
    <2>2. /\ calls' \in Seq(Functions) /\ Len(calls') = Len(calls) + 1
          /\ \A c \in 1 .. Len(calls) : calls'[c] = calls[c]
        BY <2>1, AppendProperties
    <2> QED
        BY <1>1, <2>1, <2>2, ThrowInv
<1>2. CASE ~(Throw /\ UNCHANGED wire)
    BY <1>2, CallSentInv, Zenon DEF Call
<1> QED
    BY <1>1, <1>2


-----------------------------------------------------------------------------
(* RPC: the server.                                                        *)

\* What is left on the wire when the server has received k cells.
LEMMA RequestWireShrinks ==
    ASSUME RpcInv, NEW k \in 0 .. Len(wire["request"]),
           wire'["request"] = SubSeq(wire["request"], k + 1, Len(wire["request"]))
    PROVE  /\ wire'["request"] \in Seq(PlainCell)
           /\ Len(wire'["request"]) = Len(wire["request"]) - k
           /\ \A i \in 1 .. Len(wire'["request"]) :
                 /\ k + i \in 1 .. Len(wire["request"])
                 /\ wire'["request"][i] = wire["request"][k + i]
                 /\ wire'["request"][i].n \in 1 .. Len(calls)
           /\ \A c \in 1 .. Len(results) :
                 Returned(results, c) /\ server.pc # "stopped"
                    => \A i \in 1 .. Len(wire'["request"]) : wire'["request"][i].n # c
<1> DEFINE w == wire["request"]
           v == wire'["request"]
<1>1. w \in Seq(PlainCell) /\ k \in 0 .. Len(w) /\ v = SubSeq(w, k + 1, Len(w))
    BY DEF RpcInv, RpcTypeOK
<1>2. \A i \in 1 .. Len(w) : w[i].n \in 1 .. Len(calls)
    BY DEF RpcInv, OfCalls
<1>3. \A c \in 1 .. Len(results) :
         Returned(results, c) /\ server.pc # "stopped" => \A i \in 1 .. Len(w) : w[i].n # c
    BY DEF RpcInv, Settled
<1> HIDE DEF w, v
<1>4. /\ v \in Seq(PlainCell) /\ Len(v) = Len(w) - k /\ Len(w) \in Nat /\ k \in Nat
      /\ \A i \in 1 .. Len(w) - k : v[i] = w[k + i]
    BY <1>1, ReceiveSeq
<1>5. \A i \in 1 .. Len(v) : k + i \in 1 .. Len(w) /\ v[i] = w[k + i]
    BY <1>1, <1>4
<1>6. \A i \in 1 .. Len(v) : v[i].n \in 1 .. Len(calls)
    BY <1>2, <1>5
<1>7. \A c \in 1 .. Len(results) :
         Returned(results, c) /\ server.pc # "stopped" => \A i \in 1 .. Len(v) : v[i].n # c
    BY <1>3, <1>5
<1> QED
    BY <1>4, <1>5, <1>6, <1>7 DEF w, v

\* The handler of invalid requests is called.
LEMMA InvalidRequestInv ==
    ASSUME RpcInv, server.pc # "stopped", NEW c \in 0 .. Len(calls), InvalidRequest(c),
           UNCHANGED <<hungUp, env, client, calls, results, executed, failed>>,
           NEW k \in 0 .. Len(wire["request"]),
           wire'["request"] = SubSeq(wire["request"], k + 1, Len(wire["request"])),
           wire'["reply"] = wire["reply"], DOMAIN wire' = Directions,
           env.blocking /\ ~env.shortSend /\ c # 0
              => ~calls[c].known \/ calls[c].params = MAX_PARAM_COUNT,
           env.blocking /\ ~env.shortSend =>
              /\ c = 0 => rejected # {}
              /\ \A i \in 1 .. Len(wire["request"]) : i > k => wire["request"][i].tag = "param",
           Returned(results, Len(results)) =>
              /\ client = "reply" /\ wire["reply"] = <<>>
              /\ \A i \in 1 .. Len(executed) : executed[i].call # Len(calls)
              /\ \A i \in 1 .. Len(wire["request"]) : i > k => wire["request"][i].tag = "param"
    PROVE  RpcInv'
<1>1. /\ wire'["request"] \in Seq(PlainCell)
      /\ \A i \in 1 .. Len(wire'["request"]) :
            /\ k + i \in 1 .. Len(wire["request"])
            /\ wire'["request"][i] = wire["request"][k + i]
            /\ wire'["request"][i].n \in 1 .. Len(calls)
      /\ \A b \in 1 .. Len(results) :
            Returned(results, b)
               => \A i \in 1 .. Len(wire'["request"]) : wire'["request"][i].n # b
    BY RequestWireShrinks
<1>2. server'.pc \in {"header", "stopped"} /\ rejected' = rejected \cup {c}
    BY DEF InvalidRequest, NextRequest, Stop
<1>3. RpcTypeOK'
    BY <1>1, <1>2 DEF RpcInv, RpcTypeOK
<1>4. OfCalls'
    BY <1>1 DEF RpcInv, OfCalls
<1>5. HangUps' /\ OwnValues' /\ OnceEach'
    BY <1>2 DEF RpcInv, HangUps, OwnValues, OnceEach
<1>6. RejectedOnlyIf'
    <2>1. rejected' # {} /\ (rejected' = {0} => c = 0 /\ rejected \subseteq {0})
        BY <1>2
    <2>2. rejected' # {0} \/ ~(env.blocking /\ ~env.shortSend)
        BY <2>1 DEF RpcInv, RejectedOnlyIf
    <2> QED
        BY <1>2, <2>1, <2>2 DEF RpcInv, RejectedOnlyIf
<1>7. ASSUME \A i \in 1 .. Len(wire["request"]) : i > k => wire["request"][i].tag = "param"
       PROVE  \A i \in 1 .. Len(wire'["request"]) : wire'["request"][i].tag = "param"
    <2> SUFFICES ASSUME NEW i \in 1 .. Len(wire'["request"]) PROVE wire["request"][k + i].tag = "param"
        BY <1>1
    <2>1. Len(wire["request"]) \in Nat /\ Len(wire'["request"]) \in Nat
        BY <1>1, LenProperties DEF RpcInv, RpcTypeOK
    <2>2. k + i > k
        BY <2>1
    <2> QED
        BY <2>2, <1>1, <1>7
<1>8. RpcInStep'
    <2> SUFFICES ASSUME Returned(results, Len(results)) PROVE client = "reply" /\ NotYetExecuted'
        BY DEF RpcInStep
    <2> QED
        BY <1>2, <1>7 DEF NotYetExecuted
<1>9. Settled'
    BY <1>1, <1>2 DEF Settled
<1>10. ThrowsAtTheEnd'
    BY DEF RpcInv, ThrowsAtTheEnd
<1>11. WholeRequests'
    <2>1. rejected' # {}
        BY <1>2
    <2> QED
        BY <2>1, <1>2, <1>7 DEF WholeRequests
<1> QED
    BY <1>3, <1>4, <1>5, <1>6, <1>8, <1>9, <1>10, <1>11 DEF RpcInv

LEMMA NextIndex ==
    ASSUME NEW m \in Nat
    PROVE  /\ m + 1 \in 1 .. m + 1 /\ m + 1 \notin 1 .. m
           /\ \A h \in 1 .. m + 1 : h \in 1 .. m \/ h = m + 1
           /\ \A h \in 1 .. m : h \in 1 .. m + 1 /\ h # m + 1
OBVIOUS

\* Call c is executed with args and its reply, or the beginning of it, sent.
LEMMA InvokeInv ==
    ASSUME RpcInv, server.pc # "stopped", NEW c \in 1 .. Len(calls), NEW args \in Seq(PlainCell),
           executed' = Append(executed, [call |-> c, args |-> args]),
           UNCHANGED <<hungUp, env, client, calls, results, rejected>>,
           server'.pc \in {"header", "stopped"},
           IF server'.pc = "stopped" THEN failed' ELSE UNCHANGED failed,
           NEW k \in 0 .. Len(wire["request"]),
           wire'["request"] = SubSeq(wire["request"], k + 1, Len(wire["request"])),
           NEW j \in 0 .. Len(Reply(c, args)),
           wire'["reply"] = wire["reply"] \o SubSeq(Reply(c, args), 1, j),
           DOMAIN wire' = Directions,
           \A b \in 1 .. Len(results) : Returned(results, b) => b # c,
           env.blocking /\ ~env.shortSend => k = Len(wire["request"]),
           Returned(results, Len(results)) =>
              /\ client = "reply" /\ c = Len(calls) /\ wire["reply"] = <<>>
              /\ \A i \in 1 .. Len(executed) : executed[i].call # c
              /\ k = Len(wire["request"])
              /\ args = ArgumentsIn(env.order, Cells("param", c, calls[c].params))
    PROVE  RpcInv'
<1> DEFINE E == Len(executed)
           e == [call |-> c, args |-> args]
           r == ReplyOf(calls[c], c, args)
<1>1. /\ wire'["request"] \in Seq(PlainCell)
      /\ Len(wire'["request"]) = Len(wire["request"]) - k
      /\ \A i \in 1 .. Len(wire'["request"]) :
            /\ k + i \in 1 .. Len(wire["request"])
            /\ wire'["request"][i] = wire["request"][k + i]
            /\ wire'["request"][i].n \in 1 .. Len(calls)
      /\ \A b \in 1 .. Len(results) :
            Returned(results, b)
               => \A i \in 1 .. Len(wire'["request"]) : wire'["request"][i].n # b
    BY RequestWireShrinks
<1>2. executed' = Append(executed, e)
    OBVIOUS
<1>3. /\ calls \in Seq(Functions) /\ Len(calls) \in Nat /\ c \in Nat /\ calls[c] \in Functions
      /\ Len(wire["request"]) \in Nat
    <2>1. calls \in Seq(Functions) /\ wire["request"] \in Seq(PlainCell)
        BY DEF RpcInv, RpcTypeOK
    <2>2. Len(calls) \in Nat /\ Len(wire["request"]) \in Nat
        BY <2>1, LenProperties
    <2> QED
        BY <2>1, <2>2, ElementOfSeq
<1>4. /\ E \in Nat /\ Len(executed') = E + 1
      /\ executed' \in Seq([call : Nat, args : Seq(PlainCell)])
      /\ \A i \in 1 .. E : executed'[i].call = executed[i].call
      /\ executed'[E + 1].call = c
    <2>1. executed \in Seq([call : Nat, args : Seq(PlainCell)]) /\ e \in [call : Nat, args : Seq(PlainCell)]
        BY <1>3 DEF RpcInv, RpcTypeOK
    <2>2. e.call = c
        OBVIOUS
    <2> HIDE DEF e
    <2>3. /\ E \in Nat /\ Len(executed') = E + 1
          /\ executed' \in Seq([call : Nat, args : Seq(PlainCell)])
          /\ \A i \in 1 .. E : executed'[i] = executed[i]
          /\ executed'[E + 1] = e
        BY <2>1, <1>2, AppendProperties, LenProperties
    <2> QED
        BY <2>2, <2>3
<1> HIDE DEF E, e
<1>5. r \in Seq(ReplyCell) /\ Len(r) = IF calls[c].void THEN 1 ELSE RetLen
    BY <1>3, ReplySeq
<1>6. Reply(c, args) = r
    BY DEF Reply, ReplyOf
<1> HIDE DEF r
<1>7. /\ wire'["reply"] = wire["reply"] \o SubSeq(r, 1, j) /\ wire["reply"] \in Seq(ReplyCell)
      /\ j \in 0 .. Len(r)
    <2>1. j \in 0 .. Len(r) /\ wire'["reply"] = wire["reply"] \o SubSeq(r, 1, j)
        BY <1>6, Zenon
    <2> QED
        BY <2>1 DEF RpcInv, RpcTypeOK
<1>8. /\ wire'["reply"] \in Seq(ReplyCell)
      /\ Len(wire["reply"]) \in Nat /\ Len(wire'["reply"]) = Len(wire["reply"]) + j
      /\ \A i \in 1 .. j : wire'["reply"][Len(wire["reply"]) + i] = r[i]
    <2> DEFINE p == wire["reply"]
    <2> HIDE DEF p
    <2>1. p \in Seq(ReplyCell) /\ wire'["reply"] = p \o SubSeq(r, 1, j)
        BY <1>7 DEF p
    <2>2. /\ p \o SubSeq(r, 1, j) \in Seq(ReplyCell)
          /\ Len(p) \in Nat /\ Len(p \o SubSeq(r, 1, j)) = Len(p) + j
          /\ \A i \in 1 .. j : (p \o SubSeq(r, 1, j))[Len(p) + i] = r[i]
        <3>1. r \in Seq(ReplyCell) /\ p \in Seq(ReplyCell) /\ j \in 0 .. Len(r)
            BY <2>1, <1>5, <1>7
        <3> QED
            BY <3>1, SendSeq, SMTT(30)
    <2> QED
        BY <2>1, <2>2 DEF p
<1>9. RpcTypeOK'
    BY <1>1, <1>2, <1>4, <1>8 DEF RpcInv, RpcTypeOK
<1>10. OfCalls'
    <2>1. \A i \in 1 .. E + 1 : executed'[i].call \in 1 .. Len(calls)
        <3> SUFFICES ASSUME NEW i \in 1 .. E + 1 PROVE executed'[i].call \in 1 .. Len(calls)
            OBVIOUS
        <3>1. CASE i \in 1 .. E
            BY <3>1, <1>4 DEF RpcInv, OfCalls, E
        <3>2. CASE i = E + 1
            BY <3>2, <1>4
        <3> QED
            BY <3>1, <3>2, <1>4
    <2> QED
        BY <2>1, <1>1, <1>4 DEF OfCalls
<1>11. HangUps' /\ OwnValues'
    BY DEF RpcInv, HangUps, OwnValues
<1>12. OnceEach'
    <2> SUFFICES ASSUME NEW b \in 1 .. Len(results), Returned(results, b),
                        results[b].outcome = "value" \/ ~hungUp["reply"]
                 PROVE  Once(executed', b)
        BY DEF OnceEach
    <2>1. PICK i \in 1 .. E : \A h \in 1 .. E : executed[h].call = b <=> h = i
        BY DEF RpcInv, OnceEach, Once, E
    <2>2. b # c
        OBVIOUS
    <2>3. i \in 1 .. E + 1 /\ i # E + 1
        BY <1>4, NextIndex, Zenon
    <2>4. \A h \in 1 .. E + 1 : h \in 1 .. E \/ h = E + 1
        BY <1>4, NextIndex, Zenon
    <2>5. \A h \in 1 .. E + 1 : executed'[h].call = b <=> h = i
        BY <2>1, <2>2, <2>3, <2>4, <1>4
    <2>6. /\ i \in 1 .. Len(executed')
          /\ \A h \in 1 .. Len(executed') : executed'[h].call = b <=> h = i
        BY <2>3, <2>5, <1>4, Zenon
    <2> QED
        BY <2>6, Zenon DEF Once
<1>13. RejectedOnlyIf'
    BY DEF RpcInv, RejectedOnlyIf
<1>14. RpcInStep'
    <2> SUFFICES ASSUME Returned(results, Len(results)) PROVE client = "reply" /\ ReplyOnTheWay'
        BY DEF RpcInStep
    <2>1. wire'["request"] = <<>>
        BY <1>1, <1>3, EmptySeq
    <2>2. IsBeginning(wire'["reply"], r)
        <3>1. Len(wire["reply"]) = 0
            BY EmptySeq
        <3>2. Len(wire'["reply"]) = j /\ \A i \in 1 .. j : wire'["reply"][i] = r[i]
            <4>1. j \in Nat /\ \A i \in 1 .. j : Len(wire["reply"]) + i = i
                BY <3>1, <1>7
            <4>2. \A i \in 1 .. j : wire'["reply"][i] = r[i]
                BY <4>1, <1>8, Zenon
            <4>3. Len(wire["reply"]) + j = j
                BY <3>1, <4>1
            <4>4. Len(wire'["reply"]) = j
                BY <4>3, <1>8, Zenon
            <4> QED
                BY <4>2, <4>4
        <3>3. j <= Len(r)
            BY <1>5, <1>7 DEF RetLen
        <3> QED
            BY <3>2, <3>3 DEF IsBeginning
    <2>3. Once(executed', c)
        <3>1. \A h \in 1 .. E + 1 : executed'[h].call = c <=> h = E + 1
            <4>1. \A h \in 1 .. E + 1 : h \in 1 .. E \/ h = E + 1
                BY <1>4, NextIndex, Zenon
            <4>2. \A h \in 1 .. E : executed'[h].call # c /\ h # E + 1
                BY <1>4 DEF E
            <4> QED
                BY <4>1, <4>2, <1>4
        <3>2. E + 1 \in 1 .. E + 1
            BY <1>4, NextIndex, Zenon
        <3> QED
            <4>1. E + 1 = Len(executed')
                BY <1>4
            <4>2. /\ E + 1 \in 1 .. Len(executed')
                  /\ \A h \in 1 .. Len(executed') : executed'[h].call = c <=> h = E + 1
                BY <3>1, <3>2, <4>1, Zenon
            <4> QED
                BY <4>2, Zenon DEF Once
    <2> QED
        BY <2>1, <2>2, <2>3, <1>2 DEF ReplyOnTheWay, r
<1>15. Settled'
    BY <1>1, <1>2 DEF Settled
<1>16. ThrowsAtTheEnd'
    BY DEF RpcInv, ThrowsAtTheEnd
<1>17. WholeRequests'
    <2>1. env.blocking /\ ~env.shortSend => wire'["request"] = <<>>
        BY <1>1, <1>3, EmptySeq
    <2> QED
        BY <2>1 DEF WholeRequests
<1> QED
    BY <1>9, <1>10, <1>11, <1>12, <1>13, <1>14, <1>15, <1>16, <1>17 DEF RpcInv


\* The counts of a reception from the client.
LEMMA RequestCounts ==
    ASSUME RpcInv, NEW len \in Nat, NEW k \in ReceiveCounts("request", len, env.blocking)
    PROVE  /\ k \in 0 .. Len(wire["request"]) /\ k <= len
           /\ Len(wire["request"]) \in Nat
           /\ k = 0 /\ len > 0 => hungUp["request"]
           /\ env.blocking /\ k # len => hungUp["request"]
           /\ env.blocking /\ len <= Len(wire["request"]) => k = len
<1>1. Len(wire["request"]) \in Nat
    BY LenProperties DEF RpcInv, RpcTypeOK
<1> QED
    BY <1>1 DEF ReceiveCounts

\* In step, a server that finds something to read at its header finds the last
\* call, or what is left of one that was refused.
LEMMA HeaderInStep ==
    ASSUME RpcInv, server.pc = "header", Returned(results, Len(results))
    PROVE  Len(wire["request"]) > 0 =>
             /\ client = "reply" /\ wire["reply"] = <<>>
             /\ \A i \in 1 .. Len(executed) : executed[i].call # Len(calls)
             /\ \/ /\ IsBeginning(wire["request"], Request(Len(calls), calls[Len(calls)]))
                   /\ ~env.shortSend =>
                         Len(wire["request"]) = HdrLen + calls[Len(calls)].params
                \/ \A i \in 1 .. Len(wire["request"]) : wire["request"][i].tag = "param"
<1> SUFFICES ASSUME Len(wire["request"]) > 0
             PROVE  /\ client = "reply" /\ NotYetExecuted
    BY DEF NotYetExecuted
<1>1. wire["request"] # <<>>
    BY EmptySeq
<1> QED
    BY <1>1 DEF RpcInv, RpcInStep, AtRest, ReplyOnTheWay

\* What the server makes of a header.
LEMMA HeaderFacts ==
    ASSUME RpcInv, server.pc = "header", HdrLen <= Len(wire["request"]),
           NEW c, c = HeaderOf(SubSeq(wire["request"], 1, HdrLen))
    PROVE  /\ c \in 0 .. Len(calls)
           /\ c # 0 => /\ c \in 1 .. Len(calls) /\ calls[c] \in Functions
                       /\ \A b \in 1 .. Len(results) : Returned(results, b) => b # c
                       /\ wire["request"][1] = Cell("header", c, 1)
<1> DEFINE w == wire["request"]
           h == SubSeq(w, 1, HdrLen)
<1>1. w \in Seq(PlainCell) /\ Len(w) \in Nat /\ HdrLen \in 0 .. Len(w) /\ calls \in Seq(Functions)
      /\ Len(calls) \in Nat /\ 1 \in 1 .. HdrLen /\ 1 \in 1 .. Len(w)
    BY LenProperties, HdrLenAssumption DEF RpcInv, RpcTypeOK
<1>2. w[1].n \in 1 .. Len(calls) /\ \A b \in 1 .. Len(results) : Returned(results, b) => w[1].n # b
    BY <1>1 DEF RpcInv, OfCalls, Settled
<1> HIDE DEF w
<1>3. h[1] = w[1]
    BY <1>1, ReceiveSeq
<1>4. CASE c = 0
    BY <1>1, <1>4
<1>5. CASE c # 0
    <2>1. h = Cells("header", h[1].n, HdrLen) /\ c = h[1].n
        BY <1>5 DEF HeaderOf, w
    <2>2. c = w[1].n /\ c \in Nat
        BY <2>1, <1>1, <1>2, <1>3
    <2>3. Cells("header", c, HdrLen)[1] = Cell("header", c, 1)
        BY <1>1 DEF Cells
    <2>4. w[1] = Cell("header", c, 1)
        BY <2>1, <2>3, <1>3
    <2>5. calls[c] \in Functions
        BY <2>2, <1>1, <1>2, ElementOfSeq
    <2>6. c \in 1 .. Len(calls) /\ c \in 0 .. Len(calls)
        BY <2>2, <1>1, <1>2
    <2>7. \A b \in 1 .. Len(results) : Returned(results, b) => b # c
        BY <2>2, <1>2, Zenon
    <2> QED
        BY <2>4, <2>5, <2>6, <2>7, Zenon DEF w
<1> QED
    BY <1>4, <1>5

\* In step, a header that is accepted is that of the last call.
LEMMA HeaderOfLastCall ==
    ASSUME RpcInv, server.pc = "header", HdrLen <= Len(wire["request"]),
           NEW c, c = HeaderOf(SubSeq(wire["request"], 1, HdrLen)), c # 0,
           Returned(results, Len(results))
    PROVE  /\ client = "reply" /\ wire["reply"] = <<>> /\ c = Len(calls)
           /\ \A i \in 1 .. Len(executed) : executed[i].call # c
           /\ Len(wire["request"]) <= HdrLen + calls[c].params
           /\ ~env.shortSend => Len(wire["request"]) = HdrLen + calls[c].params
           /\ \A i \in 1 .. Len(wire["request"]) - HdrLen :
                 wire["request"][HdrLen + i] = Cell("param", c, i)
<1> DEFINE w == wire["request"]
           C == Len(calls)
<1>1. Len(w) \in Nat /\ Len(w) > 0 /\ HdrLen \in Nat /\ 1 \in 1 .. Len(w) /\ 1 \in 1 .. HdrLen
    BY LenProperties, HdrLenAssumption DEF RpcInv, RpcTypeOK
<1>2. c \in 1 .. C /\ calls[c] \in Functions /\ w[1] = Cell("header", c, 1)
    BY HeaderFacts
<1>3. /\ client = "reply" /\ wire["reply"] = <<>>
      /\ \A i \in 1 .. Len(executed) : executed[i].call # C
      /\ \/ IsBeginning(w, Request(C, calls[C])) /\ (~env.shortSend => Len(w) = HdrLen + calls[C].params)
         \/ \A i \in 1 .. Len(w) : w[i].tag = "param"
    BY <1>1, HeaderInStep
<1>4. IsBeginning(w, Request(C, calls[C])) /\ (~env.shortSend => Len(w) = HdrLen + calls[C].params)
    <2>1. w[1].tag = "header"
        BY <1>2 DEF Cell
    <2> QED
        BY <2>1, <1>1, <1>3
<1>5. C \in Nat /\ C \in 1 .. C /\ calls[C] \in Functions
    <2>1. calls \in Seq(Functions) /\ C \in Nat
        BY LenProperties DEF RpcInv, RpcTypeOK
    <2>2. C \in 1 .. C
        BY <2>1, <1>2
    <2> QED
        BY <2>1, <2>2, ElementOfSeq
<1> HIDE DEF C, w
<1>6. /\ calls[C].params \in Nat
      /\ Len(Request(C, calls[C])) = HdrLen + calls[C].params
      /\ \A i \in 1 .. HdrLen : Request(C, calls[C])[i] = Cell("header", C, i)
      /\ \A i \in 1 .. calls[C].params : Request(C, calls[C])[HdrLen + i] = Cell("param", C, i)
    BY <1>5, RequestSeq
<1>7. Len(w) <= HdrLen + calls[C].params /\ \A i \in 1 .. Len(w) : w[i] = Request(C, calls[C])[i]
    BY <1>4, <1>6 DEF IsBeginning
<1>8. c = C
    <2>1. w[1] = Cell("header", C, 1)
        BY <1>1, <1>6, <1>7
    <2> QED
        BY <2>1, <1>2 DEF Cell
<1>9. \A i \in 1 .. Len(w) - HdrLen : w[HdrLen + i] = Cell("param", C, i)
    <2> SUFFICES ASSUME NEW i \in 1 .. Len(w) - HdrLen PROVE w[HdrLen + i] = Cell("param", C, i)
        OBVIOUS
    <2>1. i \in 1 .. calls[C].params /\ HdrLen + i \in 1 .. Len(w)
        BY <1>1, <1>6, <1>7
    <2> QED
        BY <2>1, <1>6, <1>7
<1> QED
    BY <1>3, <1>4, <1>7, <1>8, <1>9 DEF C, w


\* With MSG_WAITALL and whole sends, a header is that of a request that is all
\* there, or garbage that a refused request has left.
LEMMA WholeHeader ==
    ASSUME RpcInv, server.pc = "header", HdrLen <= Len(wire["request"]),
           NEW c, c = HeaderOf(SubSeq(wire["request"], 1, HdrLen)),
           env.blocking, ~env.shortSend
    PROVE  /\ c = 0 => rejected # {}
           /\ c # 0 => Len(wire["request"]) = HdrLen + calls[c].params
           /\ \A i \in 1 .. Len(wire["request"]) : i > HdrLen => wire["request"][i].tag = "param"
<1> DEFINE w == wire["request"]
           h == SubSeq(w, 1, HdrLen)
<1>1. /\ w \in Seq(PlainCell) /\ Len(w) \in Nat /\ HdrLen \in Nat /\ HdrLen > 0
      /\ HdrLen \in 0 .. Len(w) /\ Len(w) > 0
      /\ calls \in Seq(Functions) /\ Len(calls) \in Nat
    BY LenProperties, HdrLenAssumption DEF RpcInv, RpcTypeOK
<1>2. \/ \E b \in 1 .. Len(calls) : w = Request(b, calls[b])
      \/ rejected # {} /\ \A i \in 1 .. Len(w) : w[i].tag = "param"
    BY <1>1, EmptySeq DEF RpcInv, WholeRequests
<1>3. c # 0 => w[1] = Cell("header", c, 1)
    BY HeaderFacts
<1>4. c = HeaderOf(h)
    OBVIOUS
<1> HIDE DEF w
<1>5. h \in Seq(PlainCell) /\ Len(h) = HdrLen /\ \A i \in 1 .. HdrLen : h[i] = w[i]
    BY <1>1, ReceiveSeq
<1> HIDE DEF h
<1>6. CASE rejected # {} /\ \A i \in 1 .. Len(w) : w[i].tag = "param"
    <2>1. c = 0
        <3>1. w[1].tag = "param" /\ Cell("header", c, 1).tag = "header"
            BY <1>1, <1>6 DEF Cell
        <3> QED
            BY <3>1, <1>3
    <2> QED
        BY <1>6, <2>1 DEF w
<1>7. CASE \E b \in 1 .. Len(calls) : w = Request(b, calls[b])
    <2>1. PICK b \in 1 .. Len(calls) : w = Request(b, calls[b])
        BY <1>7
    <2>2. b \in Nat /\ b # 0 /\ calls[b] \in Functions
        BY <1>1, ElementOfSeq
    <2> DEFINE n == calls[b].params
    <2>3. /\ n \in Nat /\ Len(w) = HdrLen + n
          /\ \A i \in 1 .. HdrLen : w[i] = Cell("header", b, i)
          /\ \A i \in 1 .. n : w[HdrLen + i] = Cell("param", b, i)
        BY <2>1, <2>2, RequestSeq, Zenon
    <2> HIDE DEF n
    <2>4. c = b
        <3>1. /\ Cells("header", b, HdrLen) \in Seq(PlainCell) /\ Len(Cells("header", b, HdrLen)) = HdrLen
              /\ \A i \in 1 .. HdrLen : Cells("header", b, HdrLen)[i] = Cell("header", b, i)
            BY <1>1, <2>2, CellsSeq
        <3>2. \A i \in 1 .. Len(h) : h[i] = Cells("header", b, HdrLen)[i]
            BY <3>1, <2>3, <1>5
        <3>3. h = Cells("header", b, HdrLen)
            BY <3>1, <3>2, <1>5, SeqEqual
        <3>4. h[1].n = b
            <4>1. h[1] = Cell("header", b, 1)
                BY <2>3, <1>1, <1>5
            <4> QED
                BY <4>1 DEF Cell
        <3> QED
            BY <3>3, <3>4, <1>4 DEF HeaderOf
    <2>5. \A i \in 1 .. Len(w) : i > HdrLen => w[i].tag = "param"
        <3> SUFFICES ASSUME NEW i \in 1 .. Len(w), i > HdrLen PROVE w[i].tag = "param"
            OBVIOUS
        <3>1. i - HdrLen \in 1 .. n /\ HdrLen + (i - HdrLen) = i
            BY <2>3, <1>1
        <3>2. w[HdrLen + (i - HdrLen)] = Cell("param", b, i - HdrLen)
            BY <3>1, <2>3
        <3> QED
            BY <3>1, <3>2 DEF Cell
    <2> QED
        BY <2>2, <2>3, <2>4, <2>5 DEF w, n
<1> QED
    BY <1>2, <1>6, <1>7

\* While the client waits, there is a last call.
LEMMA LastCall ==
    ASSUME RpcInv, client = "reply"
    PROVE  /\ Len(calls) \in Nat /\ Len(calls) \in 1 .. Len(calls)
           /\ Len(calls) = Len(results) + 1 /\ calls[Len(calls)] \in Functions
<1>1. /\ calls \in Seq(Functions) /\ Len(calls) \in Nat /\ Len(results) \in Nat
      /\ Len(calls) = Len(results) + 1
    BY LenProperties DEF RpcInv, RpcTypeOK
<1>2. Len(calls) \in 1 .. Len(calls)
    BY <1>1
<1> QED
    BY <1>1, <1>2, ElementOfSeq

LEMMA RequestReceived ==
    ASSUME RpcInv, NEW k, Receive("request", k)
    PROVE  /\ wire'["request"] = SubSeq(wire["request"], k + 1, Len(wire["request"]))
           /\ wire'["reply"] = wire["reply"] /\ DOMAIN wire' = Directions
BY Zenon DEF RpcInv, RpcTypeOK, Receive, Directions

\* The reception of a header ends early: run() ends.
LEMMA HeaderCutShort ==
    ASSUME RpcInv, server.pc = "header",
           NEW k \in ReceiveCounts("request", HdrLen, env.blocking), k # HdrLen,
           Receive("request", k), Stop,
           UNCHANGED <<hungUp, env, client, calls, results, executed, rejected, failed>>
    PROVE  RpcInv'
<1>0. HdrLen \in Nat /\ HdrLen > 0
    BY HdrLenAssumption
<1>1. /\ k \in 0 .. Len(wire["request"]) /\ k <= HdrLen
      /\ k = 0 => hungUp["request"]
      /\ env.blocking => hungUp["request"]
    BY <1>0, RequestCounts
<1>2. /\ wire'["request"] = SubSeq(wire["request"], k + 1, Len(wire["request"]))
      /\ wire'["reply"] = wire["reply"] /\ DOMAIN wire' = Directions
    BY RequestReceived
<1>3. /\ wire'["request"] \in Seq(PlainCell)
      /\ \A i \in 1 .. Len(wire'["request"]) : wire'["request"][i].n \in 1 .. Len(calls)
    BY <1>1, <1>2, RequestWireShrinks
<1>4. server'.pc = "stopped"
    BY DEF Stop
<1>5. RpcTypeOK' /\ OfCalls'
    BY <1>2, <1>3, <1>4 DEF RpcInv, RpcTypeOK, OfCalls
<1>6. HangUps' /\ OwnValues' /\ OnceEach'
    BY <1>4 DEF RpcInv, HangUps, OwnValues, OnceEach
<1>7. RejectedOnlyIf'
    BY <1>1, <1>4 DEF RpcInv, RejectedOnlyIf
<1>8. RpcInStep'
    <2> SUFFICES ASSUME Returned(results, Len(results))
                 PROVE  IF client = "reply" THEN NotYetExecuted' ELSE AtRest'
        BY DEF RpcInStep
    <2>1. IF client = "reply" THEN NotYetExecuted \/ ReplyOnTheWay ELSE AtRest
        BY DEF RpcInv, RpcInStep
    <2>2. client = "reply" => ~ReplyOnTheWay
        <3> SUFFICES ASSUME client = "reply", ReplyOnTheWay PROVE FALSE
            OBVIOUS
        <3>1. k = 0
            BY <1>1, EmptySeq DEF ReplyOnTheWay
        <3> QED
            BY <3>1, <1>1 DEF RpcInv, HangUps
    <2> QED
        BY <2>1, <2>2, <1>2, <1>4 DEF NotYetExecuted, AtRest
<1>9. Settled' /\ ThrowsAtTheEnd' /\ WholeRequests'
    BY <1>4 DEF Settled, ThrowsAtTheEnd, WholeRequests
<1> QED
    BY <1>5, <1>6, <1>7, <1>8, <1>9 DEF RpcInv

\* A header that is refused.
LEMMA HeaderRefused ==
    ASSUME RpcInv, server.pc = "header", HdrLen <= Len(wire["request"]),
           NEW c, c = HeaderOf(SubSeq(wire["request"], 1, HdrLen)),
           IF CheckIntegrity(c) THEN ~calls[c].known ELSE TRUE,
           Receive("request", HdrLen), InvalidRequest(c),
           UNCHANGED <<hungUp, env, client, calls, results, executed, failed>>
    PROVE  RpcInv'
<1> DEFINE w == wire["request"]
           C == Len(calls)
<1>0. HdrLen \in Nat /\ HdrLen > 0 /\ Len(w) \in Nat /\ HdrLen \in 0 .. Len(w) /\ Len(w) > 0
    BY HdrLenAssumption, LenProperties DEF RpcInv, RpcTypeOK
<1>1. /\ c \in 0 .. C
      /\ c # 0 => c \in 1 .. C /\ calls[c] \in Functions
    BY HeaderFacts
<1>2. c # 0 => ~calls[c].known \/ calls[c].params = MAX_PARAM_COUNT
    <2> SUFFICES ASSUME c # 0, calls[c].known PROVE calls[c].params = MAX_PARAM_COUNT
        OBVIOUS
    <2>1. ~(calls[c].params < MAX_PARAM_COUNT)
        BY DEF CheckIntegrity
    <2>2. calls[c].params \in 0 .. MAX_PARAM_COUNT /\ MAX_PARAM_COUNT \in Nat
        BY <1>1, FunctionsAssumption
    <2> QED
        BY <2>1, <2>2
<1>3. /\ wire'["request"] = SubSeq(wire["request"], HdrLen + 1, Len(wire["request"]))
      /\ wire'["reply"] = wire["reply"] /\ DOMAIN wire' = Directions
    BY RequestReceived
<1>4. ASSUME Returned(results, Len(results))
      PROVE  /\ client = "reply" /\ wire["reply"] = <<>>
             /\ \A i \in 1 .. Len(executed) : executed[i].call # C
             /\ \A i \in 1 .. Len(w) : i > HdrLen => w[i].tag = "param"
    <2>1. /\ client = "reply" /\ wire["reply"] = <<>>
          /\ \A i \in 1 .. Len(executed) : executed[i].call # C
          /\ \/ IsBeginning(w, Request(C, calls[C]))
             \/ \A i \in 1 .. Len(w) : w[i].tag = "param"
        BY <1>0, <1>4, HeaderInStep
    <2>2. CASE IsBeginning(w, Request(C, calls[C]))
        <3>1. C \in Nat /\ calls[C] \in Functions
            BY <2>1, LastCall
        <3> HIDE DEF C, w
        <3>2. /\ calls[C].params \in Nat /\ Len(Request(C, calls[C])) = HdrLen + calls[C].params
              /\ \A i \in 1 .. calls[C].params : Request(C, calls[C])[HdrLen + i] = Cell("param", C, i)
            BY <3>1, RequestSeq
        <3>3. \A i \in 1 .. Len(w) : i > HdrLen => w[i].tag = "param"
            <4> SUFFICES ASSUME NEW i \in 1 .. Len(w), i > HdrLen PROVE w[i].tag = "param"
                OBVIOUS
            <4>1. w[i] = Request(C, calls[C])[i] /\ Len(w) <= HdrLen + calls[C].params
                BY <2>2, <3>2 DEF IsBeginning
            <4>2. i - HdrLen \in 1 .. calls[C].params /\ HdrLen + (i - HdrLen) = i
                BY <4>1, <3>2, <1>0
            <4>3. Request(C, calls[C])[HdrLen + (i - HdrLen)] = Cell("param", C, i - HdrLen)
                BY <3>2, <4>2
            <4> QED
                BY <4>1, <4>2, <4>3 DEF Cell
        <3> QED
            BY <2>1, <3>3
    <2> QED
        BY <2>1, <2>2
<1>5. env.blocking /\ ~env.shortSend =>
         /\ c = 0 => rejected # {}
         /\ \A i \in 1 .. Len(w) : i > HdrLen => w[i].tag = "param"
    BY WholeHeader
<1> QED
    BY <1>0, <1>1, <1>2, <1>3, <1>4, <1>5, InvalidRequestInv

\* A header that is accepted, of a call with parameters.
LEMMA HeaderAccepted ==
    ASSUME RpcInv, server.pc = "header", HdrLen <= Len(wire["request"]),
           NEW c, c = HeaderOf(SubSeq(wire["request"], 1, HdrLen)), c # 0,
           Receive("request", HdrLen), server' = [pc |-> "params", call |-> c],
           UNCHANGED <<hungUp, env, client, calls, results, executed, rejected, failed>>
    PROVE  RpcInv'
<1>0. HdrLen \in Nat /\ Len(wire["request"]) \in Nat /\ HdrLen \in 0 .. Len(wire["request"])
    BY HdrLenAssumption, LenProperties DEF RpcInv, RpcTypeOK
<1>1. /\ c \in 1 .. Len(calls) /\ calls[c] \in Functions
      /\ \A b \in 1 .. Len(results) : Returned(results, b) => b # c
    BY HeaderFacts
<1>2. /\ wire'["request"] = SubSeq(wire["request"], HdrLen + 1, Len(wire["request"]))
      /\ wire'["reply"] = wire["reply"] /\ DOMAIN wire' = Directions
    BY RequestReceived
<1>3. /\ wire'["request"] \in Seq(PlainCell)
      /\ Len(wire'["request"]) = Len(wire["request"]) - HdrLen
      /\ \A i \in 1 .. Len(wire'["request"]) :
            /\ wire'["request"][i] = wire["request"][HdrLen + i]
            /\ wire'["request"][i].n \in 1 .. Len(calls)
      /\ \A b \in 1 .. Len(results) :
            Returned(results, b) => \A i \in 1 .. Len(wire'["request"]) : wire'["request"][i].n # b
    BY <1>0, <1>2, RequestWireShrinks
<1>4. server'.pc = "params" /\ server'.call = c
    OBVIOUS
<1>5. RpcTypeOK' /\ OfCalls'
    BY <1>1, <1>2, <1>3, <1>4 DEF RpcInv, RpcTypeOK, OfCalls
<1>6. HangUps' /\ OwnValues' /\ OnceEach' /\ RejectedOnlyIf' /\ ThrowsAtTheEnd'
    BY <1>4 DEF RpcInv, HangUps, OwnValues, OnceEach, RejectedOnlyIf, ThrowsAtTheEnd
<1>7. Settled'
    BY <1>1, <1>3, <1>4 DEF Settled
<1>8. RpcInStep'
    <2> SUFFICES ASSUME Returned(results, Len(results)) PROVE client = "reply" /\ NotYetExecuted'
        BY DEF RpcInStep
    <2> DEFINE n == calls[c].params
    <2>1. /\ client = "reply" /\ wire["reply"] = <<>> /\ c = Len(calls)
          /\ \A i \in 1 .. Len(executed) : executed[i].call # c
          /\ Len(wire["request"]) <= HdrLen + n
          /\ ~env.shortSend => Len(wire["request"]) = HdrLen + n
          /\ \A i \in 1 .. Len(wire["request"]) - HdrLen : wire["request"][HdrLen + i] = Cell("param", c, i)
        BY HeaderOfLastCall
    <2>2. n \in Nat /\ c \in Nat
        BY <1>1, FunctionsAssumption
    <2> HIDE DEF n
    <2>3. /\ Len(Cells("param", c, n)) = n
          /\ \A i \in 1 .. n : Cells("param", c, n)[i] = Cell("param", c, i)
        BY <2>2, CellsSeq
    <2>4. Len(wire'["request"]) <= n /\ (~env.shortSend => Len(wire'["request"]) = n)
        BY <2>1, <2>2, <1>0, <1>3
    <2>5. \A i \in 1 .. Len(wire'["request"]) : wire'["request"][i] = Cells("param", c, n)[i]
        <3> SUFFICES ASSUME NEW i \in 1 .. Len(wire'["request"])
                     PROVE  wire'["request"][i] = Cells("param", c, n)[i]
            OBVIOUS
        <3>1. i \in 1 .. n /\ i \in 1 .. Len(wire["request"]) - HdrLen
            BY <2>2, <2>4, <1>0, <1>3
        <3> QED
            BY <3>1, <2>1, <2>3, <1>3
    <2>6. IsBeginning(wire'["request"], Cells("param", c, n))
        BY <2>3, <2>4, <2>5 DEF IsBeginning
    <2> QED
        BY <2>1, <2>4, <2>6, <1>2, <1>4 DEF NotYetExecuted, n
<1>9. WholeRequests'
    <2> SUFFICES ASSUME env.blocking, ~env.shortSend
                 PROVE  /\ Len(wire'["request"]) = calls[c].params
                        /\ \A i \in 1 .. Len(wire'["request"]) : wire'["request"][i].tag = "param"
        BY <1>4 DEF WholeRequests
    <2>1. /\ Len(wire["request"]) = HdrLen + calls[c].params
          /\ \A i \in 1 .. Len(wire["request"]) : i > HdrLen => wire["request"][i].tag = "param"
        BY WholeHeader
    <2>2. calls[c].params \in Nat
        BY <1>1, FunctionsAssumption
    <2>3. \A i \in 1 .. Len(wire'["request"]) :
             HdrLen + i \in 1 .. Len(wire["request"]) /\ HdrLen + i > HdrLen
        BY <1>0, <1>3
    <2>4. Len(wire'["request"]) = calls[c].params
        BY <2>1, <2>2, <1>0, <1>3
    <2>5. \A i \in 1 .. Len(wire'["request"]) : wire["request"][HdrLen + i].tag = "param"
        BY <2>1, <2>3, Zenon
    <2> QED
        BY <2>4, <2>5, <1>3, Zenon
<1> QED
    BY <1>5, <1>6, <1>7, <1>8, <1>9 DEF RpcInv

\* What an invocation does to the two directions: some of the reply is sent, or
\* nothing when the function or the socket fails.
LEMMA Invoked ==
    ASSUME RpcInv, NEW c \in 1 .. Len(calls), NEW k, NEW args \in Seq(PlainCell), Invoke(c, k, args)
    PROVE  /\ executed' = Append(executed, [call |-> c, args |-> args]) /\ UNCHANGED rejected
           /\ server'.pc \in {"header", "stopped"}
           /\ IF server'.pc = "stopped" THEN failed' ELSE UNCHANGED failed
           /\ wire'["request"] = SubSeq(wire["request"], k + 1, Len(wire["request"]))
           /\ DOMAIN wire' = Directions
           /\ \E j \in 0 .. Len(Reply(c, args)) :
                 wire'["reply"] = wire["reply"] \o SubSeq(Reply(c, args), 1, j)
<1> DEFINE r == Reply(c, args)
<1>0. executed' = Append(executed, [call |-> c, args |-> args]) /\ UNCHANGED rejected
    BY DEF Invoke
<1>1. DOMAIN wire = Directions /\ "request" \in Directions /\ "reply" \in Directions /\ "request" # "reply"
    BY DEF RpcInv, RpcTypeOK, Directions
<1>2. r \in Seq(ReplyCell) /\ Len(r) \in {1, 2}
    <2>1. c \in Nat /\ calls[c] \in Functions
        <3>1. calls \in Seq(Functions) /\ Len(calls) \in Nat
            BY LenProperties DEF RpcInv, RpcTypeOK
        <3> QED
            BY <3>1, ElementOfSeq
    <2>2. r = ReplyOf(calls[c], c, args)
        BY DEF Reply, ReplyOf
    <2> QED
        BY <2>1, <2>2, ReplySeq DEF RetLen
<1> HIDE DEF r
<1>3. CASE /\ \E j \in SendCounts(Len(r)) :
                wire' = [wire EXCEPT !["request"] = SubSeq(@, k + 1, Len(@)),
                                     !["reply"] = @ \o SubSeq(r, 1, j)]
           /\ NextRequest /\ UNCHANGED failed
    <2>1. PICK j \in SendCounts(Len(r)) :
             wire' = [wire EXCEPT !["request"] = SubSeq(@, k + 1, Len(@)),
                                  !["reply"] = @ \o SubSeq(r, 1, j)]
        BY <1>3
    <2>2. j \in 0 .. Len(r)
        BY <2>1, <1>2 DEF SendCounts
    <2>3. /\ wire'["request"] = SubSeq(wire["request"], k + 1, Len(wire["request"]))
          /\ wire'["reply"] = wire["reply"] \o SubSeq(r, 1, j) /\ DOMAIN wire' = Directions
        BY <2>1, <1>1, Zenon
    <2>4. server'.pc = "header"
        BY <1>3 DEF NextRequest
    <2> QED
        BY <1>0, <1>3, <2>2, <2>3, <2>4 DEF r
<1>4. CASE Receive("request", k) /\ Stop /\ failed' = TRUE
    <2>1. /\ wire'["request"] = SubSeq(wire["request"], k + 1, Len(wire["request"]))
          /\ wire'["reply"] = wire["reply"] /\ DOMAIN wire' = Directions
        BY <1>1, <1>4, Zenon DEF Receive
    <2>2. wire["reply"] \o SubSeq(r, 1, 0) = wire["reply"]
        BY <1>2 DEF RpcInv, RpcTypeOK
    <2>3. 0 \in 0 .. Len(r)
        BY <1>2
    <2>4. server'.pc = "stopped"
        BY <1>4 DEF Stop
    <2> QED
        BY <1>0, <1>4, <2>1, <2>2, <2>3, <2>4 DEF r
<1> QED
    BY <1>3, <1>4 DEF Invoke, r

\* A header that is accepted, of a call without parameters.
LEMMA HeaderInvoked ==
    ASSUME RpcInv, server.pc = "header", HdrLen <= Len(wire["request"]),
           NEW c, c = HeaderOf(SubSeq(wire["request"], 1, HdrLen)), c # 0, calls[c].params = 0,
           Invoke(c, HdrLen, <<>>), UNCHANGED <<hungUp, env, client, calls, results>>
    PROVE  RpcInv'
<1>0. HdrLen \in Nat /\ Len(wire["request"]) \in Nat /\ HdrLen \in 0 .. Len(wire["request"])
    BY HdrLenAssumption, LenProperties DEF RpcInv, RpcTypeOK
<1>1. /\ c \in 1 .. Len(calls) /\ \A b \in 1 .. Len(results) : Returned(results, b) => b # c
    BY HeaderFacts
<1>2. env.blocking /\ ~env.shortSend => HdrLen = Len(wire["request"])
    BY <1>0, WholeHeader
<1>3. ASSUME Returned(results, Len(results))
      PROVE  /\ client = "reply" /\ c = Len(calls) /\ wire["reply"] = <<>>
             /\ \A i \in 1 .. Len(executed) : executed[i].call # c
             /\ HdrLen = Len(wire["request"])
             /\ <<>> = ArgumentsIn(env.order, Cells("param", c, calls[c].params))
    <2>1. /\ client = "reply" /\ wire["reply"] = <<>> /\ c = Len(calls)
          /\ \A i \in 1 .. Len(executed) : executed[i].call # c
          /\ Len(wire["request"]) <= HdrLen + calls[c].params
        BY <1>3, HeaderOfLastCall
    <2>2. HdrLen = Len(wire["request"])
        BY <2>1, <1>0
    <2>3. c \in Nat /\ 0 \in Nat /\ 0 < 2
        BY <1>1
    <2>4. ArgumentsIn(env.order, Cells("param", c, 0)) = Cells("param", c, 0)
        BY <2>3, FewArguments
    <2>5. Cells("param", c, 0) = <<>>
        BY DEF Cells
    <2> QED
        BY <2>1, <2>2, <2>4, <2>5
<1>4. <<>> \in Seq(PlainCell)
    BY EmptySeq
<1>5. /\ executed' = Append(executed, [call |-> c, args |-> <<>>]) /\ UNCHANGED rejected
      /\ server'.pc \in {"header", "stopped"}
      /\ IF server'.pc = "stopped" THEN failed' ELSE UNCHANGED failed
      /\ wire'["request"] = SubSeq(wire["request"], HdrLen + 1, Len(wire["request"]))
      /\ DOMAIN wire' = Directions
      /\ \E j \in 0 .. Len(Reply(c, <<>>)) :
            wire'["reply"] = wire["reply"] \o SubSeq(Reply(c, <<>>), 1, j)
    BY <1>1, <1>4, Invoked
<1>6. PICK j \in 0 .. Len(Reply(c, <<>>)) :
         wire'["reply"] = wire["reply"] \o SubSeq(Reply(c, <<>>), 1, j)
    BY <1>5
<1> QED
    BY <1>0, <1>1, <1>2, <1>3, <1>4, <1>5, <1>6, InvokeInv

LEMMA ReceiveHeaderInv ==
    ASSUME RpcInv, ReceiveHeader
    PROVE  RpcInv'
<1> DEFINE H == HeaderOf(SubSeq(wire["request"], 1, HdrLen))
<1>0. server.pc = "header" /\ UNCHANGED <<hungUp, env, client, calls, results>>
    BY DEF ReceiveHeader
<1>1. PICK k \in ReceiveCounts("request", HdrLen, env.blocking) :
        \/ /\ k # HdrLen /\ Receive("request", k) /\ Stop /\ UNCHANGED <<executed, rejected, failed>>
        \/ /\ k = HdrLen /\ (IF CheckIntegrity(H) THEN ~calls[H].known ELSE TRUE)
           /\ Receive("request", k) /\ InvalidRequest(H) /\ UNCHANGED <<executed, failed>>
        \/ /\ k = HdrLen /\ CheckIntegrity(H)
           /\ Receive("request", k) /\ server' = [pc |-> "params", call |-> H]
           /\ UNCHANGED <<executed, rejected, failed>>
        \/ /\ k = HdrLen /\ CheckIntegrity(H) /\ calls[H].params = 0
           /\ Invoke(H, k, <<>>)
    BY Zenon DEF ReceiveHeader, Received
<1> HIDE DEF H
<1>2. k = HdrLen => HdrLen <= Len(wire["request"])
    <2>1. HdrLen \in Nat
        BY HdrLenAssumption
    <2> QED
        BY <2>1, RequestCounts
<1>3. CASE k # HdrLen /\ Receive("request", k) /\ Stop /\ UNCHANGED <<executed, rejected, failed>>
    BY <1>0, <1>3, HeaderCutShort
<1>4. CASE /\ k = HdrLen /\ (IF CheckIntegrity(H) THEN ~calls[H].known ELSE TRUE)
           /\ Receive("request", k) /\ InvalidRequest(H) /\ UNCHANGED <<executed, failed>>
    BY <1>0, <1>2, <1>4, HeaderRefused DEF H
<1>5. CASE /\ k = HdrLen /\ CheckIntegrity(H)
           /\ Receive("request", k) /\ server' = [pc |-> "params", call |-> H]
           /\ UNCHANGED <<executed, rejected, failed>>
    <2>1. H # 0
        BY <1>5 DEF CheckIntegrity
    <2> QED
        BY <1>0, <1>2, <1>5, <2>1, HeaderAccepted DEF H
<1>6. CASE /\ k = HdrLen /\ CheckIntegrity(H) /\ calls[H].params = 0
           /\ Invoke(H, k, <<>>)
    <2>1. H # 0
        BY <1>6 DEF CheckIntegrity
    <2> QED
        BY <1>0, <1>2, <1>6, <2>1, HeaderInvoked DEF H
<1> QED
    BY <1>1, <1>3, <1>4, <1>5, <1>6

\* In step, a server that reads parameters reads those of the last call.
LEMMA ParamsInStep ==
    ASSUME RpcInv, server.pc = "params", Returned(results, Len(results))
    PROVE  /\ client = "reply" /\ server.call = Len(calls) /\ wire["reply"] = <<>>
           /\ \A i \in 1 .. Len(executed) : executed[i].call # Len(calls)
           /\ IsBeginning(wire["request"], Cells("param", server.call, calls[server.call].params))
           /\ ~env.shortSend => Len(wire["request"]) = calls[server.call].params
<1>1. IF client = "reply" THEN NotYetExecuted \/ ReplyOnTheWay ELSE AtRest
    BY DEF RpcInv, RpcInStep
<1>2. ~AtRest /\ ~ReplyOnTheWay
    BY DEF AtRest, ReplyOnTheWay
<1>3. client = "reply" /\ NotYetExecuted
    BY <1>1, <1>2
<1> QED
    BY <1>3 DEF NotYetExecuted

LEMMA ReceiveParamsInv ==
    ASSUME RpcInv, ReceiveParams
    PROVE  RpcInv'
<1> DEFINE c == server.call
           n == calls[c].params
           w == wire["request"]
<1>0. server.pc = "params" /\ UNCHANGED <<hungUp, env, client, calls, results>>
    BY DEF ReceiveParams
<1>1. c \in 1 .. Len(calls) /\ Len(calls) \in Nat /\ c \in 0 .. Len(calls) /\ c \in Nat /\ n \in Nat
    <2>1. c \in 1 .. Len(calls) /\ calls \in Seq(Functions)
        BY <1>0 DEF RpcInv, RpcTypeOK
    <2>2. Len(calls) \in Nat /\ calls[c] \in Functions
        BY <2>1, ElementOfSeq, LenProperties
    <2> QED
        BY <2>1, <2>2, FunctionsAssumption
<1>2. PICK k \in ReceiveCounts("request", n, env.blocking) :
        \/ k # n /\ Receive("request", k) /\ InvalidRequest(c) /\ UNCHANGED <<executed, failed>>
        \/ /\ k = n
           /\ Invoke(c, k, Arguments(SubSeq(w, 1, k)))
    BY Zenon DEF ReceiveParams, Received
<1>3. /\ k \in 0 .. Len(w) /\ k <= n /\ Len(w) \in Nat /\ k \in Nat
      /\ env.blocking /\ n <= Len(w) => k = n
    BY <1>1, RequestCounts
<1>4. w \in Seq(PlainCell) /\ \A b \in 1 .. Len(results) : Returned(results, b) => b # c
    BY <1>0 DEF RpcInv, RpcTypeOK, Settled
<1>5. ASSUME Returned(results, Len(results))
      PROVE  /\ client = "reply" /\ c = Len(calls) /\ wire["reply"] = <<>>
             /\ \A i \in 1 .. Len(executed) : executed[i].call # Len(calls)
             /\ Len(w) <= n /\ \A i \in 1 .. Len(w) : w[i] = Cell("param", c, i)
             /\ ~env.shortSend => Len(w) = n
    <2>1. /\ client = "reply" /\ c = Len(calls) /\ wire["reply"] = <<>>
          /\ \A i \in 1 .. Len(executed) : executed[i].call # Len(calls)
          /\ IsBeginning(w, Cells("param", c, n)) /\ (~env.shortSend => Len(w) = n)
        BY <1>0, <1>5, ParamsInStep
    <2> HIDE DEF c, n, w
    <2>2. /\ Len(Cells("param", c, n)) = n
          /\ \A i \in 1 .. n : Cells("param", c, n)[i] = Cell("param", c, i)
        BY <1>1, CellsSeq
    <2>3. Len(w) <= n /\ \A i \in 1 .. Len(w) : w[i] = Cells("param", c, n)[i]
        BY <2>1, <2>2 DEF IsBeginning
    <2>4. \A i \in 1 .. Len(w) : w[i] = Cell("param", c, i)
        <3> SUFFICES ASSUME NEW i \in 1 .. Len(w) PROVE w[i] = Cell("param", c, i)
            OBVIOUS
        <3>1. i \in 1 .. n
            BY <2>3, <1>1, <1>3
        <3> QED
            BY <3>1, <2>2, <2>3
    <2> QED
        BY <2>1, <2>3, <2>4
<1>6. CASE k # n /\ Receive("request", k) /\ InvalidRequest(c) /\ UNCHANGED <<executed, failed>>
    <2>1. ~(env.blocking /\ ~env.shortSend)
        <3> SUFFICES ASSUME env.blocking, ~env.shortSend PROVE FALSE
            OBVIOUS
        <3>1. Len(w) = n
            BY <1>0 DEF RpcInv, WholeRequests
        <3> QED
            BY <3>1, <1>1, <1>3, <1>6
    <2>2. ASSUME Returned(results, Len(results))
          PROVE  /\ client = "reply" /\ wire["reply"] = <<>>
                 /\ \A i \in 1 .. Len(executed) : executed[i].call # Len(calls)
                 /\ \A i \in 1 .. Len(w) : i > k => w[i].tag = "param"
        <3>1. \A i \in 1 .. Len(w) : Cell("param", c, i).tag = "param"
            BY DEF Cell
        <3>2. \A i \in 1 .. Len(w) : w[i].tag = "param"
            BY <2>2, <1>5, <3>1, Zenon
        <3> QED
            BY <2>2, <1>5, <3>2, Zenon
    <2>3. /\ wire'["request"] = SubSeq(w, k + 1, Len(w))
          /\ wire'["reply"] = wire["reply"] /\ DOMAIN wire' = Directions
        BY <1>6, RequestReceived
    <2> QED
        BY <1>0, <1>1, <1>3, <1>6, <2>1, <2>2, <2>3, InvalidRequestInv
<1>7. CASE /\ k = n
           /\ Invoke(c, k, Arguments(SubSeq(w, 1, k)))
    <2> DEFINE p == SubSeq(w, 1, k)
               args == Arguments(p)
    <2>1. args = ArgumentsIn(env.order, p)
        BY DEF Arguments, ArgumentsIn
    <2>2. p \in Seq(PlainCell) /\ Len(p) = k /\ \A i \in 1 .. k : p[i] = w[i]
        <3> HIDE DEF w
        <3> QED
            BY <1>3, <1>4, ReceiveSeq
    <2>3. env.blocking /\ ~env.shortSend => k = Len(w)
        BY <1>0, <1>7 DEF RpcInv, WholeRequests
    <2>4. Invoke(c, k, args)
        BY <1>7
    <2> HIDE DEF p, args
    <2>5. args \in Seq(PlainCell)
        BY <2>1, <2>2, ArgumentsSeq
    <2>6. /\ executed' = Append(executed, [call |-> c, args |-> args]) /\ UNCHANGED rejected
          /\ server'.pc \in {"header", "stopped"}
          /\ IF server'.pc = "stopped" THEN failed' ELSE UNCHANGED failed
          /\ wire'["request"] = SubSeq(w, k + 1, Len(w)) /\ DOMAIN wire' = Directions
          /\ \E j \in 0 .. Len(Reply(c, args)) :
                wire'["reply"] = wire["reply"] \o SubSeq(Reply(c, args), 1, j)
        BY <1>1, <2>4, <2>5, Invoked
    <2>7. ASSUME Returned(results, Len(results))
          PROVE  /\ client = "reply" /\ c = Len(calls) /\ wire["reply"] = <<>>
                 /\ \A i \in 1 .. Len(executed) : executed[i].call # c
                 /\ k = Len(w)
                 /\ args = ArgumentsIn(env.order, Cells("param", c, n))
        <3>1. /\ client = "reply" /\ c = Len(calls) /\ wire["reply"] = <<>>
              /\ \A i \in 1 .. Len(executed) : executed[i].call # Len(calls)
              /\ Len(w) <= n /\ \A i \in 1 .. Len(w) : w[i] = Cell("param", c, i)
            BY <2>7, <1>5
        <3>2. k = Len(w)
            BY <3>1, <1>1, <1>3, <1>7
        <3>3. p = Cells("param", c, n)
            <4> HIDE DEF c, n, w
            <4>1. /\ Cells("param", c, n) \in Seq(PlainCell) /\ Len(Cells("param", c, n)) = n
                  /\ \A i \in 1 .. n : Cells("param", c, n)[i] = Cell("param", c, i)
                BY <1>1, CellsSeq
            <4>2. \A i \in 1 .. Len(p) : p[i] = Cells("param", c, n)[i]
                BY <4>1, <2>2, <3>1, <3>2, <1>7
            <4> QED
                BY <4>1, <4>2, <2>2, <1>7, SeqEqual
        <3> QED
            BY <3>1, <3>2, <3>3, <2>1
    <2>8. PICK j \in 0 .. Len(Reply(c, args)) :
             wire'["reply"] = wire["reply"] \o SubSeq(Reply(c, args), 1, j)
        BY <2>6
    <2> QED
        BY <1>0, <1>1, <1>3, <1>4, <2>3, <2>5, <2>6, <2>7, <2>8, InvokeInv
<1> QED
    BY <1>2, <1>6, <1>7

\* An exception of the socket leaves run().
LEMMA ServerReceiveFailsInv ==
    ASSUME RpcInv, ServerReceiveFails
    PROVE  RpcInv'
<1>1. /\ server.pc \in {"header", "params"} /\ server'.pc = "stopped" /\ failed'
      /\ UNCHANGED <<wire, hungUp, env, client, calls, results, executed, rejected>>
    BY DEF ServerReceiveFails, Stop, exchanger
<1>2. RpcTypeOK' /\ OfCalls' /\ HangUps'
    BY <1>1 DEF RpcInv, RpcTypeOK, OfCalls, HangUps
<1>3. OwnValues' /\ OnceEach' /\ RejectedOnlyIf'
    BY <1>1 DEF RpcInv, OwnValues, OnceEach, RejectedOnlyIf
<1>4. RpcInStep'
    <2>1. NotYetExecuted => NotYetExecuted'
        BY <1>1 DEF NotYetExecuted
    <2>2. ReplyOnTheWay => ReplyOnTheWay'
        BY <1>1 DEF ReplyOnTheWay
    <2>3. AtRest => AtRest'
        BY <1>1 DEF AtRest
    <2> QED
        BY <1>1, <2>1, <2>2, <2>3 DEF RpcInv, RpcInStep
<1>5. Settled' /\ ThrowsAtTheEnd' /\ WholeRequests'
    BY <1>1 DEF Settled, ThrowsAtTheEnd, WholeRequests
<1> QED
    BY <1>2, <1>3, <1>4, <1>5 DEF RpcInv

LEMMA RpcNextInv ==
    ASSUME RpcInv, RpcNext
    PROVE  RpcInv'
BY CallInv, ReceiveReplyInv, CallFailsInv, ClientCloseInv, ReceiveHeaderInv, ReceiveParamsInv,
   ServerReceiveFailsInv, ServerCloseInv
   DEF RpcNext

-----------------------------------------------------------------------------
(* The two protocols together.                                             *)

LEMMA ExchangeInitInv == Init => ExchangeInv
<1>1. ASSUME Init, protocol = "rpc", RpcInit, TransferUnused PROVE ExchangeInv
    BY <1>1, RpcInitInv DEF Init, ExchangeInv, TransferUnused, TransferInit
<1>2. ASSUME Init, protocol = "transfer", RpcUnused, TransferInit PROVE ExchangeInv
    BY <1>2, TransferInitInv DEF Init, ExchangeInv, RpcUnused, RpcInit
<1> QED
    BY <1>1, <1>2 DEF Init

LEMMA ExchangeNextInv == ExchangeInv /\ [Next]_vars => ExchangeInv'
<1> SUFFICES ASSUME ExchangeInv, [Next]_vars PROVE ExchangeInv'
    OBVIOUS
<1>1. CASE RpcStep(RpcNext)
    BY <1>1, RpcNextInv DEF ExchangeInv, RpcStep, transferVars
<1>2. CASE TransferStep(TransferNext)
    BY <1>2, TransferNextInv DEF ExchangeInv, TransferStep, rpcVars
<1>3. CASE UNCHANGED vars
    <2>1. /\ UNCHANGED <<protocol, wire, hungUp, env, client, server, calls, results, executed, rejected, failed>>
          /\ UNCHANGED <<transport, sender, receiver, sizes, arrived>>
        BY <1>3 DEF vars, exchanger, rpcVars, transferVars
    <2>2. RpcInv' <=> RpcInv
        BY <2>1 DEF RpcInv, RpcTypeOK, OfCalls, HangUps, OwnValues, OnceEach, RejectedOnlyIf, RpcInStep,
                    NotYetExecuted, ReplyOnTheWay, AtRest, Settled, ThrowsAtTheEnd, WholeRequests
    <2>3. TransferInv' <=> TransferInv
        BY <2>1 DEF TransferInv, TransferTypeOK, OfObjects, SenderInLoop, SenderGoal, ArrivedWereSent,
                    Arrived, ObjectsArriveIntact, TransferInStep, ReceiverInLoop, ReceiverGoal,
                    WireInStep, SenderNext, ReceiverNext
    <2> QED
        BY <2>1, <2>2, <2>3 DEF ExchangeInv
<1> QED
    BY <1>1, <1>2, <1>3 DEF Next

(* Client and server of an RPC connection, and sender and receiver of      *)
(* objects, stay in step: what is on the wire is the rest of what one side *)
(* has sent and the other has begun to read, until a call or a reception   *)
(* throws (RpcClient.h sendExeRequest, RpcServer.h oneShot, ObjectSender.h *)
(* sendObject, ObjectReceiver.h receiveObject).                            *)
THEOREM ExchangeInvariance == Spec => []ExchangeInv
BY ExchangeInitInv, ExchangeNextInv, PTL DEF Spec

(* Until a call throws, a call that returns a value returns its own, with  *)
(* the arguments in their order unless the compiler evaluates them from    *)
(* the right: for every header length, every set of functions and any      *)
(* number of calls.                                                        *)
THEOREM ReturnedValuesAreOwn == Spec => []ReturnedValueIsOwn
<1>1. ExchangeInv => ReturnedValueIsOwn
    <2>1. CASE OwnValues
        BY <2>1 DEF OwnValues, ReturnedValueIsOwn, Returned, Reply, ReplyOf
    <2>2. CASE results = <<>>
        BY <2>2 DEF ReturnedValueIsOwn
    <2> QED
        BY <2>1, <2>2 DEF ExchangeInv, RpcInv
<1> QED
    BY <1>1, ExchangeInvariance, PTL

(* Until a call throws, a call that returns has been executed exactly      *)
(* once, but for a void call that takes the end of the stream for a reply. *)
THEOREM ReturnedCallsWereExecuted == Spec => []ReturnedWasExecuted
<1>1. ExchangeInv => ReturnedWasExecuted
    <2>1. CASE OnceEach
        BY <2>1, Zenon DEF OnceEach, ReturnedWasExecuted, Returned, Once
    <2>2. CASE results = <<>>
        BY <2>2 DEF ReturnedWasExecuted
    <2> QED
        BY <2>1, <2>2 DEF ExchangeInv, RpcInv
<1> QED
    BY <1>1, ExchangeInvariance, PTL

(* With MSG_WAITALL and whole sends, only functions that are not           *)
(* registered and requests with MAX_PARAM_COUNT parameters are refused, or *)
(* the parameters that such a request left on the stream; and run() ends   *)
(* only after a refusal, when the client has closed, or by an exception of *)
(* its socket or of a registered function (RpcServer.cpp 41, 63, 70, 73).  *)
THEOREM OnlyTheseAreRejected == Spec => []RejectedOnlyIf
<1>1. ExchangeInv => RejectedOnlyIf
    <2>1. rejected = {} /\ server.pc = "header" => RejectedOnlyIf
        BY DEF RejectedOnlyIf
    <2> QED
        BY <2>1 DEF ExchangeInv, RpcInv
<1> QED
    BY <1>1, ExchangeInvariance, PTL

(* However the transport cuts an object and its size prefix up, the n-th   *)
(* receiveObject that returns has the n-th object, whatever the sizes of   *)
(* the objects and of the buffer.                                          *)
THEOREM ObjectsArrive == Spec => []ObjectsArriveIntact
<1>1. ExchangeInv => ObjectsArriveIntact
    <2>1. arrived = <<>> => ObjectsArriveIntact
        BY DEF ObjectsArriveIntact
    <2> QED
        BY <2>1 DEF ExchangeInv, TransferInv
<1> QED
    BY <1>1, ExchangeInvariance, PTL

=============================================================================
