------------------------------ MODULE ByteRing ------------------------------
(***************************************************************************)
(* ByteRing<WaitPolicy>: the byte-wise single-producer single-consumer     *)
(* ring under InterprocessQueue and SLInterprocessQueue.                   *)
(*                                                                         *)
(* head and tail are the two atomic indices of the shared descriptor and   *)
(* buffer is the shared byte array.  Each side runs push or pop in its own *)
(* process, with its own ByteRing object and therefore its own snapshot of *)
(* the other side's index: the producer only ever uses its cachedTail and  *)
(* the consumer only its cachedHead, so one copy of each is kept.          *)
(*                                                                         *)
(* A byte is identified with its position in the stream of bytes pushed:   *)
(* the ring never looks at the bytes, so this loses nothing and makes      *)
(* "the right byte" expressible.  0 is a byte that was never pushed.       *)
(* memcpy moves one byte per step, so that it interleaves with the other   *)
(* side.  Index loads and stores pair acquire with release, which makes    *)
(* this interleaving semantics adequate for the bytes they publish.        *)
(*                                                                         *)
(* A wait of the WaitPolicy may return at any time here.  That is exactly  *)
(* SLIntPrQueueLockPolicy, whose wait is empty, and it allows everything a *)
(* policy that blocks can do; InterprocessQueue restricts it.              *)
(***************************************************************************)
EXTENDS CircularBuffer

CONSTANTS Capacity,   \* size of the ring in bytes, as given to initRing
          PushSizes,  \* the dataSize arguments push is called with
          PopSizes,   \* the dataSize arguments pop is called with
          MaxBytes    \* bound on the bytes pushed and popped in a behaviour

\* initRing throws on a capacity below 2.  A push or pop of 0 bytes returns
\* without touching anything, so sizes start at 1.
ASSUME CapacityAssumption == Capacity \in Nat /\ Capacity >= 2
ASSUME SizesAssumption == PushSizes \subseteq Nat \ {0} /\ PopSizes \subseteq Nat \ {0}
ASSUME MaxBytesAssumption == MaxBytes \in Nat

VARIABLES
    head, tail,   \* CircularBufferDescriptor
    buffer,       \* the shared bytes
    cachedTail,   \* the producer's snapshot of tail
    pPc,          \* where the producer is in push / waitFreeSpace
    pLeft,        \* its dataSize: bytes still to push
    pChunk,       \* its chunkSize
    pIdx,         \* bytes of the chunk already copied
    pPos,         \* its ptr: bytes of the stream before this chunk
    pSeen,        \* its last freeSpace() result not yet spent, or -1
    cachedHead,   \* the consumer's snapshot of head
    cPc, cLeft, cChunk, cIdx, cPos,  \* the same for pop / waitElemPresent
    cSeen,        \* its last size() result not yet spent, or -1
    out           \* the memory the consumer's calls filled, by stream position

shared == <<head, tail, buffer>>
producer == <<cachedTail, pPc, pLeft, pChunk, pIdx, pPos, pSeen>>
consumer == <<cachedHead, cPc, cLeft, cChunk, cIdx, cPos, cSeen, out>>
vars == <<shared, producer, consumer>>

Slots == 0 .. Capacity - 1
PC == {"detached", "idle", "chunk", "load", "wait", "copy", "signal"}

Size(h, t) == circularBufferSize(Capacity, h, t)
Free(h, t) == circularBufferFreeSpace(Capacity, h, t)

\* The MASTER side has built the ring; the SLAVE side attaches later.
Init == /\ head = 0 /\ tail = 0
        /\ buffer = [s \in Slots |-> 0]
        /\ cachedTail = 0 /\ cachedHead = 0
        /\ \/ pPc = "idle" /\ cPc = "detached"
           \/ pPc = "detached" /\ cPc = "idle"
        /\ pLeft = 0 /\ pChunk = 0 /\ pIdx = 0 /\ pPos = 0 /\ pSeen = -1
        /\ cLeft = 0 /\ cChunk = 0 /\ cIdx = 0 /\ cPos = 0 /\ cSeen = -1
        /\ out = [p \in 1 .. MaxBytes |-> 0]

-----------------------------------------------------------------------------
(* The producer: push and waitFreeSpace.                                   *)

\* initRing of a SLAVE that will push.
AttachProducer ==
    /\ pPc = "detached"
    /\ pPc' = "idle"
    /\ cachedTail' = tail
    /\ UNCHANGED <<shared, consumer, pLeft, pChunk, pIdx, pPos, pSeen>>

\* freeSpace() called by the producer between two pushes: its own head and a
\* fresh tail.
FreeSpace ==
    /\ pPc = "idle"
    /\ pSeen' = Free(head, tail)
    /\ UNCHANGED <<shared, consumer, cachedTail, pPc, pLeft, pChunk, pIdx, pPos>>

Push(n) ==
    /\ pPc = "idle"
    /\ pPos + n <= MaxBytes
    /\ pPc' = "chunk"
    /\ pLeft' = n
    /\ UNCHANGED <<shared, consumer, cachedTail, pChunk, pIdx, pPos, pSeen>>

\* The head of push's loop and the fast path of waitFreeSpace.
StartPushChunk ==
    /\ pPc = "chunk"
    /\ pChunk' = ChunkSize(Capacity, pLeft)
    /\ pPc' = IF Free(head, cachedTail) >= pChunk' THEN "copy" ELSE "load"
    /\ UNCHANGED <<shared, consumer, cachedTail, pLeft, pIdx, pPos, pSeen>>

\* Mutant: waits although there is exactly enough room.
LoadTailStrict ==
    /\ pPc = "load"
    /\ cachedTail' = tail
    /\ pPc' = IF Free(head, tail) <= pChunk THEN "wait" ELSE "copy"
    /\ UNCHANGED <<shared, consumer, pLeft, pChunk, pIdx, pPos, pSeen>>

\* Refresh the snapshot; wait if there still is not room for the whole chunk.
LoadTail ==
    /\ pPc = "load"
    /\ cachedTail' = tail
    /\ pPc' = IF Free(head, tail) < pChunk THEN "wait" ELSE "copy"
    /\ UNCHANGED <<shared, consumer, pLeft, pChunk, pIdx, pPos, pSeen>>

\* Mutant: the loop of waitFreeSpace does not read tail again after a wait.
WaitDataFreeNoReload == pPc = "wait" /\ UNCHANGED vars

\* waiter.waitDataFree() returns.
WaitDataFree ==
    /\ pPc = "wait"
    /\ pPc' = "load"
    /\ UNCHANGED <<shared, consumer, cachedTail, pLeft, pChunk, pIdx, pPos, pSeen>>

\* One byte of the memcpys of push.
CopyIn ==
    /\ pPc = "copy" /\ pIdx < pChunk
    /\ buffer' = [buffer EXCEPT ![CopySlot(Capacity, head, pChunk, pIdx)] = pPos + pIdx + 1]
    /\ pIdx' = pIdx + 1
    /\ UNCHANGED <<head, tail, consumer, cachedTail, pPc, pLeft, pChunk, pPos, pSeen>>

\* Mutant: head is published before the chunk has been copied.
StoreHeadEarly ==
    /\ pPc = "copy"
    /\ head' = AdvanceIndex(Capacity, head, pChunk)
    /\ pIdx' = 0
    /\ pPc' = "signal"
    /\ UNCHANGED <<tail, buffer, consumer, cachedTail, pLeft, pChunk, pPos, pSeen>>

StoreHead ==
    /\ pPc = "copy" /\ pIdx = pChunk
    /\ head' = AdvanceIndex(Capacity, head, pChunk)
    /\ pIdx' = 0
    /\ pPc' = "signal"
    /\ UNCHANGED <<tail, buffer, consumer, cachedTail, pLeft, pChunk, pPos, pSeen>>

\* waiter.signalDataPresent() and the end of push's loop body.
SignalDataPresent ==
    /\ pPc = "signal"
    /\ pLeft' = pLeft - pChunk
    /\ pPos' = pPos + pChunk
    /\ pChunk' = 0
    /\ pSeen' = -1
    /\ pPc' = IF pLeft' = 0 THEN "idle" ELSE "chunk"
    /\ UNCHANGED <<shared, consumer, cachedTail, pIdx>>

-----------------------------------------------------------------------------
(* The consumer: pop and waitElemPresent.                                  *)

\* initRing of a SLAVE that will pop.
AttachConsumer ==
    /\ cPc = "detached"
    /\ cPc' = "idle"
    /\ cachedHead' = head
    /\ UNCHANGED <<shared, producer, cLeft, cChunk, cIdx, cPos, cSeen, out>>

\* size() called by the consumer between two pops: its own tail and a fresh
\* head.
SizeOfRing ==
    /\ cPc = "idle"
    /\ cSeen' = Size(head, tail)
    /\ UNCHANGED <<shared, producer, cachedHead, cPc, cLeft, cChunk, cIdx, cPos, out>>

Pop(n) ==
    /\ cPc = "idle"
    /\ cPos + n <= MaxBytes
    /\ cPc' = "chunk"
    /\ cLeft' = n
    /\ UNCHANGED <<shared, producer, cachedHead, cChunk, cIdx, cPos, cSeen, out>>

\* The head of pop's loop and the fast path of waitElemPresent.
StartPopChunk ==
    /\ cPc = "chunk"
    /\ cChunk' = ChunkSize(Capacity, cLeft)
    /\ cPc' = IF Size(cachedHead, tail) >= cChunk' THEN "copy" ELSE "load"
    /\ UNCHANGED <<shared, producer, cachedHead, cLeft, cIdx, cPos, cSeen, out>>

\* Refresh the snapshot; wait if the whole chunk has not arrived yet.
LoadHead ==
    /\ cPc = "load"
    /\ cachedHead' = head
    /\ cPc' = IF Size(head, tail) < cChunk THEN "wait" ELSE "copy"
    /\ UNCHANGED <<shared, producer, cLeft, cChunk, cIdx, cPos, cSeen, out>>

\* Mutant: the loop of waitElemPresent does not read head again after a wait.
WaitDataPresentNoReload == cPc = "wait" /\ UNCHANGED vars

\* waiter.waitDataPresent() returns.
WaitDataPresent ==
    /\ cPc = "wait"
    /\ cPc' = "load"
    /\ UNCHANGED <<shared, producer, cachedHead, cLeft, cChunk, cIdx, cPos, cSeen, out>>

\* One byte of the memcpys of pop.
CopyOut ==
    /\ cPc = "copy" /\ cIdx < cChunk
    /\ out' = [out EXCEPT ![cPos + cIdx + 1] = buffer[CopySlot(Capacity, tail, cChunk, cIdx)]]
    /\ cIdx' = cIdx + 1
    /\ UNCHANGED <<shared, producer, cachedHead, cPc, cLeft, cChunk, cPos, cSeen>>

StoreTail ==
    /\ cPc = "copy" /\ cIdx = cChunk
    /\ tail' = AdvanceIndex(Capacity, tail, cChunk)
    /\ cIdx' = 0
    /\ cPc' = "signal"
    /\ UNCHANGED <<head, buffer, producer, cachedHead, cLeft, cChunk, cPos, cSeen, out>>

\* waiter.signalDataFree() and the end of pop's loop body.
SignalDataFree ==
    /\ cPc = "signal"
    /\ cLeft' = cLeft - cChunk
    /\ cPos' = cPos + cChunk
    /\ cChunk' = 0
    /\ cSeen' = -1
    /\ cPc' = IF cLeft' = 0 THEN "idle" ELSE "chunk"
    /\ UNCHANGED <<shared, producer, cachedHead, cIdx, out>>

-----------------------------------------------------------------------------
\* The steps of a push or pop that is under way, the wait apart.
ProducerRuns == StartPushChunk \/ LoadTail \/ CopyIn \/ StoreHead
ConsumerRuns == StartPopChunk \/ LoadHead \/ CopyOut \/ StoreTail

\* The calls the two processes make.
ProducerCalls == AttachProducer \/ FreeSpace \/ \E n \in PushSizes : Push(n)
ConsumerCalls == AttachConsumer \/ SizeOfRing \/ \E n \in PopSizes : Pop(n)

Producer == ProducerCalls \/ ProducerRuns \/ WaitDataFree \/ SignalDataPresent
Consumer == ConsumerCalls \/ ConsumerRuns \/ WaitDataPresent \/ SignalDataFree

Next == Producer \/ Consumer

Spec == Init /\ [][Next]_vars

\* A process inside push or pop keeps running (it spins, it does not block);
\* nothing makes it call push or pop again.
Fairness == /\ WF_vars(ProducerRuns \/ WaitDataFree \/ SignalDataPresent)
            /\ WF_vars(ConsumerRuns \/ WaitDataPresent \/ SignalDataFree)

FairSpec == Spec /\ Fairness
-----------------------------------------------------------------------------
(* Properties.                                                             *)

\* Bytes whose slot has been handed over by a store of head, and bytes whose
\* slot has been given back by a store of tail.
Published == IF pPc = "signal" THEN pPos + pChunk ELSE pPos
Consumed == IF cPc = "signal" THEN cPos + cChunk ELSE cPos

\* Both indices stay inside the ring and every local of push and pop is in
\* the range its code assumes (no size_t subtraction wraps around).
TypeOK ==
    /\ head \in Slots /\ tail \in Slots
    /\ cachedHead \in Slots /\ cachedTail \in Slots
    /\ buffer \in [Slots -> 0 .. MaxBytes]
    /\ out \in [1 .. MaxBytes -> 0 .. MaxBytes]
    /\ pPc \in PC /\ cPc \in PC
    /\ pLeft \in 0 .. MaxBytes /\ cLeft \in 0 .. MaxBytes
    /\ pChunk \in Slots /\ cChunk \in Slots
    /\ pIdx \in 0 .. pChunk /\ cIdx \in 0 .. cChunk
    /\ pPos \in 0 .. MaxBytes /\ cPos \in 0 .. MaxBytes
    /\ pSeen \in Slots \cup {-1} /\ cSeen \in Slots \cup {-1}

\* What pop has copied out is exactly what push put in: byte k of the stream
\* arrives as byte k, whatever the chunking, the wrap-around and the
\* interleaving of the two memcpys.
FifoDelivery == \A k \in 1 .. Consumed + cIdx : out[k] = k

\* The two memcpys never touch the same slot: no byte the producer has yet to
\* write lies among those the consumer has yet to read.
NoDataRace ==
    pPc = "copy" /\ cPc = "copy" =>
        \A i \in pIdx .. pChunk - 1, j \in cIdx .. cChunk - 1 :
            CopySlot(Capacity, head, pChunk, i) # CopySlot(Capacity, tail, cChunk, j)

\* "A stale snapshot can only under-report how much data is available" /
\* "the free space": the comments of waitElemPresent and waitFreeSpace.
StaleSnapshotUnderReports ==
    /\ Size(cachedHead, tail) <= Size(head, tail)
    /\ Free(head, cachedTail) <= Free(head, tail)

\* A size() the consumer saw, or a freeSpace() the producer saw, is a promise:
\* a pop or push of at most that much does not wait.
QueryIsAPromise ==
    /\ pPc = "wait" => pSeen < pLeft
    /\ cPc = "wait" => cSeen < cLeft

InPush == pPc \notin {"detached", "idle"}
InPop == cPc \notin {"detached", "idle"}

\* A push that never returns is one for whose chunk the consumer never again
\* makes room.
PushReturns == <>[]InPush => <>[](Free(head, tail) < pChunk)

\* A pop that never returns is one for which the bytes never come.
PopReturns == <>[]InPop => <>[](Size(head, tail) < cChunk)

\* A push and a pop can be stuck in each other for ever only when their two
\* chunks together exceed the ring (each side moves a whole chunk or nothing).
MutualWaitNeedsLargeChunks == <>[](InPush /\ InPop) => <>[](pChunk + cChunk > Capacity)

-----------------------------------------------------------------------------
(* The inductive invariant behind the safety properties.                   *)

\* What push and pop know of their own locals at each point.
ProducerLocals ==
    /\ pPc \in {"detached", "idle"} => pLeft = 0 /\ pChunk = 0
    /\ pPc = "chunk" => pLeft > 0 /\ pChunk = 0
    /\ pPc \in {"load", "wait", "copy", "signal"} =>
            pLeft > 0 /\ pChunk = ChunkSize(Capacity, pLeft)
    /\ pPc # "copy" => pIdx = 0
    /\ pPos + pLeft <= MaxBytes

ConsumerLocals ==
    /\ cPc \in {"detached", "idle"} => cLeft = 0 /\ cChunk = 0
    /\ cPc = "chunk" => cLeft > 0 /\ cChunk = 0
    /\ cPc \in {"load", "wait", "copy", "signal"} =>
            cLeft > 0 /\ cChunk = ChunkSize(Capacity, cLeft)
    /\ cPc # "copy" => cIdx = 0
    /\ cPos + cLeft <= MaxBytes

\* The indices account for the stream: what lies between tail and head is what
\* was published and not consumed.
Accounting == Size(head, tail) = Published - Consumed

\* A side that copies has established that its chunk fits, and nothing the
\* other side does takes that away.
ChunkFits ==
    /\ pPc = "copy" => pChunk <= Free(head, cachedTail)
    /\ cPc = "copy" => cChunk <= Size(cachedHead, tail)

\* The slots from tail on hold the stream: the published bytes, then the ones
\* of the chunk being copied in.
Contents ==
    \A i \in 0 .. Size(head, tail) + pIdx - 1 :
        buffer[AdvanceIndex(Capacity, tail, i)] = Consumed + i + 1

\* Between the query and the end of the next transfer of its caller, only the
\* other side changes the answer, and only upwards.
QueriesStayTrue ==
    /\ pPc # "signal" => pSeen <= Free(head, tail)
    /\ cPc # "signal" => cSeen <= Size(head, tail)

\* The ring invariant: preserved by every step, and it implies FifoDelivery,
\* NoDataRace, StaleSnapshotUnderReports and QueryIsAPromise.
RingInv ==
    /\ TypeOK
    /\ ProducerLocals
    /\ ConsumerLocals
    /\ Accounting
    /\ StaleSnapshotUnderReports
    /\ ChunkFits
    /\ Contents
    /\ FifoDelivery
    /\ QueriesStayTrue
    /\ QueryIsAPromise

-----------------------------------------------------------------------------
(* Refinement: what the two processes may rely on.                         *)

\* The bytes between tail and head, and the bytes handed to the consumer.
Chan == [i \in 1 .. Size(head, tail) |-> buffer[AdvanceIndex(Capacity, tail, i - 1)]]
Delivered == [k \in 1 .. Consumed |-> out[k]]

Fifo == INSTANCE BoundedFifo WITH
            Bound <- Capacity - 1, chan <- Chan, delivered <- Delivered

\* The ring is a bounded FIFO channel of Capacity - 1 bytes in which a chunk
\* appears, and is taken, in one atomic step.
ImplementsFifo == Fifo!Spec
=============================================================================
