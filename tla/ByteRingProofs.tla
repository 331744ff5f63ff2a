--------------------------- MODULE ByteRingProofs ---------------------------
(***************************************************************************)
(* Proofs about ByteRing, for every capacity, every stream and all sizes   *)
(* of the calls.  The argument is the invariant RingInv; the arithmetic of *)
(* the circular buffer enters only through the lemmas of the first part.   *)
(* The last part carries the results over to InterprocessQueue, whose lock *)
(* policy only restricts when a wait of the ring returns.                  *)
(***************************************************************************)
EXTENDS InterprocessQueue, Sequences, TLAPS

Adv(i, n) == AdvanceIndex(Capacity, i, n)

-----------------------------------------------------------------------------
(* Index arithmetic.                                                       *)

\* circularBufferSize and circularBufferFreeSpace of two indices of the ring
\* are sizes the ring can have, and they add up to all slots but one.
LEMMA SizeFacts ==
    ASSUME NEW h \in Slots, NEW t \in Slots
    PROVE  /\ Size(h, t) \in Slots
           /\ Free(h, t) \in Slots
           /\ Free(h, t) = Capacity - 1 - Size(h, t)
           /\ Size(t, t) = 0
BY CapacityAssumption
   DEF Slots, Size, Free, circularBufferSize, circularBufferFreeSpace

\* A chunk of a non-empty transfer is not empty, fits the ring and does not
\* exceed the transfer.
LEMMA ChunkFacts ==
    ASSUME NEW n \in Nat, n > 0
    PROVE  /\ ChunkSize(Capacity, n) \in Slots
           /\ ChunkSize(Capacity, n) > 0
           /\ ChunkSize(Capacity, n) <= n
BY CapacityAssumption DEF Slots, ChunkSize

\* "A single conditional subtraction does what the modulo used to do": the
\* result is an index of the ring.
LEMMA AdvanceInRing ==
    ASSUME NEW i \in Slots, NEW n \in Slots
    PROVE  Adv(i, n) \in Slots
BY CapacityAssumption DEF Slots, Adv, AdvanceIndex

\* The two memcpys place byte i of a chunk i slots after its start.
LEMMA CopySlotIsAdvance ==
    ASSUME NEW b \in Slots, NEW n \in Slots, NEW i \in 0 .. n - 1
    PROVE  CopySlot(Capacity, b, n, i) = Adv(b, i)
BY CapacityAssumption DEF Slots, Adv, AdvanceIndex, CopySlot

\* Two advances are one.
LEMMA AdvanceAdds ==
    ASSUME NEW b \in Slots, NEW n \in Slots, NEW i \in Slots, n + i \in Slots
    PROVE  Adv(Adv(b, n), i) = Adv(b, n + i)
BY CapacityAssumption DEF Slots, Adv, AdvanceIndex

\* Different distances lead to different slots.
LEMMA AdvanceInjective ==
    ASSUME NEW b \in Slots, NEW i \in Slots, NEW j \in Slots, i # j
    PROVE  Adv(b, i) # Adv(b, j)
BY CapacityAssumption DEF Slots, Adv, AdvanceIndex

\* head lies Size slots after tail.
LEMMA HeadFromTail ==
    ASSUME NEW h \in Slots, NEW t \in Slots
    PROVE  Adv(t, Size(h, t)) = h
BY CapacityAssumption DEF Slots, Adv, AdvanceIndex, Size, circularBufferSize

\* Moving head into free space adds to the size.
LEMMA AdvanceHead ==
    ASSUME NEW h \in Slots, NEW t \in Slots, NEW n \in Slots, n <= Free(h, t)
    PROVE  Size(Adv(h, n), t) = Size(h, t) + n
BY CapacityAssumption
   DEF Slots, Adv, AdvanceIndex, Size, Free, circularBufferSize, circularBufferFreeSpace

\* Moving tail over occupied slots takes from the size.
LEMMA AdvanceTail ==
    ASSUME NEW h \in Slots, NEW t \in Slots, NEW n \in Slots, n <= Size(h, t)
    PROVE  Size(h, Adv(t, n)) = Size(h, t) - n
BY CapacityAssumption DEF Slots, Adv, AdvanceIndex, Size, circularBufferSize

-----------------------------------------------------------------------------
(* The ring invariant.                                                     *)

\* The three pairs of indices the code compares are all pairs of ring indices.
LEMMA IndexFacts ==
    ASSUME TypeOK
    PROVE  /\ Size(head, tail) \in Slots /\ Free(head, tail) = Capacity - 1 - Size(head, tail)
           /\ Size(cachedHead, tail) \in Slots
           /\ Size(head, cachedTail) \in Slots
           /\ Free(head, tail) \in Slots /\ Free(head, cachedTail) \in Slots
           /\ Free(head, cachedTail) = Capacity - 1 - Size(head, cachedTail)
BY SizeFacts DEF TypeOK

\* The master's ring satisfies the invariant.
LEMMA InitRingInv == Init => RingInv
<1> SUFFICES ASSUME Init PROVE RingInv
    OBVIOUS
<1>1. Size(0, 0) = 0 /\ Free(0, 0) = Capacity - 1
    BY CapacityAssumption DEF Size, Free, circularBufferSize, circularBufferFreeSpace
<1>2. TypeOK
    BY CapacityAssumption, MaxBytesAssumption DEF Init, TypeOK, Slots, PC
<1> QED
    BY <1>1, <1>2, CapacityAssumption, MaxBytesAssumption
    DEF Init, RingInv, ProducerLocals, ConsumerLocals, Accounting, Published, Consumed,
        StaleSnapshotUnderReports, ChunkFits, Contents, FifoDelivery, QueriesStayTrue,
        QueryIsAPromise

\* A SLAVE's first snapshot is exact.
LEMMA AttachProducerInv == RingInv /\ AttachProducer => RingInv'
<1> SUFFICES ASSUME RingInv, AttachProducer PROVE RingInv'
    OBVIOUS
<1> USE DEF RingInv, AttachProducer, shared, producer, consumer
<1>0. /\ Size(head, tail) \in Slots /\ Free(head, tail) = Capacity - 1 - Size(head, tail)
      /\ Size(cachedHead, tail) \in Slots
      /\ Size(head, cachedTail) \in Slots
      /\ Free(head, tail) \in Slots /\ Free(head, cachedTail) \in Slots
      /\ Free(head, cachedTail) = Capacity - 1 - Size(head, cachedTail)
      /\ Capacity \in Nat /\ Capacity >= 2
    BY IndexFacts, CapacityAssumption
<1>1. TypeOK'
    BY <1>0 DEF TypeOK, PC
<1>2. ProducerLocals' /\ ConsumerLocals'
    BY DEF ProducerLocals, ConsumerLocals, TypeOK
<1>3. Accounting'
    BY DEF Accounting, Published, Consumed, ProducerLocals, ConsumerLocals, TypeOK
<1>4. StaleSnapshotUnderReports' /\ ChunkFits'
    BY <1>0 DEF StaleSnapshotUnderReports, ChunkFits, TypeOK, Slots, ProducerLocals
<1>5. Contents' /\ FifoDelivery'
    BY DEF Contents, FifoDelivery, Consumed, TypeOK
<1>6. QueriesStayTrue' /\ QueryIsAPromise'
    BY DEF QueriesStayTrue, QueryIsAPromise, TypeOK
<1> QED
    BY <1>1, <1>2, <1>3, <1>4, <1>5, <1>6

\* The answer of the query is exact when it is given.
LEMMA FreeSpaceInv == RingInv /\ FreeSpace => RingInv'
<1> SUFFICES ASSUME RingInv, FreeSpace PROVE RingInv'
    OBVIOUS
<1> USE DEF RingInv, FreeSpace, shared, producer, consumer
<1>0. /\ Size(head, tail) \in Slots /\ Free(head, tail) = Capacity - 1 - Size(head, tail)
      /\ Size(cachedHead, tail) \in Slots
      /\ Size(head, cachedTail) \in Slots
      /\ Free(head, tail) \in Slots /\ Free(head, cachedTail) \in Slots
      /\ Free(head, cachedTail) = Capacity - 1 - Size(head, cachedTail)
      /\ Capacity \in Nat /\ Capacity >= 2
    BY IndexFacts, CapacityAssumption
<1>1. TypeOK'
    BY CapacityAssumption, SizeFacts DEF TypeOK, PC
<1>2. ProducerLocals' /\ ConsumerLocals'
    BY DEF ProducerLocals, ConsumerLocals, TypeOK
<1>3. Accounting'
    BY DEF Accounting, Published, Consumed, ProducerLocals, ConsumerLocals, TypeOK
<1>4. StaleSnapshotUnderReports' /\ ChunkFits'
    BY DEF StaleSnapshotUnderReports, ChunkFits, TypeOK
<1>5. Contents' /\ FifoDelivery'
    BY DEF Contents, FifoDelivery, Consumed, TypeOK
<1>6. QueriesStayTrue' /\ QueryIsAPromise'
    BY <1>0 DEF QueriesStayTrue, QueryIsAPromise, TypeOK, Slots
<1> QED
    BY <1>1, <1>2, <1>3, <1>4, <1>5, <1>6

\* The call fits the stream and finds its locals reset.
LEMMA PushInv == \A n \in PushSizes : RingInv /\ Push(n) => RingInv'
<1> SUFFICES ASSUME NEW n \in PushSizes, RingInv, Push(n) PROVE RingInv'
    OBVIOUS
<1> USE DEF RingInv, Push, shared, producer, consumer
<1>1. TypeOK'
    BY SizesAssumption, MaxBytesAssumption DEF TypeOK, PC
<1>2. ProducerLocals' /\ ConsumerLocals'
    BY SizesAssumption DEF ProducerLocals, ConsumerLocals, TypeOK
<1>3. Accounting'
    BY DEF Accounting, Published, Consumed, ProducerLocals, ConsumerLocals, TypeOK
<1>4. StaleSnapshotUnderReports' /\ ChunkFits'
    BY DEF StaleSnapshotUnderReports, ChunkFits, TypeOK
<1>5. Contents' /\ FifoDelivery'
    BY DEF Contents, FifoDelivery, Consumed, TypeOK
<1>6. QueriesStayTrue' /\ QueryIsAPromise'
    BY DEF QueriesStayTrue, QueryIsAPromise, TypeOK
<1> QED
    BY <1>1, <1>2, <1>3, <1>4, <1>5, <1>6

\* The fast path compares with the snapshot only.
LEMMA StartPushChunkInv == RingInv /\ StartPushChunk => RingInv'
<1> SUFFICES ASSUME RingInv, StartPushChunk PROVE RingInv'
    OBVIOUS
<1> USE DEF RingInv, StartPushChunk, shared, producer, consumer
<1>0. /\ ChunkSize(Capacity, pLeft) \in 1 .. Capacity - 1 /\ ChunkSize(Capacity, pLeft) <= pLeft
      /\ pLeft \in 1 .. MaxBytes
      /\ Capacity \in Nat /\ Capacity >= 2 /\ MaxBytes \in Nat
    BY ChunkFacts, CapacityAssumption, MaxBytesAssumption DEF TypeOK, Slots, ProducerLocals
<1>1. TypeOK'
    BY <1>0 DEF TypeOK, PC, Slots, ProducerLocals
<1>2. ProducerLocals' /\ ConsumerLocals'
    BY <1>0 DEF ProducerLocals, ConsumerLocals, TypeOK
<1>3. Accounting'
    BY DEF Accounting, Published, Consumed, ProducerLocals, ConsumerLocals, TypeOK
<1>4. StaleSnapshotUnderReports' /\ ChunkFits'
    BY DEF StaleSnapshotUnderReports, ChunkFits, TypeOK
<1>5. Contents' /\ FifoDelivery'
    BY DEF Contents, FifoDelivery, Consumed, TypeOK
<1>6. QueriesStayTrue' /\ QueryIsAPromise'
    BY DEF QueriesStayTrue, QueryIsAPromise, TypeOK
<1> QED
    BY <1>1, <1>2, <1>3, <1>4, <1>5, <1>6

\* The fresh snapshot is exact; a wait begins only if the whole chunk does not
\* fit, so not after a query that promised it would.
LEMMA LoadTailInv == RingInv /\ LoadTail => RingInv'
<1> SUFFICES ASSUME RingInv, LoadTail PROVE RingInv'
    OBVIOUS
<1> USE DEF RingInv, LoadTail, shared, producer, consumer
<1>0. /\ Size(head, tail) \in Slots /\ Free(head, tail) = Capacity - 1 - Size(head, tail)
      /\ Size(cachedHead, tail) \in Slots
      /\ Size(head, cachedTail) \in Slots
      /\ Free(head, tail) \in Slots /\ Free(head, cachedTail) \in Slots
      /\ Free(head, cachedTail) = Capacity - 1 - Size(head, cachedTail)
      /\ Capacity \in Nat /\ Capacity >= 2
    BY IndexFacts, CapacityAssumption
<1>t. pChunk \in Slots /\ pSeen \in Slots \cup {-1} /\ pLeft \in Int
    BY MaxBytesAssumption DEF TypeOK
<1>1. TypeOK'
    BY DEF TypeOK, PC
<1>2. ProducerLocals' /\ ConsumerLocals'
    BY DEF ProducerLocals, ConsumerLocals, TypeOK
<1>3. Accounting'
    BY DEF Accounting, Published, Consumed, ProducerLocals, ConsumerLocals, TypeOK
<1>4. StaleSnapshotUnderReports' /\ ChunkFits'
    <2>1. pPc' = "copy" => pChunk <= Free(head, tail)
        BY <1>0, <1>t DEF Slots
    <2> QED
        BY <1>0, <2>1 DEF StaleSnapshotUnderReports, ChunkFits, Slots
<1>5. Contents' /\ FifoDelivery'
    BY DEF Contents, FifoDelivery, Consumed, TypeOK
<1>6. QueriesStayTrue' /\ QueryIsAPromise'
    <2>1. pChunk <= pLeft
        BY ChunkFacts, MaxBytesAssumption DEF ProducerLocals, TypeOK
    <2>2. pPc' = "wait" => pSeen < pLeft
        BY <1>0, <1>t, <2>1 DEF QueriesStayTrue, Slots
    <2> QED
        BY <1>0, <2>1, <2>2 DEF QueriesStayTrue, QueryIsAPromise
<1> QED
    BY <1>1, <1>2, <1>3, <1>4, <1>5, <1>6

\* Waiting changes nothing.
LEMMA WaitDataFreeInv == RingInv /\ WaitDataFree => RingInv'
<1> SUFFICES ASSUME RingInv, WaitDataFree PROVE RingInv'
    OBVIOUS
<1> USE DEF RingInv, WaitDataFree, shared, producer, consumer
<1>1. TypeOK'
    BY DEF TypeOK, PC
<1>2. ProducerLocals' /\ ConsumerLocals'
    BY DEF ProducerLocals, ConsumerLocals, TypeOK
<1>3. Accounting'
    BY DEF Accounting, Published, Consumed, ProducerLocals, ConsumerLocals, TypeOK
<1>4. StaleSnapshotUnderReports' /\ ChunkFits'
    BY DEF StaleSnapshotUnderReports, ChunkFits, TypeOK
<1>5. Contents' /\ FifoDelivery'
    BY DEF Contents, FifoDelivery, Consumed, TypeOK
<1>6. QueriesStayTrue' /\ QueryIsAPromise'
    BY DEF QueriesStayTrue, QueryIsAPromise, TypeOK
<1> QED
    BY <1>1, <1>2, <1>3, <1>4, <1>5, <1>6

\* The chunk is counted and the loop goes on with the rest.
LEMMA SignalDataPresentInv == RingInv /\ SignalDataPresent => RingInv'
<1> SUFFICES ASSUME RingInv, SignalDataPresent PROVE RingInv'
    OBVIOUS
<1> USE DEF RingInv, SignalDataPresent, shared, producer, consumer
<1>0. /\ ChunkSize(Capacity, pLeft) \in 1 .. Capacity - 1 /\ ChunkSize(Capacity, pLeft) <= pLeft
      /\ pLeft \in 1 .. MaxBytes
      /\ Capacity \in Nat /\ Capacity >= 2 /\ MaxBytes \in Nat
    BY ChunkFacts, CapacityAssumption, MaxBytesAssumption DEF TypeOK, Slots, ProducerLocals
<1>a. pChunk = ChunkSize(Capacity, pLeft) /\ pIdx = 0 /\ pPos + pLeft <= MaxBytes
    BY DEF ProducerLocals
<1>t. pLeft \in Int /\ pPos \in Nat
    BY <1>0 DEF TypeOK
<1>b. /\ pLeft' \in 0 .. MaxBytes /\ pPos' \in 0 .. MaxBytes
      /\ pPos' + pLeft' <= MaxBytes
    BY <1>0, <1>a, <1>t
<1>1. TypeOK'
    <2>1. pPc' \in PC /\ pChunk' \in Slots /\ pIdx' \in 0 .. pChunk' /\ pSeen' = -1
        BY <1>0, <1>a DEF PC, Slots
    <2> QED
        BY <1>b, <2>1 DEF TypeOK
<1>2. ProducerLocals' /\ ConsumerLocals'
    BY <1>0, <1>a, <1>b DEF ProducerLocals, ConsumerLocals
<1>3. Accounting'
    BY DEF Accounting, Published, Consumed, ProducerLocals, ConsumerLocals, TypeOK
<1>4. StaleSnapshotUnderReports' /\ ChunkFits'
    BY DEF StaleSnapshotUnderReports, ChunkFits, TypeOK
<1>5. Contents' /\ FifoDelivery'
    BY DEF Contents, FifoDelivery, Consumed, TypeOK
<1>6. QueriesStayTrue' /\ QueryIsAPromise'
    <2>1. Free(head, tail) >= -1
        BY IndexFacts, CapacityAssumption DEF Slots
    <2> QED
        BY <2>1 DEF QueriesStayTrue, QueryIsAPromise
<1> QED
    BY <1>1, <1>2, <1>3, <1>4, <1>5, <1>6

\* A SLAVE's first snapshot is exact.
LEMMA AttachConsumerInv == RingInv /\ AttachConsumer => RingInv'
<1> SUFFICES ASSUME RingInv, AttachConsumer PROVE RingInv'
    OBVIOUS
<1> USE DEF RingInv, AttachConsumer, shared, producer, consumer
<1>0. /\ Size(head, tail) \in Slots /\ Free(head, tail) = Capacity - 1 - Size(head, tail)
      /\ Size(cachedHead, tail) \in Slots
      /\ Size(head, cachedTail) \in Slots
      /\ Free(head, tail) \in Slots /\ Free(head, cachedTail) \in Slots
      /\ Free(head, cachedTail) = Capacity - 1 - Size(head, cachedTail)
      /\ Capacity \in Nat /\ Capacity >= 2
    BY IndexFacts, CapacityAssumption
<1>1. TypeOK'
    BY <1>0 DEF TypeOK, PC
<1>2. ProducerLocals' /\ ConsumerLocals'
    BY DEF ProducerLocals, ConsumerLocals, TypeOK
<1>3. Accounting'
    BY DEF Accounting, Published, Consumed, ProducerLocals, ConsumerLocals, TypeOK
<1>4. StaleSnapshotUnderReports' /\ ChunkFits'
    BY <1>0 DEF StaleSnapshotUnderReports, ChunkFits, TypeOK, Slots, ConsumerLocals
<1>5. Contents' /\ FifoDelivery'
    BY DEF Contents, FifoDelivery, Consumed, TypeOK
<1>6. QueriesStayTrue' /\ QueryIsAPromise'
    BY DEF QueriesStayTrue, QueryIsAPromise, TypeOK
<1> QED
    BY <1>1, <1>2, <1>3, <1>4, <1>5, <1>6

\* The answer of the query is exact when it is given.
LEMMA SizeOfRingInv == RingInv /\ SizeOfRing => RingInv'
<1> SUFFICES ASSUME RingInv, SizeOfRing PROVE RingInv'
    OBVIOUS
<1> USE DEF RingInv, SizeOfRing, shared, producer, consumer
<1>0. /\ Size(head, tail) \in Slots /\ Free(head, tail) = Capacity - 1 - Size(head, tail)
      /\ Size(cachedHead, tail) \in Slots
      /\ Size(head, cachedTail) \in Slots
      /\ Free(head, tail) \in Slots /\ Free(head, cachedTail) \in Slots
      /\ Free(head, cachedTail) = Capacity - 1 - Size(head, cachedTail)
      /\ Capacity \in Nat /\ Capacity >= 2
    BY IndexFacts, CapacityAssumption
<1>1. TypeOK'
    BY CapacityAssumption, SizeFacts DEF TypeOK, PC
<1>2. ProducerLocals' /\ ConsumerLocals'
    BY DEF ProducerLocals, ConsumerLocals, TypeOK
<1>3. Accounting'
    BY DEF Accounting, Published, Consumed, ProducerLocals, ConsumerLocals, TypeOK
<1>4. StaleSnapshotUnderReports' /\ ChunkFits'
    BY DEF StaleSnapshotUnderReports, ChunkFits, TypeOK
<1>5. Contents' /\ FifoDelivery'
    BY DEF Contents, FifoDelivery, Consumed, TypeOK
<1>6. QueriesStayTrue' /\ QueryIsAPromise'
    BY <1>0 DEF QueriesStayTrue, QueryIsAPromise, TypeOK, Slots
<1> QED
    BY <1>1, <1>2, <1>3, <1>4, <1>5, <1>6

\* The call fits the stream and finds its locals reset.
LEMMA PopInv == \A n \in PopSizes : RingInv /\ Pop(n) => RingInv'
<1> SUFFICES ASSUME NEW n \in PopSizes, RingInv, Pop(n) PROVE RingInv'
    OBVIOUS
<1> USE DEF RingInv, Pop, shared, producer, consumer
<1>1. TypeOK'
    BY SizesAssumption, MaxBytesAssumption DEF TypeOK, PC
<1>2. ProducerLocals' /\ ConsumerLocals'
    BY SizesAssumption DEF ProducerLocals, ConsumerLocals, TypeOK
<1>3. Accounting'
    BY DEF Accounting, Published, Consumed, ProducerLocals, ConsumerLocals, TypeOK
<1>4. StaleSnapshotUnderReports' /\ ChunkFits'
    BY DEF StaleSnapshotUnderReports, ChunkFits, TypeOK
<1>5. Contents' /\ FifoDelivery'
    BY DEF Contents, FifoDelivery, Consumed, TypeOK
<1>6. QueriesStayTrue' /\ QueryIsAPromise'
    BY DEF QueriesStayTrue, QueryIsAPromise, TypeOK
<1> QED
    BY <1>1, <1>2, <1>3, <1>4, <1>5, <1>6

\* The fast path compares with the snapshot only.
LEMMA StartPopChunkInv == RingInv /\ StartPopChunk => RingInv'
<1> SUFFICES ASSUME RingInv, StartPopChunk PROVE RingInv'
    OBVIOUS
<1> USE DEF RingInv, StartPopChunk, shared, producer, consumer
<1>0. /\ ChunkSize(Capacity, cLeft) \in 1 .. Capacity - 1 /\ ChunkSize(Capacity, cLeft) <= cLeft
      /\ cLeft \in 1 .. MaxBytes
      /\ Capacity \in Nat /\ Capacity >= 2 /\ MaxBytes \in Nat
    BY ChunkFacts, CapacityAssumption, MaxBytesAssumption DEF TypeOK, Slots, ConsumerLocals
<1>1. TypeOK'
    BY <1>0 DEF TypeOK, PC, Slots, ConsumerLocals
<1>2. ProducerLocals' /\ ConsumerLocals'
    BY <1>0 DEF ProducerLocals, ConsumerLocals, TypeOK
<1>3. Accounting'
    BY DEF Accounting, Published, Consumed, ProducerLocals, ConsumerLocals, TypeOK
<1>4. StaleSnapshotUnderReports' /\ ChunkFits'
    BY DEF StaleSnapshotUnderReports, ChunkFits, TypeOK
<1>5. Contents' /\ FifoDelivery'
    BY DEF Contents, FifoDelivery, Consumed, TypeOK
<1>6. QueriesStayTrue' /\ QueryIsAPromise'
    BY DEF QueriesStayTrue, QueryIsAPromise, TypeOK
<1> QED
    BY <1>1, <1>2, <1>3, <1>4, <1>5, <1>6

\* The fresh snapshot is exact; a wait begins only if the whole chunk does not
\* fit, so not after a query that promised it would.
LEMMA LoadHeadInv == RingInv /\ LoadHead => RingInv'
<1> SUFFICES ASSUME RingInv, LoadHead PROVE RingInv'
    OBVIOUS
<1> USE DEF RingInv, LoadHead, shared, producer, consumer
<1>0. /\ Size(head, tail) \in Slots /\ Free(head, tail) = Capacity - 1 - Size(head, tail)
      /\ Size(cachedHead, tail) \in Slots
      /\ Size(head, cachedTail) \in Slots
      /\ Free(head, tail) \in Slots /\ Free(head, cachedTail) \in Slots
      /\ Free(head, cachedTail) = Capacity - 1 - Size(head, cachedTail)
      /\ Capacity \in Nat /\ Capacity >= 2
    BY IndexFacts, CapacityAssumption
<1>t. cChunk \in Slots /\ cSeen \in Slots \cup {-1} /\ cLeft \in Int
    BY MaxBytesAssumption DEF TypeOK
<1>1. TypeOK'
    BY DEF TypeOK, PC
<1>2. ProducerLocals' /\ ConsumerLocals'
    BY DEF ProducerLocals, ConsumerLocals, TypeOK
<1>3. Accounting'
    BY DEF Accounting, Published, Consumed, ProducerLocals, ConsumerLocals, TypeOK
<1>4. StaleSnapshotUnderReports' /\ ChunkFits'
    <2>1. cPc' = "copy" => cChunk <= Size(head, tail)
        BY <1>0, <1>t DEF Slots
    <2> QED
        BY <1>0, <2>1 DEF StaleSnapshotUnderReports, ChunkFits, Slots
<1>5. Contents' /\ FifoDelivery'
    BY DEF Contents, FifoDelivery, Consumed, TypeOK
<1>6. QueriesStayTrue' /\ QueryIsAPromise'
    <2>1. cChunk <= cLeft
        BY ChunkFacts, MaxBytesAssumption DEF ConsumerLocals, TypeOK
    <2>2. cPc' = "wait" => cSeen < cLeft
        BY <1>0, <1>t, <2>1 DEF QueriesStayTrue, Slots
    <2> QED
        BY <1>0, <2>1, <2>2 DEF QueriesStayTrue, QueryIsAPromise
<1> QED
    BY <1>1, <1>2, <1>3, <1>4, <1>5, <1>6

\* Waiting changes nothing.
LEMMA WaitDataPresentInv == RingInv /\ WaitDataPresent => RingInv'
<1> SUFFICES ASSUME RingInv, WaitDataPresent PROVE RingInv'
    OBVIOUS
<1> USE DEF RingInv, WaitDataPresent, shared, producer, consumer
<1>1. TypeOK'
    BY DEF TypeOK, PC
<1>2. ProducerLocals' /\ ConsumerLocals'
    BY DEF ProducerLocals, ConsumerLocals, TypeOK
<1>3. Accounting'
    BY DEF Accounting, Published, Consumed, ProducerLocals, ConsumerLocals, TypeOK
<1>4. StaleSnapshotUnderReports' /\ ChunkFits'
    BY DEF StaleSnapshotUnderReports, ChunkFits, TypeOK
<1>5. Contents' /\ FifoDelivery'
    BY DEF Contents, FifoDelivery, Consumed, TypeOK
<1>6. QueriesStayTrue' /\ QueryIsAPromise'
    BY DEF QueriesStayTrue, QueryIsAPromise, TypeOK
<1> QED
    BY <1>1, <1>2, <1>3, <1>4, <1>5, <1>6

\* The chunk is counted and the loop goes on with the rest.
LEMMA SignalDataFreeInv == RingInv /\ SignalDataFree => RingInv'
<1> SUFFICES ASSUME RingInv, SignalDataFree PROVE RingInv'
    OBVIOUS
<1> USE DEF RingInv, SignalDataFree, shared, producer, consumer
<1>0. /\ ChunkSize(Capacity, cLeft) \in 1 .. Capacity - 1 /\ ChunkSize(Capacity, cLeft) <= cLeft
      /\ cLeft \in 1 .. MaxBytes
      /\ Capacity \in Nat /\ Capacity >= 2 /\ MaxBytes \in Nat
    BY ChunkFacts, CapacityAssumption, MaxBytesAssumption DEF TypeOK, Slots, ConsumerLocals
<1>a. cChunk = ChunkSize(Capacity, cLeft) /\ cIdx = 0 /\ cPos + cLeft <= MaxBytes
    BY DEF ConsumerLocals
<1>t. cLeft \in Int /\ cPos \in Nat
    BY <1>0 DEF TypeOK
<1>b. /\ cLeft' \in 0 .. MaxBytes /\ cPos' \in 0 .. MaxBytes
      /\ cPos' + cLeft' <= MaxBytes
    BY <1>0, <1>a, <1>t
<1>1. TypeOK'
    <2>1. cPc' \in PC /\ cChunk' \in Slots /\ cIdx' \in 0 .. cChunk' /\ cSeen' = -1
        BY <1>0, <1>a DEF PC, Slots
    <2> QED
        BY <1>b, <2>1 DEF TypeOK
<1>2. ProducerLocals' /\ ConsumerLocals'
    BY <1>0, <1>a, <1>b DEF ProducerLocals, ConsumerLocals
<1>3. Accounting'
    BY DEF Accounting, Published, Consumed, ProducerLocals, ConsumerLocals, TypeOK
<1>4. StaleSnapshotUnderReports' /\ ChunkFits'
    BY DEF StaleSnapshotUnderReports, ChunkFits, TypeOK
<1>5. Contents' /\ FifoDelivery'
    BY DEF Contents, FifoDelivery, Consumed, TypeOK
<1>6. QueriesStayTrue' /\ QueryIsAPromise'
    <2>1. Size(head, tail) >= -1
        BY IndexFacts, CapacityAssumption DEF Slots
    <2> QED
        BY <2>1 DEF QueriesStayTrue, QueryIsAPromise
<1> QED
    BY <1>1, <1>2, <1>3, <1>4, <1>5, <1>6

\* The producer's current slot lies just past the published bytes and the bytes
\* already copied, inside the part of the ring the consumer has given back.
LEMMA WriteSlot ==
    ASSUME RingInv, pPc = "copy", NEW i \in 0 .. pChunk - 1
    PROVE  /\ Size(head, tail) + i \in Slots
           /\ CopySlot(Capacity, head, pChunk, i) = Adv(tail, Size(head, tail) + i)
<1>1. pChunk \in Slots /\ i \in Slots /\ head \in Slots /\ tail \in Slots
    BY CapacityAssumption DEF RingInv, TypeOK, Slots
<1>2. pChunk <= Free(head, tail)
    BY <1>1, IndexFacts, CapacityAssumption DEF RingInv, ChunkFits, StaleSnapshotUnderReports, Slots
<1>3. Size(head, tail) + i \in Slots /\ Size(head, tail) \in Slots
    <2>1. Size(head, tail) \in Slots /\ Free(head, tail) = Capacity - 1 - Size(head, tail)
        BY <1>1, SizeFacts
    <2> QED
        BY <1>1, <1>2, <2>1, CapacityAssumption DEF Slots
<1>4. CopySlot(Capacity, head, pChunk, i) = Adv(head, i)
    BY <1>1, CopySlotIsAdvance
<1>5. Adv(Adv(tail, Size(head, tail)), i) = Adv(tail, Size(head, tail) + i)
    BY <1>1, <1>3, AdvanceAdds
<1> QED
    BY <1>1, <1>3, <1>4, <1>5, HeadFromTail

\* The consumer's current slot lies among the published bytes.
LEMMA ReadSlot ==
    ASSUME RingInv, cPc = "copy", NEW j \in 0 .. cChunk - 1
    PROVE  /\ j \in Slots /\ j < Size(head, tail)
           /\ CopySlot(Capacity, tail, cChunk, j) = Adv(tail, j)
<1>1. cChunk \in Slots /\ j \in Slots /\ tail \in Slots
    BY CapacityAssumption DEF RingInv, TypeOK, Slots
<1>2. cChunk <= Size(head, tail)
    BY <1>1, IndexFacts, CapacityAssumption DEF RingInv, ChunkFits, StaleSnapshotUnderReports, Slots
<1>3. j < Size(head, tail)
    BY <1>1, <1>2, IndexFacts, CapacityAssumption DEF RingInv, Slots
<1> QED
    BY <1>1, <1>3, CopySlotIsAdvance

\* Copying in writes the next byte of the stream, and no byte that is there.
LEMMA CopyInInv == RingInv /\ CopyIn => RingInv'
<1> SUFFICES ASSUME RingInv, CopyIn PROVE RingInv'
    OBVIOUS
<1> DEFINE s == CopySlot(Capacity, head, pChunk, pIdx)
           z == Size(head, tail)
<1>0. /\ pPc = "copy" /\ pIdx \in 0 .. pChunk - 1 /\ pIdx \in Nat /\ pChunk \in Nat
      /\ pPos \in Nat /\ pLeft \in Nat /\ MaxBytes \in Nat
    BY CapacityAssumption, MaxBytesAssumption DEF RingInv, TypeOK, CopyIn, Slots
<1>1. z + pIdx \in Slots /\ s = Adv(tail, z + pIdx) /\ z \in Slots /\ tail \in Slots
    BY <1>0, WriteSlot, IndexFacts DEF RingInv, TypeOK
<1>2. s \in Slots
    BY <1>1, AdvanceInRing
<1>3. pPos + pIdx + 1 \in 0 .. MaxBytes
    <2>1. pChunk <= pLeft /\ pPos + pLeft <= MaxBytes
        BY <1>0, ChunkFacts DEF RingInv, ProducerLocals
    <2> QED
        BY <1>0, <2>1
<1>4. TypeOK'
    <2>1. buffer' \in [Slots -> 0 .. MaxBytes]
        BY <1>2, <1>3 DEF RingInv, TypeOK, CopyIn
    <2>2. pIdx' \in 0 .. pChunk'
        BY <1>0 DEF CopyIn
    <2> QED
        BY <2>1, <2>2 DEF RingInv, TypeOK, CopyIn, consumer
<1>5. Contents'
    <2> SUFFICES ASSUME NEW i \in 0 .. z + pIdx
                 PROVE  buffer'[Adv(tail, i)] = Consumed + i + 1
        BY <1>0, <1>1 DEF Contents, CopyIn, consumer, Consumed, Adv, Slots
    <2>1. i \in Slots
        BY <1>0, <1>1, CapacityAssumption DEF Slots
    <2>2. CASE i = z + pIdx
        <3>1. z = pPos - Consumed
            BY <1>0 DEF RingInv, Accounting, Published
        <3>2. Consumed \in Int
            BY CapacityAssumption DEF RingInv, TypeOK, Consumed, Slots
        <3>3. buffer'[s] = pPos + pIdx + 1
            BY <1>2 DEF CopyIn, RingInv, TypeOK
        <3> QED
            BY <1>0, <1>1, <2>2, <3>1, <3>2, <3>3
    <2>3. CASE i # z + pIdx
        <3>1. Adv(tail, i) # s /\ Adv(tail, i) \in Slots
            BY <1>1, <2>1, <2>3, AdvanceInjective, AdvanceInRing
        <3>2. buffer'[Adv(tail, i)] = buffer[Adv(tail, i)]
            BY <3>1 DEF CopyIn, RingInv, TypeOK
        <3>3. i \in 0 .. Size(head, tail) + pIdx - 1
            BY <1>0, <1>1, <2>3, CapacityAssumption DEF Slots
        <3> QED
            BY <3>2, <3>3 DEF RingInv, Contents, Adv
    <2> QED
        BY <2>2, <2>3
<1>6. ProducerLocals' /\ ConsumerLocals'
    BY DEF RingInv, ProducerLocals, ConsumerLocals, CopyIn, consumer
<1>7. Accounting' /\ StaleSnapshotUnderReports' /\ ChunkFits'
    BY DEF RingInv, CopyIn, consumer, Accounting, Published, Consumed,
           StaleSnapshotUnderReports, ChunkFits
<1>8. FifoDelivery' /\ QueriesStayTrue' /\ QueryIsAPromise'
    BY DEF RingInv, CopyIn, consumer, FifoDelivery, Consumed, QueriesStayTrue, QueryIsAPromise
<1> QED
    BY <1>4, <1>5, <1>6, <1>7, <1>8 DEF RingInv

\* Copying out reads the byte of the stream that the consumer expects.
LEMMA CopyOutInv == RingInv /\ CopyOut => RingInv'
<1> SUFFICES ASSUME RingInv, CopyOut PROVE RingInv'
    OBVIOUS
<1> DEFINE b == buffer[CopySlot(Capacity, tail, cChunk, cIdx)]
           k == cPos + cIdx + 1
<1>0. /\ cPc = "copy" /\ cIdx \in 0 .. cChunk - 1 /\ cIdx \in Nat /\ cChunk \in Nat
      /\ cPos \in Nat /\ cLeft \in Nat /\ MaxBytes \in Nat /\ pIdx \in Nat
    BY CapacityAssumption, MaxBytesAssumption DEF RingInv, TypeOK, CopyOut, Slots
<1>1. cIdx \in Slots /\ cIdx < Size(head, tail) /\ Size(head, tail) \in Nat
    BY <1>0, ReadSlot, IndexFacts, CapacityAssumption DEF RingInv, Slots
<1>2. b = k
    <2>1. cIdx \in 0 .. Size(head, tail) + pIdx - 1
        BY <1>0, <1>1
    <2>2. b = buffer[AdvanceIndex(Capacity, tail, cIdx)]
        BY <1>0, ReadSlot DEF Adv
    <2> QED
        BY <1>0, <2>1, <2>2 DEF RingInv, Contents, Consumed
<1>3. k \in 1 .. MaxBytes
    <2>1. cChunk <= cLeft /\ cPos + cLeft <= MaxBytes
        BY <1>0, ChunkFacts DEF RingInv, ConsumerLocals
    <2> QED
        BY <1>0, <2>1
<1>4. out' = [out EXCEPT ![k] = k] /\ out \in [1 .. MaxBytes -> 0 .. MaxBytes]
    BY <1>2 DEF CopyOut, RingInv, TypeOK
<1>5. TypeOK'
    <2>1. out' \in [1 .. MaxBytes -> 0 .. MaxBytes]
        BY <1>0, <1>3, <1>4
    <2>2. cIdx' \in 0 .. cChunk'
        BY <1>0 DEF CopyOut
    <2> QED
        BY <2>1, <2>2 DEF RingInv, TypeOK, CopyOut, shared, producer
<1>6. FifoDelivery'
    <2> SUFFICES ASSUME NEW m \in 1 .. k PROVE out'[m] = m
        BY <1>0 DEF FifoDelivery, Consumed, CopyOut
    <2>1. m \in 1 .. MaxBytes
        BY <1>0, <1>3
    <2>2. m # k => out[m] = m
        BY <1>0 DEF RingInv, FifoDelivery, Consumed
    <2> QED
        BY <1>4, <2>1, <2>2
<1>7. ProducerLocals' /\ ConsumerLocals'
    BY DEF RingInv, ProducerLocals, ConsumerLocals, CopyOut, producer
<1>8. Accounting' /\ StaleSnapshotUnderReports' /\ ChunkFits' /\ Contents'
    BY DEF RingInv, CopyOut, shared, producer, Accounting, Published, Consumed,
           StaleSnapshotUnderReports, ChunkFits, Contents
<1>9. QueriesStayTrue' /\ QueryIsAPromise'
    BY DEF RingInv, CopyOut, shared, producer, QueriesStayTrue, QueryIsAPromise
<1> QED
    BY <1>5, <1>6, <1>7, <1>8, <1>9 DEF RingInv

\* Storing head publishes exactly the chunk that was copied.
LEMMA StoreHeadInv == RingInv /\ StoreHead => RingInv'
<1> SUFFICES ASSUME RingInv, StoreHead PROVE RingInv'
    OBVIOUS
<1>0. /\ head \in Slots /\ tail \in Slots /\ cachedHead \in Slots /\ cachedTail \in Slots
      /\ pChunk \in Slots /\ pPc = "copy" /\ pPc' = "signal" /\ pIdx = pChunk
      /\ head' = Adv(head, pChunk)
    BY DEF RingInv, TypeOK, StoreHead, Adv
<1>1. pChunk <= Free(head, cachedTail) /\ pChunk <= Free(head, tail)
    BY <1>0, IndexFacts, CapacityAssumption DEF RingInv, ChunkFits, StaleSnapshotUnderReports, Slots
<1>2. /\ head' \in Slots
      /\ Size(head', tail) = Size(head, tail) + pChunk
      /\ Size(head', cachedTail) = Size(head, cachedTail) + pChunk
    BY <1>0, <1>1, AdvanceHead, AdvanceInRing
<1>3. /\ Size(head, tail) \in Slots /\ Size(head, cachedTail) \in Slots
      /\ Free(head, tail) = Capacity - 1 - Size(head, tail)
      /\ Free(head, cachedTail) = Capacity - 1 - Size(head, cachedTail)
      /\ Free(head', tail) = Capacity - 1 - Size(head', tail)
      /\ Free(head', cachedTail) = Capacity - 1 - Size(head', cachedTail)
      /\ Size(cachedHead, tail) \in Slots
    BY <1>0, <1>2, SizeFacts
<1>4. TypeOK'
    <2>1. pIdx' \in 0 .. pChunk' /\ pChunk' \in Slots
        BY <1>0, CapacityAssumption DEF StoreHead, Slots
    <2>2. pPc' \in PC
        BY <1>0 DEF PC
    <2> QED
        BY <1>2, <2>1, <2>2 DEF RingInv, TypeOK, StoreHead, consumer
<1>5. ProducerLocals' /\ ConsumerLocals'
    BY DEF RingInv, ProducerLocals, ConsumerLocals, StoreHead, consumer
<1>6. Accounting'
    <2>1. Published' = Published + pChunk /\ Consumed' = Consumed
        BY <1>0 DEF Published, Consumed, StoreHead, consumer
    <2>2. Published \in Int /\ Consumed \in Int
        BY CapacityAssumption DEF RingInv, TypeOK, Published, Consumed, Slots
    <2> QED
        BY <1>0, <1>2, <1>3, <2>1, <2>2, CapacityAssumption DEF RingInv, Accounting, StoreHead, Slots
<1>7. StaleSnapshotUnderReports'
    BY <1>0, <1>2, <1>3, CapacityAssumption
    DEF RingInv, StaleSnapshotUnderReports, StoreHead, consumer, Slots
<1>8. ChunkFits'
    BY <1>0 DEF RingInv, ChunkFits, StoreHead, consumer
<1>9. Contents'
    BY <1>0, <1>2, <1>3, CapacityAssumption DEF RingInv, Contents, Consumed, StoreHead, consumer, Slots
<1>10. FifoDelivery'
    BY DEF RingInv, FifoDelivery, Consumed, StoreHead, consumer
<1>11. QueriesStayTrue' /\ QueryIsAPromise'
    <2>1. cSeen \in Int
        BY CapacityAssumption DEF RingInv, TypeOK, Slots
    <2> QED
        BY <1>0, <1>2, <1>3, <2>1, CapacityAssumption
        DEF RingInv, QueriesStayTrue, QueryIsAPromise, StoreHead, consumer, Slots
<1> QED
    BY <1>4, <1>5, <1>6, <1>7, <1>8, <1>9, <1>10, <1>11 DEF RingInv

\* Storing tail gives back exactly the chunk that was copied out.
LEMMA StoreTailInv == RingInv /\ StoreTail => RingInv'
<1> SUFFICES ASSUME RingInv, StoreTail PROVE RingInv'
    OBVIOUS
<1>0. /\ head \in Slots /\ tail \in Slots /\ cachedHead \in Slots /\ cachedTail \in Slots
      /\ cChunk \in Slots /\ cPc = "copy" /\ cPc' = "signal" /\ cIdx = cChunk
      /\ tail' = Adv(tail, cChunk)
    BY DEF RingInv, TypeOK, StoreTail, Adv
<1>1. cChunk <= Size(cachedHead, tail) /\ cChunk <= Size(head, tail)
    BY <1>0, IndexFacts, CapacityAssumption DEF RingInv, ChunkFits, StaleSnapshotUnderReports, Slots
<1>2. /\ tail' \in Slots
      /\ Size(head, tail') = Size(head, tail) - cChunk
      /\ Size(cachedHead, tail') = Size(cachedHead, tail) - cChunk
    BY <1>0, <1>1, AdvanceTail, AdvanceInRing
<1>3. /\ Size(head, tail) \in Slots /\ Size(head, cachedTail) \in Slots
      /\ Free(head, tail) = Capacity - 1 - Size(head, tail)
      /\ Free(head, cachedTail) = Capacity - 1 - Size(head, cachedTail)
      /\ Free(head, tail') = Capacity - 1 - Size(head, tail')
      /\ Size(cachedHead, tail) \in Slots
    BY <1>0, <1>2, SizeFacts
<1>4. TypeOK'
    <2>1. cIdx' \in 0 .. cChunk' /\ cChunk' \in Slots
        BY <1>0, CapacityAssumption DEF StoreTail, Slots
    <2>2. cPc' \in PC
        BY <1>0 DEF PC
    <2> QED
        BY <1>2, <2>1, <2>2 DEF RingInv, TypeOK, StoreTail, producer
<1>5. ProducerLocals' /\ ConsumerLocals'
    BY DEF RingInv, ProducerLocals, ConsumerLocals, StoreTail, producer
<1>6. Published' = Published /\ Consumed' = Consumed + cChunk /\ Published \in Int /\ Consumed \in Int
    BY <1>0, CapacityAssumption DEF RingInv, TypeOK, Published, Consumed, StoreTail, producer, Slots
<1>7. Accounting'
    BY <1>0, <1>2, <1>3, <1>6, CapacityAssumption DEF RingInv, Accounting, StoreTail, Slots
<1>8. StaleSnapshotUnderReports'
    BY <1>0, <1>2, <1>3, CapacityAssumption
    DEF RingInv, StaleSnapshotUnderReports, StoreTail, producer, Slots
<1>9. ChunkFits'
    BY <1>0 DEF RingInv, ChunkFits, StoreTail, producer
<1>10. Contents'
    <2>1. pIdx \in Nat /\ Size(head, tail) + pIdx \in Slots
        <3>1. pPc = "copy" => pChunk <= Free(head, tail)
            <4>1. pChunk \in Slots /\ Free(head, tail) \in Slots /\ Free(head, cachedTail) \in Slots
                BY IndexFacts DEF RingInv, TypeOK
            <4> QED
                BY <4>1, CapacityAssumption DEF RingInv, ChunkFits, StaleSnapshotUnderReports, Slots
        <3>2. pIdx \in 0 .. pChunk /\ pChunk \in Slots /\ (pPc # "copy" => pIdx = 0)
            BY DEF RingInv, TypeOK, ProducerLocals
        <3> QED
            BY <1>3, <3>1, <3>2, CapacityAssumption DEF Slots
    <2> SUFFICES ASSUME NEW i \in 0 .. Size(head, tail) - cChunk + pIdx - 1
                 PROVE  buffer[Adv(Adv(tail, cChunk), i)] = Consumed + cChunk + i + 1
        BY <1>0, <1>2, <1>6 DEF Contents, StoreTail, producer, Adv
    <2>2. i \in Slots /\ cChunk + i \in Slots /\ cChunk + i \in 0 .. Size(head, tail) + pIdx - 1
        BY <1>0, <1>1, <1>3, <2>1, CapacityAssumption DEF Slots
    <2>3. Adv(Adv(tail, cChunk), i) = Adv(tail, cChunk + i)
        BY <1>0, <2>2, AdvanceAdds
    <2>4. buffer[Adv(tail, cChunk + i)] = Consumed + (cChunk + i) + 1
        BY <2>2 DEF RingInv, Contents, Adv
    <2> QED
        BY <1>0, <1>6, <2>2, <2>3, <2>4, CapacityAssumption DEF Slots
<1>11. FifoDelivery'
    <2>1. (Consumed + cIdx)' = Consumed + cIdx
        BY <1>0, <1>6, CapacityAssumption DEF StoreTail, Slots
    <2> QED
        BY <2>1 DEF RingInv, FifoDelivery, StoreTail
<1>12. QueriesStayTrue' /\ QueryIsAPromise'
    <2>1. pSeen \in Int
        BY CapacityAssumption DEF RingInv, TypeOK, Slots
    <2> QED
        BY <1>0, <1>2, <1>3, <2>1, CapacityAssumption
        DEF RingInv, QueriesStayTrue, QueryIsAPromise, StoreTail, producer, Slots
<1> QED
    BY <1>4, <1>5, <1>7, <1>8, <1>9, <1>10, <1>11, <1>12 DEF RingInv

\* Every step of either process preserves the ring invariant.
LEMMA NextRingInv == RingInv /\ [Next]_vars => RingInv'
<1> SUFFICES ASSUME RingInv, [Next]_vars PROVE RingInv'
    OBVIOUS
<1>1. CASE Producer
    BY <1>1, AttachProducerInv, FreeSpaceInv, PushInv, StartPushChunkInv, LoadTailInv,
       WaitDataFreeInv, CopyInInv, StoreHeadInv, SignalDataPresentInv
    DEF Producer, ProducerCalls, ProducerRuns
<1>2. CASE Consumer
    BY <1>2, AttachConsumerInv, SizeOfRingInv, PopInv, StartPopChunkInv, LoadHeadInv,
       WaitDataPresentInv, CopyOutInv, StoreTailInv, SignalDataFreeInv
    DEF Consumer, ConsumerCalls, ConsumerRuns
<1>3. CASE UNCHANGED vars
    <2> USE <1>3 DEF vars, shared, producer, consumer
    <2>1. TypeOK' /\ ProducerLocals' /\ ConsumerLocals' /\ Accounting'
        BY DEF RingInv, TypeOK, ProducerLocals, ConsumerLocals, Accounting, Published, Consumed
    <2>2. StaleSnapshotUnderReports' /\ ChunkFits' /\ Contents' /\ FifoDelivery'
        BY DEF RingInv, StaleSnapshotUnderReports, ChunkFits, Contents, FifoDelivery, Consumed
    <2>3. QueriesStayTrue' /\ QueryIsAPromise'
        BY DEF RingInv, QueriesStayTrue, QueryIsAPromise
    <2> QED
        BY <2>1, <2>2, <2>3 DEF RingInv
<1> QED
    BY <1>1, <1>2, <1>3 DEF Next

-----------------------------------------------------------------------------
(* The theorems.                                                           *)

\* The ring invariant holds in every reachable state, for every capacity.
THEOREM RingInvariance == Spec => []RingInv
<1> QED
    BY InitRingInv, NextRingInv, PTL DEF Spec

\* push and pop keep both indices inside the ring and all their locals in the
\* ranges their size_t arithmetic needs.
THEOREM TypeCorrectness == Spec => []TypeOK
<1>1. RingInv => TypeOK
    BY DEF RingInv
<1> QED
    BY <1>1, RingInvariance, PTL

\* pop delivers the bytes of push, in order, none lost, none duplicated.
THEOREM RingDeliversFifo == Spec => []FifoDelivery
<1>1. RingInv => FifoDelivery
    BY DEF RingInv
<1> QED
    BY <1>1, RingInvariance, PTL

\* The memcpy of push and the memcpy of pop never touch the same byte of shared
\* memory, although no lock protects it.
THEOREM RingIsRaceFree == Spec => []NoDataRace
<1>1. RingInv => NoDataRace
    <2> SUFFICES ASSUME RingInv, pPc = "copy", cPc = "copy",
                        NEW i \in pIdx .. pChunk - 1, NEW j \in cIdx .. cChunk - 1
                 PROVE  CopySlot(Capacity, head, pChunk, i) # CopySlot(Capacity, tail, cChunk, j)
        BY DEF NoDataRace
    <2>1. i \in 0 .. pChunk - 1 /\ j \in 0 .. cChunk - 1
        BY CapacityAssumption DEF RingInv, TypeOK, Slots
    <2>2. /\ Size(head, tail) + i \in Slots
          /\ CopySlot(Capacity, head, pChunk, i) = Adv(tail, Size(head, tail) + i)
        BY <2>1, WriteSlot
    <2>3. /\ j \in Slots /\ j < Size(head, tail)
          /\ CopySlot(Capacity, tail, cChunk, j) = Adv(tail, j)
        BY <2>1, ReadSlot
    <2>4. Size(head, tail) + i # j /\ tail \in Slots
        <3>1. Size(head, tail) \in Slots /\ tail \in Slots
            BY IndexFacts DEF RingInv, TypeOK
        <3>2. i >= 0 /\ i \in Int
            BY <2>1
        <3> QED
            BY <2>3, <3>1, <3>2, CapacityAssumption DEF Slots
    <2> QED
        BY <2>2, <2>3, <2>4, AdvanceInjective
<1> QED
    BY <1>1, RingInvariance, PTL

\* A stale snapshot of the other side's index is always on the safe side.
THEOREM SnapshotsUnderReport == Spec => []StaleSnapshotUnderReports
<1>1. RingInv => StaleSnapshotUnderReports
    BY DEF RingInv
<1> QED
    BY <1>1, RingInvariance, PTL

\* After size() or freeSpace() said there was enough, the pop or push does not
\* wait.
THEOREM QueriesArePromises == Spec => []QueryIsAPromise
<1>1. RingInv => QueryIsAPromise
    BY DEF RingInv
<1> QED
    BY <1>1, RingInvariance, PTL

-----------------------------------------------------------------------------
(* The ring implements BoundedFifo.                                        *)

\* The bytes of the stream after position a, up to position b.
Stream(a, b) == [i \in 1 .. b - a |-> a + i]

\* What is on the channel and what has been delivered, in terms of the stream.
OnTheChannel ==
    /\ Published \in Nat /\ Consumed \in Nat /\ Consumed <= Published
    /\ Published - Consumed <= Capacity - 1
    /\ Chan = Stream(Consumed, Published)
    /\ Delivered = Stream(0, Consumed)

\* It follows from the ring invariant: the slots between the indices hold the
\* stream, and so does what pop copied out.
LEMMA AbstractState == RingInv => OnTheChannel
<1> SUFFICES ASSUME RingInv PROVE OnTheChannel
    OBVIOUS
<1>1. Published \in Nat /\ Consumed \in Nat
    BY CapacityAssumption, MaxBytesAssumption DEF RingInv, TypeOK, Published, Consumed, Slots
<1>2. Size(head, tail) \in Slots /\ Published - Consumed = Size(head, tail)
    BY IndexFacts DEF RingInv, Accounting
<1>3. Chan = Stream(Consumed, Published)
    <2> SUFFICES ASSUME NEW i \in 1 .. Size(head, tail)
                 PROVE  buffer[AdvanceIndex(Capacity, tail, i - 1)] = Consumed + i
        BY <1>2 DEF Chan, Stream
    <2>1. pIdx \in Nat
        BY CapacityAssumption DEF RingInv, TypeOK, Slots
    <2>2. i - 1 \in 0 .. Size(head, tail) + pIdx - 1
        BY <1>2, <2>1, CapacityAssumption DEF Slots
    <2>3. buffer[AdvanceIndex(Capacity, tail, i - 1)] = Consumed + (i - 1) + 1
        BY <2>2 DEF RingInv, Contents
    <2> QED
        BY <1>1, <1>2, <2>3, CapacityAssumption DEF Slots
<1>4. Delivered = Stream(0, Consumed)
    <2>1. cIdx \in Nat
        BY CapacityAssumption DEF RingInv, TypeOK, Slots
    <2>2. \A k \in 1 .. Consumed : out[k] = k
        BY <1>1, <2>1 DEF RingInv, FifoDelivery
    <2> QED
        BY <1>1, <2>2 DEF Delivered, Stream
<1>5. Consumed <= Published /\ Published - Consumed <= Capacity - 1
    BY <1>1, <1>2, CapacityAssumption DEF Slots
<1> QED
    BY <1>1, <1>3, <1>4, <1>5 DEF OnTheChannel

\* Publishing k bytes lengthens the stretch on the channel by the next k bytes.
LEMMA StreamPublish ==
    ASSUME NEW a \in Nat, NEW b \in Nat, NEW k \in Nat, a <= b
    PROVE  /\ Len(Stream(a, b)) = b - a
           /\ Stream(a, b + k) = Stream(a, b)
                   \o [i \in 1 .. k |-> Len(Stream(0, a)) + Len(Stream(a, b)) + i]
BY DEF Stream

\* Taking k bytes moves the boundary between the two stretches.
LEMMA StreamTake ==
    ASSUME NEW a \in Nat, NEW b \in Nat, NEW k \in Nat, a + k <= b
    PROVE  /\ k <= Len(Stream(a, b))
           /\ Stream(0, a + k) = Stream(0, a) \o SubSeq(Stream(a, b), 1, k)
           /\ Stream(a + k, b) = SubSeq(Stream(a, b), k + 1, Len(Stream(a, b)))
<1>1. Len(Stream(a, b)) = b - a /\ Len(Stream(0, a)) = a
    BY DEF Stream
<1>2. SubSeq(Stream(a, b), 1, k) = [i \in 1 .. k |-> a + i]
    BY DEF Stream
<1>3. Stream(0, a + k) = Stream(0, a) \o [i \in 1 .. k |-> a + i]
    BY DEF Stream
<1>4. SubSeq(Stream(a, b), k + 1, b - a) = [i \in 1 .. b - (a + k) |-> (a + k) + i]
    BY DEF Stream
<1> QED
    BY <1>1, <1>2, <1>3, <1>4 DEF Stream

\* StoreHead appends the whole chunk to the channel at once.
LEMMA StoreHeadPublishes ==
    ASSUME RingInv, OnTheChannel, OnTheChannel', StoreHead
    PROVE  Fifo!Publish(pChunk) /\ pChunk \in 1 .. Capacity - 1
<1>1. /\ Published' = Published + pChunk /\ Consumed' = Consumed
      /\ pChunk \in 1 .. Capacity - 1 /\ pChunk \in Nat
    BY ChunkFacts, CapacityAssumption, MaxBytesAssumption
    DEF StoreHead, consumer, Published, Consumed, RingInv, TypeOK, ProducerLocals, Slots
<1>2. PICK a \in Nat, b \in Nat, k \in Nat :
           /\ a = Consumed /\ b = Published /\ k = pChunk
           /\ a <= b /\ b + k - a <= Capacity - 1
           /\ Chan = Stream(a, b) /\ Chan' = Stream(a, b + k)
           /\ Delivered = Stream(0, a) /\ Delivered' = Stream(0, a)
    BY <1>1 DEF OnTheChannel
<1>3. Len(Chan) + k <= Capacity - 1 /\ Chan' = Chan \o Fifo!NextBytes(k)
    <2>1. /\ Len(Stream(a, b)) = b - a
          /\ Stream(a, b + k) = Stream(a, b)
                  \o [i \in 1 .. k |-> Len(Stream(0, a)) + Len(Stream(a, b)) + i]
        <3>1. a <= b
            BY <1>2
        <3> QED
            BY <3>1, StreamPublish, Zenon
    <2>2. Len(Chan) + k <= Capacity - 1
        <3>1. Len(Chan) = b - a
            BY <1>2, <2>1, Zenon
        <3> QED
            BY <1>2, <3>1, CapacityAssumption
    <2>3. Chan' = Chan \o Fifo!NextBytes(k)
        BY <1>2, <2>1, Zenon DEF Fifo!NextBytes
    <2> QED
        BY <2>2, <2>3
<1> QED
    BY <1>1, <1>2, <1>3 DEF Fifo!Publish

\* StoreTail takes the whole chunk from the channel at once.
LEMMA StoreTailTakes ==
    ASSUME RingInv, OnTheChannel, OnTheChannel', StoreTail
    PROVE  Fifo!Take(cChunk) /\ cChunk \in 1 .. Capacity - 1
<1>1. /\ Published' = Published /\ Consumed' = Consumed + cChunk
      /\ cChunk \in 1 .. Capacity - 1 /\ cChunk \in Nat
    BY ChunkFacts, CapacityAssumption, MaxBytesAssumption
    DEF StoreTail, producer, Published, Consumed, RingInv, TypeOK, ConsumerLocals, Slots
<1>2. PICK a \in Nat, b \in Nat, k \in Nat :
           /\ a = Consumed /\ b = Published /\ k = cChunk /\ a + k <= b
           /\ Chan = Stream(a, b) /\ Chan' = Stream(a + k, b)
           /\ Delivered = Stream(0, a) /\ Delivered' = Stream(0, a + k)
    BY <1>1 DEF OnTheChannel
<1>3. /\ k <= Len(Chan)
      /\ Delivered' = Delivered \o SubSeq(Chan, 1, k)
      /\ Chan' = SubSeq(Chan, k + 1, Len(Chan))
    <2>0. a + k <= b
        BY <1>2
    <2>1. /\ k <= Len(Stream(a, b))
          /\ Stream(0, a + k) = Stream(0, a) \o SubSeq(Stream(a, b), 1, k)
          /\ Stream(a + k, b) = SubSeq(Stream(a, b), k + 1, Len(Stream(a, b)))
        BY <2>0, StreamTake
    <2> QED
        BY <1>2, <2>1, Zenon
<1> QED
    BY <1>1, <1>2, <1>3 DEF Fifo!Take

\* Every other step moves bytes between private memory and slots that are not
\* on the channel: neither what is published nor what is consumed changes.
LEMMA OtherStepsStutter ==
    ASSUME RingInv, OnTheChannel, OnTheChannel', [Next]_vars, ~StoreHead, ~StoreTail
    PROVE  UNCHANGED <<Chan, Delivered>>
<1>1. Published' = Published /\ Consumed' = Consumed
    <2>1. pChunk \in Int /\ pPos \in Int /\ cChunk \in Int /\ cPos \in Int
        BY CapacityAssumption, MaxBytesAssumption DEF RingInv, TypeOK, Slots
    <2>2. CASE Producer
        BY <2>1, <2>2 DEF Producer, ProducerCalls, ProducerRuns, AttachProducer, FreeSpace, Push,
           StartPushChunk, LoadTail, WaitDataFree, CopyIn, SignalDataPresent, consumer,
           Published, Consumed
    <2>3. CASE Consumer
        BY <2>1, <2>3 DEF Consumer, ConsumerCalls, ConsumerRuns, AttachConsumer, SizeOfRing, Pop,
           StartPopChunk, LoadHead, WaitDataPresent, CopyOut, SignalDataFree, producer,
           Published, Consumed
    <2>4. CASE UNCHANGED vars
        BY <2>4 DEF vars, producer, consumer, Published, Consumed
    <2> QED
        BY <2>2, <2>3, <2>4 DEF Next
<1> QED
    BY <1>1 DEF OnTheChannel

\* The ring of bytes, with its two processes copying byte by byte between stale
\* snapshots, is for its users a bounded FIFO whose chunks appear and disappear
\* atomically.
THEOREM RingImplementsFifo == Spec => ImplementsFifo
<1>1. Init => Fifo!Init
    <2> SUFFICES ASSUME Init PROVE Chan = << >> /\ Delivered = << >>
        BY DEF Fifo!Init
    <2>1. Published = 0 /\ Consumed = 0
        BY DEF Init, Published, Consumed
    <2> QED
        BY <2>1, InitRingInv, AbstractState DEF OnTheChannel, Stream
<1>2. RingInv /\ OnTheChannel /\ OnTheChannel' /\ [Next]_vars => [Fifo!Next]_<<Chan, Delivered>>
    <2> SUFFICES ASSUME RingInv, OnTheChannel, OnTheChannel', [Next]_vars
                 PROVE  [Fifo!Next]_<<Chan, Delivered>>
        OBVIOUS
    <2>1. CASE StoreHead
        BY <2>1, StoreHeadPublishes DEF Fifo!Next
    <2>2. CASE StoreTail
        BY <2>2, StoreTailTakes DEF Fifo!Next
    <2>3. CASE ~StoreHead /\ ~StoreTail
        BY <2>3, OtherStepsStutter
    <2> QED
        BY <2>1, <2>2, <2>3
<1> QED
    BY <1>1, <1>2, AbstractState, RingInvariance, PTL DEF Spec, ImplementsFifo, Fifo!Spec

-----------------------------------------------------------------------------
(* InterprocessQueue.                                                      *)

\* A queue step is a step of the ring, or a step of a signal that leaves the
\* ring alone: the lock policy decides when a wait returns and nothing else.
THEOREM QueueImplementsRing == QueueSpec => Spec
<1>1. QueueInit => Init
    BY DEF QueueInit
<1>2. [QueueNext]_queueVars => [Next]_vars
    <2> SUFFICES ASSUME [QueueNext]_queueVars PROVE Next \/ UNCHANGED vars
        OBVIOUS
    <2>1. CASE ConstructSignals \/ Spurious
        BY <2>1 DEF ConstructSignals, Spurious
    <2>2. CASE AttachSlave \/ CallsOfProducer \/ CallsOfConsumer
        BY <2>2 DEF AttachSlave, CallsOfProducer, CallsOfConsumer, Next, Producer, Consumer,
                    ProducerCalls, ConsumerCalls
    <2>3. CASE ProducerInside
        BY <2>3 DEF ProducerInside, RunsOfProducer, WaitDataFreeRuns, WaitDataFreeReturns,
                    SignalDataPresentRuns, SignalDataPresentReturns, Next, Producer
    <2>4. CASE ConsumerInside
        BY <2>4 DEF ConsumerInside, RunsOfConsumer, WaitDataPresentRuns, WaitDataPresentReturns,
                    SignalDataFreeRuns, SignalDataFreeReturns, Next, Consumer
    <2>5. CASE UNCHANGED queueVars
        BY <2>5 DEF queueVars
    <2> QED
        BY <2>1, <2>2, <2>3, <2>4, <2>5 DEF QueueNext
<1> QED
    BY <1>1, <1>2, PTL DEF QueueSpec, Spec

\* The bytes InterprocessQueue delivers are those pushed, in order, whichever
\* InterprocessSignal is compiled in and however its waits end.
THEOREM QueueDeliversFifo == QueueSpec => []FifoDelivery
<1> QED
    BY QueueImplementsRing, RingDeliversFifo, PTL

\* The calls of the lock policy and the signals they run keep in step: only the
\* consumer waits on dataPresentEvent, inside waitDataPresent, and only the
\* producer signals it, inside signalDataPresent.
PresentCalls ==
    /\ dpSt \in [Procs -> DataPresent!States] /\ dpWord \in {0, 1}
    /\ dpSt["producer"] \in {"out", "wake"}
    /\ dpSt["producer"] = "wake" => pPc = "signal"
    /\ dpSt["consumer"] # "wake"
    /\ dpSt["consumer"] # "out" => cPc = "wait"
    /\ pPc = "detached" => dpWord = 0

\* The same for dataFreeEvent with the sides exchanged.
FreeCalls ==
    /\ dfSt \in [Procs -> DataFree!States] /\ dfWord \in {0, 1}
    /\ dfSt["consumer"] \in {"out", "wake"}
    /\ dfSt["consumer"] = "wake" => cPc = "signal"
    /\ dfSt["producer"] # "wake"
    /\ dfSt["producer"] # "out" => pPc = "wait"
    /\ cPc = "detached" => dfWord = 0

\* A pop that waits although its bytes are there has a signal up, or one that is
\* about to be raised; and if it sleeps, the producer is about to wake it.
PresentIsAnnounced ==
    build # "posix" =>
        /\ cPc = "wait" /\ Size(head, tail) >= cChunk =>
               dpWord = 1 \/ (pPc = "signal" /\ dpSt["producer"] = "out")
        /\ dpSt["consumer"] = "sleep" => build = "futex"
        /\ dpSt["consumer"] = "sleep" /\ dpWord = 1 => dpSt["producer"] = "wake"

\* The same for a push that waits although its room is there.
FreeIsAnnounced ==
    build # "posix" =>
        /\ pPc = "wait" /\ Free(head, tail) >= pChunk =>
               dfWord = 1 \/ (cPc = "signal" /\ dfSt["consumer"] = "out")
        /\ dfSt["producer"] = "sleep" => build = "futex"
        /\ dfSt["producer"] = "sleep" /\ dfWord = 1 => dfSt["consumer"] = "wake"

\* The invariant of the queue, on top of that of its ring: the SLAVE's
\* constructor resets the signals before the SLAVE has made any call.
QueueInv ==
    /\ RingInv
    /\ PresentCalls /\ FreeCalls
    /\ PresentIsAnnounced /\ FreeIsAnnounced
    /\ ~slaveSignals => pPc = "detached" \/ cPc = "detached"

\* No wakeup is lost where a signal is kept until it is taken: a pop sleeps
\* beside bytes that suffice it, or a push beside room that suffices it, only
\* while the other side is still inside the call that will wake it.
NoLostWakeup ==
    build # "posix" =>
        /\ dpSt["consumer"] = "sleep" /\ Size(head, tail) >= cChunk => pPc = "signal"
        /\ dfSt["producer"] = "sleep" /\ Free(head, tail) >= pChunk => cPc = "signal"

\* The steps of the ring that call no signal.
SilentStep == \/ AttachProducer \/ FreeSpace \/ (\E n \in PushSizes : Push(n)) \/ ProducerRuns
              \/ AttachConsumer \/ SizeOfRing \/ (\E n \in PopSizes : Pop(n)) \/ ConsumerRuns

\* They leave a side inside a call of its lock policy where it is, and they make
\* a wait pointless only by going on to signal its end.
LEMMA SilentSteps ==
    ASSUME RingInv, SilentStep
    PROVE  /\ \A pc \in {"wait", "signal"} : (pPc = pc => pPc' = pc) /\ (cPc = pc => cPc' = pc)
           /\ pPc' = "detached" => pPc = "detached"
           /\ cPc' = "detached" => cPc = "detached"
           /\ cPc' = "wait" /\ Size(head', tail') >= cChunk' =>
                  \/ pPc' = "signal" /\ pPc # "signal"
                  \/ cPc = "wait" /\ Size(head, tail) >= cChunk
           /\ pPc' = "wait" /\ Free(head', tail') >= pChunk' =>
                  \/ cPc' = "signal" /\ cPc # "signal"
                  \/ pPc = "wait" /\ Free(head, tail) >= pChunk
<1>1. /\ Size(head, tail) \in Int /\ Free(head, tail) \in Int
      /\ pChunk \in Int /\ cChunk \in Int
    BY IndexFacts, CapacityAssumption DEF RingInv, TypeOK, Slots
<1>2. CASE AttachProducer \/ FreeSpace \/ (\E n \in PushSizes : Push(n))
    BY <1>2 DEF AttachProducer, FreeSpace, Push, shared, consumer
<1>3. CASE AttachConsumer \/ SizeOfRing \/ (\E n \in PopSizes : Pop(n))
    BY <1>3 DEF AttachConsumer, SizeOfRing, Pop, shared, producer
<1>4. CASE StartPushChunk \/ CopyIn \/ StoreHead
    BY <1>4 DEF StartPushChunk, CopyIn, StoreHead, shared, consumer
<1>5. CASE StartPopChunk \/ CopyOut \/ StoreTail
    BY <1>5 DEF StartPopChunk, CopyOut, StoreTail, shared, producer
<1>6. CASE LoadTail
    BY <1>1, <1>6 DEF LoadTail, shared, consumer
<1>7. CASE LoadHead
    BY <1>1, <1>7 DEF LoadHead, shared, producer
<1> QED
    BY <1>2, <1>3, <1>4, <1>5, <1>6, <1>7 DEF SilentStep, ProducerRuns, ConsumerRuns

\* The queue with both signals untouched.
SilentQueueStep == SilentStep /\ UNCHANGED <<dpVars, dfVars, build, slaveSignals>>

\* What holds of the signals outlasts it.
LEMMA SilentInv == QueueInv /\ SilentQueueStep =>
    PresentCalls' /\ FreeCalls' /\ PresentIsAnnounced' /\ FreeIsAnnounced'
<1> SUFFICES ASSUME QueueInv, SilentQueueStep
             PROVE  PresentCalls' /\ FreeCalls' /\ PresentIsAnnounced' /\ FreeIsAnnounced'
    OBVIOUS
<1>1. /\ \A pc \in {"wait", "signal"} : (pPc = pc => pPc' = pc) /\ (cPc = pc => cPc' = pc)
      /\ pPc' = "detached" => pPc = "detached"
      /\ cPc' = "detached" => cPc = "detached"
    BY SilentSteps DEF QueueInv, SilentQueueStep
<1>2. cPc' = "wait" /\ Size(head', tail') >= cChunk' =>
          \/ pPc' = "signal" /\ pPc # "signal"
          \/ cPc = "wait" /\ Size(head, tail) >= cChunk
    BY SilentSteps DEF QueueInv, SilentQueueStep
<1>3. pPc' = "wait" /\ Free(head', tail') >= pChunk' =>
          \/ cPc' = "signal" /\ cPc # "signal"
          \/ pPc = "wait" /\ Free(head, tail) >= pChunk
    BY SilentSteps DEF QueueInv, SilentQueueStep
<1>4. UNCHANGED <<dpWord, dpSt, dfWord, dfSt, build>>
    BY DEF SilentQueueStep, dpVars, dfVars
<1>5. PresentCalls'
    BY <1>1, <1>4 DEF QueueInv, PresentCalls
<1>6. FreeCalls'
    BY <1>1, <1>4 DEF QueueInv, FreeCalls
<1>7. PresentIsAnnounced'
    BY <1>1, <1>2, <1>4 DEF QueueInv, PresentIsAnnounced, PresentCalls
<1>8. FreeIsAnnounced'
    BY <1>1, <1>3, <1>4 DEF QueueInv, FreeIsAnnounced, FreeCalls
<1> QED
    BY <1>5, <1>6, <1>7, <1>8

\* The SLAVE's constructor resets a word that announces nothing to anyone: either
\* the waiting side or the signalling side does not exist yet.
LEMMA ConstructInv == QueueInv /\ ConstructSignals =>
    PresentCalls' /\ FreeCalls' /\ PresentIsAnnounced' /\ FreeIsAnnounced'
<1> SUFFICES ASSUME QueueInv, ConstructSignals
             PROVE  PresentCalls' /\ FreeCalls' /\ PresentIsAnnounced' /\ FreeIsAnnounced'
    OBVIOUS
<1>1. /\ UNCHANGED <<head, tail, pPc, pChunk, cPc, cChunk, build>>
      /\ pPc = "detached" \/ cPc = "detached"
      /\ PresentCalls /\ FreeCalls /\ PresentIsAnnounced /\ FreeIsAnnounced
    BY DEF ConstructSignals, vars, shared, producer, consumer, DataPresent!SlaveConstruct, QueueInv
<1>2. /\ dpWord' = IF build = "futex" THEN 0 ELSE dpWord
      /\ dfWord' = IF build = "futex" THEN 0 ELSE dfWord
      /\ build # "posix" => UNCHANGED <<dpSt, dfSt>>
    BY DEF ConstructSignals, DataPresent!SlaveConstruct, DataFree!SlaveConstruct
<1>3. PresentCalls'
    BY <1>1, <1>2 DEF ConstructSignals, PresentCalls, DataPresent!SlaveConstruct,
                      DataPresent!Asleep, DataPresent!States, Procs
<1>4. FreeCalls'
    BY <1>1, <1>2 DEF ConstructSignals, FreeCalls, DataFree!SlaveConstruct,
                      DataFree!Asleep, DataFree!States, Procs
<1>5. PresentIsAnnounced'
    BY <1>1, <1>2 DEF PresentIsAnnounced, PresentCalls
<1>6. FreeIsAnnounced'
    BY <1>1, <1>2 DEF FreeIsAnnounced, FreeCalls
<1> QED
    BY <1>3, <1>4, <1>5, <1>6

\* The steps of dataPresentEvent, inside the calls that run it.
PresentStep ==
    \/ WaitDataPresentRuns \/ WaitDataPresentReturns
    \/ SignalDataPresentRuns \/ SignalDataPresentReturns
    \/ DataPresent!SpuriousWakeup("consumer") /\ UNCHANGED <<vars, dfVars, slaveSignals>>

FreeStep ==
    \/ WaitDataFreeRuns \/ WaitDataFreeReturns
    \/ SignalDataFreeRuns \/ SignalDataFreeReturns
    \/ DataFree!SpuriousWakeup("producer") /\ UNCHANGED <<vars, dpVars, slaveSignals>>

\* A step of one signal does not disturb the other: the side that takes it is
\* not inside a call that runs the other one.
LEMMA PresentLeavesFree == QueueInv /\ PresentStep => FreeCalls' /\ FreeIsAnnounced'
<1> SUFFICES ASSUME QueueInv, PresentStep PROVE FreeCalls' /\ FreeIsAnnounced'
    OBVIOUS
<1>1. UNCHANGED <<dfWord, dfSt, build, head, tail>>
    BY DEF PresentStep, WaitDataPresentRuns, WaitDataPresentReturns, SignalDataPresentRuns,
           SignalDataPresentReturns, dfVars, vars, shared, SignalDataPresent, WaitDataPresent,
           DataPresent!SpuriousWakeup, DataPresent!WaitBegin, DataPresent!WaitStep,
           DataPresent!CasFails, DataPresent!FutexWait, DataPresent!FutexRetry,
           DataPresent!WaitReturns, DataPresent!SignalStep, DataPresent!PostCas,
           DataPresent!SignalReturns, DataPresent!PostAbsorbed, DataPresent!FutexWake,
           DataPresent!SetEvent, DataPresent!CondSignal, DataPresent!signalVars
<1>2. \/ UNCHANGED <<pPc, pChunk, cPc>>
      \/ cPc = "wait" /\ cPc' = "load" /\ UNCHANGED <<pPc, pChunk>>
      \/ pPc = "signal" /\ pPc' \in {"idle", "chunk"} /\ UNCHANGED cPc
    BY DEF PresentStep, WaitDataPresentRuns, WaitDataPresentReturns, SignalDataPresentRuns,
           SignalDataPresentReturns, vars, producer, consumer, SignalDataPresent, WaitDataPresent
<1> QED
    BY <1>1, <1>2 DEF QueueInv, FreeCalls, FreeIsAnnounced

\* The same with the signals exchanged.
LEMMA FreeLeavesPresent == QueueInv /\ FreeStep => PresentCalls' /\ PresentIsAnnounced'
<1> SUFFICES ASSUME QueueInv, FreeStep PROVE PresentCalls' /\ PresentIsAnnounced'
    OBVIOUS
<1>1. UNCHANGED <<dpWord, dpSt, build, head, tail>>
    BY DEF FreeStep, WaitDataFreeRuns, WaitDataFreeReturns, SignalDataFreeRuns,
           SignalDataFreeReturns, dpVars, vars, shared, SignalDataFree, WaitDataFree,
           DataFree!SpuriousWakeup, DataFree!WaitBegin, DataFree!WaitStep,
           DataFree!CasFails, DataFree!FutexWait, DataFree!FutexRetry,
           DataFree!WaitReturns, DataFree!SignalStep, DataFree!PostCas,
           DataFree!SignalReturns, DataFree!PostAbsorbed, DataFree!FutexWake,
           DataFree!SetEvent, DataFree!CondSignal, DataFree!signalVars
<1>2. \/ UNCHANGED <<cPc, cChunk, pPc>>
      \/ pPc = "wait" /\ pPc' = "load" /\ UNCHANGED <<cPc, cChunk>>
      \/ cPc = "signal" /\ cPc' \in {"idle", "chunk"} /\ UNCHANGED pPc
    BY DEF FreeStep, WaitDataFreeRuns, WaitDataFreeReturns, SignalDataFreeRuns,
           SignalDataFreeReturns, vars, producer, consumer, SignalDataFree, WaitDataFree
<1> QED
    BY <1>1, <1>2 DEF QueueInv, PresentCalls, PresentIsAnnounced

\* A signal that is up stays up until the wait that it is for returns and looks
\* at head again; the futex word is compared with 0 once more before a sleep.
LEMMA PresentInv == QueueInv /\ PresentStep => PresentCalls' /\ PresentIsAnnounced'
<1> SUFFICES ASSUME QueueInv, PresentStep PROVE PresentCalls' /\ PresentIsAnnounced'
    OBVIOUS
<1> USE DEF QueueInv, PresentCalls, PresentIsAnnounced, Procs, DataPresent!States
<1>1. CASE DataPresent!SpuriousWakeup("consumer") /\ UNCHANGED <<vars, dfVars, slaveSignals>>
    BY <1>1 DEF DataPresent!SpuriousWakeup, vars, shared, producer, consumer
<1>2. CASE WaitDataPresentRuns
    <2>1. CASE DataPresent!WaitBegin("consumer")
        BY <1>2, <2>1 DEF WaitDataPresentRuns, DataPresent!WaitBegin, vars, shared, producer, consumer
    <2>2. CASE DataPresent!WaitStep("consumer")
        BY <1>2, <2>2 DEF WaitDataPresentRuns, DataPresent!WaitStep, DataPresent!CasFails,
           DataPresent!FutexWait, DataPresent!FutexRetry, vars, shared, producer, consumer
    <2> QED
        BY <1>2, <2>1, <2>2 DEF WaitDataPresentRuns
<1>3. CASE WaitDataPresentReturns
    BY <1>3 DEF WaitDataPresentReturns, WaitDataPresent, DataPresent!WaitReturns, shared, producer
<1>4. CASE SignalDataPresentRuns
    BY <1>4 DEF SignalDataPresentRuns, DataPresent!SignalStep, DataPresent!PostCas, vars, shared,
       producer, consumer
<1>5. CASE SignalDataPresentReturns
    <2>1. /\ pPc = "signal" /\ pPc' \in {"idle", "chunk"}
          /\ UNCHANGED <<head, tail, cPc, cChunk>>
        BY <1>5 DEF SignalDataPresentReturns, SignalDataPresent, shared, consumer
    <2>2. CASE DataPresent!PostAbsorbed("producer")
        BY <2>1, <2>2 DEF DataPresent!PostAbsorbed, DataPresent!signalVars
    <2>3. CASE DataPresent!FutexWake("producer")
        BY <2>1, <2>3 DEF DataPresent!FutexWake, DataPresent!WakeOne, DataPresent!Asleep
    <2>4. CASE DataPresent!SetEvent("producer")
        BY <2>1, <2>4 DEF DataPresent!SetEvent
    <2>5. CASE DataPresent!CondSignal("producer")
        BY <2>1, <2>5 DEF DataPresent!CondSignal, DataPresent!WakeOne, DataPresent!Asleep
    <2> QED
        BY <1>5, <2>2, <2>3, <2>4, <2>5 DEF SignalDataPresentReturns, DataPresent!SignalReturns
<1> QED
    BY <1>1, <1>2, <1>3, <1>4, <1>5 DEF PresentStep

\* The same for the room that signalDataFree announces.
LEMMA FreeInv == QueueInv /\ FreeStep => FreeCalls' /\ FreeIsAnnounced'
<1> SUFFICES ASSUME QueueInv, FreeStep PROVE FreeCalls' /\ FreeIsAnnounced'
    OBVIOUS
<1> USE DEF QueueInv, FreeCalls, FreeIsAnnounced, Procs, DataFree!States
<1>1. CASE DataFree!SpuriousWakeup("producer") /\ UNCHANGED <<vars, dpVars, slaveSignals>>
    BY <1>1 DEF DataFree!SpuriousWakeup, vars, shared, producer, consumer
<1>2. CASE WaitDataFreeRuns
    <2>1. CASE DataFree!WaitBegin("producer")
        BY <1>2, <2>1 DEF WaitDataFreeRuns, DataFree!WaitBegin, vars, shared, producer, consumer
    <2>2. CASE DataFree!WaitStep("producer")
        BY <1>2, <2>2 DEF WaitDataFreeRuns, DataFree!WaitStep, DataFree!CasFails,
           DataFree!FutexWait, DataFree!FutexRetry, vars, shared, producer, consumer
    <2> QED
        BY <1>2, <2>1, <2>2 DEF WaitDataFreeRuns
<1>3. CASE WaitDataFreeReturns
    BY <1>3 DEF WaitDataFreeReturns, WaitDataFree, DataFree!WaitReturns, shared, consumer
<1>4. CASE SignalDataFreeRuns
    BY <1>4 DEF SignalDataFreeRuns, DataFree!SignalStep, DataFree!PostCas, vars, shared,
       producer, consumer
<1>5. CASE SignalDataFreeReturns
    <2>1. /\ cPc = "signal" /\ cPc' \in {"idle", "chunk"}
          /\ UNCHANGED <<head, tail, pPc, pChunk>>
        BY <1>5 DEF SignalDataFreeReturns, SignalDataFree, shared, producer
    <2>2. CASE DataFree!PostAbsorbed("consumer")
        BY <2>1, <2>2 DEF DataFree!PostAbsorbed, DataFree!signalVars
    <2>3. CASE DataFree!FutexWake("consumer")
        BY <2>1, <2>3 DEF DataFree!FutexWake, DataFree!WakeOne, DataFree!Asleep
    <2>4. CASE DataFree!SetEvent("consumer")
        BY <2>1, <2>4 DEF DataFree!SetEvent
    <2>5. CASE DataFree!CondSignal("consumer")
        BY <2>1, <2>5 DEF DataFree!CondSignal, DataFree!WakeOne, DataFree!Asleep
    <2> QED
        BY <1>5, <2>2, <2>3, <2>4, <2>5 DEF SignalDataFreeReturns, DataFree!SignalReturns
<1> QED
    BY <1>1, <1>2, <1>3, <1>4, <1>5 DEF FreeStep

\* Neither side leaves "detached" before the SLAVE's signals exist.
LEMMA AttachAfterSignals ==
    ASSUME QueueInv, [QueueNext]_queueVars
    PROVE  ~slaveSignals' => pPc' = "detached" \/ cPc' = "detached"
<1>1. CASE AttachSlave
    BY <1>1 DEF AttachSlave
<1>2. CASE ConstructSignals
    BY <1>2 DEF ConstructSignals
<1>3. CASE CallsOfProducer \/ ProducerInside
    BY <1>3 DEF CallsOfProducer, FreeSpace, Push, ProducerInside, RunsOfProducer, ProducerRuns,
       StartPushChunk, LoadTail, CopyIn, StoreHead, WaitDataFreeRuns, WaitDataFreeReturns,
       WaitDataFree, SignalDataPresentRuns, SignalDataPresentReturns, SignalDataPresent,
       vars, producer, consumer, QueueInv
<1>4. CASE CallsOfConsumer \/ ConsumerInside
    BY <1>4 DEF CallsOfConsumer, SizeOfRing, Pop, ConsumerInside, RunsOfConsumer, ConsumerRuns,
       StartPopChunk, LoadHead, CopyOut, StoreTail, WaitDataPresentRuns, WaitDataPresentReturns,
       WaitDataPresent, SignalDataFreeRuns, SignalDataFreeReturns, SignalDataFree,
       vars, producer, consumer, QueueInv
<1>5. CASE Spurious \/ UNCHANGED queueVars
    BY <1>5 DEF Spurious, queueVars, vars, producer, consumer, QueueInv
<1> QED
    BY <1>1, <1>2, <1>3, <1>4, <1>5 DEF QueueNext

\* The queue invariant holds in every reachable state of the queue.
THEOREM QueueInvariance == QueueSpec => []QueueInv
<1>1. QueueInit => QueueInv
    <2> SUFFICES ASSUME QueueInit PROVE QueueInv
        OBVIOUS
    <2>1. PresentCalls /\ FreeCalls
        BY DEF QueueInit, Init, DataPresent!SignalInit, DataFree!SignalInit, PresentCalls,
               FreeCalls, Procs, DataPresent!States, DataFree!States
    <2>2. PresentIsAnnounced /\ FreeIsAnnounced
        BY DEF QueueInit, Init, DataPresent!SignalInit, DataFree!SignalInit,
               PresentIsAnnounced, FreeIsAnnounced, Procs
    <2>3. RingInv
        BY InitRingInv DEF QueueInit
    <2> QED
        BY <2>1, <2>2, <2>3 DEF QueueInv, QueueInit, Init
<1>2. QueueInv /\ RingInv' /\ [QueueNext]_queueVars => QueueInv'
    <2> SUFFICES ASSUME QueueInv, RingInv', [QueueNext]_queueVars
                 PROVE  PresentCalls' /\ FreeCalls' /\ PresentIsAnnounced' /\ FreeIsAnnounced'
        BY AttachAfterSignals DEF QueueInv
    <2>1. CASE AttachSlave \/ CallsOfProducer \/ CallsOfConsumer \/ RunsOfProducer \/ RunsOfConsumer
        BY <2>1, SilentInv DEF AttachSlave, CallsOfProducer, CallsOfConsumer, RunsOfProducer,
           RunsOfConsumer, SilentQueueStep, SilentStep
    <2>2. CASE ConstructSignals
        BY <2>2, ConstructInv
    <2>3. CASE PresentStep
        BY <2>3, PresentInv, PresentLeavesFree
    <2>4. CASE FreeStep
        BY <2>4, FreeInv, FreeLeavesPresent
    <2>5. CASE UNCHANGED queueVars
        BY <2>5 DEF queueVars, vars, dpVars, dfVars, shared, producer, consumer, QueueInv,
           PresentCalls, FreeCalls, PresentIsAnnounced, FreeIsAnnounced
    <2> QED
        BY <2>1, <2>2, <2>3, <2>4, <2>5 DEF QueueNext, ProducerInside, ConsumerInside, Spurious,
           PresentStep, FreeStep
<1>3. QueueSpec => []RingInv
    BY QueueImplementsRing, RingInvariance, PTL
<1> QED
    BY <1>1, <1>2, <1>3, PTL DEF QueueSpec

\* The lock policies of the windows and futex builds lose no wakeup, although a
\* side decides to wait from one load of the other's index and begins the wait
\* only later.
THEOREM QueueLosesNoWakeup == QueueSpec => []NoLostWakeup
<1>1. QueueInv => NoLostWakeup
    BY DEF QueueInv, PresentCalls, FreeCalls, PresentIsAnnounced, FreeIsAnnounced, NoLostWakeup
<1> QED
    BY <1>1, QueueInvariance, PTL
=============================================================================
