--------------------------- MODULE CircularBuffer ---------------------------
(***************************************************************************)
(* The index arithmetic of a circular buffer of cap slots, of which at     *)
(* most cap - 1 are ever occupied: h is the slot the producer writes next, *)
(* t the slot the consumer reads next, and h = t means empty.              *)
(*                                                                         *)
(* Every subtraction of the source is on size_t.  For indices below cap    *)
(* none of them wraps around, so plain integers are exact; that the        *)
(* indices do stay below cap is part of what the users of this module      *)
(* check and prove.                                                        *)
(***************************************************************************)
EXTENDS Integers

\* The number of occupied slots.
circularBufferSize(cap, h, t) == IF h >= t THEN h - t ELSE cap - (t - h)

\* Mutants of the two definitions below: the slot that tells full from empty is
\* given away, one slot too many is kept back.
FreeSpaceNoGap(cap, h, t) == cap - circularBufferSize(cap, h, t)
FreeSpaceWideGap(cap, h, t) == cap - circularBufferSize(cap, h, t) - 2

\* The number of slots the producer may still fill.
circularBufferFreeSpace(cap, h, t) == cap - circularBufferSize(cap, h, t) - 1

\* How much of a transfer of n bytes ByteRing moves in one turn of its loop.
ChunkSize(cap, n) == IF n < cap - 1 THEN n ELSE cap - 1

\* Mutant: the second memcpy forgets that the first one took part of the chunk.
CopySlotNoOffset(cap, base, n, i) ==
    LET avail == cap - base
        first == IF n < avail THEN n ELSE avail
    IN  IF i < first THEN base + i ELSE i

\* The slot that byte i of a chunk of n bytes starting at slot base occupies:
\* one memcpy up to the end of the ring, a second from its start.
CopySlot(cap, base, n, i) ==
    LET avail == cap - base
        first == IF n < avail THEN n ELSE avail
    IN  IF i < first THEN base + i ELSE i - first

\* The index after a chunk of n bytes: one conditional subtraction.
AdvanceIndex(cap, idx, n) ==
    IF idx + n >= cap THEN idx + n - cap ELSE idx + n
=============================================================================
