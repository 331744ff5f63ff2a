---------------------------- MODULE BoundedFifo -----------------------------
(***************************************************************************)
(* What a byte ring promises the two processes that share it: a FIFO       *)
(* channel of at most Bound bytes.  A chunk of bytes is published in one   *)
(* step and taken in one step, in the order of the stream, and no byte is  *)
(* lost, duplicated or overtaken.  Byte k of the stream is the number k.   *)
(***************************************************************************)
EXTENDS Naturals, Sequences

CONSTANT Bound       \* bytes the channel can hold

VARIABLES chan,      \* published, not yet taken
          delivered  \* taken

Init == chan = << >> /\ delivered = << >>

\* The next k bytes of the stream.
NextBytes(k) == [i \in 1 .. k |-> Len(delivered) + Len(chan) + i]

Publish(k) ==
    /\ Len(chan) + k <= Bound
    /\ chan' = chan \o NextBytes(k)
    /\ UNCHANGED delivered

Take(k) ==
    /\ k <= Len(chan)
    /\ delivered' = delivered \o SubSeq(chan, 1, k)
    /\ chan' = SubSeq(chan, k + 1, Len(chan))

Next == \E k \in 1 .. Bound : Publish(k) \/ Take(k)

Spec == Init /\ [][Next]_<<chan, delivered>>
=============================================================================
