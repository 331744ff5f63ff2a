---------------------------- MODULE CipherStream ---------------------------
(***************************************************************************)
(* Encryptor and Decryptor: a plaintext is encrypted in updates of any     *)
(* size, and what comes out is decrypted in updates of any other size.     *)
(* Data are lengths and places: byte i of the true ciphertext (plaintext)  *)
(* is the number i, and a byte of a result that nothing was written to is  *)
(* 0.  OpenSSL's part (external) is how many bytes an update yields.       *)
(***************************************************************************)
EXTENDS Naturals, Sequences, FiniteSetsExt

CONSTANTS BLOCK,          \* the cipher's block: 16
          MAX_SHOT_SIZE,  \* INT_MAX; like it, one less than a multiple of BLOCK
          MaxPlain        \* bound on the length of the plaintext

ASSUME CipherAssumption ==
    BLOCK \in Nat \ {0} /\ MAX_SHOT_SIZE \in Nat \ {0} /\ MaxPlain \in Nat

VARIABLES algorithm,  \* "AES_128" or "AES_256", in CBC or ECB mode
          enc, dec,   \* [pc, total]: none, open or done; bytes given to update
          pending,    \* ciphertext produced and not decrypted yet
          intact,     \* history: what was decrypted is the true ciphertext so far
          plain,      \* history: what the decryptor returned
          spoiled,    \* history: some update took two shots or outgrew its buffer
          last        \* history: the last update, see LastUpdate

cipherVars == <<algorithm, enc, dec, pending, intact, plain, spoiled, last>>

Algorithms == {"AES_128", "AES_256"}
KeySize(a) == IF a = "AES_128" THEN BLOCK ELSE 2 * BLOCK

CipherInit ==
    /\ algorithm \in Algorithms
    /\ enc = [pc |-> "none", total |-> 0] /\ dec = [pc |-> "none", total |-> 0]
    /\ pending = <<>> /\ intact = TRUE /\ plain = <<>> /\ spoiled = FALSE
    /\ last = [by |-> "none", spare |-> 0, beyond |-> 0, multi |-> FALSE, shrinks |-> FALSE]

\* Bytes out once t bytes are in: EncryptUpdate yields every full block,
\* DecryptUpdate holds the last one back.
EncOut(t) == (t \div BLOCK) * BLOCK
DecOut(t) == IF t = 0 THEN 0 ELSE ((t - 1) \div BLOCK) * BLOCK
OutOf(by, t) == IF by = "enc" THEN EncOut(t) ELSE DecOut(t)

-----------------------------------------------------------------------------
(* The loop of update, alike in both classes: shots of MAX_SHOT_SIZE, each *)
(* written where the previous input ended, not where its output did.       *)

Shots(n) == {k \in 0 .. n : k * MAX_SHOT_SIZE < n}
ShotBegin(k) == k * MAX_SHOT_SIZE
ShotEnd(k, n) == Min({n, (k + 1) * MAX_SHOT_SIZE})
ShotOut(by, total, n, k) == OutOf(by, total + ShotEnd(k, n)) - OutOf(by, total + ShotBegin(k))

\* shotLen, and the place behind the last byte written.
ShotLen(by, total, n) == OutOf(by, total + n) - OutOf(by, total)
EndOf(by, total, n) ==
    Max({0} \cup {ShotBegin(k) + ShotOut(by, total, n, k) : k \in Shots(n)})

\* The byte of the result at off: of the last shot that wrote it.
ByteAt(by, total, n, off) ==
    LET writers == {k \in Shots(n) : /\ ShotBegin(k) <= off
                                     /\ off < ShotBegin(k) + ShotOut(by, total, n, k)} IN
    IF writers = {} THEN 0
    ELSE OutOf(by, total + ShotBegin(Max(writers))) + (off - ShotBegin(Max(writers))) + 1

\* The first shotLen bytes of a buffer of room bytes, which is what the caller
\* takes from it: bytes written behind the end of a vector are not in it
\* (undefined in C++; the resize to shotLen reallocates and zeroes).
Result(by, total, n, room) ==
    [i \in 1 .. ShotLen(by, total, n) |->
        IF i <= room THEN ByteAt(by, total, n, i - 1) ELSE 0]

\* What the update did to its buffer: how much larger than the source it was,
\* how many bytes were written behind its end, and whether the update took more
\* than one shot, or left less of a block in the context than it had found.
LastUpdate(by, total, n, room) ==
    [by |-> by, spare |-> room - n,
     beyond |-> IF EndOf(by, total, n) > room THEN EndOf(by, total, n) - room ELSE 0,
     multi |-> n > MAX_SHOT_SIZE, shrinks |-> (total + n) % BLOCK < total % BLOCK]

-----------------------------------------------------------------------------
(* The operations.  key: the algorithm createSymmetricKey made the key for; *)
(* the constructors throw when its size is not that of their algorithm.    *)

EncConstruct(key) ==
    /\ enc.pc = "none" /\ KeySize(algorithm) = KeySize(key)
    /\ enc' = [enc EXCEPT !.pc = "open"]
    /\ UNCHANGED <<algorithm, dec, pending, intact, plain, spoiled, last>>

DecConstruct(key) ==
    /\ dec.pc = "none" /\ KeySize(algorithm) = KeySize(key)
    /\ dec' = [dec EXCEPT !.pc = "open"]
    /\ UNCHANGED <<algorithm, enc, pending, intact, plain, spoiled, last>>

\* The size of the vector that the update of n bytes writes to; whoever passes
\* the Encryptor a buffer instead gives it the block to spare that OpenSSL asks for.
EncRoom(n) == n
CallerRoom(n) == n + BLOCK
\* Mutant: the Decryptor makes its vector as the Encryptor does.
M_DecRoomAsEnc(n) == n
DecRoom(n) == n + BLOCK

\* Mutant: the vector is not resized to shotLen.
M_EncUpdateNoResize(n, room) ==
    /\ enc.pc = "open" /\ enc.total + n <= MaxPlain
    /\ enc' = [enc EXCEPT !.total = @ + n]
    /\ pending' = pending \o [i \in 1 .. n |-> ByteAt("enc", enc.total, n, i - 1)]
    /\ last' = LastUpdate("enc", enc.total, n, room)
    /\ spoiled' = (spoiled \/ last'.multi \/ last'.beyond > 0)
    /\ UNCHANGED <<algorithm, dec, intact, plain>>

EncUpdate(n, room) ==
    /\ enc.pc = "open" /\ enc.total + n <= MaxPlain
    /\ enc' = [enc EXCEPT !.total = @ + n]
    /\ pending' = pending \o Result("enc", enc.total, n, room)
    /\ last' = LastUpdate("enc", enc.total, n, room)
    /\ spoiled' = (spoiled \/ last'.multi \/ last'.beyond > 0)
    /\ UNCHANGED <<algorithm, dec, intact, plain>>

\* finalize pads, with a whole block if need be, and frees the context.
EncFinalize ==
    /\ enc.pc = "open"
    /\ enc' = [enc EXCEPT !.pc = "done"]
    /\ pending' = pending \o [i \in 1 .. BLOCK |-> EncOut(enc.total) + i]
    /\ UNCHANGED <<algorithm, dec, intact, plain, spoiled, last>>

CiphertextLen == EncOut(enc.total) + BLOCK

DecUpdate(n) ==
    /\ dec.pc = "open" /\ n <= Len(pending)
    /\ dec' = [dec EXCEPT !.total = @ + n]
    /\ pending' = SubSeq(pending, n + 1, Len(pending))
    /\ intact' = (intact /\ \A i \in 1 .. n : pending[i] = dec.total + i)
    /\ plain' = plain \o (IF intact' THEN Result("dec", dec.total, n, DecRoom(n))
                                     ELSE [i \in 1 .. ShotLen("dec", dec.total, n) |-> 0])
    /\ last' = LastUpdate("dec", dec.total, n, DecRoom(n))
    /\ spoiled' = (spoiled \/ last'.multi \/ last'.beyond > 0)
    /\ UNCHANGED <<algorithm, enc>>

\* finalize of a whole number of blocks whose padding is good: the end of the
\* plaintext, or something else when the last block is not the last one sent.
\* It throws otherwise, and leaves the Decryptor as it is.
DecFinalize ==
    /\ dec.pc = "open" /\ dec.total > 0 /\ dec.total % BLOCK = 0
    /\ dec' = [dec EXCEPT !.pc = "done"]
    /\ IF intact /\ enc.pc = "done" /\ dec.total = CiphertextLen
       THEN plain' = plain \o [i \in 1 .. enc.total % BLOCK |-> DecOut(dec.total) + i]
       ELSE \E n \in 0 .. BLOCK - 1 : plain' = plain \o [i \in 1 .. n |-> 0]
    /\ UNCHANGED <<algorithm, enc, pending, intact, spoiled, last>>

CipherNext ==
    \/ \E key \in Algorithms : EncConstruct(key) \/ DecConstruct(key)
    \/ \E n \in 0 .. MaxPlain : EncUpdate(n, EncRoom(n)) \/ EncUpdate(n, CallerRoom(n))
    \/ EncFinalize
    \/ \E n \in 0 .. MaxPlain + BLOCK : DecUpdate(n)
    \/ DecFinalize

-----------------------------------------------------------------------------
(* Who decrypts the whole ciphertext gets the plaintext back, however the  *)
(* two sides cut it into updates, as long as none of them is larger than   *)
(* MAX_SHOT_SIZE (its next shot is written where the input of the last one *)
(* ended, Encryptor.cpp 65) and none wrote behind the end of its vector.   *)
(* By UpdateFits the second leaves the Decryptor any cut, the Encryptor    *)
(* any cut into a buffer of the caller, and into vectors of its own only   *)
(* updates that leave no smaller remainder of a block than they find.      *)
DecryptedIsPlaintext ==
    enc.pc = "done" /\ dec.pc = "done" /\ dec.total = CiphertextLen /\ ~spoiled
       => plain = [i \in 1 .. enc.total |-> i]

(* An update writes behind the end of its buffer only in one way: the      *)
(* vector of the Encryptor has the size of the source, "the max size" of   *)
(* Encryptor.cpp 74, and a block completed with bytes of earlier updates   *)
(* comes on top.  An update of one shot writes too far just when it leaves *)
(* a smaller remainder than it finds, and none by a whole block.  The 16   *)
(* bytes more of the Decryptor and the spare block of a caller are enough  *)
(* for any update, also one of several shots.                              *)
UpdateFits ==
    IF last.by = "enc" /\ last.spare = 0
    THEN last.beyond < BLOCK /\ (~last.multi => (last.beyond > 0 <=> last.shrinks))
    ELSE last.beyond = 0
=============================================================================
