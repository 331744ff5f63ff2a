------------------------------ MODULE MCCrypto -----------------------------
(***************************************************************************)
(* The two questions about crypto/: a behaviour is one of CipherStream, the *)
(* bytes of an Encryptor and a Decryptor, or one of CryptoHandles.         *)
(***************************************************************************)
EXTENDS CipherStream, CryptoHandles, TLC

VARIABLE subject

vars == <<subject, cipherVars, handleVars>>

Init ==
    \/ subject = "cipher" /\ CipherInit /\ HandlesInit
    \/ subject = "handles" /\ HandlesInit /\ CipherInit /\ algorithm = "AES_128"

CipherStep == subject = "cipher" /\ CipherNext /\ UNCHANGED <<subject, handleVars>>
HandlesStep == subject = "handles" /\ HandlesNext /\ UNCHANGED <<subject, cipherVars>>

Spec == Init /\ [][CipherStep \/ HandlesStep]_vars

MCSymmetry == Permutations(Slots) \cup Permutations(Handles)
=============================================================================
