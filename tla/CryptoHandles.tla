--------------------------- MODULE CryptoHandles ---------------------------
(***************************************************************************)
(* Who releases the OpenSSL objects that the classes of crypto/ wrap.  A   *)
(* handle is one reference that has to be released exactly once.  A        *)
(* context class holds a raw pointer that its destructor frees; EvpKey and *)
(* X509Certificate hold a shared_ptr, and so does the certSet of a store;  *)
(* a function that needs a handle for its own use has to release it on     *)
(* every path.  What is computed with the handles is left out, and so is   *)
(* what a constructor that throws allocates and releases at once.          *)
(***************************************************************************)
EXTENDS Naturals, FiniteSets

CONSTANTS Slots,    \* the variables a program keeps its objects in
          Handles   \* bound on the handles that exist at a time

ASSUME HandlesAssumption == IsFiniteSet(Slots) /\ Handles # {} /\ "NULL" \notin Handles

VARIABLES handle,   \* [Handles -> kind], "freed" for one that is not in use
          obj,      \* [Slots -> [class, ptr, certs]]
          aliased,  \* history: handles in two raw pointers, or freed and still pointed to
          overwritten, \* history: live handles whose last pointer was assigned to
          frame     \* the running call and its own handle, or NoFrame

handleVars == <<handle, obj, aliased, overwritten, frame>>

NoObj == [class |-> "none", ptr |-> "NULL", certs |-> {}]
NoFrame == [fn |-> [of |-> "none", temp |-> "none", frees |-> {}, makes |-> "none"],
            h |-> "NULL"]

RawClasses == {"hmac", "signer", "verifier", "dh", "encryptor", "decryptor", "store"}
SharedClasses == {"key", "cert"}
\* NOT_COPYABLE is missing: the implicit copy takes over the raw pointer.
CopyableClasses == (RawClasses \ {"store"}) \cup {"key"}
\* Those without a const member, which have the implicit assignment too.
AssignableClasses == {"signer", "verifier", "dh", "key"}

HandlesInit ==
    /\ handle = [h \in Handles |-> "freed"]
    /\ obj = [s \in Slots |-> NoObj]
    /\ aliased = {} /\ overwritten = {} /\ frame = NoFrame

\* Holders among the objects; certSet holds certificates.
Holds(s, h) == obj[s].ptr = h \/ h \in obj[s].certs

-----------------------------------------------------------------------------
(* malloc and free.  The address of a released handle is used again once   *)
(* nobody has it.                                                          *)

Free(h) == handle[h] = "freed" /\ frame.h # h /\ \A s \in Slots : ~Holds(s, h)

Allocated(h, kind) == [handle EXCEPT ![h] = kind]
Released(hs) == [h \in Handles |-> IF h \in hs THEN "freed" ELSE handle[h]]

-----------------------------------------------------------------------------
(* Construction and destruction.                                           *)

Construct(s, class, kind) ==
    /\ frame = NoFrame /\ obj[s] = NoObj
    /\ \E h \in Handles :
          /\ Free(h)
          /\ handle' = Allocated(h, kind)
          /\ obj' = [obj EXCEPT ![s] = [class |-> class, ptr |-> h, certs |-> {}]]
          /\ aliased' = aliased \ {h}
    /\ UNCHANGED <<overwritten, frame>>

NewHmac(s) == Construct(s, "hmac", "HMAC_CTX")
NewSigner(s) == Construct(s, "signer", "EVP_MD_CTX")
NewVerifier(s) == Construct(s, "verifier", "EVP_MD_CTX")
NewEncryptor(s) == Construct(s, "encryptor", "EVP_CIPHER_CTX")
NewDecryptor(s) == Construct(s, "decryptor", "EVP_CIPHER_CTX")
NewStore(s) == Construct(s, "store", "X509_STORE")
NewKey(s) == Construct(s, "key", "EVP_PKEY")
NewCert(s) == Construct(s, "cert", "X509")

NewDiffieHellman(s) ==
    /\ frame = NoFrame /\ obj[s] = NoObj
    /\ obj' = [obj EXCEPT ![s] = [NoObj EXCEPT !.class = "dh"]]
    /\ UNCHANGED <<handle, aliased, overwritten, frame>>

Copy(s, t) ==
    /\ frame = NoFrame /\ obj[s].class \in CopyableClasses /\ obj[t] = NoObj
    /\ obj' = [obj EXCEPT ![t] = obj[s]]
    /\ aliased' = aliased \cup (IF obj[s].class \in RawClasses THEN {obj[s].ptr} \ {"NULL"}
                                                               ELSE {})
    /\ UNCHANGED <<handle, overwritten, frame>>

\* What an object holds and shares with nobody, and what goes with it: that, and
\* its raw pointer.
HoldsAlone(s) == {h \in Handles : Holds(s, h) /\ \A t \in Slots \ {s} : ~Holds(t, h)}
Drops(s) ==
    HoldsAlone(s) \cup {h \in Handles : obj[s].class \in RawClasses /\ obj[s].ptr = h}

\* t = s: the shared_ptr of a key gives up what t had; a raw pointer is
\* overwritten, and what it alone pointed to stays.
Assign(s, t) ==
    /\ frame = NoFrame /\ s # t
    /\ obj[s].class \in AssignableClasses /\ obj[t].class = obj[s].class
    /\ obj' = [obj EXCEPT ![t] = obj[s]]
    /\ IF obj[s].class = "key"
       THEN handle' = Released(HoldsAlone(t)) /\ UNCHANGED <<aliased, overwritten>>
       ELSE /\ aliased' = aliased \cup ({obj[s].ptr} \ {"NULL"})
            /\ overwritten' = overwritten \cup {h \in HoldsAlone(t) : handle[h] # "freed"}
            /\ UNCHANGED handle
    /\ UNCHANGED frame

Destroy(s) ==
    /\ frame = NoFrame /\ obj[s] # NoObj
    /\ handle' = Released(Drops(s))
    /\ obj' = [obj EXCEPT ![s] = NoObj]
    /\ UNCHANGED <<aliased, overwritten, frame>>

-----------------------------------------------------------------------------
(* Operations that change what an object holds.                            *)

\* Mutant: ctx is freed and not set to NULL.
M_FinalizeKeepsCtx(s, classes) ==
    /\ frame = NoFrame /\ obj[s].class \in classes /\ obj[s].ptr # "NULL"
    /\ handle' = Released({obj[s].ptr})
    /\ UNCHANGED <<obj, aliased, overwritten, frame>>

\* finalize of HmacCalculator, Encryptor and Decryptor frees the context
\* (Signer and Verifier keep theirs); it throws when there is none.
Finalize(s, classes) ==
    /\ frame = NoFrame /\ obj[s].class \in classes /\ obj[s].ptr # "NULL"
    /\ handle' = Released({obj[s].ptr})
    /\ obj' = [obj EXCEPT ![s].ptr = "NULL"]
    /\ UNCHANGED <<aliased, overwritten, frame>>

HmacFinalize(s) == Finalize(s, {"hmac"})
EncryptorFinalize(s) == Finalize(s, {"encryptor"})
DecryptorFinalize(s) == Finalize(s, {"decryptor"})

\* createSession: the old session goes first.  DH_new fails; or the numbers
\* cannot be set, and dh is freed and not set to NULL; or it ends well, or in
\* the exception of DH_check, with a session.
CreateSession(s, outcome) ==
    /\ frame = NoFrame /\ obj[s].class = "dh"
    /\ \E h \in Handles :
          /\ Free(h)
          /\ handle' = [Released({obj[s].ptr}) EXCEPT ![h] =
                            IF outcome = "session" THEN "DH" ELSE "freed"]
          /\ obj' = [obj EXCEPT ![s].ptr = IF outcome = "noMemory" THEN "NULL" ELSE h]
          /\ aliased' = IF outcome = "badNumbers" THEN aliased \cup {h} ELSE aliased \ {h}
    /\ UNCHANGED <<overwritten, frame>>

\* createSession with a generator too long for an int: the cast throws once dh
\* and the number of the modulus have been made, and the number stays.
CreateSessionCastThrows(s) ==
    /\ frame = NoFrame /\ obj[s].class = "dh"
    /\ \E h, b \in Handles :
          /\ Free(h) /\ Free(b) /\ h # b
          /\ handle' = [Released({obj[s].ptr}) EXCEPT ![h] = "DH", ![b] = "BIGNUM"]
          /\ obj' = [obj EXCEPT ![s].ptr = h]
          /\ aliased' = aliased \ {h, b}
    /\ UNCHANGED <<overwritten, frame>>

AddCertificate(s, t) ==
    /\ frame = NoFrame /\ obj[s].class = "store" /\ obj[t].class = "cert"
    /\ obj' = [obj EXCEPT ![s].certs = @ \cup {obj[t].ptr}]
    /\ UNCHANGED <<handle, aliased, overwritten, frame>>

-----------------------------------------------------------------------------
(* Functions with a handle of their own: the class they need ("none" for a *)
(* static one), the kind of the handle, the outcomes (TRUE: returns,       *)
(* FALSE: throws) after which it has been released, the class returned.    *)

Hash == [of |-> "none", temp |-> "EVP_MD_CTX", frees |-> {TRUE, FALSE}, makes |-> "none"]
\* Mutant: the error path leaves out BIO_free.
M_KeyToPemLeaks == [of |-> "key", temp |-> "BIO", frees |-> {TRUE}, makes |-> "none"]
KeyToPem == [of |-> "key", temp |-> "BIO", frees |-> {TRUE, FALSE}, makes |-> "none"]
KeySaveToPemFile == [of |-> "key", temp |-> "FILE", frees |-> {TRUE, FALSE}, makes |-> "none"]
KeyFromPem == [of |-> "none", temp |-> "BIO", frees |-> {TRUE, FALSE}, makes |-> "EVP_PKEY"]
CertToPem == [of |-> "cert", temp |-> "BIO", frees |-> {TRUE, FALSE}, makes |-> "none"]
CertFromPem == [of |-> "none", temp |-> "BIO", frees |-> {TRUE, FALSE}, makes |-> "X509"]
GetSubjectName == [of |-> "cert", temp |-> "string", frees |-> {TRUE, FALSE}, makes |-> "none"]
GetIssuerName == GetSubjectName
\* X509_set_subject_name copies the name: the one made here stays.
SetSubjectName == [of |-> "cert", temp |-> "X509_NAME", frees |-> {}, makes |-> "none"]
SetIssuerName == SetSubjectName
\* X509_get_pubkey takes a reference of its own for the key returned.
GetPublicKey == [of |-> "cert", temp |-> "none", frees |-> {}, makes |-> "EVP_PKEY"]
\* X509_STORE_add_crl takes a reference of its own.
AddCrlFromPemFile == [of |-> "store", temp |-> "X509_CRL", frees |-> {FALSE}, makes |-> "none"]
StoreVerify == [of |-> "store", temp |-> "X509_STORE_CTX", frees |-> {TRUE, FALSE}, makes |-> "none"]
ComputeSharedSecret == [of |-> "dh", temp |-> "BIGNUM", frees |-> {}, makes |-> "none"]

Fns == {Hash, KeyToPem, KeySaveToPemFile, KeyFromPem, CertToPem, CertFromPem, GetSubjectName,
        GetIssuerName, SetSubjectName, SetIssuerName, GetPublicKey, AddCrlFromPemFile,
        StoreVerify, ComputeSharedSecret}

\* A call on an object that has a handle: without a session the functions of
\* DiffieHellman hand NULL to OpenSSL.
Begin(fn) ==
    /\ frame = NoFrame
    /\ fn.of = "none" \/ \E s \in Slots : obj[s].class = fn.of /\ obj[s].ptr # "NULL"
    /\ IF fn.temp = "none"
       THEN frame' = [fn |-> fn, h |-> "NULL"] /\ UNCHANGED <<handle, aliased>>
       ELSE \E h \in Handles : /\ Free(h)
                               /\ handle' = Allocated(h, fn.temp)
                               /\ aliased' = aliased \ {h}
                               /\ frame' = [fn |-> fn, h |-> h]
    /\ UNCHANGED <<obj, overwritten>>

\* The end of the call, returning an object into slot s if it makes one.
End(ok, s) ==
    /\ frame # NoFrame /\ frame' = NoFrame /\ UNCHANGED overwritten
    /\ LET rest == IF ok \in frame.fn.frees THEN Released({frame.h}) ELSE handle IN
       IF ok /\ frame.fn.makes # "none"
       THEN \E h \in Handles :
               /\ obj[s] = NoObj /\ Free(h)
               /\ handle' = [rest EXCEPT ![h] = frame.fn.makes]
               /\ obj' = [obj EXCEPT ![s] =
                     [class |-> IF frame.fn.makes = "X509" THEN "cert" ELSE "key",
                      ptr |-> h, certs |-> {}]]
               /\ aliased' = aliased \ {h}
       ELSE handle' = rest /\ UNCHANGED <<obj, aliased>>

HandlesNext ==
    \/ \E s \in Slots :
          \/ NewHmac(s) \/ NewSigner(s) \/ NewVerifier(s) \/ NewEncryptor(s)
          \/ NewDecryptor(s) \/ NewStore(s) \/ NewKey(s) \/ NewCert(s) \/ NewDiffieHellman(s)
          \/ HmacFinalize(s) \/ EncryptorFinalize(s) \/ DecryptorFinalize(s)
          \/ \E outcome \in {"session", "noMemory", "badNumbers"} : CreateSession(s, outcome)
          \/ CreateSessionCastThrows(s)
          \/ \E t \in Slots : Copy(s, t) \/ Assign(s, t) \/ AddCertificate(s, t)
          \/ Destroy(s)
          \/ \E ok \in BOOLEAN : End(ok, s)
    \/ \E fn \in Fns : Begin(fn)

-----------------------------------------------------------------------------
(* What an object holds has not been released, so that every use of it and *)
(* its one release are good.  Two ways of the code out of this: the        *)
(* implicit copy of an object with a raw pointer, freed once per copy, and *)
(* the exception at DiffieHellman.cpp 35, after which dh dangles.          *)
HeldIsLive ==
    \A s \in Slots, h \in Handles \ aliased : Holds(s, h) => handle[h] # "freed"

(* Everything that is not released is held by somebody who will, on the    *)
(* error paths too.  Four functions leave something behind: the names of   *)
(* setSubjectName and setIssuerName (X509Certificate.cpp 82, 134), the     *)
(* list of addCrlFromPemFile (X509Store.cpp 48), the numbers of            *)
(* computeSharedSecret and of a createSession whose cast throws            *)
(* (DiffieHellman.cpp 64, 29); and so does the implicit assignment to a    *)
(* Signer, Verifier or DiffieHellman (Signer.h 19, Verifier.h 19,          *)
(* DiffieHellman.h 18), which is what "overwritten" records.               *)
LeftBehindOnlyBy ==
    \A h \in Handles \ overwritten : handle[h] # "freed" =>
       \/ frame.h = h \/ \E s \in Slots : Holds(s, h)
       \/ handle[h] \in {"X509_NAME", "X509_CRL", "BIGNUM"}
=============================================================================
