---------------------------- MODULE CryptoProofs ----------------------------
(***************************************************************************)
(* Proofs about crypto/: no class of it uses a released OpenSSL object or  *)
(* releases one twice, for any number of objects and handles, apart from   *)
(* the two ways out that HeldIsLive names; what is left behind; and what   *)
(* an Encryptor and a Decryptor do to a stream of any length.              *)
(***************************************************************************)
EXTENDS MCCrypto, WellFoundedInduction, TLAPS

-----------------------------------------------------------------------------
(* CryptoHandles.                                                          *)

Kinds == {"freed", "HMAC_CTX", "EVP_MD_CTX", "EVP_CIPHER_CTX", "X509_STORE", "EVP_PKEY", "X509",
          "DH", "BIO", "FILE", "string", "X509_NAME", "X509_CRL", "X509_STORE_CTX", "BIGNUM"}

Objects == [class : RawClasses \cup SharedClasses \cup {"none"},
            ptr : Handles \cup {"NULL"},
            certs : SUBSET Handles]

HandlesTypeOK ==
    /\ handle \in [Handles -> Kinds]
    /\ obj \in [Slots -> Objects]

\* What each class may hold: a key or a certificate always has a handle, and
\* only a store has a certSet.
ClassInv ==
    \A s \in Slots :
        /\ obj[s].class = "none" => obj[s].ptr = "NULL"
        /\ obj[s].class \in SharedClasses => obj[s].ptr # "NULL"
        /\ obj[s].class # "store" => obj[s].certs = {}

\* A call under way is one of Fns; its handle is live and its own.
FrameInv ==
    frame = NoFrame \/
        /\ frame.fn \in Fns
        /\ frame.h = "NULL" => frame.fn.temp = "none"
        /\ frame.h # "NULL" => /\ frame.h \in Handles
                               /\ handle[frame.h] = frame.fn.temp
                               /\ \A s \in Slots : ~Holds(s, frame.h)

\* A raw pointer is the only holder of what it points to, unless the handle is
\* one of those that HeldIsLive leaves out.
RawIsExclusive ==
    \A s \in Slots, h \in Handles \ aliased :
        obj[s].class \in RawClasses /\ obj[s].ptr = h =>
            /\ h \notin obj[s].certs
            /\ \A t \in Slots \ {s} : ~Holds(t, h)

\* The inductive invariant.
HandlesInv ==
    /\ HandlesTypeOK /\ ClassInv /\ FrameInv /\ RawIsExclusive
    /\ HeldIsLive /\ LeftBehindOnlyBy

\* Nobody holds the address that malloc gives out.
LEMMA FreeFacts ==
    ASSUME NEW h \in Handles, Free(h)
    PROVE  /\ handle[h] = "freed" /\ h # "NULL" /\ frame.h # h
           /\ \A s \in Slots : obj[s].ptr # h /\ h \notin obj[s].certs
BY HandlesAssumption DEF Free, Holds

\* No program yet.
LEMMA InitHandles == HandlesInit => HandlesInv
<1> SUFFICES ASSUME HandlesInit PROVE HandlesInv
    OBVIOUS
<1>1. HandlesTypeOK
    BY DEF HandlesInit, HandlesTypeOK, Kinds, Objects, NoObj
<1>2. \A s \in Slots : obj[s].class = "none" /\ obj[s].ptr = "NULL" /\ obj[s].certs = {}
    BY DEF HandlesInit, NoObj
<1>3. ClassInv /\ RawIsExclusive /\ FrameInv
    BY <1>2 DEF HandlesInit, ClassInv, RawIsExclusive, FrameInv, RawClasses, SharedClasses
<1>4. HeldIsLive /\ LeftBehindOnlyBy
    BY <1>2, HandlesAssumption DEF HandlesInit, HeldIsLive, LeftBehindOnlyBy, Holds
<1> QED
    BY <1>1, <1>3, <1>4 DEF HandlesInv

\* An object that is new, with a handle that is new.
LEMMA ConstructInv ==
    ASSUME HandlesInv, NEW s \in Slots, NEW class \in RawClasses \cup SharedClasses,
           NEW kind \in Kinds \ {"freed"}, Construct(s, class, kind)
    PROVE  HandlesInv'
<1>1. PICK h \in Handles :
          /\ Free(h)
          /\ handle' = Allocated(h, kind)
          /\ obj' = [obj EXCEPT ![s] = [class |-> class, ptr |-> h, certs |-> {}]]
          /\ aliased' = aliased \ {h}
    BY DEF Construct
<1>2. /\ handle[h] = "freed" /\ h # "NULL" /\ frame.h # h
      /\ \A t \in Slots : obj[t].ptr # h /\ h \notin obj[t].certs
    BY <1>1, FreeFacts
<1>3. obj[s] = NoObj /\ frame = NoFrame /\ frame' = frame /\ overwritten' = overwritten
    BY DEF Construct
<1>4. /\ HandlesTypeOK /\ ClassInv /\ FrameInv /\ RawIsExclusive
      /\ HeldIsLive /\ LeftBehindOnlyBy
    BY DEF HandlesInv
<1>5. HandlesTypeOK'
    BY <1>1, <1>4 DEF HandlesTypeOK, Allocated, Objects
<1>6. /\ obj'[s].class = class /\ obj'[s].ptr = h /\ obj'[s].certs = {}
      /\ \A t \in Slots \ {s} : obj'[t] = obj[t]
      /\ handle'[h] = kind /\ \A g \in Handles \ {h} : handle'[g] = handle[g]
    BY <1>1, <1>4 DEF HandlesTypeOK, Allocated
<1>7. ClassInv'
    BY <1>2, <1>4, <1>6 DEF ClassInv, RawClasses, SharedClasses
<1>8. FrameInv'
    BY <1>3 DEF FrameInv
<1>9. RawIsExclusive'
    BY <1>1, <1>2, <1>4, <1>6 DEF RawIsExclusive, Holds
<1>10. HeldIsLive'
    BY <1>1, <1>2, <1>4, <1>6 DEF HeldIsLive, Holds
<1>11. LeftBehindOnlyBy'
    <2> SUFFICES ASSUME NEW g \in Handles \ overwritten, handle'[g] # "freed", g # h
                 PROVE  \/ frame'.h = g \/ \E u \in Slots : Holds(u, g)'
                        \/ handle'[g] \in {"X509_NAME", "X509_CRL", "BIGNUM"}
        BY <1>3, <1>6 DEF LeftBehindOnlyBy, Holds
    <2>1. ~Holds(s, g)
        BY <1>3, HandlesAssumption DEF Holds, NoObj
    <2>2. \A u \in Slots \ {s} : Holds(u, g) => Holds(u, g)'
        BY <1>6 DEF Holds
    <2> QED
        BY <1>3, <1>4, <1>6, <2>1, <2>2 DEF LeftBehindOnlyBy
<1> QED
    BY <1>5, <1>7, <1>8, <1>9, <1>10, <1>11 DEF HandlesInv

\* A DiffieHellman without a session holds nothing.
LEMMA NewDiffieHellmanInv ==
    ASSUME HandlesInv, NEW s \in Slots, NewDiffieHellman(s)
    PROVE  HandlesInv'
<1>1. /\ HandlesTypeOK /\ ClassInv /\ FrameInv /\ RawIsExclusive
      /\ HeldIsLive /\ LeftBehindOnlyBy
    BY DEF HandlesInv
<1>2. /\ obj[s] = NoObj /\ frame = NoFrame /\ frame' = frame
      /\ handle' = handle /\ aliased' = aliased /\ overwritten' = overwritten
      /\ obj' = [obj EXCEPT ![s] = [class |-> "dh", ptr |-> "NULL", certs |-> {}]]
    <2>1. [NoObj EXCEPT !.class = "dh"] = [class |-> "dh", ptr |-> "NULL", certs |-> {}]
        BY DEF NoObj
    <2> QED
        BY <2>1 DEF NewDiffieHellman
<1>3. /\ obj'[s].class = "dh" /\ obj'[s].ptr = "NULL" /\ obj'[s].certs = {}
      /\ \A t \in Slots \ {s} : obj'[t] = obj[t]
    BY <1>1, <1>2 DEF HandlesTypeOK
<1>4. HandlesTypeOK'
    BY <1>1, <1>2 DEF HandlesTypeOK, Objects, RawClasses
<1>5. ClassInv' /\ FrameInv'
    BY <1>1, <1>2, <1>3 DEF ClassInv, FrameInv, SharedClasses
<1>6. RawIsExclusive' /\ HeldIsLive' /\ LeftBehindOnlyBy'
    BY <1>1, <1>2, <1>3, HandlesAssumption DEF RawIsExclusive, HeldIsLive, LeftBehindOnlyBy, Holds, NoObj
<1> QED
    BY <1>4, <1>5, <1>6 DEF HandlesInv

\* A copy of a raw pointer is what "aliased" records; a copy of a key shares.
LEMMA CopyInv ==
    ASSUME HandlesInv, NEW s \in Slots, NEW t \in Slots, Copy(s, t)
    PROVE  HandlesInv'
<1>1. /\ HandlesTypeOK /\ ClassInv /\ FrameInv /\ RawIsExclusive
      /\ HeldIsLive /\ LeftBehindOnlyBy
    BY DEF HandlesInv
<1>2. /\ obj[t] = NoObj /\ frame = NoFrame /\ frame' = frame /\ handle' = handle
      /\ overwritten' = overwritten
      /\ obj[s].class \in CopyableClasses /\ obj[s].class # "store" /\ obj[s].class # "none" /\ s # t
      /\ obj' = [obj EXCEPT ![t] = obj[s]]
    BY DEF Copy, NoObj, CopyableClasses, RawClasses
<1>3. /\ obj'[t] = obj[s] /\ \A u \in Slots \ {t} : obj'[u] = obj[u]
      /\ obj[s].certs = {} /\ obj[t].ptr = "NULL" /\ obj[t].certs = {}
    BY <1>1, <1>2 DEF HandlesTypeOK, ClassInv, NoObj
<1>4. /\ aliased \subseteq aliased'
      /\ \A h \in Handles \ aliased' : obj[s].class \in RawClasses => obj[s].ptr # h
    BY HandlesAssumption DEF Copy
<1>5. HandlesTypeOK'
    BY <1>1, <1>2 DEF HandlesTypeOK
<1>6. ClassInv' /\ FrameInv'
    BY <1>1, <1>2, <1>3 DEF ClassInv, FrameInv
<1>7. RawIsExclusive'
    <2> SUFFICES ASSUME NEW u \in Slots, NEW h \in Handles \ aliased',
                        obj'[u].class \in RawClasses, obj'[u].ptr = h
                 PROVE  h \notin obj'[u].certs /\ \A v \in Slots \ {u} : ~Holds(v, h)'
        BY DEF RawIsExclusive
    <2>1. u # t /\ u # s /\ obj'[u] = obj[u] /\ h \in Handles \ aliased
        BY <1>3, <1>4
    <2>2. h \notin obj[u].certs /\ \A v \in Slots \ {u} : ~Holds(v, h)
        BY <1>1, <2>1 DEF RawIsExclusive
    <2> QED
        BY <1>2, <1>3, <2>1, <2>2 DEF Holds
<1>8. HeldIsLive' /\ LeftBehindOnlyBy'
    BY <1>1, <1>2, <1>3, <1>4, HandlesAssumption DEF HeldIsLive, LeftBehindOnlyBy, Holds
<1> QED
    BY <1>5, <1>6, <1>7, <1>8 DEF HandlesInv

\* An assignment to a key gives up the old one; what a raw pointer alone pointed
\* to is what "overwritten" records.
LEMMA AssignInv ==
    ASSUME HandlesInv, NEW s \in Slots, NEW t \in Slots, Assign(s, t)
    PROVE  HandlesInv'
<1>1. /\ HandlesTypeOK /\ ClassInv /\ FrameInv /\ RawIsExclusive
      /\ HeldIsLive /\ LeftBehindOnlyBy
    BY DEF HandlesInv
<1>2. /\ frame = NoFrame /\ frame' = frame /\ s # t
      /\ obj[s].class \in AssignableClasses /\ obj[t].class = obj[s].class
      /\ obj' = [obj EXCEPT ![t] = obj[s]]
    BY DEF Assign
<1>3. /\ obj'[t] = obj[s] /\ \A u \in Slots \ {t} : obj'[u] = obj[u]
      /\ obj[s].certs = {} /\ obj[t].certs = {}
    BY <1>1, <1>2 DEF HandlesTypeOK, ClassInv, AssignableClasses
<1>4. ClassInv' /\ FrameInv'
    BY <1>1, <1>2, <1>3 DEF ClassInv, FrameInv
<1>5. \A u \in Slots, h \in Handles : Holds(u, h)' =>
          IF u = t THEN obj[s].ptr = h ELSE Holds(u, h)
    BY <1>3 DEF Holds
<1>6. \A u \in Slots \ {t}, h \in Handles : Holds(u, h) => Holds(u, h)'
    BY <1>3 DEF Holds
<1>7. CASE obj[s].class = "key"
    <2>1. /\ aliased' = aliased /\ overwritten' = overwritten
          /\ handle' = Released(HoldsAlone(t))
        BY <1>7 DEF Assign
    <2>2. \A h \in Handles : handle'[h] = IF h \in HoldsAlone(t) THEN "freed" ELSE handle[h]
        BY <2>1 DEF Released
    <2>3. HandlesTypeOK'
        BY <1>1, <1>2, <2>1 DEF HandlesTypeOK, Released, Kinds
    <2>4. RawIsExclusive'
        <3> SUFFICES ASSUME NEW u \in Slots, NEW h \in Handles \ aliased,
                            obj'[u].class \in RawClasses, obj'[u].ptr = h
                     PROVE  h \notin obj'[u].certs /\ \A v \in Slots \ {u} : ~Holds(v, h)'
            BY <2>1 DEF RawIsExclusive
        <3>1. u # t /\ u # s /\ obj'[u] = obj[u]
            BY <1>2, <1>3, <1>7 DEF RawClasses
        <3>2. h \notin obj[u].certs /\ \A v \in Slots \ {u} : ~Holds(v, h)
            BY <1>1, <3>1 DEF RawIsExclusive
        <3>3. obj[s].ptr # h
            BY <3>1, <3>2 DEF Holds
        <3> QED
            BY <1>5, <3>1, <3>2, <3>3
    <2>5. HeldIsLive'
        <3> SUFFICES ASSUME NEW u \in Slots, NEW h \in Handles \ aliased, Holds(u, h)'
                     PROVE  handle'[h] # "freed"
            BY <2>1 DEF HeldIsLive
        <3>1. PICK v \in Slots \ {t} : Holds(v, h)
            BY <1>2, <1>5 DEF Holds
        <3>2. h \notin HoldsAlone(t) /\ handle[h] # "freed"
            BY <1>1, <3>1 DEF HoldsAlone, HeldIsLive
        <3> QED
            BY <2>2, <3>2
    <2>6. LeftBehindOnlyBy'
        <3> SUFFICES ASSUME NEW h \in Handles \ overwritten, handle'[h] # "freed"
                     PROVE  \/ frame'.h = h \/ \E u \in Slots : Holds(u, h)'
                            \/ handle'[h] \in {"X509_NAME", "X509_CRL", "BIGNUM"}
            BY <2>1 DEF LeftBehindOnlyBy
        <3>1. handle'[h] = handle[h] /\ h \notin HoldsAlone(t)
            BY <2>2
        <3>2. Holds(t, h) => \E u \in Slots \ {t} : Holds(u, h)
            BY <3>1 DEF HoldsAlone
        <3> QED
            BY <1>1, <1>2, <1>6, <3>1, <3>2 DEF LeftBehindOnlyBy
    <2> QED
        BY <1>4, <2>3, <2>4, <2>5, <2>6 DEF HandlesInv
<1>8. CASE obj[s].class # "key"
    <2>1. /\ aliased' = aliased \cup ({obj[s].ptr} \ {"NULL"}) /\ handle' = handle
          /\ overwritten' = overwritten \cup {h \in HoldsAlone(t) : handle[h] # "freed"}
        BY <1>8 DEF Assign
    <2>2. \A h \in Handles \ aliased' : h \notin aliased /\ obj[s].ptr # h
        BY <2>1, HandlesAssumption
    <2>3. HandlesTypeOK'
        BY <1>1, <1>2, <2>1 DEF HandlesTypeOK
    <2>4. RawIsExclusive'
        <3> SUFFICES ASSUME NEW u \in Slots, NEW h \in Handles \ aliased',
                            obj'[u].class \in RawClasses, obj'[u].ptr = h
                     PROVE  h \notin obj'[u].certs /\ \A v \in Slots \ {u} : ~Holds(v, h)'
            BY DEF RawIsExclusive
        <3>1. u # t /\ obj'[u] = obj[u] /\ h \in Handles \ aliased /\ obj[s].ptr # h
            BY <1>3, <2>2
        <3>2. h \notin obj[u].certs /\ \A v \in Slots \ {u} : ~Holds(v, h)
            BY <1>1, <3>1 DEF RawIsExclusive
        <3> QED
            BY <1>5, <3>1, <3>2
    <2>5. HeldIsLive'
        BY <1>1, <1>5, <2>1, <2>2 DEF HeldIsLive
    <2>6. LeftBehindOnlyBy'
        <3> SUFFICES ASSUME NEW h \in Handles \ overwritten', handle[h] # "freed"
                     PROVE  \/ frame'.h = h \/ \E u \in Slots : Holds(u, h)'
                            \/ handle'[h] \in {"X509_NAME", "X509_CRL", "BIGNUM"}
            BY <2>1 DEF LeftBehindOnlyBy
        <3>1. h \in Handles \ overwritten /\ h \notin HoldsAlone(t)
            BY <2>1
        <3>2. Holds(t, h) => \E u \in Slots \ {t} : Holds(u, h)
            BY <3>1 DEF HoldsAlone
        <3> QED
            BY <1>1, <1>2, <1>6, <2>1, <3>1, <3>2 DEF LeftBehindOnlyBy
    <2> QED
        BY <1>4, <2>3, <2>4, <2>5, <2>6 DEF HandlesInv
<1> QED
    BY <1>7, <1>8

\* A destructor releases what goes with its object, and nothing that another
\* object shares or, unless it is aliased, points to.
LEMMA DestroyInv ==
    ASSUME HandlesInv, NEW s \in Slots, Destroy(s)
    PROVE  HandlesInv'
<1>1. /\ HandlesTypeOK /\ ClassInv /\ FrameInv /\ RawIsExclusive
      /\ HeldIsLive /\ LeftBehindOnlyBy
    BY DEF HandlesInv
<1>2. /\ frame = NoFrame /\ frame' = frame /\ aliased' = aliased /\ overwritten' = overwritten
      /\ handle' = Released(Drops(s))
      /\ obj' = [obj EXCEPT ![s] = NoObj]
    BY DEF Destroy
<1>3. /\ obj'[s].class = "none" /\ obj'[s].ptr = "NULL" /\ obj'[s].certs = {}
      /\ \A u \in Slots \ {s} : obj'[u] = obj[u]
      /\ \A h \in Handles : handle'[h] = IF h \in Drops(s) THEN "freed" ELSE handle[h]
    BY <1>1, <1>2 DEF HandlesTypeOK, NoObj, Released
<1>4. HandlesTypeOK'
    BY <1>1, <1>2 DEF HandlesTypeOK, Released, Kinds, Objects, NoObj
<1>5. ClassInv' /\ FrameInv'
    BY <1>1, <1>2, <1>3 DEF ClassInv, FrameInv, SharedClasses
<1>6. RawIsExclusive'
    BY <1>1, <1>2, <1>3, HandlesAssumption DEF RawIsExclusive, Holds
<1>7. HeldIsLive'
    <2> SUFFICES ASSUME NEW u \in Slots, NEW h \in Handles \ aliased, Holds(u, h)'
                 PROVE  handle'[h] # "freed"
        BY <1>2 DEF HeldIsLive
    <2>1. u # s /\ Holds(u, h) /\ handle[h] # "freed"
        BY <1>1, <1>3, HandlesAssumption DEF Holds, HeldIsLive
    <2>2. h \notin Drops(s)
        BY <1>1, <2>1 DEF Drops, HoldsAlone, RawIsExclusive
    <2> QED
        BY <1>3, <2>1, <2>2
<1>8. LeftBehindOnlyBy'
    <2> SUFFICES ASSUME NEW h \in Handles \ overwritten, handle'[h] # "freed"
                 PROVE  \/ frame'.h = h \/ \E u \in Slots : Holds(u, h)'
                        \/ handle'[h] \in {"X509_NAME", "X509_CRL", "BIGNUM"}
        BY <1>2 DEF LeftBehindOnlyBy
    <2>1. h \notin Drops(s) /\ handle'[h] = handle[h]
        BY <1>3
    <2>2. Holds(s, h) => \E u \in Slots \ {s} : Holds(u, h)
        BY <2>1 DEF Drops, HoldsAlone
    <2>3. \A u \in Slots \ {s} : Holds(u, h) => Holds(u, h)'
        BY <1>3 DEF Holds
    <2> QED
        BY <1>1, <1>2, <2>1, <2>2, <2>3 DEF LeftBehindOnlyBy
<1> QED
    BY <1>4, <1>5, <1>6, <1>7, <1>8 DEF HandlesInv

\* finalize releases the context and forgets it.
LEMMA FinalizeInv ==
    ASSUME HandlesInv, NEW s \in Slots, NEW classes \in SUBSET RawClasses, Finalize(s, classes)
    PROVE  HandlesInv'
<1>1. /\ HandlesTypeOK /\ ClassInv /\ FrameInv /\ RawIsExclusive
      /\ HeldIsLive /\ LeftBehindOnlyBy
    BY DEF HandlesInv
<1>2. PICK p \in Handles : p = obj[s].ptr
    BY <1>1 DEF Finalize, HandlesTypeOK, Objects
<1>3. /\ frame = NoFrame /\ frame' = frame /\ aliased' = aliased /\ overwritten' = overwritten
      /\ obj[s].class \in RawClasses
      /\ handle' = Released({p}) /\ obj' = [obj EXCEPT ![s].ptr = "NULL"]
    BY <1>2 DEF Finalize
<1>4. /\ obj'[s].class = obj[s].class /\ obj'[s].ptr = "NULL" /\ obj'[s].certs = obj[s].certs
      /\ \A u \in Slots \ {s} : obj'[u] = obj[u]
      /\ handle'[p] = "freed" /\ \A h \in Handles \ {p} : handle'[h] = handle[h]
    BY <1>1, <1>3 DEF HandlesTypeOK, Objects, Released
<1>5. HandlesTypeOK'
    <2>1. handle' \in [Handles -> Kinds]
        BY <1>1, <1>3 DEF HandlesTypeOK, Released, Kinds
    <2>2. obj' \in [Slots -> Objects]
        BY <1>1, <1>3 DEF HandlesTypeOK, Objects
    <2> QED
        BY <2>1, <2>2 DEF HandlesTypeOK
<1>6. ClassInv' /\ FrameInv'
    BY <1>1, <1>3, <1>4 DEF ClassInv, FrameInv, SharedClasses, RawClasses
<1>7. RawIsExclusive'
    BY <1>1, <1>3, <1>4, HandlesAssumption DEF RawIsExclusive, Holds
<1>8. HeldIsLive'
    <2> SUFFICES ASSUME NEW u \in Slots, NEW h \in Handles \ aliased, Holds(u, h)'
                 PROVE  handle'[h] # "freed"
        BY <1>3 DEF HeldIsLive
    <2>1. Holds(u, h)
        BY <1>4, HandlesAssumption DEF Holds
    <2>2. h # p
        BY <1>1, <1>2, <1>3, <1>4, <2>1, HandlesAssumption DEF RawIsExclusive, Holds
    <2> QED
        BY <1>1, <1>4, <2>1, <2>2 DEF HeldIsLive
<1>9. LeftBehindOnlyBy'
    <2> SUFFICES ASSUME NEW h \in Handles \ overwritten, handle'[h] # "freed"
                 PROVE  \/ frame'.h = h \/ \E u \in Slots : Holds(u, h)'
                        \/ handle'[h] \in {"X509_NAME", "X509_CRL", "BIGNUM"}
        BY <1>3 DEF LeftBehindOnlyBy
    <2>1. h # p /\ handle'[h] = handle[h]
        BY <1>4
    <2>2. \A u \in Slots : Holds(u, h) => Holds(u, h)'
        BY <1>2, <1>4, <2>1 DEF Holds
    <2> QED
        BY <1>1, <1>3, <2>1, <2>2 DEF LeftBehindOnlyBy
<1> QED
    BY <1>5, <1>6, <1>7, <1>8, <1>9 DEF HandlesInv

\* createSession releases the old session and takes a new one, or none; only
\* the exception of bad numbers leaves the pointer to what it released.
LEMMA CreateSessionInv ==
    ASSUME HandlesInv, NEW s \in Slots, NEW outcome \in {"session", "noMemory", "badNumbers"},
           CreateSession(s, outcome)
    PROVE  HandlesInv'
<1>1. /\ HandlesTypeOK /\ ClassInv /\ FrameInv /\ RawIsExclusive
      /\ HeldIsLive /\ LeftBehindOnlyBy
    BY DEF HandlesInv
<1>2. /\ frame = NoFrame /\ frame' = frame /\ obj[s].class = "dh"
      /\ overwritten' = overwritten
    BY DEF CreateSession
<1>3. PICK h \in Handles :
          /\ Free(h)
          /\ handle' = [Released({obj[s].ptr}) EXCEPT ![h] =
                            IF outcome = "session" THEN "DH" ELSE "freed"]
          /\ obj' = [obj EXCEPT ![s].ptr = IF outcome = "noMemory" THEN "NULL" ELSE h]
          /\ aliased' = IF outcome = "badNumbers" THEN aliased \cup {h} ELSE aliased \ {h}
    BY DEF CreateSession
<1>4. /\ handle[h] = "freed" /\ h # "NULL" /\ frame.h # h
      /\ \A t \in Slots : obj[t].ptr # h /\ h \notin obj[t].certs
    BY <1>3, FreeFacts
<1>5. HandlesTypeOK'
    <2>1. handle' \in [Handles -> Kinds]
        BY <1>1, <1>3 DEF HandlesTypeOK, Released, Kinds
    <2>2. obj' \in [Slots -> Objects]
        BY <1>1, <1>3 DEF HandlesTypeOK, Objects
    <2> QED
        BY <2>1, <2>2 DEF HandlesTypeOK
<1>6. /\ obj'[s].class = "dh" /\ obj'[s].certs = {} /\ obj[s].certs = {}
      /\ obj'[s].ptr = IF outcome = "noMemory" THEN "NULL" ELSE h
      /\ \A u \in Slots \ {s} : obj'[u] = obj[u]
    BY <1>1, <1>2, <1>3 DEF HandlesTypeOK, Objects, ClassInv
<1>7. /\ handle'[h] = (IF outcome = "session" THEN "DH" ELSE "freed")
      /\ \A g \in Handles \ {h} : handle'[g] = IF g = obj[s].ptr THEN "freed" ELSE handle[g]
    BY <1>3 DEF Released
<1>8. ClassInv' /\ FrameInv'
    BY <1>1, <1>2, <1>6 DEF ClassInv, FrameInv, SharedClasses
<1>9. RawIsExclusive'
    <2> SUFFICES ASSUME NEW u \in Slots, NEW g \in Handles \ aliased',
                        obj'[u].class \in RawClasses, obj'[u].ptr = g
                 PROVE  g \notin obj'[u].certs /\ \A v \in Slots \ {u} : ~Holds(v, g)'
        BY DEF RawIsExclusive
    <2>1. CASE u = s
        BY <1>4, <1>6, <2>1, HandlesAssumption DEF Holds
    <2>2. CASE u # s
        <3>1. g # h /\ g \notin aliased /\ obj[u].ptr = g /\ obj[u].class \in RawClasses
            BY <1>3, <1>4, <1>6, <2>2
        <3>2. g \notin obj[u].certs /\ \A v \in Slots \ {u} : ~Holds(v, g)
            BY <1>1, <3>1 DEF RawIsExclusive
        <3> QED
            BY <1>6, <2>2, <3>1, <3>2, HandlesAssumption DEF Holds
    <2> QED
        BY <2>1, <2>2
<1>10. HeldIsLive'
    <2> SUFFICES ASSUME NEW u \in Slots, NEW g \in Handles \ aliased', Holds(u, g)'
                 PROVE  handle'[g] # "freed"
        BY DEF HeldIsLive
    <2>1. CASE g = h
        <3>1. outcome = "session"
            BY <1>3, <1>4, <1>6, <2>1 DEF Holds
        <3> QED
            BY <1>7, <2>1, <3>1
    <2>2. CASE g # h
        <3>1. u # s /\ Holds(u, g) /\ g \notin aliased
            BY <1>3, <1>6, <2>2, HandlesAssumption DEF Holds
        <3>2. g # obj[s].ptr
            BY <1>1, <1>2, <3>1 DEF RawIsExclusive, RawClasses
        <3> QED
            BY <1>1, <1>7, <2>2, <3>1, <3>2 DEF HeldIsLive
    <2> QED
        BY <2>1, <2>2
<1>11. LeftBehindOnlyBy'
    <2> SUFFICES ASSUME NEW g \in Handles \ overwritten, handle'[g] # "freed"
                 PROVE  \/ frame'.h = g \/ \E u \in Slots : Holds(u, g)'
                        \/ handle'[g] \in {"X509_NAME", "X509_CRL", "BIGNUM"}
        BY <1>2 DEF LeftBehindOnlyBy
    <2>1. CASE g = h
        BY <1>6, <1>7, <2>1 DEF Holds
    <2>2. CASE g # h
        <3>1. handle'[g] = handle[g] /\ ~Holds(s, g)
            BY <1>6, <1>7, <2>2 DEF Holds
        <3>2. \A u \in Slots \ {s} : Holds(u, g) => Holds(u, g)'
            BY <1>6 DEF Holds
        <3> QED
            BY <1>1, <1>2, <3>1, <3>2 DEF LeftBehindOnlyBy
    <2> QED
        BY <2>1, <2>2
<1> QED
    BY <1>5, <1>8, <1>9, <1>10, <1>11 DEF HandlesInv

\* The cast that throws leaves the DiffieHellman with a DH without numbers, and a
\* number behind.
LEMMA CreateSessionCastThrowsInv ==
    ASSUME HandlesInv, NEW s \in Slots, CreateSessionCastThrows(s)
    PROVE  HandlesInv'
<1>1. /\ HandlesTypeOK /\ ClassInv /\ FrameInv /\ RawIsExclusive
      /\ HeldIsLive /\ LeftBehindOnlyBy
    BY DEF HandlesInv
<1>2. /\ frame = NoFrame /\ frame' = frame /\ obj[s].class = "dh"
      /\ overwritten' = overwritten
    BY DEF CreateSessionCastThrows
<1>3. PICK h \in Handles, b \in Handles :
          /\ Free(h) /\ Free(b) /\ h # b
          /\ handle' = [Released({obj[s].ptr}) EXCEPT ![h] = "DH", ![b] = "BIGNUM"]
          /\ obj' = [obj EXCEPT ![s].ptr = h]
          /\ aliased' = aliased \ {h, b}
    BY DEF CreateSessionCastThrows
<1>4. /\ h # "NULL" /\ b # "NULL"
      /\ \A t \in Slots : obj[t].ptr # h /\ h \notin obj[t].certs
      /\ \A t \in Slots : obj[t].ptr # b /\ b \notin obj[t].certs
    BY <1>3, FreeFacts
<1>5. HandlesTypeOK'
    <2>1. handle' \in [Handles -> Kinds]
        BY <1>1, <1>3 DEF HandlesTypeOK, Released, Kinds
    <2>2. obj' \in [Slots -> Objects]
        BY <1>1, <1>3 DEF HandlesTypeOK, Objects
    <2> QED
        BY <2>1, <2>2 DEF HandlesTypeOK
<1>6. /\ obj'[s].class = "dh" /\ obj'[s].certs = {} /\ obj[s].certs = {} /\ obj'[s].ptr = h
      /\ \A u \in Slots \ {s} : obj'[u] = obj[u]
    BY <1>1, <1>2, <1>3 DEF HandlesTypeOK, Objects, ClassInv
<1>7. /\ handle'[h] = "DH" /\ handle'[b] = "BIGNUM"
      /\ \A g \in Handles \ {h, b} : handle'[g] = IF g = obj[s].ptr THEN "freed" ELSE handle[g]
    BY <1>3 DEF Released
<1>8. ClassInv' /\ FrameInv'
    BY <1>1, <1>2, <1>6 DEF ClassInv, FrameInv, SharedClasses
<1>9. \A u \in Slots, g \in Handles : Holds(u, g)' =>
          IF u = s THEN g = h ELSE g # h /\ g # b /\ Holds(u, g)
    BY <1>4, <1>6 DEF Holds
<1>10. RawIsExclusive'
    <2> SUFFICES ASSUME NEW u \in Slots, NEW g \in Handles \ aliased',
                        obj'[u].class \in RawClasses, obj'[u].ptr = g
                 PROVE  g \notin obj'[u].certs /\ \A v \in Slots \ {u} : ~Holds(v, g)'
        BY DEF RawIsExclusive
    <2>1. CASE u = s
        BY <1>6, <1>9, <2>1
    <2>2. CASE u # s
        <3>1. g # h /\ g # b /\ g \notin aliased /\ obj[u].ptr = g /\ obj[u].class \in RawClasses
            BY <1>3, <1>4, <1>6, <2>2
        <3>2. g \notin obj[u].certs /\ \A v \in Slots \ {u} : ~Holds(v, g)
            BY <1>1, <3>1 DEF RawIsExclusive
        <3> QED
            BY <1>6, <1>9, <2>2, <3>1, <3>2
    <2> QED
        BY <2>1, <2>2
<1>11. HeldIsLive'
    <2> SUFFICES ASSUME NEW u \in Slots, NEW g \in Handles \ aliased', Holds(u, g)', u # s
                 PROVE  handle'[g] # "freed"
        BY <1>7, <1>9 DEF HeldIsLive
    <2>1. Holds(u, g) /\ g \notin {h, b} /\ g \notin aliased
        BY <1>3, <1>9
    <2>2. g # obj[s].ptr
        BY <1>1, <1>2, <2>1 DEF RawIsExclusive, RawClasses
    <2> QED
        BY <1>1, <1>7, <2>1, <2>2 DEF HeldIsLive
<1>12. LeftBehindOnlyBy'
    <2> SUFFICES ASSUME NEW g \in Handles \ overwritten, handle'[g] # "freed", g # h, g # b
                 PROVE  \/ frame'.h = g \/ \E u \in Slots : Holds(u, g)'
                        \/ handle'[g] \in {"X509_NAME", "X509_CRL", "BIGNUM"}
        BY <1>2, <1>6, <1>7 DEF LeftBehindOnlyBy, Holds
    <2>1. handle'[g] = handle[g] /\ ~Holds(s, g)
        BY <1>6, <1>7 DEF Holds
    <2>2. \A u \in Slots \ {s} : Holds(u, g) => Holds(u, g)'
        BY <1>6 DEF Holds
    <2> QED
        BY <1>1, <1>2, <2>1, <2>2 DEF LeftBehindOnlyBy
<1> QED
    BY <1>5, <1>8, <1>10, <1>11, <1>12 DEF HandlesInv

\* A store shares the certificates added to it.
LEMMA AddCertificateInv ==
    ASSUME HandlesInv, NEW s \in Slots, NEW t \in Slots, AddCertificate(s, t)
    PROVE  HandlesInv'
<1>1. /\ HandlesTypeOK /\ ClassInv /\ FrameInv /\ RawIsExclusive
      /\ HeldIsLive /\ LeftBehindOnlyBy
    BY DEF HandlesInv
<1>2. PICK c \in Handles : c = obj[t].ptr
    BY <1>1 DEF AddCertificate, HandlesTypeOK, Objects, ClassInv, SharedClasses
<1>3. /\ frame = NoFrame /\ frame' = frame /\ aliased' = aliased /\ handle' = handle
      /\ overwritten' = overwritten
      /\ obj[s].class = "store" /\ obj[t].class = "cert" /\ s # t
      /\ obj' = [obj EXCEPT ![s].certs = obj[s].certs \cup {c}]
    BY <1>2 DEF AddCertificate
<1>4. /\ obj'[s].class = "store" /\ obj'[s].ptr = obj[s].ptr
      /\ obj'[s].certs = obj[s].certs \cup {c}
      /\ \A u \in Slots \ {s} : obj'[u] = obj[u]
    BY <1>1, <1>3 DEF HandlesTypeOK, Objects
<1>5. HandlesTypeOK'
    BY <1>1, <1>3 DEF HandlesTypeOK, Objects
<1>6. ClassInv' /\ FrameInv'
    BY <1>1, <1>3, <1>4 DEF ClassInv, FrameInv, SharedClasses
<1>7. RawIsExclusive'
    <2> SUFFICES ASSUME NEW u \in Slots, NEW g \in Handles \ aliased,
                        obj'[u].class \in RawClasses, obj'[u].ptr = g
                 PROVE  g \notin obj'[u].certs /\ \A v \in Slots \ {u} : ~Holds(v, g)'
        BY <1>3 DEF RawIsExclusive
    <2>1. obj[u].class \in RawClasses /\ obj[u].ptr = g
        BY <1>3, <1>4
    <2>2. g \notin obj[u].certs /\ \A v \in Slots \ {u} : ~Holds(v, g)
        BY <1>1, <2>1 DEF RawIsExclusive
    <2>3. u # t /\ g # c
        BY <1>2, <1>3, <2>1, <2>2 DEF RawClasses, Holds
    <2> QED
        BY <1>4, <2>2, <2>3 DEF Holds
<1>8. HeldIsLive' /\ LeftBehindOnlyBy'
    BY <1>1, <1>2, <1>3, <1>4 DEF HeldIsLive, LeftBehindOnlyBy, Holds
<1> QED
    BY <1>5, <1>6, <1>7, <1>8 DEF HandlesInv

\* The table of functions: their handles, and the kinds that some path
\* does not release.
LEMMA FnFacts ==
    ASSUME NEW fn \in Fns
    PROVE  /\ fn.temp \in (Kinds \ {"freed"}) \cup {"none"}
           /\ fn.makes \in {"none", "EVP_PKEY", "X509"}
           /\ \A ok \in BOOLEAN : ok \notin fn.frees =>
                  fn.temp \in {"none", "X509_NAME", "X509_CRL", "BIGNUM"}
<1> DEFINE P(f) == /\ f.temp \in (Kinds \ {"freed"}) \cup {"none"}
                   /\ f.makes \in {"none", "EVP_PKEY", "X509"}
                   /\ \/ f.frees = {TRUE, FALSE}
                      \/ f.temp \in {"none", "X509_NAME", "X509_CRL", "BIGNUM"}
<1>1. P(Hash) /\ P(KeyToPem) /\ P(KeySaveToPemFile) /\ P(KeyFromPem)
    BY DEF Kinds, Hash, KeyToPem, KeySaveToPemFile, KeyFromPem
<1>2. P(CertToPem) /\ P(CertFromPem) /\ P(GetSubjectName) /\ P(GetIssuerName)
    BY DEF Kinds, CertToPem, CertFromPem, GetSubjectName, GetIssuerName
<1>3. P(SetSubjectName) /\ P(SetIssuerName) /\ P(GetPublicKey) /\ P(AddCrlFromPemFile)
    BY DEF Kinds, SetSubjectName, SetIssuerName, GetPublicKey, AddCrlFromPemFile
<1>4. P(StoreVerify) /\ P(ComputeSharedSecret)
    BY DEF Kinds, StoreVerify, ComputeSharedSecret
<1>5. P(fn)
    <2> HIDE DEF P
    <2> QED
        BY <1>1, <1>2, <1>3, <1>4 DEF Fns
<1>6. \A ok \in BOOLEAN : ok \in {TRUE, FALSE}
    BY Zenon
<1> QED
    BY <1>5, <1>6, Zenon

\* A call begins with a handle nobody has.
LEMMA BeginInv ==
    ASSUME HandlesInv, NEW fn \in Fns, Begin(fn)
    PROVE  HandlesInv'
<1>1. /\ HandlesTypeOK /\ ClassInv /\ FrameInv /\ RawIsExclusive
      /\ HeldIsLive /\ LeftBehindOnlyBy
    BY DEF HandlesInv
<1>2. frame = NoFrame /\ obj' = obj /\ frame.h = "NULL" /\ overwritten' = overwritten
    BY DEF Begin, NoFrame
<1>3. \A s, h : Holds(s, h)' <=> Holds(s, h)
    BY <1>2 DEF Holds
<1>4. ClassInv'
    BY <1>1, <1>2 DEF ClassInv
<1>5. CASE fn.temp = "none"
    <2>1. frame' = [fn |-> fn, h |-> "NULL"] /\ handle' = handle /\ aliased' = aliased
        BY <1>5 DEF Begin
    <2>2. frame'.fn = fn /\ frame'.h = "NULL"
        BY <2>1
    <2>3. HandlesTypeOK' /\ FrameInv'
        BY <1>1, <1>2, <1>5, <2>1, <2>2 DEF HandlesTypeOK, FrameInv
    <2>4. RawIsExclusive' /\ HeldIsLive'
        BY <1>1, <1>2, <1>3, <2>1 DEF RawIsExclusive, HeldIsLive
    <2>5. LeftBehindOnlyBy'
        BY <1>1, <1>2, <1>3, <2>1, <2>2 DEF LeftBehindOnlyBy
    <2> QED
        BY <1>4, <2>3, <2>4, <2>5 DEF HandlesInv
<1>6. CASE fn.temp # "none"
    <2>1. PICK h \in Handles : /\ Free(h)
                               /\ handle' = Allocated(h, fn.temp)
                               /\ aliased' = aliased \ {h}
                               /\ frame' = [fn |-> fn, h |-> h]
        BY <1>6 DEF Begin
    <2>2. /\ handle[h] = "freed" /\ h # "NULL"
          /\ \A s \in Slots : ~Holds(s, h)
        BY <2>1, FreeFacts DEF Holds
    <2>3. fn.temp \in Kinds \ {"freed"}
        BY <1>6, FnFacts
    <2>4. /\ frame'.fn = fn /\ frame'.h = h
          /\ handle'[h] = fn.temp /\ \A g \in Handles \ {h} : handle'[g] = handle[g]
        BY <1>1, <2>1 DEF HandlesTypeOK, Allocated
    <2>5. HandlesTypeOK'
        BY <1>1, <1>2, <2>1, <2>3 DEF HandlesTypeOK, Allocated
    <2>6. FrameInv'
        BY <1>3, <2>2, <2>4 DEF FrameInv
    <2>7. RawIsExclusive'
        BY <1>1, <1>2, <1>3, <2>1, <2>2 DEF RawIsExclusive, Holds
    <2>8. HeldIsLive'
        BY <1>1, <1>3, <2>1, <2>2, <2>4 DEF HeldIsLive
    <2>9. LeftBehindOnlyBy'
        BY <1>1, <1>2, <1>3, <2>4, HandlesAssumption DEF LeftBehindOnlyBy
    <2> QED
        BY <1>4, <2>5, <2>6, <2>7, <2>8, <2>9 DEF HandlesInv
<1> QED
    BY <1>5, <1>6

\* A call ends: its own handle is released, or it is of a kind left behind; an
\* object it makes has a handle of its own.
LEMMA EndInv ==
    ASSUME HandlesInv, NEW ok \in BOOLEAN, NEW s \in Slots, End(ok, s)
    PROVE  HandlesInv'
<1> DEFINE rest == IF ok \in frame.fn.frees THEN Released({frame.h}) ELSE handle
<1>1. /\ HandlesTypeOK /\ ClassInv /\ FrameInv /\ RawIsExclusive
      /\ HeldIsLive /\ LeftBehindOnlyBy
    BY DEF HandlesInv
<1>2. /\ overwritten' = overwritten
      /\ frame' = NoFrame /\ frame'.h = "NULL" /\ frame.fn \in Fns
      /\ frame.h = "NULL" => frame.fn.temp = "none"
      /\ frame.h # "NULL" => /\ frame.h \in Handles /\ handle[frame.h] = frame.fn.temp
                             /\ \A u \in Slots : ~Holds(u, frame.h)
    BY <1>1 DEF End, NoFrame, FrameInv
<1>3. rest \in [Handles -> Kinds]
    BY <1>1 DEF Released, HandlesTypeOK, Kinds
<1>4. \A g \in Handles : rest[g] = IF g = frame.h /\ ok \in frame.fn.frees THEN "freed" ELSE handle[g]
    BY DEF Released
<1>5. \A g \in Handles : rest[g] # "freed" =>
          \/ g # frame.h /\ rest[g] = handle[g]
          \/ rest[g] \in {"X509_NAME", "X509_CRL", "BIGNUM"}
    <2>1. ok \notin frame.fn.frees => frame.fn.temp \in {"none", "X509_NAME", "X509_CRL", "BIGNUM"}
        BY <1>2, FnFacts
    <2>2. \A g \in Handles : handle[g] # "none"
        BY <1>1 DEF HandlesTypeOK, Kinds
    <2> QED
        BY <1>2, <1>4, <2>1, <2>2, HandlesAssumption
<1>6. \A u \in Slots, g \in Handles \ aliased : Holds(u, g) => rest[g] # "freed"
    BY <1>1, <1>2, <1>4, HandlesAssumption DEF HeldIsLive
<1>7. FrameInv'
    BY <1>2 DEF FrameInv
<1>8. CASE ok /\ frame.fn.makes # "none"
    <2>1. PICK h \in Handles :
               /\ obj[s] = NoObj /\ Free(h)
               /\ handle' = [rest EXCEPT ![h] = frame.fn.makes]
               /\ obj' = [obj EXCEPT ![s] =
                     [class |-> IF frame.fn.makes = "X509" THEN "cert" ELSE "key",
                      ptr |-> h, certs |-> {}]]
               /\ aliased' = aliased \ {h}
        BY <1>8 DEF End
    <2>2. PICK class \in SharedClasses :
              obj' = [obj EXCEPT ![s] = [class |-> class, ptr |-> h, certs |-> {}]]
        BY <2>1 DEF SharedClasses
    <2>3. /\ handle[h] = "freed" /\ h # "NULL" /\ frame.h # h
          /\ \A t \in Slots : obj[t].ptr # h /\ h \notin obj[t].certs
        BY <2>1, FreeFacts
    <2>4. frame.fn.makes \in Kinds \ {"freed"}
        BY <1>2, <1>8, FnFacts DEF Kinds
    <2>5. HandlesTypeOK'
        <3>1. handle' \in [Handles -> Kinds]
            BY <1>3, <2>1, <2>4
        <3>2. obj' \in [Slots -> Objects]
            BY <1>1, <2>2 DEF HandlesTypeOK, Objects
        <3> QED
            BY <3>1, <3>2 DEF HandlesTypeOK
    <2>6. /\ obj'[s].class = class /\ obj'[s].ptr = h /\ obj'[s].certs = {}
          /\ \A t \in Slots \ {s} : obj'[t] = obj[t]
          /\ obj[s].ptr = "NULL" /\ obj[s].certs = {}
        BY <1>1, <2>1, <2>2 DEF HandlesTypeOK, NoObj
    <2>7. handle'[h] # "freed" /\ \A g \in Handles \ {h} : handle'[g] = rest[g]
        BY <1>3, <2>1, <2>4
    <2>8. ClassInv'
        BY <1>1, <2>3, <2>6 DEF ClassInv, RawClasses, SharedClasses
    <2>9. RawIsExclusive'
        <3>1. class \notin RawClasses
            BY DEF RawClasses, SharedClasses
        <3> QED
            BY <1>1, <2>1, <2>3, <2>6, <3>1 DEF RawIsExclusive, Holds
    <2>10. HeldIsLive'
        <3> SUFFICES ASSUME NEW u \in Slots, NEW g \in Handles \ aliased', g # h, Holds(u, g)'
                     PROVE  rest[g] # "freed"
            BY <2>7 DEF HeldIsLive
        <3>1. Holds(u, g) /\ g \in Handles \ aliased
            BY <2>1, <2>6 DEF Holds
        <3> QED
            BY <1>6, <3>1
    <2>11. LeftBehindOnlyBy'
        <3> SUFFICES ASSUME NEW g \in Handles \ overwritten, handle'[g] # "freed", g # h
                     PROVE  \/ \E u \in Slots : Holds(u, g)'
                            \/ handle'[g] \in {"X509_NAME", "X509_CRL", "BIGNUM"}
            BY <1>2, <2>6 DEF LeftBehindOnlyBy, Holds
        <3>1. \A u \in Slots : Holds(u, g) => Holds(u, g)'
            BY <2>6, HandlesAssumption DEF Holds
        <3> QED
            BY <1>1, <1>5, <2>7, <3>1 DEF LeftBehindOnlyBy
    <2> QED
        BY <1>7, <2>5, <2>8, <2>9, <2>10, <2>11 DEF HandlesInv
<1>9. CASE ~(ok /\ frame.fn.makes # "none")
    <2>1. handle' = rest /\ obj' = obj /\ aliased' = aliased
        BY <1>9 DEF End
    <2>2. \A u, g : Holds(u, g)' <=> Holds(u, g)
        BY <2>1 DEF Holds
    <2>3. HandlesTypeOK' /\ ClassInv'
        BY <1>1, <1>3, <2>1 DEF HandlesTypeOK, ClassInv
    <2>4. RawIsExclusive'
        BY <1>1, <2>1, <2>2 DEF RawIsExclusive
    <2>5. HeldIsLive'
        BY <1>6, <2>1, <2>2 DEF HeldIsLive
    <2>6. LeftBehindOnlyBy'
        BY <1>1, <1>2, <1>5, <2>1, <2>2 DEF LeftBehindOnlyBy
    <2> QED
        BY <1>7, <2>3, <2>4, <2>5, <2>6 DEF HandlesInv
<1> QED
    BY <1>8, <1>9

\* Every operation of crypto/ preserves the invariant.
LEMMA NextHandles == HandlesInv /\ HandlesNext => HandlesInv'
<1> SUFFICES ASSUME HandlesInv, HandlesNext PROVE HandlesInv'
    OBVIOUS
<1>1. ASSUME NEW s \in Slots,
             \/ NewHmac(s) \/ NewSigner(s) \/ NewVerifier(s) \/ NewEncryptor(s)
             \/ NewDecryptor(s) \/ NewStore(s) \/ NewKey(s) \/ NewCert(s)
      PROVE  HandlesInv'
    <2>1. PICK class \in RawClasses \cup SharedClasses, kind \in Kinds \ {"freed"} :
              Construct(s, class, kind)
        BY <1>1 DEF NewHmac, NewSigner, NewVerifier, NewEncryptor, NewDecryptor, NewStore,
                    NewKey, NewCert, RawClasses, SharedClasses, Kinds
    <2> QED
        BY <2>1, ConstructInv
<1>2. ASSUME NEW s \in Slots, HmacFinalize(s) \/ EncryptorFinalize(s) \/ DecryptorFinalize(s)
      PROVE  HandlesInv'
    <2>1. PICK classes \in SUBSET RawClasses : Finalize(s, classes)
        BY <1>2 DEF HmacFinalize, EncryptorFinalize, DecryptorFinalize, RawClasses
    <2> QED
        BY <2>1, FinalizeInv
<1> QED
    BY <1>1, <1>2, NewDiffieHellmanInv, CreateSessionInv, CreateSessionCastThrowsInv, CopyInv,
       AssignInv, AddCertificateInv, DestroyInv, EndInv, BeginInv DEF HandlesNext

-----------------------------------------------------------------------------
(* Numbers: the least element of a set of naturals, the greatest of a      *)
(* bounded one, and division by the block size.                            *)

\* Every non-empty set of naturals has a least element.
LEMMA NatMin ==
    ASSUME NEW T \in SUBSET Nat, T # {}
    PROVE  \E x \in T : \A y \in T : x <= y
<1> DEFINE R == OpToRel(<, Nat)
<1>1. IsWellFoundedOn(R, Nat)
    BY NatLessThanWellFounded, Zenon
<1>2. PICK x \in T : \A y \in T : ~(<<y, x>> \in R)
    <2> HIDE DEF R
    <2> QED
        BY <1>1, WFMin
<1>3. \A y \in T : y < x => <<y, x>> \in R
    BY DEF OpToRel
<1>4. \A y \in T : ~(y < x)
    BY <1>2, <1>3, Zenon
<1> QED
    BY <1>4

\* Max chooses the greatest element of a bounded set.
LEMMA MaxExists ==
    ASSUME NEW S \in SUBSET Nat, S # {}, NEW b \in Nat, \A x \in S : x <= b
    PROVE  Max(S) \in S /\ \A x \in S : x <= Max(S)
<1> DEFINE D == {d \in Nat : b - d \in S}
<1>1. D # {}
    <2>1. PICK x \in S : x \in Nat /\ x <= b
        OBVIOUS
    <2>2. b - x \in Nat /\ b - (b - x) = x
        BY <2>1
    <2>3. b - x \in D
        BY <2>1, <2>2
    <2> QED
        BY <2>3
<1>2. PICK m \in D : \A y \in D : m <= y
    BY <1>1, NatMin
<1>3. \A y \in S : b - m >= y
    <2> SUFFICES ASSUME NEW y \in S PROVE b - m >= y
        OBVIOUS
    <2>1. y \in Nat /\ y <= b
        OBVIOUS
    <2>2. b - y \in Nat /\ b - (b - y) = y
        BY <2>1
    <2>3. m <= b - y /\ m \in Nat
        BY <1>2, <2>2
    <2> QED
        BY <2>1, <2>3
<1>4. b - m \in S
    BY <1>2
<1> QED
    BY <1>3, <1>4 DEF Max

\* The full blocks of t bytes, and what is left of them.
LEMMA DivFacts ==
    ASSUME NEW b \in Nat \ {0}, NEW t \in Nat
    PROVE  /\ t \div b \in Nat /\ (t \div b) * b \in Nat /\ (t \div b) * b <= t
           /\ t - (t \div b) * b < b /\ t % b = t - (t \div b) * b
OBVIOUS

LEMMA MulMono ==
    ASSUME NEW b \in Nat \ {0}, NEW p \in Nat, NEW q \in Nat, p < q
    PROVE  p * b + b <= q * b
OBVIOUS

LEMMA DivMono ==
    ASSUME NEW b \in Nat \ {0}, NEW s \in Nat, NEW t \in Nat, s <= t
    PROVE  (s \div b) * b <= (t \div b) * b
<1>1. s \div b <= t \div b
    BY DivFacts, MulMono
<1> QED
    BY <1>1, MulMono, DivFacts

LEMMA DivMultiple ==
    ASSUME NEW b \in Nat \ {0}, NEW q \in Nat
    PROVE  ((q * b + b) - 1) \div b = q /\ q * b \in Nat
OBVIOUS

-----------------------------------------------------------------------------
(* CipherStream.                                                           *)

\* What OpenSSL has yielded is never more than it was given, lags behind by at
\* most a block, and never shrinks.
LEMMA OutFacts ==
    ASSUME NEW t \in Nat
    PROVE  /\ EncOut(t) \in Nat /\ EncOut(t) <= t /\ t % BLOCK = t - EncOut(t)
           /\ DecOut(t) \in Nat /\ DecOut(t) <= t /\ t - DecOut(t) <= BLOCK
           /\ t > 0 => DecOut(t) < t
<1>1. EncOut(t) \in Nat /\ EncOut(t) <= t /\ t % BLOCK = t - EncOut(t)
    BY DivFacts, CipherAssumption DEF EncOut
<1>2. CASE t = 0
    BY <1>1, <1>2, CipherAssumption DEF DecOut
<1>3. CASE t > 0
    <2>1. t - 1 \in Nat
        BY <1>3
    <2>2. PICK d \in Nat : d = ((t - 1) \div BLOCK) * BLOCK /\ d <= t - 1 /\ t - 1 - d < BLOCK
        BY <2>1, DivFacts, CipherAssumption
    <2>3. DecOut(t) = d
        BY <1>3, <2>2 DEF DecOut
    <2> QED
        BY <1>1, <1>3, <2>2, <2>3, CipherAssumption
<1> QED
    BY <1>2, <1>3

LEMMA OutMono ==
    ASSUME NEW s \in Nat, NEW t \in Nat, s <= t
    PROVE  EncOut(s) <= EncOut(t) /\ DecOut(s) <= DecOut(t)
<1>1. EncOut(s) <= EncOut(t)
    BY DivMono, CipherAssumption DEF EncOut
<1>2. CASE s = 0
    BY <1>1, <1>2, OutFacts DEF DecOut
<1>3. CASE s > 0
    <2>1. s - 1 \in Nat /\ t - 1 \in Nat /\ s - 1 <= t - 1 /\ s # 0 /\ t # 0
        BY <1>3
    <2>2. ((s - 1) \div BLOCK) * BLOCK <= ((t - 1) \div BLOCK) * BLOCK
        BY <2>1, DivMono, CipherAssumption
    <2> QED
        BY <1>1, <2>1, <2>2 DEF DecOut
<1> QED
    BY <1>2, <1>3

\* The Decryptor has yielded all full blocks of the plaintext once it has been
\* given the ciphertext with its padding.
LEMMA DecOutOfAll ==
    ASSUME NEW t \in Nat
    PROVE  DecOut(EncOut(t) + BLOCK) = EncOut(t)
<1>1. PICK q \in Nat : q = t \div BLOCK /\ EncOut(t) = q * BLOCK /\ q * BLOCK \in Nat
    BY DivFacts, CipherAssumption DEF EncOut
<1>2. ((q * BLOCK + BLOCK) - 1) \div BLOCK = q
    BY DivMultiple, CipherAssumption
<1>3. PICK x \in Nat : x = EncOut(t) + BLOCK /\ x = q * BLOCK + BLOCK /\ x # 0
    BY <1>1, CipherAssumption
<1>4. DecOut(x) = ((x - 1) \div BLOCK) * BLOCK
    BY <1>3 DEF DecOut
<1>5. (x - 1) \div BLOCK = q
    BY <1>2, <1>3, Zenon
<1> QED
    BY <1>1, <1>3, <1>4, <1>5

\* The two directions together.
LEMMA OutOfFacts ==
    ASSUME NEW by \in {"enc", "dec"}, NEW t \in Nat, NEW n \in Nat
    PROVE  /\ OutOf(by, t) \in Nat /\ OutOf(by, t + n) \in Nat
           /\ OutOf(by, t) <= OutOf(by, t + n)
           /\ OutOf(by, t) <= t /\ t - OutOf(by, t) <= BLOCK
<1>1. t + n \in Nat /\ t <= t + n
    OBVIOUS
<1>2. t - EncOut(t) <= BLOCK
    BY DivFacts, CipherAssumption DEF EncOut
<1> QED
    BY <1>1, <1>2, OutFacts, OutMono DEF OutOf

\* The smaller of two numbers.
LEMMA MinOfTwo ==
    ASSUME NEW a \in Nat, NEW b \in Nat
    PROVE  Min({a, b}) = IF a <= b THEN a ELSE b
<1>1. PICK m \in {a, b} : m = (IF a <= b THEN a ELSE b) /\ \A y \in {a, b} : m =< y
    OBVIOUS
<1>2. \A x \in {a, b} : (\A y \in {a, b} : x =< y) => x = m
    BY <1>1
<1> QED
    BY <1>1, <1>2 DEF Min

\* Where a shot begins and ends.
LEMMA ShotFacts ==
    ASSUME NEW n \in Nat, NEW k \in Shots(n)
    PROVE  /\ k \in Nat /\ ShotBegin(k) \in Nat /\ ShotEnd(k, n) \in Nat
           /\ ShotBegin(k) <= ShotEnd(k, n) /\ ShotEnd(k, n) <= n
           /\ n <= MAX_SHOT_SIZE => k = 0 /\ ShotBegin(k) = 0 /\ ShotEnd(k, n) = n
<1>1. k \in Nat /\ k * MAX_SHOT_SIZE \in Nat /\ k * MAX_SHOT_SIZE < n
    BY CipherAssumption DEF Shots
<1>2. PICK e \in Nat : e = (k + 1) * MAX_SHOT_SIZE /\ k * MAX_SHOT_SIZE < e
    <2>1. (k + 1) * MAX_SHOT_SIZE \in Nat /\ k * MAX_SHOT_SIZE < (k + 1) * MAX_SHOT_SIZE
        BY <1>1, CipherAssumption
    <2> QED
        BY <2>1
<1>3. ShotEnd(k, n) = IF n <= e THEN n ELSE e
    BY <1>2, MinOfTwo DEF ShotEnd
<1>4. ASSUME n <= MAX_SHOT_SIZE PROVE k = 0 /\ e = MAX_SHOT_SIZE
    BY <1>1, <1>2, <1>4, CipherAssumption
<1> QED
    BY <1>1, <1>2, <1>3, <1>4, CipherAssumption DEF ShotBegin

\* No shot ends more than a block behind the end of the source.
LEMMA EndOfFacts ==
    ASSUME NEW by \in {"enc", "dec"}, NEW total \in Nat, NEW n \in Nat
    PROVE  /\ EndOf(by, total, n) \in {0} \cup {ShotBegin(k) + ShotOut(by, total, n, k) : k \in Shots(n)}
           /\ EndOf(by, total, n) \in Nat /\ EndOf(by, total, n) <= n + BLOCK
           /\ \A k \in Shots(n) : ShotBegin(k) + ShotOut(by, total, n, k) <= EndOf(by, total, n)
<1> DEFINE S == {0} \cup {ShotBegin(k) + ShotOut(by, total, n, k) : k \in Shots(n)}
<1>1. ASSUME NEW k \in Shots(n)
      PROVE  /\ ShotBegin(k) + ShotOut(by, total, n, k) \in Nat
             /\ ShotBegin(k) + ShotOut(by, total, n, k) <= n + BLOCK
    <2>1. PICK b \in Nat, e \in Nat : b = ShotBegin(k) /\ e = ShotEnd(k, n) /\ b <= e /\ e <= n
        BY ShotFacts
    <2>2. PICK ob \in Nat, oe \in Nat :
              /\ ob = OutOf(by, total + b) /\ oe = OutOf(by, total + e)
              /\ ob <= oe /\ (total + b) - ob <= BLOCK /\ oe <= total + e
        <3>1. total + b \in Nat /\ e - b \in Nat /\ (total + b) + (e - b) = total + e /\ total + e \in Nat
            BY <2>1
        <3>2. /\ OutOf(by, total + b) \in Nat /\ OutOf(by, total + e) \in Nat
              /\ OutOf(by, total + b) <= OutOf(by, total + e)
              /\ (total + b) - OutOf(by, total + b) <= BLOCK
            BY <3>1, OutOfFacts
        <3>3. OutOf(by, total + e) <= total + e
            BY <3>1, OutOfFacts
        <3> QED
            BY <3>2, <3>3
    <2>3. ShotOut(by, total, n, k) = oe - ob
        BY <2>1, <2>2 DEF ShotOut
    <2> QED
        BY <2>1, <2>2, <2>3, CipherAssumption
<1>2. S \in SUBSET Nat /\ S # {} /\ \A x \in S : x <= n + BLOCK
    BY <1>1, CipherAssumption
<1>3. Max(S) \in S /\ \A x \in S : x <= Max(S)
    <2>1. n + BLOCK \in Nat
        BY CipherAssumption
    <2> HIDE DEF S
    <2> QED
        BY <1>2, <2>1, MaxExists
<1> QED
    BY <1>2, <1>3 DEF EndOf

\* One of the Encryptor does not reach the end of that block.
LEMMA EncEnd ==
    ASSUME NEW total \in Nat, NEW n \in Nat
    PROVE  EndOf("enc", total, n) < n + BLOCK
<1>1. ASSUME NEW k \in Shots(n)
      PROVE  ShotBegin(k) + ShotOut("enc", total, n, k) < n + BLOCK
    <2>1. PICK b \in Nat, e \in Nat : b = ShotBegin(k) /\ e = ShotEnd(k, n) /\ b <= e /\ e <= n
        BY ShotFacts
    <2>2. total + b \in Nat /\ total + e \in Nat
        BY <2>1
    <2>3. PICK ob \in Nat, oe \in Nat :
              /\ ob = EncOut(total + b) /\ oe = EncOut(total + e)
              /\ (total + b) - ob < BLOCK /\ oe <= total + e
        BY <2>2, DivFacts, CipherAssumption DEF EncOut
    <2>4. ShotOut("enc", total, n, k) = oe - ob
        BY <2>1, <2>3 DEF ShotOut, OutOf
    <2> QED
        BY <2>1, <2>3, <2>4, CipherAssumption
<1>2. EndOf("enc", total, n) \in {0} \cup {ShotBegin(k) + ShotOut("enc", total, n, k) : k \in Shots(n)}
    BY EndOfFacts
<1>3. 0 < n + BLOCK
    BY CipherAssumption
<1> QED
    BY <1>1, <1>2, <1>3

\* An update of one shot writes its bytes from the beginning, without a gap.
LEMMA SingleShot ==
    ASSUME NEW by \in {"enc", "dec"}, NEW total \in Nat, NEW n \in Nat, n <= MAX_SHOT_SIZE
    PROVE  /\ ShotLen(by, total, n) \in Nat
           /\ EndOf(by, total, n) = ShotLen(by, total, n)
           /\ n > 0 => ShotOut(by, total, n, 0) = ShotLen(by, total, n) /\ Shots(n) = {0}
           /\ ShotBegin(0) = 0
<1>0. ShotBegin(0) = 0
    BY CipherAssumption DEF ShotBegin
<1>1. ShotLen(by, total, n) \in Nat
    <2>1. /\ OutOf(by, total) \in Nat /\ OutOf(by, total + n) \in Nat
          /\ OutOf(by, total) <= OutOf(by, total + n)
        BY OutOfFacts
    <2> QED
        BY <2>1 DEF ShotLen
<1>e. /\ EndOf(by, total, n) \in {0} \cup {ShotBegin(k) + ShotOut(by, total, n, k) : k \in Shots(n)}
      /\ \A k \in Shots(n) : ShotBegin(k) + ShotOut(by, total, n, k) <= EndOf(by, total, n)
    BY EndOfFacts
<1>2. CASE n = 0
    <2>1. Shots(n) = {}
        BY <1>2, CipherAssumption DEF Shots
    <2>2. ShotLen(by, total, n) = 0
        <3>1. total + n = total
            BY <1>2
        <3> QED
            BY <3>1, OutOfFacts DEF ShotLen
    <2>3. EndOf(by, total, n) = 0
        BY <1>e, <2>1
    <2> QED
        BY <1>0, <1>2, <2>2, <2>3
<1>3. CASE n > 0
    <2>1. Shots(n) = {0}
        <3>1. 0 \in Shots(n)
            BY <1>3, CipherAssumption DEF Shots
        <3>2. \A k \in Shots(n) : k = 0
            BY ShotFacts
        <3> QED
            BY <3>1, <3>2
    <2>2. ShotEnd(0, n) = n
        BY <2>1, ShotFacts
    <2>3. ShotOut(by, total, n, 0) = ShotLen(by, total, n)
        BY <1>0, <2>2 DEF ShotOut, ShotLen
    <2>4. /\ EndOf(by, total, n) \in {0, 0 + ShotLen(by, total, n)}
          /\ 0 + ShotLen(by, total, n) <= EndOf(by, total, n)
        BY <1>0, <1>e, <2>1, <2>3
    <2> QED
        BY <1>0, <1>1, <2>1, <2>3, <2>4
<1> QED
    BY <1>2, <1>3

\* What it returns, if its vector was large enough.
LEMMA SingleResult ==
    ASSUME NEW by \in {"enc", "dec"}, NEW total \in Nat, NEW n \in Nat, n <= MAX_SHOT_SIZE,
           NEW room \in Nat, EndOf(by, total, n) <= room
    PROVE  Result(by, total, n, room) =
               [i \in 1 .. ShotLen(by, total, n) |-> OutOf(by, total) + i]
<1>1. PICK l \in Nat : l = ShotLen(by, total, n) /\ l <= room
    BY SingleShot
<1> SUFFICES ASSUME NEW i \in 1 .. l
             PROVE  (IF i <= room THEN ByteAt(by, total, n, i - 1) ELSE 0) = OutOf(by, total) + i
    BY <1>1 DEF Result
<1>2. n > 0
    <2>1. n = 0 => ShotLen(by, total, n) = 0
        <3>1. n = 0 => total + n = total
            OBVIOUS
        <3> QED
            BY <3>1, OutOfFacts DEF ShotLen
    <2> QED
        BY <1>1, <2>1
<1>3. Shots(n) = {0} /\ ShotOut(by, total, n, 0) = l /\ ShotBegin(0) = 0
    BY <1>1, <1>2, SingleShot
<1>4. {k \in Shots(n) : /\ ShotBegin(k) <= i - 1
                        /\ i - 1 < ShotBegin(k) + ShotOut(by, total, n, k)} = {0}
    BY <1>1, <1>3
<1>5. Max({0}) = 0
    BY MaxExists
<1>6. ByteAt(by, total, n, i - 1) = OutOf(by, total + 0) + ((i - 1) - 0) + 1
    BY <1>3, <1>4, <1>5, Zenon DEF ByteAt
<1>7. total + 0 = total /\ OutOf(by, total) \in Nat
    BY OutOfFacts
<1> QED
    BY <1>1, <1>6, <1>7

\* The bytes after position a, up to position b.
Bytes(a, b) == [i \in 1 .. b - a |-> a + i]

\* How much of the true ciphertext the Encryptor has returned.
Produced == IF enc.pc = "done" THEN CiphertextLen ELSE EncOut(enc.total)

CipherTypeOK ==
    /\ enc \in [pc : {"none", "open", "done"}, total : Nat]
    /\ dec \in [pc : {"none", "open", "done"}, total : Nat]

\* As long as no update took two shots or outgrew its vector, what waits for the
\* Decryptor is the ciphertext from where it is to where the Encryptor is, and
\* what it has returned is the plaintext as far as OpenSSL yields it.
InOrder ==
    ~spoiled =>
        /\ intact
        /\ dec.total <= Produced /\ pending = Bytes(dec.total, Produced)
        /\ dec.pc # "done" => plain = Bytes(0, DecOut(dec.total))
        /\ dec.pc = "done" /\ enc.pc = "done" /\ dec.total = CiphertextLen =>
               plain = Bytes(0, enc.total)

\* The inductive invariant.
CipherInv == CipherTypeOK /\ InOrder /\ UpdateFits

-----------------------------------------------------------------------------
\* Two neighbouring stretches make one.
LEMMA BytesConcat ==
    ASSUME NEW a \in Nat, NEW b \in Nat, NEW c \in Nat, a <= b, b <= c
    PROVE  Bytes(a, b) \o [i \in 1 .. c - b |-> b + i] = Bytes(a, c)
BY DEF Bytes

LEMMA BytesExtend ==
    ASSUME NEW b \in Nat, NEW c \in Nat, b <= c
    PROVE  Bytes(0, b) \o [i \in 1 .. c - b |-> b + i] = Bytes(0, c)
BY DEF Bytes

\* A stretch is a sequence; without its first n bytes it is a stretch.
LEMMA BytesDrop ==
    ASSUME NEW a \in Nat, NEW b \in Nat, a <= b, NEW n \in Nat, n <= b - a
    PROVE  /\ Len(Bytes(a, b)) = b - a
           /\ \A i \in 1 .. n : Bytes(a, b)[i] = a + i
           /\ SubSeq(Bytes(a, b), n + 1, b - a) = Bytes(a + n, b)
<1>1. Len(Bytes(a, b)) = b - a /\ \A i \in 1 .. n : Bytes(a, b)[i] = a + i
    BY DEF Bytes
<1>2. SubSeq(Bytes(a, b), n + 1, b - a) = [i \in 1 .. b - (a + n) |-> (a + n) + i]
    BY DEF Bytes
<1> QED
    BY <1>1, <1>2 DEF Bytes

\* Before anything is encrypted.
LEMMA InitCipher == CipherInit => CipherInv
<1> SUFFICES ASSUME CipherInit PROVE CipherInv
    OBVIOUS
<1>1. CipherTypeOK
    BY DEF CipherInit, CipherTypeOK
<1>2. enc.pc = "none" /\ enc.total = 0 /\ dec.pc = "none" /\ dec.total = 0
    BY DEF CipherInit
<1>3. EncOut(0) = 0 /\ DecOut(0) = 0
    BY OutFacts
<1>4. Bytes(0, 0) = << >>
    BY DEF Bytes
<1>5. InOrder
    BY <1>2, <1>3, <1>4 DEF CipherInit, InOrder, Produced
<1>6. UpdateFits
    BY CipherAssumption DEF CipherInit, UpdateFits
<1> QED
    BY <1>1, <1>5, <1>6 DEF CipherInv

\* The constructors move no byte.
LEMMA ConstructorsInv ==
    ASSUME CipherInv, NEW key, EncConstruct(key) \/ DecConstruct(key)
    PROVE  CipherInv'
<1>1. CipherTypeOK /\ InOrder /\ UpdateFits
    BY DEF CipherInv
<1>2. /\ enc'.total = enc.total /\ (enc'.pc = "done" <=> enc.pc = "done")
      /\ dec'.total = dec.total /\ (dec'.pc = "done" <=> dec.pc = "done")
    BY <1>1 DEF CipherTypeOK, EncConstruct, DecConstruct
<1>3. CipherTypeOK'
    BY <1>1 DEF CipherTypeOK, EncConstruct, DecConstruct
<1>4. UNCHANGED <<pending, intact, plain, spoiled, last>>
    BY DEF EncConstruct, DecConstruct
<1>5. InOrder'
    BY <1>1, <1>2, <1>4 DEF InOrder, Produced, CiphertextLen
<1>6. UpdateFits'
    BY <1>1, <1>4 DEF UpdateFits
<1> QED
    BY <1>3, <1>5, <1>6 DEF CipherInv

\* An update of the Encryptor adds the next full blocks of the ciphertext.
LEMMA EncUpdateInv ==
    ASSUME CipherInv, NEW n \in Nat, NEW room \in {EncRoom(n), CallerRoom(n)}, EncUpdate(n, room)
    PROVE  CipherInv'
<1>1. CipherTypeOK /\ InOrder /\ UpdateFits
    BY DEF CipherInv
<1>2. PICK t \in Nat, e \in Nat : t = enc.total /\ e = EndOf("enc", t, n) /\ e < n + BLOCK
    BY <1>1, EndOfFacts, EncEnd DEF CipherTypeOK
<1>3. /\ enc.pc = "open" /\ enc'.pc = "open" /\ enc'.total = t + n
      /\ pending' = pending \o Result("enc", t, n, room)
      /\ last' = LastUpdate("enc", t, n, room)
      /\ spoiled' = (spoiled \/ last'.multi \/ last'.beyond > 0)
      /\ UNCHANGED <<dec, intact, plain>>
    BY <1>1, <1>2 DEF EncUpdate, CipherTypeOK
<1>4. CipherTypeOK'
    <2>1. enc' = [enc EXCEPT !.total = enc.total + n] /\ dec' = dec
        BY DEF EncUpdate
    <2> QED
        BY <1>1, <2>1 DEF CipherTypeOK
<1>5. /\ last'.by = "enc" /\ last'.spare = room - n
      /\ last'.beyond = (IF e > room THEN e - room ELSE 0)
      /\ last'.multi = (n > MAX_SHOT_SIZE)
      /\ last'.shrinks = ((t + n) % BLOCK < t % BLOCK)
    BY <1>2, <1>3 DEF LastUpdate
<1>r. room \in Nat /\ (room = n \/ room = n + BLOCK)
    BY CipherAssumption DEF EncRoom, CallerRoom
<1>6. UpdateFits'
    <2>1. CASE room = n
        <3>1. last'.beyond < BLOCK
            BY <1>2, <1>5, <2>1, CipherAssumption
        <3>2. ASSUME ~last'.multi PROVE last'.beyond > 0 <=> last'.shrinks
            <4>1. ~(n > MAX_SHOT_SIZE)
                BY <1>5, <3>2, Zenon
            <4>2. n <= MAX_SHOT_SIZE
                BY <4>1, CipherAssumption
            <4>3. e = EncOut(t + n) - EncOut(t)
                BY <1>2, <4>2, SingleShot DEF ShotLen, OutOf
            <4>4. t + n \in Nat
                OBVIOUS
            <4>5. /\ EncOut(t) \in Nat /\ t % BLOCK = t - EncOut(t)
                  /\ EncOut(t + n) \in Nat /\ (t + n) % BLOCK = (t + n) - EncOut(t + n)
                BY <4>4, OutFacts
            <4>6. e > n <=> (t + n) % BLOCK < t % BLOCK
                BY <4>3, <4>5
            <4>7. last'.beyond > 0 <=> e > n
                BY <1>5, <2>1
            <4> QED
                BY <1>5, <4>6, <4>7, Zenon
        <3>3. last'.by = "enc" /\ last'.spare = 0
            BY <1>5, <2>1
        <3> QED
            BY <3>1, <3>2, <3>3, Zenon DEF UpdateFits
    <2>2. CASE room = n + BLOCK
        <3>1. last'.beyond = 0 /\ last'.spare # 0
            BY <1>2, <1>5, <2>2, CipherAssumption
        <3> QED
            BY <3>1, Zenon DEF UpdateFits
    <2> QED
        BY <1>r, <2>1, <2>2
<1>7. InOrder'
    <2> SUFFICES ASSUME ~spoiled'
                 PROVE  /\ intact'
                        /\ dec'.total <= Produced' /\ pending' = Bytes(dec'.total, Produced')
                        /\ dec'.pc # "done" => plain' = Bytes(0, DecOut(dec'.total))
        BY <1>3 DEF InOrder
    <2>1. ~spoiled /\ n <= MAX_SHOT_SIZE /\ EndOf("enc", t, n) <= room
        <3>1. ~spoiled /\ ~last'.multi /\ ~(last'.beyond > 0)
            BY <1>3, Zenon
        <3>2. ~(n > MAX_SHOT_SIZE)
            BY <1>5, <3>1, Zenon
        <3> QED
            BY <1>2, <1>5, <1>r, <3>1, <3>2, CipherAssumption
    <2>2. PICK d \in Nat, p \in Nat, q \in Nat :
              /\ d = dec.total /\ p = EncOut(t) /\ q = EncOut(t + n) /\ p <= q
        <3>1. t + n \in Nat /\ t <= t + n
            OBVIOUS
        <3> QED
            BY <1>1, <3>1, OutFacts, OutMono DEF CipherTypeOK
    <2>3. /\ intact /\ d <= p /\ pending = Bytes(d, p)
          /\ dec.pc # "done" => plain = Bytes(0, DecOut(d))
        BY <1>1, <1>2, <1>3, <2>1, <2>2 DEF InOrder, Produced
    <2>4. Result("enc", t, n, room) = [i \in 1 .. q - p |-> p + i]
        BY <1>r, <2>1, <2>2, SingleResult DEF ShotLen, OutOf
    <2>5. pending' = Bytes(d, q)
        <3>1. Bytes(d, p) \o [i \in 1 .. q - p |-> p + i] = Bytes(d, q)
            <4>1. d <= p /\ p <= q
                BY <2>2, <2>3
            <4> QED
                BY <4>1, BytesConcat
        <3> QED
            BY <1>3, <2>3, <2>4, <3>1, Zenon
    <2>6. Produced' = q
        BY <1>3, <2>2 DEF Produced
    <2>7. intact' = intact /\ dec' = dec /\ plain' = plain
        BY <1>3
    <2>8. d <= q
        BY <2>2, <2>3
    <2> QED
        BY <2>2, <2>3, <2>5, <2>6, <2>7, <2>8, Zenon
<1> QED
    BY <1>4, <1>6, <1>7 DEF CipherInv

\* finalize of the Encryptor adds the last block; a Decryptor that is done by then
\* has not seen it.
LEMMA EncFinalizeInv ==
    ASSUME CipherInv, EncFinalize
    PROVE  CipherInv'
<1>1. CipherTypeOK /\ InOrder /\ UpdateFits
    BY DEF CipherInv
<1>2. PICK t \in Nat, d \in Nat, p \in Nat : t = enc.total /\ d = dec.total /\ p = EncOut(t)
    BY <1>1, OutFacts DEF CipherTypeOK
<1>3. /\ enc.pc = "open" /\ enc'.pc = "done" /\ enc'.total = t
      /\ pending' = pending \o [i \in 1 .. BLOCK |-> p + i]
      /\ UNCHANGED <<dec, intact, plain, spoiled, last>>
    BY <1>1, <1>2 DEF EncFinalize, CipherTypeOK
<1>4. CipherTypeOK'
    BY <1>1 DEF CipherTypeOK, EncFinalize
<1>5. UpdateFits'
    BY <1>1, <1>3 DEF UpdateFits
<1>6. Produced = p /\ CiphertextLen' = p + BLOCK /\ Produced' = p + BLOCK
    BY <1>2, <1>3 DEF Produced, CiphertextLen
<1>7. ASSUME d <= p, pending = Bytes(d, p)
      PROVE  pending' = Bytes(d, p + BLOCK) /\ d <= p + BLOCK /\ d # p + BLOCK
    <2>1. p + BLOCK \in Nat /\ p <= p + BLOCK /\ (p + BLOCK) - p = BLOCK /\ d < p + BLOCK
        BY <1>7, CipherAssumption
    <2>2. Bytes(d, p) \o [i \in 1 .. (p + BLOCK) - p |-> p + i] = Bytes(d, p + BLOCK)
        BY <1>7, <2>1, BytesConcat
    <2>3. pending' = Bytes(d, p + BLOCK)
        BY <1>3, <1>7, <2>1, <2>2, Zenon
    <2> QED
        BY <2>1, <2>3, CipherAssumption
<1>8. InOrder'
    BY <1>1, <1>2, <1>3, <1>6, <1>7 DEF InOrder
<1> QED
    BY <1>4, <1>5, <1>8 DEF CipherInv

\* An update of the Decryptor takes ciphertext in order and returns the plaintext
\* that goes with it; its vector is always large enough.
LEMMA DecUpdateInv ==
    ASSUME CipherInv, NEW n \in Nat, DecUpdate(n)
    PROVE  CipherInv'
<1>1. CipherTypeOK /\ InOrder /\ UpdateFits
    BY DEF CipherInv
<1>2. PICK d \in Nat, p \in Nat : d = dec.total /\ p = Produced
    <2>1. dec.total \in Nat /\ enc.total \in Nat
        BY <1>1 DEF CipherTypeOK
    <2>2. EncOut(enc.total) \in Nat
        BY <2>1, OutFacts
    <2> QED
        BY <2>1, <2>2, CipherAssumption DEF Produced, CiphertextLen
<1>3. /\ dec.pc = "open" /\ dec'.pc = "open" /\ dec'.total = d + n /\ n <= Len(pending)
      /\ pending' = SubSeq(pending, n + 1, Len(pending))
      /\ intact' = (intact /\ \A i \in 1 .. n : pending[i] = d + i)
      /\ last' = LastUpdate("dec", d, n, n + BLOCK)
      /\ spoiled' = (spoiled \/ last'.multi \/ last'.beyond > 0)
      /\ UNCHANGED enc
    BY <1>1, <1>2 DEF DecUpdate, DecRoom, CipherTypeOK
<1>4. plain' = plain \o (IF intact' THEN Result("dec", d, n, n + BLOCK)
                                    ELSE [i \in 1 .. ShotLen("dec", d, n) |-> 0])
    BY <1>2 DEF DecUpdate, DecRoom
<1>5. CipherTypeOK'
    <2>1. dec' = [dec EXCEPT !.total = dec.total + n] /\ enc' = enc
        BY DEF DecUpdate
    <2> QED
        BY <1>1, <2>1 DEF CipherTypeOK
<1>6. /\ last'.by = "dec" /\ last'.multi = (n > MAX_SHOT_SIZE)
      /\ last'.beyond = IF EndOf("dec", d, n) > n + BLOCK THEN EndOf("dec", d, n) - (n + BLOCK) ELSE 0
    BY <1>3 DEF LastUpdate
<1>7. UpdateFits'
    <2>1. EndOf("dec", d, n) \in Nat /\ EndOf("dec", d, n) <= n + BLOCK
        BY EndOfFacts
    <2>2. last'.beyond = 0
        BY <1>6, <2>1, CipherAssumption
    <2> QED
        BY <1>6, <2>2, Zenon DEF UpdateFits
<1>8. InOrder'
    <2> SUFFICES ASSUME ~spoiled'
                 PROVE  /\ intact'
                        /\ dec'.total <= Produced' /\ pending' = Bytes(dec'.total, Produced')
                        /\ plain' = Bytes(0, DecOut(dec'.total))
        BY <1>3 DEF InOrder
    <2>1. ~spoiled /\ n <= MAX_SHOT_SIZE
        <3>1. ~spoiled /\ ~last'.multi
            BY <1>3, Zenon
        <3>2. ~(n > MAX_SHOT_SIZE)
            BY <1>6, <3>1, Zenon
        <3> QED
            BY <3>1, <3>2, CipherAssumption
    <2>2. p \in Nat /\ Produced' = p
        BY <1>2, <1>3 DEF Produced, CiphertextLen
    <2>3. /\ intact /\ d <= p /\ pending = Bytes(d, p)
          /\ plain = Bytes(0, DecOut(d))
        BY <1>1, <1>2, <1>3, <2>1 DEF InOrder
    <2>4. Len(pending) = p - d
        <3>1. 0 \in Nat /\ 0 <= p - d
            BY <2>2, <2>3
        <3>2. Len(Bytes(d, p)) = p - d
            BY <2>2, <2>3, <3>1, BytesDrop
        <3> QED
            BY <2>3, <3>2
    <2>5. n <= p - d
        BY <1>3, <2>4
    <2>6. /\ \A i \in 1 .. n : Bytes(d, p)[i] = d + i
          /\ SubSeq(Bytes(d, p), n + 1, p - d) = Bytes(d + n, p)
        BY <2>2, <2>3, <2>5, BytesDrop
    <2>7. intact' /\ pending' = Bytes(d + n, p)
        BY <1>3, <2>3, <2>4, <2>6
    <2>8. PICK o \in Nat, oo \in Nat : o = DecOut(d) /\ oo = DecOut(d + n) /\ o <= oo
        <3>1. d + n \in Nat /\ d <= d + n
            OBVIOUS
        <3> QED
            BY <3>1, OutFacts, OutMono
    <2>9. Result("dec", d, n, n + BLOCK) = [i \in 1 .. oo - o |-> o + i]
        <3>1. n + BLOCK \in Nat
            BY CipherAssumption
        <3>2. EndOf("dec", d, n) <= n + BLOCK
            BY EndOfFacts
        <3>3. Result("dec", d, n, n + BLOCK) =
                  [i \in 1 .. ShotLen("dec", d, n) |-> OutOf("dec", d) + i]
            BY <2>1, <3>1, <3>2, SingleResult
        <3>4. OutOf("dec", d) = o /\ ShotLen("dec", d, n) = oo - o
            BY <2>8 DEF ShotLen, OutOf
        <3> QED
            BY <3>3, <3>4, Zenon
    <2>10. plain' = Bytes(0, oo)
        <3>1. plain' = Bytes(0, o) \o [i \in 1 .. oo - o |-> o + i]
            BY <1>4, <2>3, <2>7, <2>8, <2>9
        <3>2. Bytes(0, o) \o [i \in 1 .. oo - o |-> o + i] = Bytes(0, oo)
            BY <2>8, BytesExtend
        <3> QED
            BY <3>1, <3>2, Zenon
    <2> QED
        BY <1>3, <2>2, <2>3, <2>5, <2>7, <2>8, <2>10
<1> QED
    BY <1>5, <1>7, <1>8 DEF CipherInv

\* finalize of the Decryptor returns the rest of the plaintext.
LEMMA DecFinalizeInv ==
    ASSUME CipherInv, DecFinalize
    PROVE  CipherInv'
<1>1. CipherTypeOK /\ InOrder /\ UpdateFits
    BY DEF CipherInv
<1>2. PICK t \in Nat, d \in Nat : t = enc.total /\ d = dec.total
    BY <1>1 DEF CipherTypeOK
<1>3. /\ dec.pc = "open" /\ dec'.pc = "done" /\ dec'.total = d
      /\ UNCHANGED <<enc, pending, intact, spoiled, last>>
    BY <1>1, <1>2 DEF DecFinalize, CipherTypeOK
<1>4. CipherTypeOK'
    BY <1>1 DEF CipherTypeOK, DecFinalize
<1>5. UpdateFits'
    BY <1>1, <1>3 DEF UpdateFits
<1>6. InOrder'
    <2>1. Produced' = Produced /\ CiphertextLen' = CiphertextLen
        BY <1>3 DEF Produced, CiphertextLen
    <2> SUFFICES ASSUME ~spoiled, enc.pc = "done", d = CiphertextLen
                 PROVE  plain' = Bytes(0, t)
        BY <1>1, <1>2, <1>3, <2>1 DEF InOrder
    <2>2. intact /\ plain = Bytes(0, DecOut(d))
        BY <1>1, <1>2, <1>3 DEF InOrder
    <2>3. PICK e \in Nat : e = EncOut(t) /\ e <= t /\ t % BLOCK = t - e /\ d = e + BLOCK
        BY <1>2, OutFacts DEF CiphertextLen
    <2>4. DecOut(d) = e
        BY <2>3, DecOutOfAll
    <2>5. plain' = Bytes(0, e) \o [i \in 1 .. t - e |-> e + i]
        BY <1>2, <2>2, <2>3, <2>4, Zenon DEF DecFinalize
    <2>6. Bytes(0, e) \o [i \in 1 .. t - e |-> e + i] = Bytes(0, t)
        BY <2>3, BytesExtend
    <2> QED
        BY <2>5, <2>6, Zenon
<1> QED
    BY <1>4, <1>5, <1>6 DEF CipherInv

\* Every operation of the two classes preserves the invariant.
LEMMA NextCipher == CipherInv /\ CipherNext => CipherInv'
<1> SUFFICES ASSUME CipherInv, CipherNext PROVE CipherInv'
    OBVIOUS
<1>1. ASSUME NEW n \in 0 .. MaxPlain, EncUpdate(n, EncRoom(n)) \/ EncUpdate(n, CallerRoom(n))
      PROVE  CipherInv'
    <2>1. n \in Nat
        OBVIOUS
    <2>2. PICK room \in {EncRoom(n), CallerRoom(n)} : EncUpdate(n, room)
        BY <1>1
    <2> QED
        BY <2>1, <2>2, EncUpdateInv
<1>2. ASSUME NEW n \in 0 .. MaxPlain + BLOCK, DecUpdate(n) PROVE CipherInv'
    <2>1. n \in Nat
        OBVIOUS
    <2> QED
        BY <1>2, <2>1, DecUpdateInv
<1> QED
    BY <1>1, <1>2, ConstructorsInv, EncFinalizeInv, DecFinalizeInv DEF CipherNext

-----------------------------------------------------------------------------
(* The theorems.                                                           *)

\* Both invariants hold in every reachable state.
THEOREM CryptoInvariance == Spec => [](HandlesInv /\ CipherInv)
<1>1. Init => HandlesInv /\ CipherInv
    BY InitHandles, InitCipher DEF Init
<1>2. HandlesInv /\ UNCHANGED handleVars => HandlesInv'
    <2> SUFFICES ASSUME HandlesInv, UNCHANGED handleVars PROVE HandlesInv'
        OBVIOUS
    <2>1. \A s, h : Holds(s, h)' <=> Holds(s, h)
        BY DEF handleVars, Holds
    <2>2. HandlesTypeOK' /\ ClassInv' /\ FrameInv'
        BY <2>1 DEF HandlesInv, handleVars, HandlesTypeOK, ClassInv, FrameInv
    <2>3. RawIsExclusive' /\ HeldIsLive' /\ LeftBehindOnlyBy'
        BY <2>1 DEF HandlesInv, handleVars, RawIsExclusive, HeldIsLive, LeftBehindOnlyBy
    <2> QED
        BY <2>2, <2>3 DEF HandlesInv
<1>3. CipherInv /\ UNCHANGED cipherVars => CipherInv'
    BY DEF cipherVars, CipherInv, CipherTypeOK, InOrder, UpdateFits, Produced, CiphertextLen
<1>4. HandlesInv /\ CipherInv /\ [CipherStep \/ HandlesStep]_vars => (HandlesInv /\ CipherInv)'
    BY <1>2, <1>3, NextHandles, NextCipher DEF CipherStep, HandlesStep, vars
<1> QED
    BY <1>1, <1>4, PTL DEF Spec

\* No class of crypto/ holds a handle that was released, so it neither uses one
\* nor releases it a second time, but for the aliases HeldIsLive leaves out.
THEOREM HandlesAreLive == Spec => []HeldIsLive
<1>1. HandlesInv => HeldIsLive
    BY DEF HandlesInv
<1> QED
    BY <1>1, CryptoInvariance, PTL

\* Nothing is left behind by any sequence of calls, copies, assignments and errors,
\* except by the four functions and the assignments that LeftBehindOnlyBy names.
THEOREM OnlyTheseAreLeftBehind == Spec => []LeftBehindOnlyBy
<1>1. HandlesInv => LeftBehindOnlyBy
    BY DEF HandlesInv
<1> QED
    BY <1>1, CryptoInvariance, PTL

\* update of the Decryptor never writes behind the end of its vector, nor that of
\* the Encryptor behind the end of a buffer with a block to spare, with any number
\* of shots; into a vector of its own an update of the Encryptor of one shot does
\* so exactly when it leaves a smaller remainder of a block than it finds.
THEOREM UpdatesFit == Spec => []UpdateFits
<1>1. CipherInv => UpdateFits
    BY DEF CipherInv
<1> QED
    BY <1>1, CryptoInvariance, PTL

\* Decryption undoes encryption for every length of the plaintext and every block
\* size, as long as no update takes more than one shot and none outgrows its
\* buffer.  The Decryptor's updates may then be cut anywhere, and the Encryptor's
\* anywhere into a buffer with a block to spare; of its updates into vectors only
\* those are covered that leave no smaller remainder than they find (UpdatesFit).
THEOREM DecryptionUndoesEncryption == Spec => []DecryptedIsPlaintext
<1>1. CipherInv => DecryptedIsPlaintext
    <2> SUFFICES ASSUME CipherInv, enc.pc = "done", dec.pc = "done", dec.total = CiphertextLen,
                        ~spoiled
                 PROVE  plain = [i \in 1 .. enc.total |-> i]
        BY DEF DecryptedIsPlaintext
    <2>1. plain = Bytes(0, enc.total) /\ enc.total \in Nat
        BY DEF CipherInv, InOrder, CipherTypeOK
    <2>2. Bytes(0, enc.total) = [i \in 1 .. enc.total |-> i]
        BY <2>1 DEF Bytes
    <2> QED
        BY <2>1, <2>2
<1> QED
    BY <1>1, CryptoInvariance, PTL
=============================================================================
