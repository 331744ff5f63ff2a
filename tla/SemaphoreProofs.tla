-------------------------- MODULE SemaphoreProofs --------------------------
(***************************************************************************)
(* Proofs about Semaphore, for any finite set of processes, any number of  *)
(* permits and any number of semaphores created under the name.  SemInv is *)
(* inductive: it adds to the two properties what an object without a       *)
(* semaphore holds, which semaphores exist, and that until a name in use   *)
(* is unlinked everybody uses the one the name denotes.                    *)
(***************************************************************************)
EXTENDS Semaphore, FiniteSetTheorems, TLAPS

H(g) == {p \in Procs : Holds(p, g)}
R(g) == {p \in Procs : HoldsRaw(p, g)}

\* What the locals of a process say about each other.
Sane(r) ==
    /\ r.gen <= created
    /\ r.pc \in {"absent", "exists"} => r.gen = 0
    /\ r.gen = 0 => r.counter = 0 /\ ~r.raw
    /\ r.pc = "locking" => r.counter = 0 /\ r.gen # 0

\* Nothing is lost of a semaphore that was not created yet.
Fresh == \A g \in Gens : g > created => lost[g] = 0

\* Until a name in use is unlinked, all use the semaphore it denotes.
OneSemaphore == ~cut => \A p \in Procs : proc[p].gen \in {0, current}

SemInv ==
    /\ TypeOK /\ Fresh /\ OneSemaphore /\ Conservation
    /\ \A p \in Procs : Sane(proc[p])

-----------------------------------------------------------------------------
\* Sets of processes are finite.
LEMMA Count ==
    ASSUME NEW S \in SUBSET Procs
    PROVE  IsFiniteSet(S) /\ Cardinality(S) \in Nat
    BY SemAssumption, FS_Subset, FS_CardinalityType

\* One process more ...
LEMMA OneMore ==
    ASSUME NEW S \in SUBSET Procs, NEW p \in Procs, p \notin S
    PROVE  Cardinality(S \cup {p}) = Cardinality(S) + 1
    BY Count, FS_AddElement

\* ... or less.
LEMMA OneLess ==
    ASSUME NEW S \in SUBSET Procs, NEW p \in S
    PROVE  Cardinality(S \ {p}) = Cardinality(S) - 1
    BY Count, FS_RemoveElement

\* The sum of Conservation, semaphore by semaphore.
Total(g) == value[g] + Cardinality(H(g)) + Cardinality(R(g)) + lost[g]

LEMMA ConservationIsTotal == Conservation <=> \A g \in 1 .. created : Total(g) = MaxConcurrency
    BY DEF Conservation, Total, H, R

\* A step after which the same processes hold the same permits.
LEMMA SameTotal ==
    ASSUME NEW g \in Gens, H(g)' = H(g), R(g)' = R(g), value'[g] = value[g], lost'[g] = lost[g]
    PROVE  Total(g)' = Total(g)
    BY DEF Total

\* The sets of holders, when one process changes its fields.
LEMMA HoldersAfter ==
    ASSUME TypeOK, NEW p \in Procs, NEW new, proc' = [proc EXCEPT ![p] = new], NEW g \in Gens
    PROVE  /\ H(g)' = IF new.gen = g /\ new.counter > 0 THEN H(g) \cup {p} ELSE H(g) \ {p}
           /\ R(g)' = IF new.gen = g /\ new.raw THEN R(g) \cup {p} ELSE R(g) \ {p}
    BY DEF TypeOK, ProcFields, H, R, Holds, HoldsRaw

\* p changes and keeps what it holds.
LEMMA Keeps ==
    ASSUME TypeOK, NEW p \in Procs, NEW new, proc' = [proc EXCEPT ![p] = new], NEW g \in Gens,
           value'[g] = value[g], lost'[g] = lost[g],
           new.gen = g /\ new.counter > 0 <=> Holds(p, g),
           new.gen = g /\ new.raw <=> HoldsRaw(p, g)
    PROVE  Total(g)' = Total(g)
<1>1. /\ H(g)' = IF new.gen = g /\ new.counter > 0 THEN H(g) \cup {p} ELSE H(g) \ {p}
      /\ R(g)' = IF new.gen = g /\ new.raw THEN R(g) \cup {p} ELSE R(g) \ {p}
    BY HoldersAfter
<1>2. (p \in H(g) <=> Holds(p, g)) /\ (p \in R(g) <=> HoldsRaw(p, g))
    BY DEF H, R
<1>3. H(g)' = H(g)
    BY <1>1, <1>2
<1>4. R(g)' = R(g)
    BY <1>1, <1>2
<1> QED
    BY <1>3, <1>4, SameTotal

\* A permit goes from the semaphore to p, or back.
LEMMA MovesLock ==
    ASSUME TypeOK, NEW p \in Procs, NEW new, proc' = [proc EXCEPT ![p] = new], NEW g \in Gens,
           lost' = lost, new.gen = g, proc[p].gen = g, new.raw = proc[p].raw,
           \/ value'[g] = value[g] - 1 /\ ~(proc[p].counter > 0) /\ new.counter > 0
           \/ value'[g] = value[g] + 1 /\ proc[p].counter > 0 /\ ~(new.counter > 0)
    PROVE  Total(g)' = Total(g)
<1>1. R(g)' = R(g)
    BY HoldersAfter DEF R, HoldsRaw
<1>2. Cardinality(H(g)) \in Nat /\ Cardinality(R(g)) \in Nat /\ value[g] \in Nat /\ lost[g] \in Nat
    BY Count DEF H, R, TypeOK
<1>3. CASE value'[g] = value[g] - 1 /\ ~(proc[p].counter > 0) /\ new.counter > 0
    <2>1. H(g)' = H(g) \cup {p} /\ p \notin H(g)
        BY <1>3, HoldersAfter DEF H, Holds
    <2>2. Cardinality(H(g)') = Cardinality(H(g)) + 1
        BY <2>1, OneMore DEF H
    <2> QED
        BY <1>1, <1>2, <1>3, <2>2 DEF Total
<1>4. CASE value'[g] = value[g] + 1 /\ proc[p].counter > 0 /\ ~(new.counter > 0)
    <2>0. H(g)' = H(g) \ {p}
        BY <1>4, HoldersAfter
    <2>1. H(g)' = H(g) \ {p} /\ p \in H(g)
        BY <1>4, <2>0 DEF H, Holds
    <2>2. Cardinality(H(g)') = Cardinality(H(g)) - 1
        BY <2>1, OneLess DEF H
    <2> QED
        BY <1>1, <1>2, <1>4, <2>2 DEF Total
<1> QED
    BY <1>3, <1>4

\* The same without the MultiLock.
LEMMA MovesRaw ==
    ASSUME TypeOK, NEW p \in Procs, NEW new, proc' = [proc EXCEPT ![p] = new], NEW g \in Gens,
           lost' = lost, new.gen = g, proc[p].gen = g, new.counter = proc[p].counter,
           \/ value'[g] = value[g] - 1 /\ ~proc[p].raw /\ new.raw
           \/ value'[g] = value[g] + 1 /\ proc[p].raw /\ ~new.raw
    PROVE  Total(g)' = Total(g)
<1>1. H(g)' = H(g)
    BY HoldersAfter DEF H, Holds
<1>2. Cardinality(H(g)) \in Nat /\ Cardinality(R(g)) \in Nat /\ value[g] \in Nat /\ lost[g] \in Nat
    BY Count DEF H, R, TypeOK
<1>3. CASE value'[g] = value[g] - 1 /\ ~proc[p].raw /\ new.raw
    <2>1. R(g)' = R(g) \cup {p} /\ p \notin R(g)
        BY <1>3, HoldersAfter DEF R, HoldsRaw
    <2>2. Cardinality(R(g)') = Cardinality(R(g)) + 1
        BY <2>1, OneMore DEF R
    <2> QED
        BY <1>1, <1>2, <1>3, <2>2 DEF Total
<1>4. CASE value'[g] = value[g] + 1 /\ proc[p].raw /\ ~new.raw
    <2>0. R(g)' = R(g) \ {p}
        BY <1>4, HoldersAfter
    <2>1. R(g)' = R(g) \ {p} /\ p \in R(g)
        BY <1>4, <2>0 DEF R, HoldsRaw
    <2>2. Cardinality(R(g)') = Cardinality(R(g)) - 1
        BY <2>1, OneLess DEF R
    <2> QED
        BY <1>1, <1>2, <1>4, <2>2 DEF Total
<1> QED
    BY <1>3, <1>4

\* p goes: its permits are lost, and no others.
LEMMA GoesWithPermits ==
    ASSUME TypeOK, NEW p \in Procs, Gone(p), value' = value, NEW g \in Gens
    PROVE  Total(g)' = Total(g)
<1> DEFINE a == IF Holds(p, g) THEN 1 ELSE 0
           b == IF HoldsRaw(p, g) THEN 1 ELSE 0
<1>1. H(g)' = H(g) \ {p} /\ R(g)' = R(g) \ {p}
    <2>1. proc' = [proc EXCEPT ![p] = NoObject] /\ ~(NoObject.counter > 0) /\ ~NoObject.raw
        BY DEF Gone, NoObject
    <2> QED
        BY <2>1, HoldersAfter
<1>2. Cardinality(H(g)) \in Nat /\ Cardinality(R(g)) \in Nat /\ value[g] \in Nat /\ lost[g] \in Nat
    BY Count DEF H, R, TypeOK
<1>3. Cardinality(H(g)') = Cardinality(H(g)) - a
    <2>1. CASE Holds(p, g)
        BY <1>1, <2>1, OneLess DEF H
    <2>2. CASE ~Holds(p, g)
        <3>1. H(g)' = H(g)
            BY <1>1, <2>2 DEF H
        <3> QED
            BY <1>2, <2>2, <3>1
    <2> QED
        BY <2>1, <2>2
<1>4. Cardinality(R(g)') = Cardinality(R(g)) - b
    <2>1. CASE HoldsRaw(p, g)
        BY <1>1, <2>1, OneLess DEF R
    <2>2. CASE ~HoldsRaw(p, g)
        <3>1. R(g)' = R(g)
            BY <1>1, <2>2 DEF R
        <3> QED
            BY <1>2, <2>2, <3>1
    <2> QED
        BY <2>1, <2>2
<1>5. lost'[g] = lost[g] + a + b
    BY <1>2 DEF Gone, Permits, Holds, HoldsRaw, TypeOK
<1> QED
    BY <1>2, <1>3, <1>4, <1>5 DEF Total

\* No semaphore is created and every total stays.
LEMMA TotalsStay ==
    ASSUME TypeOK, Conservation, created' = created, \A g \in Gens : Total(g)' = Total(g)
    PROVE  Conservation'
<1>1. \A g \in 1 .. created : g \in Gens
    BY SemAssumption DEF TypeOK, Gens
<1>2. \A g \in 1 .. created : Total(g) = MaxConcurrency
    BY ConservationIsTotal
<1>3. \A g \in 1 .. created' : Total(g)' = MaxConcurrency
    BY <1>1, <1>2
<1> QED
    BY <1>3, ConservationIsTotal DEF Conservation, Total, H, R

-----------------------------------------------------------------------------
\* There is no semaphore yet.
LEMMA InitSemInv == Init => SemInv
<1> SUFFICES ASSUME Init PROVE SemInv
    OBVIOUS
<1>1. TypeOK
    <2>0. created = 0 /\ current = 0
        BY DEF Init
    <2>1. created \in 0 .. MaxGen /\ current \in 0 .. created
        BY <2>0, SemAssumption
    <2>2. value \in [Gens -> Nat] /\ lost \in [Gens -> Nat]
        BY DEF Init
    <2>3. NoObject \in ProcFields
        BY SemAssumption DEF NoObject, ProcFields
    <2> QED
        BY <2>1, <2>2, <2>3 DEF Init, TypeOK
<1>2. Fresh /\ OneSemaphore /\ \A p \in Procs : Sane(proc[p])
    BY DEF Init, Fresh, OneSemaphore, Sane, NoObject
<1>3. Conservation
    BY DEF Init, Conservation
<1> QED
    BY <1>1, <1>2, <1>3 DEF SemInv

\* A semaphore is created, with all its permits.
LEMMA CreateInv == ASSUME SemInv, NEW p \in Procs, SemCreate(p) PROVE SemInv'
<1>n. PICK n \in Nat : n = created + 1
    BY DEF SemInv, TypeOK
<1>0. /\ proc' = [proc EXCEPT ![p] = Opened(n)] /\ value' = [value EXCEPT ![n] = MaxConcurrency]
      /\ created' = n /\ current' = n /\ lost' = lost /\ cut' = cut
      /\ proc[p].pc = "absent" /\ current = 0 /\ created < MaxGen
    BY <1>n DEF SemCreate
<1>1. n \in Gens /\ created \in Nat
    BY <1>n, <1>0, SemAssumption DEF SemInv, TypeOK, Gens
<1>o. /\ Opened(n).gen = n /\ ~(Opened(n).counter > 0) /\ ~Opened(n).raw
    BY DEF Opened
<1>2. TypeOK'
    BY <1>n, <1>0, <1>1, SemAssumption DEF SemInv, TypeOK, Gens, Opened, ProcFields
<1>3. Fresh' /\ (\A q \in Procs : Sane(proc[q]))'
    <2>1. Fresh'
        BY <1>n, <1>0, <1>1, SemAssumption DEF SemInv, TypeOK, Fresh, Gens
    <2>2. ASSUME NEW q \in Procs PROVE Sane(proc[q])'
        <3>1. proc[q] \in ProcFields /\ Sane(proc[q])
            BY DEF SemInv, TypeOK
        <3>2. CASE q = p
            BY <1>n, <1>0, <1>1, <3>2 DEF SemInv, TypeOK, Sane, Opened, Gens
        <3>3. CASE q # p
            BY <1>n, <1>0, <1>1, <3>1, <3>3 DEF SemInv, TypeOK, Sane, ProcFields
        <3> QED
            BY <3>2, <3>3
    <2> QED
        BY <2>1, <2>2
<1>4. OneSemaphore'
    BY <1>0 DEF SemInv, TypeOK, OneSemaphore, Opened
<1>5. ASSUME NEW g \in 1 .. created PROVE Total(g)' = MaxConcurrency
    <2>1. g \in Gens /\ g # n
        BY <1>n, <1>0, <1>1, SemAssumption DEF Gens, SemInv, TypeOK
    <2>2. value'[g] = value[g] /\ lost'[g] = lost[g]
        BY <1>0, <2>1 DEF SemInv, TypeOK
    <2>3. ~Holds(p, g) /\ ~HoldsRaw(p, g)
        BY <1>0, <2>1 DEF SemInv, Sane, Holds, HoldsRaw, Gens
    <2>4. Total(g)' = Total(g)
        BY <1>0, <1>o, <2>1, <2>2, <2>3, Keeps DEF SemInv
    <2> QED
        BY <2>4, ConservationIsTotal DEF SemInv
<1>6. Total(n)' = MaxConcurrency
    <2>1. H(n)' = {} /\ R(n)' = {}
        BY <1>n, <1>0, <1>1 DEF H, R, Holds, HoldsRaw, SemInv, Sane, TypeOK, Opened
    <2>2. value'[n] = MaxConcurrency /\ lost'[n] = 0
        BY <1>n, <1>0, <1>1 DEF SemInv, TypeOK, Fresh
    <2> QED
        BY <2>1, <2>2, FS_EmptySet, SemAssumption DEF Total
<1>7. Conservation'
    <2>1. \A g \in 1 .. created' : Total(g)' = MaxConcurrency
        BY <1>n, <1>0, <1>1, <1>5, <1>6
    <2> QED
        BY <2>1 DEF Conservation, Total, H, R
<1> QED
    BY <1>2, <1>3, <1>4, <1>7 DEF SemInv

\* A process changes its own fields and holds what it held.
LEMMA KeepsInv ==
    ASSUME SemInv, UNCHANGED kernel, NEW p \in Procs, NEW new, proc' = [proc EXCEPT ![p] = new],
           new \in ProcFields, Sane(new), new.gen \in {0, current, proc[p].gen},
           \A g \in Gens : /\ new.gen = g /\ new.counter > 0 <=> Holds(p, g)
                           /\ new.gen = g /\ new.raw <=> HoldsRaw(p, g)
    PROVE  SemInv'
<1>1. TypeOK' /\ Fresh' /\ OneSemaphore'
    BY DEF kernel, SemInv, TypeOK, Fresh, OneSemaphore
<1>2. ASSUME NEW q \in Procs PROVE Sane(proc[q])'
    BY DEF kernel, SemInv, TypeOK, Sane
<1>3. \A g \in Gens : Total(g)' = Total(g)
    BY Keeps DEF SemInv, kernel
<1>4. Conservation'
    BY <1>3, TotalsStay DEF SemInv, kernel
<1> QED
    BY <1>1, <1>2, <1>4 DEF SemInv

\* sem_open finds a semaphore, opens it or fails.
LEMMA OpenInv ==
    ASSUME SemInv, NEW p \in Procs, SemExists(p) \/ SemOpen(p) \/ SemOpenFails(p)
    PROVE  SemInv'
<1> DEFINE r == [proc[p] EXCEPT !.pc = "exists"]
<1>1. PICK new \in {r, NoObject, Opened(current), Opened(0)} :
         /\ proc' = [proc EXCEPT ![p] = new] /\ UNCHANGED kernel
         /\ proc[p].pc \in {"absent", "exists"}
    BY DEF SemExists, SemOpen, SemOpenFails
<1>2. proc[p] \in ProcFields /\ Sane(proc[p]) /\ proc[p].gen = 0 /\ current \in 0 .. created
    BY <1>1 DEF SemInv, TypeOK, Sane
<1>3. r \in ProcFields /\ r.gen = 0 /\ r.counter = 0 /\ ~r.raw /\ r.pc = "exists"
    BY <1>2 DEF ProcFields, Sane
<1>4. created \in 0 .. MaxGen /\ 0 \in 0 .. MaxDepth /\ 0 \in 0 .. MaxGen /\ MaxGen \in Nat
    BY SemAssumption DEF SemInv, TypeOK
<1>5. new \in ProcFields /\ Sane(new) /\ new.gen \in {0, current} /\ new.counter = 0 /\ ~new.raw
    <2>1. CASE new = r
        BY <1>3, <1>4, <2>1 DEF Sane
    <2>2. CASE new = NoObject
        BY <1>4, <2>2 DEF NoObject, ProcFields, Sane
    <2>3. CASE new = Opened(current)
        BY <1>2, <1>4, <2>3 DEF Opened, ProcFields, Sane
    <2>4. CASE new = Opened(0)
        BY <1>4, <2>4 DEF Opened, ProcFields, Sane
    <2> HIDE DEF r
    <2> QED
        BY <1>1, <2>1, <2>2, <2>3, <2>4
<1>6. \A g \in Gens : ~Holds(p, g) /\ ~HoldsRaw(p, g)
    BY <1>2 DEF Gens, Holds, HoldsRaw
<1> HIDE DEF r
<1> QED
    <2>1. ~(new.counter > 0)
        BY <1>5
    <2>2. \A g \in Gens : /\ new.gen = g /\ new.counter > 0 <=> Holds(p, g)
                          /\ new.gen = g /\ new.raw <=> HoldsRaw(p, g)
        BY <1>5, <1>6, <2>1
    <2> QED
        BY <1>1, <1>5, <2>2, KeepsInv

\* The flag, and lock() that only counts or goes to wait.
LEMMA OwnFieldsInv ==
    ASSUME SemInv, NEW p \in Procs,
           Lock(p) \/ \E uod \in BOOLEAN : SetUnlinkOnDestruction(p, uod)
    PROVE  SemInv'
<1>1. proc[p] \in ProcFields /\ Sane(proc[p])
    BY DEF SemInv, TypeOK
<1>2. ASSUME NEW new \in ProcFields, proc' = [proc EXCEPT ![p] = new], UNCHANGED kernel,
             Sane(new), new.gen = proc[p].gen, new.raw = proc[p].raw,
             new.counter > 0 <=> proc[p].counter > 0
      PROVE  SemInv'
    <2>1. \A g \in Gens : /\ new.gen = g /\ new.counter > 0 <=> Holds(p, g)
                          /\ new.gen = g /\ new.raw <=> HoldsRaw(p, g)
        BY <1>2 DEF Holds, HoldsRaw
    <2> QED
        BY <1>2, <2>1, KeepsInv
<1>3. ASSUME NEW uod \in BOOLEAN, SetUnlinkOnDestruction(p, uod) PROVE SemInv'
    <2> DEFINE r == [proc[p] EXCEPT !.uod = uod]
    <2>1. /\ r \in ProcFields /\ r.gen = proc[p].gen /\ r.raw = proc[p].raw
          /\ r.counter = proc[p].counter /\ r.pc = proc[p].pc
        BY <1>1 DEF ProcFields
    <2>2. proc' = [proc EXCEPT ![p] = r] /\ UNCHANGED kernel
        BY <1>3 DEF SetUnlinkOnDestruction
    <2> HIDE DEF r
    <2>3. Sane(r)
        BY <1>1, <2>1 DEF Sane
    <2> QED
        BY <1>2, <2>1, <2>2, <2>3
<1>4. CASE Lock(p) /\ proc[p].counter = 0
    <2> DEFINE r == [proc[p] EXCEPT !.pc = "locking"]
    <2>1. /\ r \in ProcFields /\ r.gen = proc[p].gen /\ r.raw = proc[p].raw
          /\ r.counter = proc[p].counter /\ r.pc = "locking"
        BY <1>1 DEF ProcFields
    <2>2. proc' = [proc EXCEPT ![p] = r] /\ UNCHANGED kernel /\ proc[p].gen # 0
        BY <1>4 DEF Lock
    <2> HIDE DEF r
    <2>3. Sane(r)
        BY <1>1, <1>4, <2>1, <2>2 DEF Sane
    <2> QED
        BY <1>2, <2>1, <2>2, <2>3
<1>5. CASE Lock(p) /\ proc[p].counter # 0
    <2> DEFINE r == [proc[p] EXCEPT !.counter = proc[p].counter + 1]
    <2>0. /\ proc[p].counter \in Nat /\ proc[p].counter < MaxDepth /\ proc[p].pc = "ready"
          /\ proc[p].gen # 0
        BY <1>1, <1>5 DEF ProcFields, Lock
    <2>1. /\ r \in ProcFields /\ r.gen = proc[p].gen /\ r.raw = proc[p].raw
          /\ r.counter = proc[p].counter + 1 /\ r.pc = proc[p].pc
        BY <1>1, <2>0, SemAssumption DEF ProcFields
    <2>2. proc' = [proc EXCEPT ![p] = r] /\ UNCHANGED kernel
        BY <1>5 DEF Lock
    <2> HIDE DEF r
    <2>3. Sane(r) /\ (r.counter > 0 <=> proc[p].counter > 0)
        BY <1>1, <1>5, <2>0, <2>1 DEF Sane
    <2> QED
        BY <1>2, <2>1, <2>2, <2>3
<1> QED
    BY <1>3, <1>4, <1>5

\* An object goes, by its destructor or with its process.
LEMMA GoneInv ==
    ASSUME SemInv, NEW p \in Procs, SemDestroy(p) \/ Crash(p)
    PROVE  SemInv'
<1>1. Gone(p) /\ value' = value /\ created' = created
    BY DEF SemDestroy, Crash
<1>2. Permits(p) \in Nat
    BY DEF Permits
<1>3. TypeOK'
    <2>1. current' \in {0, current} /\ cut' \in BOOLEAN
        BY DEF SemDestroy, Crash, SemInv, TypeOK
    <2>2. proc' \in [Procs -> ProcFields]
        BY <1>1, SemAssumption DEF Gone, NoObject, SemInv, TypeOK, ProcFields
    <2>3. lost' \in [Gens -> Nat]
        BY <1>1, <1>2 DEF Gone, SemInv, TypeOK
    <2> QED
        BY <1>1, <2>1, <2>2, <2>3 DEF SemInv, TypeOK
<1>4. Fresh'
    BY <1>1 DEF Gone, SemInv, TypeOK, Fresh, Sane, Gens, ProcFields
<1>5. ASSUME NEW q \in Procs PROVE Sane(proc[q])'
    BY <1>1, SemAssumption DEF Gone, NoObject, SemInv, TypeOK, Sane
<1>6. OneSemaphore'
    <2>1. \A q \in Procs : proc'[q].gen = (IF q = p THEN 0 ELSE proc[q].gen)
        BY <1>1 DEF Gone, NoObject, SemInv, TypeOK
    <2>2. CASE current' = current /\ cut' = cut
        BY <2>1, <2>2 DEF SemInv, OneSemaphore
    <2>3. CASE /\ current' = 0
               /\ cut' = (cut \/ \E q \in Procs \ {p} : current # 0 /\ proc[q].gen = current)
        BY <2>1, <2>3 DEF SemInv, OneSemaphore
    <2> QED
        BY <2>2, <2>3 DEF SemDestroy, Crash
<1>7. Conservation'
    BY <1>1, GoesWithPermits, TotalsStay DEF SemInv
<1> QED
    BY <1>3, <1>4, <1>5, <1>6, <1>7 DEF SemInv

\* A permit changes hands.
LEMMA PermitInv ==
    ASSUME SemInv, NEW p \in Procs,
           AcquireWithTimeout(p) \/ Release(p) \/ Acquire(p) \/ TryLock(p) \/ Unlock(p)
    PROVE  SemInv'
<1>1. proc[p] \in ProcFields /\ Sane(proc[p])
    BY DEF SemInv, TypeOK
<1>2. UNCHANGED <<current, created, lost, cut>>
    BY DEF AcquireWithTimeout, Release, Acquire, TryLock, Unlock
<1>3. PICK g \in Gens, c \in 0 .. MaxDepth : proc[p].gen = g /\ proc[p].counter = c
    BY <1>1, SemAssumption
       DEF AcquireWithTimeout, Release, Acquire, TryLock, Unlock, Take, Gens, ProcFields, Sane
<1>4. value' \in [Gens -> Nat] /\ \A h \in Gens : h # g => value'[h] = value[h]
    BY <1>3 DEF AcquireWithTimeout, Release, Acquire, TryLock, Unlock, Take, Post, SemInv, TypeOK
<1>5. ASSUME NEW new \in ProcFields, proc' = [proc EXCEPT ![p] = new], Sane(new),
             new.gen = g, Total(g)' = Total(g)
      PROVE  SemInv'
    <2>1. TypeOK' /\ Fresh' /\ OneSemaphore'
        BY <1>2, <1>3, <1>4, <1>5 DEF SemInv, TypeOK, Fresh, OneSemaphore
    <2>2. ASSUME NEW q \in Procs PROVE Sane(proc[q])'
        BY <1>2, <1>5 DEF SemInv, TypeOK, Sane
    <2>3. ASSUME NEW h \in Gens PROVE Total(h)' = Total(h)
        <3>1. CASE h = g
            BY <1>5, <3>1
        <3>2. CASE h # g
            <4>1. value'[h] = value[h] /\ lost'[h] = lost[h]
                BY <1>2, <1>4, <3>2
            <4>2. ~Holds(p, h) /\ ~HoldsRaw(p, h) /\ new.gen # h
                BY <1>3, <1>5, <3>2 DEF Holds, HoldsRaw
            <4> QED
                BY <1>5, <4>1, <4>2, Keeps DEF SemInv
        <3> QED
            BY <3>1, <3>2
    <2>4. Conservation'
        BY <1>2, <2>3, TotalsStay DEF SemInv
    <2> QED
        BY <2>1, <2>2, <2>4 DEF SemInv
<1>6. CASE AcquireWithTimeout(p) \/ Release(p)
    <2>1. PICK raw \in BOOLEAN :
             /\ proc' = [proc EXCEPT ![p] = [proc[p] EXCEPT !.raw = raw]] /\ proc[p].raw = ~raw
             /\ proc[p].pc = "ready"
             /\ value' = [value EXCEPT ![g] = IF raw THEN @ - 1 ELSE @ + 1]
        BY <1>1, <1>3, <1>6 DEF AcquireWithTimeout, Release, Take, Post, ProcFields
    <2> DEFINE r == [proc[p] EXCEPT !.raw = raw]
    <2>2. /\ r \in ProcFields /\ r.gen = g /\ r.counter = c /\ r.raw = raw
          /\ r.pc = "ready"
        BY <1>1, <1>3, <2>1 DEF ProcFields
    <2> HIDE DEF r
    <2>3. proc' = [proc EXCEPT ![p] = r]
        BY <2>1 DEF r
    <2>4. Sane(r)
        BY <1>1, <1>3, <2>2 DEF Sane, Gens
    <2>5. value'[g] = IF raw THEN value[g] - 1 ELSE value[g] + 1
        BY <2>1 DEF SemInv, TypeOK
    <2>6. Total(g)' = Total(g)
        <3>1. /\ \/ value'[g] = value[g] - 1 /\ ~proc[p].raw /\ r.raw
                 \/ value'[g] = value[g] + 1 /\ proc[p].raw /\ ~r.raw
              /\ lost' = lost /\ r.counter = proc[p].counter
            BY <1>2, <1>3, <2>1, <2>2, <2>5
        <3> QED
            BY <1>3, <2>2, <2>3, <3>1, MovesRaw DEF SemInv
    <2> QED
        BY <1>5, <2>2, <2>3, <2>4, <2>6
<1>7. ASSUME NEW d \in 0 .. MaxDepth, proc[p].pc \in {"ready", "locking"},
             proc' = [proc EXCEPT ![p] = WithCounter(proc[p], d)],
             \/ c = 0 /\ d > 0 /\ value'[g] = value[g] - 1
             \/ c > 0 /\ d = 0 /\ value'[g] = value[g] + 1
             \/ c > 0 /\ d > 0 /\ value' = value
      PROVE  SemInv'
    <2> DEFINE r == WithCounter(proc[p], d)
    <2>2. /\ r \in ProcFields /\ r.gen = g /\ r.counter = d /\ r.raw = proc[p].raw
          /\ r.pc = "ready"
        BY <1>1, <1>3, <1>7 DEF ProcFields, WithCounter
    <2>3. proc' = [proc EXCEPT ![p] = r]
        BY <1>7
    <2> HIDE DEF r
    <2>4. Sane(r)
        BY <1>1, <1>3, <2>2 DEF Sane, Gens
    <2>5. Total(g)' = Total(g)
        <3>1. CASE c > 0 /\ d > 0 /\ value' = value
            <4>1. value'[g] = value[g] /\ lost'[g] = lost[g]
                BY <1>2, <3>1
            <4>2. /\ r.gen = g /\ r.counter > 0 <=> Holds(p, g)
                  /\ r.gen = g /\ r.raw <=> HoldsRaw(p, g)
                BY <1>3, <2>2, <3>1 DEF Holds, HoldsRaw
            <4> QED
                BY <2>3, <4>1, <4>2, Keeps DEF SemInv
        <3>2. CASE c = 0 /\ d > 0 /\ value'[g] = value[g] - 1
            <4>1. /\ value'[g] = value[g] - 1 /\ ~(proc[p].counter > 0) /\ r.counter > 0
                  /\ lost' = lost
                BY <1>2, <1>3, <2>2, <3>2
            <4> QED
                BY <1>3, <2>2, <2>3, <4>1, MovesLock DEF SemInv
        <3>3. CASE c > 0 /\ d = 0 /\ value'[g] = value[g] + 1
            <4>1. /\ value'[g] = value[g] + 1 /\ proc[p].counter > 0 /\ ~(r.counter > 0)
                  /\ lost' = lost
                BY <1>2, <1>3, <2>2, <3>3
            <4> QED
                BY <1>3, <2>2, <2>3, <4>1, MovesLock DEF SemInv
        <3> QED
            BY <1>7, <3>1, <3>2, <3>3
    <2> QED
        BY <1>5, <2>2, <2>3, <2>4, <2>5
<1>8. CASE Acquire(p) \/ TryLock(p)
    <2>1. /\ proc[p].pc \in {"ready", "locking"} /\ c < MaxDepth
          /\ proc' = [proc EXCEPT ![p] = WithCounter(proc[p], c + 1)]
          /\ IF c = 0 THEN value'[g] = value[g] - 1 ELSE value' = value
        BY <1>1, <1>3, <1>8, SemAssumption DEF Acquire, TryLock, Take, SemInv, TypeOK, Sane
    <2>2. c + 1 \in 0 .. MaxDepth /\ c + 1 > 0
        BY <1>3, <2>1, SemAssumption
    <2>3. CASE c = 0
        <3>1. value'[g] = value[g] - 1
            BY <2>1, <2>3
        <3> QED
            BY <1>7, <2>1, <2>2, <2>3, <3>1
    <2>4. CASE c # 0
        <3>1. c > 0 /\ value' = value
            BY <1>3, <2>1, <2>4, SemAssumption
        <3> QED
            BY <1>7, <2>1, <2>2, <3>1
    <2> QED
        BY <2>3, <2>4
<1>9. CASE Unlock(p)
    <2>1. /\ proc[p].pc = "ready" /\ c > 0
          /\ proc' = [proc EXCEPT ![p] = WithCounter(proc[p], c - 1)]
          /\ IF c = 1 THEN value'[g] = value[g] + 1 ELSE value' = value
        BY <1>1, <1>3, <1>9 DEF Unlock, Post, SemInv, TypeOK
    <2>2. c - 1 \in 0 .. MaxDepth /\ (c = 1 => c - 1 = 0) /\ (c # 1 => c - 1 > 0)
        BY <1>3, <2>1, SemAssumption
    <2> QED
        BY <1>3, <1>7, <2>1, <2>2
<1> QED
    BY <1>6, <1>8, <1>9

\* Every step.
LEMMA NextSemInv == SemInv /\ [Next]_vars => SemInv'
<1> SUFFICES ASSUME SemInv, [Next]_vars PROVE SemInv'
    OBVIOUS
<1>1. CASE Next
    BY <1>1, CreateInv, OpenInv, OwnFieldsInv, GoneInv, PermitInv DEF Next, Step
<1>2. CASE UNCHANGED vars
    BY <1>2 DEF vars, SemInv, TypeOK, Fresh, OneSemaphore, Conservation, Sane, Holds, HoldsRaw
<1> QED
    BY <1>1, <1>2

(* SemInv is an invariant of InterprocessSemaphore and MultiLock.          *)
THEOREM SemInvariance == Spec => []SemInv
    BY InitSemInv, NextSemInv, PTL DEF Spec

(* The permits of every semaphore are in its value, held by a process or   *)
(* lost with one, however locks are nested and processes come and go.      *)
THEOREM PermitsAreConserved == Spec => []Conservation
<1>1. SemInv => Conservation
    BY DEF SemInv
<1> QED
    BY <1>1, SemInvariance, PTL

(* At most MaxConcurrency permits are held at a time, over all semaphores  *)
(* of the name, until a name in use is unlinked.                           *)
THEOREM AtMostMaxConcurrency == Spec => []ConcurrencyBound
<1>1. ASSUME SemInv PROVE ConcurrencyBound
    <2> SUFFICES ASSUME ~cut
                 PROVE  Cardinality({p \in Procs : proc[p].counter > 0})
                          + Cardinality({p \in Procs : proc[p].raw}) <= MaxConcurrency
        BY DEF ConcurrencyBound
    <2> DEFINE K == {p \in Procs : proc[p].counter > 0}
               W == {p \in Procs : proc[p].raw}
    <2>1. \A p \in K \cup W : proc[p].gen = current /\ current # 0
        BY <1>1 DEF SemInv, OneSemaphore, Sane, TypeOK, ProcFields
    <2>2. CASE current = 0
        <3>1. K = {} /\ W = {}
            BY <2>1, <2>2
        <3>2. Cardinality(K) = 0 /\ Cardinality(W) = 0
            BY <3>1, FS_EmptySet
        <3> HIDE DEF K, W
        <3>3. Cardinality(K) + Cardinality(W) <= MaxConcurrency
            BY <3>2, SemAssumption
        <3> QED
            BY <3>3 DEF K, W
    <2>3. CASE current # 0
        <3>1. current \in 1 .. created /\ current \in Gens
            BY <1>1, <2>3, SemAssumption DEF SemInv, TypeOK, Gens
        <3>2. K = H(current) /\ W = R(current)
            BY <2>1 DEF H, R, Holds, HoldsRaw
        <3>3. Total(current) = MaxConcurrency
            BY <1>1, <3>1, ConservationIsTotal DEF SemInv
        <3>4. /\ Cardinality(H(current)) \in Nat /\ Cardinality(R(current)) \in Nat
              /\ value[current] \in Nat /\ lost[current] \in Nat
            BY <1>1, <3>1, Count DEF H, R, SemInv, TypeOK
        <3>5. Cardinality(H(current)) + Cardinality(R(current)) <= MaxConcurrency
            BY <3>3, <3>4, SemAssumption DEF Total
        <3> HIDE DEF K, W
        <3>6. Cardinality(K) + Cardinality(W) <= MaxConcurrency
            BY <3>2, <3>5
        <3> QED
            BY <3>6 DEF K, W
    <2> QED
        BY <2>2, <2>3
<1> QED
    BY <1>1, SemInvariance, PTL
=============================================================================
