----------------------------- MODULE Semaphore -----------------------------
(***************************************************************************)
(* InterprocessSemaphore (POSIX) and the MultiLock that wraps it: some     *)
(* processes construct, use and destroy semaphores of one name.  A         *)
(* semaphore of the kernel is numbered by the sem_open that created it;    *)
(* unlinking takes the name from it and not from the processes that have   *)
(* it open.  A process may crash, and then nobody gives back what it held. *)
(*                                                                         *)
(* An operation that throws, times out or returns false without an effect  *)
(* is a stuttering step: try_lock on a semaphore at 0, acquireWithTimeout  *)
(* that ends with TIMEOUT or FAIL, unlock of a MultiLock at 0.             *)
(***************************************************************************)
EXTENDS Naturals, FiniteSets

CONSTANTS Procs,
          MaxConcurrency,
          MaxGen,     \* bound on the semaphores created under the name
          MaxDepth    \* bound on the counter of a MultiLock

ASSUME SemAssumption ==
    /\ IsFiniteSet(Procs)
    /\ MaxConcurrency \in Nat \ {0} /\ MaxGen \in Nat /\ MaxDepth \in Nat \ {0}

VARIABLES current,  \* the semaphore the name denotes, 0 for none
          created,  \* the number of semaphores created
          value,    \* value[g]: the value of semaphore g
          proc,     \* proc[p] = [pc, gen, uod, counter, raw]
          lost,     \* history: lost[g]: permits whose holder is gone
          cut       \* history: a name was unlinked while another process used it

vars == <<current, created, value, proc, lost, cut>>
kernel == <<current, created, value, lost, cut>>
Gens == 1 .. MaxGen

\* pc: "absent" (no object), "exists" (sem_open said EEXIST), "ready" or
\* "locking" (in sem_wait).  gen = 0 is SEM_FAILED.  raw: a permit acquired
\* without the MultiLock.
NoObject == [pc |-> "absent", gen |-> 0, uod |-> TRUE, counter |-> 0, raw |-> FALSE]

ProcFields == [pc : {"absent", "exists", "ready", "locking"}, gen : 0 .. MaxGen,
               uod : BOOLEAN, counter : 0 .. MaxDepth, raw : BOOLEAN]

TypeOK ==
    /\ created \in 0 .. MaxGen /\ current \in 0 .. created
    /\ value \in [Gens -> Nat] /\ lost \in [Gens -> Nat]
    /\ proc \in [Procs -> ProcFields]
    /\ cut \in BOOLEAN

Init ==
    /\ current = 0 /\ created = 0
    /\ value = [g \in Gens |-> 0] /\ lost = [g \in Gens |-> 0]
    /\ proc = [p \in Procs |-> NoObject]
    /\ cut = FALSE

-----------------------------------------------------------------------------
(* Construction and destruction.                                           *)

Opened(g) == [pc |-> "ready", gen |-> g, uod |-> TRUE, counter |-> 0, raw |-> FALSE]

\* Mutant: an existing semaphore is replaced.
M_SemReplaces(p) ==
    /\ proc[p].pc = "absent" /\ created < MaxGen
    /\ created' = created + 1 /\ current' = created + 1
    /\ value' = [value EXCEPT ![created + 1] = MaxConcurrency]
    /\ proc' = [proc EXCEPT ![p] = Opened(created + 1)]
    /\ UNCHANGED <<lost, cut>>

\* sem_open(O_CREAT | O_EXCL) creates the semaphore ...
SemCreate(p) ==
    /\ proc[p].pc = "absent" /\ current = 0 /\ created < MaxGen
    /\ created' = created + 1 /\ current' = created + 1
    /\ value' = [value EXCEPT ![created + 1] = MaxConcurrency]
    /\ proc' = [proc EXCEPT ![p] = Opened(created + 1)]
    /\ UNCHANGED <<lost, cut>>

\* ... or finds that it exists, and a second sem_open follows, ...
SemExists(p) ==
    /\ proc[p].pc = "absent" /\ current # 0
    /\ proc' = [proc EXCEPT ![p].pc = "exists"]
    /\ UNCHANGED kernel

\* ... which throws if the name has gone in between, ...
SemOpen(p) ==
    /\ proc[p].pc = "exists"
    /\ proc' = [proc EXCEPT ![p] = IF current = 0 THEN NoObject ELSE Opened(current)]
    /\ UNCHANGED kernel

\* ... or fails otherwise, in silence unless errno is EINVAL.
SemOpenFails(p) ==
    /\ proc[p].pc = "absent"
    /\ proc' = [proc EXCEPT ![p] = Opened(0)]
    /\ UNCHANGED kernel

SetUnlinkOnDestruction(p, uod) ==
    /\ proc[p].pc = "ready"
    /\ proc' = [proc EXCEPT ![p].uod = uod]
    /\ UNCHANGED kernel

Holds(p, g) == proc[p].gen = g /\ proc[p].counter > 0
HoldsRaw(p, g) == proc[p].gen = g /\ proc[p].raw

\* The object of p goes, and with it what p held.
Permits(p) == (IF proc[p].counter > 0 THEN 1 ELSE 0) + (IF proc[p].raw THEN 1 ELSE 0)
Gone(p) ==
    /\ proc' = [proc EXCEPT ![p] = NoObject]
    /\ lost' = [g \in Gens |-> IF g = proc[p].gen THEN lost[g] + Permits(p) ELSE lost[g]]

\* sem_unlink removes whatever has the name by now.
SemDestroy(p) ==
    /\ proc[p].pc = "ready"
    /\ Gone(p)
    /\ IF proc[p].gen # 0 /\ proc[p].uod
       THEN /\ current' = 0
            /\ cut' = (cut \/ \E q \in Procs \ {p} : current # 0 /\ proc[q].gen = current)
       ELSE UNCHANGED <<current, cut>>
    /\ UNCHANGED <<created, value>>

\* A crash, wherever the process is.  sem_wait(SEM_FAILED) is one.
Crash(p) ==
    /\ proc[p].pc # "absent"
    /\ Gone(p)
    /\ UNCHANGED <<current, created, value, cut>>

-----------------------------------------------------------------------------
(* The semaphore itself.                                                   *)

Take(p) ==
    /\ proc[p].gen # 0 /\ value[proc[p].gen] > 0
    /\ value' = [value EXCEPT ![proc[p].gen] = @ - 1]

Post(p) == value' = [value EXCEPT ![proc[p].gen] = @ + 1]

\* acquireWithTimeout that succeeds, and the release of what it got.
AcquireWithTimeout(p) ==
    /\ proc[p].pc = "ready" /\ ~proc[p].raw /\ Take(p)
    /\ proc' = [proc EXCEPT ![p].raw = TRUE]
    /\ UNCHANGED <<current, created, lost, cut>>

Release(p) ==
    /\ proc[p].pc = "ready" /\ proc[p].raw /\ Post(p)
    /\ proc' = [proc EXCEPT ![p].raw = FALSE]
    /\ UNCHANGED <<current, created, lost, cut>>

-----------------------------------------------------------------------------
(* MultiLock.                                                              *)

\* The object r, its counter at n.
WithCounter(r, n) == [pc |-> "ready", gen |-> r.gen, uod |-> r.uod, counter |-> n, raw |-> r.raw]

\* Mutant: every lock goes to the semaphore.
M_NotReentrant(p) ==
    /\ proc[p].pc = "ready" /\ proc[p].gen # 0 /\ proc[p].counter < MaxDepth
    /\ proc' = [proc EXCEPT ![p].pc = "locking"]
    /\ UNCHANGED kernel

\* lock: a counter above 0 only counts; else acquire follows.
Lock(p) ==
    /\ proc[p].pc = "ready" /\ proc[p].gen # 0 /\ proc[p].counter < MaxDepth
    /\ proc' = IF proc[p].counter = 0
               THEN [proc EXCEPT ![p].pc = "locking"]
               ELSE [proc EXCEPT ![p].counter = @ + 1]
    /\ UNCHANGED kernel

Acquire(p) ==
    /\ proc[p].pc = "locking" /\ Take(p)
    /\ proc' = [proc EXCEPT ![p] = WithCounter(@, @.counter + 1)]
    /\ UNCHANGED <<current, created, lost, cut>>

TryLock(p) ==
    /\ proc[p].pc = "ready" /\ proc[p].gen # 0 /\ proc[p].counter < MaxDepth
    /\ IF proc[p].counter = 0 THEN Take(p) ELSE UNCHANGED value
    /\ proc' = [proc EXCEPT ![p] = WithCounter(@, @.counter + 1)]
    /\ UNCHANGED <<current, created, lost, cut>>

\* Mutant: every unlock posts.
M_UnlockPosts(p) ==
    /\ proc[p].pc = "ready" /\ proc[p].counter > 0
    /\ Post(p)
    /\ proc' = [proc EXCEPT ![p] = WithCounter(@, @.counter - 1)]
    /\ UNCHANGED <<current, created, lost, cut>>

Unlock(p) ==
    /\ proc[p].pc = "ready" /\ proc[p].counter > 0
    /\ IF proc[p].counter = 1 THEN Post(p) ELSE UNCHANGED value
    /\ proc' = [proc EXCEPT ![p] = WithCounter(@, @.counter - 1)]
    /\ UNCHANGED <<current, created, lost, cut>>

Step(p) ==
    \/ SemCreate(p) \/ SemExists(p) \/ SemOpen(p) \/ SemOpenFails(p)
    \/ \E uod \in BOOLEAN : SetUnlinkOnDestruction(p, uod)
    \/ SemDestroy(p) \/ Crash(p)
    \/ AcquireWithTimeout(p) \/ Release(p)
    \/ Lock(p) \/ Acquire(p) \/ TryLock(p) \/ Unlock(p)

Next == \E p \in Procs : Step(p)

Spec == Init /\ [][Next]_vars

\* What a process does with a permit comes to an end: it does not stay in
\* its critical section for ever, neither by standing still nor by locking
\* and unlocking the inner levels of its MultiLock.
FinalUnlock(p) == proc[p].counter = 1 /\ Unlock(p)
Fairness == \A p \in Procs : WF_vars(Release(p)) /\ WF_vars(Unlock(p)) /\ SF_vars(FinalUnlock(p))

FairSpec == Spec /\ Fairness

-----------------------------------------------------------------------------
(* The permits of every semaphore are all there: each is in its value, is  *)
(* held by one process, or has gone with its holder.  MultiLock counts     *)
(* nested locks without taking or giving back more than one.               *)
Conservation ==
    \A g \in 1 .. created :
       value[g] + Cardinality({p \in Procs : Holds(p, g)})
                + Cardinality({p \in Procs : HoldsRaw(p, g)}) + lost[g] = MaxConcurrency

(* No more than MaxConcurrency processes are in their critical sections -  *)
(* until a process that destroys its object unlinks the name while another *)
(* one uses it, which is the default (Semaphore.cpp 34, 103): who comes    *)
(* next creates a second semaphore of that name, with permits of its own.  *)
ConcurrencyBound ==
    ~cut => Cardinality({p \in Procs : proc[p].counter > 0})
              + Cardinality({p \in Procs : proc[p].raw}) <= MaxConcurrency

(* Whoever waits in lock() sees the semaphore above 0 again or stops       *)
(* waiting, unless as many permits as the semaphore has were lost with     *)
(* processes that crashed or destroyed it in their critical section, or    *)
(* the waiting process itself and the others that wait hold the rest.      *)
Stuck(g) ==
    lost[g] + Cardinality({p \in Procs : proc[p].pc = "locking" /\ HoldsRaw(p, g)})
       >= MaxConcurrency
PermitComesBack ==
    \A p \in Procs :
       proc[p].pc = "locking"
          ~> proc[p].pc # "locking" \/ value[proc[p].gen] > 0 \/ Stuck(proc[p].gen)
=============================================================================
