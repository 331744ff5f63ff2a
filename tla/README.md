# Gicame: a TLA+ verification project

Gicame is a C++ library of operating-system, concurrency, networking,
serialization, RPC and cryptography wrappers. This directory holds TLA+ models of
its concurrency core, of the objects that wrap kernel and OpenSSL resources, and of
the protocols that run over a connection, TLC configurations that check them on small
instances, and TLAPS proofs of safety properties for every instance. `PROJECT.json`
maps every definition to the lines it models.

The Linux build of the Makefile is the reference, and of the POSIX and Windows branches
of a class the POSIX ones are modelled. The exception is InterprocessSignal, all of
whose builds are modelled, since they make different promises.

## 1. Inventory

| Component | State | Operations | Talks to |
|---|---|---|---|
| `ByteRing<WaitPolicy>` | shared `head`, `tail`, byte array; per process `cachedHead`, `cachedTail` | `initRing`, `push`, `pop`, `size`, `freeSpace` | its WaitPolicy (4 calls); the other process through shared memory |
| `InterprocessQueue`, `SLInterprocessQueue` | a ByteRing in a `SharedMemory`; two `InterprocessSignal`s, or spinning | construction as MASTER or SLAVE, then ByteRing's | ByteRing, InterprocessSignal, SharedMemory |
| `InterprocessSignal` | an event handle, a futex word, or a mutex and condition variable in shared memory | construct, `wait`, `signal` | kernel |
| `Signal`, `SignalGroup`, `SignalOfAGroup` | atomic two-level events, one mutex, one condition variable | `wait`, `waitOne` (plain, timed), `signal` | threads of one process |
| `TaskExecutor` | one-task slot, `stopFlag`, completion state, last exception, two condition variables, a worker thread | `submitVoidTask`, `submitTask`, `waitForTaskCompletion`, `getLastTaskException`, destructor | client threads |
| `SPSCQueue` | ring in one process on two `Signal`s | `push`, `pop`, timed `pop`, `size` | Signal |
| `InterprocessSemaphore`, `MultiLock` | a named semaphore; a recursion counter over any lock | `acquire`, timed acquire, `release`, `try_lock`, unlink on destruction | kernel |
| `SharedMemory` | name, descriptor, mapping, unlink flag | `open`, `close`, `unlink`, move | kernel |
| RPC | function table; request header and parameters on a byte stream | `registerFunction`, `oneShot`, `run`, `remoteCall` | IDataExchanger, serializer |
| Data transfer | none beyond the channel | send and receive of length-prefixed objects and text | ISender, IReceiver |
| Network, named pipes, serial device | a descriptor and a connection state | open, connect, accept, send, receive, close | kernel |
| Serialization, streams, reflection, utilities | buffers | pure conversions | none |
| Cryptography | OpenSSL contexts, keys, certificates, stores | construct, copy, init, update, finalize, PEM conversions, verify | OpenSSL |

### What is hard

* *Two processes, one array, no lock.* ByteRing lets both sides copy at once, guarded
  only by index arithmetic and by snapshots of the other side's index that may be any
  number of calls old. Off by one means silent corruption.
* *Check, then sleep.* ByteRing, SPSCQueue and Signal test a condition and then block.
  Whether a signal between the two is lost depends on the primitive, and the three
  builds of InterprocessSignal differ here.
* *Shared condition variables.* SignalGroup has waiters for different signals on one
  condition variable, TaskExecutor has the worker and the blocked submitters on one.
* *Attachment.* A slave constructs its signals again, in place, while the master may
  be using them.
* *Completion without identity.* TaskExecutor's completion state does not say whose it is.
* *Life cycle of names.* Semaphores and shared memory are unlinked by whoever is
  destroyed first. A process that dies takes its permits along.
* *Descriptors are numbers.* One object's stale number is the next object's descriptor:
  sockets, listeners, pipes and shared memories share nothing but the table, and that is
  enough to let one break another.
* *Streams without frames.* A connection delivers in pieces, fails and closes; RPC and
  data transfer must stay in step with their peer over it, and a count that means failure
  must not be added to a count.
* *Resources on error paths.* Every OpenSSL object has to be released exactly once,
  whichever call fails.

### What correct means

* ByteRing: every byte arrives once, in order and unchanged; the copies never touch a
  common slot; a stale snapshot is never optimistic; a query is a promise to its
  caller; a call returns if the other side does its part.
* InterprocessSignal: a signal is kept until it is taken; no process sleeps beside it.
* SignalGroup: no lost wakeup; the lowest pending signal first; delivery.
* TaskExecutor: no task lost or run twice; a completion is that of the right task;
  waits and the destructor end.
* Semaphore, MultiLock: permits are neither made nor destroyed by nesting, and at most
  maxConcurrency of them are held under a name; a waiter is reached.
* Sockets, pipes, shared memory: nobody acts on a descriptor of somebody else; nothing
  that is open is forgotten; a status tells the truth.
* RPC: a call returns its own result, was executed once, and ends.
* Data transfer: the n-th object received is the n-th sent, however it was cut up.
* Cryptography: decryption gives back the plaintext for every chunking; no write behind
  the end of a vector; every handle released once.

## 2. Modules

| Module | Models | Notes |
|---|---|---|
| `CircularBuffer` | `circularBufferSize`, `circularBufferFreeSpace`, the chunking, the slots of the two memcpys, the wrap of an index | operators only |
| `ByteRing` | `ByteRing.h` | one action per load, store, byte copied, wait and signal |
| `BoundedFifo` | the promise: a FIFO of at most Capacity - 1 bytes with atomic chunks | abstract specification |
| `InterprocessSignal` | `InterprocessSignal.cpp`, `Futex.h` | variable `build`, fixed at the start |
| `InterprocessQueue` | `InterprocessQueue.h/.cpp` | EXTENDS ByteRing, two INSTANCEs of InterprocessSignal |
| `SignalGroup`, `MCSignalGroup` | `Signal.h` | Signal is SIG_COUNT = 1; MC gives each thread a role |
| `TaskExecutor`, `MCTaskExecutor` | `TaskExecutor.cpp` | MC adds a client that takes turns |
| `Descriptors` | the kernel's descriptor table | external; the lowest free number is the next |
| `TcpSocket`, `TcpListeningSocket`, `NamedPipe`, `SharedMemory` | the classes of these names | each EXTENDS Descriptors |
| `OsProcess`, `MCOsProcess` | one process that uses all four | the composition; MC limits how many objects take part |
| `DataExchanger` | the bytes of a TcpSocket or NamedPipe, `receive` and `send` | two directions, short counts, hang-up |
| `Rpc` | `RpcClient`, `RpcServer`, `RpcCommon.h` | EXTENDS DataExchanger |
| `ObjectTransfer` | `ObjectSender`, `ObjectReceiver`, and the text pair | EXTENDS DataExchanger |
| `MCExchange` | one or the other over one connection | |
| `Semaphore` | `InterprocessSemaphore`, `MultiLock` | processes that come, go and crash |
| `CipherStream` | `Encryptor`, `Decryptor` | lengths and places of bytes |
| `CryptoHandles` | who releases the OpenSSL objects of every class of `crypto/` | |
| `MCCrypto` | one or the other | |
| `ByteRingProofs` | | TLAPS: ByteRing, its refinement of BoundedFifo, InterprocessQueue |
| `InterprocessSignalProofs`, `SignalGroupProofs`, `TaskExecutorProofs`, `OsProcessProofs`, `SemaphoreProofs` | | TLAPS: the module of the name |
| `ExchangeProofs` | | TLAPS: Rpc and ObjectTransfer over a connection |
| `CryptoProofs` | | TLAPS: CipherStream and CryptoHandles |

Definitions whose comment says "Mutant" are plausible bugs. Nothing uses them; each
shows, when put in the place of the definition after it, that a property can fail.

### ByteRing

`pPc` and `cPc` say where each side is. A push runs `Push`, then per chunk
`StartPushChunk` (chunk size and the fast path of `waitFreeSpace`), if needed
`LoadTail` and `WaitDataFree` in a loop, `CopyIn` once per byte, `StoreHead` and
`SignalDataPresent`; pop is the mirror image. Bytes are identified with their position
in the stream; the ring never looks at them. The source pairs every store of an index
(release) with the other side's load (acquire) and reads its own index relaxed, so each
byte copied happens before the other side's copy of it, and interleaving is an exact
description. That this also needs the absence of races on the slots is `NoDataRace`.

`Init` has the MASTER done and the SLAVE not attached; either side may be the master.
The indices are `ipc_size_t` (32 bits) and `initRing` rejects larger capacities; that
every subtraction stays non-negative is part of `TypeOK`, so plain integers are exact.

A WaitPolicy's wait may return at any time in this module. For SLInterprocessQueue
that is the code; for InterprocessQueue it is an over-approximation, so that safety
carries over, and `InterprocessQueue` then constrains it for liveness.

### InterprocessSignal

In the windows build `word` is the auto-reset event. In the futex build it is the futex
word, `one` is fwait's local of that name, which a failed compare-exchange overwrites,
and each of CAS, FUTEX_WAIT and FUTEX_WAKE is a step. In the posix build there is no
state: `wait` goes to sleep and `signal` wakes one sleeper if there is one. A SLAVE's
constructor (`SlaveConstruct`) clears the futex word, or initialises the posix mutex and
condition variable again; POSIX leaves the effect on a sleeper undefined, so any subset
of the sleepers is stranded. FUTEX_WAIT interrupted by a signal handler makes fwait throw
(`FutexFails`); in `InterprocessQueue` this error, which aborts a push or pop half-way,
is left out, as are failures of the pthread and Windows calls.

### SignalGroup

All four waiting calls are a scan over a range of signals: `wait(i)` over `i..i`,
`waitOne` over all. One `tryConsume` is one step. The first, relaxed load may miss a
store of a `signal()` that has not yet taken the mutex (`MissStale`); once it has, the
mutex orders the two for whoever scans under it. `pend[t]`, a history variable, holds
the signals that were up when `t`'s scan began and have stayed up since. A deadline is
a sleep that may end at any time, and `Relock` may find the deadline passed even
after a notification, as `wait_until` may. An index out of range throws before
anything happens and is left out.

### TaskExecutor

Each critical section of `mtx` is one step and each notification, sent after unlocking,
another. Tasks are numbered as they enter the slot; `submitted`, `started` and
`finished` are history. A task may return, throw a `std::exception` (recorded with its
number) or throw something else. The destructor may start when no call is in progress.

### Sockets, listeners, pipes and shared memory

`owner[f]` is the object for which descriptor `f` was opened, while the field `fd` of an
object is the number it would act on; the properties are about the two drifting apart.
Every public operation is an action, with one disjunct or action per place where it can
fail (`ListenTo`, `ListenToFails`, `ListenToNoSocket`), and a failing send or receive is
the path into `close` it has in the code. Calls that throw before they change anything
are stuttering steps. A move transfers what the source owned. The pipes share one name
in the file system (`fifo`), as the two ends of a pipe do, and so do the memories
(`segment`). `isConnected` reads `errorCode` uninitialised when getsockopt fails, hence
both answers.

### DataExchanger, Rpc, ObjectTransfer

A cell stands for some bytes and carries the message it was made from, so that bytes
read in the wrong place can be told. `receive` returns any count up to what was asked
for and is there, 0 once the peer has closed, or everything with MSG_WAITALL. A receive
of length 0, which both receivers make for an empty object, waits on a socket until
something is there or the peer has closed, as recv does; on a pipe it returns at once.
MSG_WAITALL interrupted by a signal returns less than was asked for: a program that
takes signals behaves like one with `env.blocking = FALSE`. In `Rpc` the record `env`
has what a program can choose or cannot know: blocking reception, whether the handler of
invalid requests returns true, whether send may be cut short, and the order in which the
compiler evaluates `deserialize<Args>(stream)...`. A socket may fail in any send or
receive on either side. The client's call then throws and so does every later one
(`Throw`, client "broken", which is SS_ERROR). On the server the exception leaves run(),
as does one of a registered function or of the send of its result; `failed` records it
(`ServerReceiveFails`, second case of `Invoke`). The server's step is split where it
blocks, at the header and at the parameters; deserialization, invocation, serialization
and the reply are one step, for only the server touches what they use. `ObjectTransfer`
keeps the sums of the loops in a size_t (`Plus` wraps at `SIZE_MAX`), and the two
transports fail as they do: a socket throws, a pipe returns `~size_t(0)` and closes
itself.

### Semaphore

A semaphore of the kernel is numbered by the sem_open that created it, and `current` is
the one the name denotes. Construction is two system calls (`SemExists`, `SemOpen`)
between which anything may happen. `counter` is MultiLock's; `raw` is a permit acquired
beside it, with acquireWithTimeout, at most one per process. `release` is called by who
has acquired, `lost` counts the permits whose holder crashed or destroyed its object, and
`cut` records that a name was unlinked while another process used it.

### CipherStream, CryptoHandles

Byte `i` of the true ciphertext (or plaintext) is the number `i`, and a byte nothing was
written to is 0. OpenSSL's part is how many bytes an update yields. An update copies
shot by shot with the code's own pointer arithmetic into a vector of the code's own
size; the overload of Encryptor::update that takes a pointer writes into a buffer of the
caller's, with the block to spare that OpenSSL's documentation asks for (`CallerRoom`).
`last` has the room and the overrun of the last update only, `spoiled` that some update
so far took more than one shot or outgrew its buffer. `CryptoHandles` has one reference
per handle. A class has either a raw pointer that its destructor frees, or a shared_ptr.
Where C++ provides them, objects are copied (`Copy`) and assigned (`Assign`); an
assignment overwrites a raw pointer, and `overwritten` records the live handle that was
lost. A class with a const member has no assignment. Functions that make a handle for
their own use are records that say on which paths they free it (`frees`).

## 3. Runs

| Run | Instance | Shows |
|---|---|---|
| `ring` | Capacity 4, pushes of 1, 2, 5, pops of 1, 2, 4, 9 bytes | chunks smaller than, equal to and larger than capacity - 1 (5 is split 3 + 2); more than two turns round the ring, so every wrap offset occurs; delivery, no race, snapshots, queries, returns, refinement of BoundedFifo |
| `queue` | Capacity 3, pushes of 1 and 3, pops of 1 and 2, 4 bytes, all builds | delivery in all builds; no lost wakeup with events and futexes, although fwait may return without a signal and a slave clears the word |
| `queue_posix` (violation) | the same, posix only | pop sleeps for ever beside its data |
| `signal` | 3 processes, all builds | one signal, one wakeup, three competitors: no sleeper is forgotten |
| `signal_futex` (violation) | 3 processes | fwait returns without a signal |
| `signal_group` | 2 signals, 2 waiters, 1 signaller | two waiters that compete for one signal or wait for different ones, with plain, zero and finite timeouts |
| `executor` | 2 clients, 4 tasks | a task running, one in the slot and a blocked submitter at once; empty and throwing tasks |
| `executor_notify` (violation) | 2 clients, 2 tasks | the worker's wakeup goes to a submitter |
| `descriptors` | 3 descriptors; 2 sockets, 2 listeners, 2 pipes, 2 memories, of which 3 objects of any kinds take part | any object beside any other, with the table full or not: nobody uses a foreign descriptor, a connected socket has one, leaks happen in the named places only |
| `exchange` | headers of 2 cells, 3 calls of 4 functions, 3 objects of up to 3 cells, buffer of 2, SIZE_MAX 7 | a call after a call that failed after a call that succeeded; sockets and functions that throw in the middle of a call; objects that fit, are empty and do not fit; sums that wrap |
| `sync` | 3 processes, 2 permits, 2 semaphores, depth 2 | two holders and a waiter; a second semaphore of the name; nesting; crashes everywhere |
| `crypto` | blocks of 4, shots of 7, plaintexts up to 9; 3 objects, 4 handles | updates below, at and above a block and a shot (like INT_MAX, 7 is one less than a multiple of the block); copies, assignments, double releases and error paths |

`MaxBytes` and `MaxTasks` bound how long a behaviour goes on producing; both appear in
the guards of `Push`, `Pop` and `SubmitVoidTask` only. Behaviours therefore end, and so
does the executor when it is destroyed, so deadlock is not checked in those runs; the
liveness properties say what must not be blocked. The same holds of `MaxCalls`,
`MaxObjects` and `MaxPlain`, and of `Handles`: a program that leaks them all stops.
`MaxGen` and `MaxDepth` bound the semaphores created under the name and the nesting. In
`descriptors` and `crypto` the objects of a kind and the handles are symmetric, and
neither run checks liveness.

Type invariants are not run on their own. That of ByteRing is part of `RingInv`, and
every inductive invariant of section 4 has one among its conjuncts.

### Exceptions that the properties name

The following is what the code does. Each property states the promise outside these
cases, and says in its comment where the case is.

* `HolderIsOwner`: a listenTo that failed in bind or listen keeps the number of the
  descriptor it has closed. A later close may close somebody else's.
* `ConnectedHasDescriptor`: a moved-from socket keeps the status of the source.
* `LeaksOnlyHere`: shared memory never closes its descriptor; a pipe that is created again
  while open loses the one it had.
* `ReturnedValueIsOwn`: after a call that threw on a short read the rest of its reply
  answers the next call; a compiler that evaluates arguments from the right swaps them.
* `ReturnedWasExecuted`: a void call takes the end of the connection for its reply.
* `RejectedOnlyIf`: a request with MAX_PARAM_COUNT parameters is built and then refused,
  and a refused request leaves its parameters to be taken for the next one. run() has no
  try block: besides a refusal and a hang-up, an exception of a socket or of a registered
  function ends it.
* `CallReturns`: a handler of invalid requests that returns true leaves the client waiting.
* `ObjectsArriveIntact`: an object larger than the buffer puts the receiver out of step;
  a pipe's `~size_t(0)` counts as bytes received.
* `TransferCompletes`: a receiver whose peer has closed turns in its loop for ever; and the
  reception of an empty object from a socket ends only when another object follows it.
* `ConcurrencyBound`: the name is unlinked by the first who goes, which is the default.
* `PermitComesBack`: permits lost with processes are not given back.
* `UpdateFits`: the Encryptor's vector has the size of the source and not that of the
  completed blocks. The property is exact about it: an update of one shot writes behind
  the end just when it leaves a smaller remainder of a block than it found, and never by
  a whole block. The Decryptor's vector and a caller's buffer with a block to spare are
  large enough for every update.
* `DecryptedIsPlaintext`: not after an update that wrote behind the end, nor after one of
  more than one shot, which leaves gaps in the output.
* `HeldIsLive`: implicit copies of classes with a raw pointer; `dh` after createSession threw.
* `LeftBehindOnlyBy`: an X509_NAME, an X509_CRL and a BIGNUM are never freed, the BIGNUM
  in computeSharedSecret and in a createSession whose second safeNumericCast throws; the
  implicit assignment of a Signer, Verifier or DiffieHellman loses what it overwrites.

### Fairness

* ByteRing: weak fairness of the steps inside push and pop. Nothing makes a process call
  push or pop again, which is why `PushReturns` and `PopReturns` say what a call that
  never returns must be waiting for.
* InterprocessQueue: the same; the end of a sleep is not fair, only a wakeup ends it.
* SignalGroup: weak fairness of running threads and strong fairness of taking the mutex,
  which is released again and again (`std::mutex` on Linux lets no thread starve for
  ever in practice, though the standard does not promise it). Spurious wakeups,
  deadlines and stale loads are not fair.
* TaskExecutor: weak fairness of the worker, the destructor and calls in progress. That
  a task ends is assumed: it is the caller's code.
* MCExchange: weak fairness of the server's reception, of the closing of its socket once
  run() has ended, of the client's reception of a reply, and of the rounds of a send or
  receive loop that is under way. Nothing else is fair: not a new remoteCall, sendObject or
  receiveObject, not a hang-up of the client or sender, not a failure.
* Semaphore: what a process does with a permit comes to an end. Strong fairness of the
  outermost unlock rules out a process that nests and un-nests for ever. That sem_wait
  prefers one waiter to another is not assumed away: `PermitComesBack` promises a permit,
  not to whom.

### Disagreements with the documentation

1. *`InterprocessSignal.h`: "Signaling is sticky".* Not in the posix build. `queue_posix`
   shows the consequence: the producer's signal falls between pop's check and its sleep.
   Only a later push or a spurious wakeup ends the wait.
2. *`Futex.h`: "wait for its value to become 1, and then set the value to 0".* After a
   failed compare-exchange fwait's `one` is 0, and the next turn succeeds on a word that
   is 0. `queue` shows that InterprocessQueue is immune, because it looks at its indices
   again after every wait.
3. *`TaskExecutor.cpp`: "Notify the worker thread".* With a second submitter blocked for
   the slot, `notify_one` may wake that one.

## 4. Proofs

TLAPS checks the following for every value of the constants, under the assumptions that
the modules state:

* ByteRing: `Capacity >= 2`, which `initRing` enforces, and positive transfer sizes.
* SignalGroup: at least one signal, and the absence of a thread is not a thread.
* TaskExecutor: finitely many clients; the caller that takes turns is one of them.
* InterprocessSignal: the builds are among the three.
* OsProcess: objects are disjoint and descriptors begin at 3.
* Semaphore: finitely many processes and at least one permit.
* DataExchanger, Rpc, ObjectTransfer: a header and a size prefix have at least one cell; a
  function has at most `MAX_PARAM_COUNT` parameters, which `build()` enforces; an object
  is smaller than `SIZE_MAX` cells.
* CipherStream, CryptoHandles: positive block and shot sizes; finitely many objects; NULL
  is no handle.

The bounds that keep the runs finite (`MaxBytes`, `MaxTasks`, `MaxCalls`, `MaxObjects`,
`MaxPlain`, `MaxGen`, `MaxDepth`) are arbitrary in the proofs. Every invariant that a
run checks is a theorem.

**ByteRing.** `RingInvariance` proves that `RingInv` is inductive. `FifoDelivery` alone is
not: one has to know what the slots between `tail` and `head` hold (`Contents`), that
their number is the difference of what was published and consumed (`Accounting`), that a
side that copies has room (`ChunkFits`) measured by a snapshot which is never optimistic
(`StaleSnapshotUnderReports`), and which values the locals have at each program point.
The argument is geometric: lemmas `CopySlotIsAdvance`, `AdvanceAdds` and
`AdvanceInjective` show that the slot arithmetic is addition modulo Capacity and
injective within one turn; `AdvanceHead` and `AdvanceTail` give the effect of storing an
index on sizes measured with fresh and stale indices; `WriteSlot` and `ReadSlot` place
the byte being copied relative to the others. There is one lemma per action.
`TypeCorrectness`, `RingDeliversFifo`, `SnapshotsUnderReport` and `QueriesArePromises`
follow at once, and `RingIsRaceFree` from `ChunkFits` and injectivity.
`RingImplementsFifo` proves the refinement: the channel of BoundedFifo is the stretch of
the stream from what is consumed to what is published (`OnTheChannel`), StoreHead appends
a chunk to it, StoreTail delivers one, and every other step stutters.

**InterprocessQueue.** Its signals only restrict when a wait of the ring returns, so
`QueueImplementsRing` holds step by step and everything proved of the ring carries over
(`QueueDeliversFifo`). What the signals add is `QueueLosesNoWakeup`: with events and
futexes nobody sleeps beside bytes or room it could use, unless the other side is just
about to signal. The inductive invariant `QueueInv` puts it as a debt: while a side waits
for what is there already, the word is up or the other side is between its store and its
signal (`PresentIsAnnounced`, `FreeIsAnnounced`), and while it sleeps beside a word that
is up, a FUTEX_WAKE is under way. It also says that a slave constructs its signals before
it attaches; without that, its clearing of the futex word could erase the debt.

**InterprocessSignal.** `SignalInvariance` adds to `NoForgottenSleeper` only where the
builds differ (`BuildsInv`): in the windows build nobody sleeps outside the kernel's
event, in the posix build the word stays 0, only there a sleeper can be stranded.
`NobodySleepsForgotten` follows.

**SignalGroup.** `GroupInvariance` proves that `GroupInv` is inductive for any number of
signals and threads; `GroupLosesNoWakeup`, `WaitOneIsLowestFirst` and
`GroupMutualExclusion` follow. A thread that scans under the mutex and has passed signal
`i` is treated like a sleeper already: if `i` is up, its signal() has yet to take the
mutex, and will therefore find the thread asleep.

**TaskExecutor.** `ExecInvariance` proves `ExecInv` for any number of clients and tasks.
`NoTaskLost` bounds the numbers of tasks submitted, started and finished by each other;
to keep `CompletionIsRecent` and `ExceptionIsOfLastTask` one has to know that while a task
runs nothing of its outcome is on record (`Running`). `TasksAreNotLost`,
`CompletionsAreRecent` and `ExceptionsAreOfTheLastTask` follow. For a client that submits
and waits in turns, `Turns` says where it can be while it is whose turn, and
`TurnsGetTheirOwnCompletion` follows; `TurnsImplementExecutor` shows that such a client is
one of those the other theorems are about.

**OsProcess.** `OsInvariance` proves `OsInv` for any sets of sockets, listeners, pipes,
memories and descriptors. `HolderIsOwner` speaks of every object at once, and to keep it
each kind has to say when it holds nothing: storage without a socket has no number, a
closed pipe has -1, and a listener that owns its number is listening (`AtRest`), else
`listenTo` would overwrite a descriptor it still owns. There is one lemma per kind.
`NobodyUsesAForeignDescriptor` and `ConnectedSocketsHaveDescriptors` follow;
`OnlyTheseLeak` is an action property, proved from the same invariant step by step.

**Semaphore.** `SemInvariance` proves `SemInv` for any number of processes, permits,
semaphores and nesting. `Conservation` is a sum of cardinalities, so each action is one
of three moves of a holder between the value, the two sets of holders and the lost
(`MovesLock`, `MovesRaw`, `GoesWithPermits`), or moves nobody (`Keeps`); the sets grow or
shrink by one element, which is where FiniteSetTheorems comes in. `OneSemaphore`, that
until a name in use is unlinked everybody uses what the name denotes, turns the sum for
one semaphore into `AtMostMaxConcurrency`, the bound for the name.

**Rpc.** `ReturnedValueIsOwn` and `ReturnedWasExecuted` speak of calls that have ended
and say nothing of the wire; what keeps them is that, until a call throws, client and
server are in step (`RpcInStep`). Between calls nothing is on the way to the client
(`AtRest`). During a call, either the request is on the wire or in the server, from its
beginning and uncorrupted, and the call not executed (`NotYetExecuted`), or it has been
executed once and a beginning of its own reply is all there is (`ReplyOnTheWay`). After
an exception the wire may hold anything; still, the server never meets a call again that
has returned before it (`Settled`), which is why later executions do not spoil the count
of earlier calls. `RejectedOnlyIf` needs that with MSG_WAITALL and whole sends a call
throws only when the server has stopped or the client's socket is of no more use
(`ThrowsAtTheEnd`), and that a request that is read is all there, a refused one before
it excepted (`WholeRequests`). A server that was stopped by an exception between
invocation and reply is a case of `ReplyOnTheWay`: the call has been executed and
nothing will come. There is one lemma per action, and more for the outcomes of a header.
`ReturnedValuesAreOwn`, `ReturnedCallsWereExecuted` and `OnlyTheseAreRejected` follow.

**ObjectTransfer.** The cells on the wire are consecutive in the stream of prefixes and
bodies (`After` gives the cell that follows another), the first is the one the receiver
is to read and the one after the last is the one the sender is to send (`WireInStep`).
The receiver's buffer holds the cells before (`ReceiverInLoop`), so a body that is
complete is the object: `ObjectsArrive`. That a stretch of consecutive cells inside a
prefix or a body has the expected elements (`RunOfCells`) is an induction, carried out
with the least counterexample (`NatMin`). `PlusFits` shows where the size_t sums do not
wrap; where a pipe's `~size_t(0)` makes them wrap, the receiver is not open any more.
Both protocols together are `ExchangeInv`, and `ExchangeInvariance` proves it.

**CipherStream.** As long as no update took two shots or outgrew its buffer, what waits
for the Decryptor is the stretch of the ciphertext from where it is to where the
Encryptor is, and what it has returned is a beginning of the plaintext (`InOrder`).
`UpdatesFit` and `DecryptionUndoesEncryption` follow for every block size and shot size.
The first holds for every chunking, the second as far as the first says that updates
stay inside their buffers, and for updates of one shot. The end of what an encryption
writes, in any number of shots, is bounded in `EncEnd`; the rest of the arithmetic is in
lemmas on how many bytes OpenSSL yields for a total (`OutFacts`, `OutMono`,
`DecOutOfAll`) and on neighbouring stretches (`BytesConcat`).

**CryptoHandles.** `HeldIsLive` is kept because a raw pointer is the only holder of its
handle (`RawIsExclusive`), outside the handles that an implicit copy has made two
pointers share, and because a call under way has a temporary nobody else holds
(`FrameInv`). An assignment takes the last pointer from a handle (`AssignInv`), which is
how it gets into `overwritten`. `HandlesAreLive` and `OnlyTheseAreLeftBehind` follow.
`CryptoInvariance` proves the invariants of both modules.

**Only model-checked:** the liveness properties, which need fairness and ENABLED and are
out of the prover's reach (`PushReturns`, `PopReturns`, `MutualWaitNeedsLargeChunks`,
`QueuePushReturns`, `QueuePopReturns`, `SignalIsTaken`, `SignalsAreDelivered`,
`DestructorReturns`, `WaitCompletes`, `CallReturns`, `TransferCompletes`,
`PermitComesBack`), and the violations of section 3. The library's induction theorems
cannot be used, for they take an operator; least elements of sets of naturals serve
instead where an induction is needed.

## 5. Not modelled

* `SPSCQueue`: the constructor never sizes its vector, so the first push is undefined and
  no later state is one the program can be in. Once it is sized, it is the ring of
  ByteRing with `%`, on two Signals, with a timed pop that waits once.
* `TaskExecutor::submitTask`, whose closure refers to locals of a call that has returned,
  and the unlocked read of `getLastTaskException`: both are undefined behaviour, the
  first for every use. Also without a property: an empty function is dropped without a
  completion; the worker frees the slot without notifying a blocked submitter; one of
  several waiters is notified of a completion.
* FUTEX_WAIT interrupted in the middle of a push or pop of an InterprocessQueue, and a
  slave that attaches to memory a dead master has left behind.
* A signal of high index can be starved by a lower one of a SignalGroup; there is no
  promise to the contrary.
* The Windows branches of sockets, pipes, shared memory and semaphores; the arithmetic
  of the deadline of acquireWithTimeout; moves and destruction of InterprocessSignal, and
  its stub.
* The formats of `Binary.h`, `Tree.h` and the streams, PEM and key files, random numbers,
  and what OpenSSL computes: pure conversions or library calls. `BinarySerializer` appears
  in `Rpc` as far as RPC depends on it.
* Programs that disagree on the types of a remote function, beyond a deserialization that
  throws (a function that throws, in `Rpc`); a send or receive of more than INT_MAX bytes.
* `InterprocessSemaphore::release` by a process that holds no permit, which adds one
  (`Release` is called by who has acquired).
* Serial devices, dynamic libraries, error formatting, reflection and number helpers:
  one call each, or compile-time, without a protocol.

Worth doing next: a master that restarts under a slave, with `FutexFails` in the queue;
`safeNumericCast` and `align` as operators with a reference definition; the type
invariant of `MCExchange` with the bounds of its counters as a theorem.
