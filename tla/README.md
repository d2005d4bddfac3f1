# Aio4c in TLA+

Specifications, model checking and proofs of Aio4c (`src/src/*.c`), a C library
of asynchronous clients and servers, and of its Java binding (`src/src/jni`).

## 1. The system

### Parts and how they interact

A **server** is an *acceptor* thread and one or more *pipes*; a **client** is a
thread with one pipe. A **pipe** is three threads: the *reader* polls the
sockets and reads, the *worker* runs the user's READ handlers, the *writer*
runs the WRITE handlers and sends. Each of these threads creates the next one
in its initialization callback, and tells it to end and joins it in its exit
callback. Beside them the library has two threads of its own, the *logger* and
the one that writes *statistics*, made by `Aio4cInit`.

Threads talk through **queues** (`queue.c`), and the reader, which sleeps in
`poll(2)` and not on its queue, through its **selector**'s wake-up pipe
(`selector.c`). What they share is the **connection** (`connection.c`): its
state, its lists of handlers (`event.c`), its two **buffers**, and two sets of
owners. An owner *signs* `managedBy`; the last to sign makes the connection
CONNECTED. When the connection is closed, handlers of CLOSE put an event in every
owner's queue; an owner that takes it *gives the connection up*
(`ConnectionNoMoreUsed`), and the last one frees it. The Java binding hears of a
connection through the same events.

| component | state | operations | what makes it correct | hard part |
|---|---|---|---|---|
| Queue, Condition | two lists of nodes, `exit`, `emptied`, sleepers | Enqueue*, Dequeue, RemoveAll, FreeQueue | FIFO, nothing lost, no lost wake-up, EXIT last, nodes reused | wake-ups against sleeping and polling consumers; RemoveAll in the middle; the `emptied` flag |
| Selector | busy and free keys, array of polls, cursor, pipe | Register, Unregister, Select, SelectionKeyReady, SelectorWakeUp | polls and keys aligned, every ready key returned once | indexes that shift, counted registrations, a sweep as a hidden cursor |
| Connection, Event | `state`, `stateLock`, handlers, `managedBy`, `closedBy`, `closedForError` | ConnectionState, ManagedBy, NoMoreUsed, Read, Write, Close, ... | each owner told once; freed once, when nobody uses it; bytes in order | state tested without the lock, and not monotone; handlers run under the lock |
| Acceptor | queue, readers, factory | accept, close handler, exit | every accepted connection is handed over, or closed at exit | closing what others close too |
| Reader, Worker, Writer | queue, selector, `load`, pool | loop on the queue, handlers, exit | woken when needed, exact load, end after those who feed them | order of EXIT, CLOSE and late items |
| Client | queue, `connected`, `retryCount`, `exiting` | connect, retry, give up, end | retries when and as often as documented, ends | events of an old connection met by a new one |
| Server | queue, acceptor | NewServer, Start, Stop, Join | comes down completely | failures on the way up |
| Thread | `running`, `initialized`, table of threads | New, Start, Stop, Join | a stop ends the thread; nothing freed under it | `running` written without the lock |
| Buffer, BufferPool | positions; buffers in a queue | Flip, Put, Copy, ...; Allocate, Release | no buffer lost or shared | a pool emptied and filled by two threads |
| Log, Stats, Aio4c | logger's queue and file, handler, options | Aio4cInit, Log, LogEnd, StatsEnd, Aio4cEnd | messages printed once, in order | messages before the logger is there and after it is gone |
| Java binding | global references, one structure for each connection or client | initialize, callbacks, join | events reach the right object; references given back | a client that retries shares one object |
| List | doubly linked lists | add, remove, pop | a sequence | pointers of neighbours |
| Lock, Alloc, Address, Error | - | wrappers, formatting | - | no protocol of their own |

Every component is in `PROJECT.json` with its status, and the hazards of the
code at their lines, with the properties that watch them.

### How threads are modelled

Everything that touches shared state under one lock is one step. A test made
without the lock and the action it guards are two steps. In `Server` and
`Client`, what a thread has still to do before it is back at the head of its
loop is its `agenda`: a sequence of steps, each one an access to shared state;
the calls a step makes go in front of the rest, as on a stack. In the other
modules a variable says where each thread is. So any two threads interleave
between any two accesses, and a thread that is inside a handler is seen to be
there.

**Undefined behaviour.** Memory used after it was freed, and a list of handlers
changed while another thread runs through it, are undefined in C. The models
make it visible: a variable, `undefined` or `broken`, says what happened and
nothing moves any more, because nothing could be said. The invariants then speak
of all the steps up to there.

**Failures.** `Lifecycle`, `Aio4c` and `Binding` let each allocation, system
call or thread creation fail, up to `MaxFailures` of them (in `Binding` any), and
keep what the failing path leaks, gives back twice or uses although it is not there;
`Transfer` lets a send be partial or fail. `Queue`, `Selector`, `Server` and
`Client` assume that memory is there.

## 2. Modules

`MCQueue`, `MCSelector`, `MCServer`, `MCClient`, `MCLifecycle`, `MCTransfer`,
`MCAio4c` and `MCBinding` give the constants of the module they extend their
values. Each property has a mutant in `PROJECT.json`: a definition changed as a
plausible bug would (a dropped shift, a missing reset, a swapped order), which
the property's run catches. The mutated forms stand before the definition they
replace and are used by no action.

### `Queue` (queue.c, condition.c)
`busy` holds the items, oldest first, each with a ticket, its rank; `free`
counts the nodes kept. `Enqueue(type, c)` is `_Enqueue` behind its four public
faces, with the signal. `Dequeue(t, wait)` and `Resume(t)` are the code before
and after `WaitCondition`; `Sleep`, `GiveUp` and `Pop` are the ways its loop
ends. A condition is two sets: `waiting`, and `woken` (signalled, without the
lock yet), with spurious wake-ups and, when `WaitMayFail`, failing waits.
RemoveAll holds the lock and visits one node per step. `DequeueEmptied` is the
early return on the `emptied` flag. `allocated`, `peak`, `taken` and `dropped`
are history. `Delivered` joins order, conservation and EXIT last;
`NobodyLeftAsleep` both halves of "no lost wake-up".

### `Channel`, the promise of `Queue`
The FIFO its users count on: `Send`, `Receive`, `Withdraw` (RemoveAll), each at
once, on a set of items ordered by their tickets. `Abstract` in `Queue` maps the
pending set to `Visible`: the items of `busy`, less those the RemoveAll under way
will unlink, which no consumer can get any more. There is no FreeQueue in
`Channel`: freeing a queue must lose nothing, so it has to be a stutter.

### `Selector` (selector.c, poll and pipe build)
`busyKeys`, `freeKeys`, `key` (the C struct), `polls` (entry 0, the wake-up
pipe, left out), `maxPolls`, `curKey`, `pipe`, `locked`. One thread owns a
selector, so its operations are atomic; `SelectorWakeUp` is anybody's.
`SelectionKeyReady` is the state machine hidden in that function: first call
(`ReadyFirst`), same key again, next key, and the sweep that clears `revents`.
`KeyTable` says that keys and polls agree. `MidSweep` lets the owner register
in the middle of a sweep; the library never does, and it is FALSE in the run;
the proof covers both.

### `Server` (acceptor.c, reader.c, worker.c, writer.c, connection.c, event.c)
One pipe. `Accept` is one turn of `_AcceptorRun`, followed by the agenda
`Manage`: offer to the reader, hook the handlers, sign for worker and writer, wake
the reader. `ChangeState`, `LockState`, `FireClose`, `RemoveHandler`, `Tell`,
`UnlockState` are `ConnectionState` and `EventHandle`. `Reader*`, `Worker*`,
`Writer*` and `Closes` are the branches of the three `_...Run`; `Exit`, `Join`
and `Drain` the three `_...Exit` and the acceptor's. The queues are sequences:
what `Queue` shows of its implementation is taken as given, with the emptied
flag kept for the reader, the one thread that does not sleep on its queue. The
user's READ handler does nothing, writes, closes or finishes the connection.
`told` counts how often each owner was told of a close.

### `Client` (client.c, and the pipe as the client meets it)
Connections are numbered as they are made. `Connects`, `FinishesConnect`,
`Establishes`, `Loses` (and `TriesAgain`, `GivesUp`) and `Leaves` are the five
events of `_clientRun`; `Blame` is the write of `closedForError`, which is not
guarded by any lock. Of the pipe, who signs, who closes and why, who gives up
and how it ends are kept; the reader's sleep, tasks and data are `Server`'s.
The peer may hang up on the connections of `EarlyHangUps` as soon as the reader has
registered them, while the client still adds the handlers and signs for worker and
writer; on the others, once they are CONNECTED. `early` remembers which connections
were closed like that: only for those may CONNECTED come after CLOSE, and only they
lead to a race or to a connection that is freed under the pipe (`OnlyEarlyBreaks`).

### `Thread` (thread.c), the protocol of one thread
Both sides of a thread: `_runThread`, by `at`, and its owner in NewThread,
ThreadStart, ThreadStop and ThreadJoin, by `owner`. `thread->lock` is held from
the creation until the owner waits on `condInit`, and by the thread until its
loop begins, so the initialization is one step for its owner. The test of
`running` and the write that follows the routine's return are two steps:
ThreadStop writes `running` without the lock, in between if it happens to;
`overwritten` remembers the threads that then wrote over it. `numThreads` counts
the slots of the table, tested by NewThread and taken by ThreadStart. It has no
behaviour of its own: `Lifecycle` and `Aio4c` extend it, each thread of theirs
takes its steps, and `ThreadSpec` in `Lifecycle` says that the tree of threads
keeps the protocol.

### `Lifecycle` (server.c, acceptor.c, client.c, reader.c, worker.c, writer.c)
How a server or a client comes up and goes down. `has[c]` are the pointers set in
a component's structure, `link` the components their parent points to, `step`
where an initialization callback is. `Prepared` and `InitSteps` say what the six
constructors and initialization callbacks allocate, in order; each may fail, and
the failing paths give back what the code gives back. `leaked` has what they do
not: the pipe's name when NewReader fails, the lock or the condition when NewThread
got only one of them. `socket` follows the descriptor of the acceptor, which a failed
`listen` leaves set once closed, and the exit callback closes again. The six exit callbacks ask
the children to end (`AskChild`: an EXIT in the queue, ThreadStop and
SelectorWakeUp for the acceptor), join them and free the rest. `broken` is the first use
of freed memory.

### `Buffer` and `Transfer` (buffer.c, connection.c, worker.c, writer.c)
`Buffer` has the operations on a position, a limit and bytes as operators.
`Transfer` moves numbered bytes through one connection. Inbound: the socket, the
read buffer, a buffer of the worker's pool, its queue, the READ handler
(`ConnectionRead`, `_WorkerReadHandler`, `_WorkerRun`). Outbound: OUTBOUND events
in the writer's queue, the WRITE handler, the write buffer, `send` that takes all
bytes, some, or fails (`ConnectionWrite`). The pool is a queue with its emptied flag
that AllocateBuffer fills by batches. The user asks to write, closes or finishes
gracefully from any thread at any time; the peer closes at any time. As in
ConnectionState, the state is set first (`SetState`), the flags `canRead` and
`canWrite` after it (`SetFlags`), the handlers of CLOSE last and once. A graceful
close of a CLOSED connection makes it PENDING_CLOSE, and writable, again;
`closed` remembers that it was CLOSED once, when what was queued to be written was lost.

### `Aio4c` (aio4c.c, log.c, stats.c)
The main thread from `Aio4cInit` to `Aio4cEnd` by `mainAt`; the logger's and the
statistics' threads take the steps of `Thread`. `BeginLog`, and the steps after
it, are `Log` and its default handler: test the handler, get memory for the message
or forget it (`HandleMessage`, `dropped`), test the queue, enqueue or print.
`MemoryMissing` is where memory is used that was not got (log.c:235-237 and 268, the
node of `_Enqueue`, the item of `_LogRun`): `broken` is then `"memory"`, and nothing is
said of what follows. A NewQueue that gets its memory but not its lock or condition is
left out. `file` and `openFiles` are what the logger prints to. `since` remembers
whether LogEnd had come back when a thread entered Log.

### `Binding` (jni.c, jni/client.c, jni/server.c, jni/connection.c)
`held` and `refs` are the global references; `target` is `jConnection` of each
structure, of which the server copies one for every connection and the client has
one (`Wrapper`). `CreateFor`, the events and FREE are the callbacks; the life of a
connection is reduced to the order of its events, as `Server` and `Client` have
it. `calls` records which object each event was told to.

### Proof modules
`SequenceLemmas`, `QueueProofs`, `SelectorAndBindingProofs`, `LifecycleProofs`,
`ServerProofs`, `ClientProofs`, `TransferProofs`, `Aio4cProofs`: see 5. `Removal` has
`Without`, what is left of a sequence when some elements are taken out, for
`Server` and `Client`. The names of `Binding` begin with `Binding` or `Java`
where `Selector` has the same, so that one module can hold the proofs of both.

## 3. Runs

| run | instance | what it shows |
|---|---|---|
| `queue` | 2 consumers, 2 connections, 2 types, 3 items | order, conservation, recycling, no lost wake-up; that it implements `Channel`; with fairness, that each item is served |
| `selector` | 3 sockets, 3 keys, 2 registrations each | keys and polls aligned; the sweep returns every ready key |
| `server` | 1 connection, 1 message, all reactions, pipe of 2 bytes, other sockets | told once, never CONNECTED without handlers, reader woken, load exact, threads end last; shutdown ends every thread; a connection everyone was told about is freed |
| `server_freed` | 1 connection | a connection is freed under a thread that uses it |
| `client` | 2 connections, 1 retry, early hang-up on the first, user closes either way | retries counted anew once for each established connection; race and early free only after a hang-up |
| `client_live` | 2 connections, 1 retry, early hang-up on the first | a lost connection is retried or given up; a client that gave up ends |
| `client_retry` | 2 connections, 1 retry | a normal disconnection is retried |
| `lifecycle` | server with 2 pipes or client, 9 slots, 1 failure | nothing freed too early or left behind but the leaks named, each for a failure of its own; children end first; the protocol of `Thread`; a stopped server ends |
| `transfer` | buffers of 2 bytes, batches of 1; 5 bytes in, 4 requests out, or 2 of each | pool, order of bytes, count of WRITE calls with closes and reopenings, and with fairness that each request is served until a first close |
| `aio4c` | main, logger, statistics and 1 user thread, 3 messages, 1 failure | printed once and in order, dropped only for a failure; nothing left when LogEnd returns; late messages harmless; Aio4cEnd returns |
| `binding` | server with 2 connections, or a client with one | events to the right object, references exact |
| `binding_client` | a client with one retry | events of the old connection told to the object of the new one |

Further configurations, for a reader who wants the counterexample or a larger
instance:

| configuration | what TLC answers |
|---|---|
| `MCQueueDoc` | `DequeueFailsOnlyWhenEmpty` is violated: the `emptied` flag (queue.c:132) makes Dequeue fail with items pending, which queue.h:352 does not say; its callers come back |
| `MCSelectorLock` | `LockGivenBack` is violated: SelectionKeyReady keeps the lock on one path (selector.c:780, against selector.h:382) |
| `MCServerConnected` | `ConnectedWhenAccepted` is violated: the last owner to sign makes a connection CONNECTED that is closed already (connection.c:595, against event.h:44) |
| `MCServerTwo` | two silent connections that interfere: no error, wake-ups and load hold (1.9 million states) |
| `MCLifecycleInit` | `LinkedMeansInitialized` is violated: ThreadStart returns true although the initialization callback returned false (thread.c:282, against thread.h:54 and 270) |
| `MCTransferClose` | `OutputSentBeforeClose` is violated: with two writes queued when a graceful close begins, the first to leave the write buffer empty shuts the socket down, and what the second puts is not sent (connection.c:487 and 518-521, against Connection.java:128-131) |
| `MCTransferReopen` | `InterestKept` is violated: ConnectionClose(false) reopens a CLOSED connection, which is writable again (connection.c:187-199 and 245-248), but the requests queued when it was CLOSED were lost, so that the WRITE handler is not called "the same number of times this method is called" (Connection.java:119-121) |
| `MCClientRetries` | `RetriesBounded` is violated: a connection the peer closed early is made CONNECTED by the last signature (connection.c:595), and its event, which comes after the retry, resets `retryCount` (client.c:132-136): the client makes more than "the maximum number of retries" (client.h:136-138) |
| `MCAio4cStop` | `StopObeyed` is violated: the statistics' thread overwrites ThreadStop's write to `running` (thread.c:154-155) and goes on, and Aio4cEnd waits for ever (thread.h:246) |
| `MCAio4cStats` | `StatsReachStderr` is violated: LogEnd closes stderr before StatsEnd prints to it (aio4c.c:201-203, log.c:134, against aio4c.c:90) |

**Bounds.** Two consumers are enough for one to sleep while another polls, three
items for one to be removed between two. Three sockets make an index shift that is
neither first nor last. A message read makes one task; a second adds no new step,
and the traffic of other sockets is `OtherTraffic`. A wake-up pipe of one or two
bytes fills. Two connections of a client are the old and the new one: no code looks
further back. An early hang-up on the first (`EarlyHangUps = {1}`) meets the
hand-over and the second connection; one on the second meets the end of the client
as the first does, at a cost beyond the time of a run. Two pipes make a reader that
fails after another succeeded; nine slots are those of the main thread and a
server's eight; `ThreadInit` starts with any number of them taken, so the table
fills at every point. One failure finds each failing path, and a second descriptor
closed or a name leaked without one would be seen; two would only meet in paths that
free what the other freed. A buffer of two bytes and a send of one make a rest; five
bytes fill the pool more than once. Bounds are constants, or guards marked "bound".

**Deadlock.** All these systems really stop (threads end, or peers fall
silent), so it is not checked; that nobody waits for ever on somebody is stated
by `ShutdownCompletes`, `ShutdownEnds`, `ExitingEnds`, `EndReturns` and
`EventuallyServed`.

**Fairness.** Weak fairness of each thread's steps: they are loops, the
scheduler runs them, and a mutex in use is given back. Nothing is assumed of
peers, users, accepts, other sockets or the start of a shutdown. The liveness
properties accept an `undefined` or `broken` end, as nothing can be promised after
it; `ExitingEnds` also excepts early hang-ups, after which the client may wait for ever
for a FREE event; `ShutdownEnds` and `EndReturns` except the runs where a thread overwrote
ThreadStop's write (`overwritten`), which the code has no remedy for.

## 4. Findings

Refuted by a run:

- `reader.c:205`, and the same in worker.c: owners give the connection up from
  inside the dispatch of CLOSE when their queue is exiting, so it can be freed
  under the thread that dispatches (`server_freed`).
- `connection.c:265`: an error on a closed connection still marks it
  "closed for error"; the writer does so whenever an OUTBOUND event is left when the
  peer closes normally, and the client reconnects (`client_retry`).
- `jni/client.c:65`: all connections of a Java Client share one `jConnection`;
  when it retries, what is left of the earlier connection's events goes to the
  new object (`binding_client`).

And the nine divergences of the table of further configurations.

Met while modelling, kept in the models as the code has them:

- ThreadStop writes `running` without the lock: between the test and the write
  that follows it in `_runThread` (thread.c:151-156), the stop is lost.
- A thread whose initialization failed is not waited for: ThreadJoin may free it
  while it is in its exit callback (thread.h:336 leaves freeing a running
  thread undefined). `JoinFreesEnded`
  therefore speaks of threads that were initialized.
- A Thread whose ThreadStart failed is never freed; a slot of the table is never
  used again.
- The acceptor's failure paths free the `address` the server frees again, and
  a failing `listen` closes the socket twice (acceptor.c:160-167, 300-302).
- The name of a pipe is leaked when NewReader has no memory (acceptor.c:84-91,
  client.c:87-98, reader.c:140-149), the lock or the condition when NewThread gets
  only one of the two (thread.c:308-313).
- A peer that hangs up while the client hands the connection over makes the reader
  close it under the client. The handler the client adds meanwhile races with the
  reader's run through the list (event.c:97); one it adds afterwards is never called, so
  that its thread never gives the connection up and a client that gave up may wait for
  FREE for ever; the client, which was not told it is connected, frees the
  connection at once (client.c:140) although the pipe has it; and the last signature
  makes the closed connection CONNECTED (connection.c:595), of which the client hears
  after it has retried.
- A message for which there is no memory is lost silently (log.c:141-143), or the
  missing memory is used (log.c:265-268).
- With no reader, `_ChooseReader` indexes -1 (acceptor.c:186).
- EAGAIN on send is a write error and closes the connection (connection.c:504).
- AllocateBuffer's NULL is used (worker.c:205), and so is NewClient's and
  NewServer's in the binding.
- A thread that is in Log while LogEnd runs may use the queue once freed
  (log.c:146); when the logger could not be started but its queue could be made,
  messages stay in it.
- `_statsInit` keeps the address of a local array (stats.c:76).

## 5. Proofs

Checked by TLAPS for every value of the constants that the modules' named
assumptions allow.

**`QueueProofs`**, under `QueueAssumption`:
- `QueueTyped`: `Spec => []TypeOK`, proved with the next.
- `NodesCorrect`: `Spec => []NodesRecycled`. Inductive with the types: a node is
  allocated only when `free` is empty, when as many items as nodes are pending,
  so `allocated` is the peak.
- `OrderCorrect`: `Spec => []Delivered`, over the first. Its parts need each
  other: that a popped ticket is below the pending ones rests on the order, that
  a removed item is not pending any more on the tickets being distinct, that
  nothing follows EXIT on `exit` closing the queue.
- `WakeUpCorrect`: `Spec => []NobodyLeftAsleep`: while someone sleeps there are
  at least as many signalled consumers as items, because every enqueue signals
  one if there is one, a signalled consumer leaves `woken` only by taking an item
  or with the queue empty, and nobody falls asleep on a pending item.

- `QueueImplementsChannel`: `Spec => Implements`. It also needs `SweptInv`:
  RemoveAll leaves nothing it was asked for behind its cursor, so that what was
  hidden from the users when it took the lock is gone when it gives the lock
  back. RemoveAll is a `Withdraw` at its first step and stutters from then on;
  FreeQueue stutters because nothing is behind EXIT.

**`SelectorAndBindingProofs`**, first part, under `SelectorAssumption`:
- `KeyTableCorrect`: `Spec => []KeyTable`, and `SelectorTyped`. The inductive
  invariant is `TypeOK /\ KeyTable /\ ServedAreBusy`: the third says that a key of
  which the sweep has served an event is in the list, so that the sweep can go on
  from it, also when the owner unregisters another in the middle.

**`LifecycleProofs`**, under `ThreadAssumption` and, from its second part on,
`LifecycleAssumption`, for any number of pipes:
- `ThreadCorrect`: that `ThreadInit` and the protocol's steps keep
  `StartWaitsForInit` and `JoinFreesEnded`. Neither is inductive: `ThreadInv`
  adds, thread by thread (`ThreadFits`), which values of `state`, `running`,
  `initialized` and `owner` go with each place of the thread, so that the test
  ThreadJoin makes on `running` and `initialized` can be read backwards.
- `LifecycleImplementsThread`: each step of a server or client is a step of
  `Thread`'s protocol or leaves the threads alone; it needs `StepInv`, that a
  callback's next step is within its sequence, so that the thread a step creates
  is one.
- `LifecycleJoins`: hence `JoinFreesEnded` holds of all of them.
- `TableNeverOverflows`: `Spec => []TableFits`, although the limit is tested by
  NewThread and the slot taken by ThreadStart, and two threads could both pass the
  test. `CreationInv` says why they do not: among the components being created,
  at most one is not itself waiting for the creation of another (`OneFrontier`).
- `LifecycleTyped`: `Spec => []TypeOK`.
- `ParentsEndLast`: `Spec => []ChildrenEndFirst`. The exit callbacks end the children
  they point to, so `TreeInv` says that every child that is not over is pointed to,
  or is being created by a callback that has not returned (`FamilyFits`), and
  counted by `nbReaders` (`ReadersFit`), also after an acceptor whose next reader
  could not be made lowered it.
- `MemoryGivenBack`: `Spec => []MemoryKept`, over the same, with what each structure
  holds at each stage (`MemoryFits`), followed down the tree from the root
  (`GoneAll`); `FailureInv`, that a thread ends unasked, and a structure lacks
  its address, only after a failure; and, for the leaks, that each name or lock in
  `leaked` and the failed `listen` are counted in `failures` each for itself, the
  descriptor being stale only in an acceptor whose initialization failed.

**`SelectorAndBindingProofs`**, second part, under `BindingAssumption`, and `NoRetry`
(a client makes one connection):
- `EventsReachTheirObject`: `BindingSpec => []OwnObject`, and `ReferencesGivenBack`:
  `BindingSpec => []ReferencesExact`. The inductive invariant `BindingInv` is both with
  `Bound`: the structure a connection's handlers are given holds the object
  made for it. A client that retries breaks `Bound`, as run `binding_client` shows.

**`ServerProofs`**, under `ServerAssumption` and `NoThreadAssumption`, for any
connections, reactions of the user and size of the wake-up pipe. The agendas are
sequences, but what the arguments need of them is two sets: what is pending, and
which steps may still come after the one a thread is at. `MayPrecede(x, y)` says
which step may stand before which in an agenda, and `Follows(x, y)` which steps a
step puts in front of the rest; `Agendas` (every agenda is in that order, of steps
its thread may have) is proved with the types. With it a step of a thread is `Moves`:
it takes the first of what is pending away and adds what follows. Each property
then has an inductive invariant of its own over these sets:
- `ServerTyped`: `Spec => []TypeOK`, with `Agendas`.
- `ServerEndsInOrder`: `Spec => []GoneLast`. `Chain` follows acceptor, reader, worker
  and writer: once a thread has put EXIT in the next one's queue it has nothing
  left but to wake and to join it, and it is gone only after the next one.
- `ServerWakesReader`: `Spec => []NoLostReaderWakeUp`. `Wakes` says it of a reader
  that has been told its queue is empty, before it sleeps, and of the acceptor,
  which wakes last: a byte written to a full pipe is not needed, as the pipe is
  not empty.
- `ServerHandlesConnected`: `Spec => []ConnectedWhenHandled`. `Handled` follows the
  order of the acceptor's steps: the writer's signature comes after all the hooks.
- `ServerTellsOnce`: `Spec => []ToldOnce`. It needs `Held`, that what is done under
  the connection's lock is done by its holder, and `Once`: an owner's handler is
  still to be added, or is there, or is being told, and only one of these.
- `ServerLoadExact`: `Spec => []LoadExact`. `Exact` follows a connection's DATA item
  and CLOSE event through the reader's queue: at most one of each, DATA first. It
  needs `Fresh` (nothing is known of a connection that was not accepted).

**`ClientProofs`**, under `ClientAssumption`, for any number of connections and retries
and any closings of the user:
- `ClientTyped`: `Spec => []TypeOK`, with `Agendas` (every step on an agenda is one its
  thread may have, about a connection that was made) and `Fresh`.
- `ClientRetriesCounted`: `Spec => []RetriesCounted`, with no assumption about the peers.
  A retry is counted when the next connection is made, and the count is reset when the
  CONNECTED event of some connection is taken, whenever that is: what has to be
  shown is that each connection gives at most one such event. `ClientInv` says it
  with `Counted`: the connections made are within the retries counted and `Retries` for
  each of the connections whose CONNECTED the client has taken (`Settled`), which were
  established. It rests on what is said of each connection by itself
  (`Connections`). While it is being opened there is exactly one trace of it anywhere
  (`TraceAt`): a step on one agenda, an INIT or CONNECTING event, or the signatures that
  are due; so it becomes CONNECTED once, by the last of them (`UnsettledAt`), and there
  is one CONNECTED event of it, queued or on the way (`ConnectedAt`). `Forms` says where
  on an agenda the steps that open, hand over and decide may stand. Most steps only
  take traces of a connection away: that such a step keeps what is said of it is proved
  once (`FadesKept`), and each action needs an account of its own only for the
  connection it is about.

**`TransferProofs`**, under `TransferAssumption` and `BufferAssumption`, for buffers
of any size, batches of any size and any number of bytes and requests. The
operators on buffers are specified first (section 1). The two directions share
only how the connection is closed (state, flags, handlers still to call), so each has
its invariant:
- `TransferPool`: `Spec => []PoolKept`. `InboundInv` adds which hand is busy at which
  place (`HandsBusy`), that an empty pool means that all its buffers were out at
  once (`Lent`), that there is no task behind a CLOSE that was not sent yet, and
  that what goes to the worker was received: no byte of it is one `memset` cleared
  (`OnlyReceived`), without which the bytes delivered have no type.
- `TransferCounts`: `Spec => []InterestCounted`: the WRITE handler is never called more
  often than asked, and as often until a first CLOSED. `Counted` says both at every
  place of the writer: an event it holds is for the call it is about to make or for the
  bytes that are left, never for both. After a first CLOSED requests are lost, and only
  the first half remains, reopenings included.
- `TransferInOrder`: `Spec => []BytesInOrder`. For what is written, `Wrote` is the same
  byte by byte. For what is read, `ReadInv` goes along the line: what the handler
  has, the buffer in the worker's hand, the tasks up to CLOSE, the reader's hand or
  the read buffer, the socket; each begins with the byte after the one before.
  `ReadInOrder` promises that of a CONNECTED connection only, but the invariant has
  to go on after a close, for the last buffer a reader brings that had passed the
  test: it follows the tasks, or what the handler has if RemoveAll took them.

**`Aio4cProofs`**, under `ThreadAssumption` and `Aio4cAssumption`, for any users and any
number of messages and failures. The inductive invariant has two halves. `ControlInv`
is about places: what the logger's thread and its owner have done (`LoggerFits`),
what main has set up when (`MainFits`), what is left of queue and file (`LogFits`), how
often each thread has logged (`CountsFit`), and what a thread that is in Log found
(`HandFits`). `MessagesInv`, over the first, is about messages.
- `MessagesPrintedOnceInOrder`: `Spec => []PrintedOnceInOrder`, with the types. A message is
  printed, queued, in the hand of the thread that logs it, written to a closed stderr or
  dropped, and one of these only; no more are dropped than allocations failed.
  For the order, the queue goes on where what is printed ends, and a thread that
  prints by itself has nothing in the queue (`QueueInOrder`): it found none, or
  LogEnd had begun.
- `QueuePrintedByLogEnd`: `Spec => []NothingQueuedAtEnd`: EXIT closes the queue, and the
  thread leaves its loop when it has taken EXIT, after all that was before.
- `LateLogHarmless`: `Spec => []LateLogIsSafe`: who enters Log after LogEnd finds the
  queue only if no logger's thread ever ran, as it is that thread which frees it.
- `Aio4cImplementsThread`: `Spec => ThreadSpec`: each step is one of `Thread`'s protocol,
  or leaves the threads alone.

**`SequenceLemmas`** has what the sequence operators do: removing an element, taking
the tail, appending and concatenating (indexes, elements, which of two elements
is first, absence of repetition), and what `Without` keeps. That a place of a
given rank exists is proved by the least counterexample, as induction over
numbers needs an operator as a parameter.

**Only model-checked**: liveness (`EventuallyServed`, `EveryReadyKeyReturned`,
`ShutdownCompletes`, `ShutdownEnds`, `EventuallyFreed`, `ExitingEnds`, `LostIsNoticed`,
`InterestServed`, `EndReturns`), as it rests on fairness and ENABLED, out of this prover's
reach; and `OnlyEarlyBreaks`, the one safety invariant of a passing run that is not also
a theorem: without a hang-up nobody closes a connection during the hand-over, and none is
freed before its last owner gave it up, which would have to be followed through the
agendas and queues of all four threads. What a recursive
operator returns for every input is not provable here, as that needs induction over
data: `Server` and `Client` say what RemoveAll leaves by `Without`, which goes by ranks.

## 6. Not modelled, and why

- The client after a race or a use of freed memory, to which an early hang-up leads: the
  model stops there. The stale FREE event that ends a client early (client.c:167) is in
  the model as a transition, without a property of its own: no document says otherwise.
- A server with several readers is in `Lifecycle`; in `Server` there is one, and
  which one `_ChooseReader` takes changes the balance, not the protocol.
- The pointers of lists (list.c): the lists are sequences. The lists' own
  correctness is about neighbours' pointers, which one thread writes at a time.
- What the statistics count, the layout of messages and of dumps, the parsing of
  options (a choice of options in `Aio4c`).
- The getters and putters of typed values in buffer.c, which move the position
  as `BufferPut` does, and the natives of `com.aio4c.buffer`, which call them.
- `select(2)` and Windows branches; the bookkeeping of debug builds in lock.c and
  condition.c; Alloc, Address, Error: wrappers and formatting.

## 7. What could come next

1. The composition of `Transfer` with `Server`: what a close leaves of the tasks
   already queued when a connection is given up.
2. `List`: the links of list.c, implementing sequences.
3. `OnlyEarlyBreaks` as a theorem.
4. Several pipes in `Server`, with an acceptor that closes what readers close.
