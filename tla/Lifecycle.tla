----------------------------- MODULE Lifecycle -----------------------------
(***************************************************************************)
(* How a server or a client comes up and goes down: the tree of threads    *)
(* each of which creates the next one in its initialization callback and   *)
(* ends it in its exit callback.                                           *)
(*                                                                         *)
(*   server -> acceptor -> every reader -> its worker -> its writer        *)
(*   client -> its reader -> its worker -> its writer                      *)
(*                                                                         *)
(* A component is the structure of src/src/{server,acceptor,client,reader, *)
(* worker,writer}.c together with its thread; has[c] says what it holds: the*)
(* structure, what the structure points to, an open socket.  Anything      *)
(* allocated and checked by the code may fail, at most MaxFailures times.  *)
(* Names are no part of it, but for the one that leaks: a name that cannot *)
(* be allocated is left out by the code.  Connections are not here either: *)
(* they are in Server and Client; the client's thread ends when its        *)
(* connection is over, at a moment of its own.                             *)
(*                                                                         *)
(* A step that uses freed memory makes the behaviour of the process        *)
(* undefined: "broken" says which, and nothing is said of what follows.    *)
(***************************************************************************)
EXTENDS Thread, Sequences

CONSTANTS
    NbPipes,      \* server->nbPipes
    MaxFailures   \* bound: allocations and system calls that fail

Server == <<"server", 0>>
Acceptor == <<"acceptor", 0>>
Client == <<"client", 0>>
Components ==
    {Server, Acceptor, Client} \cup ({"reader", "worker", "writer"} \X (1 .. NbPipes))

ASSUME LifecycleAssumption ==
    /\ NbPipes \in Nat \ {0}
    /\ MaxFailures \in Nat
    /\ Threads = Components

VARIABLES
    root,       \* the component the user creates
    has,        \* what each component holds, its structure included
    link,       \* components their parent points to
    step,       \* next step of a component's initialization callback
    nbReaders,  \* acceptor->nbReaders
    asked,      \* components asked to end: EXIT is in the queue, or ThreadStop
    woken,      \* a byte is in the pipe of the acceptor's selector
    failures,   \* what failed so far
    broken,     \* first use of freed memory
    leaked,     \* what failing constructors left behind, and for whom
    socket      \* the descriptor in acceptor->socket, and who closed it

structures == <<has, link>>
requests == <<asked, woken>>
leftovers == <<leaked, socket>>
lifeVars == <<root, structures, step, nbReaders, requests, failures, broken, leftovers>>
vars == <<threadVars, lifeVars>>

Kind(c) == c[1]

\* What the constructor of a component allocates with its structure.
Prepared ==
    [server   |-> {"struct", "address", "pool", "factory", "queue"},
     acceptor |-> {"struct", "queue", "readers", "selector"},
     client   |-> {"struct", "address", "queue"},
     reader   |-> {"struct"},
     worker   |-> {"struct"},
     writer   |-> {"struct"}]

\* What the initialization callback of a component does, in order.
InitSteps ==
    [server   |-> <<"child">>,
     acceptor |-> Append([i \in 1 .. NbPipes |-> "child"], "socket"),
     client   |-> <<"pool", "child">>,
     reader   |-> <<"selector", "queue", "child">>,
     worker   |-> <<"queue", "pool", "child">>,
     writer   |-> <<"queue">>]

\* The component created by the step t is at.
Child(t) ==
    CASE Kind(t) = "server" -> Acceptor
      [] Kind(t) = "acceptor" -> <<"reader", step[t]>>
      [] Kind(t) = "client" -> <<"reader", 1>>
      [] Kind(t) = "reader" -> <<"worker", t[2]>>
      [] Kind(t) = "worker" -> <<"writer", t[2]>>

Children(t) ==
    CASE Kind(t) = "server" -> {Acceptor}
      [] Kind(t) = "acceptor" -> {"reader"} \X (1 .. NbPipes)
      [] Kind(t) = "client" -> {<<"reader", 1>>}
      [] Kind(t) = "reader" -> {<<"worker", t[2]>>}
      [] Kind(t) = "worker" -> {<<"writer", t[2]>>}
      [] OTHER -> {}

TypeOK ==
    /\ ThreadTypeOK
    /\ root \in {Server, Client}
    /\ has \in [Components -> SUBSET {"struct", "address", "pool", "factory",
                   "queue", "readers", "selector", "socket"}]
    /\ link \in SUBSET Components
    /\ step \in [Components -> Nat \ {0}]
    /\ nbReaders \in 0 .. NbPipes
    /\ asked \in SUBSET Components
    /\ woken \in BOOLEAN
    /\ failures \in 0 .. MaxFailures
    /\ broken \in {"no", "thread", "queue", "address", "name"}
    /\ leaked \in SUBSET (Components \X {"pipe", "lock"})
    /\ socket \in {"none", "open", "stale", "closed", "closed twice"}

Init ==
    /\ ThreadInit
    /\ root \in {Server, Client}
    /\ has = [c \in Components |-> {}]
    /\ link = {}
    /\ step = [c \in Components |-> 1]
    /\ nbReaders = NbPipes
    /\ asked = {}
    /\ woken = FALSE
    /\ failures = 0
    /\ broken = "no"
    /\ leaked = {}
    /\ socket = "none"

Fail ==
    /\ failures < MaxFailures
    /\ failures' = failures + 1

\* What a failing constructor may leave, according to which of its
\* allocations failed.
MayLeak(c, what) == leaked' \in {leaked, leaked \cup {<<c, what>>}}

-----------------------------------------------------------------------------
(* The user: NewServer or NewClient, ServerStart or ClientStart, ...        *)

NewRoot ==
    /\ NewThread(root)
    /\ has' = [has EXCEPT ![root] = Prepared[Kind(root)]]
    /\ UNCHANGED <<root, link, step, nbReaders, requests, failures, broken, leftovers>>

\* It gives back what it allocated and returns NULL; but a NewThread that made
\* only one of its lock and its condition frees neither.
NewRootFails ==
    /\ owner[root] = "none"
    /\ Fail
    /\ MayLeak(root, "lock")
    /\ UNCHANGED <<threadVars, root, structures, step, nbReaders, requests, broken, socket>>

StartRoot ==
    /\ \/ ThreadStart(root) /\ UNCHANGED failures
       \/ ThreadStartFails(root) /\ Fail
    /\ UNCHANGED <<root, structures, step, nbReaders, requests, broken, leftovers>>

RootStarted ==
    /\ ThreadStarted(root)
    /\ UNCHANGED lifeVars

\* EnqueueExitItem, which does nothing on a queue that is gone already.  A
\* server whose initialization failed frees the queue by itself meanwhile.
ServerStop ==
    /\ root = Server
    /\ owner[Server] = "started"
    /\ Server \notin asked
    /\ asked' = asked \cup {Server}
    /\ broken' = IF at[Server] = "exit" /\ "queue" \in has[Server]
                 THEN "queue" ELSE broken
    /\ UNCHANGED <<threadVars, root, structures, step, nbReaders, woken, failures, leftovers>>

\* What follows ThreadJoin in ReaderEnd, AcceptorEnd, ServerJoin and the others.
FreeStructure(c) ==
    /\ has' = [has EXCEPT ![c] = @ \ {"struct", "selector"}]
    /\ link' = link \ {c}

\* At once when ThreadJoin takes the thread for one that is not running.
JoinFinds(c) ==
    /\ ThreadJoin(c)
    /\ IF ThreadRunning(c)
       THEN UNCHANGED <<structures, broken>>
       ELSE /\ FreeStructure(c)
            /\ broken' = IF at[c] = "ended" THEN broken ELSE "thread"
    /\ UNCHANGED <<root, step, nbReaders, requests, failures, leftovers>>

JoinWithoutWaiting(c) ==
    /\ owner[c] = "joining"
    /\ FreeThread(c)
    /\ FreeStructure(c)
    /\ UNCHANGED <<state, running, initialized, at, answer, numThreads,
                   threadHistory, root, step, nbReaders, requests, failures, broken,
                   leftovers>>

JoinReturns(c) ==
    /\ ThreadJoined(c)
    /\ FreeStructure(c)
    /\ UNCHANGED <<root, step, nbReaders, requests, failures, broken, leftovers>>

\* ServerJoin or ClientEnd after a start that failed: the thread, the
\* structure and no more.
FreeRoot ==
    /\ FreeUnstarted(root)
    /\ FreeStructure(root)
    /\ UNCHANGED <<root, step, nbReaders, requests, failures, broken, leftovers>>

User ==
    \/ NewRoot \/ NewRootFails \/ StartRoot \/ RootStarted \/ ServerStop
    \/ JoinFinds(root) \/ JoinReturns(root) \/ FreeRoot

-----------------------------------------------------------------------------
(* The initialization callbacks.                                            *)

Begin(t) ==
    /\ BeginInit(t)
    /\ UNCHANGED lifeVars

AtStep(t, what) ==
    /\ at[t] = "init"
    /\ step[t] <= Len(InitSteps[Kind(t)])
    /\ InitSteps[Kind(t)][step[t]] = what

NextStep(t) == step' = [step EXCEPT ![t] = @ + 1]

\* NewQueue, NewBufferPool, NewSelector, and the acceptor's socket().. listen().
MakeResource(t) ==
    \E r \in {"selector", "queue", "pool", "socket"} :
        /\ AtStep(t, r)
        /\ has' = [has EXCEPT ![t] = @ \cup {r}]
        /\ socket' = IF r = "socket" THEN "open" ELSE socket
        /\ NextStep(t)
        /\ UNCHANGED <<threadVars, root, link, nbReaders, requests, failures, broken, leaked>>

\* The callback returns false.  The client does not test its buffer pool.  What
\* goes wrong with the acceptor's socket closes it and sets it to -1, but for
\* listen(), after which acceptor->socket still names the closed descriptor.
ResourceFails(t) ==
    /\ \E r \in {"selector", "queue", "pool", "socket"} : AtStep(t, r)
    /\ Kind(t) # "client"
    /\ Fail
    /\ EndInit(t, FALSE)
    /\ \/ UNCHANGED socket
       \/ AtStep(t, "socket") /\ socket' = "stale"
    /\ UNCHANGED <<root, structures, step, nbReaders, requests, broken, leaked>>

\* NewAcceptor, NewReader, NewWorker, NewWriter: up to NewThread ...
NewChild(t) ==
    /\ AtStep(t, "child")
    /\ NewThread(Child(t))
    /\ has' = [has EXCEPT ![Child(t)] = Prepared[Kind(Child(t))]]
    /\ UNCHANGED <<root, link, step, nbReaders, requests, failures, broken, leftovers>>

\* ... to ThreadStart ...
StartChild(t) ==
    /\ AtStep(t, "child")
    /\ \/ ThreadStart(Child(t)) /\ UNCHANGED failures
       \/ ThreadStartFails(Child(t)) /\ Fail
    /\ UNCHANGED <<root, structures, step, nbReaders, requests, broken, leftovers>>

\* ... and to its return, whatever became of the initialization.
ChildStarted(t) ==
    /\ AtStep(t, "child")
    /\ ThreadStarted(Child(t))
    /\ link' = link \cup {Child(t)}
    /\ NextStep(t)
    /\ UNCHANGED <<root, has, nbReaders, requests, failures, broken, leftovers>>

WithoutLastChild(t) ==
    IF Kind(t) = "acceptor"
    THEN /\ nbReaders' = step[t] - 2
         /\ step' = [step EXCEPT ![t] = NbPipes + 1]
         /\ UNCHANGED threadVars
    ELSE /\ EndInit(t, FALSE)
         /\ UNCHANGED <<step, nbReaders>>

\* The constructor returns NULL: the acceptor does with the readers it has,
\* the others fail in their turn.
WithoutChild(t) ==
    IF Kind(t) = "acceptor"
    THEN /\ nbReaders' = step[t] - 1
         /\ step' = [step EXCEPT ![t] = NbPipes + 1]
         /\ UNCHANGED threadVars
    ELSE /\ EndInit(t, FALSE)
         /\ UNCHANGED <<step, nbReaders>>

\* The child's structure cannot be allocated.  NewReader was to own the name of
\* the pipe it was given: without a Reader nobody does.
NoStructure(t) ==
    /\ AtStep(t, "child")
    /\ owner[Child(t)] = "none"
    /\ Fail
    /\ IF Kind(Child(t)) = "reader" THEN MayLeak(Child(t), "pipe") ELSE UNCHANGED leaked
    /\ WithoutChild(t)
    /\ UNCHANGED <<root, structures, requests, broken, socket>>

\* NewAcceptor cannot allocate the array of readers: it frees the address,
\* which the server still points to and frees again.
NoReaders(t) ==
    /\ AtStep(t, "child")
    /\ Child(t) = Acceptor
    /\ owner[Acceptor] = "none"
    /\ Fail
    /\ has' = [has EXCEPT ![Acceptor] = {"queue"}, ![Server] = @ \ {"address"}]
    /\ WithoutChild(t)
    /\ UNCHANGED <<root, link, requests, broken, leftovers>>

\* NewThread returns NULL, at the limit or out of memory, or ThreadStart
\* returns false: the constructor frees what it allocated, and NewAcceptor
\* its name, which is the constant string the server's thread was given.
NoThread(t) ==
    /\ AtStep(t, "child")
    /\ \/ owner[Child(t)] = "none" /\ ~SlotLeft /\ UNCHANGED <<failures, leaked>>
       \/ owner[Child(t)] = "none" /\ Fail /\ MayLeak(Child(t), "lock")
       \/ owner[Child(t)] = "failed" /\ UNCHANGED <<failures, leaked>>
    /\ has' = [has EXCEPT ![Child(t)] = @ \ {"struct", "selector"}]
    /\ WithoutChild(t)
    /\ broken' = IF Child(t) = Acceptor THEN "name" ELSE broken
    /\ UNCHANGED <<root, link, requests, socket>>

Initialized(t) ==
    /\ step[t] > Len(InitSteps[Kind(t)])
    /\ EndInit(t, TRUE)
    /\ UNCHANGED lifeVars

Initialize(t) ==
    \/ Begin(t) \/ MakeResource(t) \/ ResourceFails(t)
    \/ NewChild(t) \/ StartChild(t) \/ ChildStarted(t)
    \/ NoStructure(t) \/ NoReaders(t) \/ NoThread(t)
    \/ Initialized(t)

-----------------------------------------------------------------------------
(* The routines, as far as ending goes.  That of a thread nobody calls      *)
(* ThreadStop for comes back to where it was each time it returns true.     *)

\* EXIT is dequeued; a client's connection is over.
RoutineEnds(t) ==
    /\ Kind(t) # "acceptor"
    /\ Kind(t) # "client" => t \in asked
    /\ RoutineReturns(t, FALSE)
    /\ UNCHANGED lifeVars

\* Select comes back from poll for a wake-up or for a connection.
AcceptorReturns ==
    /\ RoutineReturns(Acceptor, TRUE)
    /\ woken' = FALSE
    /\ UNCHANGED <<root, structures, step, nbReaders, asked, failures, broken, leftovers>>

Loop(t) ==
    /\ LoopStep(t)
    /\ UNCHANGED lifeVars

-----------------------------------------------------------------------------
(* The exit callbacks.                                                      *)

\* The child an exit callback ends first.
Linked(t) ==
    {c \in Children(t) \cap link : Kind(t) = "acceptor" => c[2] <= nbReaders}

NextLinked(t) == {c \in Linked(t) : \A d \in Linked(t) : c[2] <= d[2]}

AskWithoutWakingUp(t) ==
    /\ at[t] = "exit"
    /\ \E c \in NextLinked(t) \ asked :
       /\ asked' = asked \cup {c}
       /\ IF c = Acceptor THEN ThreadStop(c) ELSE UNCHANGED threadVars
    /\ UNCHANGED <<root, structures, step, nbReaders, woken, failures, broken, leftovers>>

\* AcceptorEnd stops the thread and wakes it; ReaderEnd, WorkerEnd and
\* WriterEnd put EXIT in the queue, if it is there.  A child whose
\* initialization failed may be freeing that queue.
AskChild(t) ==
    /\ at[t] = "exit"
    /\ \E c \in NextLinked(t) \ asked :
       /\ asked' = asked \cup {c}
       /\ IF c = Acceptor
          THEN ThreadStop(c) /\ woken' = TRUE /\ UNCHANGED broken
          ELSE /\ broken' = IF at[c] = "exit" /\ "queue" \in has[c]
                            THEN "queue" ELSE broken
               /\ UNCHANGED <<threadVars, woken>>
    /\ UNCHANGED <<root, structures, step, nbReaders, failures, leftovers>>

\* ThreadJoin, then the selector, the name and the structure.
EndChild(t) ==
    /\ at[t] = "exit"
    /\ \E c \in NextLinked(t) \cap asked : JoinFinds(c) \/ JoinReturns(c)

\* _AcceptorExit closes whatever descriptor acceptor->socket names.
CloseSocket(t) ==
    socket' = CASE t = Acceptor /\ socket = "open"  -> "closed"
                [] t = Acceptor /\ socket = "stale" -> "closed twice"
                [] OTHER -> socket

EndExitBeforeChildren(t) ==
    /\ EndCleanup(t)
    /\ has' = [has EXCEPT ![t] = @ \cap {"struct", "selector"}]
    /\ CloseSocket(t)
    /\ UNCHANGED <<root, link, step, nbReaders, requests, failures, broken, leaked>>

EndExitKeepingPool(t) ==
    /\ Linked(t) = {}
    /\ EndCleanup(t)
    /\ has' = [has EXCEPT ![t] = @ \cap {"struct", "selector", "pool"}]
    /\ CloseSocket(t)
    /\ UNCHANGED <<root, link, step, nbReaders, requests, failures, broken, leaked>>

\* The queue, the pool, the socket and the rest; what the owner frees stays.
EndExit(t) ==
    /\ Linked(t) = {}
    /\ EndCleanup(t)
    /\ has' = [has EXCEPT ![t] = @ \cap {"struct", "selector"}]
    /\ broken' = IF t = Server /\ "address" \notin has[t] THEN "address" ELSE broken
    /\ CloseSocket(t)
    /\ UNCHANGED <<root, link, step, nbReaders, requests, failures, leaked>>

Exit(t) == AskChild(t) \/ EndChild(t) \/ EndExit(t)

-----------------------------------------------------------------------------
Own(t) == Initialize(t) \/ RoutineEnds(t) \/ Loop(t) \/ Exit(t)

Next ==
    /\ broken = "no"
    /\ \/ User
       \/ \E t \in Components : Own(t)
       \/ AcceptorReturns

Spec == Init /\ [][Next]_vars

\* Threads are scheduled, poll returns when there is a byte to read, and a
\* user who stopped the server waits for it.  Nothing makes a connection come,
\* a client's connection end, or a user stop a server.
FairSpec ==
    /\ Spec
    /\ \A t \in Components :
          WF_vars(broken = "no" /\ (Own(t) /\ (t = Client => at[t] # "run")))
    /\ WF_vars(broken = "no" /\ woken /\ AcceptorReturns)
    /\ WF_vars(broken = "no" /\ (RootStarted \/ JoinReturns(root)))
    /\ WF_vars(broken = "no" /\ (Server \in asked \/ root = Client) /\ JoinFinds(root))

-----------------------------------------------------------------------------
(* Properties.                                                              *)

\* Once the user has joined the server or the client, nothing it was made of
\* is left in memory or open, whatever failed on the way, but for leaks: what
\* "leaked" names, the Thread of a constructor whose ThreadStart failed, which
\* nobody frees, and the rest of a server or client whose own ThreadStart
\* failed.
NothingLeft ==
    owner[root] = "done" /\ broken = "no" =>
        /\ \A c \in Components \ {root} : has[c] = {}
        /\ has[root] # {} => at[root] = "absent"
        /\ \A c \in Components : memory[c] = "there" => owner[c] = "failed"
        /\ socket \notin {"open", "stale"}

\* Memory is used after it was freed only where something failed first: an
\* initialization callback that returned false, or a creation.
BrokenByFailure ==
    broken # "no" => \/ failures > 0
                     \/ ~SlotLeft

\* Every name or lock that leaks takes a failure of its own, and so does the
\* second close of the listening socket, in a server that never listened.
LeaksAreFailures ==
    /\ Cardinality(leaked) + (IF socket \in {"stale", "closed twice"} THEN 1 ELSE 0)
           <= failures
    /\ socket \in {"stale", "closed twice"} => Acceptor \notin initOk

\* Nothing is left behind, given back twice or used too late, as far as the
\* code sees to it (the exit callbacks, ReaderEnd and the other End functions).
MemoryKept == NothingLeft /\ BrokenByFailure /\ LeaksAreFailures

\* A component's thread is over only after those of its children: _ServerExit,
\* _AcceptorExit, _ReaderExit and _WorkerExit end them first.
ChildrenEndFirst ==
    broken = "no" =>
        \A t \in Components : at[t] = "ended" =>
            \A c \in Children(t) : at[c] \in {"absent", "ended"}

\* The table of threads is never written past its end (NewThread, _addThread).
TableFits == numThreads <= MaxThreads

\* A constructor that returns a component says it works: thread.h:54, the
\* callback "must return false to indicate that the initialization failed",
\* and thread.h:270, ThreadStart returns "true if the Thread has been started
\* with success".
LinkedMeansInitialized == \A c \in link : c \in initOk

\* A server asked to stop, or a client whose thread ends, comes down and is
\* joined, but when the acceptor overwrote ThreadStop's write to running.
ShutdownEnds ==
    Server \in asked \/ at[Client] = "exit" ~>
        owner[root] = "done" \/ broken # "no" \/ overwritten # {}
=============================================================================
