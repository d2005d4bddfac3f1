--------------------------- MODULE LifecycleProofs --------------------------
(***************************************************************************)
(* Proofs about Thread, for any set of threads and any size of the table,  *)
(* and about Lifecycle, for any number of pipes, any size of the table and *)
(* any number of failures: it drives its threads the way Thread says, so   *)
(* that what is shown of them holds of the server and of the client; and   *)
(* the tree they form comes down from the leaves and gives its memory back.*)
(***************************************************************************)
EXTENDS Lifecycle, FiniteSetTheorems, TLAPS

USE ThreadAssumption, LifecycleAssumption

-----------------------------------------------------------------------------
(* Any thread and its owner (Thread).                                       *)

Over == {"exit", "ended"}
Looping == {"run", "back", "write"}
Begun == Looping \cup Over

\* What the owner may have done, as to the memory and to the thread itself.
OwnerFits(t) ==
    /\ owner[t] = "none" <=> memory[t] = "none"
    /\ owner[t] = "done" <=> memory[t] = "freed"
    /\ at[t] = "absent" => owner[t] \in {"none", "made", "failed", "done"}
    /\ at[t] # "absent" => owner[t] \in {"starting", "started", "joining", "done"}

\* initialized is the owner's view of the end of the initialization; state is
\* written by a thread that initialized well, by its end and by its owner.
StateFits(t) ==
    /\ initialized[t] <=> at[t] \in Begun
    /\ owner[t] \in {"started", "joining"} => initialized[t]
    /\ owner[t] = "done" => initialized[t] \/ at[t] = "absent"
    /\ t \in initOk => at[t] \in Begun
    /\ at[t] \in Looping => t \in initOk
    /\ t \in initOk /\ at[t] # "ended" => state[t] = "RUNNING"
    /\ at[t] = "ended" => state[t] \in {"EXITED", "JOINED"}
    /\ state[t] = "JOINED" => owner[t] = "done"

ThreadFits(t) ==
    /\ OwnerFits(t)
    /\ StateFits(t)
    /\ t \in initOk /\ memory[t] = "freed" => at[t] = "ended"

ThreadInv == ThreadTypeOK /\ \A t \in Threads : ThreadFits(t)

-----------------------------------------------------------------------------
(* A step is one thread's: it leaves all that is said of the others alone. *)
Apart(t) ==
    \A u \in Threads \ {t} :
        /\ memory'[u] = memory[u]
        /\ state'[u] = state[u]
        /\ initialized'[u] = initialized[u]
        /\ at'[u] = at[u]
        /\ owner'[u] = owner[u]
        /\ u \in initOk' <=> u \in initOk

LEMMA Apartness ==
    ASSUME ThreadInv, NEW t \in Threads, Apart(t), ThreadTypeOK', ThreadFits(t)'
    PROVE  ThreadInv'
<1>1. ASSUME NEW u \in Threads, u # t
      PROVE  ThreadFits(u)'
  <2>1. ThreadFits(u)
    BY DEF ThreadInv
  <2>2. /\ memory'[u] = memory[u]
        /\ state'[u] = state[u]
        /\ initialized'[u] = initialized[u]
        /\ at'[u] = at[u]
        /\ owner'[u] = owner[u]
        /\ u \in initOk' <=> u \in initOk
    BY <1>1 DEF Apart
  <2> QED
    BY <2>1, <2>2 DEF ThreadFits, OwnerFits, StateFits
<1> QED
  BY <1>1 DEF ThreadInv

-----------------------------------------------------------------------------
(* The library starts with no thread but the main one.                     *)
LEMMA ThreadInvInit ==
    ASSUME ThreadInit
    PROVE  ThreadInv
<1>1. ThreadTypeOK
  BY DEF ThreadInit, ThreadTypeOK, Places
<1>2. ASSUME NEW t \in Threads
      PROVE  ThreadFits(t)
  BY DEF ThreadInit, ThreadFits, OwnerFits, StateFits, Begun, Looping, Over
<1> QED
  BY <1>1, <1>2 DEF ThreadInv

(* NewThread, ThreadStart, ThreadStop and ThreadJoin keep the invariant.   *)
LEMMA OwnerStepKeeps ==
    ASSUME ThreadInv, NEW t \in Threads, OwnerStep(t)
    PROVE  ThreadInv'
<1> USE DEF ThreadFits, OwnerFits, StateFits, Begun, Looping, Over
<1>0. ThreadTypeOK /\ ThreadFits(t)
  BY DEF ThreadInv
<1>1. CASE NewThread(t)
  <2>1. ThreadTypeOK' /\ Apart(t) /\ ThreadFits(t)'
    BY <1>0, <1>1 DEF NewThread, ThreadTypeOK, Apart, threadHistory
  <2> QED
    BY <2>1, Apartness
<1>2. CASE ThreadStart(t)
  <2>1. ThreadTypeOK' /\ Apart(t) /\ ThreadFits(t)'
    BY <1>0, <1>2 DEF ThreadStart, ThreadTypeOK, Apart, threadHistory, Places
  <2> QED
    BY <2>1, Apartness
<1>3. CASE ThreadStartFails(t)
  <2>1. ThreadTypeOK' /\ Apart(t) /\ ThreadFits(t)'
    BY <1>0, <1>3 DEF ThreadStartFails, ThreadTypeOK, Apart, thread, threadHistory
  <2> QED
    BY <2>1, Apartness
<1>4. CASE ThreadStarted(t)
  <2>1. ThreadTypeOK' /\ Apart(t) /\ ThreadFits(t)'
    BY <1>0, <1>4 DEF ThreadStarted, ThreadTypeOK, Apart, thread, threadHistory
  <2> QED
    BY <2>1, Apartness
<1>5. CASE ThreadStop(t)
  <2>1. ThreadTypeOK' /\ Apart(t) /\ ThreadFits(t)'
    BY <1>0, <1>5 DEF ThreadStop, ThreadTypeOK, Apart
  <2> QED
    BY <2>1, Apartness
<1>6. CASE ThreadJoin(t)
  \* Freed at once only where state says the loop was never entered.
  <2>1. CASE ThreadRunning(t)
    <3>1. ThreadTypeOK' /\ Apart(t) /\ ThreadFits(t)'
      BY <1>0, <1>6, <2>1 DEF ThreadJoin, ThreadTypeOK, Apart, threadHistory
    <3> QED
      BY <3>1, Apartness
  <2>2. CASE ~ThreadRunning(t)
    <3>1. t \notin initOk
      BY <1>0, <1>6, <2>2 DEF ThreadJoin, ThreadRunning
    <3>2. ThreadTypeOK' /\ Apart(t) /\ ThreadFits(t)'
      BY <1>0, <1>6, <2>2, <3>1 DEF ThreadJoin, FreeThread, ThreadTypeOK, Apart, threadHistory
    <3> QED
      BY <3>2, Apartness
  <2> QED
    BY <2>1, <2>2
<1>7. CASE ThreadJoined(t)
  <2>1. ThreadTypeOK' /\ Apart(t) /\ ThreadFits(t)'
    BY <1>0, <1>7 DEF ThreadJoined, FreeThread, ThreadTypeOK, Apart, threadHistory
  <2> QED
    BY <2>1, Apartness
<1>8. CASE FreeUnstarted(t)
  <2>1. ThreadTypeOK' /\ Apart(t) /\ ThreadFits(t)'
    BY <1>0, <1>8 DEF FreeUnstarted, FreeThread, ThreadTypeOK, Apart, threadHistory
  <2> QED
    BY <2>1, Apartness
<1> QED
  BY <1>1, <1>2, <1>3, <1>4, <1>5, <1>6, <1>7, <1>8 DEF OwnerStep

(* So does each step of _runThread.                                        *)
LEMMA RunStepKeeps ==
    ASSUME ThreadInv, NEW t \in Threads, RunStep(t)
    PROVE  ThreadInv'
<1> USE DEF ThreadFits, OwnerFits, StateFits, Begun, Looping, Over, MoveTo
<1>0. ThreadTypeOK /\ ThreadFits(t)
  BY DEF ThreadInv
<1>1. CASE BeginInit(t)
  <2>1. ThreadTypeOK' /\ Apart(t) /\ ThreadFits(t)'
    BY <1>0, <1>1 DEF BeginInit, ThreadTypeOK, Apart, threadHistory, Places
  <2> QED
    BY <2>1, Apartness
<1>2. ASSUME NEW run \in BOOLEAN, EndInit(t, run)
      PROVE  ThreadInv'
  <2>1. ThreadTypeOK' /\ Apart(t)
    BY <1>0, <1>2 DEF EndInit, ThreadTypeOK, Apart, Places
  <2>2. ThreadFits(t)'
    BY <1>0, <1>2 DEF EndInit, ThreadTypeOK
  <2> QED
    BY <2>1, <2>2, Apartness
<1>3. ASSUME NEW run \in BOOLEAN, RoutineReturns(t, run)
      PROVE  ThreadInv'
  <2>1. ThreadTypeOK' /\ Apart(t) /\ ThreadFits(t)'
    BY <1>0, <1>3 DEF RoutineReturns, ThreadTypeOK, Apart, threadHistory, Places
  <2> QED
    BY <2>1, Apartness
<1>4. CASE TestRunning(t)
  <2>1. ThreadTypeOK' /\ Apart(t) /\ ThreadFits(t)'
    BY <1>0, <1>4 DEF TestRunning, ThreadTypeOK, Apart, threadHistory, Places
  <2> QED
    BY <2>1, Apartness
<1>5. CASE WriteRunning(t)
  <2>1. ThreadTypeOK' /\ Apart(t) /\ ThreadFits(t)'
    BY <1>0, <1>5 DEF WriteRunning, ThreadTypeOK, Apart, Places
  <2> QED
    BY <2>1, Apartness
<1>6. CASE EndCleanup(t)
  <2>1. ThreadTypeOK' /\ Apart(t) /\ ThreadFits(t)'
    BY <1>0, <1>6 DEF EndCleanup, ThreadTypeOK, Apart, threadHistory, Places
  <2> QED
    BY <2>1, Apartness
<1> QED
  BY <1>1, <1>2, <1>3, <1>4, <1>5, <1>6 DEF RunStep, LoopStep

LEMMA ThreadInvNext ==
    ASSUME ThreadInv, [ThreadNext]_threadVars
    PROVE  ThreadInv'
<1>1. CASE ThreadNext
  BY <1>1, OwnerStepKeeps, RunStepKeeps DEF ThreadNext
<1>2. CASE UNCHANGED threadVars
  BY <1>2 DEF threadVars, thread, threadHistory, ThreadInv, ThreadTypeOK, ThreadFits,
              OwnerFits, StateFits
<1> QED
  BY <1>1, <1>2

LEMMA ThreadInvAlways == ThreadSpec => []ThreadInv
<1> QED
  BY ThreadInvInit, ThreadInvNext, PTL DEF ThreadSpec

-----------------------------------------------------------------------------
(* ThreadStart comes back after the initialization callback, and           *)
(* ThreadJoin frees no thread that initialized well before its end, in     *)
(* spite of ThreadStop's write to running without the lock.                *)
THEOREM ThreadCorrect ==
    ThreadSpec => [](ThreadTypeOK /\ StartWaitsForInit /\ JoinFreesEnded)
<1>1. ThreadInv => StartWaitsForInit
  <2> SUFFICES ASSUME ThreadInv, NEW t \in Threads,
                      owner[t] \in {"started", "joining"}
               PROVE  at[t] \notin {"absent", "created", "init"}
    BY DEF StartWaitsForInit
  <2> QED
    BY DEF ThreadInv, ThreadFits, OwnerFits, StateFits, Begun, Looping, Over
<1>2. ThreadInv => JoinFreesEnded /\ ThreadTypeOK
  BY DEF ThreadInv, ThreadFits, ThreadTypeOK, JoinFreesEnded
<1> QED
  BY <1>1, <1>2, ThreadInvAlways, PTL

-----------------------------------------------------------------------------
(* The threads of the library (Lifecycle).                                  *)

\* What tells that a component whose thread is created is one of Components.
StepInv ==
    /\ root \in {Server, Client}
    /\ step \in [Components -> Nat \ {0}]

\* Every component is a pair.
LEMMA ComponentKinds ==
    ASSUME NEW t \in Components
    PROVE  \/ t \in {Server, Acceptor, Client}
           \/ /\ Kind(t) \in {"reader", "worker", "writer"}
              /\ t[2] \in 1 .. NbPipes
BY DEF Components, Kind

LEMMA RootIsComponent ==
    ASSUME StepInv
    PROVE  root \in Components
BY DEF StepInv, Components

\* The steps of InitSteps that create a component (_AcceptorInit creates as
\* many readers as there are pipes, the others one component each).
LEMMA ChildIsComponent ==
    ASSUME StepInv, NEW t \in Components, AtStep(t, "child")
    PROVE  Child(t) \in Components
<1>0. step[t] \in Nat \ {0}
  BY DEF StepInv
<1>1. CASE t = Server
  BY <1>1 DEF Child, Kind, Server, Components
<1>2. CASE t = Client
  <2>1. <<"reader", 1>> \in Components
    BY DEF Components
  <2> QED
    BY <1>2, <2>1 DEF Child, Kind, Client
<1>3. CASE t = Acceptor
  <2>1. InitSteps[Kind(t)] = Append([i \in 1 .. NbPipes |-> "child"], "socket")
    BY <1>3 DEF InitSteps, Kind, Acceptor
  <2>2. /\ Len(InitSteps[Kind(t)]) = NbPipes + 1
        /\ InitSteps[Kind(t)][NbPipes + 1] = "socket"
    BY <2>1
  <2>3. step[t] \in 1 .. NbPipes
    BY <1>0, <2>2 DEF AtStep
  <2>4. Child(t) = <<"reader", step[t]>>
    BY <1>3 DEF Child, Kind, Acceptor
  <2> QED
    BY <2>3, <2>4 DEF Components
<1>4. CASE Kind(t) = "reader"
  <2>1. t[2] \in 1 .. NbPipes
    BY <1>4, ComponentKinds DEF Kind, Server, Client, Acceptor
  <2> QED
    BY <1>4, <2>1 DEF Child, Components
<1>5. CASE Kind(t) = "worker"
  <2>1. t[2] \in 1 .. NbPipes
    BY <1>5, ComponentKinds DEF Kind, Server, Client, Acceptor
  <2> QED
    BY <1>5, <2>1 DEF Child, Components
<1>6. CASE Kind(t) = "writer"
  <2>1. InitSteps[Kind(t)] = <<"queue">>
    BY <1>6 DEF InitSteps
  <2> QED
    BY <1>0, <2>1 DEF AtStep
<1> QED
  BY <1>1, <1>2, <1>3, <1>4, <1>5, <1>6, ComponentKinds

LEMMA ChildrenAreComponents ==
    ASSUME NEW t \in Components
    PROVE  Children(t) \subseteq Components
<1>1. CASE t \in {Server, Acceptor, Client}
  <2>1. <<"reader", 1>> \in Components
    BY DEF Components
  <2> QED
    BY <1>1, <2>1 DEF Children, Kind, Server, Acceptor, Client, Components
<1>2. CASE Kind(t) \in {"reader", "worker", "writer"} /\ t[2] \in 1 .. NbPipes
  BY <1>2 DEF Children, Components
<1> QED
  BY <1>1, <1>2, ComponentKinds

-----------------------------------------------------------------------------
(* Every step, of the user or of a thread, moves one thread as Thread has  *)
(* it or none.                                                             *)
LEMMA InitializeDrives ==
    ASSUME StepInv, NEW t \in Components, Initialize(t)
    PROVE  [ThreadNext]_threadVars
<1> USE DEF ThreadNext, OwnerStep, RunStep
<1>1. CASE Begin(t)
  BY <1>1 DEF Begin
<1>2. CASE MakeResource(t)
  BY <1>2 DEF MakeResource
<1>3. CASE ResourceFails(t)
  BY <1>3 DEF ResourceFails
<1>4. CASE NewChild(t)
  BY <1>4, ChildIsComponent DEF NewChild
<1>5. CASE StartChild(t)
  BY <1>5, ChildIsComponent DEF StartChild
<1>6. CASE ChildStarted(t)
  BY <1>6, ChildIsComponent DEF ChildStarted
<1>7. CASE WithoutChild(t)
  BY <1>7 DEF WithoutChild
<1>8. CASE Initialized(t)
  BY <1>8 DEF Initialized
<1> QED
  BY <1>1, <1>2, <1>3, <1>4, <1>5, <1>6, <1>7, <1>8
  DEF Initialize, NoStructure, NoReaders, NoThread

LEMMA ExitDrives ==
    ASSUME NEW t \in Components, Exit(t)
    PROVE  [ThreadNext]_threadVars
<1> USE DEF ThreadNext, OwnerStep, RunStep
<1>0. NextLinked(t) \subseteq Components
  BY ChildrenAreComponents DEF NextLinked, Linked
<1>1. CASE AskChild(t)
  <2>1. Acceptor \in Components
    BY DEF Components
  <2> QED
    BY <1>1, <2>1 DEF AskChild
<1>2. CASE EndChild(t)
  BY <1>0, <1>2 DEF EndChild, JoinFinds, JoinReturns
<1>3. CASE EndExit(t)
  BY <1>3 DEF EndExit
<1> QED
  BY <1>1, <1>2, <1>3 DEF Exit

LEMMA UserDrives ==
    ASSUME StepInv, User
    PROVE  [ThreadNext]_threadVars
<1> USE DEF ThreadNext, OwnerStep
<1>1. root \in Threads
  BY RootIsComponent
<1>2. CASE ServerStop
  BY <1>2 DEF ServerStop
<1>3. CASE RootStarted
  BY <1>1, <1>3 DEF RootStarted
<1>4. CASE StartRoot
  BY <1>1, <1>4 DEF StartRoot
<1>5. CASE NewRoot
  BY <1>1, <1>5 DEF NewRoot
<1>6. CASE JoinFinds(root) \/ JoinReturns(root) \/ FreeRoot
  BY <1>1, <1>6 DEF JoinFinds, JoinReturns, FreeRoot
<1>7. CASE NewRootFails
  BY <1>7 DEF NewRootFails
<1> QED
  BY <1>2, <1>3, <1>4, <1>5, <1>6, <1>7 DEF User

LEMMA StepDrives ==
    ASSUME StepInv, [Next]_vars
    PROVE  [ThreadNext]_threadVars
<1>1. CASE User
  BY <1>1, UserDrives
<1>2. ASSUME NEW t \in Components, Initialize(t)
      PROVE  [ThreadNext]_threadVars
  BY <1>2, InitializeDrives
<1>3. ASSUME NEW t \in Components, RoutineEnds(t) \/ Loop(t)
      PROVE  [ThreadNext]_threadVars
  BY <1>3 DEF RoutineEnds, Loop, ThreadNext, RunStep
<1>4. ASSUME NEW t \in Components, Exit(t)
      PROVE  [ThreadNext]_threadVars
  BY <1>4, ExitDrives
<1>5. CASE AcceptorReturns
  <2>1. Acceptor \in Threads
    BY DEF Components
  <2> QED
    BY <1>5, <2>1 DEF AcceptorReturns, ThreadNext, RunStep
<1>6. CASE UNCHANGED vars
  BY <1>6 DEF vars
<1> QED
  BY <1>1, <1>2, <1>3, <1>4, <1>5, <1>6 DEF Next, Own

(* The initialization callbacks only go forward.                           *)
LEMMA StepInvNext ==
    ASSUME StepInv, [Next]_vars
    PROVE  StepInv'
<1> USE DEF StepInv
<1>1. ASSUME NEW t \in Components,
             MakeResource(t) \/ ChildStarted(t)
      PROVE  StepInv'
  BY <1>1 DEF MakeResource, ChildStarted, NextStep
<1>2. ASSUME NEW t \in Components, WithoutChild(t), root' = root
      PROVE  StepInv'
  <2>1. step' = step \/ step' = [step EXCEPT ![t] = NbPipes + 1]
    BY <1>2 DEF WithoutChild
  <2>2. NbPipes + 1 \in Nat \ {0}
    OBVIOUS
  <2> QED
    BY <1>2, <2>1, <2>2
<1>3. ASSUME NEW t \in Components,
             Begin(t) \/ ResourceFails(t) \/ NewChild(t) \/ StartChild(t) \/ Initialized(t)
      PROVE  StepInv'
  BY <1>3 DEF Begin, ResourceFails, NewChild, StartChild, Initialized, lifeVars
<1>4. ASSUME NEW t \in Components, RoutineEnds(t) \/ Loop(t) \/ Exit(t)
      PROVE  StepInv'
  BY <1>4 DEF RoutineEnds, Loop, Exit, AskChild, EndChild, EndExit, JoinFinds, JoinReturns, lifeVars
<1>5. CASE User \/ AcceptorReturns \/ UNCHANGED vars
  BY <1>5 DEF User, NewRoot, NewRootFails, StartRoot, RootStarted, ServerStop, JoinFinds, JoinReturns,
              FreeRoot, AcceptorReturns, vars, lifeVars
<1> QED
  BY <1>1, <1>2, <1>3, <1>4, <1>5
  DEF Next, Own, Initialize, NoStructure, NoReaders, NoThread

LEMMA StepInvInit ==
    ASSUME Init
    PROVE  StepInv /\ ThreadInit
BY DEF Init, StepInv

-----------------------------------------------------------------------------
(* The constructors, End functions and callbacks of server.c, acceptor.c,  *)
(* client.c, reader.c, worker.c and writer.c use thread.c by its protocol. *)
THEOREM LifecycleImplementsThread == Spec => ThreadSpec
<1>1. Init => StepInv /\ ThreadInit
  BY StepInvInit
<1>2. StepInv /\ [Next]_vars => StepInv' /\ [ThreadNext]_threadVars
  BY StepInvNext, StepDrives
<1> QED
  BY <1>1, <1>2, PTL DEF Spec, ThreadSpec

(* Hence ReaderEnd and the others free no Thread that still runs.          *)
THEOREM LifecycleJoins == Spec => []JoinFreesEnded
<1> QED
  BY LifecycleImplementsThread, ThreadCorrect, PTL

-----------------------------------------------------------------------------
(* The table of threads.  NewThread tests its limit and ThreadStart takes  *)
(* the slot: two components created at once could both pass the test.      *)
(* They never are, as whoever creates a component waits until that one is  *)
(* initialized: among the components being created, at most one is not     *)
(* itself waiting for the creation of another.                             *)

Begins(c) == owner[c] = "made" \/ at[c] \in {"created", "init"}
Waits(c) == AtStep(c, "child") /\ Begins(Child(c))

OneRoot ==
    /\ owner[Server] # "none" => root = Server
    /\ owner[Client] # "none" => root = Client
    /\ owner[Acceptor] # "none" => root = Server
    /\ owner[root] = "none" => \A c \in Components : owner[c] = "none"

OneFrontier ==
    \A c, d \in Components :
        Begins(c) /\ Begins(d) /\ c # d => Waits(c) \/ Waits(d)

SlotKept ==
    /\ numThreads \in Nat
    /\ numThreads <= MaxThreads
    /\ \A c \in Components : owner[c] = "made" => numThreads < MaxThreads

CreationInv == ThreadInv /\ StepInv /\ OneRoot /\ OneFrontier /\ SlotKept

\* A component that waits has a thread, and that thread is in its callback.
LEMMA Waiting ==
    ASSUME ThreadInv, NEW c \in Components
    PROVE  /\ AtStep(c, "child") => Begins(c) /\ owner[c] = "starting"
           /\ Begins(c) => owner[c] \in {"made", "starting"}
           /\ Begins(c) /\ owner[c] = "made" => ~Waits(c)
           /\ Begins(c) => ~initialized[c]
<1>1. ThreadFits(c) /\ ThreadTypeOK
  BY DEF ThreadInv
<1> QED
  BY <1>1 DEF ThreadFits, OwnerFits, StateFits, ThreadTypeOK, Begins, Waits, AtStep,
              Begun, Looping, Over

\* The tree of threads.
LEMMA WhoCreates ==
    ASSUME StepInv, NEW u \in Components, AtStep(u, "child")
    PROVE  \/ u = Server /\ Child(u) = <<"acceptor", 0>>
           \/ u = Acceptor /\ Child(u) = <<"reader", step[u]>>
           \/ u = Client /\ Child(u) = <<"reader", 1>>
           \/ u = <<"reader", u[2]>> /\ Child(u) = <<"worker", u[2]>>
           \/ u = <<"worker", u[2]>> /\ Child(u) = <<"writer", u[2]>>
<1>1. CASE u \in {Server, Acceptor, Client}
  BY <1>1 DEF Child, Kind, Server, Acceptor, Client
<1>2. CASE Kind(u) = "reader" \/ Kind(u) = "worker"
  <2>1. u = <<u[1], u[2]>>
    BY <1>2 DEF Components, Server, Acceptor, Client, Kind
  <2> QED
    BY <1>2, <2>1 DEF Child, Kind
<1>3. CASE Kind(u) = "writer"
  <2>1. InitSteps[Kind(u)] = <<"queue">>
    BY <1>3 DEF InitSteps
  <2>2. step[u] \in Nat \ {0}
    BY DEF StepInv
  <2> QED
    BY <2>1, <2>2 DEF AtStep
<1> QED
  BY <1>1, <1>2, <1>3, ComponentKinds

\* No two components create the same one.
LEMMA OneParent ==
    ASSUME ThreadInv, StepInv, OneRoot, NEW p \in Components, NEW t \in Components,
           AtStep(p, "child"), AtStep(t, "child"), Child(p) = Child(t)
    PROVE  p = t
<1>0. /\ step[p] \in Nat \ {0} /\ step[t] \in Nat \ {0}
      /\ owner[p] = "starting" /\ owner[t] = "starting"
  BY Waiting DEF StepInv
<1>1. ~({p, t} = {Acceptor, Client})
  BY <1>0 DEF OneRoot, Server, Client
<1> QED
  BY <1>1, WhoCreates, Z3 DEF Server, Acceptor, Client

\* Nothing changes for u as to what is being created.
Still(u) ==
    /\ Begins(u)' <=> Begins(u)
    /\ at[u] = "init" \/ at'[u] = "init" => at'[u] = at[u]
    /\ step'[u] = step[u]

LEMMA StillWaits ==
    ASSUME NEW u \in Components, Still(u)
    PROVE  /\ AtStep(u, "child")' <=> AtStep(u, "child")
           /\ AtStep(u, "child") => Child(u)' = Child(u)
<1>1. Child(u)' = Child(u)
  BY DEF Still, Child
<1> QED
  BY <1>1 DEF Still, AtStep

LEMMA NobodyMoves ==
    ASSUME StepInv, OneFrontier, \A u \in Components : Still(u)
    PROVE  OneFrontier'
<1>1. ASSUME NEW u \in Components
      PROVE  /\ Begins(u)' <=> Begins(u)
             /\ Waits(u) => Waits(u)'
  <2>1. ASSUME Waits(u)
        PROVE  Waits(u)'
    <3>1. Child(u) \in Components
      BY <2>1, ChildIsComponent DEF Waits
    <3>2. Child(u)' = Child(u) /\ AtStep(u, "child")'
      BY <2>1, StillWaits DEF Waits
    <3>3. Begins(Child(u))
      BY <2>1 DEF Waits
    <3>4. at'[Child(u)] \in {"created", "init"} \/ owner'[Child(u)] = "made"
      BY <3>1, <3>3 DEF Still, Begins
    <3> QED
      BY <3>2, <3>4 DEF Waits, Begins
  <2> QED
    BY <2>1 DEF Still
<1> QED
  BY <1>1 DEF OneFrontier

\* The one that does not wait moves: it goes on, or is over and its creator
\* is the one that does not wait any more.
LEMMA FrontierMoves ==
    ASSUME ThreadInv, StepInv, OneRoot, OneFrontier,
           NEW t \in Components, Begins(t), ~Waits(t),
           \A u \in Components \ {t} : Still(u)
    PROVE  OneFrontier'
<1>1. ASSUME NEW u \in Components, Begins(u), u # t, Child(u) # t \/ Begins(t)'
      PROVE  Waits(u)'
  <2>1. Waits(u)
    BY <1>1 DEF OneFrontier
  <2>2. Child(u) \in Components
    BY <2>1, ChildIsComponent DEF Waits
  <2>3. Child(u)' = Child(u) /\ AtStep(u, "child")'
    BY <1>1, <2>1, StillWaits DEF Waits
  <2>4. at'[Child(u)] \in {"created", "init"} \/ owner'[Child(u)] = "made"
    <3>1. CASE Child(u) = t
      BY <1>1, <3>1 DEF Begins
    <3>2. CASE Child(u) # t
      BY <2>1, <2>2, <3>2 DEF Waits, Still, Begins
    <3> QED
      BY <3>1, <3>2
  <2> QED
    BY <2>3, <2>4 DEF Waits, Begins
<1> SUFFICES ASSUME NEW c \in Components, NEW d \in Components,
                    Begins(c)', Begins(d)', c # d
             PROVE  Waits(c)' \/ Waits(d)'
  BY DEF OneFrontier
<1>2. CASE c = t
  BY <1>1, <1>2 DEF Still
<1>3. CASE d = t
  BY <1>1, <1>3 DEF Still
<1>4. CASE c # t /\ d # t
  <2>1. Begins(c) /\ Begins(d)
    BY <1>4 DEF Still
  <2>2. Waits(c) /\ Waits(d)
    BY <1>4, <2>1 DEF OneFrontier
  <2>3. Child(c) # t \/ Child(d) # t
    BY <2>2, OneParent DEF Waits
  <2> QED
    BY <1>1, <1>4, <2>1, <2>3
<1> QED
  BY <1>2, <1>3, <1>4

\* The one that does not wait creates another, which becomes that one.
LEMMA FrontierGrows ==
    ASSUME StepInv, OneFrontier,
           NEW t \in Components, AtStep(t, "child"), Begins(t), ~Waits(t),
           Begins(Child(t))', UNCHANGED step,
           \A u \in Components \ {Child(t)} : Still(u)
    PROVE  OneFrontier'
<1>1. ASSUME NEW u \in Components, Begins(u), u # Child(t)
      PROVE  Waits(u)'
  <2>1. u # t => Waits(u)
    BY <1>1 DEF OneFrontier
  <2>2. AtStep(u, "child") /\ Child(u) \in Components
    BY <2>1, ChildIsComponent DEF Waits
  <2>3. Child(u)' = Child(u) /\ AtStep(u, "child")'
    BY <1>1, <2>2, StillWaits
  <2>4. at'[Child(u)] \in {"created", "init"} \/ owner'[Child(u)] = "made"
    <3>0. Child(t)' = Child(t)
      BY DEF Child
    <3>1. CASE Child(u) = Child(t)
      BY <3>0, <3>1 DEF Begins
    <3>2. CASE Child(u) # Child(t)
      BY <2>1, <2>2, <3>2 DEF Waits, Still, Begins
    <3> QED
      BY <3>1, <3>2
  <2> QED
    BY <2>3, <2>4 DEF Waits, Begins
<1> SUFFICES ASSUME NEW c \in Components, NEW d \in Components,
                    Begins(c)', Begins(d)', c # d
             PROVE  Waits(c)' \/ Waits(d)'
  BY DEF OneFrontier
<1>2. CASE c # Child(t)
  BY <1>1, <1>2 DEF Still
<1>3. CASE d # Child(t)
  BY <1>1, <1>3 DEF Still
<1> QED
  BY <1>2, <1>3

\* The steps of Thread are those of one thread.
LEMMA StepApart ==
    ASSUME ThreadTypeOK, NEW t \in Components, OwnerStep(t) \/ RunStep(t), UNCHANGED step
    PROVE  \A u \in Components \ {t} : Still(u) /\ owner'[u] = owner[u]
<1>1. CASE OwnerStep(t)
  BY <1>1 DEF OwnerStep, NewThread, ThreadStart, ThreadStartFails, ThreadStarted, ThreadStop,
              ThreadJoin, ThreadJoined, FreeUnstarted, FreeThread, thread, ThreadTypeOK, Still, Begins
<1>2. CASE RunStep(t)
  BY <1>2 DEF RunStep, LoopStep, BeginInit, EndInit, RoutineReturns, TestRunning, WriteRunning,
              EndCleanup, MoveTo, ThreadTypeOK, Still, Begins
<1> QED
  BY <1>1, <1>2

\* What the calls on a thread do to its creation.
LEMMA Creating ==
    ASSUME ThreadInv, NEW t \in Components
    PROVE  /\ NewThread(t) => ~Begins(t) /\ Begins(t)' /\ owner[t] = "none"
           /\ ThreadStart(t) \/ ThreadStartFails(t) => Begins(t) /\ ~Waits(t)
           /\ BeginInit(t) => Begins(t) /\ ~Waits(t)
<1>1. ThreadFits(t) /\ ThreadTypeOK
  BY DEF ThreadInv
<1>2. NewThread(t) => ~Begins(t) /\ Begins(t)' /\ owner[t] = "none"
  BY <1>1 DEF NewThread, Begins, ThreadFits, OwnerFits, ThreadTypeOK
<1>3. ThreadStart(t) \/ ThreadStartFails(t) => Begins(t) /\ ~Waits(t)
  BY <1>1, Waiting DEF ThreadStart, ThreadStartFails, Begins
<1>4. BeginInit(t) => Begins(t) /\ ~Waits(t)
  BY DEF BeginInit, Begins, Waits, AtStep
<1> QED
  BY <1>2, <1>3, <1>4

LEMMA NotCreating ==
    ASSUME ThreadInv, ThreadInv', NEW t \in Components,
           \/ ThreadStarted(t) \/ ThreadStop(t) \/ ThreadJoin(t) \/ ThreadJoined(t) \/ FreeUnstarted(t)
           \/ LoopStep(t) \/ EndCleanup(t) \/ \E run \in BOOLEAN : RoutineReturns(t, run)
    PROVE  ~Begins(t) /\ ~Begins(t)'
<1>1. ThreadFits(t) /\ ThreadTypeOK /\ ThreadFits(t)'
  BY DEF ThreadInv
<1>2. CASE ThreadStarted(t) \/ ThreadStop(t) \/ ThreadJoin(t) \/ ThreadJoined(t) \/ FreeUnstarted(t)
  BY <1>1, <1>2 DEF ThreadStarted, ThreadStop, ThreadJoin, ThreadJoined, FreeUnstarted, FreeThread,
     thread, ThreadFits, OwnerFits, StateFits, ThreadTypeOK, Begins, Begun, Looping, Over
<1>3. CASE LoopStep(t) \/ EndCleanup(t) \/ \E run \in BOOLEAN : RoutineReturns(t, run)
  BY <1>1, <1>3 DEF LoopStep, TestRunning, WriteRunning, EndCleanup, RoutineReturns, MoveTo,
     ThreadFits, OwnerFits, ThreadTypeOK, Begins
<1> QED
  BY <1>2, <1>3

\* Such a step leaves the others' creation alone, and there is none of its own.
LEMMA QuietStep ==
    ASSUME ThreadInv, ThreadInv', StepInv, OneFrontier, NEW t \in Components, UNCHANGED step,
           \/ ThreadStarted(t) \/ ThreadStop(t) \/ ThreadJoin(t) \/ ThreadJoined(t) \/ FreeUnstarted(t)
           \/ LoopStep(t) \/ EndCleanup(t) \/ \E run \in BOOLEAN : RoutineReturns(t, run)
    PROVE  OneFrontier'
<1>1. ThreadTypeOK /\ (OwnerStep(t) \/ RunStep(t))
  BY DEF ThreadInv, OwnerStep, RunStep
<1>2. Still(t)
  BY NotCreating DEF Still, Begins
<1> QED
  BY <1>1, <1>2, StepApart, NobodyMoves

\* NewReader and the others, and the rest of the initialization callbacks.
LEMMA InitializeFrontier ==
    ASSUME CreationInv, ThreadInv', NEW t \in Components, Initialize(t)
    PROVE  OneFrontier'
<1> USE DEF CreationInv
<1>0. /\ ThreadTypeOK
      /\ at[t] = "init" => Begins(t)
      /\ step[t] \in Nat \ {0}
  BY DEF ThreadInv, Begins, StepInv
<1>1. CASE Begin(t)
  <2>1. BeginInit(t) /\ UNCHANGED step
    BY <1>1 DEF Begin, lifeVars
  <2> QED
    BY <1>0, <2>1, Creating, StepApart, FrontierMoves DEF RunStep
<1>2. CASE MakeResource(t)
  <2>1. /\ at[t] = "init" /\ ~Waits(t)
        /\ step' = [step EXCEPT ![t] = @ + 1]
        /\ UNCHANGED <<at, owner>>
    BY <1>2 DEF MakeResource, AtStep, Waits, NextStep, threadVars, thread
  <2>2. \A u \in Components \ {t} : Still(u)
    BY <2>1 DEF Still, Begins, StepInv
  <2> QED
    BY <1>0, <2>1, <2>2, FrontierMoves
<1>3. CASE ResourceFails(t) \/ Initialized(t)
  <2>1. at[t] = "init" /\ ~Waits(t) /\ UNCHANGED step
    <3>1. CASE ResourceFails(t)
      BY <3>1 DEF ResourceFails, AtStep, Waits
    <3>2. CASE Initialized(t)
      BY <1>0, <3>2, Z3 DEF Initialized, EndInit, AtStep, Waits, lifeVars, InitSteps
    <3> QED
      BY <1>3, <3>1, <3>2
  <2>2. RunStep(t)
    BY <1>3 DEF ResourceFails, Initialized, RunStep
  <2> QED
    BY <1>0, <2>1, <2>2, StepApart, FrontierMoves
<1>4. CASE NewChild(t)
  <2>1. AtStep(t, "child") /\ NewThread(Child(t)) /\ UNCHANGED step
    BY <1>4 DEF NewChild
  <2>2. Child(t) \in Components
    BY <2>1, ChildIsComponent
  <2>3. ~Begins(Child(t)) /\ OwnerStep(Child(t))
    BY <2>1, <2>2, Creating DEF OwnerStep
  <2>4. Begins(Child(t))'
    <3>1. Child(t)' = Child(t)
      BY <2>1 DEF Child
    <3> QED
      BY <1>0, <2>1, <2>2, <3>1 DEF NewThread, Begins, ThreadTypeOK
  <2> QED
    BY <1>0, <2>1, <2>2, <2>3, <2>4, StepApart, FrontierGrows DEF Waits, AtStep
<1>5. CASE StartChild(t)
  <2>1. /\ AtStep(t, "child") /\ UNCHANGED step
        /\ ThreadStart(Child(t)) \/ ThreadStartFails(Child(t))
    BY <1>5 DEF StartChild
  <2>2. Child(t) \in Components
    BY <2>1, ChildIsComponent
  <2>3. Begins(Child(t)) /\ ~Waits(Child(t)) /\ OwnerStep(Child(t))
    BY <2>1, <2>2, Creating DEF OwnerStep
  <2> QED
    BY <1>0, <2>1, <2>2, <2>3, StepApart, FrontierMoves
<1>6. CASE ChildStarted(t)
  <2>1. /\ AtStep(t, "child") /\ ThreadStarted(Child(t))
        /\ step' = [step EXCEPT ![t] = @ + 1]
    BY <1>6 DEF ChildStarted, NextStep
  <2>2. Child(t) \in Components
    BY <2>1, ChildIsComponent
  <2>3. ~Begins(Child(t))
    BY <2>1, <2>2, NotCreating
  <2>4. \A u \in Components \ {t} : Still(u)
    <3>1. at' = at /\ owner' = [owner EXCEPT ![Child(t)] = "started"]
      BY <2>1 DEF ThreadStarted, thread
    <3> QED
      BY <1>0, <2>1, <2>2, <2>3, <3>1 DEF Still, Begins, StepInv, ThreadTypeOK
  <2> QED
    BY <1>0, <2>1, <2>3, <2>4, FrontierMoves DEF Waits, AtStep
<1>7. CASE NoStructure(t) \/ NoReaders(t) \/ NoThread(t)
  <2>1. /\ AtStep(t, "child") /\ WithoutChild(t)
        /\ owner[Child(t)] \in {"none", "failed"}
    BY <1>7 DEF NoStructure, NoReaders, NoThread
  <2>2. ~Waits(t)
    BY <2>1, ChildIsComponent, Waiting DEF Waits
  <2>3. \A u \in Components \ {t} : Still(u)
    <3>1. CASE Kind(t) = "acceptor"
      BY <2>1, <3>1 DEF WithoutChild, threadVars, thread, Still, Begins, StepInv
    <3>2. CASE Kind(t) # "acceptor"
      BY <1>0, <2>1, <3>2, StepApart DEF WithoutChild, RunStep
    <3> QED
      BY <3>1, <3>2
  <2> QED
    BY <1>0, <2>1, <2>2, <2>3, FrontierMoves DEF AtStep
<1> QED
  BY <1>1, <1>2, <1>3, <1>4, <1>5, <1>6, <1>7 DEF Initialize

\* So do the calls of the user, the routines and the exit callbacks.
LEMMA FrontierNext ==
    ASSUME CreationInv, ThreadInv', [Next]_vars
    PROVE  OneFrontier'
<1> USE DEF CreationInv
<1>0. ThreadTypeOK /\ root \in Components /\ Acceptor \in Components
  BY RootIsComponent DEF ThreadInv, Components
<1>1. ASSUME NEW t \in Components, Initialize(t)
      PROVE  OneFrontier'
  BY <1>1, InitializeFrontier
<1>2. ASSUME NEW t \in Components, RoutineEnds(t) \/ Loop(t) \/ EndExit(t)
      PROVE  OneFrontier'
  BY <1>2, QuietStep DEF RoutineEnds, Loop, EndExit, lifeVars
<1>3. ASSUME NEW t \in Components, JoinFinds(t) \/ JoinReturns(t)
      PROVE  OneFrontier'
  BY <1>3, QuietStep DEF JoinFinds, JoinReturns
<1>4. ASSUME NEW t \in Components, EndChild(t)
      PROVE  OneFrontier'
  BY <1>3, <1>4, ChildrenAreComponents DEF EndChild, NextLinked, Linked
<1>5. ASSUME UNCHANGED <<threadVars, step>>
      PROVE  OneFrontier'
  BY <1>5, NobodyMoves DEF threadVars, thread, Still, Begins
<1>6. ASSUME NEW t \in Components, AskChild(t)
      PROVE  OneFrontier'
  <2>1. UNCHANGED step /\ (ThreadStop(Acceptor) \/ UNCHANGED threadVars)
    BY <1>6 DEF AskChild
  <2> QED
    BY <1>0, <1>5, <2>1, QuietStep
<1>7. CASE NewRoot
  <2>1. NewThread(root) /\ UNCHANGED <<root, step>>
    BY <1>7 DEF NewRoot
  <2>2. \A c \in Components : owner[c] = "none"
    BY <1>0, <2>1, Creating DEF OneRoot
  <2>3. \A c \in Components \ {root} : ~Begins(c) /\ Still(c)
    <3>1. \A c \in Components : ~Begins(c)
      BY <2>2, Waiting
    <3>2. OwnerStep(root)
      BY <2>1 DEF OwnerStep
    <3>3. \A c \in Components \ {root} : Still(c)
      BY <1>0, <2>1, <3>2, StepApart
    <3> QED
      BY <3>1, <3>3
  <2> QED
    BY <2>3 DEF OneFrontier, Still
<1>8. CASE StartRoot
  <2>1. (ThreadStart(root) \/ ThreadStartFails(root)) /\ UNCHANGED step
    BY <1>8 DEF StartRoot
  <2> QED
    BY <1>0, <2>1, Creating, StepApart, FrontierMoves DEF OwnerStep
<1>9. CASE RootStarted \/ FreeRoot \/ AcceptorReturns
  <2>1. \/ ThreadStarted(root) \/ FreeUnstarted(root)
        \/ \E run \in BOOLEAN : RoutineReturns(Acceptor, run)
    BY <1>9 DEF RootStarted, FreeRoot, AcceptorReturns
  <2>2. UNCHANGED step
    BY <1>9 DEF RootStarted, FreeRoot, AcceptorReturns, lifeVars
  <2> QED
    BY <1>0, <2>1, <2>2, QuietStep
<1>10. CASE ServerStop \/ NewRootFails \/ UNCHANGED vars
  BY <1>5, <1>10 DEF ServerStop, NewRootFails, vars, lifeVars
<1> QED
  BY <1>0, <1>1, <1>2, <1>3, <1>4, <1>6, <1>7, <1>8, <1>9, <1>10 DEF Next, User, Own, Exit

\* A thread is made once, and its slot taken by the only one that is made.
LEMMA SlotNext ==
    ASSUME CreationInv, [ThreadNext]_threadVars
    PROVE  SlotKept'
<1> USE DEF CreationInv
<1>0. ThreadTypeOK
  BY DEF ThreadInv
<1>1. ASSUME NEW c \in Components, NEW d \in Components, owner[c] = "made", owner[d] = "made"
      PROVE  c = d
  BY <1>1, Waiting DEF OneFrontier, Begins
<1>2. ASSUME NEW t \in Components, NewThread(t)
      PROVE  SlotKept'
  BY <1>0, <1>2 DEF NewThread, SlotLeft, SlotKept, ThreadTypeOK
<1>3. ASSUME NEW t \in Components, ThreadStart(t)
      PROVE  SlotKept'
  <2>1. \A c \in Components : owner'[c] # "made"
    BY <1>0, <1>1, <1>3 DEF ThreadStart, ThreadTypeOK
  <2>2. numThreads' = numThreads + 1 /\ numThreads < MaxThreads /\ numThreads \in Nat
    BY <1>3 DEF ThreadStart, SlotKept
  <2>3. numThreads' \in Nat /\ numThreads' <= MaxThreads
    BY <2>2, ThreadAssumption
  <2> QED
    BY <2>1, <2>3 DEF SlotKept
<1>4. ASSUME UNCHANGED numThreads, \A c \in Components : owner'[c] = "made" => owner[c] = "made"
      PROVE  SlotKept'
  BY <1>4 DEF SlotKept
<1>5. ASSUME NEW t \in Components,
             \/ ThreadStartFails(t) \/ ThreadStarted(t) \/ ThreadStop(t)
             \/ ThreadJoin(t) \/ ThreadJoined(t) \/ FreeUnstarted(t)
      PROVE  SlotKept'
  BY <1>0, <1>4, <1>5 DEF ThreadStartFails, ThreadStarted, ThreadStop, ThreadJoin, ThreadJoined,
     FreeUnstarted, FreeThread, ThreadTypeOK
<1>6. ASSUME NEW t \in Components, RunStep(t)
      PROVE  SlotKept'
  BY <1>4, <1>6 DEF RunStep, LoopStep, BeginInit, EndInit, RoutineReturns, TestRunning,
     WriteRunning, EndCleanup
<1>7. CASE UNCHANGED threadVars
  BY <1>4, <1>7 DEF threadVars
<1> QED
  BY <1>2, <1>3, <1>5, <1>6, <1>7 DEF ThreadNext, OwnerStep

\* Once made, a thread's owner never forgets it.
LEMMA OwnerNone ==
    ASSUME ThreadInv, NEW t \in Components, OwnerStep(t) \/ RunStep(t), ~NewThread(t)
    PROVE  \A c \in Components : owner'[c] = "none" <=> owner[c] = "none"
<1>1. ThreadTypeOK /\ ThreadFits(t)
  BY DEF ThreadInv
<1>2. CASE OwnerStep(t)
  BY <1>1, <1>2 DEF OwnerStep, ThreadStart, ThreadStartFails, ThreadStarted, ThreadStop,
     ThreadJoin, ThreadJoined, FreeUnstarted, FreeThread, ThreadTypeOK
<1>3. CASE RunStep(t)
  BY <1>3 DEF RunStep, LoopStep, BeginInit, EndInit, RoutineReturns, TestRunning, WriteRunning, EndCleanup
<1> QED
  BY <1>2, <1>3

\* A server has no client and a client no acceptor: each is made by the user
\* or by the one component whose callback makes it.
LEMMA OneRootNext ==
    ASSUME CreationInv, [Next]_vars
    PROVE  OneRoot'
<1> USE DEF CreationInv
<1>0. ThreadTypeOK /\ root \in Components /\ root \in {Server, Client}
  BY RootIsComponent DEF ThreadInv, StepInv
<1>1. UNCHANGED root
  BY DEF Next, User, Own, NewRoot, NewRootFails, StartRoot, RootStarted, ServerStop, JoinFinds, JoinReturns,
     FreeRoot, Initialize, Begin, MakeResource, ResourceFails, NewChild, StartChild, ChildStarted,
     NoStructure, NoReaders, NoThread, Initialized, RoutineEnds, AcceptorReturns, Loop, Exit,
     AskChild, EndChild, EndExit, vars, lifeVars
<1>2. ASSUME \A c \in Components : owner'[c] = "none" <=> owner[c] = "none"
      PROVE  OneRoot'
  <2>1. {Server, Client, Acceptor} \subseteq Components
    BY DEF Components
  <2> QED
    BY <1>0, <1>1, <1>2, <2>1 DEF OneRoot
<1>3. ASSUME NEW t \in Components, AtStep(t, "child"), NewThread(Child(t))
      PROVE  OneRoot'
  <2>1. owner[t] = "starting" /\ Child(t) \in Components
    BY <1>3, Waiting, ChildIsComponent
  <2>2. owner' = [owner EXCEPT ![Child(t)] = "made"] /\ owner[root] # "none"
    BY <1>3, <2>1 DEF NewThread, OneRoot
  <2>3. /\ Child(t) = Acceptor => t = Server
        /\ Child(t) \notin {Server, Client}
    BY <1>3, WhoCreates DEF Server, Client, Acceptor
  <2>4. root = Server => Client # root
    BY DEF Server, Client
  <2> QED
    BY <1>0, <1>1, <2>1, <2>2, <2>3, <2>4 DEF OneRoot, ThreadTypeOK
<1>4. CASE NewRoot
  <2>1. owner' = [owner EXCEPT ![root] = "made"]
    BY <1>4 DEF NewRoot, NewThread
  <2>2. owner[root] = "none"
    BY <1>0, <1>4, Creating DEF NewRoot
  <2>3. \A c \in Components : owner[c] = "none"
    BY <2>2 DEF OneRoot
  <2>4. {Server, Client, Acceptor} \subseteq Components /\ Acceptor \notin {Server, Client}
    BY DEF Components, Acceptor, Server, Client
  <2> QED
    BY <1>0, <1>1, <2>1, <2>3, <2>4 DEF OneRoot, ThreadTypeOK
<1>5. CASE UNCHANGED threadVars
  BY <1>2, <1>5 DEF threadVars
<1>6. ASSUME NEW t \in Components, OwnerStep(t) \/ RunStep(t), ~NewThread(t)
      PROVE  OneRoot'
  BY <1>2, <1>6, OwnerNone
<1>7. CASE [ThreadNext]_threadVars /\ ~(\E t \in Components : NewThread(t))
  BY <1>5, <1>6, <1>7 DEF ThreadNext
<1>8. [ThreadNext]_threadVars
  BY StepDrives
<1>9. ASSUME NEW u \in Components, NewThread(u)
      PROVE  NewRoot \/ \E t \in Components : AtStep(t, "child") /\ NewThread(Child(t))
  <2>1. owner'[u] = "made" /\ owner[u] = "none"
    BY <1>0, <1>9, Creating DEF NewThread, ThreadTypeOK
  <2>2. ASSUME NEW t \in Components, OwnerStep(t) \/ RunStep(t), ~NewThread(t)
        PROVE  FALSE
    BY <2>1, <2>2, OwnerNone
  <2>3. ~UNCHANGED threadVars
    BY <2>1 DEF threadVars
  <2>4. ASSUME NEW t \in Components, Initialize(t)
        PROVE  \E p \in Components : AtStep(p, "child") /\ NewThread(Child(p))
    <3>1. CASE NewChild(t)
      BY <3>1 DEF NewChild
    <3>2. CASE Begin(t) \/ MakeResource(t) \/ ResourceFails(t) \/ Initialized(t)
      BY <2>1, <2>3, <3>2 DEF Begin, BeginInit, MakeResource, ResourceFails, Initialized, EndInit
    <3>3. CASE StartChild(t) \/ ChildStarted(t)
      <4>1. Child(t) \in Components
        BY <3>3, ChildIsComponent DEF StartChild, ChildStarted
      <4>2. \/ ThreadStart(Child(t)) \/ ThreadStartFails(Child(t)) \/ ThreadStarted(Child(t))
        BY <3>3 DEF StartChild, ChildStarted
      <4> QED
        BY <1>0, <2>1, <4>1, <4>2 DEF ThreadStart, ThreadStartFails, ThreadStarted, ThreadTypeOK
    <3>4. CASE NoStructure(t) \/ NoReaders(t) \/ NoThread(t)
      <4>1. UNCHANGED threadVars \/ EndInit(t, FALSE)
        BY <3>4 DEF NoStructure, NoReaders, NoThread, WithoutChild
      <4> QED
        BY <2>1, <2>3, <4>1 DEF EndInit
    <3> QED
      BY <2>4, <3>1, <3>2, <3>3, <3>4 DEF Initialize
  <2>5. ~(\E t \in Components : RoutineEnds(t) \/ Loop(t) \/ EndExit(t)) /\ ~AcceptorReturns
    BY <2>1 DEF RoutineEnds, Loop, LoopStep, TestRunning, WriteRunning, EndExit, EndCleanup,
       AcceptorReturns, RoutineReturns
  <2>6. ASSUME NEW t \in Components, ThreadJoin(t) \/ ThreadJoined(t) \/ ThreadStop(t)
        PROVE  FALSE
    BY <1>0, <2>1, <2>6 DEF ThreadJoin, ThreadJoined, ThreadStop, FreeThread, ThreadTypeOK
  <2>7. \A t \in Components : ~Exit(t)
    <3>1. \A t \in Components : ~EndChild(t)
      BY <2>6, ChildrenAreComponents DEF EndChild, JoinFinds, JoinReturns, NextLinked, Linked
    <3>2. Acceptor \in Components
      BY DEF Components
    <3>3. \A t \in Components : ~AskChild(t)
      BY <2>3, <2>6, <3>2 DEF AskChild
    <3> QED
      BY <2>5, <3>1, <3>3 DEF Exit
  <2>8. User => NewRoot
    BY <1>0, <2>1, <2>3, <2>6 DEF User, NewRootFails, StartRoot, RootStarted, ServerStop, JoinFinds, JoinReturns,
       FreeRoot, ThreadStart, ThreadStartFails, ThreadStarted, FreeUnstarted, FreeThread, ThreadTypeOK
  <2>9. Next
    BY <2>3 DEF vars
  <2> QED
    BY <2>4, <2>5, <2>7, <2>8, <2>9 DEF Next, Own
<1> QED
  BY <1>3, <1>4, <1>7, <1>8, <1>9

LEMMA CreationInvInit ==
    ASSUME Init
    PROVE  CreationInv
<1>1. ThreadInv /\ StepInv
  BY StepInvInit, ThreadInvInit
<1>2. /\ \A c \in Components : owner[c] = "none" /\ at[c] = "absent"
      /\ numThreads \in 1 .. MaxThreads
  BY DEF Init, ThreadInit
<1>3. OneRoot
  BY <1>2 DEF OneRoot, Components
<1>4. OneFrontier
  BY <1>2 DEF OneFrontier, Begins
<1>5. SlotKept
  BY <1>2, ThreadAssumption DEF SlotKept
<1> QED
  BY <1>1, <1>3, <1>4, <1>5 DEF CreationInv

LEMMA CreationInvNext ==
    ASSUME CreationInv, [Next]_vars
    PROVE  CreationInv'
<1>1. [ThreadNext]_threadVars
  BY StepDrives DEF CreationInv
<1>2. ThreadInv' /\ StepInv'
  BY <1>1, ThreadInvNext, StepInvNext DEF CreationInv
<1> QED
  BY <1>1, <1>2, FrontierNext, SlotNext, OneRootNext DEF CreationInv

(* _addThread never writes past the end of the table of threads, although  *)
(* it does not test what NewThread tested.                                 *)
THEOREM TableNeverOverflows == Spec => []TableFits
<1>1. CreationInv => TableFits
  BY DEF CreationInv, SlotKept, TableFits
<1> QED
  BY <1>1, CreationInvInit, CreationInvNext, PTL DEF Spec

-----------------------------------------------------------------------------
(* The tree of threads: what a component is to the one that creates it, as *)
(* long as no freed memory was used.                                       *)

\* The components of a server, or those of a client.
InTree(t) ==
    /\ t \in {Server, Acceptor} => root = Server
    /\ t = Client => root = Client

Orphan(c) == c # root /\ \A t \in Components : InTree(t) => c \notin Children(t)

Creates(t, c) == AtStep(t, "child") /\ Child(t) = c

\* A component exists for the one that creates it, or that points to it; none
\* does before its creator's callback, nor after its creator's end.
FamilyFits(t, c) ==
    /\ at[t] \in {"absent", "created"} => owner[c] = "none"
    /\ owner[c] \in {"made", "starting"} => Creates(t, c)
    /\ owner[c] = "failed" /\ has[c] # {} => Creates(t, c)
    /\ owner[c] \in {"started", "joining"} => c \in Linked(t)
    /\ at[t] = "ended" => c \notin Linked(t)

\* What is allocated for a component at each stage of its life.
MemoryFits(c) ==
    /\ owner[c] = "none" /\ has[c] # {} =>
           c = Acceptor /\ at[Server] = "exit" /\ "address" \notin has[Server]
    /\ Kind(c) \in {"reader", "worker", "writer"} /\ owner[c] \in {"made", "failed"} =>
           has[c] \subseteq {"struct"}
    /\ at[c] = "ended" => has[c] \subseteq {"struct", "selector"}
    /\ owner[c] = "done" => IF at[c] = "absent" THEN c = root
                                                ELSE at[c] = "ended" /\ has[c] = {}
    /\ Orphan(c) => owner[c] = "none"

\* nbReaders counts the readers the acceptor points to.
ReadersFit ==
    root = Server =>
        /\ step[Acceptor] <= NbPipes => nbReaders = NbPipes
        /\ \A c \in Children(Acceptor) \cap link :
               c[2] < step[Acceptor] /\ c[2] <= nbReaders

TreeInv ==
    broken = "no" =>
        /\ \A t \in Components : InTree(t) => \A c \in Children(t) : FamilyFits(t, c)
        /\ \A c \in Components : MemoryFits(c)
        /\ ReadersFit

\* What a failure leads to, and what nothing else does.
Failed == failures > 0 \/ ~SlotLeft

FailureFits(c) ==
    /\ owner[c] = "failed" => Failed
    /\ at[c] \in Over /\ c \notin initOk => Failed
    /\ (/\ Kind(c) \notin {"client", "acceptor"}
        /\ c \in initOk
        /\ at[c] \in {"back", "write", "exit", "ended"}) => c \in asked
    /\ c = Server /\ (owner[c] = "made" \/ at[c] \notin {"absent", "ended"}) =>
           "address" \in has[c] \/ Failed

FailureInv ==
    /\ \A c \in Components : FailureFits(c)
    /\ BrokenByFailure

-----------------------------------------------------------------------------
(* Types.                                                                  *)

\* Where the steps of the acceptor's callback are, and that a component's
\* child is one of its children.
LEMMA AcceptorSteps ==
    ASSUME StepInv
    PROVE  /\ AtStep(Acceptor, "child") => step[Acceptor] \in 1 .. NbPipes
           /\ \A r \in {"selector", "queue", "pool", "socket"} :
                  AtStep(Acceptor, r) => step[Acceptor] = NbPipes + 1
<1>1. InitSteps[Kind(Acceptor)] = Append([i \in 1 .. NbPipes |-> "child"], "socket")
  BY DEF InitSteps, Kind, Acceptor
<1>2. /\ Len(InitSteps[Kind(Acceptor)]) = NbPipes + 1
      /\ InitSteps[Kind(Acceptor)][NbPipes + 1] = "socket"
      /\ \A i \in 1 .. NbPipes : InitSteps[Kind(Acceptor)][i] = "child"
  BY <1>1
<1>3. step[Acceptor] \in Nat \ {0}
  BY DEF StepInv, Components
<1> QED
  BY <1>2, <1>3 DEF AtStep

LEMMA ChildIsChild ==
    ASSUME StepInv, NEW t \in Components, AtStep(t, "child")
    PROVE  Child(t) \in Children(t)
<1>1. t = Acceptor => step[t] \in 1 .. NbPipes
  BY AcceptorSteps
<1> QED
  BY <1>1, WhoCreates DEF Children, Kind, Server, Acceptor, Client

LEMMA KindIsAcceptor ==
    ASSUME NEW t \in Components
    PROVE  Kind(t) = "acceptor" <=> t = Acceptor
BY ComponentKinds DEF Kind, Server, Acceptor, Client

Pointers == {"struct", "address", "pool", "factory", "queue", "readers", "selector", "socket"}
Leaks == Components \X {"pipe", "lock"}
Descriptors == {"none", "open", "stale", "closed", "closed twice"}

\* What is not of the threads.
OwnTypeOK ==
    /\ has \in [Components -> SUBSET Pointers]
    /\ link \in SUBSET Components
    /\ nbReaders \in 0 .. NbPipes
    /\ asked \in SUBSET Components
    /\ woken \in BOOLEAN
    /\ failures \in 0 .. MaxFailures
    /\ broken \in {"no", "thread", "queue", "address", "name"}
    /\ leaked \in SUBSET Leaks
    /\ socket \in Descriptors

LEMMA TypesTogether ==
    ASSUME ThreadTypeOK, StepInv, OwnTypeOK
    PROVE  TypeOK
BY DEF TypeOK, StepInv, OwnTypeOK, Pointers, Leaks, Descriptors

LEMMA PreparedTypes ==
    ASSUME NEW c \in Components
    PROVE  Prepared[Kind(c)] \in SUBSET Pointers
<1>1. Kind(c) \in {"server", "acceptor", "client", "reader", "worker", "writer"}
  BY ComponentKinds DEF Kind, Server, Acceptor, Client
<1> QED
  BY <1>1 DEF Prepared, Pointers

LEMMA FreeStructureTypes ==
    ASSUME OwnTypeOK, NEW c \in Components, FreeStructure(c),
           UNCHANGED <<nbReaders, asked, woken, failures, leaked, socket>>,
           broken' \in {"no", "thread", "queue", "address", "name"}
    PROVE  OwnTypeOK'
BY DEF OwnTypeOK, FreeStructure

LEMMA JoinTypes ==
    ASSUME OwnTypeOK, NEW c \in Components, JoinFinds(c) \/ JoinReturns(c)
    PROVE  OwnTypeOK'
<1>1. CASE JoinReturns(c)
  BY <1>1, FreeStructureTypes DEF JoinReturns, OwnTypeOK, requests, leftovers
<1>2. CASE JoinFinds(c) /\ ThreadRunning(c)
  BY <1>2 DEF JoinFinds, OwnTypeOK, requests, leftovers, structures
<1>3. CASE JoinFinds(c) /\ ~ThreadRunning(c)
  BY <1>3, FreeStructureTypes DEF JoinFinds, OwnTypeOK, requests, leftovers
<1> QED
  BY <1>1, <1>2, <1>3

LEMMA LeakTypes ==
    ASSUME OwnTypeOK, NEW c \in Components, MayLeak(c, "pipe") \/ MayLeak(c, "lock")
    PROVE  leaked' \in SUBSET Leaks
<1>1. <<c, "pipe">> \in Leaks /\ <<c, "lock">> \in Leaks
  BY DEF Leaks
<1> QED
  BY <1>1 DEF OwnTypeOK, MayLeak

LEMMA UserTypes ==
    ASSUME OwnTypeOK, StepInv, User
    PROVE  OwnTypeOK'
<1>0. root \in Components /\ Server \in Components
  BY RootIsComponent DEF Components
<1>1. CASE NewRoot
  BY <1>0, <1>1, PreparedTypes DEF NewRoot, OwnTypeOK, requests, leftovers
<1>2. CASE StartRoot
  BY <1>2 DEF StartRoot, OwnTypeOK, requests, leftovers, structures, Fail
<1>3. CASE RootStarted
  BY <1>3 DEF RootStarted, OwnTypeOK, lifeVars, leftovers, requests, structures
<1>4. CASE ServerStop
  BY <1>0, <1>4 DEF ServerStop, OwnTypeOK, structures, leftovers
<1>5. CASE FreeRoot
  BY <1>0, <1>5, FreeStructureTypes DEF FreeRoot, OwnTypeOK, requests, leftovers
<1>6. CASE NewRootFails
  BY <1>0, <1>6, LeakTypes DEF NewRootFails, OwnTypeOK, requests, leftovers, structures, Fail
<1> QED
  BY <1>0, <1>1, <1>2, <1>3, <1>4, <1>5, <1>6, JoinTypes DEF User

LEMMA WithoutChildTypes ==
    ASSUME OwnTypeOK, StepInv, NEW t \in Components, AtStep(t, "child"), WithoutChild(t)
    PROVE  nbReaders' \in 0 .. NbPipes
<1>1. CASE t = Acceptor
  <2>1. step[t] \in 1 .. NbPipes /\ nbReaders' = step[t] - 1
    BY <1>1, AcceptorSteps, KindIsAcceptor DEF WithoutChild
  <2> QED
    BY <2>1
<1>2. CASE t # Acceptor
  BY <1>2, KindIsAcceptor DEF WithoutChild, OwnTypeOK
<1> QED
  BY <1>1, <1>2

LEMMA InitializeTypes ==
    ASSUME OwnTypeOK, StepInv, NEW t \in Components, Initialize(t)
    PROVE  OwnTypeOK'
<1>1. CASE Begin(t) \/ Initialized(t)
  BY <1>1 DEF Begin, Initialized, OwnTypeOK, lifeVars, leftovers, requests, structures
<1>2. CASE MakeResource(t)
  <2>1. PICK r \in {"selector", "queue", "pool", "socket"} :
            has' = [has EXCEPT ![t] = @ \cup {r}]
    BY <1>2 DEF MakeResource
  <2>2. /\ UNCHANGED <<link, nbReaders, requests, failures, broken, leaked>>
        /\ socket' \in {"open", socket}
        /\ "open" \in Descriptors
    BY <1>2 DEF MakeResource, Descriptors
  <2> QED
    BY <2>1, <2>2 DEF OwnTypeOK, requests, leftovers, Pointers
<1>3. CASE ResourceFails(t)
  <2>1. socket' = socket \/ socket' = "stale"
    BY <1>3 DEF ResourceFails
  <2>2. socket' \in Descriptors
    BY <2>1 DEF OwnTypeOK, Descriptors
  <2>3. failures' \in 0 .. MaxFailures
    BY <1>3 DEF ResourceFails, OwnTypeOK, Fail
  <2> QED
    BY <1>3, <2>2, <2>3 DEF ResourceFails, OwnTypeOK, requests, structures
<1>4. CASE NewChild(t)
  <2>1. Child(t) \in Components
    BY <1>4, ChildIsComponent DEF NewChild
  <2> QED
    BY <1>4, <2>1, PreparedTypes DEF NewChild, OwnTypeOK, requests, leftovers
<1>5. CASE StartChild(t)
  BY <1>5 DEF StartChild, OwnTypeOK, requests, leftovers, structures, Fail
<1>6. CASE ChildStarted(t)
  <2>1. Child(t) \in Components
    BY <1>6, ChildIsComponent DEF ChildStarted
  <2> QED
    BY <1>6, <2>1 DEF ChildStarted, OwnTypeOK, requests, leftovers
<1>7. CASE NoStructure(t)
  <2>1. nbReaders' \in 0 .. NbPipes
    BY <1>7, WithoutChildTypes DEF NoStructure
  <2>2. leaked' \in SUBSET Leaks
    BY <1>7, ChildIsComponent, LeakTypes DEF NoStructure, OwnTypeOK
  <2> QED
    BY <1>7, <2>1, <2>2 DEF NoStructure, OwnTypeOK, requests, leftovers, structures, Fail
<1>8. CASE NoReaders(t)
  <2>1. nbReaders' \in 0 .. NbPipes
    BY <1>8, WithoutChildTypes DEF NoReaders
  <2>2. {Acceptor, Server} \subseteq Components
    BY DEF Components
  <2>3. has' \in [Components -> SUBSET Pointers]
    BY <1>8, <2>2 DEF NoReaders, OwnTypeOK, Pointers
  <2> QED
    BY <1>8, <2>1, <2>3 DEF NoReaders, OwnTypeOK, requests, leftovers, Fail
<1>9. CASE NoThread(t)
  <2>1. nbReaders' \in 0 .. NbPipes /\ Child(t) \in Components
    BY <1>9, WithoutChildTypes, ChildIsComponent DEF NoThread
  <2>2. failures' \in 0 .. MaxFailures
    BY <1>9 DEF NoThread, OwnTypeOK, Fail
  <2>3. leaked' \in SUBSET Leaks
    BY <1>9, <2>1, LeakTypes DEF NoThread, OwnTypeOK
  <2> QED
    BY <1>9, <2>1, <2>2, <2>3 DEF NoThread, OwnTypeOK, requests, leftovers
<1> QED
  BY <1>1, <1>2, <1>3, <1>4, <1>5, <1>6, <1>7, <1>8, <1>9 DEF Initialize

LEMMA OwnTypeNext ==
    ASSUME OwnTypeOK, StepInv, [Next]_vars
    PROVE  OwnTypeOK'
<1>1. ASSUME NEW t \in Components, RoutineEnds(t) \/ Loop(t)
      PROVE  OwnTypeOK'
  BY <1>1 DEF RoutineEnds, Loop, OwnTypeOK, lifeVars, leftovers, requests, structures
<1>2. CASE AcceptorReturns
  BY <1>2 DEF AcceptorReturns, OwnTypeOK, structures, leftovers
<1>3. ASSUME NEW t \in Components, Exit(t)
      PROVE  OwnTypeOK'
  <2>0. NextLinked(t) \subseteq Components
    BY ChildrenAreComponents DEF NextLinked, Linked
  <2>1. CASE AskChild(t)
    <3>1. PICK c \in NextLinked(t) :
              /\ asked' = asked \cup {c}
              /\ woken' = TRUE \/ woken' = woken
              /\ broken' = broken \/ broken' = "queue"
      BY <2>1 DEF AskChild
    <3> QED
      BY <2>0, <2>1, <3>1 DEF AskChild, OwnTypeOK, structures, leftovers
  <2>2. CASE EndChild(t)
    BY <2>0, <2>2, JoinTypes DEF EndChild
  <2>3. CASE EndExit(t)
    <3>1. has' \in [Components -> SUBSET Pointers]
      BY <2>3 DEF EndExit, OwnTypeOK
    <3>2. socket' \in Descriptors
      BY <2>3 DEF EndExit, CloseSocket, OwnTypeOK, Descriptors
    <3> QED
      BY <2>3, <3>1, <3>2 DEF EndExit, OwnTypeOK, requests, leftovers
  <2> QED
    BY <1>3, <2>1, <2>2, <2>3 DEF Exit
<1>4. CASE UNCHANGED vars
  BY <1>4 DEF vars, lifeVars, requests, leftovers, structures, OwnTypeOK
<1> QED
  BY <1>1, <1>2, <1>3, <1>4, UserTypes, InitializeTypes DEF Next, Own

LEMMA OwnTypeInit ==
    ASSUME Init
    PROVE  OwnTypeOK
<1>1. has \in [Components -> SUBSET Pointers]
  BY DEF Init
<1>2. NbPipes \in 0 .. NbPipes /\ 0 \in 0 .. MaxFailures
  OBVIOUS
<1> QED
  BY <1>1, <1>2 DEF Init, OwnTypeOK, Descriptors

(* The variables of the tree of threads keep their types; in particular    *)
(* nbReaders stays between none and all of the pipes.                      *)
THEOREM LifecycleTyped == Spec => []TypeOK
<1>1. CreationInv /\ OwnTypeOK => TypeOK
  BY TypesTogether DEF CreationInv, ThreadInv
<1>2. Init => CreationInv /\ OwnTypeOK
  BY CreationInvInit, OwnTypeInit
<1>3. CreationInv /\ OwnTypeOK /\ [Next]_vars => (CreationInv /\ OwnTypeOK)'
  BY CreationInvNext, OwnTypeNext DEF CreationInv
<1> QED
  BY <1>1, <1>2, <1>3, PTL DEF Spec

-----------------------------------------------------------------------------
(* The shape of the tree.                                                  *)

LEMMA ChildrenShape ==
    ASSUME NEW t \in Components, NEW c \in Children(t)
    PROVE  \/ t = <<"server", 0>> /\ c = <<"acceptor", 0>>
           \/ t = <<"acceptor", 0>> /\ c = <<"reader", c[2]>>
           \/ t = <<"client", 0>> /\ c = <<"reader", 1>>
           \/ t = <<"reader", t[2]>> /\ c = <<"worker", t[2]>>
           \/ t = <<"worker", t[2]>> /\ c = <<"writer", t[2]>>
<1>1. CASE t \in {Server, Acceptor, Client}
  BY <1>1 DEF Children, Kind, Server, Acceptor, Client
<1>2. CASE Kind(t) \in {"reader", "worker", "writer"}
  <2>1. t = <<t[1], t[2]>>
    BY <1>2 DEF Components, Server, Acceptor, Client, Kind
  <2> QED
    BY <1>2, <2>1 DEF Children, Kind
<1> QED
  BY <1>1, <1>2, ComponentKinds

LEMMA ParentOf ==
    ASSUME NEW t \in Components, NEW c \in Children(t)
    PROVE  \/ c[1] = "acceptor" /\ t = <<"server", 0>>
           \/ c[1] = "reader" /\ t \in {<<"acceptor", 0>>, <<"client", 0>>}
           \/ c[1] = "worker" /\ t = <<"reader", c[2]>>
           \/ c[1] = "writer" /\ t = <<"worker", c[2]>>
<1>1. CASE t = <<"server", 0>> /\ c = <<"acceptor", 0>>
  BY <1>1
<1>2. CASE t = <<"acceptor", 0>> /\ c = <<"reader", c[2]>>
  <2>1. c[1] = "reader"
    BY <1>2
  <2> QED
    BY <1>2, <2>1
<1>3. CASE t = <<"client", 0>> /\ c = <<"reader", 1>>
  BY <1>3
<1>4. CASE t = <<"reader", t[2]>> /\ c = <<"worker", t[2]>>
  <2>1. c[1] = "worker" /\ c[2] = t[2]
    BY <1>4
  <2> QED
    BY <1>4, <2>1
<1>5. CASE t = <<"worker", t[2]>> /\ c = <<"writer", t[2]>>
  <2>1. c[1] = "writer" /\ c[2] = t[2]
    BY <1>5
  <2> QED
    BY <1>5, <2>1
<1> QED
  BY <1>1, <1>2, <1>3, <1>4, <1>5, ChildrenShape

LEMMA OneParentInTree ==
    ASSUME NEW t \in Components, NEW u \in Components, NEW c \in Children(t), c \in Children(u),
           InTree(t), InTree(u)
    PROVE  t = u
<1>1. ~(t = Acceptor /\ u = Client) /\ ~(t = Client /\ u = Acceptor)
  <2>1. Server # Client
    BY DEF Server, Client
  <2> QED
    BY <2>1 DEF InTree
<1> QED
  BY <1>1, ParentOf DEF Acceptor, Client

LEMMA ChildrenApart ==
    ASSUME NEW t \in Components, NEW c \in Children(t)
    PROVE  /\ c # t
           /\ c \notin {Server, Client}
           /\ c = Acceptor => t = Server
           /\ c # Acceptor => Kind(c) \in {"reader", "worker", "writer"}
           /\ t = Server => c = Acceptor
<1>1. c # t /\ c \notin {Server, Client}
  BY ChildrenShape, Z3 DEF Server, Client
<1>2. (c = Acceptor => t = Server) /\ (t = Server => c = Acceptor)
  BY ChildrenShape, Z3 DEF Server, Acceptor
<1>3. c # Acceptor => Kind(c) \in {"reader", "worker", "writer"}
  BY ChildrenShape DEF Acceptor, Kind
<1> QED
  BY <1>1, <1>2, <1>3

LEMMA ThreeComponents ==
    /\ {Server, Acceptor, Client} \subseteq Components
    /\ Server # Acceptor /\ Client # Acceptor /\ Server # Client
    /\ \A c \in {Server, Acceptor, Client} : Kind(c) \notin {"reader", "worker", "writer"}
BY DEF Components, Server, Acceptor, Client, Kind

\* A component that has a thread is one of the root's.
LEMMA CreatedInTree ==
    ASSUME CreationInv, NEW t \in Components, at[t] # "absent"
    PROVE  InTree(t)
<1>1. owner[t] # "none"
  BY DEF CreationInv, ThreadInv, ThreadFits, OwnerFits
<1> QED
  BY <1>1 DEF CreationInv, OneRoot, InTree

\* What ThreadInv says of a component.
LEMMA ThreadOf ==
    ASSUME CreationInv, NEW c \in Components
    PROVE  /\ at[c] = "absent" => owner[c] \in {"none", "made", "failed", "done"}
           /\ at[c] # "absent" => owner[c] \in {"starting", "started", "joining", "done"}
           /\ owner[c] \in {"started", "joining"} => at[c] \in Begun
           /\ at[c] \in {"created", "init"} => owner[c] = "starting"
           /\ at[c] \in Places
           /\ owner[c] \in {"none", "made", "starting", "started", "failed", "joining", "done"}
           /\ memory[c] = "there" => owner[c] \notin {"none", "done"}
<1>1. ThreadTypeOK /\ ThreadFits(c)
  BY DEF CreationInv, ThreadInv
<1> QED
  BY <1>1 DEF ThreadTypeOK, ThreadFits, OwnerFits, StateFits, Begun, Looping, Over

-----------------------------------------------------------------------------
(* What a step leaves alone.                                               *)

TreeFits ==
    /\ \A t \in Components : InTree(t) => \A c \in Children(t) : FamilyFits(t, c)
    /\ \A c \in Components : MemoryFits(c)
    /\ ReadersFit

Same(u) ==
    /\ at'[u] = at[u]
    /\ owner'[u] = owner[u]
    /\ has'[u] = has[u]
    /\ u \in link' <=> u \in link

LEMMA CreatesSame ==
    ASSUME NEW t, NEW c, at'[t] = at[t], step'[t] = step[t]
    PROVE  Creates(t, c)' <=> Creates(t, c)
<1>1. Child(t)' = Child(t)
  BY DEF Child
<1>2. AtStep(t, "child")' <=> AtStep(t, "child")
  BY DEF AtStep
<1> QED
  BY <1>1, <1>2 DEF Creates

LEMMA LinkedSame ==
    ASSUME NEW t \in Components, NEW c \in Components, c \in link' <=> c \in link,
           t # Acceptor \/ nbReaders' = nbReaders
    PROVE  c \in Linked(t)' <=> c \in Linked(t)
<1>1. Children(t)' = Children(t)
  BY DEF Children
<1>2. CASE t = Acceptor
  BY <1>1, <1>2 DEF Linked
<1>3. CASE t # Acceptor
  BY <1>1, <1>3, KindIsAcceptor DEF Linked
<1> QED
  BY <1>2, <1>3

LEMMA FamilySame ==
    ASSUME NEW t \in Components, NEW c \in Components, FamilyFits(t, c), Same(c),
           at'[t] = at[t], step'[t] = step[t], t # Acceptor \/ nbReaders' = nbReaders
    PROVE  FamilyFits(t, c)'
<1>1. (Creates(t, c)' <=> Creates(t, c)) /\ (c \in Linked(t)' <=> c \in Linked(t))
  BY CreatesSame, LinkedSame DEF Same
<1> QED
  BY <1>1 DEF FamilyFits, Same

LEMMA OrphanSame ==
    ASSUME NEW c, UNCHANGED root
    PROVE  Orphan(c)' <=> Orphan(c)
<1>1. \A t : (InTree(t)' <=> InTree(t)) /\ Children(t)' = Children(t)
  BY DEF InTree, Children
<1> QED
  BY <1>1 DEF Orphan

LEMMA MemorySame ==
    ASSUME NEW c \in Components, MemoryFits(c), Same(c), UNCHANGED root,
           c = Acceptor => Same(Server)
    PROVE  MemoryFits(c)'
<1>1. Orphan(c)' <=> Orphan(c)
  BY OrphanSame
<1> QED
  BY <1>1 DEF MemoryFits, Same

\* A step that moves one component, its step in its callback included.
LEMMA OneMoves ==
    ASSUME TreeFits, NEW x \in Components,
           \A u \in Components \ {x} : Same(u) /\ step'[u] = step[u],
           UNCHANGED <<root, nbReaders>>,
           InTree(x) => \A c \in Children(x) : FamilyFits(x, c)',
           \A p \in Components : InTree(p) /\ x \in Children(p) => FamilyFits(p, x)',
           MemoryFits(x)',
           x = Server => MemoryFits(Acceptor)',
           ReadersFit'
    PROVE  TreeFits'
<1>1. ASSUME NEW t \in Components, InTree(t), NEW c \in Children(t)
      PROVE  FamilyFits(t, c)'
  <2>1. c \in Components
    BY ChildrenAreComponents
  <2>2. CASE t # x /\ c # x
    BY <1>1, <2>1, <2>2, FamilySame DEF TreeFits, Same
  <2> QED
    BY <1>1, <2>2
<1>2. ASSUME NEW c \in Components
      PROVE  MemoryFits(c)'
  <2>1. CASE c # x /\ ~(c = Acceptor /\ x = Server)
    BY <1>2, <2>1, MemorySame, ThreeComponents DEF TreeFits
  <2> QED
    BY <2>1
<1>3. \A t : (InTree(t)' <=> InTree(t)) /\ Children(t)' = Children(t)
  BY DEF InTree, Children
<1> QED
  BY <1>1, <1>2, <1>3 DEF TreeFits

LEMMA ReadersSame ==
    ASSUME ReadersFit, UNCHANGED <<root, nbReaders>>, step'[Acceptor] = step[Acceptor],
           link' \subseteq link \cup {Server, Client, Acceptor}
    PROVE  ReadersFit'
<1>1. Children(Acceptor)' = Children(Acceptor)
  BY DEF Children
<1>2. \A c \in Children(Acceptor) : c \notin {Server, Client, Acceptor}
  BY ChildrenApart, ThreeComponents
<1> QED
  BY <1>1, <1>2 DEF ReadersFit

LEMMA NothingMoves ==
    ASSUME TreeFits, UNCHANGED <<root, at, owner, has, link, step, nbReaders>>
    PROVE  TreeFits'
<1>1. \A t : (InTree(t)' <=> InTree(t)) /\ Children(t)' = Children(t)
  BY DEF InTree, Children
<1>2. \A u \in Components : Same(u)
  BY DEF Same
<1>3. ReadersFit'
  BY ReadersSame DEF TreeFits
<1>4. \A c \in Components : MemoryFits(c)'
  BY <1>2, MemorySame, ThreeComponents DEF TreeFits
<1>5. ASSUME NEW t \in Components, InTree(t), NEW c \in Children(t)
      PROVE  FamilyFits(t, c)'
  BY <1>2, <1>5, FamilySame, ChildrenAreComponents DEF TreeFits
<1> QED
  BY <1>1, <1>3, <1>4, <1>5 DEF TreeFits

-----------------------------------------------------------------------------
(* The calls that end a component.                                         *)

\* ThreadJoin and what follows: the owner's view of x moves, not x itself.
LEMMA OwnerMoves ==
    ASSUME CreationInv, TreeFits, NEW x \in Components,
           UNCHANGED <<root, at, step, nbReaders>>,
           \A u \in Components \ {x} : Same(u),
           link' \subseteq link,
           x = Server => ("address" \in has'[x] <=> "address" \in has[x]),
           \/ owner[x] = "started" /\ owner'[x] = "joining" /\ UNCHANGED <<has, link>>
           \/ /\ owner'[x] = "done" /\ x \notin link'
              /\ has'[x] = has[x] \ {"struct", "selector"}
              /\ at[x] = "ended" \/ (owner[x] = "failed" /\ x = root)
    PROVE  TreeFits'
<1>1. ASSUME NEW c \in Children(x), InTree(x)
      PROVE  FamilyFits(x, c)'
  <2>1. c \in Components /\ c # x
    BY ChildrenAreComponents, ChildrenApart
  <2> QED
    BY <1>1, <2>1, FamilySame DEF TreeFits, Same
<1>2. ASSUME NEW p \in Components, InTree(p), x \in Children(p)
      PROVE  FamilyFits(p, x)'
  <2>0. FamilyFits(p, x)
    BY <1>2 DEF TreeFits
  <2>1. (Creates(p, x)' <=> Creates(p, x)) /\ (x \in link' <=> x \in link) => (x \in Linked(p)' <=> x \in Linked(p))
    BY LinkedSame
  <2>2. x \notin link' => x \notin Linked(p)'
    BY DEF Linked
  <2>3. x # root
    BY <1>2, ChildrenApart DEF CreationInv, StepInv
  <2>4. Creates(p, x)' <=> Creates(p, x)
    BY CreatesSame
  <2>5. owner[x] # "none" /\ at[p] = at'[p]
    BY ThreadOf
  <2> QED
    BY <2>0, <2>1, <2>2, <2>3, <2>4, <2>5 DEF FamilyFits
<1>3. MemoryFits(x)'
  <2>1. MemoryFits(x) /\ (Orphan(x)' <=> Orphan(x))
    BY OrphanSame DEF TreeFits
  <2>2. at[x] = "absent" => owner[x] # "started"
    BY ThreadOf
  <2>3. owner[x] = "failed" => at[x] = "absent"
    BY ThreadOf
  <2>4. owner[x] # "none"
    BY ThreadOf
  <2> QED
    BY <2>1, <2>2, <2>3, <2>4 DEF MemoryFits
<1>4. x = Server => MemoryFits(Acceptor)'
  <2>1. MemoryFits(Acceptor) /\ (Orphan(Acceptor)' <=> Orphan(Acceptor))
    BY OrphanSame, ThreeComponents DEF TreeFits
  <2> QED
    BY <2>1, ThreeComponents DEF MemoryFits, Same
<1>5. ReadersFit'
  BY ReadersSame DEF TreeFits
<1> QED
  BY <1>1, <1>2, <1>3, <1>4, <1>5, OneMoves

LEMMA Freed ==
    ASSUME CreationInv, OwnTypeOK, TreeFits, NEW x \in Components,
           owner' = [owner EXCEPT ![x] = "done"],
           has' = [has EXCEPT ![x] = @ \ {"struct", "selector"}],
           link' = link \ {x},
           UNCHANGED <<root, at, step, nbReaders>>,
           at[x] = "ended" \/ (owner[x] = "failed" /\ x = root)
    PROVE  TreeFits'
<1>1. ThreadTypeOK
  BY DEF CreationInv, ThreadInv
<1>2. has'[x] = has[x] \ {"struct", "selector"} /\ owner'[x] = "done" /\ x \notin link'
  BY <1>1 DEF OwnTypeOK, ThreadTypeOK
<1>3. \A u \in Components \ {x} : Same(u)
  BY <1>1 DEF OwnTypeOK, ThreadTypeOK, Same
<1>4. "address" \in has'[x] <=> "address" \in has[x]
  BY <1>2
<1>5. link' \subseteq link
  OBVIOUS
<1> QED
  BY <1>2, <1>3, <1>4, <1>5, OwnerMoves

LEMMA JoinTree ==
    ASSUME CreationInv, OwnTypeOK, TreeFits, NEW c \in Components,
           JoinFinds(c) \/ JoinReturns(c), broken = "no", broken' = "no"
    PROVE  TreeFits'
<1>0. ThreadTypeOK
  BY DEF CreationInv, ThreadInv
<1>1. CASE JoinFinds(c) /\ ThreadRunning(c)
  BY <1>0, <1>1, OwnerMoves
  DEF JoinFinds, ThreadJoin, structures, OwnTypeOK, ThreadTypeOK, Same
<1>2. CASE JoinFinds(c) /\ ~ThreadRunning(c)
  <2>1. /\ at[c] = "ended"
        /\ owner' = [owner EXCEPT ![c] = "done"]
        /\ has' = [has EXCEPT ![c] = @ \ {"struct", "selector"}]
        /\ link' = link \ {c}
        /\ UNCHANGED <<root, at, step, nbReaders>>
    BY <1>2 DEF JoinFinds, ThreadJoin, FreeThread, FreeStructure
  <2> QED
    BY <2>1, Freed
<1>3. CASE JoinReturns(c)
  <2>1. /\ at[c] = "ended"
        /\ owner' = [owner EXCEPT ![c] = "done"]
        /\ has' = [has EXCEPT ![c] = @ \ {"struct", "selector"}]
        /\ link' = link \ {c}
        /\ UNCHANGED <<root, at, step, nbReaders>>
    BY <1>3 DEF JoinReturns, ThreadJoined, FreeThread, FreeStructure
  <2> QED
    BY <2>1, Freed
<1> QED
  BY <1>1, <1>2, <1>3

-----------------------------------------------------------------------------
(* A thread goes from one stage of _runThread to another.                  *)

LEMMA StageMoves ==
    ASSUME CreationInv, TreeFits, NEW x \in Components,
           UNCHANGED <<root, owner, has, link, step, nbReaders>>,
           \A u \in Components \ {x} : at'[u] = at[u],
           at[x] \notin {"absent", "exit", "ended"}, ~AtStep(x, "child"),
           at'[x] \notin {"absent", "created", "ended"}
    PROVE  TreeFits'
<1>0. \A u \in Components \ {x} : Same(u)
  BY DEF Same
<1>1. ASSUME NEW c \in Children(x), InTree(x)
      PROVE  FamilyFits(x, c)'
  <2>1. FamilyFits(x, c) /\ ~Creates(x, c) /\ c \in Components
    BY <1>1, ChildrenAreComponents DEF TreeFits, Creates
  <2>2. c \in Linked(x)' <=> c \in Linked(x)
    BY <2>1, LinkedSame
  <2> QED
    BY <2>1, <2>2 DEF FamilyFits
<1>2. ASSUME NEW p \in Components, InTree(p), x \in Children(p)
      PROVE  FamilyFits(p, x)'
  <2>1. FamilyFits(p, x) /\ p # x
    BY <1>2, ChildrenApart DEF TreeFits
  <2>2. (x \in Linked(p)' <=> x \in Linked(p)) /\ (Creates(p, x)' <=> Creates(p, x))
    BY <2>1, LinkedSame, CreatesSame
  <2> QED
    BY <2>1, <2>2 DEF FamilyFits
<1>3. MemoryFits(x)'
  <2>1. MemoryFits(x) /\ (Orphan(x)' <=> Orphan(x))
    BY OrphanSame DEF TreeFits
  <2>2. owner[x] \notin {"none", "done"}
    BY <2>1, ThreadOf DEF MemoryFits
  <2> QED
    BY <2>1, <2>2 DEF MemoryFits
<1>4. x = Server => MemoryFits(Acceptor)'
  <2>1. MemoryFits(Acceptor) /\ (Orphan(Acceptor)' <=> Orphan(Acceptor))
    BY OrphanSame, ThreeComponents DEF TreeFits
  <2> QED
    BY <2>1, ThreeComponents DEF MemoryFits
<1>5. ReadersFit'
  BY ReadersSame DEF TreeFits
<1> QED
  BY <1>0, <1>1, <1>2, <1>3, <1>4, <1>5, OneMoves

\* The exit callback frees the rest when the children are gone.
LEMMA EndTree ==
    ASSUME CreationInv, OwnTypeOK, TreeFits, NEW x \in Components, EndExit(x),
           broken = "no", broken' = "no"
    PROVE  TreeFits'
<1>0. ThreadTypeOK
  BY DEF CreationInv, ThreadInv
<1>1. /\ at[x] = "exit" /\ at'[x] = "ended"
      /\ has'[x] \subseteq {"struct", "selector"}
      /\ Linked(x) = {}
      /\ UNCHANGED <<root, owner, link, step, nbReaders>>
      /\ x = Server => "address" \in has[x]
      /\ \A u \in Components \ {x} : Same(u)
  BY <1>0 DEF EndExit, EndCleanup, MoveTo, OwnTypeOK, ThreadTypeOK, Same
<1>2. ASSUME NEW c \in Children(x), InTree(x)
      PROVE  FamilyFits(x, c)'
  <2>1. FamilyFits(x, c) /\ c \in Components /\ c # x /\ ~Creates(x, c)
    BY <1>1, <1>2, ChildrenAreComponents, ChildrenApart DEF TreeFits, Creates, AtStep
  <2>2. c \notin Linked(x) /\ (c \in Linked(x)' <=> c \in Linked(x))
    BY <1>1, <2>1, LinkedSame
  <2>3. Same(c)
    BY <1>1, <2>1
  <2> QED
    BY <1>1, <2>1, <2>2, <2>3 DEF FamilyFits, Same
<1>3. ASSUME NEW p \in Components, InTree(p), x \in Children(p)
      PROVE  FamilyFits(p, x)'
  <2>1. FamilyFits(p, x) /\ p # x
    BY <1>3, ChildrenApart DEF TreeFits
  <2>2. at'[p] = at[p] /\ step'[p] = step[p]
    BY <1>1, <2>1 DEF Same
  <2>3. (x \in Linked(p)' <=> x \in Linked(p)) /\ (Creates(p, x)' <=> Creates(p, x))
    BY <1>1, <2>2, LinkedSame, CreatesSame
  <2>4. owner[x] # "failed"
    BY <1>1, ThreadOf
  <2> QED
    BY <1>1, <2>1, <2>2, <2>3, <2>4 DEF FamilyFits
<1>4. MemoryFits(x)'
  <2>1. MemoryFits(x) /\ (Orphan(x)' <=> Orphan(x))
    BY <1>1, OrphanSame DEF TreeFits
  <2>2. owner[x] \notin {"none", "done", "made", "failed"}
    BY <1>1, <2>1, ThreadOf DEF MemoryFits
  <2> QED
    BY <1>1, <2>1, <2>2 DEF MemoryFits
<1>5. x = Server => MemoryFits(Acceptor)'
  <2>1. MemoryFits(Acceptor) /\ (Orphan(Acceptor)' <=> Orphan(Acceptor))
    BY <1>1, OrphanSame, ThreeComponents DEF TreeFits
  <2> QED
    BY <1>1, <2>1, ThreeComponents DEF MemoryFits, Same
<1>6. ReadersFit'
  BY <1>1, ReadersSame, ThreeComponents DEF TreeFits
<1>7. \A u \in Components \ {x} : step'[u] = step[u]
  BY <1>1
<1> QED
  BY <1>1, <1>2, <1>3, <1>4, <1>5, <1>6, <1>7, OneMoves

-----------------------------------------------------------------------------
(* The initialization callbacks.                                           *)

LEMMA ResourceTree ==
    ASSUME CreationInv, OwnTypeOK, TreeFits, NEW x \in Components, MakeResource(x)
    PROVE  TreeFits'
<1>0. StepInv
  BY DEF CreationInv
<1>1. PICK r \in {"selector", "queue", "pool", "socket"} :
          AtStep(x, r) /\ has' = [has EXCEPT ![x] = @ \cup {r}]
  BY DEF MakeResource
<1>2. /\ step' = [step EXCEPT ![x] = @ + 1]
      /\ UNCHANGED <<root, at, owner, link, nbReaders>>
  BY DEF MakeResource, NextStep, threadVars, thread
<1>3. \A u \in Components \ {x} : Same(u) /\ step'[u] = step[u]
  BY <1>0, <1>1, <1>2 DEF OwnTypeOK, StepInv, Same
<1>4. at[x] = "init" /\ ~AtStep(x, "child")
  BY <1>1 DEF AtStep
<1>5. owner[x] = "starting"
  BY <1>4, ThreadOf
<1>6. ASSUME NEW c \in Children(x), InTree(x)
      PROVE  FamilyFits(x, c)'
  <2>1. FamilyFits(x, c) /\ c \in Components /\ c # x /\ ~Creates(x, c)
    BY <1>4, <1>6, ChildrenAreComponents, ChildrenApart DEF TreeFits, Creates
  <2>2. c \in Linked(x)' <=> c \in Linked(x)
    BY <1>2, <2>1, LinkedSame
  <2>3. Same(c)
    BY <1>3, <2>1
  <2> QED
    BY <1>2, <1>4, <2>1, <2>2, <2>3 DEF FamilyFits, Same
<1>7. ASSUME NEW p \in Components, InTree(p), x \in Children(p)
      PROVE  FamilyFits(p, x)'
  <2>1. FamilyFits(p, x) /\ p # x
    BY <1>7, ChildrenApart DEF TreeFits
  <2>2. at'[p] = at[p] /\ step'[p] = step[p]
    BY <1>2, <1>3, <2>1
  <2>3. (x \in Linked(p)' <=> x \in Linked(p)) /\ (Creates(p, x)' <=> Creates(p, x))
    BY <1>2, <2>2, LinkedSame, CreatesSame
  <2> QED
    BY <1>2, <1>5, <2>1, <2>2, <2>3 DEF FamilyFits
<1>8. MemoryFits(x)'
  <2>1. MemoryFits(x) /\ (Orphan(x)' <=> Orphan(x))
    BY <1>2, OrphanSame DEF TreeFits
  <2> QED
    BY <1>2, <1>4, <1>5, <2>1 DEF MemoryFits
<1>9. x = Server => MemoryFits(Acceptor)'
  <2>1. MemoryFits(Acceptor) /\ (Orphan(Acceptor)' <=> Orphan(Acceptor))
    BY <1>2, OrphanSame, ThreeComponents DEF TreeFits
  <2>2. x = Server => has'[Acceptor] = has[Acceptor]
    BY <1>3, ThreeComponents DEF Same
  <2> QED
    BY <1>2, <1>4, <2>1, <2>2, ThreeComponents DEF MemoryFits
<1>10. ReadersFit'
  <2>1. CASE x # Acceptor
    BY <1>2, <1>3, <2>1, ReadersSame, ThreeComponents DEF TreeFits
  <2>2. CASE x = Acceptor
    <3>1. step[x] = NbPipes + 1 /\ step'[x] = NbPipes + 2
      BY <1>0, <1>1, <1>2, <2>2, AcceptorSteps DEF StepInv
    <3>2. Children(Acceptor)' = Children(Acceptor)
      BY DEF Children
    <3>3. \A c \in Children(Acceptor) : c[2] \in 1 .. NbPipes
      BY DEF Children, Kind, Acceptor
    <3> QED
      BY <1>2, <2>2, <3>1, <3>2, <3>3 DEF TreeFits, ReadersFit
  <2> QED
    BY <2>1, <2>2
<1> QED
  BY <1>2, <1>3, <1>6, <1>7, <1>8, <1>9, <1>10, OneMoves

\* NewThread and ThreadStart, called by the user or by the callback of t.
LEMMA CreationTree ==
    ASSUME CreationInv, TreeFits, NEW x \in Components,
           UNCHANGED <<root, link, step, nbReaders>>,
           \A u \in Components \ {x} : Same(u),
           at[x] = "absent", at'[x] \in {"absent", "created"},
           owner'[x] \in {"made", "starting", "failed"},
           Kind(x) \in {"reader", "worker", "writer"} /\ owner'[x] \in {"made", "failed"} =>
               has'[x] \subseteq {"struct"},
           x = root \/ \E t \in Components : AtStep(t, "child") /\ Child(t) = x
    PROVE  TreeFits'
<1>0. StepInv
  BY DEF CreationInv
<1>1. ASSUME NEW c \in Children(x), InTree(x)
      PROVE  FamilyFits(x, c)'
  <2>1. FamilyFits(x, c) /\ c \in Components /\ c # x /\ Same(c)
    BY <1>1, ChildrenAreComponents, ChildrenApart DEF TreeFits
  <2>2. owner[c] = "none"
    BY <2>1 DEF FamilyFits
  <2> QED
    BY <2>1, <2>2 DEF FamilyFits, Same
<1>2. ASSUME NEW t \in Components, AtStep(t, "child"), Child(t) = x
      PROVE  InTree(t) /\ x \in Children(t) /\ at[t] = "init"
  BY <1>0, <1>2, ChildIsChild, CreatedInTree DEF AtStep
<1>3. ASSUME NEW p \in Components, InTree(p), x \in Children(p)
      PROVE  FamilyFits(p, x)'
  <2>1. x # root /\ x # p
    BY <1>0, <1>3, ChildrenApart DEF StepInv
  <2>2. PICK t \in Components : AtStep(t, "child") /\ Child(t) = x
    BY <2>1
  <2>3. t = p /\ at[p] = "init"
    BY <1>2, <1>3, <2>2, OneParentInTree
  <2>4. Creates(p, x) /\ at'[p] = "init"
    BY <2>1, <2>2, <2>3 DEF Creates, Same
  <2>5. Creates(p, x)'
    BY <2>3, <2>4, CreatesSame
  <2> QED
    BY <2>4, <2>5 DEF FamilyFits
<1>4. MemoryFits(x)'
  <2>1. ~Orphan(x)
    BY <1>2 DEF Orphan
  <2>2. Orphan(x)' <=> Orphan(x)
    BY OrphanSame
  <2> QED
    BY <2>1, <2>2 DEF MemoryFits
<1>5. x = Server => MemoryFits(Acceptor)'
  <2>1. MemoryFits(Acceptor) /\ (Orphan(Acceptor)' <=> Orphan(Acceptor))
    BY OrphanSame, ThreeComponents DEF TreeFits
  <2>2. x = Server => Same(Acceptor)
    BY ThreeComponents
  <2> QED
    BY <2>1, <2>2, ThreeComponents DEF MemoryFits, Same
<1>6. ReadersFit'
  BY ReadersSame DEF TreeFits
<1> QED
  BY <1>1, <1>3, <1>4, <1>5, <1>6, OneMoves

\* What the calls do to the thread and to the structure.
LEMMA NewThreadTree ==
    ASSUME CreationInv, OwnTypeOK, TreeFits, NEW x \in Components, NewThread(x),
           has' = [has EXCEPT ![x] = Prepared[Kind(x)]],
           UNCHANGED <<root, link, step, nbReaders>>,
           x = root \/ \E t \in Components : AtStep(t, "child") /\ Child(t) = x
    PROVE  TreeFits'
<1>0. ThreadTypeOK
  BY DEF CreationInv, ThreadInv
<1>1. owner[x] = "none"
  BY Creating DEF CreationInv
<1>2. at[x] = "absent" /\ at' = at
  BY <1>1, ThreadOf DEF NewThread
<1>3. owner'[x] = "made" /\ has'[x] = Prepared[Kind(x)]
  BY <1>0 DEF NewThread, OwnTypeOK, ThreadTypeOK
<1>4. \A u \in Components \ {x} : Same(u)
  BY <1>0, <1>2 DEF NewThread, OwnTypeOK, ThreadTypeOK, Same
<1>5. Kind(x) \in {"reader", "worker", "writer"} => has'[x] \subseteq {"struct"}
  BY <1>3 DEF Prepared
<1> QED
  BY <1>2, <1>3, <1>4, <1>5, CreationTree

LEMMA StartTree ==
    ASSUME CreationInv, OwnTypeOK, TreeFits, NEW x \in Components,
           ThreadStart(x) \/ ThreadStartFails(x),
           UNCHANGED <<root, structures, step, nbReaders>>,
           x = root \/ \E t \in Components : AtStep(t, "child") /\ Child(t) = x
    PROVE  TreeFits'
<1>0. ThreadTypeOK
  BY DEF CreationInv, ThreadInv
<1>1. owner[x] = "made"
  BY DEF ThreadStart, ThreadStartFails
<1>2. at[x] = "absent" /\ at'[x] \in {"absent", "created"} /\ owner'[x] \in {"starting", "failed"}
  BY <1>0, <1>1, ThreadOf DEF ThreadStart, ThreadStartFails, thread, ThreadTypeOK
<1>3. \A u \in Components \ {x} : Same(u)
  BY <1>0 DEF ThreadStart, ThreadStartFails, thread, ThreadTypeOK, structures, Same
<1>4. Kind(x) \in {"reader", "worker", "writer"} => has'[x] \subseteq {"struct"}
  BY <1>1 DEF TreeFits, MemoryFits, structures
<1> QED
  BY <1>2, <1>3, <1>4, CreationTree DEF structures

\* The child is there, and its creator points to it.
LEMMA StartedTree ==
    ASSUME CreationInv, OwnTypeOK, TreeFits, NEW t \in Components, ChildStarted(t)
    PROVE  TreeFits'
<1> DEFINE x == Child(t)
<1>0. ThreadTypeOK /\ StepInv
  BY DEF CreationInv, ThreadInv
<1>1. /\ AtStep(t, "child") /\ at[t] = "init"
      /\ owner[x] = "starting"
      /\ owner' = [owner EXCEPT ![x] = "started"]
      /\ link' = link \cup {x}
      /\ step' = [step EXCEPT ![t] = @ + 1]
      /\ UNCHANGED <<root, at, has, nbReaders>>
  BY DEF ChildStarted, ThreadStarted, NextStep, thread, AtStep
<1>2. x \in Components /\ x \in Children(t) /\ InTree(t)
  BY <1>0, <1>1, ChildIsComponent, ChildIsChild, CreatedInTree
<1>3. t = Acceptor => x = <<"reader", step[t]>> /\ step[t] \in 1 .. NbPipes /\ root = Server
  <2>1. Kind(Acceptor) = "acceptor"
    BY KindIsAcceptor, ThreeComponents
  <2> QED
    BY <1>0, <1>1, <1>2, <2>1, AcceptorSteps DEF Child, InTree
<1>4. \A c : Creates(t, c) => c = x
  BY DEF Creates
<1>5. x # t /\ (x = Acceptor => t = Server) /\ x \notin {Server, Client}
  BY <1>2, ChildrenApart
<1> HIDE DEF x
<1>6. /\ owner'[x] = "started" /\ x \in link'
      /\ \A u \in Components \ {x} : Same(u)
      /\ \A u \in Components \ {t} : step'[u] = step[u]
      /\ step'[t] = step[t] + 1
  BY <1>0, <1>1, <1>2 DEF ThreadTypeOK, StepInv, Same
<1>7. ReadersFit'
  <2>1. CASE t # Acceptor
    <3>1. x \notin Children(Acceptor) \/ root # Server
      <4>1. ASSUME x \in Children(Acceptor), root = Server
            PROVE  FALSE
        <5>1. InTree(Acceptor)
          BY <4>1, ThreeComponents DEF InTree
        <5> QED
          BY <1>2, <2>1, <4>1, <5>1, OneParentInTree, ThreeComponents
      <4> QED
        BY <4>1
    <3>2. Children(Acceptor)' = Children(Acceptor)
      BY DEF Children
    <3>3. step'[Acceptor] = step[Acceptor]
      BY <1>6, <2>1, ThreeComponents
    <3> QED
      BY <1>1, <3>1, <3>2, <3>3 DEF TreeFits, ReadersFit
  <2>2. CASE t = Acceptor
    <3>1. /\ nbReaders = NbPipes /\ step[Acceptor] \in 1 .. NbPipes
          /\ \A c \in Children(Acceptor) \cap link : c[2] < step[Acceptor] /\ c[2] <= nbReaders
      BY <1>3, <2>2 DEF TreeFits, ReadersFit
    <3>2. x[2] = step[Acceptor]
      BY <1>3, <2>2
    <3>3. Children(Acceptor)' = Children(Acceptor)
      BY DEF Children
    <3>4. \A c \in Children(Acceptor) : c[2] \in 1 .. NbPipes
      BY DEF Children, Kind, Acceptor
    <3>5. step'[Acceptor] = step[Acceptor] + 1 /\ UNCHANGED nbReaders
      BY <1>1, <1>6, <2>2
    <3>6. ASSUME NEW c \in Children(Acceptor) \cap link'
          PROVE  c[2] < step'[Acceptor] /\ c[2] <= nbReaders'
      <4>1. CASE c = x
        BY <3>1, <3>2, <3>5, <4>1
      <4>2. CASE c # x
        <5>1. c \in Children(Acceptor) \cap link
          BY <1>1, <3>6, <4>2
        <5> QED
          BY <3>1, <3>4, <3>5, <5>1
      <4> QED
        BY <4>1, <4>2
    <3> QED
      BY <3>1, <3>3, <3>5, <3>6 DEF ReadersFit
  <2> QED
    BY <2>1, <2>2
<1>8. ASSUME NEW p \in Components, InTree(p), NEW c \in Children(p)
      PROVE  FamilyFits(p, c)'
  <2>0. FamilyFits(p, c) /\ c \in Components
    BY <1>8, ChildrenAreComponents DEF TreeFits
  <2>1. CASE c = x
    <3>1. p = t
      BY <1>2, <1>8, <2>1, OneParentInTree
    <3>2. x \in Linked(t)'
      <4>1. Children(t)' = Children(t)
        BY DEF Children
      <4>2. ASSUME t = Acceptor
            PROVE  x[2] <= nbReaders'
        <5>1. x \in Children(Acceptor)' \cap link' /\ root' = Server
          BY <1>1, <1>2, <1>3, <1>6, <4>1, <4>2
        <5> QED
          BY <1>7, <5>1 DEF ReadersFit
      <4>3. Kind(t) = "acceptor" => x[2] <= nbReaders'
        BY <4>2, KindIsAcceptor
      <4>4. x \in Children(t)' \cap link'
        BY <1>2, <1>6, <4>1
      <4> QED
        BY <4>3, <4>4 DEF Linked
    <3> QED
      BY <1>1, <1>6, <2>1, <3>1, <3>2 DEF FamilyFits
  <2>2. CASE c # x /\ p = t
    <3>1. ~Creates(t, c) /\ Same(c) /\ at'[t] = "init"
      BY <1>1, <1>4, <1>6, <2>0, <2>2
    <3>2. c \in Linked(t)' <=> c \in Linked(t)
      BY <1>1, <2>0, <3>1, LinkedSame DEF Same
    <3> QED
      BY <1>1, <2>0, <2>2, <3>1, <3>2 DEF FamilyFits, Same
  <2>3. CASE c # x /\ p # t
    BY <1>1, <1>6, <2>0, <2>3, FamilySame
  <2> QED
    BY <2>1, <2>2, <2>3
<1>9. ASSUME NEW c \in Components
      PROVE  MemoryFits(c)'
  <2>1. CASE c # x
    BY <1>1, <1>5, <1>6, <2>1, MemorySame, ThreeComponents DEF TreeFits
  <2>2. CASE c = x
    <3>1. MemoryFits(c) /\ (Orphan(c)' <=> Orphan(c))
      BY <1>1, OrphanSame DEF TreeFits
    <3>2. owner[c] = "starting" /\ owner'[c] = "started"
      BY <1>1, <1>6, <2>2
    <3> QED
      BY <1>1, <3>1, <3>2 DEF MemoryFits
  <2> QED
    BY <2>1, <2>2
<1>10. \A p : (InTree(p)' <=> InTree(p)) /\ Children(p)' = Children(p)
  BY <1>1 DEF InTree, Children
<1> QED
  BY <1>7, <1>8, <1>9, <1>10 DEF TreeFits

\* A creation fails and the callback with it.
LEMMA GiveUpTree ==
    ASSUME CreationInv, TreeFits, NEW t \in Components, NEW x \in Components,
           AtStep(t, "child"), Child(t) = x, t # Acceptor,
           at'[t] = "exit", \A u \in Components \ {t} : at'[u] = at[u],
           UNCHANGED <<root, owner, link, step, nbReaders>>,
           \A u \in Components \ {t, x} : has'[u] = has[u],
           owner[x] \in {"none", "failed"},
           x # Acceptor => has'[x] = {} /\ has'[t] = has[t],
           x = Acceptor => /\ owner[x] = "none"
                           /\ has'[x] = {} \/ "address" \notin has'[Server]
    PROVE  TreeFits'
<1>0. StepInv /\ at[t] = "init"
  BY DEF CreationInv, AtStep
<1>1. x \in Children(t) /\ InTree(t) /\ x # t
  BY <1>0, ChildIsChild, CreatedInTree, ChildrenApart
<1>2. \A u \in Components \ {t, x} : Same(u)
  BY DEF Same
<1>3. owner[t] = "starting"
  BY <1>0, ThreadOf
<1>4. ASSUME NEW p \in Components, InTree(p), NEW c \in Children(p)
      PROVE  FamilyFits(p, c)'
  <2>0. FamilyFits(p, c) /\ c \in Components /\ c # p
    BY <1>4, ChildrenAreComponents, ChildrenApart DEF TreeFits
  <2>1. c \in Linked(p)' <=> c \in Linked(p)
    BY <2>0, LinkedSame
  <2>2. CASE p = t
    <3>1. c # x => ~Creates(t, c) /\ Same(c)
      BY <1>2, <2>0, <2>2 DEF Creates
    <3>2. CASE c = x
      <4>1. owner[c] = "failed" => has'[c] = {}
        BY <3>2
      <4> QED
        BY <2>0, <2>1, <2>2, <3>2, <4>1 DEF FamilyFits
    <3>3. CASE c # x
      BY <2>0, <2>1, <2>2, <3>1, <3>3 DEF FamilyFits, Same
    <3> QED
      BY <3>2, <3>3
  <2>3. CASE p # t /\ c = t
    <3>1. Creates(p, c)' <=> Creates(p, c)
      BY <2>3, CreatesSame
    <3> QED
      BY <1>3, <2>0, <2>1, <2>3, <3>1 DEF FamilyFits
  <2>4. CASE p # t /\ c # t
    <3>1. c # x
      BY <1>1, <1>4, <2>4, OneParentInTree
    <3> QED
      BY <1>2, <2>0, <2>4, <3>1, FamilySame
  <2> QED
    BY <2>2, <2>3, <2>4
<1>5. ASSUME NEW c \in Components
      PROVE  MemoryFits(c)'
  <2>0. MemoryFits(c) /\ (Orphan(c)' <=> Orphan(c))
    BY OrphanSame DEF TreeFits
  <2>1. CASE c = t
    BY <1>0, <1>3, <2>0, <2>1 DEF MemoryFits
  <2>2. CASE c = x
    <3>1. at[x] = "absent" /\ at'[x] = "absent"
      BY <1>1, ThreadOf
    <3>2. x = Acceptor => t = Server
      BY <1>1, ChildrenApart
    <3>3. CASE x # Acceptor
      BY <2>0, <2>2, <3>1, <3>3 DEF MemoryFits
    <3>4. CASE x = Acceptor
      <4>1. at'[Server] = "exit" /\ Kind(x) \notin {"reader", "worker", "writer"}
        BY <3>2, <3>4, ThreeComponents
      <4> QED
        BY <2>0, <2>2, <3>1, <3>4, <4>1 DEF MemoryFits
    <3> QED
      BY <3>3, <3>4
  <2>3. CASE c \notin {t, x}
    <3>1. c = Acceptor => t # Server
      BY <1>1, <2>3, ChildrenApart
    <3>2. x # Server
      BY <1>1, ChildrenApart
    <3> QED
      BY <1>2, <2>0, <2>3, <3>1, <3>2, MemorySame, ThreeComponents
  <2> QED
    BY <2>1, <2>2, <2>3
<1>6. ReadersFit'
  BY ReadersSame DEF TreeFits
<1>7. \A p : (InTree(p)' <=> InTree(p)) /\ Children(p)' = Children(p)
  BY DEF InTree, Children
<1> QED
  BY <1>4, <1>5, <1>6, <1>7 DEF TreeFits

\* The acceptor does with the readers it has.
LEMMA FewerReadersTree ==
    ASSUME CreationInv, TreeFits, NEW x \in Components,
           AtStep(Acceptor, "child"), Child(Acceptor) = x,
           UNCHANGED <<root, at, owner, link>>,
           nbReaders' = step[Acceptor] - 1,
           step'[Acceptor] = NbPipes + 1,
           \A u \in Components \ {Acceptor} : step'[u] = step[u],
           \A u \in Components \ {x} : has'[u] = has[u],
           owner[x] \in {"none", "failed"}, has'[x] = {}
    PROVE  TreeFits'
<1>0. /\ StepInv /\ Acceptor \in Components /\ at[Acceptor] = "init"
      /\ step[Acceptor] \in 1 .. NbPipes
  BY AcceptorSteps, ThreeComponents DEF CreationInv, AtStep
<1>1. x \in Children(Acceptor) /\ InTree(Acceptor) /\ x # Acceptor /\ root = Server
  BY <1>0, ChildIsChild, CreatedInTree, ChildrenApart DEF InTree
<1>2. \A u \in Components \ {x} : Same(u)
  BY DEF Same
<1>3. \A c \in Children(Acceptor) \cap link : c[2] < step[Acceptor]
  BY <1>1 DEF TreeFits, ReadersFit
<1>4. \A c \in Children(Acceptor) : c[2] \in 1 .. NbPipes
  BY DEF Children, Kind, Acceptor
<1>5. \A p : (InTree(p)' <=> InTree(p)) /\ Children(p)' = Children(p)
  BY DEF InTree, Children
<1>6. \A c \in Children(Acceptor) \cap link : c[2] <= nbReaders' /\ c[2] < step'[Acceptor]
  <2> TAKE c \in Children(Acceptor) \cap link
  <2>1. c[2] < step[Acceptor] /\ c[2] \in 1 .. NbPipes
    BY <1>3, <1>4
  <2> QED
    BY <1>0, <2>1
<1>7. ASSUME NEW p \in Components, InTree(p), NEW c \in Children(p)
      PROVE  FamilyFits(p, c)'
  <2>0. FamilyFits(p, c) /\ c \in Components /\ c # p
    BY <1>7, ChildrenAreComponents, ChildrenApart DEF TreeFits
  <2>1. CASE p = Acceptor /\ c = x
    BY <1>0, <2>0, <2>1 DEF FamilyFits
  <2>2. CASE p = Acceptor /\ c # x
    <3>1. ~Creates(p, c) /\ Same(c)
      BY <1>2, <2>0, <2>2 DEF Creates
    <3>2. c \in Linked(p) => c \in Linked(p)'
      <4>1. c \in Linked(p) => c \in Children(Acceptor) \cap link
        BY <2>2 DEF Linked
      <4>2. Children(p)' = Children(p)
        BY <1>5
      <4> QED
        BY <1>6, <2>2, <4>1, <4>2 DEF Linked
    <3> QED
      BY <1>0, <2>0, <2>2, <3>1, <3>2 DEF FamilyFits, Same
  <2>3. CASE p # Acceptor
    <3>1. c # x
      BY <1>0, <1>1, <1>7, <2>3, OneParentInTree
    <3> QED
      BY <1>2, <2>0, <2>3, <3>1, FamilySame
  <2> QED
    BY <2>1, <2>2, <2>3
<1>8. ASSUME NEW c \in Components
      PROVE  MemoryFits(c)'
  <2>0. MemoryFits(c) /\ (Orphan(c)' <=> Orphan(c)) /\ x # Server
    BY <1>0, <1>1, OrphanSame, ChildrenApart DEF TreeFits
  <2>1. CASE c = x
    <3>1. at[x] = "absent"
      BY ThreadOf
    <3> QED
      BY <2>0, <2>1, <3>1 DEF MemoryFits
  <2>2. CASE c # x
    BY <1>2, <2>0, <2>2, MemorySame, ThreeComponents
  <2> QED
    BY <2>1, <2>2
<1>9. ReadersFit'
  BY <1>0, <1>5, <1>6 DEF ReadersFit
<1> QED
  BY <1>5, <1>7, <1>8, <1>9 DEF TreeFits

\* The constructor of the child returns NULL.
LEMMA NoChildTree ==
    ASSUME CreationInv, OwnTypeOK, TreeFits, NEW t \in Components,
           NoStructure(t) \/ NoReaders(t) \/ NoThread(t), broken = "no", broken' = "no"
    PROVE  TreeFits'
<1>0. ThreadTypeOK /\ StepInv
  BY DEF CreationInv, ThreadInv
<1>1. PICK x \in Components : x = Child(t)
  BY <1>0, ChildIsComponent DEF NoStructure, NoReaders, NoThread
<1>2. /\ AtStep(t, "child") /\ at[t] = "init" /\ WithoutChild(t)
      /\ owner[x] \in {"none", "failed"}
      /\ UNCHANGED <<root, link>>
  BY <1>1 DEF NoStructure, NoReaders, NoThread, structures, AtStep
<1>3. x \in Children(t) /\ InTree(t) /\ x # t /\ (x = Acceptor => t = Server) /\ x # Server
  BY <1>0, <1>1, <1>2, ChildIsChild, CreatedInTree, ChildrenApart
<1>4. owner[x] = "none" => has[x] = {}
  BY <1>2, <1>3, ThreeComponents DEF TreeFits, MemoryFits
<1>5. x # Acceptor => has[x] \subseteq {"struct"}
  <2>1. x # Acceptor => Kind(x) \in {"reader", "worker", "writer"}
    BY <1>3, ChildrenApart
  <2> QED
    BY <1>2, <1>4, <2>1 DEF TreeFits, MemoryFits
<1>6. /\ x # Acceptor => has'[x] = {} /\ \A u \in Components \ {x} : has'[u] = has[u]
      /\ x = Acceptor => /\ owner[x] = "none"
                         /\ has'[x] = {} \/ "address" \notin has'[Server]
      /\ \A u \in Components \ {t, x} : has'[u] = has[u]
  <2>1. CASE NoStructure(t)
    BY <1>1, <1>4, <2>1 DEF NoStructure, structures
  <2>2. CASE NoReaders(t)
    <3>1. x = Acceptor /\ t = Server /\ owner[x] = "none"
      BY <1>1, <1>3, <2>2 DEF NoReaders
    <3>2. has' = [has EXCEPT ![Acceptor] = {"queue"}, ![Server] = @ \ {"address"}]
      BY <2>2 DEF NoReaders
    <3>3. "address" \notin has'[Server] /\ \A u \in Components \ {t, x} : has'[u] = has[u]
      BY <3>1, <3>2, ThreeComponents DEF OwnTypeOK
    <3> QED
      BY <3>1, <3>3
  <2>3. CASE NoThread(t)
    <3>1. has' = [has EXCEPT ![x] = @ \ {"struct", "selector"}] /\ x # Acceptor
      BY <1>1, <2>3 DEF NoThread
    <3>2. has'[x] = has[x] \ {"struct", "selector"} /\ \A u \in Components \ {x} : has'[u] = has[u]
      BY <3>1 DEF OwnTypeOK
    <3> QED
      BY <1>5, <3>1, <3>2
  <2> QED
    BY <2>1, <2>2, <2>3
<1>7. CASE t = Acceptor
  <2>1. /\ nbReaders' = step[Acceptor] - 1
        /\ step' = [step EXCEPT ![Acceptor] = NbPipes + 1]
        /\ UNCHANGED <<at, owner>>
    BY <1>2, <1>7, KindIsAcceptor DEF WithoutChild, threadVars, thread
  <2>2. step'[Acceptor] = NbPipes + 1 /\ \A u \in Components \ {Acceptor} : step'[u] = step[u]
    BY <1>0, <2>1, ThreeComponents DEF StepInv
  <2> QED
    BY <1>1, <1>2, <1>3, <1>6, <1>7, <2>1, <2>2, FewerReadersTree
<1>8. CASE t # Acceptor
  <2>1. EndInit(t, FALSE) /\ UNCHANGED <<step, nbReaders>>
    BY <1>2, <1>8, KindIsAcceptor DEF WithoutChild
  <2>2. at'[t] = "exit" /\ (\A u \in Components \ {t} : at'[u] = at[u]) /\ UNCHANGED owner
    BY <1>0, <2>1 DEF EndInit, MoveTo, ThreadTypeOK
  <2> QED
    BY <1>1, <1>2, <1>3, <1>6, <1>8, <2>1, <2>2, GiveUpTree
<1> QED
  BY <1>7, <1>8

LEMMA InitializeTree ==
    ASSUME CreationInv, OwnTypeOK, TreeFits, NEW t \in Components, Initialize(t),
           broken = "no", broken' = "no"
    PROVE  TreeFits'
<1>0. ThreadTypeOK /\ StepInv /\ step[t] \in Nat \ {0}
  BY DEF CreationInv, ThreadInv, StepInv
<1>1. CASE Begin(t)
  <2>1. /\ at[t] = "created" /\ at' = [at EXCEPT ![t] = "init"]
        /\ UNCHANGED <<root, owner, has, link, step, nbReaders>>
    BY <1>1 DEF Begin, BeginInit, MoveTo, lifeVars, structures
  <2> QED
    BY <1>0, <2>1, StageMoves DEF AtStep, ThreadTypeOK
<1>2. CASE ResourceFails(t) \/ Initialized(t)
  <2>1. PICK run \in BOOLEAN : EndInit(t, run)
    BY <1>2 DEF ResourceFails, Initialized
  <2>2. /\ at[t] = "init" /\ at'[t] \in {"run", "exit"}
        /\ \A u \in Components \ {t} : at'[u] = at[u]
        /\ UNCHANGED owner
    BY <1>0, <2>1 DEF EndInit, MoveTo, ThreadTypeOK
  <2>3. UNCHANGED <<root, has, link, step, nbReaders>>
    BY <1>2 DEF ResourceFails, Initialized, lifeVars, structures
  <2>4. ~AtStep(t, "child")
    <3>1. CASE ResourceFails(t)
      BY <3>1 DEF ResourceFails, AtStep
    <3>2. CASE Initialized(t)
      BY <1>0, <3>2, Z3 DEF Initialized, AtStep, InitSteps
    <3> QED
      BY <1>2, <3>1, <3>2
  <2> QED
    BY <2>2, <2>3, <2>4, StageMoves
<1>3. CASE MakeResource(t)
  BY <1>3, ResourceTree
<1>4. CASE NewChild(t)
  <2>1. PICK x \in Components : x = Child(t)
    BY <1>0, <1>4, ChildIsComponent DEF NewChild
  <2> QED
    BY <1>4, <2>1, NewThreadTree DEF NewChild
<1>5. CASE StartChild(t)
  <2>1. PICK x \in Components : x = Child(t)
    BY <1>0, <1>5, ChildIsComponent DEF StartChild
  <2> QED
    BY <1>5, <2>1, StartTree DEF StartChild
<1>6. CASE ChildStarted(t)
  BY <1>6, StartedTree
<1>7. CASE NoStructure(t) \/ NoReaders(t) \/ NoThread(t)
  BY <1>7, NoChildTree
<1> QED
  BY <1>1, <1>2, <1>3, <1>4, <1>5, <1>6, <1>7 DEF Initialize

\* ThreadStart returns to the user.
LEMMA RootStartedTree ==
    ASSUME CreationInv, TreeFits, RootStarted
    PROVE  TreeFits'
<1>0. ThreadTypeOK /\ StepInv
  BY DEF CreationInv, ThreadInv
<1>1. PICK x \in Components : x = root
  BY <1>0, RootIsComponent
<1>2. /\ owner[x] = "starting" /\ owner'[x] = "started"
      /\ \A u \in Components \ {x} : Same(u)
      /\ UNCHANGED <<root, at, has, link, step, nbReaders>>
  BY <1>0, <1>1 DEF RootStarted, ThreadStarted, thread, ThreadTypeOK, lifeVars, structures, Same
<1>3. ASSUME NEW c \in Children(x), InTree(x)
      PROVE  FamilyFits(x, c)'
  <2>1. FamilyFits(x, c) /\ c \in Components /\ c # x
    BY <1>3, ChildrenAreComponents, ChildrenApart DEF TreeFits
  <2> QED
    BY <1>2, <2>1, FamilySame
<1>4. \A p \in Components : x \notin Children(p)
  BY <1>0, <1>1, ChildrenApart DEF StepInv
<1>5. MemoryFits(x)'
  <2>1. MemoryFits(x) /\ (Orphan(x)' <=> Orphan(x))
    BY <1>2, OrphanSame DEF TreeFits
  <2> QED
    BY <1>2, <2>1 DEF MemoryFits
<1>6. x = Server => MemoryFits(Acceptor)'
  <2>1. MemoryFits(Acceptor) /\ (Orphan(Acceptor)' <=> Orphan(Acceptor))
    BY <1>2, OrphanSame, ThreeComponents DEF TreeFits
  <2> QED
    BY <1>2, <2>1, ThreeComponents DEF MemoryFits, Same
<1>7. ReadersFit'
  BY <1>2, ReadersSame DEF TreeFits
<1>8. \A u \in Components \ {x} : step'[u] = step[u]
  BY <1>2
<1> QED
  BY <1>2, <1>3, <1>4, <1>5, <1>6, <1>7, <1>8, OneMoves

LEMMA UserTree ==
    ASSUME CreationInv, OwnTypeOK, TreeFits, User, broken = "no", broken' = "no"
    PROVE  TreeFits'
<1>0. ThreadTypeOK /\ StepInv
  BY DEF CreationInv, ThreadInv
<1>1. PICK x \in Components : x = root
  BY <1>0, RootIsComponent
<1>2. CASE NewRoot
  BY <1>1, <1>2, NewThreadTree DEF NewRoot
<1>3. CASE StartRoot
  BY <1>1, <1>3, StartTree DEF StartRoot
<1>4. CASE RootStarted
  BY <1>1, <1>4, RootStartedTree
<1>5. CASE ServerStop
  BY <1>5, NothingMoves DEF ServerStop, threadVars, thread, structures
<1>6. CASE JoinFinds(root) \/ JoinReturns(root)
  BY <1>1, <1>6, JoinTree
<1>7. CASE FreeRoot
  BY <1>1, <1>7, Freed DEF FreeRoot, FreeUnstarted, FreeThread, FreeStructure
<1>8. CASE NewRootFails
  BY <1>8, NothingMoves DEF NewRootFails, threadVars, thread, structures
<1> QED
  BY <1>2, <1>3, <1>4, <1>5, <1>6, <1>7, <1>8 DEF User

LEMMA TreeInvNext ==
    ASSUME CreationInv, OwnTypeOK, TreeInv, [Next]_vars
    PROVE  TreeInv'
<1>0. ThreadTypeOK /\ Acceptor \in Components
  BY ThreeComponents DEF CreationInv, ThreadInv
<1> SUFFICES ASSUME broken' = "no"
             PROVE  TreeFits'
  BY DEF TreeInv, TreeFits
<1>1. CASE UNCHANGED vars
  <2>1. broken = "no"
    BY <1>1 DEF vars, lifeVars
  <2>2. TreeFits
    BY <2>1 DEF TreeInv, TreeFits
  <2> QED
    BY <1>1, <2>2, NothingMoves DEF vars, lifeVars, threadVars, thread, structures
<1>2. CASE Next
  <2>0. broken = "no" /\ TreeFits
    BY <1>2 DEF Next, TreeInv, TreeFits
  <2>1. CASE User
    BY <2>0, <2>1, UserTree
  <2>2. ASSUME NEW t \in Components, Initialize(t)
        PROVE  TreeFits'
    BY <2>0, <2>2, InitializeTree
  <2>3. ASSUME NEW t \in Components, RoutineEnds(t) \/ Loop(t)
        PROVE  TreeFits'
    <3>1. /\ at[t] \in Looping
          /\ at'[t] \in {"back", "write", "run", "exit"}
          /\ \A u \in Components \ {t} : at'[u] = at[u]
          /\ UNCHANGED owner
      BY <1>0, <2>3 DEF RoutineEnds, RoutineReturns, Loop, LoopStep, TestRunning, WriteRunning,
         MoveTo, ThreadTypeOK, Looping
    <3>2. UNCHANGED <<root, has, link, step, nbReaders>>
      BY <2>3 DEF RoutineEnds, Loop, lifeVars, structures
    <3> QED
      BY <2>0, <3>1, <3>2, StageMoves DEF Looping, AtStep
  <2>4. CASE AcceptorReturns
    <3>1. /\ at[Acceptor] = "run" /\ at'[Acceptor] = "back"
          /\ \A u \in Components \ {Acceptor} : at'[u] = at[u]
          /\ UNCHANGED <<root, owner, has, link, step, nbReaders>>
      BY <1>0, <2>4 DEF AcceptorReturns, RoutineReturns, MoveTo, ThreadTypeOK, structures
    <3> QED
      BY <1>0, <2>0, <3>1, StageMoves DEF AtStep
  <2>5. ASSUME NEW t \in Components, Exit(t)
        PROVE  TreeFits'
    <3>1. CASE AskChild(t)
      <4>1. UNCHANGED <<root, at, owner, has, link, step, nbReaders>>
        BY <3>1 DEF AskChild, ThreadStop, threadVars, thread, structures
      <4> QED
        BY <2>0, <4>1, NothingMoves
    <3>2. CASE EndChild(t)
      <4>1. PICK c \in Children(t) : JoinFinds(c) \/ JoinReturns(c)
        BY <3>2 DEF EndChild, NextLinked, Linked
      <4> QED
        BY <2>0, <4>1, ChildrenAreComponents, JoinTree
    <3>3. CASE EndExit(t)
      BY <2>0, <3>3, EndTree
    <3> QED
      BY <2>5, <3>1, <3>2, <3>3 DEF Exit
  <2> QED
    BY <1>2, <2>1, <2>2, <2>3, <2>4, <2>5 DEF Next, Own
<1> QED
  BY <1>1, <1>2

LEMMA TreeInvInit ==
    ASSUME Init
    PROVE  TreeInv
<1>1. /\ \A c \in Components : owner[c] = "none" /\ at[c] = "absent" /\ has[c] = {}
      /\ link = {} /\ nbReaders = NbPipes
  BY DEF Init, ThreadInit
<1>2. ASSUME NEW t \in Components, NEW c \in Children(t)
      PROVE  FamilyFits(t, c)
  BY <1>1, ChildrenAreComponents DEF FamilyFits
<1>3. \A c \in Components : MemoryFits(c)
  BY <1>1 DEF MemoryFits
<1>4. ReadersFit
  BY <1>1 DEF ReadersFit
<1> QED
  BY <1>2, <1>3, <1>4 DEF TreeInv

-----------------------------------------------------------------------------
(* What a failure leads to.                                                *)

LEMMA FailedStays ==
    ASSUME CreationInv, OwnTypeOK, [Next]_vars, Failed
    PROVE  Failed'
<1>0. numThreads \in Nat /\ MaxThreads \in Nat /\ failures \in Nat
  BY ThreadAssumption DEF CreationInv, ThreadInv, ThreadTypeOK, OwnTypeOK
<1>1. numThreads' = numThreads \/ numThreads' = numThreads + 1
  <2>1. [ThreadNext]_threadVars
    BY StepDrives DEF CreationInv
  <2> QED
    BY <2>1 DEF ThreadNext, OwnerStep, RunStep, LoopStep, NewThread, ThreadStart, ThreadStartFails,
       ThreadStarted, ThreadStop, ThreadJoin, ThreadJoined, FreeUnstarted, BeginInit, EndInit,
       RoutineReturns, TestRunning, WriteRunning, EndCleanup, threadVars
<1>2. failures' = failures \/ failures' = failures + 1
  <2>1. ASSUME NEW t \in Components, Initialize(t)
        PROVE  failures' = failures \/ failures' = failures + 1
    BY <2>1 DEF Initialize, Begin, MakeResource, ResourceFails, NewChild, StartChild, ChildStarted,
       NoStructure, NoReaders, NoThread, Initialized, Fail, lifeVars
  <2>2. ASSUME NEW t \in Components, RoutineEnds(t) \/ Loop(t) \/ Exit(t)
        PROVE  failures' = failures
    BY <2>2 DEF RoutineEnds, Loop, Exit, AskChild, EndChild, EndExit, JoinFinds, JoinReturns, lifeVars
  <2>3. ASSUME User
        PROVE  failures' = failures \/ failures' = failures + 1
    BY <2>3 DEF User, NewRoot, NewRootFails, StartRoot, RootStarted, ServerStop, JoinFinds, JoinReturns,
       FreeRoot, Fail, lifeVars
  <2> QED
    BY <2>1, <2>2, <2>3 DEF Next, Own, AcceptorReturns, vars, lifeVars
<1> QED
  BY <1>0, <1>1, <1>2 DEF Failed, SlotLeft

LEMMA OneFails ==
    ASSUME \A c \in Components : FailureFits(c), NEW x \in Components,
           \A u \in Components \ {x} :
               /\ at'[u] = at[u]
               /\ owner'[u] = owner[u]
               /\ u \in initOk' <=> u \in initOk
               /\ u = Server /\ "address" \in has[u] => "address" \in has'[u] \/ Failed',
           asked \subseteq asked',
           Failed => Failed',
           FailureFits(x)'
    PROVE  \A c \in Components : FailureFits(c)'
<1> TAKE c \in Components
<1>1. CASE c # x
  BY <1>1 DEF FailureFits
<1> QED
  BY <1>1

\* Where a Fail or a full table is at hand.
LEMMA FailsNow ==
    ASSUME OwnTypeOK, Fail
    PROVE  Failed'
BY DEF OwnTypeOK, Fail, Failed

LEMMA NothingFails ==
    ASSUME \A c \in Components : FailureFits(c), Failed => Failed',
           UNCHANGED <<at, owner, initOk, has>>, asked \subseteq asked'
    PROVE  \A c \in Components : FailureFits(c)'
BY DEF FailureFits

\* ThreadJoin and what follows.
LEMMA JoinFails ==
    ASSUME CreationInv, OwnTypeOK, FailureInv, Failed => Failed', NEW x \in Components,
           JoinFinds(x) \/ JoinReturns(x)
    PROVE  FailureInv'
<1>0. ThreadTypeOK /\ ThreadFits(x) /\ FailureFits(x)
  BY DEF CreationInv, ThreadInv, FailureInv
<1>1. /\ at' = at /\ initOk' = initOk /\ asked' = asked
      /\ owner' = [owner EXCEPT ![x] = "joining"] \/ owner' = [owner EXCEPT ![x] = "done"]
      /\ has' = has \/ has' = [has EXCEPT ![x] = @ \ {"struct", "selector"}]
  BY DEF JoinFinds, JoinReturns, ThreadJoin, ThreadJoined, FreeThread, FreeStructure, threadHistory,
     structures, requests
<1>2. FailureFits(x)'
  <2>1. owner'[x] \in {"joining", "done"} /\ ("address" \in has[x] => "address" \in has'[x])
    BY <1>0, <1>1 DEF OwnTypeOK, ThreadTypeOK
  <2> QED
    BY <1>0, <1>1, <2>1 DEF FailureFits
<1>3. \A u \in Components \ {x} : owner'[u] = owner[u] /\ has'[u] = has[u]
  BY <1>0, <1>1 DEF OwnTypeOK, ThreadTypeOK
<1>4. \A c \in Components : FailureFits(c)'
  BY <1>1, <1>2, <1>3, OneFails DEF FailureInv
<1>5. BrokenByFailure'
  <2>1. CASE broken' = broken
    BY <2>1 DEF FailureInv, BrokenByFailure, Failed
  <2>2. CASE broken' # broken
    <3>1. owner[x] = "started" /\ ~ThreadRunning(x) /\ at[x] # "ended"
      BY <2>2 DEF JoinFinds, JoinReturns, ThreadJoin
    <3>2. at[x] \in Over /\ x \notin initOk
      BY <1>0, <3>1 DEF ThreadFits, StateFits, ThreadRunning, Begun, Looping, Over
    <3>3. Failed
      BY <1>0, <3>2 DEF FailureFits
    <3> QED
      BY <3>3 DEF Failed, BrokenByFailure
  <2> QED
    BY <2>1, <2>2
<1> QED
  BY <1>4, <1>5 DEF FailureInv

\* EnqueueExitItem on a component whose thread ends by itself.
LEMMA AskFails ==
    ASSUME CreationInv, FailureInv, Failed => Failed', NEW c \in Components,
           c \notin asked, Kind(c) \notin {"client", "acceptor"},
           broken' = IF at[c] = "exit" /\ "queue" \in has[c] THEN "queue" ELSE broken
    PROVE  BrokenByFailure'
<1>1. CASE at[c] = "exit"
  <2>1. Failed
    BY <1>1 DEF FailureInv, FailureFits, Over
  <2> QED
    BY <2>1 DEF Failed, BrokenByFailure
<1>2. CASE at[c] # "exit"
  BY <1>2 DEF FailureInv, BrokenByFailure, Failed
<1> QED
  BY <1>1, <1>2

LEMMA UserFails ==
    ASSUME CreationInv, OwnTypeOK, FailureInv, Failed => Failed', User
    PROVE  FailureInv'
<1>0. ThreadTypeOK /\ StepInv
  BY DEF CreationInv, ThreadInv
<1>1. PICK x \in Components : x = root
  BY <1>0, RootIsComponent
<1>2. FailureFits(x) /\ x \in {Server, Client} /\ ThreadFits(x)
  BY <1>0, <1>1 DEF FailureInv, StepInv, CreationInv, ThreadInv
<1>3. CASE UNCHANGED broken /\ \A c \in Components : FailureFits(c)'
  BY <1>3 DEF FailureInv, BrokenByFailure, Failed
<1>4. CASE NewRoot
  <2>1. /\ owner' = [owner EXCEPT ![x] = "made"]
        /\ has' = [has EXCEPT ![x] = Prepared[Kind(x)]]
        /\ UNCHANGED <<at, initOk, asked, broken>>
    BY <1>1, <1>4 DEF NewRoot, NewThread, threadHistory, requests
  <2>2. x = Server => "address" \in has'[x]
    BY <2>1 DEF OwnTypeOK, Prepared, Kind, Server
  <2>3. owner'[x] = "made" /\ \A u \in Components \ {x} : owner'[u] = owner[u] /\ has'[u] = has[u]
    BY <1>0, <2>1 DEF OwnTypeOK, ThreadTypeOK
  <2>4. FailureFits(x)'
    BY <1>2, <2>1, <2>2, <2>3 DEF FailureFits
  <2> QED
    BY <1>3, <2>1, <2>3, <2>4, OneFails DEF FailureInv
<1>5. CASE StartRoot
  <2>1. /\ \/ owner'[x] = "starting" /\ at'[x] = "created"
           \/ owner'[x] = "failed" /\ at'[x] = at[x] /\ Failed'
        /\ owner[x] = "made"
        /\ \A u \in Components \ {x} : owner'[u] = owner[u] /\ at'[u] = at[u]
        /\ UNCHANGED <<has, initOk, asked, broken>>
    BY <1>0, <1>1, <1>5, FailsNow DEF StartRoot, ThreadStart, ThreadStartFails, thread,
       threadHistory, ThreadTypeOK, structures, requests
  <2>2. FailureFits(x)'
    BY <1>2, <2>1 DEF FailureFits, Over
  <2> QED
    BY <1>3, <2>1, <2>2, OneFails DEF FailureInv
<1>6. CASE RootStarted
  <2>1. /\ owner'[x] = "started"
        /\ \A u \in Components \ {x} : owner'[u] = owner[u]
        /\ UNCHANGED <<at, has, initOk, asked, broken>>
    BY <1>0, <1>1, <1>6 DEF RootStarted, ThreadStarted, thread, threadHistory, ThreadTypeOK,
       lifeVars, structures, requests
  <2>2. FailureFits(x)'
    BY <1>2, <2>1 DEF FailureFits
  <2> QED
    BY <1>3, <2>1, <2>2, OneFails DEF FailureInv
<1>7. CASE ServerStop
  <2>1. BrokenByFailure'
    BY <1>7, AskFails, ThreeComponents DEF ServerStop, Kind, Server
  <2>2. UNCHANGED <<at, owner, initOk, has>> /\ asked \subseteq asked'
    BY <1>7 DEF ServerStop, threadVars, thread, threadHistory, structures
  <2> QED
    BY <2>1, <2>2, NothingFails DEF FailureInv
<1>8. CASE JoinFinds(root) \/ JoinReturns(root)
  BY <1>1, <1>8, JoinFails
<1>9. CASE FreeRoot
  <2>1. /\ owner' = [owner EXCEPT ![x] = "done"]
        /\ has' = [has EXCEPT ![x] = @ \ {"struct", "selector"}]
        /\ UNCHANGED <<at, initOk, asked, broken>>
    BY <1>1, <1>9 DEF FreeRoot, FreeUnstarted, FreeThread, FreeStructure, threadHistory, requests
  <2>2. /\ owner'[x] = "done" /\ ("address" \in has[x] => "address" \in has'[x])
        /\ \A u \in Components \ {x} : owner'[u] = owner[u] /\ has'[u] = has[u]
    BY <1>0, <2>1 DEF OwnTypeOK, ThreadTypeOK
  <2>3. FailureFits(x)'
    BY <1>2, <2>1, <2>2 DEF FailureFits
  <2> QED
    BY <1>3, <2>1, <2>2, <2>3, OneFails DEF FailureInv
<1>10. CASE NewRootFails
  <2>1. UNCHANGED <<at, owner, initOk, has, broken>> /\ asked' = asked
    BY <1>10 DEF NewRootFails, threadVars, thread, threadHistory, structures, requests
  <2>2. \A c \in Components : FailureFits(c)'
    BY <2>1, NothingFails DEF FailureInv
  <2> QED
    BY <1>3, <2>1, <2>2
<1> QED
  BY <1>4, <1>5, <1>6, <1>7, <1>8, <1>9, <1>10 DEF User

\* The callback returns: with false only where something failed.
LEMMA EndInitFails ==
    ASSUME CreationInv, FailureInv, Failed => Failed', NEW x \in Components,
           NEW run \in BOOLEAN, EndInit(x, run), asked' = asked, ~run => Failed',
           \A u \in Components :
               u = Server /\ "address" \in has[u] => "address" \in has'[u] \/ Failed'
    PROVE  \A c \in Components : FailureFits(c)'
<1>0. ThreadTypeOK /\ ThreadFits(x) /\ FailureFits(x)
  BY DEF CreationInv, ThreadInv, FailureInv
<1>1. /\ at[x] = "init" /\ x \notin initOk
      /\ owner' = owner
      /\ at'[x] = IF run THEN "run" ELSE "exit"
      /\ initOk' = IF run THEN initOk \cup {x} ELSE initOk
      /\ \A u \in Components \ {x} : at'[u] = at[u]
  BY <1>0 DEF EndInit, MoveTo, ThreadFits, StateFits, Begun, Looping, Over, ThreadTypeOK
<1>2. owner[x] = "starting"
  BY <1>1, ThreadOf
<1>3. x = Server => "address" \in has'[x] \/ Failed'
  BY <1>0, <1>1 DEF FailureFits
<1>4. FailureFits(x)'
  <2>1. CASE run
    BY <1>1, <1>2, <1>3, <2>1 DEF FailureFits, Over
  <2>2. CASE ~run
    BY <1>1, <1>2, <1>3, <2>2 DEF FailureFits, Over
  <2> QED
    BY <2>1, <2>2
<1> QED
  BY <1>1, <1>4, OneFails DEF FailureInv

LEMMA NoChildFails ==
    ASSUME CreationInv, OwnTypeOK, FailureInv, Failed => Failed', NEW t \in Components,
           NoStructure(t) \/ NoReaders(t) \/ NoThread(t)
    PROVE  FailureInv'
<1>0. ThreadTypeOK /\ StepInv
  BY DEF CreationInv, ThreadInv
<1>1. PICK x \in Components : x = Child(t)
  BY <1>0, ChildIsComponent DEF NoStructure, NoReaders, NoThread
<1>2. Failed'
  <2>1. CASE NoStructure(t) \/ NoReaders(t)
    BY <2>1, FailsNow DEF NoStructure, NoReaders
  <2>2. CASE NoThread(t)
    <3>1. ~SlotLeft \/ Fail \/ owner[x] = "failed"
      BY <1>1, <2>2 DEF NoThread
    <3> QED
      BY <3>1, FailsNow DEF FailureInv, FailureFits, Failed
  <2> QED
    BY <2>1, <2>2
<1>3. BrokenByFailure'
  BY <1>2 DEF BrokenByFailure, Failed
<1>4. WithoutChild(t) /\ asked' = asked
  BY DEF NoStructure, NoReaders, NoThread, requests
<1>5. CASE t = Acceptor
  <2>1. UNCHANGED threadVars
    BY <1>4, <1>5, KindIsAcceptor DEF WithoutChild
  <2>2. \A c \in Components : FailureFits(c)'
    BY <1>2, <1>4, <2>1 DEF FailureInv, FailureFits, threadVars, thread, threadHistory
  <2> QED
    BY <1>3, <2>2 DEF FailureInv
<1>6. CASE t # Acceptor
  <2>1. EndInit(t, FALSE)
    BY <1>4, <1>6, KindIsAcceptor DEF WithoutChild
  <2>2. \A c \in Components : FailureFits(c)'
    BY <1>2, <1>4, <2>1, EndInitFails
  <2> QED
    BY <1>3, <2>2 DEF FailureInv
<1> QED
  BY <1>5, <1>6

LEMMA InitializeFails ==
    ASSUME CreationInv, OwnTypeOK, FailureInv, Failed => Failed', NEW t \in Components, Initialize(t)
    PROVE  FailureInv'
<1>0. ThreadTypeOK /\ StepInv /\ FailureFits(t)
  BY DEF CreationInv, ThreadInv, FailureInv
<1>1. CASE UNCHANGED broken /\ \A c \in Components : FailureFits(c)'
  BY <1>1 DEF FailureInv, BrokenByFailure, Failed
<1>2. CASE Begin(t)
  <2>1. /\ at[t] = "created" /\ at'[t] = "init"
        /\ \A u \in Components \ {t} : at'[u] = at[u]
        /\ UNCHANGED <<owner, has, initOk, asked, broken>>
    BY <1>0, <1>2 DEF Begin, BeginInit, MoveTo, ThreadTypeOK, lifeVars, structures, requests, threadHistory
  <2>2. FailureFits(t)'
    BY <1>0, <2>1 DEF FailureFits, Over
  <2> QED
    BY <1>1, <2>1, <2>2, OneFails DEF FailureInv
<1>3. CASE MakeResource(t)
  <2>1. /\ \E r \in Pointers : has' = [has EXCEPT ![t] = @ \cup {r}]
        /\ UNCHANGED <<at, owner, initOk, asked, broken>>
    BY <1>3 DEF MakeResource, threadVars, thread, threadHistory, requests, Pointers
  <2>2. \A c \in Components : "address" \in has[c] => "address" \in has'[c]
    BY <2>1 DEF OwnTypeOK
  <2>3. \A c \in Components : FailureFits(c)'
    BY <2>1, <2>2 DEF FailureInv, FailureFits
  <2> QED
    BY <1>1, <2>1, <2>3
<1>4. CASE ResourceFails(t)
  <2>1. EndInit(t, FALSE) /\ Failed' /\ UNCHANGED <<has, asked, broken>>
    BY <1>4, FailsNow DEF ResourceFails, structures, requests
  <2> QED
    BY <1>1, <2>1, EndInitFails
<1>5. CASE Initialized(t)
  <2>1. EndInit(t, TRUE) /\ UNCHANGED <<has, asked, broken>>
    BY <1>5 DEF Initialized, lifeVars, structures, requests
  <2> QED
    BY <1>1, <2>1, EndInitFails
<1>6. CASE NewChild(t)
  <2>1. PICK x \in Components : x = Child(t)
    BY <1>0, <1>6, ChildIsComponent DEF NewChild
  <2>2. x \in Children(t) /\ x # Server
    BY <1>0, <1>6, <2>1, ChildIsChild, ChildrenApart DEF NewChild
  <2>3. /\ owner' = [owner EXCEPT ![x] = "made"]
        /\ has' = [has EXCEPT ![x] = Prepared[Kind(x)]]
        /\ UNCHANGED <<at, initOk, asked, broken>>
    BY <1>6, <2>1 DEF NewChild, NewThread, threadHistory, requests
  <2>4. owner'[x] = "made" /\ \A u \in Components \ {x} : owner'[u] = owner[u] /\ has'[u] = has[u]
    BY <1>0, <2>3 DEF OwnTypeOK, ThreadTypeOK
  <2>5. FailureFits(x)'
    BY <2>2, <2>3, <2>4 DEF FailureInv, FailureFits
  <2> QED
    BY <1>1, <2>3, <2>4, <2>5, OneFails DEF FailureInv
<1>7. CASE StartChild(t)
  <2>1. PICK x \in Components : x = Child(t)
    BY <1>0, <1>7, ChildIsComponent DEF StartChild
  <2>2. /\ \/ owner'[x] = "starting" /\ at'[x] = "created"
           \/ owner'[x] = "failed" /\ at'[x] = at[x] /\ Failed'
        /\ owner[x] = "made"
        /\ \A u \in Components \ {x} : owner'[u] = owner[u] /\ at'[u] = at[u]
        /\ UNCHANGED <<has, initOk, asked, broken>>
    BY <1>0, <1>7, <2>1, FailsNow DEF StartChild, ThreadStart, ThreadStartFails, thread,
       threadHistory, ThreadTypeOK, structures, requests
  <2>3. FailureFits(x) /\ FailureFits(x)'
    BY <2>2 DEF FailureInv, FailureFits, Over
  <2> QED
    BY <1>1, <2>2, <2>3, OneFails DEF FailureInv
<1>8. CASE ChildStarted(t)
  <2>1. PICK x \in Components : x = Child(t)
    BY <1>0, <1>8, ChildIsComponent DEF ChildStarted
  <2>2. /\ owner'[x] = "started"
        /\ \A u \in Components \ {x} : owner'[u] = owner[u]
        /\ UNCHANGED <<at, has, initOk, asked, broken>>
    BY <1>0, <1>8, <2>1 DEF ChildStarted, ThreadStarted, thread, threadHistory, ThreadTypeOK, requests
  <2>3. FailureFits(x)'
    BY <2>2 DEF FailureInv, FailureFits
  <2> QED
    BY <1>1, <2>2, <2>3, OneFails DEF FailureInv
<1>9. CASE NoStructure(t) \/ NoReaders(t) \/ NoThread(t)
  BY <1>9, NoChildFails
<1> QED
  BY <1>2, <1>3, <1>4, <1>5, <1>6, <1>7, <1>8, <1>9 DEF Initialize

LEMMA ExitFails ==
    ASSUME CreationInv, OwnTypeOK, FailureInv, Failed => Failed', NEW t \in Components, Exit(t)
    PROVE  FailureInv'
<1>0. ThreadTypeOK /\ FailureFits(t)
  BY DEF CreationInv, ThreadInv, FailureInv
<1>1. CASE AskChild(t)
  <2>1. PICK c \in Children(t) \ asked :
            /\ asked' = asked \cup {c}
            /\ c = Acceptor => broken' = broken
            /\ c # Acceptor => broken' = IF at[c] = "exit" /\ "queue" \in has[c]
                                         THEN "queue" ELSE broken
    BY <1>1 DEF AskChild, NextLinked, Linked
  <2>2. c \in Components /\ (c # Acceptor => Kind(c) \in {"reader", "worker", "writer"})
    BY <2>1, ChildrenAreComponents, ChildrenApart
  <2>3. UNCHANGED <<at, owner, initOk, has>>
    BY <1>1 DEF AskChild, ThreadStop, threadVars, thread, threadHistory, structures
  <2>4. BrokenByFailure'
    <3>1. CASE c = Acceptor
      BY <2>1, <3>1 DEF FailureInv, BrokenByFailure, Failed
    <3>2. CASE c # Acceptor
      BY <2>1, <2>2, <3>2, AskFails
    <3> QED
      BY <3>1, <3>2
  <2> QED
    BY <2>1, <2>3, <2>4, NothingFails DEF FailureInv
<1>2. CASE EndChild(t)
  <2>1. PICK c \in Children(t) : JoinFinds(c) \/ JoinReturns(c)
    BY <1>2 DEF EndChild, NextLinked, Linked
  <2> QED
    BY <2>1, ChildrenAreComponents, JoinFails
<1>3. CASE EndExit(t)
  <2>1. /\ at[t] = "exit" /\ at'[t] = "ended"
        /\ \A u \in Components \ {t} : at'[u] = at[u] /\ has'[u] = has[u]
        /\ UNCHANGED <<owner, initOk, asked>>
        /\ broken' = broken \/ (t = Server /\ "address" \notin has[t])
    BY <1>0, <1>3 DEF EndExit, EndCleanup, MoveTo, threadHistory, ThreadTypeOK, OwnTypeOK, requests, leftovers
  <2>2. owner[t] # "made"
    BY <2>1, ThreadOf
  <2>3. FailureFits(t)'
    BY <1>0, <2>1, <2>2 DEF FailureFits, Over
  <2>4. BrokenByFailure'
    <3>1. CASE broken' = broken
      BY <3>1 DEF FailureInv, BrokenByFailure, Failed
    <3>2. CASE t = Server /\ "address" \notin has[t]
      BY <1>0, <2>1, <3>2 DEF FailureFits, BrokenByFailure, Failed
    <3> QED
      BY <2>1, <3>1, <3>2
  <2> QED
    BY <2>1, <2>3, <2>4, OneFails DEF FailureInv
<1> QED
  BY <1>1, <1>2, <1>3 DEF Exit

LEMMA FailureInvNext ==
    ASSUME CreationInv, OwnTypeOK, FailureInv, [Next]_vars
    PROVE  FailureInv'
<1>0. ThreadTypeOK /\ (Failed => Failed') /\ Acceptor \in Components
  BY FailedStays, ThreeComponents DEF CreationInv, ThreadInv
<1>1. CASE User
  BY <1>0, <1>1, UserFails
<1>2. ASSUME NEW t \in Components, Initialize(t)
      PROVE  FailureInv'
  BY <1>0, <1>2, InitializeFails
<1>3. ASSUME NEW t \in Components, Exit(t)
      PROVE  FailureInv'
  BY <1>0, <1>3, ExitFails
<1>4. ASSUME NEW t \in Components,
             at[t] \in Looping, at'[t] \in {"back", "write", "run", "exit"},
             \A u \in Components \ {t} : at'[u] = at[u],
             UNCHANGED <<owner, has, initOk, asked, broken>>,
             at[t] = "run" => Kind(t) \in {"client", "acceptor"} \/ t \in asked
      PROVE  FailureInv'
  <2>1. ThreadFits(t) /\ FailureFits(t)
    BY DEF CreationInv, ThreadInv, FailureInv
  <2>2. t \in initOk /\ owner[t] # "made" /\ owner[t] # "failed"
    BY <1>4, <2>1, ThreadOf DEF ThreadFits, StateFits, Looping
  <2>3. FailureFits(t)'
    BY <1>0, <1>4, <2>1, <2>2 DEF FailureFits, Looping, Over
  <2>4. \A c \in Components : FailureFits(c)'
    BY <1>0, <1>4, <2>3, OneFails DEF FailureInv
  <2> QED
    BY <1>0, <1>4, <2>4 DEF FailureInv, BrokenByFailure, Failed
<1>5. ASSUME NEW t \in Components, RoutineEnds(t) \/ Loop(t)
      PROVE  FailureInv'
  <2>1. /\ at[t] \in Looping
        /\ at'[t] \in {"back", "write", "run", "exit"}
        /\ \A u \in Components \ {t} : at'[u] = at[u]
        /\ UNCHANGED <<owner, initOk>>
    BY <1>0, <1>5 DEF RoutineEnds, RoutineReturns, Loop, LoopStep, TestRunning, WriteRunning,
       MoveTo, ThreadTypeOK, Looping, threadHistory
  <2>2. UNCHANGED <<has, asked, broken>>
    BY <1>5 DEF RoutineEnds, Loop, lifeVars, structures, requests
  <2>3. at[t] = "run" => Kind(t) \in {"client", "acceptor"} \/ t \in asked
    BY <1>5 DEF RoutineEnds, Loop, LoopStep, TestRunning, WriteRunning
  <2> QED
    BY <1>4, <2>1, <2>2, <2>3
<1>6. CASE AcceptorReturns
  <2>1. /\ at[Acceptor] = "run" /\ at'[Acceptor] = "back"
        /\ \A u \in Components \ {Acceptor} : at'[u] = at[u]
        /\ UNCHANGED <<owner, has, initOk, asked, broken>>
        /\ Kind(Acceptor) = "acceptor"
    BY <1>0, <1>6, KindIsAcceptor
    DEF AcceptorReturns, RoutineReturns, MoveTo, ThreadTypeOK, structures, threadHistory
  <2> QED
    BY <1>0, <1>4, <2>1 DEF Looping
<1>7. CASE UNCHANGED vars
  BY <1>7 DEF vars, threadVars, thread, threadHistory, lifeVars, structures, requests,
              FailureInv, FailureFits, Failed, SlotLeft, BrokenByFailure
<1> QED
  BY <1>1, <1>2, <1>3, <1>5, <1>6, <1>7 DEF Next, Own

LEMMA FailureInvInit ==
    ASSUME Init
    PROVE  FailureInv
<1>1. /\ \A c \in Components : owner[c] = "none" /\ at[c] = "absent"
      /\ initOk = {} /\ broken = "no"
  BY DEF Init, ThreadInit
<1>2. \A c \in Components : FailureFits(c)
  BY <1>1 DEF FailureFits, Over
<1> QED
  BY <1>1, <1>2 DEF FailureInv, BrokenByFailure

-----------------------------------------------------------------------------
(* What failing constructors leave behind, and the listening socket.        *)

\* The socket is made by the last step of _AcceptorInit and closed by
\* _AcceptorExit; a descriptor that was closed already is met only where
\* _AcceptorInit failed.
SocketFits ==
    /\ at[Acceptor] \in {"absent", "created"} => socket = "none"
    /\ at[Acceptor] = "init" =>
           /\ socket \in {"none", "open"}
           /\ step[Acceptor] <= NbPipes + 1 => socket = "none"
    /\ at[Acceptor] = "ended" => socket \notin {"open", "stale"}
    /\ socket \in {"stale", "closed twice"} => Acceptor \notin initOk

Spoilt == IF socket \in {"stale", "closed twice"} THEN 1 ELSE 0

LeaksCounted == IsFiniteSet(leaked) /\ Cardinality(leaked) + Spoilt <= failures

LEMMA SocketStep ==
    ASSUME StepInv, NEW t \in Components, AtStep(t, "socket")
    PROVE  t = Acceptor
<1>1. Kind(t) \in {"server", "acceptor", "client", "reader", "worker", "writer"}
  BY ComponentKinds DEF Kind, Server, Acceptor, Client
<1>2. CASE Kind(t) = "acceptor"
  BY <1>2, KindIsAcceptor
<1>3. CASE Kind(t) # "acceptor"
  <2>1. step[t] \in Nat \ {0} /\ step[t] <= Len(InitSteps[Kind(t)])
        /\ InitSteps[Kind(t)][step[t]] = "socket"
    BY DEF StepInv, AtStep
  <2>2. CASE Kind(t) = "server"
    BY <2>1, <2>2 DEF InitSteps
  <2>3. CASE Kind(t) = "client"
    BY <2>1, <2>3 DEF InitSteps
  <2>4. CASE Kind(t) = "reader"
    BY <2>1, <2>4 DEF InitSteps
  <2>5. CASE Kind(t) = "worker"
    BY <2>1, <2>5 DEF InitSteps
  <2>6. CASE Kind(t) = "writer"
    BY <2>1, <2>6 DEF InitSteps
  <2> QED
    BY <1>1, <1>3, <2>2, <2>3, <2>4, <2>5, <2>6
<1> QED
  BY <1>2, <1>3

\* How far a thread goes in one step.
LEMMA StageOf ==
    ASSUME ThreadInv, [ThreadNext]_threadVars, NEW a \in Components
    PROVE  \/ /\ at'[a] = at[a] \/ (at[a] = "absent" /\ at'[a] = "created")
                                \/ (at[a] = "created" /\ at'[a] = "init")
                                \/ (at[a] # "absent" /\ at'[a] \in Looping \cup Over)
              /\ a \in initOk' <=> a \in initOk
           \/ at[a] = "init" /\ at'[a] = "run"
<1>0. ThreadTypeOK
  BY DEF ThreadInv
<1>1. CASE UNCHANGED threadVars
  BY <1>1 DEF threadVars, thread, threadHistory
<1>2. ASSUME NEW t \in Threads, OwnerStep(t)
      PROVE  /\ at'[a] = at[a] \/ (at[a] = "absent" /\ at'[a] = "created")
             /\ initOk' = initOk
  <2>1. ThreadFits(t)
    BY DEF ThreadInv
  <2>2. CASE ThreadStart(t)
    <3>1. at[t] = "absent" /\ at' = [at EXCEPT ![t] = "created"] /\ initOk' = initOk
      BY <2>1, <2>2 DEF ThreadStart, ThreadFits, OwnerFits, threadHistory
    <3> QED
      BY <1>0, <3>1 DEF ThreadTypeOK
  <2>3. CASE ~ThreadStart(t)
    BY <1>2, <2>3 DEF OwnerStep, NewThread, ThreadStartFails, ThreadStarted, ThreadStop, ThreadJoin,
       ThreadJoined, FreeUnstarted, thread, threadHistory
  <2> QED
    BY <2>2, <2>3
<1>3. ASSUME NEW t \in Threads, BeginInit(t) \/ LoopStep(t) \/ EndCleanup(t) \/
             \E run \in BOOLEAN : RoutineReturns(t, run)
      PROVE  /\ at'[a] = at[a] \/ (at[a] = "created" /\ at'[a] = "init")
                               \/ (at[a] # "absent" /\ at'[a] \in Looping \cup Over)
             /\ initOk' = initOk
  <2>1. CASE BeginInit(t)
    BY <1>0, <2>1 DEF BeginInit, MoveTo, ThreadTypeOK, threadHistory
  <2>2. CASE TestRunning(t) \/ WriteRunning(t)
    BY <1>0, <2>2 DEF TestRunning, WriteRunning, MoveTo, ThreadTypeOK, threadHistory, Looping, Over
  <2>3. CASE EndCleanup(t) \/ \E run \in BOOLEAN : RoutineReturns(t, run)
    BY <1>0, <2>3 DEF EndCleanup, RoutineReturns, MoveTo, ThreadTypeOK, threadHistory, Looping, Over
  <2> QED
    BY <1>3, <2>1, <2>2, <2>3 DEF LoopStep
<1>4. ASSUME NEW t \in Threads, NEW run \in BOOLEAN, EndInit(t, run)
      PROVE  \/ /\ at'[a] = at[a] \/ (at[a] # "absent" /\ at'[a] \in Looping \cup Over)
                /\ a \in initOk' <=> a \in initOk
             \/ at[a] = "init" /\ at'[a] = "run"
  BY <1>0, <1>4 DEF EndInit, MoveTo, ThreadTypeOK, Looping, Over
<1> QED
  BY <1>1, <1>2, <1>3, <1>4 DEF ThreadNext, RunStep

\* Every step but the three that are about the socket.
LEMMA SocketAlone ==
    ASSUME CreationInv, SocketFits, [ThreadNext]_threadVars, socket' = socket,
           step'[Acceptor] <= NbPipes + 1 => step[Acceptor] <= NbPipes + 1,
           at'[Acceptor] = "ended" => at[Acceptor] = "ended"
    PROVE  SocketFits'
<1>1. Acceptor \in Components /\ ThreadInv
  BY ThreeComponents DEF CreationInv
<1>2. ThreadFits(Acceptor)
  BY <1>1 DEF ThreadInv
<1>3. CASE at[Acceptor] = "init" /\ at'[Acceptor] = "run"
  BY <1>3 DEF SocketFits
<1>4. CASE ~(at[Acceptor] = "init" /\ at'[Acceptor] = "run")
  <2>1. /\ at'[Acceptor] = at[Acceptor]
              \/ (at[Acceptor] = "absent" /\ at'[Acceptor] = "created")
              \/ (at[Acceptor] = "created" /\ at'[Acceptor] = "init")
              \/ (at[Acceptor] # "absent" /\ at'[Acceptor] \in Looping \cup Over)
        /\ Acceptor \in initOk' <=> Acceptor \in initOk
    BY <1>1, <1>4, StageOf
  <2> QED
    BY <2>1 DEF SocketFits, Looping, Over
<1> QED
  BY <1>3, <1>4

\* The steps of an initialization callback, and of an exit callback.
LEMMA SocketInitialize ==
    ASSUME CreationInv, SocketFits, [ThreadNext]_threadVars, NEW t \in Components, Initialize(t)
    PROVE  SocketFits'
<1>0. /\ ThreadTypeOK /\ StepInv /\ Acceptor \in Components /\ ThreadFits(Acceptor)
      /\ step[Acceptor] \in Nat
  BY ThreeComponents DEF CreationInv, ThreadInv, StepInv
<1>1. CASE ResourceFails(t) /\ socket' # socket
  <2>1. AtStep(t, "socket") /\ socket' = "stale" /\ EndInit(t, FALSE)
    BY <1>1 DEF ResourceFails
  <2>2. t = Acceptor
    BY <1>0, <2>1, SocketStep
  <2>3. at[Acceptor] = "init" /\ at'[Acceptor] = "exit" /\ initOk' = initOk
    BY <1>0, <2>1, <2>2 DEF EndInit, MoveTo, ThreadTypeOK
  <2>4. Acceptor \notin initOk
    BY <1>0, <2>3 DEF ThreadFits, StateFits, Begun, Looping, Over
  <2> QED
    BY <2>1, <2>3, <2>4 DEF SocketFits
<1>2. CASE MakeResource(t) /\ socket' # socket
  <2>1. AtStep(t, "socket") /\ socket' = "open" /\ NextStep(t) /\ UNCHANGED threadVars
    BY <1>2 DEF MakeResource
  <2>2. t = Acceptor
    BY <1>0, <2>1, SocketStep
  <2>3. step[Acceptor] = NbPipes + 1 /\ at[Acceptor] = "init"
    BY <1>0, <2>1, <2>2, AcceptorSteps DEF AtStep
  <2>4. step'[Acceptor] = NbPipes + 2 /\ at' = at
    BY <1>0, <2>1, <2>2, <2>3 DEF NextStep, StepInv, threadVars, thread
  <2> QED
    BY <2>1, <2>3, <2>4 DEF SocketFits
<1>3. CASE socket' = socket
  <2>1. at'[Acceptor] = "ended" => at[Acceptor] = "ended"
    BY <1>0, ChildIsComponent DEF Initialize, Begin, MakeResource, ResourceFails, NewChild, StartChild,
       ChildStarted, NoStructure, NoReaders, NoThread, Initialized, WithoutChild, BeginInit, EndInit,
       NewThread, ThreadStart, ThreadStartFails, ThreadStarted, MoveTo, ThreadTypeOK, threadVars, thread
  <2>2. CASE NoStructure(t) \/ NoReaders(t) \/ NoThread(t)
    <3>1. AtStep(t, "child") /\ (step' = step \/ step' = [step EXCEPT ![t] = NbPipes + 1])
      BY <2>2 DEF NoStructure, NoReaders, NoThread, WithoutChild
    <3>2. CASE t = Acceptor
      <4>1. step[Acceptor] \in 1 .. NbPipes
        BY <1>0, <3>1, <3>2, AcceptorSteps
      <4> QED
        BY <1>0, <1>3, <2>1, <4>1, SocketAlone
    <3>3. CASE t # Acceptor
      <4>1. step'[Acceptor] = step[Acceptor]
        BY <1>0, <3>1, <3>3 DEF StepInv
      <4> QED
        BY <1>3, <2>1, <4>1, SocketAlone
    <3> QED
      BY <3>2, <3>3
  <2>3. CASE MakeResource(t) \/ ChildStarted(t)
    <3>1. step' = [step EXCEPT ![t] = @ + 1]
      BY <2>3 DEF MakeResource, ChildStarted, NextStep
    <3>2. step'[Acceptor] = step[Acceptor] \/ step'[Acceptor] = step[Acceptor] + 1
      BY <1>0, <3>1 DEF StepInv
    <3> QED
      BY <1>0, <1>3, <2>1, <3>2, SocketAlone
  <2>4. CASE step' = step
    BY <1>3, <2>1, <2>4, SocketAlone
  <2>5. CASE Begin(t) \/ ResourceFails(t) \/ NewChild(t) \/ StartChild(t) \/ Initialized(t)
    BY <2>4, <2>5 DEF Begin, ResourceFails, NewChild, StartChild, Initialized, lifeVars
  <2> QED
    BY <2>2, <2>3, <2>5 DEF Initialize
<1>4. socket' # socket => MakeResource(t) \/ ResourceFails(t)
  BY DEF Initialize, Begin, NewChild, StartChild, ChildStarted, NoStructure, NoReaders, NoThread,
     Initialized, lifeVars, leftovers
<1> QED
  BY <1>1, <1>2, <1>3, <1>4

LEMMA SocketNext ==
    ASSUME CreationInv, SocketFits, [Next]_vars
    PROVE  SocketFits'
<1>0. /\ ThreadTypeOK /\ Acceptor \in Components /\ [ThreadNext]_threadVars
      /\ root \in Components /\ ThreadFits(Acceptor)
  BY ThreeComponents, StepDrives, RootIsComponent DEF CreationInv, ThreadInv
<1>1. ASSUME socket' = socket, step' = step, at'[Acceptor] = "ended" => at[Acceptor] = "ended"
      PROVE  SocketFits'
  BY <1>0, <1>1, SocketAlone
<1>2. CASE User
  <2>1. socket' = socket /\ step' = step
    BY <1>2 DEF User, NewRoot, NewRootFails, StartRoot, RootStarted, ServerStop, JoinFinds, JoinReturns,
       FreeRoot, lifeVars, leftovers
  <2>2. at' = at \/ at' = [at EXCEPT ![root] = "created"]
    BY <1>2 DEF User, NewRoot, NewRootFails, StartRoot, RootStarted, ServerStop, JoinFinds, JoinReturns,
       FreeRoot, NewThread, ThreadStart, ThreadStartFails, ThreadStarted, ThreadJoin, ThreadJoined,
       FreeUnstarted, threadVars, thread
  <2> QED
    BY <1>0, <1>1, <2>1, <2>2 DEF ThreadTypeOK
<1>3. ASSUME NEW t \in Components, Initialize(t)
      PROVE  SocketFits'
  BY <1>0, <1>3, SocketInitialize
<1>4. ASSUME NEW t \in Components, RoutineEnds(t) \/ Loop(t)
      PROVE  SocketFits'
  <2>1. socket' = socket /\ step' = step
    BY <1>4 DEF RoutineEnds, Loop, lifeVars, leftovers
  <2>2. at'[Acceptor] = "ended" => at[Acceptor] = "ended"
    BY <1>0, <1>4 DEF RoutineEnds, Loop, LoopStep, RoutineReturns, TestRunning, WriteRunning, MoveTo,
       ThreadTypeOK
  <2> QED
    BY <1>1, <2>1, <2>2
<1>5. CASE AcceptorReturns
  <2>1. socket' = socket /\ step' = step
    BY <1>5 DEF AcceptorReturns, leftovers
  <2>2. at'[Acceptor] = "ended" => at[Acceptor] = "ended"
    BY <1>0, <1>5 DEF AcceptorReturns, RoutineReturns, MoveTo, ThreadTypeOK
  <2> QED
    BY <1>1, <2>1, <2>2
<1>6. ASSUME NEW t \in Components, AskChild(t) \/ EndChild(t)
      PROVE  SocketFits'
  <2>1. socket' = socket /\ step' = step /\ at' = at
    BY <1>6 DEF AskChild, EndChild, JoinFinds, JoinReturns, ThreadStop, ThreadJoin, ThreadJoined,
       leftovers, threadVars, thread
  <2> QED
    BY <1>1, <2>1
<1>7. ASSUME NEW t \in Components, EndExit(t)
      PROVE  SocketFits'
  <2>1. step' = step /\ initOk' = initOk /\ at[t] = "exit" /\ at' = [at EXCEPT ![t] = "ended"]
    BY <1>7 DEF EndExit, EndCleanup, MoveTo, threadHistory
  <2>2. CASE t # Acceptor
    <3>1. socket' = socket /\ at'[Acceptor] = at[Acceptor]
      BY <1>0, <1>7, <2>1, <2>2 DEF EndExit, CloseSocket, ThreadTypeOK
    <3> QED
      BY <1>1, <2>1, <3>1
  <2>3. CASE t = Acceptor
    <3>1. at'[Acceptor] = "ended"
      BY <1>0, <2>1, <2>3 DEF ThreadTypeOK
    <3>2. /\ socket = "open" => socket' = "closed"
          /\ socket = "stale" => socket' = "closed twice"
          /\ socket \notin {"open", "stale"} => socket' = socket
      BY <1>7, <2>3 DEF EndExit, CloseSocket
    <3> QED
      BY <2>1, <3>1, <3>2 DEF SocketFits
  <2> QED
    BY <2>2, <2>3
<1>8. CASE UNCHANGED vars
  BY <1>1, <1>8 DEF vars, lifeVars, leftovers, threadVars, thread
<1> QED
  BY <1>2, <1>3, <1>4, <1>5, <1>6, <1>7, <1>8 DEF Next, Own, Exit

\* Every one of them takes a failure of its own.
LEMMA LeaksNext ==
    ASSUME CreationInv, OwnTypeOK, SocketFits, LeaksCounted, [Next]_vars
    PROVE  LeaksCounted'
<1>0. /\ IsFiniteSet(leaked) /\ Cardinality(leaked) \in Nat /\ failures \in Nat
      /\ Cardinality(leaked) + Spoilt <= failures /\ Spoilt \in {0, 1}
  <2>1. Spoilt \in {0, 1}
    BY DEF Spoilt
  <2> QED
    BY <2>1, FS_CardinalityType DEF LeaksCounted, OwnTypeOK
<1>1. ASSUME leaked' = leaked, Spoilt' = Spoilt, failures' \in {failures, failures + 1}
      PROVE  LeaksCounted'
  BY <1>0, <1>1 DEF LeaksCounted
<1>2. ASSUME NEW c, NEW what, MayLeak(c, what), Fail, socket' = socket
      PROVE  LeaksCounted'
  <2>1. CASE leaked' = leaked
    BY <1>1, <1>2, <2>1 DEF Fail, Spoilt
  <2>2. CASE leaked' = leaked \cup {<<c, what>>}
    <3>1. /\ IsFiniteSet(leaked')
          /\ Cardinality(leaked') \in {Cardinality(leaked), Cardinality(leaked) + 1}
      BY <1>0, <2>2, FS_AddElement
    <3>2. Spoilt' = Spoilt /\ Spoilt \in {0, 1} /\ failures' = failures + 1
      BY <1>2 DEF Spoilt, Fail
    <3> QED
      BY <1>0, <3>1, <3>2 DEF LeaksCounted
  <2> QED
    BY <1>2, <2>1, <2>2 DEF MayLeak
<1>3. CASE User
  <2>1. CASE NewRootFails
    BY <1>2, <2>1 DEF NewRootFails
  <2>2. CASE StartRoot
    <3>1. leaked' = leaked /\ socket' = socket /\ failures' \in {failures, failures + 1}
      BY <2>2 DEF StartRoot, Fail, leftovers
    <3> QED
      BY <1>1, <3>1 DEF Spoilt
  <2>3. CASE ~NewRootFails /\ ~StartRoot
    <3>1. UNCHANGED <<leaked, socket, failures>>
      BY <1>3, <2>3 DEF User, NewRoot, RootStarted, ServerStop, JoinFinds, JoinReturns, FreeRoot,
         lifeVars, leftovers
    <3> QED
      BY <1>1, <3>1 DEF Spoilt
  <2> QED
    BY <2>1, <2>2, <2>3
<1>4. ASSUME NEW t \in Components, NoStructure(t) \/ NoReaders(t) \/ NoThread(t)
      PROVE  LeaksCounted'
  <2>1. socket' = socket
    BY <1>4 DEF NoStructure, NoReaders, NoThread, leftovers
  <2>2. \/ leaked' = leaked /\ failures' \in {failures, failures + 1}
        \/ Fail /\ (MayLeak(Child(t), "pipe") \/ MayLeak(Child(t), "lock"))
    BY <1>4 DEF NoStructure, NoReaders, NoThread, Fail, leftovers
  <2> QED
    BY <1>1, <1>2, <2>1, <2>2 DEF Spoilt
<1>5. ASSUME NEW t \in Components, ResourceFails(t)
      PROVE  LeaksCounted'
  <2>1. leaked' = leaked /\ failures' = failures + 1
    BY <1>5 DEF ResourceFails, Fail
  <2>2. CASE socket' = socket
    BY <1>1, <2>1, <2>2 DEF Spoilt
  <2>3. CASE socket' # socket
    <3>1. AtStep(t, "socket") /\ socket' = "stale"
      BY <1>5, <2>3 DEF ResourceFails
    <3>2. at[Acceptor] = "init"
      BY <3>1, SocketStep DEF AtStep, CreationInv
    <3>3. Spoilt = 0 /\ Spoilt' = 1
      BY <3>1, <3>2 DEF SocketFits, Spoilt
    <3> QED
      BY <1>0, <2>1, <3>3 DEF LeaksCounted
  <2> QED
    BY <2>2, <2>3
<1>6. ASSUME NEW t \in Components, MakeResource(t) \/ EndExit(t)
      PROVE  LeaksCounted'
  <2>1. leaked' = leaked /\ failures' = failures
    BY <1>6 DEF MakeResource, EndExit
  <2>2. socket' = socket \/ socket' = "open" \/ Spoilt' = Spoilt
    BY <1>6 DEF MakeResource, EndExit, CloseSocket, Spoilt
  <2>3. Spoilt \in {0, 1} /\ (socket' = "open" => Spoilt' = 0) /\ (socket' = socket => Spoilt' = Spoilt)
    BY DEF Spoilt
  <2>4. Spoilt' <= Spoilt /\ Spoilt' \in {0, 1}
    BY <2>2, <2>3
  <2> QED
    BY <1>0, <2>1, <2>3, <2>4 DEF LeaksCounted
<1>7. ASSUME NEW t \in Components, StartChild(t)
      PROVE  LeaksCounted'
  <2>1. leaked' = leaked /\ socket' = socket /\ failures' \in {failures, failures + 1}
    BY <1>7 DEF StartChild, Fail, leftovers
  <2> QED
    BY <1>1, <2>1 DEF Spoilt
<1>8. ASSUME NEW t \in Components,
             \/ Begin(t) \/ NewChild(t) \/ ChildStarted(t) \/ Initialized(t)
             \/ RoutineEnds(t) \/ Loop(t) \/ AskChild(t) \/ EndChild(t)
      PROVE  LeaksCounted'
  <2>1. UNCHANGED <<leaked, socket, failures>>
    BY <1>8 DEF Begin, NewChild, ChildStarted, Initialized, RoutineEnds, Loop, AskChild, EndChild,
       JoinFinds, JoinReturns, lifeVars, leftovers
  <2> QED
    BY <1>1, <2>1 DEF Spoilt
<1>9. CASE AcceptorReturns \/ UNCHANGED vars
  BY <1>1, <1>9 DEF AcceptorReturns, vars, lifeVars, leftovers, Spoilt
<1> QED
  BY <1>3, <1>4, <1>5, <1>6, <1>7, <1>8, <1>9 DEF Next, Own, Initialize, Exit

LEMMA LeakInvInit ==
    ASSUME Init
    PROVE  SocketFits /\ LeaksCounted
<1>1. leaked = {} /\ socket = "none" /\ failures = 0
  BY DEF Init
<1>2. IsFiniteSet(leaked) /\ Cardinality(leaked) = 0
  BY <1>1, FS_EmptySet
<1> QED
  BY <1>1, <1>2 DEF SocketFits, LeaksCounted, Spoilt

-----------------------------------------------------------------------------
(* What follows for the whole tree.                                        *)

FamilyInv ==
    CreationInv /\ OwnTypeOK /\ TreeInv /\ FailureInv /\ SocketFits /\ LeaksCounted

LEMMA FamilyAlways == Spec => []FamilyInv
<1>1. Init => FamilyInv
  BY CreationInvInit, OwnTypeInit, TreeInvInit, FailureInvInit, LeakInvInit DEF FamilyInv
<1>2. FamilyInv /\ [Next]_vars => FamilyInv'
  BY CreationInvNext, OwnTypeNext, TreeInvNext, FailureInvNext, SocketNext, LeaksNext
  DEF FamilyInv, CreationInv
<1> QED
  BY <1>1, <1>2, PTL DEF Spec

Gone(c) == owner[c] \in {"none", "failed", "done"} /\ at[c] \in {"absent", "ended"} /\ has[c] = {}

\* Where a thread is over, or never was, so are those of its children.
LEMMA GoneBelow ==
    ASSUME FamilyInv, broken = "no", NEW t \in Components, InTree(t), NEW c \in Children(t),
           at[t] \in {"absent", "ended"}
    PROVE  c \in Components /\ Gone(c)
<1>0. c \in Components /\ c # root
  BY ChildrenAreComponents, ChildrenApart DEF FamilyInv, CreationInv, StepInv
<1>1. FamilyFits(t, c) /\ MemoryFits(c) /\ CreationInv
  BY <1>0 DEF FamilyInv, TreeInv
<1>2. ~Creates(t, c)
  BY DEF Creates, AtStep
<1>3. owner[c] \in {"none", "failed", "done"} /\ (owner[c] = "failed" => has[c] = {})
  <2>1. owner[c] \notin {"made", "starting", "started", "joining"}
    BY <1>1, <1>2 DEF FamilyFits
  <2> QED
    BY <1>0, <1>1, <1>2, <2>1, ThreadOf DEF FamilyFits
<1>4. CASE owner[c] = "none"
  <2>1. c = Acceptor => at[Server] # "exit"
    BY <1>0, ChildrenApart
  <2> QED
    BY <1>0, <1>1, <1>4, <2>1, ThreadOf DEF MemoryFits, Gone
<1>5. CASE owner[c] = "failed"
  BY <1>0, <1>1, <1>3, <1>5, ThreadOf DEF Gone
<1>6. CASE owner[c] = "done"
  BY <1>0, <1>1, <1>6 DEF MemoryFits, Gone
<1> QED
  BY <1>3, <1>4, <1>5, <1>6

(* A component's thread is over only after those of its children, whatever *)
(* failed on the way: the exit callbacks end every child there is before   *)
(* they return, the readers created before a failure included.             *)
THEOREM ParentsEndLast == Spec => []ChildrenEndFirst
<1>1. ASSUME FamilyInv
      PROVE  ChildrenEndFirst
  <2> SUFFICES ASSUME broken = "no", NEW t \in Components, at[t] = "ended", NEW c \in Children(t)
               PROVE  at[c] \in {"absent", "ended"}
    BY DEF ChildrenEndFirst
  <2>1. InTree(t)
    BY <1>1, CreatedInTree DEF FamilyInv
  <2> QED
    BY <1>1, <2>1, GoneBelow DEF Gone
<1> QED
  BY <1>1, FamilyAlways, PTL

\* All that is not the root's is gone, or never was.
LEMMA GoneAll ==
    ASSUME FamilyInv, broken = "no", at[root] \in {"absent", "ended"}
    PROVE  \A c \in Components \ {root} : Gone(c)
<1>0. StepInv /\ CreationInv /\ root \in Components /\ root \in {Server, Client}
  BY RootIsComponent DEF FamilyInv, CreationInv, StepInv
<1>1. InTree(root)
  BY <1>0, ThreeComponents DEF InTree
<1>2. ASSUME NEW c \in Components \ {root}, Orphan(c)
      PROVE  Gone(c)
  <2>1. MemoryFits(c)
    BY <1>2 DEF FamilyInv, TreeInv
  <2>2. owner[c] = "none" /\ at[c] = "absent"
    BY <1>0, <1>2, <2>1, ThreadOf DEF MemoryFits
  <2>3. at[Server] # "exit"
    <3>1. CASE root = Server
      BY <3>1
    <3>2. CASE root # Server
      <4>1. owner[Server] = "none"
        BY <1>0, <3>2 DEF CreationInv, OneRoot
      <4> QED
        BY <1>0, <4>1, ThreadOf, ThreeComponents
    <3> QED
      BY <3>1, <3>2
  <2> QED
    BY <2>1, <2>2, <2>3 DEF MemoryFits, Gone
<1>3. ASSUME NEW c \in Components \ {root}, NEW p \in Components, InTree(p), c \in Children(p),
             p = root \/ Gone(p)
      PROVE  Gone(c)
  <2>1. at[p] \in {"absent", "ended"}
    BY <1>3 DEF Gone
  <2> QED
    BY <1>3, <2>1, GoneBelow
<1>4. ASSUME NEW c \in {Server, Acceptor, Client} \ {root}
      PROVE  Gone(c)
  <2>1. CASE Orphan(c)
    BY <1>2, <1>4, <2>1, ThreeComponents
  <2>2. CASE ~Orphan(c)
    <3>1. PICK p \in Components : InTree(p) /\ c \in Children(p)
      BY <1>4, <2>2 DEF Orphan
    <3>2. c = Acceptor /\ p = Server
      BY <1>4, <3>1, ChildrenApart
    <3>3. p = root
      BY <3>1, <3>2 DEF InTree
    <3> QED
      BY <1>3, <1>4, <3>1, <3>3, ThreeComponents
  <2> QED
    BY <2>1, <2>2
<1>5. ASSUME NEW i \in 1 .. NbPipes
      PROVE  Gone(<<"reader", i>>)
  <2>0. <<"reader", i>> \in Components \ {root}
    BY <1>0 DEF Components, Server, Client
  <2>1. CASE Orphan(<<"reader", i>>)
    BY <1>2, <2>0, <2>1
  <2>2. CASE ~Orphan(<<"reader", i>>)
    <3>1. PICK p \in Components : InTree(p) /\ <<"reader", i>> \in Children(p)
      BY <2>0, <2>2 DEF Orphan
    <3>2. p \in {Acceptor, Client}
      BY <3>1, ParentOf DEF Acceptor, Client
    <3>3. p = root \/ Gone(p)
      BY <1>4, <3>2
    <3> QED
      BY <1>3, <2>0, <3>1, <3>3
  <2> QED
    BY <2>1, <2>2
<1>6. ASSUME NEW i \in 1 .. NbPipes
      PROVE  Gone(<<"worker", i>>)
  <2>1. <<"worker", i>> \in Components \ {root} /\ <<"reader", i>> \in Components
    BY <1>0 DEF Components, Server, Client
  <2>2. InTree(<<"reader", i>>)
    BY DEF InTree, Server, Acceptor, Client
  <2>3. <<"worker", i>> \in Children(<<"reader", i>>)
    BY DEF Children, Kind
  <2> QED
    BY <1>3, <1>5, <2>1, <2>2, <2>3
<1>7. ASSUME NEW i \in 1 .. NbPipes
      PROVE  Gone(<<"writer", i>>)
  <2>1. <<"writer", i>> \in Components \ {root} /\ <<"worker", i>> \in Components
    BY <1>0 DEF Components, Server, Client
  <2>2. InTree(<<"worker", i>>)
    BY DEF InTree, Server, Acceptor, Client
  <2>3. <<"writer", i>> \in Children(<<"worker", i>>)
    BY DEF Children, Kind
  <2> QED
    BY <1>3, <1>6, <2>1, <2>2, <2>3
<1> QED
  <2> TAKE c \in Components \ {root}
  <2>1. \/ c \in {Server, Acceptor, Client}
        \/ \E i \in 1 .. NbPipes : c \in {<<"reader", i>>, <<"worker", i>>, <<"writer", i>>}
    BY DEF Components
  <2> QED
    BY <1>4, <1>5, <1>6, <1>7, <2>1

(* Once the user has joined the server or the client nothing it was made   *)
(* of is left or open, but for the leaks NothingLeft names; each leaked    *)
(* name or lock, and the second close of the listening socket, takes a     *)
(* failure of its own; and freed memory is used only where an allocation   *)
(* or a system call failed before, or there was no slot left for a thread. *)
THEOREM MemoryGivenBack == Spec => []MemoryKept
<1>1. ASSUME FamilyInv
      PROVE  MemoryKept
  <2>1. BrokenByFailure
    BY <1>1 DEF FamilyInv, FailureInv
  <2>2. ASSUME owner[root] = "done", broken = "no"
        PROVE  NothingLeft
    <3>0. root \in Components /\ CreationInv
      BY <1>1, RootIsComponent DEF FamilyInv, CreationInv
    <3>1. MemoryFits(root)
      BY <1>1, <2>2, <3>0 DEF FamilyInv, TreeInv
    <3>2. at[root] \in {"absent", "ended"} /\ (has[root] # {} => at[root] = "absent")
      BY <2>2, <3>1 DEF MemoryFits
    <3>3. \A c \in Components \ {root} : Gone(c)
      BY <1>1, <2>2, <3>2, GoneAll
    <3>4. ASSUME NEW c \in Components, memory[c] = "there"
          PROVE  owner[c] = "failed"
      BY <2>2, <3>0, <3>3, <3>4, ThreadOf DEF Gone
    <3>5. socket \notin {"open", "stale"}
      <4>1. Acceptor \in Components \ {root}
        BY <3>0, ThreeComponents DEF CreationInv, StepInv
      <4>2. at[Acceptor] \in {"absent", "ended"}
        BY <3>3, <4>1 DEF Gone
      <4> QED
        BY <1>1, <4>2 DEF FamilyInv, SocketFits
    <3> QED
      BY <3>2, <3>3, <3>4, <3>5 DEF NothingLeft, Gone
  <2>3. NothingLeft
    BY <2>2 DEF NothingLeft
  <2>4. LeaksAreFailures
    BY <1>1 DEF FamilyInv, SocketFits, LeaksCounted, Spoilt, LeaksAreFailures
  <2> QED
    BY <2>1, <2>3, <2>4 DEF MemoryKept
<1> QED
  BY <1>1, FamilyAlways, PTL
=============================================================================
