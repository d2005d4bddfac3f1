------------------------------- MODULE Thread -------------------------------
(***************************************************************************)
(* The life of a thread of src/src/thread.c, seen from both sides: the     *)
(* function that drives it (_runThread), and the calls its owner makes on  *)
(* it (NewThread, ThreadStart, ThreadStop, ThreadJoin).                    *)
(*                                                                         *)
(* thread->lock is held from the creation until the owner waits on         *)
(* condInit, then by the thread until the first iteration of its loop: in  *)
(* between, the owner cannot come back from ThreadStart, so that the whole *)
(* of the initialization is one step for it.  running is written by        *)
(* ThreadStop without the lock, hence the step of its own between the test *)
(* of running and the write that follows it.                               *)
(*                                                                         *)
(* The states BLOCKED and IDLE are kept by lock.c and condition.c in       *)
(* builds that debug threads only (ThreadSelf() is NULL in the others) and *)
(* are left out, as is _numThreadsRunning, which only the statistics read. *)
(***************************************************************************)
EXTENDS Integers, FiniteSets

CONSTANTS
    Threads,     \* threads the process may create
    MaxThreads   \* AIO4C_MAX_THREADS, the main thread's slot included

ASSUME ThreadAssumption ==
    /\ IsFiniteSet(Threads)
    /\ MaxThreads \in Nat \ {0}

VARIABLES
    memory,       \* the Thread structure: not allocated yet, there, or freed
    state,        \* thread->state
    running,      \* thread->running
    initialized,  \* thread->initialized
    at,           \* where the thread itself is in _runThread
    answer,       \* what its routine returned last
    owner,        \* where its owner is in the calls about it
    numThreads,   \* _numThreads: slots of _threads ever taken
    \* history
    initOk,       \* threads whose initialization callback returned true
    stopped,      \* threads ThreadStop was called for
    overwritten   \* threads that wrote running after ThreadStop had

thread == <<memory, state, running, initialized, at, answer>>
threadHistory == <<initOk, stopped, overwritten>>
threadVars == <<thread, owner, numThreads, threadHistory>>

Places == {"absent", "created", "init", "run", "back", "write", "exit", "ended"}

ThreadTypeOK ==
    /\ memory \in [Threads -> {"none", "there", "freed"}]
    /\ state \in [Threads -> {"NONE", "RUNNING", "EXITED", "JOINED"}]
    /\ running \in [Threads -> BOOLEAN]
    /\ initialized \in [Threads -> BOOLEAN]
    /\ at \in [Threads -> Places]
    /\ answer \in [Threads -> BOOLEAN]
    /\ owner \in [Threads -> {"none", "made", "starting", "started", "failed",
                              "joining", "done"}]
    /\ numThreads \in Nat
    /\ initOk \in SUBSET Threads
    /\ stopped \in SUBSET Threads
    /\ overwritten \in SUBSET Threads

\* ThreadMain has run: the main thread has the first slot.  Threads that ended
\* before have some of the others, as a slot is never given back.
ThreadInit ==
    /\ memory = [t \in Threads |-> "none"]
    /\ state = [t \in Threads |-> "NONE"]
    /\ running = [t \in Threads |-> FALSE]
    /\ initialized = [t \in Threads |-> FALSE]
    /\ at = [t \in Threads |-> "absent"]
    /\ answer = [t \in Threads |-> FALSE]
    /\ owner = [t \in Threads |-> "none"]
    /\ numThreads \in 1 .. MaxThreads
    /\ initOk = {}
    /\ stopped = {}
    /\ overwritten = {}

-----------------------------------------------------------------------------
(* The calls of the owner.                                                 *)

SlotLeftOrNot == numThreads <= MaxThreads

\* The limit is tested here, and the slot taken in ThreadStart.
SlotLeft == numThreads < MaxThreads

NewThread(t) ==
    /\ memory[t] = "none"
    /\ SlotLeft
    /\ memory' = [memory EXCEPT ![t] = "there"]
    /\ owner' = [owner EXCEPT ![t] = "made"]
    /\ UNCHANGED <<state, running, initialized, at, answer, numThreads,
                   threadHistory>>

\* pthread_create and _addThread; the owner goes to wait for condInit.
ThreadStart(t) ==
    /\ owner[t] = "made"
    /\ owner' = [owner EXCEPT ![t] = "starting"]
    /\ at' = [at EXCEPT ![t] = "created"]
    /\ numThreads' = numThreads + 1
    /\ UNCHANGED <<memory, state, running, initialized, answer, threadHistory>>

\* pthread_create reports an error.
ThreadStartFails(t) ==
    /\ owner[t] = "made"
    /\ owner' = [owner EXCEPT ![t] = "failed"]
    /\ UNCHANGED <<thread, numThreads, threadHistory>>

\* The loop on initialized ends; ThreadStart returns true, whatever init did.
ThreadStarted(t) ==
    /\ owner[t] = "starting"
    /\ initialized[t]
    /\ owner' = [owner EXCEPT ![t] = "started"]
    /\ UNCHANGED <<thread, numThreads, threadHistory>>

ThreadStop(t) ==
    /\ owner[t] = "started"
    /\ running' = [running EXCEPT ![t] = FALSE]
    /\ stopped' = stopped \cup {t}
    /\ UNCHANGED <<memory, state, initialized, at, answer, owner, numThreads,
                   initOk, overwritten>>

NotToldToStop(t) == state[t] = "EXITED" \/ running[t]

ThreadRunning(t) == state[t] \in {"RUNNING", "EXITED"} \/ running[t]

FreeThread(t) ==
    /\ memory' = [memory EXCEPT ![t] = "freed"]
    /\ owner' = [owner EXCEPT ![t] = "done"]

\* A thread that is not running, as ThreadRunning sees it, is freed at once.
ThreadJoin(t) ==
    /\ owner[t] = "started"
    /\ IF ThreadRunning(t)
       THEN /\ owner' = [owner EXCEPT ![t] = "joining"]
            /\ UNCHANGED memory
       ELSE FreeThread(t)
    /\ UNCHANGED <<state, running, initialized, at, answer, numThreads,
                   threadHistory>>

\* pthread_join returns.
ThreadJoined(t) ==
    /\ owner[t] = "joining"
    /\ at[t] = "ended"
    /\ state' = [state EXCEPT ![t] = "JOINED"]
    /\ FreeThread(t)
    /\ UNCHANGED <<running, initialized, at, answer, numThreads, threadHistory>>

\* A thread whose ThreadStart failed is freed, where its owner thinks of it.
FreeUnstarted(t) ==
    /\ owner[t] = "failed"
    /\ FreeThread(t)
    /\ UNCHANGED <<state, running, initialized, at, answer, numThreads,
                   threadHistory>>

-----------------------------------------------------------------------------
(* _runThread                                                              *)

MoveTo(t, place) == at' = [at EXCEPT ![t] = place]

BeginInit(t) ==
    /\ at[t] = "created"
    /\ MoveTo(t, "init")
    /\ running' = [running EXCEPT ![t] = TRUE]
    /\ UNCHANGED <<memory, state, initialized, answer, owner, numThreads,
                   threadHistory>>

\* init returned run: the owner is notified, and the loop entered or not.
EndInit(t, run) ==
    /\ at[t] = "init"
    /\ initialized' = [initialized EXCEPT ![t] = TRUE]
    /\ running' = [running EXCEPT ![t] = run]
    /\ state' = IF run THEN [state EXCEPT ![t] = "RUNNING"] ELSE state
    /\ initOk' = IF run THEN initOk \cup {t} ELSE initOk
    /\ MoveTo(t, IF run THEN "run" ELSE "exit")
    /\ UNCHANGED <<memory, answer, owner, numThreads, stopped, overwritten>>

\* The routine returns, and thread->lock is taken.
RoutineReturns(t, run) ==
    /\ at[t] = "run"
    /\ MoveTo(t, "back")
    /\ answer' = [answer EXCEPT ![t] = run]
    /\ UNCHANGED <<memory, state, running, initialized, owner, numThreads,
                   threadHistory>>

\* if (thread->running) ...
TestRunning(t) ==
    /\ at[t] = "back"
    /\ MoveTo(t, IF running[t] THEN "write" ELSE "exit")
    /\ UNCHANGED <<memory, state, running, initialized, answer, owner,
                   numThreads, threadHistory>>

\* ... thread->running = run; and the loop goes on or not.
WriteRunning(t) ==
    /\ at[t] = "write"
    /\ running' = [running EXCEPT ![t] = answer[t]]
    /\ MoveTo(t, IF answer[t] THEN "run" ELSE "exit")
    /\ overwritten' = IF t \in stopped /\ answer[t]
                      THEN overwritten \cup {t} ELSE overwritten
    /\ UNCHANGED <<memory, state, initialized, answer, owner, numThreads,
                   initOk, stopped>>

\* The exit callback has returned: _ThreadCleanup ends, and the thread.
EndCleanup(t) ==
    /\ at[t] = "exit"
    /\ MoveTo(t, "ended")
    /\ state' = [state EXCEPT ![t] = "EXITED"]
    /\ UNCHANGED <<memory, running, initialized, answer, owner, numThreads,
                   threadHistory>>

-----------------------------------------------------------------------------
(* Threads whose callbacks do and return anything, and whose owners follow *)
(* the library's protocol.                                                 *)
OwnerStep(t) ==
    \/ NewThread(t) \/ ThreadStart(t) \/ ThreadStartFails(t)
    \/ ThreadStarted(t) \/ ThreadStop(t)
    \/ ThreadJoin(t) \/ ThreadJoined(t) \/ FreeUnstarted(t)

LoopStep(t) == TestRunning(t) \/ WriteRunning(t)

RunStep(t) ==
    \/ BeginInit(t)
    \/ \E run \in BOOLEAN : EndInit(t, run) \/ RoutineReturns(t, run)
    \/ LoopStep(t)
    \/ EndCleanup(t)

ThreadNext == \E t \in Threads : OwnerStep(t) \/ RunStep(t)

ThreadSpec == ThreadInit /\ [][ThreadNext]_threadVars

-----------------------------------------------------------------------------
(* Properties.                                                             *)

\* ThreadStart waits: its owner goes on only once the initialization callback
\* has returned (the loop on condInit).
StartWaitsForInit ==
    \A t \in Threads :
        owner[t] \in {"started", "joining"} =>
            at[t] \notin {"absent", "created", "init"}

\* ThreadJoin frees a thread whose initialization succeeded only when that
\* thread has ended, whenever it is called and whatever ThreadStop did to
\* running (ThreadRunning, _ThreadCleanup).
JoinFreesEnded ==
    \A t \in initOk : memory[t] = "freed" => at[t] = "ended"
=============================================================================
