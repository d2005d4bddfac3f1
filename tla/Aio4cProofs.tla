---------------------------- MODULE Aio4cProofs -----------------------------
(***************************************************************************)
(* Proofs about Aio4c, for any number of users, messages and failures:     *)
(* where each message is, in what order they are printed, and who may find *)
(* the queue or the file gone.                                             *)
(***************************************************************************)
EXTENDS Aio4c, SequenceLemmas

USE ThreadAssumption, Aio4cAssumption

Going == {"run", "back", "write"}
Begun == Going \cup {"exit", "ended"}
Starting == {"stats", "handler", "file"}

-----------------------------------------------------------------------------
(* 1. What holds between two steps.                                         *)

\* The logger's thread and its owner: see ThreadInv for any thread; this one
\* initializes well, is not told to stop, and asks for no more than EXIT.
LoggerFits ==
    /\ owner["logger"] = "none" <=> memory["logger"] = "none"
    /\ at["logger"] = "absent" => owner["logger"] \in {"none", "made", "failed", "done"}
    /\ at["logger"] # "absent" => owner["logger"] \in {"starting", "started", "joining", "done"}
    /\ initialized["logger"] <=> at["logger"] \in Begun
    /\ owner["logger"] \in {"started", "joining"} => initialized["logger"]
    /\ owner["logger"] = "done" => at["logger"] \in {"absent", "ended"}
    /\ at["logger"] \in Going \cup {"exit"} => state["logger"] = "RUNNING"
    /\ at["logger"] = "ended" /\ owner["logger"] # "done" => state["logger"] = "EXITED"
    /\ at["logger"] \in Going => running["logger"]
    /\ at["logger"] \in {"back", "write"} => ~answer["logger"]

\* Where the main thread is, as to what it has set up.
MainFits ==
    /\ mainAt \in Starting \cup {"queue"} => owner["logger"] = "none" /\ queue = "none"
    /\ mainAt = "logger" => owner["logger"] \in {"none", "made", "starting", "failed"}
    /\ mainAt \in {"user", "exit", "join"} => owner["logger"] \in {"none", "started", "joining", "done"}
    /\ mainAt \in Ended => owner["logger"] \in {"none", "done"}
    /\ mainAt \in {"logger", "exit", "join"} => queue # "none"
    /\ queue = "none" => owner["logger"] = "none"
    /\ exiting <=> mainAt \in {"exit", "join"} \/ (mainAt \in Ended /\ queue # "none")
    /\ exit <=> exiting /\ mainAt # "exit"

\* What the logger's thread has left: it ends on EXIT, and empties the queue.
LogFits ==
    /\ at["logger"] \in {"back", "write", "exit", "ended"} => exit /\ Exit \notin ToSet(messages)
    /\ ~exit => Exit \notin ToSet(messages)
    /\ queue = "none" => messages = <<>>
    /\ queue = "freed" <=> at["logger"] = "ended"
    /\ mainAt \in Starting => file = "none"
    /\ file = "none" => mainAt \in Starting \/ at["logger"] \in {"exit", "ended"}
    /\ at["logger"] = "ended" => file = "none"
    /\ at["logger"] \in {"exit", "ended"} /\ file = "none" => messages = <<>>
    /\ file = "file" => "file" \in openFiles

CountsFit ==
    /\ \A u \in Users : count[u] <= MaxLogs
    /\ mainAt \in Starting => count["main"] = 0
    /\ mainAt = "queue" => count["main"] <= 1
    /\ mainAt = "logger" /\ owner["logger"] # "failed" => count["main"] <= 1
    /\ count["main"] <= 2
    /\ at["logger"] \in {"absent", "created"} => count["logger"] = 0
    /\ at["logger"] \in Going \cup {"init"} => count["logger"] <= 1
    /\ count["logger"] <= 2

\* A thread that is in Log has found a handler; what it found of the queue and
\* of the file; and what one that enters Log after LogEnd can have found.
HandFits(l) ==
    /\ hand[l] # "none" => count[l] >= 1
    /\ hand[l] = "queue" => queue # "none"
    /\ hand[l] = "file" /\ at["logger"] \notin {"exit", "ended"} => "file" \in openFiles
    /\ since[l] /\ hand[l] # "none" => mainAt \in Ended
    /\ since[l] /\ hand[l] \in {"queue", "file"} => at["logger"] = "absent"

ControlInv ==
    /\ TypeOK /\ LoggerFits /\ MainFits /\ LogFits /\ CountsFit
    /\ \A l \in Loggers : HandFits(l)
    /\ LateLogIsSafe

\* What is refused was counted before.
RefusedPast == \A l \in Loggers, n \in 1..(MaxLogs + 3) : <<l, n>> \in refused => n <= count[l]

\* Before LogEnd, the queue goes on where what is printed ends, and a thread
\* that prints by itself has nothing in it.
InOrder(s) == \A i, j \in DOMAIN s : i < j /\ s[i][1] = s[j][1] => s[i][2] < s[j][2]

QueueInOrder ==
    /\ InOrder(messages)
    /\ \A x \in ToSet(printed), y \in ToSet(messages) : x[1] = y[1] => x[2] < y[2]
    /\ \A l \in Loggers : hand[l] \in {"print", "file", "stderr"} =>
          \A y \in ToSet(messages) : y[1] # l

\* Every message that is dropped was dropped by a failure of its own.
DroppedFits == IsFiniteSet(dropped) /\ DroppedForFailures

MessagesInv ==
    /\ EachPrintedOnce /\ RefusedPast /\ DroppedFits
    /\ PrintedInOrder
    /\ ~exiting => QueueInOrder

-----------------------------------------------------------------------------
(* 2. The threads.                                                          *)

\* Nothing of thread t moves.
Rests(t) ==
    /\ memory'[t] = memory[t] /\ state'[t] = state[t] /\ running'[t] = running[t]
    /\ initialized'[t] = initialized[t] /\ at'[t] = at[t] /\ answer'[t] = answer[t]
    /\ owner'[t] = owner[t]

LEMMA TwoThreads ==
    /\ Threads = {"logger", "stats"} /\ "logger" # "stats"
    /\ "logger" \in Loggers /\ "main" \in Loggers
    /\ Loggers = Users \cup {"logger", "main"}
BY DEF Loggers

LEMMA LoggerRests ==
    ASSUME LoggerFits, Rests("logger")
    PROVE  LoggerFits'
BY DEF LoggerFits, Rests

(* The calls of the owner and the steps of _runThread keep the types, and  *)
(* leave the other thread alone.                                           *)
LEMMA OwnerTyped ==
    ASSUME ThreadTypeOK, NEW t \in Threads, OwnerStep(t)
    PROVE  ThreadTypeOK' /\ \A u \in Threads \ {t} : Rests(u)
<1>1. CASE NewThread(t)
  BY <1>1 DEF NewThread, ThreadTypeOK, Rests, threadHistory
<1>2. CASE ThreadStart(t)
  BY <1>2 DEF ThreadStart, ThreadTypeOK, Rests, threadHistory, Places
<1>3. CASE ThreadStartFails(t)
  BY <1>3 DEF ThreadStartFails, ThreadTypeOK, Rests, thread, threadHistory
<1>4. CASE ThreadStarted(t)
  BY <1>4 DEF ThreadStarted, ThreadTypeOK, Rests, thread, threadHistory
<1>5. CASE ThreadStop(t)
  BY <1>5 DEF ThreadStop, ThreadTypeOK, Rests
<1>6. CASE ThreadJoin(t)
  <2>1. CASE ThreadRunning(t)
    BY <1>6, <2>1 DEF ThreadJoin, ThreadTypeOK, Rests, threadHistory
  <2>2. CASE ~ThreadRunning(t)
    BY <1>6, <2>2 DEF ThreadJoin, FreeThread, ThreadTypeOK, Rests, threadHistory
  <2> QED
    BY <2>1, <2>2
<1>7. CASE ThreadJoined(t)
  BY <1>7 DEF ThreadJoined, FreeThread, ThreadTypeOK, Rests, threadHistory
<1>8. CASE FreeUnstarted(t)
  BY <1>8 DEF FreeUnstarted, FreeThread, ThreadTypeOK, Rests, threadHistory
<1> QED
  BY <1>1, <1>2, <1>3, <1>4, <1>5, <1>6, <1>7, <1>8 DEF OwnerStep

LEMMA RunTyped ==
    ASSUME ThreadTypeOK, NEW t \in Threads, RunStep(t)
    PROVE  ThreadTypeOK' /\ \A u \in Threads \ {t} : Rests(u)
<1>1. CASE BeginInit(t)
  BY <1>1 DEF BeginInit, MoveTo, ThreadTypeOK, Rests, threadHistory, Places
<1>2. ASSUME NEW run \in BOOLEAN, EndInit(t, run)
      PROVE  ThreadTypeOK' /\ \A u \in Threads \ {t} : Rests(u)
  <2>1. state' \in [Threads -> {"NONE", "RUNNING", "EXITED", "JOINED"}]
    BY <1>2 DEF EndInit, ThreadTypeOK
  <2>2. /\ initialized' \in [Threads -> BOOLEAN] /\ running' \in [Threads -> BOOLEAN]
        /\ at' \in [Threads -> Places] /\ initOk' \in SUBSET Threads
    BY <1>2 DEF EndInit, MoveTo, ThreadTypeOK, Places
  <2>3. ThreadTypeOK'
    BY <1>2, <2>1, <2>2 DEF EndInit, ThreadTypeOK
  <2> QED
    BY <1>2, <2>3 DEF EndInit, MoveTo, ThreadTypeOK, Rests
<1>3. ASSUME NEW run \in BOOLEAN, RoutineReturns(t, run)
      PROVE  ThreadTypeOK' /\ \A u \in Threads \ {t} : Rests(u)
  BY <1>3 DEF RoutineReturns, MoveTo, ThreadTypeOK, Rests, threadHistory, Places
<1>4. CASE TestRunning(t)
  BY <1>4 DEF TestRunning, MoveTo, ThreadTypeOK, Rests, threadHistory, Places
<1>5. CASE WriteRunning(t)
  BY <1>5 DEF WriteRunning, MoveTo, ThreadTypeOK, Rests, threadHistory, Places
<1>6. CASE EndCleanup(t)
  BY <1>6 DEF EndCleanup, MoveTo, ThreadTypeOK, Rests, threadHistory, Places
<1> QED
  BY <1>1, <1>2, <1>3, <1>4, <1>5, <1>6 DEF RunStep, LoopStep

(* What main does of the logger's thread, and what it finds of it.         *)
LEMMA OwnerActs ==
    ASSUME ThreadTypeOK, LoggerFits, OwnerStep("logger"), ~ThreadStop("logger")
    PROVE  /\ LoggerFits'
           /\ at'["logger"] = at["logger"]
              \/ (ThreadStart("logger") /\ at["logger"] = "absent" /\ at'["logger"] = "created")
           /\ <<owner["logger"], owner'["logger"]>> \in
                 {<<"none", "made">>, <<"made", "starting">>, <<"made", "failed">>,
                  <<"starting", "started">>, <<"failed", "done">>,
                  <<"started", "joining">>, <<"joining", "done">>}
<1>0. "logger" \in Threads
  BY TwoThreads
<1> USE DEF LoggerFits, ThreadTypeOK, Going, Begun
<1>1. CASE NewThread("logger")
  BY <1>0, <1>1 DEF NewThread
<1>2. CASE ThreadStart("logger")
  BY <1>0, <1>2 DEF ThreadStart
<1>3. CASE ThreadStartFails("logger")
  BY <1>0, <1>3 DEF ThreadStartFails, thread
<1>4. CASE ThreadStarted("logger")
  BY <1>0, <1>4 DEF ThreadStarted, thread
<1>6. CASE ThreadJoin("logger")
  <2>1. ThreadRunning("logger")
    BY <1>0, <1>6 DEF ThreadJoin, ThreadRunning
  <2> QED
    BY <1>0, <1>6, <2>1 DEF ThreadJoin
<1>7. CASE ThreadJoined("logger")
  BY <1>0, <1>7 DEF ThreadJoined, FreeThread
<1>8. CASE FreeUnstarted("logger")
  BY <1>0, <1>8 DEF FreeUnstarted, FreeThread
<1> QED
  BY <1>1, <1>2, <1>3, <1>4, <1>6, <1>7, <1>8 DEF OwnerStep

(* The steps of the logger's thread itself.                                *)
LoggerRuns ==
    \/ BeginInit("logger") \/ EndInit("logger", TRUE) \/ RoutineReturns("logger", FALSE)
    \/ LoopStep("logger") \/ EndCleanup("logger")

LEMMA LoggerActs ==
    ASSUME ThreadTypeOK, LoggerFits, LoggerRuns
    PROVE  /\ LoggerFits'
           /\ owner'["logger"] = owner["logger"] /\ RunStep("logger")
           /\ <<at["logger"], at'["logger"]>> \in
                 {<<"created", "init">>, <<"init", "run">>, <<"run", "back">>, <<"back", "write">>,
                  <<"write", "exit">>, <<"exit", "ended">>}
<1>0. "logger" \in Threads
  BY TwoThreads
<1>r. RunStep("logger")
  BY DEF LoggerRuns, RunStep
<1> USE DEF LoggerFits, ThreadTypeOK, Going, Begun, MoveTo
<1>1. CASE BeginInit("logger")
  BY <1>0, <1>1, <1>r DEF BeginInit
<1>2. CASE EndInit("logger", TRUE)
  BY <1>0, <1>2, <1>r DEF EndInit
<1>3. CASE RoutineReturns("logger", FALSE)
  BY <1>0, <1>3, <1>r DEF RoutineReturns
<1>4. CASE TestRunning("logger")
  BY <1>0, <1>4, <1>r DEF TestRunning
<1>5. CASE WriteRunning("logger")
  BY <1>0, <1>5, <1>r DEF WriteRunning
<1>6. CASE EndCleanup("logger")
  BY <1>0, <1>6, <1>r DEF EndCleanup
<1> QED
  BY <1>1, <1>2, <1>3, <1>4, <1>5, <1>6 DEF LoggerRuns, LoopStep

-----------------------------------------------------------------------------
(* 3. Where everybody is.                                                   *)
MainPlaces ==
    {"stats", "handler", "file", "queue", "logger", "user", "exit", "join"} \cup Ended

\* The file and the queue, and whoever is in Log.
logVars == <<files, queueVars, logging, broken>>

(* A step of the threads and of main alone.                                *)
LEMMA ThreadsTyped ==
    ASSUME TypeOK, ThreadTypeOK', UNCHANGED <<options, logVars>>, handler' \in BOOLEAN,
           exiting' \in BOOLEAN, mainAt' \in MainPlaces, failures' \in 0..MaxFailures,
           lostStats' \in BOOLEAN
    PROVE  TypeOK'
<1>1. UNCHANGED <<interval, periodic, logFile, file, openFiles, queue, messages, exit, hand,
                  count, printed, refused, unheard, dropped, since, broken>>
  BY DEF options, logVars, files, queueVars, logging
<1>2. /\ {interval, periodic, logFile, handler, exit, exiting, lostStats}' \subseteq BOOLEAN
      /\ mainAt' \in MainPlaces /\ failures' \in 0..MaxFailures
  BY <1>1 DEF TypeOK
<1>3. /\ file' \in {"none", "file", "stderr"} /\ openFiles' \subseteq {"file", "stderr"}
      /\ queue' \in {"none", "there", "freed"} /\ messages' \in Seq(Messages \cup {Exit})
      /\ hand' \in [Loggers -> {"none", "log", "queue", "print", "file", "stderr"}]
      /\ count' \in [Loggers -> 0..MaxLogs + 3] /\ printed' \in Seq(Messages)
      /\ refused' \cup unheard' \cup dropped' \subseteq Messages
      /\ since' \in [Loggers -> BOOLEAN] /\ broken' \in Loggers \cup {"memory", "no"}
  BY <1>1 DEF TypeOK
<1> QED
  BY <1>2, <1>3 DEF TypeOK, MainPlaces

(* Who is in Log stays there when what is found there does.                *)
LEMMA HandStays ==
    ASSUME NEW l, HandFits(l),
           hand'[l] = hand[l], count'[l] = count[l], since'[l] = since[l],
           queue # "none" => queue' # "none",
           at'["logger"] \notin {"exit", "ended"} =>
              at["logger"] \notin {"exit", "ended"} /\ openFiles \subseteq openFiles',
           mainAt \in Ended => mainAt' \in Ended,
           at["logger"] = "absent" /\ mainAt \in Ended => at'["logger"] = "absent"
    PROVE  HandFits(l)'
BY DEF HandFits

(* Main moves on, and perhaps starts the logger's thread.                  *)
LEMMA MainMoves ==
    ASSUME ControlInv, UNCHANGED logVars, TypeOK', LoggerFits', MainFits',
           \/ at'["logger"] = at["logger"]
           \/ at["logger"] = "absent" /\ at'["logger"] = "created" /\ mainAt \notin Ended,
           mainAt \in Ended => mainAt' \in Ended,
           mainAt' \in Starting <=> mainAt \in Starting,
           mainAt' = "queue" => mainAt = "queue",
           mainAt' = "logger" /\ owner'["logger"] # "failed" =>
              mainAt = "logger" /\ owner["logger"] # "failed"
    PROVE  ControlInv'
<1>1. UNCHANGED <<file, openFiles, queue, messages, exit, hand, count, printed, refused, unheard, dropped,
                  since, broken>>
  BY DEF logVars, files, queueVars, logging
<1>2. LogFits'
  BY <1>1 DEF LogFits, ControlInv
<1>3. CountsFit'
  BY <1>1 DEF CountsFit, ControlInv, Going, Starting
<1>4. ASSUME NEW l \in Loggers
      PROVE  HandFits(l)'
  <2>1. HandFits(l) /\ LoggerFits
    BY DEF ControlInv
  <2>2. at["logger"] = "absent" /\ mainAt \in Ended => at'["logger"] = "absent"
    OBVIOUS
  <2>3. at'["logger"] \notin {"exit", "ended"} => at["logger"] \notin {"exit", "ended"}
    OBVIOUS
  <2> QED
    BY <1>1, <2>1, <2>2, <2>3, HandStays
<1>5. LateLogIsSafe'
  BY <1>1 DEF LateLogIsSafe, ControlInv
<1> QED
  BY <1>2, <1>3, <1>4, <1>5 DEF ControlInv

-----------------------------------------------------------------------------
(* 4. Main, and the thread of the statistics.                               *)
LEMMA ThreadsRest ==
    ASSUME TypeOK, UNCHANGED threadVars
    PROVE  ThreadTypeOK' /\ Rests("logger") /\ Rests("stats")
BY DEF TypeOK, ThreadTypeOK, threadVars, thread, threadHistory, Rests

LEMMA StatsMoves ==
    ASSUME TypeOK, OwnerStep("stats") \/ RunStep("stats") \/ UNCHANGED threadVars
    PROVE  ThreadTypeOK' /\ Rests("logger")
<1>1. "stats" \in Threads /\ "logger" \in Threads \ {"stats"} /\ ThreadTypeOK
  BY TwoThreads DEF TypeOK
<1>2. CASE OwnerStep("stats")
  BY <1>1, <1>2, OwnerTyped
<1>3. CASE RunStep("stats")
  BY <1>1, <1>3, RunTyped
<1>4. CASE UNCHANGED threadVars
  BY <1>4, ThreadsRest
<1> QED
  BY <1>2, <1>3, <1>4

(* A step of main's that has to do with the statistics' thread only, or    *)
(* with none, and of that thread.                                          *)
LEMMA StatsOrMain ==
    ASSUME ControlInv, UNCHANGED <<options, logVars>>, handler' \in BOOLEAN,
           OwnerStep("stats") \/ RunStep("stats") \/ UNCHANGED threadVars,
           exiting' = exiting, failures' \in 0..MaxFailures, lostStats' \in BOOLEAN,
           <<mainAt, mainAt'>> \in {<<"stats", "handler">>, <<"handler", "file">>,
               <<"stop", "join stats">>, <<"join stats", "last stats">>, <<"last stats", "done">>}
           \/ mainAt' = mainAt
    PROVE  ControlInv'
<1>1. ThreadTypeOK' /\ Rests("logger")
  BY StatsMoves DEF ControlInv
<1>2. mainAt' \in MainPlaces /\ exiting' \in BOOLEAN
  BY DEF ControlInv, TypeOK, MainPlaces, Ended
<1>3. TypeOK'
  BY <1>1, <1>2, ThreadsTyped DEF ControlInv
<1>4. LoggerFits'
  BY <1>1, LoggerRests DEF ControlInv
<1>5. MainFits'
  <2>1. queue' = queue /\ exit' = exit /\ owner'["logger"] = owner["logger"]
    BY <1>1 DEF logVars, queueVars, Rests
  <2> QED
    BY <2>1 DEF MainFits, ControlInv, Starting, Ended
<1>6. at'["logger"] = at["logger"] /\ owner'["logger"] = owner["logger"]
  BY <1>1 DEF Rests
<1>7. /\ mainAt \in Ended => mainAt' \in Ended
      /\ mainAt' \in Starting <=> mainAt \in Starting
      /\ mainAt' = "queue" => mainAt = "queue"
      /\ mainAt' = "logger" => mainAt = "logger"
  BY DEF Ended, Starting
<1> QED
  BY <1>3, <1>4, <1>5, <1>6, <1>7, MainMoves

LEMMA FailureCounted ==
    ASSUME TypeOK, failures' = failures \/ Fail
    PROVE  failures' \in 0..MaxFailures
<1>1. failures \in Nat /\ failures <= MaxFailures
  BY DEF TypeOK
<1> QED
  BY <1>1 DEF Fail, TypeOK

LEMMA StatsThreadFits ==
    ASSUME ControlInv, StatsThread
    PROVE  ControlInv'
<1> DEFINE still == UNCHANGED <<options, logVars>> /\ handler' = handler /\ exiting' = exiting
                    /\ mainAt' = mainAt
<1>1. handler \in BOOLEAN /\ lostStats \in BOOLEAN
  BY DEF ControlInv, TypeOK
<1>2. CASE StatsBegins
  <2>1. still /\ RunStep("stats") /\ (failures' = failures \/ Fail) /\ lostStats' = lostStats
    BY <1>2 DEF StatsBegins, RunStep, logVars
  <2>2. failures' \in 0..MaxFailures
    BY <2>1, FailureCounted DEF ControlInv
  <2> QED
    BY <1>1, <2>1, <2>2, StatsOrMain
<1>3. CASE StatsRun
  <2>1. still /\ RunStep("stats") /\ failures' = failures /\ lostStats' \in BOOLEAN
    BY <1>1, <1>3 DEF StatsRun, PrintStats, RunStep, logVars
  <2>2. failures' \in 0..MaxFailures
    BY <2>1, FailureCounted DEF ControlInv
  <2> QED
    BY <1>1, <2>1, <2>2, StatsOrMain
<1>4. CASE StatsGoesOn
  <2>1. still /\ RunStep("stats") /\ failures' = failures /\ lostStats' = lostStats
    BY <1>4 DEF StatsGoesOn, RunStep, logVars
  <2>2. failures' \in 0..MaxFailures
    BY <2>1, FailureCounted DEF ControlInv
  <2> QED
    BY <1>1, <2>1, <2>2, StatsOrMain
<1> QED
  BY <1>2, <1>3, <1>4 DEF StatsThread

LEMMA StatsInitFits ==
    ASSUME ControlInv, StatsInit
    PROVE  ControlInv'
<1> DEFINE still == UNCHANGED <<options, logVars>> /\ handler' = handler /\ exiting' = exiting
                    /\ lostStats' = lostStats
<1>1. handler \in BOOLEAN /\ lostStats \in BOOLEAN
  BY DEF ControlInv, TypeOK
<1>2. /\ still
      /\ OwnerStep("stats") \/ UNCHANGED threadVars
      /\ failures' = failures \/ Fail
      /\ <<mainAt, mainAt'>> = <<"stats", "handler">> \/ mainAt' = mainAt
  <2>1. CASE NoStats
    BY <2>1 DEF NoStats, GoTo, logVars
  <2>2. CASE MakeThread("stats", "stats", "handler", UNCHANGED logging)
    <3>1. still /\ mainAt = "stats"
      BY <2>2 DEF MakeThread, logVars
    <3>2. OwnerStep("stats") \/ UNCHANGED threadVars
      BY <2>2 DEF MakeThread, OwnerStep
    <3>3. failures' = failures \/ Fail
      BY <2>2 DEF MakeThread
    <3>4. mainAt' = "handler" \/ mainAt' = mainAt
      BY <2>2 DEF MakeThread
    <3> QED
      BY <3>1, <3>2, <3>3, <3>4
  <2> QED
    BY <2>1, <2>2 DEF StatsInit
<1>3. failures' \in 0..MaxFailures
  BY <1>2, FailureCounted DEF ControlInv
<1>4. still /\ (OwnerStep("stats") \/ UNCHANGED threadVars)
  BY <1>2
<1>5. handler' \in BOOLEAN /\ lostStats' \in BOOLEAN
  BY <1>1, <1>2
<1>6. CASE <<mainAt, mainAt'>> = <<"stats", "handler">>
  BY <1>3, <1>4, <1>5, <1>6, StatsOrMain
<1>7. CASE mainAt' = mainAt
  BY <1>3, <1>4, <1>5, <1>7, StatsOrMain
<1> QED
  BY <1>2, <1>6, <1>7

LEMMA StatsEndFits ==
    ASSUME ControlInv, StatsEnd \/ SetHandler
    PROVE  ControlInv'
<1> DEFINE still == UNCHANGED <<options, logVars>> /\ exiting' = exiting /\ failures' = failures
<1>1. handler \in BOOLEAN /\ lostStats \in BOOLEAN
  BY DEF ControlInv, TypeOK
<1>2. still => failures' \in 0..MaxFailures
  BY FailureCounted DEF ControlInv
<1>3. CASE StopStats
  <2>1. /\ still /\ <<mainAt, mainAt'>> = <<"stop", "join stats">>
        /\ OwnerStep("stats") \/ UNCHANGED threadVars
        /\ handler' = handler /\ lostStats' = lostStats
    BY <1>3 DEF StopStats, GoTo, OwnerStep, logVars
  <2> QED
    BY <1>1, <1>2, <2>1, StatsOrMain
<1>4. CASE Join("stats", "join stats", "last stats")
  <2>1. still /\ mainAt = "join stats" /\ handler' = handler /\ lostStats' = lostStats
    BY <1>4 DEF Join, logVars
  <2>2. mainAt' = "last stats" \/ mainAt' = mainAt
    BY <1>4 DEF Join
  <2>3. OwnerStep("stats") \/ UNCHANGED threadVars
    BY <1>4 DEF Join, OwnerStep
  <2> QED
    BY <1>1, <1>2, <2>1, <2>2, <2>3, StatsOrMain
<1>5. CASE LastStats
  <2>1. /\ still /\ <<mainAt, mainAt'>> = <<"last stats", "done">> /\ UNCHANGED threadVars
        /\ handler' = handler /\ lostStats' \in BOOLEAN
    BY <1>1, <1>5 DEF LastStats, GoTo, PrintStats, logVars
  <2> QED
    BY <1>1, <1>2, <2>1, StatsOrMain
<1>6. CASE SetHandler
  <2>1. /\ still /\ <<mainAt, mainAt'>> = <<"handler", "file">> /\ UNCHANGED threadVars
        /\ handler' = TRUE /\ lostStats' = lostStats
    BY <1>6 DEF SetHandler, GoTo, logVars
  <2> QED
    BY <1>1, <1>2, <2>1, StatsOrMain
<1> QED
  BY <1>3, <1>4, <1>5, <1>6 DEF StatsEnd

-----------------------------------------------------------------------------
(* 5. The logger's thread.                                                  *)

(* Messages and EXIT, of which a queue without EXIT has none.              *)
LEMMA OnlyMessages ==
    ASSUME NEW s \in Seq(Messages \cup {Exit}), Exit \notin ToSet(s)
    PROVE  s \in Seq(Messages)
<1>1. /\ Len(s) \in Nat /\ DOMAIN s = 1..Len(s) /\ s \in [1..Len(s) -> Messages \cup {Exit}]
  BY LenProperties
<1>2. \A i \in 1..Len(s) : s[i] \in Messages
  BY <1>1 DEF ToSet
<1>3. s \in [1..Len(s) -> Messages]
  BY <1>1, <1>2
<1> QED
  BY <1>1, <1>3, SeqDef

(* What moves of the rest when the logger's thread does.                   *)
LEMMA LoggerMoves ==
    ASSUME ControlInv, LoggerRuns,
           UNCHANGED <<options, mainAt, failures, handler, file, openFiles, exit, exiting, logging,
                       lostStats, broken>>,
           queue' \in {"none", "there", "freed"}, queue' = "none" <=> queue = "none",
           messages' \in Seq(Messages \cup {Exit}),
           LogFits', CountsFit'
    PROVE  ControlInv'
<1>1. ThreadTypeOK /\ LoggerFits
  BY DEF ControlInv, TypeOK
<1>2. LoggerFits' /\ owner'["logger"] = owner["logger"] /\ RunStep("logger")
  BY <1>1, LoggerActs
<1>3. <<at["logger"], at'["logger"]>> \in
                 {<<"created", "init">>, <<"init", "run">>, <<"run", "back">>, <<"back", "write">>,
                  <<"write", "exit">>, <<"exit", "ended">>}
  BY <1>1, LoggerActs
<1>4. at["logger"] # "absent"
      /\ (at'["logger"] \notin {"exit", "ended"} => at["logger"] \notin {"exit", "ended"})
  BY <1>3
<1>5. ThreadTypeOK'
  BY <1>1, <1>2, RunTyped, TwoThreads
<1>6. UNCHANGED <<interval, periodic, logFile, hand, count, printed, refused, unheard, dropped, since>>
  BY DEF options, logging
<1>7. TypeOK'
  <2>1. /\ {interval, periodic, logFile, handler, exit, exiting, lostStats}' \subseteq BOOLEAN
        /\ mainAt' \in MainPlaces /\ failures' \in 0..MaxFailures
    BY <1>6 DEF ControlInv, TypeOK, MainPlaces
  <2>2. /\ file' \in {"none", "file", "stderr"} /\ openFiles' \subseteq {"file", "stderr"}
        /\ hand' \in [Loggers -> {"none", "log", "queue", "print", "file", "stderr"}]
        /\ count' \in [Loggers -> 0..MaxLogs + 3] /\ printed' \in Seq(Messages)
        /\ refused' \cup unheard' \cup dropped' \subseteq Messages
        /\ since' \in [Loggers -> BOOLEAN] /\ broken' \in Loggers \cup {"memory", "no"}
    BY <1>6 DEF ControlInv, TypeOK
  <2> QED
    BY <1>5, <2>1, <2>2 DEF TypeOK, MainPlaces
<1>8. MainFits'
  BY <1>2 DEF ControlInv, MainFits
<1>9. ASSUME NEW l \in Loggers
      PROVE  HandFits(l)'
  <2>1. HandFits(l) /\ mainAt' = mainAt /\ openFiles' = openFiles
    BY DEF ControlInv
  <2> QED
    BY <1>4, <1>6, <2>1, HandStays
<1>10. LateLogIsSafe'
  BY <1>6 DEF ControlInv, LateLogIsSafe
<1> QED
  BY <1>2, <1>7, <1>8, <1>9, <1>10 DEF ControlInv

LEMMA LoggerInitFits ==
    ASSUME ControlInv, LoggerInit
    PROVE  ControlInv'
<1>1. LoggerRuns /\ UNCHANGED <<options, mainAt, failures, handler, files, queueVars, exiting,
                                logging, lostStats, broken>>
  BY DEF LoggerInit, LoggerRuns
<1>2. UNCHANGED <<file, openFiles, queue, messages, exit, count>>
  BY <1>1 DEF files, queueVars, logging
<1>3. \/ at["logger"] = "created" /\ at'["logger"] = "init"
      \/ at["logger"] = "init" /\ at'["logger"] = "run" /\ count["logger"] = 1
  BY TwoThreads DEF LoggerInit, BeginInit, EndInit, MoveTo, HasLogged, ControlInv, TypeOK, ThreadTypeOK
<1>4. owner'["logger"] = owner["logger"]
  BY <1>1, LoggerActs DEF ControlInv, TypeOK
<1>5. LogFits'
  BY <1>1, <1>2, <1>3 DEF ControlInv, LogFits
<1>6. CountsFit'
  BY <1>1, <1>2, <1>3, <1>4 DEF ControlInv, CountsFit, Going
<1> QED
  BY <1>1, <1>2, <1>5, <1>6, LoggerMoves DEF ControlInv, TypeOK

LEMMA LoggerLoopFits ==
    ASSUME ControlInv, LoggerLoop
    PROVE  ControlInv'
<1>1. LoggerRuns /\ UNCHANGED <<options, mainAt, failures, handler, files, queueVars, exiting,
                                logging, lostStats, broken>>
  BY DEF LoggerLoop, LoggerRuns
<1>2. UNCHANGED <<file, openFiles, queue, messages, exit, count>>
  BY <1>1 DEF files, queueVars, logging
<1>3. LoggerFits /\ MainFits
  BY DEF ControlInv
<1>4. \/ at["logger"] = "back" /\ at'["logger"] = "write"
      \/ at["logger"] = "write" /\ at'["logger"] = "exit"
  <2>1. at["logger"] \in {"back", "write"}
    BY DEF LoggerLoop, LoopStep, TestRunning, WriteRunning
  <2> QED
    BY <1>1, <1>3, <2>1, LoggerActs DEF ControlInv, TypeOK
<1>5. owner'["logger"] = owner["logger"]
  BY <1>1, LoggerActs DEF ControlInv, TypeOK
<1>6. mainAt \notin Starting
  BY <1>3, <1>4 DEF LoggerFits, MainFits
<1>7. LogFits'
  BY <1>1, <1>2, <1>4, <1>6 DEF ControlInv, LogFits
<1>8. CountsFit'
  BY <1>1, <1>2, <1>4, <1>5 DEF ControlInv, CountsFit, Going
<1> QED
  BY <1>1, <1>2, <1>7, <1>8, LoggerMoves DEF ControlInv, TypeOK

LEMMA FreeLogQueueFits ==
    ASSUME ControlInv, FreeLogQueue
    PROVE  ControlInv'
<1>1. LoggerRuns /\ queue' = "freed"
      /\ UNCHANGED <<options, mainAt, failures, handler, file, openFiles, messages, exit, exiting,
                     logging, lostStats, broken>>
  BY DEF FreeLogQueue, LoggerRuns, files
<1>2. count' = count
  BY <1>1 DEF logging
<1>3. LoggerFits /\ MainFits
  BY DEF ControlInv
<1>4. at["logger"] = "exit" /\ file = "none" /\ count["logger"] = 2
  BY DEF FreeLogQueue, HasLogged
<1>5. at'["logger"] = "ended" /\ owner'["logger"] = owner["logger"]
  BY <1>1, <1>4, LoggerActs DEF ControlInv, TypeOK
<1>6. queue # "none" /\ mainAt \notin Starting
  BY <1>3, <1>4 DEF LoggerFits, MainFits
<1>7. LogFits'
  BY <1>1, <1>4, <1>5, <1>6 DEF ControlInv, LogFits
<1>8. CountsFit'
  BY <1>1, <1>2, <1>4, <1>5 DEF ControlInv, CountsFit, Going
<1> QED
  BY <1>1, <1>6, <1>7, <1>8, LoggerMoves DEF ControlInv, TypeOK

LEMMA LogRunFits ==
    ASSUME ControlInv, IsInjective(messages), LogRun
    PROVE  ControlInv'
<1> DEFINE M == Messages \cup {Exit}
<1>1. /\ at["logger"] = "run" /\ messages # <<>> /\ messages' = Tail(messages)
      /\ UNCHANGED <<options, mainAt, failures, handler, files, queue, exit, exiting, hand, count,
                     refused, unheard, dropped, since, lostStats, broken>>
  BY DEF LogRun
<1>2. UNCHANGED <<interval, periodic, logFile, file, openFiles>>
  BY <1>1 DEF options, files
<1>3. /\ messages \in Seq(M) /\ Tail(messages) \in Seq(M) /\ Head(messages) \in M
      /\ ToSet(messages) = {Head(messages)} \cup ToSet(Tail(messages))
      /\ Head(messages) \notin ToSet(Tail(messages))
  <2>1. messages \in Seq(M)
    BY DEF ControlInv, TypeOK
  <2> HIDE DEF M
  <2> QED
    BY <1>1, <2>1, TailProperties, HeadTailElements, TailDistinct
<1>4. LoggerFits /\ MainFits /\ LogFits /\ CountsFit
  BY DEF ControlInv
<1>5. /\ queue # "freed" /\ queue # "none"
      /\ count["logger"] <= 1
  BY <1>1, <1>4 DEF LogFits, CountsFit, Going, LoggerFits, MainFits
<1>6. CASE Head(messages) = Exit
  <2>1. LoggerRuns /\ RoutineReturns("logger", FALSE) /\ printed' = printed
    BY <1>6 DEF LogRun, LoggerRuns
  <2>2. at'["logger"] = "back" /\ owner'["logger"] = owner["logger"]
    BY <1>1, <2>1, LoggerActs DEF ControlInv, TypeOK
  <2>3. exit /\ Exit \notin ToSet(messages')
    BY <1>1, <1>3, <1>4, <1>6 DEF LogFits
  <2>4. LogFits'
    BY <1>1, <1>2, <1>4, <1>5, <2>2, <2>3 DEF LogFits
  <2>5. CountsFit'
    BY <1>1, <1>4, <1>5, <2>2 DEF CountsFit, Going
  <2>6. UNCHANGED logging /\ queue' \in {"none", "there", "freed"} /\ messages' \in Seq(M)
    BY <1>1, <1>3, <2>1 DEF logging, ControlInv, TypeOK
  <2> QED
    BY <1>1, <1>2, <2>1, <2>4, <2>5, <2>6, LoggerMoves
<1>7. CASE Head(messages) # Exit
  <2>1. printed' = Append(printed, Head(messages)) /\ UNCHANGED threadVars
    BY <1>7 DEF LogRun
  <2>2. ThreadTypeOK' /\ Rests("logger")
    BY <2>1, ThreadsRest DEF ControlInv
  <2>3. at'["logger"] = at["logger"] /\ owner'["logger"] = owner["logger"]
    BY <2>2 DEF Rests
  <2>4. printed' \in Seq(Messages)
    <3>1. printed \in Seq(Messages) /\ Head(messages) \in Messages
      BY <1>3, <1>7 DEF ControlInv, TypeOK
    <3> QED
      BY <2>1, <3>1, AppendProperties
  <2>5. TypeOK'
    <3>1. /\ {interval, periodic, logFile, handler, exit, exiting, lostStats}' \subseteq BOOLEAN
          /\ mainAt' \in MainPlaces /\ failures' \in 0..MaxFailures
      BY <1>1, <1>2 DEF ControlInv, TypeOK, MainPlaces
    <3>2. /\ file' \in {"none", "file", "stderr"} /\ openFiles' \subseteq {"file", "stderr"}
          /\ queue' \in {"none", "there", "freed"} /\ messages' \in Seq(M)
          /\ hand' \in [Loggers -> {"none", "log", "queue", "print", "file", "stderr"}]
      BY <1>1, <1>2, <1>3 DEF ControlInv, TypeOK
    <3>3. /\ count' \in [Loggers -> 0..MaxLogs + 3]
          /\ refused' \cup unheard' \cup dropped' \subseteq Messages
          /\ since' \in [Loggers -> BOOLEAN] /\ broken' \in Loggers \cup {"memory", "no"}
      BY <1>1 DEF ControlInv, TypeOK
    <3> QED
      BY <2>2, <2>4, <3>1, <3>2, <3>3 DEF TypeOK, MainPlaces
  <2>6. LoggerFits'
    BY <1>4, <2>2, LoggerRests
  <2>7. MainFits'
    BY <1>1, <1>4, <2>3 DEF MainFits
  <2>8. LogFits'
    <3>1. Exit \notin ToSet(messages) => Exit \notin ToSet(messages')
      BY <1>1, <1>3
    <3> QED
      BY <1>1, <1>2, <1>4, <1>5, <2>3, <3>1 DEF LogFits
  <2>9. CountsFit'
    BY <1>1, <1>4, <2>3 DEF CountsFit
  <2>10. ASSUME NEW l \in Loggers
         PROVE  HandFits(l)'
    <3>1. HandFits(l)
      BY DEF ControlInv
    <3> QED
      BY <1>1, <1>2, <2>3, <3>1, HandStays
  <2>11. LateLogIsSafe'
    BY <1>1 DEF ControlInv, LateLogIsSafe
  <2> QED
    BY <2>5, <2>6, <2>7, <2>8, <2>9, <2>10, <2>11 DEF ControlInv
<1> QED
  BY <1>6, <1>7

LEMMA CloseFileFits ==
    ASSUME ControlInv, CloseFile
    PROVE  ControlInv'
<1> DEFINE M == Messages \cup {Exit}
<1>1. /\ at["logger"] = "exit" /\ messages' = <<>> /\ file' = "none"
      /\ printed' = printed \o messages /\ openFiles' = openFiles \ {file}
      /\ UNCHANGED <<threadVars, options, mainAt, failures, handler, queue, exit, exiting, hand,
                     count, refused, unheard, dropped, since, lostStats, broken>>
  BY DEF CloseFile
<1>2. UNCHANGED <<interval, periodic, logFile>>
  BY <1>1 DEF options
<1>3. LoggerFits /\ MainFits /\ LogFits /\ CountsFit
  BY DEF ControlInv
<1>4. ThreadTypeOK' /\ Rests("logger")
  BY <1>1, ThreadsRest DEF ControlInv
<1>5. at'["logger"] = "exit" /\ owner'["logger"] = owner["logger"]
  BY <1>1, <1>4 DEF Rests
<1>6. printed' \in Seq(Messages) /\ messages' \in Seq(M)
  <2>1. printed \in Seq(Messages) /\ messages \in Seq(M)
    BY DEF ControlInv, TypeOK
  <2>2. messages \in Seq(Messages)
    BY <1>1, <1>3, <2>1, OnlyMessages DEF LogFits
  <2> QED
    BY <1>1, <2>1, <2>2, ConcatProperties, EmptySeq
<1>7. TypeOK'
  <2>1. /\ {interval, periodic, logFile, handler, exit, exiting, lostStats}' \subseteq BOOLEAN
        /\ mainAt' \in MainPlaces /\ failures' \in 0..MaxFailures
    BY <1>1, <1>2 DEF ControlInv, TypeOK, MainPlaces
  <2>2. /\ file' \in {"none", "file", "stderr"} /\ openFiles' \subseteq {"file", "stderr"}
        /\ queue' \in {"none", "there", "freed"}
        /\ hand' \in [Loggers -> {"none", "log", "queue", "print", "file", "stderr"}]
    BY <1>1 DEF ControlInv, TypeOK
  <2>3. /\ count' \in [Loggers -> 0..MaxLogs + 3]
        /\ refused' \cup unheard' \cup dropped' \subseteq Messages
        /\ since' \in [Loggers -> BOOLEAN] /\ broken' \in Loggers \cup {"memory", "no"}
    BY <1>1 DEF ControlInv, TypeOK
  <2> QED
    BY <1>4, <1>6, <2>1, <2>2, <2>3 DEF TypeOK, MainPlaces
<1>8. LoggerFits'
  BY <1>3, <1>4, LoggerRests
<1>9. MainFits'
  BY <1>1, <1>3, <1>5 DEF MainFits
<1>10. LogFits'
  BY <1>1, <1>3, <1>5, ShortElements DEF LogFits
<1>11. CountsFit'
  BY <1>1, <1>3, <1>5 DEF CountsFit, Going
<1>12. ASSUME NEW l \in Loggers
       PROVE  HandFits(l)'
  <2>1. HandFits(l)
    BY DEF ControlInv
  <2> QED
    BY <1>1, <1>5, <2>1, HandStays
<1>13. LateLogIsSafe'
  BY <1>1 DEF ControlInv, LateLogIsSafe
<1> QED
  BY <1>7, <1>8, <1>9, <1>10, <1>11, <1>12, <1>13 DEF ControlInv

-----------------------------------------------------------------------------
(* 6. Log.                                                                  *)

(* What a thread that enters Log moves.                                    *)
LEMMA BeginLogMoves ==
    ASSUME ControlInv, NEW l \in Loggers, BeginLog(l), count[l] < MaxLogs + 3
    PROVE  /\ hand' \in [Loggers -> {"none", "log", "queue", "print", "file", "stderr"}]
           /\ count' \in [Loggers -> 0..MaxLogs + 3]
           /\ refused' \subseteq Messages /\ since' \in [Loggers -> BOOLEAN]
           /\ UNCHANGED <<printed, unheard, dropped>>
           /\ count'[l] = count[l] + 1 /\ since'[l] = (mainAt \in Ended) /\ hand[l] = "none"
           /\ hand'[l] = IF handler THEN "log" ELSE "none"
           /\ refused' = IF handler THEN refused ELSE refused \cup {<<l, count[l] + 1>>}
           /\ \A k \in Loggers \ {l} :
                 hand'[k] = hand[k] /\ count'[k] = count[k] /\ since'[k] = since[k]
<1>1. /\ hand \in [Loggers -> {"none", "log", "queue", "print", "file", "stderr"}]
      /\ count \in [Loggers -> 0..MaxLogs + 3] /\ since \in [Loggers -> BOOLEAN]
      /\ refused \subseteq Messages
  BY DEF ControlInv, TypeOK
<1>2. /\ hand[l] = "none" /\ count' = [count EXCEPT ![l] = count[l] + 1]
      /\ since' = [since EXCEPT ![l] = mainAt \in Ended]
      /\ UNCHANGED <<printed, unheard, dropped>>
  BY DEF BeginLog
<1>3. /\ count[l] + 1 \in 1..MaxLogs + 3
      /\ count' \in [Loggers -> 0..MaxLogs + 3]
      /\ since' \in [Loggers -> BOOLEAN]
      /\ count'[l] = count[l] + 1 /\ since'[l] = (mainAt \in Ended)
      /\ \A k \in Loggers \ {l} : count'[k] = count[k] /\ since'[k] = since[k]
  <2>1. count[l] \in Nat /\ count[l] + 1 \in 1..MaxLogs + 3
    BY <1>1
  <2>2. count' \in [Loggers -> 0..MaxLogs + 3] /\ count'[l] = count[l] + 1
        /\ \A k \in Loggers \ {l} : count'[k] = count[k]
    BY <1>1, <1>2, <2>1
  <2>3. (mainAt \in Ended) \in BOOLEAN
    OBVIOUS
  <2>4. /\ since' \in [Loggers -> BOOLEAN] /\ since'[l] = (mainAt \in Ended)
        /\ \A k \in Loggers \ {l} : since'[k] = since[k]
    BY <1>1, <1>2, <2>3, Zenon
  <2> QED
    BY <2>1, <2>2, <2>4
<1>4. CASE handler
  <2>1. refused' = refused /\ hand' = [hand EXCEPT ![l] = "log"]
    BY <1>4 DEF BeginLog, MoveHand
  <2> QED
    BY <1>1, <1>2, <1>3, <1>4, <2>1
<1>5. CASE ~handler
  <2>1. refused' = refused \cup {<<l, count[l] + 1>>} /\ hand' = hand
    BY <1>3, <1>5 DEF BeginLog
  <2>2. <<l, count[l] + 1>> \in Messages
    BY <1>3 DEF Messages
  <2> QED
    BY <1>1, <1>2, <1>3, <1>5, <2>1, <2>2
<1> QED
  BY <1>4, <1>5

(* It has not looked for anything yet.                                     *)
LEMMA BeginLogHands ==
    ASSUME ControlInv, NEW l \in Loggers, BeginLog(l), count[l] < MaxLogs + 3,
           queue # "none" => queue' # "none", openFiles \subseteq openFiles',
           at'["logger"] = at["logger"], mainAt \in Ended => mainAt' \in Ended
    PROVE  \A k \in Loggers : HandFits(k)'
<1>1. ASSUME NEW k \in Loggers \ {l}
      PROVE  HandFits(k)'
  <2>1. HandFits(k) /\ hand'[k] = hand[k] /\ count'[k] = count[k] /\ since'[k] = since[k]
    BY BeginLogMoves DEF ControlInv
  <2> QED
    BY <2>1, HandStays
<1>2. /\ hand'[l] \in {"none", "log"} /\ count'[l] = count[l] + 1
      /\ since'[l] = (mainAt \in Ended)
  BY BeginLogMoves
<1>3. count[l] \in Nat
  BY DEF ControlInv, TypeOK
<1>4. HandFits(l)'
  <2>1. count'[l] >= 1
    BY <1>2, <1>3
  <2>2. since'[l] => mainAt' \in Ended
    BY <1>2
  <2>3. hand'[l] \notin {"queue", "file"}
    BY <1>2
  <2> QED
    BY <2>1, <2>2, <2>3 DEF HandFits
<1> QED
  BY <1>1, <1>4

(* Nothing but Log moves.                                                  *)
LEMMA OnlyLogBegins ==
    ASSUME ControlInv, NEW l \in Loggers, BeginLog(l), count[l] < MaxLogs + 3, CountsFit', broken = "no",
           UNCHANGED <<threadVars, options, mainAt, failures, handler, files, queueVars, exiting,
                       lostStats, broken>>
    PROVE  ControlInv'
<1>1. ThreadTypeOK' /\ Rests("logger")
  BY ThreadsRest DEF ControlInv
<1>2. UNCHANGED <<interval, periodic, logFile, file, openFiles, queue, messages, exit>>
  BY DEF options, files, queueVars
<1>3. at'["logger"] = at["logger"] /\ owner'["logger"] = owner["logger"]
  BY <1>1 DEF Rests
<1>4. TypeOK'
  <2>1. /\ {interval, periodic, logFile, handler, exit, exiting, lostStats}' \subseteq BOOLEAN
        /\ mainAt' \in MainPlaces /\ failures' \in 0..MaxFailures
    BY <1>2 DEF ControlInv, TypeOK, MainPlaces
  <2>2. /\ file' \in {"none", "file", "stderr"} /\ openFiles' \subseteq {"file", "stderr"}
        /\ queue' \in {"none", "there", "freed"} /\ messages' \in Seq(Messages \cup {Exit})
        /\ broken' \in Loggers \cup {"memory", "no"}
    BY <1>2 DEF ControlInv, TypeOK
  <2>3. printed' \in Seq(Messages) /\ refused' \cup unheard' \cup dropped' \subseteq Messages
    BY BeginLogMoves DEF ControlInv, TypeOK
  <2>4. /\ hand' \in [Loggers -> {"none", "log", "queue", "print", "file", "stderr"}]
        /\ count' \in [Loggers -> 0..MaxLogs + 3] /\ since' \in [Loggers -> BOOLEAN]
    BY BeginLogMoves
  <2> QED
    BY <1>1, <2>1, <2>2, <2>3, <2>4 DEF TypeOK, MainPlaces
<1>5. LoggerFits'
  BY <1>1, LoggerRests DEF ControlInv
<1>6. MainFits'
  BY <1>2, <1>3 DEF ControlInv, MainFits
<1>7. LogFits'
  BY <1>2, <1>3 DEF ControlInv, LogFits
<1>8. \A k \in Loggers : HandFits(k)'
  BY <1>2, <1>3, BeginLogHands
<1>9. LateLogIsSafe'
  BY DEF LateLogIsSafe, Loggers
<1> QED
  BY <1>4, <1>5, <1>6, <1>7, <1>8, <1>9 DEF ControlInv

LEMMA UserLogsFits ==
    ASSUME ControlInv, broken = "no", NEW u \in Users, UserLogs(u)
    PROVE  ControlInv'
<1>1. /\ u \in Loggers /\ u # "logger" /\ u # "main"
  BY DEF Loggers
<1>2. count[u] < MaxLogs /\ BeginLog(u) /\ count[u] \in Nat /\ count[u] < MaxLogs + 3
  BY <1>1 DEF UserLogs, ControlInv, TypeOK
<1>3. UNCHANGED <<threadVars, options, mainAt, failures, handler, files, queueVars, exiting,
                  lostStats, broken>>
  BY DEF UserLogs
<1>4. Rests("logger")
  BY <1>3, ThreadsRest DEF ControlInv
<1>5. count'[u] = count[u] + 1 /\ \A k \in Loggers \ {u} : count'[k] = count[k]
  BY <1>1, <1>2, BeginLogMoves
<1>6. /\ \A k \in Users : count'[k] <= MaxLogs
      /\ count'["main"] = count["main"] /\ count'["logger"] = count["logger"]
  <2>1. \A k \in Users : k \in Loggers /\ (k = u \/ count'[k] = count[k])
    BY <1>5 DEF Loggers
  <2>2. count'[u] <= MaxLogs
    BY <1>2, <1>5
  <2>3. "main" \in Loggers \ {u} /\ "logger" \in Loggers \ {u}
    BY <1>1, TwoThreads
  <2> QED
    BY <1>5, <2>1, <2>2, <2>3 DEF ControlInv, CountsFit
<1>7. CountsFit'
  <2>1. at'["logger"] = at["logger"] /\ owner'["logger"] = owner["logger"] /\ mainAt' = mainAt
    BY <1>3, <1>4 DEF Rests
  <2> QED
    BY <1>6, <2>1 DEF ControlInv, CountsFit
<1> QED
  BY <1>1, <1>2, <1>3, <1>7, OnlyLogBegins

LEMMA LoggerLogsFits ==
    ASSUME ControlInv, broken = "no", LoggerLogs
    PROVE  ControlInv'
<1>1. "logger" \in Loggers /\ "main" \in Loggers \ {"logger"} /\ \A u \in Users : u \in Loggers \ {"logger"}
  BY DEF Loggers
<1>2. /\ count["logger"] \in Nat /\ BeginLog("logger") /\ count["logger"] < MaxLogs + 3
      /\ \/ at["logger"] = "init" /\ count["logger"] = 0
         \/ at["logger"] = "exit" /\ count["logger"] = 1
  BY <1>1 DEF LoggerLogs, ControlInv, TypeOK
<1>3. UNCHANGED <<threadVars, options, mainAt, failures, handler, files, queueVars, exiting,
                  lostStats, broken>>
  BY DEF LoggerLogs
<1>4. Rests("logger")
  BY <1>3, ThreadsRest DEF ControlInv
<1>5. count'["logger"] = count["logger"] + 1 /\ \A k \in Loggers \ {"logger"} : count'[k] = count[k]
  BY <1>1, <1>2, BeginLogMoves
<1>6. /\ \A k \in Users : count'[k] = count[k]
      /\ count'["main"] = count["main"]
  BY <1>1, <1>5
<1>7. CountsFit'
  <2>1. at'["logger"] = at["logger"] /\ owner'["logger"] = owner["logger"] /\ mainAt' = mainAt
    BY <1>3, <1>4 DEF Rests
  <2> QED
    BY <1>2, <1>5, <1>6, <2>1 DEF ControlInv, CountsFit, Going
<1> QED
  BY <1>1, <1>2, <1>3, <1>7, OnlyLogBegins

(* Main warns of what failed in LogInit.                                   *)
LEMMA WarningFits ==
    ASSUME ControlInv, broken = "no", BeginLog("main"),
           UNCHANGED <<options, handler, openFiles, exit, exiting, messages, lostStats, broken>>,
           ThreadTypeOK', failures' \in 0..MaxFailures, mainAt' \in MainPlaces,
           file' \in {"none", "file", "stderr"}, queue' = queue,
           LoggerFits', MainFits', LogFits', at'["logger"] = at["logger"],
           mainAt \in {"file", "queue", "logger"},
           mainAt = "logger" => owner["logger"] # "failed",
           mainAt' \notin {"stats", "handler", "file"},
           mainAt' = "queue" => mainAt = "file",
           mainAt' = "logger" => owner'["logger"] = "failed"
    PROVE  ControlInv'
<1>1. "main" \in Loggers /\ "logger" \in Loggers \ {"main"} /\ \A u \in Users : u \in Loggers \ {"main"}
  BY DEF Loggers
<1>2. count["main"] \in Nat /\ count["main"] <= 2
  BY <1>1 DEF ControlInv, TypeOK, CountsFit
<1>3. count["main"] <= 1 /\ (mainAt' = "queue" => count["main"] = 0)
  <2>1. CASE mainAt = "file"
    BY <1>2, <2>1 DEF ControlInv, CountsFit, Starting
  <2>2. CASE mainAt = "queue"
    BY <1>2, <2>2 DEF ControlInv, CountsFit
  <2>3. CASE mainAt = "logger"
    BY <1>2, <2>3 DEF ControlInv, CountsFit
  <2> QED
    BY <2>1, <2>2, <2>3
<1>4. count["main"] < MaxLogs + 3
  BY <1>2
<1>5. /\ hand' \in [Loggers -> {"none", "log", "queue", "print", "file", "stderr"}]
      /\ count' \in [Loggers -> 0..MaxLogs + 3]
      /\ refused' \subseteq Messages /\ since' \in [Loggers -> BOOLEAN]
      /\ UNCHANGED <<printed, unheard, dropped>>
      /\ count'["main"] = count["main"] + 1
      /\ \A k \in Loggers \ {"main"} : count'[k] = count[k]
  BY <1>1, <1>4, BeginLogMoves
<1>6. TypeOK'
  <2>1. /\ {interval, periodic, logFile, handler, exit, exiting, lostStats}' \subseteq BOOLEAN
        /\ mainAt' \in MainPlaces /\ failures' \in 0..MaxFailures
    BY DEF ControlInv, TypeOK, options
  <2>2. /\ file' \in {"none", "file", "stderr"} /\ openFiles' \subseteq {"file", "stderr"}
        /\ queue' \in {"none", "there", "freed"} /\ messages' \in Seq(Messages \cup {Exit})
        /\ broken' \in Loggers \cup {"memory", "no"}
    BY DEF ControlInv, TypeOK
  <2>3. printed' \in Seq(Messages) /\ refused' \cup unheard' \cup dropped' \subseteq Messages
    BY <1>5 DEF ControlInv, TypeOK
  <2> QED
    BY <1>5, <2>1, <2>2, <2>3 DEF TypeOK, MainPlaces
<1>7. CountsFit'
  <2>1. \A u \in Users : count'[u] <= MaxLogs
    BY <1>1, <1>5 DEF ControlInv, CountsFit
  <2>2. count'["logger"] = count["logger"]
    BY <1>1, <1>5
  <2>3. /\ at["logger"] \in {"absent", "created"} => count'["logger"] = 0
        /\ at["logger"] \in Going \cup {"init"} => count'["logger"] <= 1
        /\ count'["logger"] <= 2
    BY <2>2 DEF ControlInv, CountsFit
  <2>4. count'["main"] <= 2 /\ (mainAt' = "queue" => count'["main"] <= 1)
    BY <1>2, <1>3, <1>5
  <2> QED
    BY <2>1, <2>3, <2>4 DEF CountsFit, Starting
<1>8. mainAt \notin Ended
  BY DEF Ended
<1>9. \A k \in Loggers : HandFits(k)'
  BY <1>1, <1>4, <1>8, BeginLogHands
<1>10. LateLogIsSafe'
  BY DEF LateLogIsSafe, Loggers
<1> QED
  BY <1>6, <1>7, <1>9, <1>10 DEF ControlInv


-----------------------------------------------------------------------------
(* 7. LogInit and LogEnd.                                                   *)

(* Main sets up the file or the queue.                                     *)
LEMMA MainSets ==
    ASSUME ControlInv, broken = "no", mainAt \in {"file", "queue"}, mainAt' \in {"queue", "logger"},
           UNCHANGED <<threadVars, options, handler, failures, messages, exit, exiting, logging,
                       lostStats, broken>>,
           file' \in {"none", "file", "stderr"}, openFiles' \subseteq {"file", "stderr"},
           queue' \in {"none", "there", "freed"}, openFiles \subseteq openFiles',
           queue # "none" => queue' # "none", MainFits', LogFits', CountsFit'
    PROVE  ControlInv'
<1>1. ThreadTypeOK' /\ Rests("logger")
  BY ThreadsRest DEF ControlInv
<1>2. UNCHANGED <<interval, periodic, logFile, hand, count, printed, refused, unheard, dropped, since>>
  BY DEF options, logging
<1>3. at'["logger"] = at["logger"]
  BY <1>1 DEF Rests
<1>4. TypeOK'
  <2>1. /\ {interval, periodic, logFile, handler, exit, exiting, lostStats}' \subseteq BOOLEAN
        /\ mainAt' \in MainPlaces /\ failures' \in 0..MaxFailures
    BY <1>2 DEF ControlInv, TypeOK, MainPlaces
  <2>2. /\ messages' \in Seq(Messages \cup {Exit})
        /\ hand' \in [Loggers -> {"none", "log", "queue", "print", "file", "stderr"}]
        /\ count' \in [Loggers -> 0..MaxLogs + 3] /\ printed' \in Seq(Messages)
        /\ refused' \cup unheard' \cup dropped' \subseteq Messages
        /\ since' \in [Loggers -> BOOLEAN] /\ broken' \in Loggers \cup {"memory", "no"}
    BY <1>2 DEF ControlInv, TypeOK
  <2> QED
    BY <1>1, <2>1, <2>2 DEF TypeOK, MainPlaces
<1>5. LoggerFits'
  BY <1>1, LoggerRests DEF ControlInv
<1>6. mainAt \notin Ended
  BY DEF Ended
<1>7. ASSUME NEW l \in Loggers
      PROVE  HandFits(l)'
  <2>1. HandFits(l)
    BY DEF ControlInv
  <2> QED
    BY <1>2, <1>3, <1>6, <2>1, HandStays
<1>8. LateLogIsSafe'
  BY DEF LateLogIsSafe, Loggers
<1> QED
  BY <1>4, <1>5, <1>7, <1>8 DEF ControlInv

LEMMA OpenFileFits ==
    ASSUME ControlInv, broken = "no", OpenFile
    PROVE  ControlInv'
<1>1. /\ mainAt = "file" /\ mainAt' = "queue"
      /\ UNCHANGED <<threadVars, options, handler, queue, messages, exit, exiting, lostStats, broken>>
  BY DEF OpenFile, GoTo, queueVars
<1>2. ThreadTypeOK' /\ Rests("logger") /\ LoggerFits'
  BY <1>1, ThreadsRest, LoggerRests DEF ControlInv
<1>3. at'["logger"] = at["logger"] /\ owner'["logger"] = owner["logger"]
  BY <1>2 DEF Rests
<1>4. /\ owner["logger"] = "none" /\ at["logger"] = "absent" /\ queue = "none"
      /\ ~exiting /\ ~exit
  BY <1>1 DEF ControlInv, MainFits, LoggerFits, Starting, Ended
<1>5. MainFits'
  BY <1>1, <1>3, <1>4 DEF MainFits, Starting, Ended
<1>6. CASE file' = "file" /\ openFiles' = openFiles \cup {"file"} /\ UNCHANGED <<failures, logging>>
  <2>1. LogFits'
    BY <1>1, <1>3, <1>4, <1>6 DEF ControlInv, LogFits, Starting
  <2>2. CountsFit'
    BY <1>1, <1>3, <1>4, <1>6 DEF ControlInv, CountsFit, Starting, logging
  <2>3. openFiles' \subseteq {"file", "stderr"} /\ openFiles \subseteq openFiles'
    BY <1>6 DEF ControlInv, TypeOK
  <2>4. queue' \in {"none", "there", "freed"}
    BY <1>1, <1>4
  <2> QED
    BY <1>1, <1>5, <1>6, <2>1, <2>2, <2>3, <2>4, MainSets
<1>7. CASE file' = "stderr" /\ UNCHANGED <<openFiles, failures, logging>>
  <2>1. LogFits'
    BY <1>1, <1>3, <1>4, <1>7 DEF ControlInv, LogFits, Starting
  <2>2. CountsFit'
    BY <1>1, <1>3, <1>4, <1>7 DEF ControlInv, CountsFit, Starting, logging
  <2>3. openFiles' \subseteq {"file", "stderr"} /\ openFiles \subseteq openFiles'
    BY <1>7 DEF ControlInv, TypeOK
  <2>4. queue' \in {"none", "there", "freed"}
    BY <1>1, <1>4
  <2> QED
    BY <1>1, <1>5, <1>7, <2>1, <2>2, <2>3, <2>4, MainSets
<1>8. CASE file' = "stderr" /\ UNCHANGED openFiles /\ Fail /\ BeginLog("main")
  <2>1. LogFits'
    BY <1>1, <1>3, <1>4, <1>8 DEF ControlInv, LogFits, Starting
  <2>2. failures' \in 0..MaxFailures
    BY <1>8, FailureCounted DEF ControlInv
  <2>3. mainAt' \in MainPlaces
    BY <1>1 DEF MainPlaces
  <2> QED
    BY <1>1, <1>2, <1>3, <1>5, <1>8, <2>1, <2>2, <2>3, WarningFits
<1> QED
  BY <1>6, <1>7, <1>8 DEF OpenFile

LEMMA MakeQueueFits ==
    ASSUME ControlInv, broken = "no", MakeQueue
    PROVE  ControlInv'
<1>1. /\ mainAt = "queue"
      /\ UNCHANGED <<threadVars, options, handler, file, openFiles, messages, exit, exiting,
                     lostStats, broken>>
  BY DEF MakeQueue, GoTo, files
<1>2. ThreadTypeOK' /\ Rests("logger") /\ LoggerFits'
  BY <1>1, ThreadsRest, LoggerRests DEF ControlInv
<1>3. at'["logger"] = at["logger"] /\ owner'["logger"] = owner["logger"]
  BY <1>2 DEF Rests
<1>4. /\ owner["logger"] = "none" /\ at["logger"] = "absent" /\ queue = "none"
      /\ ~exiting /\ ~exit
  BY <1>1 DEF ControlInv, MainFits, LoggerFits, Starting, Ended
<1>5. CASE mainAt' = "logger" /\ queue' = "there" /\ UNCHANGED <<failures, logging>>
  <2>1. MainFits'
    BY <1>1, <1>3, <1>4, <1>5 DEF MainFits, Starting, Ended
  <2>2. LogFits'
    BY <1>1, <1>3, <1>4, <1>5 DEF ControlInv, LogFits, Starting
  <2>3. CountsFit'
    BY <1>1, <1>3, <1>4, <1>5 DEF ControlInv, CountsFit, Starting, logging
  <2>4. file' \in {"none", "file", "stderr"} /\ openFiles' \subseteq {"file", "stderr"}
    BY <1>1 DEF ControlInv, TypeOK
  <2> QED
    BY <1>1, <1>5, <2>1, <2>2, <2>3, <2>4, MainSets
<1>6. CASE mainAt' = "user" /\ Fail /\ BeginLog("main") /\ UNCHANGED queue
  <2>1. MainFits'
    BY <1>1, <1>3, <1>4, <1>6 DEF MainFits, Starting, Ended
  <2>2. LogFits'
    BY <1>1, <1>3, <1>4, <1>6 DEF ControlInv, LogFits, Starting
  <2>3. failures' \in 0..MaxFailures
    BY <1>6, FailureCounted DEF ControlInv
  <2>4. file' \in {"none", "file", "stderr"} /\ mainAt' \in MainPlaces
    BY <1>1, <1>6 DEF ControlInv, TypeOK, MainPlaces
  <2> QED
    BY <1>1, <1>2, <1>3, <1>6, <2>1, <2>2, <2>3, <2>4, WarningFits
<1> QED
  BY <1>5, <1>6 DEF MakeQueue, GoTo

LEMMA MakeLoggerFits ==
    ASSUME ControlInv, broken = "no", MakeThread("logger", "logger", "user", BeginLog("main"))
    PROVE  ControlInv'
<1> DEFINE o == owner["logger"]
<1>1. /\ mainAt = "logger"
      /\ UNCHANGED <<options, handler, files, queueVars, exiting, lostStats, broken>>
  BY DEF MakeThread
<1>2. UNCHANGED <<file, openFiles, queue, messages, exit>>
  BY <1>1 DEF files, queueVars
<1>3. /\ TypeOK /\ ThreadTypeOK /\ LoggerFits /\ MainFits /\ LogFits
      /\ handler \in BOOLEAN /\ lostStats \in BOOLEAN /\ exiting \in BOOLEAN
  BY DEF ControlInv, TypeOK
<1>4. o \in {"none", "made", "starting", "failed"} /\ queue # "none" /\ ~exiting /\ ~exit
  BY <1>1, <1>3 DEF MainFits, Ended
<1>5. CASE /\ OwnerStep("logger") /\ ~ThreadStop("logger") /\ ~ThreadStartFails("logger")
           /\ UNCHANGED <<failures, logging>>
           /\ \/ o \in {"none", "made"} /\ mainAt' = mainAt
              \/ o \in {"starting", "failed"} /\ mainAt' = "user"
           /\ o = "made" => owner'["logger"] # "failed"
  <2>1. /\ LoggerFits'
        /\ at'["logger"] = at["logger"] \/ (at["logger"] = "absent" /\ at'["logger"] = "created")
        /\ <<o, owner'["logger"]>> \in
                 {<<"none", "made">>, <<"made", "starting">>, <<"made", "failed">>,
                  <<"starting", "started">>, <<"failed", "done">>,
                  <<"started", "joining">>, <<"joining", "done">>}
    BY <1>3, <1>5, OwnerActs
  <2>2. ThreadTypeOK'
    BY <1>3, <1>5, OwnerTyped, TwoThreads
  <2>3. mainAt' \in MainPlaces /\ failures' \in 0..MaxFailures
    BY <1>1, <1>5, FailureCounted, <1>3 DEF MainPlaces
  <2>4. TypeOK'
    BY <1>1, <1>3, <1>5, <2>2, <2>3, ThreadsTyped DEF logVars
  <2>5. MainFits'
    BY <1>1, <1>2, <1>3, <1>4, <1>5, <2>1 DEF MainFits, Starting, Ended
  <2>6. /\ mainAt \notin Ended /\ (mainAt' \in Starting <=> mainAt \in Starting)
        /\ mainAt' # "queue"
    BY <1>1, <1>5 DEF Starting, Ended
  <2>7. mainAt' = "logger" => o # "failed"
    BY <1>1, <1>5
  <2> QED
    BY <1>1, <1>5, <2>1, <2>4, <2>5, <2>6, <2>7, MainMoves DEF logVars
<1>6. CASE /\ BeginLog("main") /\ (Fail \/ failures' = failures)
           /\ \/ ThreadStartFails("logger") /\ mainAt' = mainAt
              \/ o = "none" /\ UNCHANGED threadVars /\ mainAt' = "user"
  <2>1. /\ ThreadTypeOK' /\ LoggerFits' /\ at'["logger"] = at["logger"]
        /\ \/ o = "made" /\ owner'["logger"] = "failed" /\ mainAt' = "logger"
           \/ o = "none" /\ owner'["logger"] = "none" /\ mainAt' = "user"
    <3>1. CASE ThreadStartFails("logger") /\ mainAt' = mainAt
      <4>1. OwnerStep("logger") /\ o = "made" /\ at' = at /\ owner' = [owner EXCEPT !["logger"] = "failed"]
        BY <3>1 DEF OwnerStep, ThreadStartFails, thread
      <4>2. ~ThreadStop("logger") /\ ThreadTypeOK'
        BY <1>3, <4>1, OwnerTyped, TwoThreads DEF ThreadStop
      <4>3. owner'["logger"] = "failed"
        BY <1>3, <4>1, TwoThreads DEF ThreadTypeOK
      <4> QED
        BY <1>1, <1>3, <3>1, <4>1, <4>2, <4>3, OwnerActs
    <3>2. CASE o = "none" /\ UNCHANGED threadVars /\ mainAt' = "user"
      <4>1. ThreadTypeOK' /\ Rests("logger")
        BY <1>3, <3>2, ThreadsRest
      <4>2. LoggerFits'
        BY <1>3, <4>1, LoggerRests
      <4> QED
        BY <3>2, <4>1, <4>2 DEF Rests
    <3> QED
      BY <1>6, <3>1, <3>2
  <2>2. MainFits'
    BY <1>1, <1>2, <1>3, <1>4, <2>1 DEF MainFits, Starting, Ended
  <2>3. LogFits'
    BY <1>1, <1>2, <1>3, <2>1 DEF LogFits, Starting
  <2>4. failures' \in 0..MaxFailures /\ mainAt' \in MainPlaces
    BY <1>3, <1>6, <2>1, FailureCounted DEF MainPlaces
  <2>5. file' \in {"none", "file", "stderr"} /\ o # "failed"
    BY <1>2, <1>3, <2>1 DEF TypeOK
  <2>6. /\ mainAt' \notin {"stats", "handler", "file"} /\ mainAt' # "queue"
        /\ mainAt' = "logger" => owner'["logger"] = "failed"
    BY <2>1
  <2> QED
    BY <1>1, <1>2, <1>6, <2>1, <2>2, <2>3, <2>4, <2>5, <2>6, WarningFits
<1> QED
  <2>1. CASE NewThread("logger") /\ UNCHANGED <<mainAt, failures, logging>>
    <3>1. o = "none" /\ OwnerStep("logger") /\ owner'["logger"] = "made"
      BY <1>3, <2>1, TwoThreads DEF NewThread, OwnerStep, LoggerFits, ThreadTypeOK
    <3> QED
      BY <1>5, <2>1, <3>1 DEF ThreadStop, ThreadStartFails
  <2>2. CASE ThreadStart("logger") /\ UNCHANGED <<mainAt, failures, logging>>
    <3>1. o = "made" /\ OwnerStep("logger") /\ owner'["logger"] = "starting"
      BY <1>3, <2>2, TwoThreads DEF ThreadStart, OwnerStep, ThreadTypeOK
    <3>2. ~ThreadStartFails("logger")
      BY <1>3, <3>1, TwoThreads DEF ThreadStartFails, ThreadTypeOK
    <3> QED
      BY <1>5, <2>2, <3>1, <3>2 DEF ThreadStop
  <2>3. CASE ThreadStarted("logger") /\ mainAt' = "user" /\ UNCHANGED <<failures, logging>>
    <3>1. o = "starting" /\ OwnerStep("logger")
      BY <2>3 DEF ThreadStarted, OwnerStep
    <3> QED
      BY <1>5, <2>3, <3>1 DEF ThreadStop, ThreadStartFails
  <2>4. CASE ThreadStartFails("logger") /\ Fail /\ BeginLog("main") /\ UNCHANGED mainAt
    BY <1>6, <2>4
  <2>5. CASE FreeUnstarted("logger") /\ mainAt' = "user" /\ UNCHANGED <<failures, logging>>
    <3>1. o = "failed" /\ OwnerStep("logger")
      BY <2>5 DEF FreeUnstarted, OwnerStep
    <3> QED
      BY <1>5, <2>5, <3>1 DEF ThreadStop, ThreadStartFails
  <2>6. CASE /\ o = "none" /\ (Fail \/ failures' = failures) /\ BeginLog("main")
             /\ mainAt' = "user" /\ UNCHANGED threadVars
    BY <1>6, <2>6
  <2> QED
    BY <2>1, <2>2, <2>3, <2>4, <2>5, <2>6 DEF MakeThread

LEMMA BeginLogEndFits ==
    ASSUME ControlInv, BeginLogEnd
    PROVE  ControlInv'
<1>1. /\ mainAt = "user"
      /\ UNCHANGED <<threadVars, options, failures, handler, logVars, lostStats>>
      /\ \/ queue = "none" /\ mainAt' = "stop" /\ exiting' = exiting
         \/ queue # "none" /\ mainAt' = "exit" /\ exiting' = TRUE
  BY DEF BeginLogEnd, GoTo, logVars
<1>2. /\ TypeOK /\ LoggerFits /\ MainFits
      /\ handler \in BOOLEAN /\ lostStats \in BOOLEAN /\ exiting \in BOOLEAN
  BY DEF ControlInv, TypeOK
<1>3. ThreadTypeOK' /\ Rests("logger")
  BY <1>1, <1>2, ThreadsRest
<1>4. at'["logger"] = at["logger"] /\ owner'["logger"] = owner["logger"]
  BY <1>3 DEF Rests
<1>5. mainAt' \in MainPlaces /\ exiting' \in BOOLEAN /\ failures' \in 0..MaxFailures
  BY <1>1, <1>2, FailureCounted DEF MainPlaces, Ended
<1>6. TypeOK'
  BY <1>1, <1>2, <1>3, <1>5, ThreadsTyped
<1>7. LoggerFits'
  BY <1>2, <1>3, LoggerRests
<1>8. MainFits'
  <2>1. queue' = queue /\ exit' = exit
    BY <1>1 DEF logVars, queueVars
  <2>2. ~exiting /\ ~exit /\ owner["logger"] \in {"none", "started", "joining", "done"}
    BY <1>1, <1>2 DEF MainFits, Ended
  <2>3. ~exit' /\ owner'["logger"] = owner["logger"]
    BY <1>4, <2>1, <2>2
  <2>4. CASE queue = "none" /\ mainAt' = "stop" /\ exiting' = exiting
    <3>1. ~exiting' /\ owner["logger"] = "none"
      BY <1>2, <2>2, <2>4 DEF MainFits
    <3> QED
      BY <2>1, <2>3, <2>4, <3>1 DEF MainFits, Starting, Ended
  <2>5. CASE queue # "none" /\ mainAt' = "exit" /\ exiting' = TRUE
    BY <2>1, <2>2, <2>3, <2>5 DEF MainFits, Starting, Ended
  <2> QED
    BY <1>1, <2>4, <2>5
<1>9. /\ mainAt \notin Ended /\ mainAt \notin Starting /\ mainAt' \notin Starting
      /\ mainAt' # "queue" /\ mainAt' # "logger"
  BY <1>1 DEF Starting, Ended
<1> QED
  BY <1>1, <1>4, <1>6, <1>7, <1>8, <1>9, MainMoves

LEMMA EnqueueExitFits ==
    ASSUME ControlInv, broken = "no", EnqueueExit
    PROVE  ControlInv'
<1> DEFINE M == Messages \cup {Exit}
<1>1. /\ mainAt = "exit" /\ mainAt' = "join" /\ exit' = TRUE /\ messages' = Append(messages, Exit)
      /\ UNCHANGED <<threadVars, options, failures, handler, file, openFiles, queue, exiting, hand,
                     count, printed, refused, unheard, dropped, since, lostStats, broken>>
  BY DEF EnqueueExit, GoTo, files, logging
<1>2. LoggerFits /\ MainFits /\ LogFits /\ CountsFit
  BY DEF ControlInv
<1>3. ThreadTypeOK' /\ Rests("logger") /\ LoggerFits'
  BY <1>1, <1>2, ThreadsRest, LoggerRests DEF ControlInv
<1>4. at'["logger"] = at["logger"] /\ owner'["logger"] = owner["logger"]
  BY <1>3 DEF Rests
<1>5. ~exit /\ exiting /\ queue # "none" /\ mainAt \notin Ended
  BY <1>1, <1>2 DEF MainFits, Ended
<1>6. messages' \in Seq(M)
  <2>1. messages \in Seq(M) /\ Exit \in M
    BY DEF ControlInv, TypeOK
  <2> HIDE DEF M
  <2> QED
    BY <1>1, <2>1, AppendProperties
<1>7. TypeOK'
  <2>1. /\ {interval, periodic, logFile, handler, exit, exiting, lostStats}' \subseteq BOOLEAN
        /\ mainAt' \in MainPlaces /\ failures' \in 0..MaxFailures
    BY <1>1 DEF ControlInv, TypeOK, MainPlaces, options
  <2>2. /\ file' \in {"none", "file", "stderr"} /\ openFiles' \subseteq {"file", "stderr"}
        /\ queue' \in {"none", "there", "freed"}
        /\ hand' \in [Loggers -> {"none", "log", "queue", "print", "file", "stderr"}]
    BY <1>1 DEF ControlInv, TypeOK
  <2>3. /\ count' \in [Loggers -> 0..MaxLogs + 3] /\ printed' \in Seq(Messages)
        /\ refused' \cup unheard' \cup dropped' \subseteq Messages
        /\ since' \in [Loggers -> BOOLEAN] /\ broken' \in Loggers \cup {"memory", "no"}
    BY <1>1 DEF ControlInv, TypeOK
  <2> QED
    BY <1>3, <1>6, <2>1, <2>2, <2>3 DEF TypeOK, MainPlaces
<1>8. MainFits'
  BY <1>1, <1>2, <1>4, <1>5 DEF MainFits, Starting, Ended
<1>9. LogFits'
  BY <1>1, <1>2, <1>4, <1>5 DEF LogFits, Starting
<1>10. CountsFit'
  BY <1>1, <1>2, <1>4 DEF CountsFit, Starting
<1>11. ASSUME NEW l \in Loggers
       PROVE  HandFits(l)'
  <2>1. HandFits(l)
    BY DEF ControlInv
  <2> QED
    BY <1>1, <1>4, <1>5, <2>1, HandStays
<1>12. LateLogIsSafe'
  BY <1>1 DEF LateLogIsSafe, Loggers
<1> QED
  BY <1>3, <1>7, <1>8, <1>9, <1>10, <1>11, <1>12 DEF ControlInv

LEMMA JoinLoggerFits ==
    ASSUME ControlInv, Join("logger", "join", "stop")
    PROVE  ControlInv'
<1> DEFINE o == owner["logger"]
<1>1. mainAt = "join" /\ UNCHANGED <<options, failures, handler, logVars, exiting, lostStats>>
  BY DEF Join, logVars
<1>2. /\ TypeOK /\ ThreadTypeOK /\ LoggerFits /\ MainFits
      /\ handler \in BOOLEAN /\ lostStats \in BOOLEAN /\ exiting \in BOOLEAN
  BY DEF ControlInv, TypeOK
<1>3. /\ ThreadTypeOK' /\ LoggerFits' /\ at'["logger"] = at["logger"]
      /\ \/ owner'["logger"] = "joining" /\ mainAt' = mainAt
         \/ owner'["logger"] \in {"none", "done"} /\ mainAt' = "stop"
  <2>1. CASE ThreadJoin("logger") /\ mainAt' = IF owner'["logger"] = "done" THEN "stop" ELSE mainAt
    <3>1. OwnerStep("logger") /\ o = "started" /\ at' = at
      BY <2>1 DEF ThreadJoin, OwnerStep
    <3>2. owner'["logger"] \in {"joining", "done"} /\ ~ThreadStop("logger")
      BY <1>2, <2>1, TwoThreads DEF ThreadJoin, FreeThread, ThreadTypeOK, ThreadStop
    <3>3. LoggerFits' /\ ThreadTypeOK'
      BY <1>2, <3>1, <3>2, OwnerActs, OwnerTyped, TwoThreads
    <3> QED
      BY <2>1, <3>1, <3>2, <3>3
  <2>2. CASE ThreadJoined("logger") /\ mainAt' = "stop"
    <3>1. OwnerStep("logger") /\ o = "joining" /\ at' = at
      BY <2>2 DEF ThreadJoined, OwnerStep
    <3>2. owner'["logger"] = "done" /\ ~ThreadStop("logger")
      BY <1>2, <2>2, <3>1, TwoThreads DEF ThreadJoined, FreeThread, ThreadTypeOK, ThreadStop
    <3>3. LoggerFits' /\ ThreadTypeOK'
      BY <1>2, <3>1, <3>2, OwnerActs, OwnerTyped, TwoThreads
    <3> QED
      BY <2>2, <3>1, <3>2, <3>3
  <2>3. CASE o \in {"none", "done"} /\ mainAt' = "stop" /\ UNCHANGED threadVars
    <3>1. ThreadTypeOK' /\ Rests("logger")
      BY <1>2, <2>3, ThreadsRest
    <3>2. LoggerFits'
      BY <1>2, <3>1, LoggerRests
    <3> QED
      BY <2>3, <3>1, <3>2 DEF Rests
  <2> QED
    BY <2>1, <2>2, <2>3 DEF Join
<1>4. mainAt' \in MainPlaces /\ failures' \in 0..MaxFailures
  BY <1>1, <1>2, <1>3, FailureCounted DEF MainPlaces, Ended
<1>5. TypeOK'
  BY <1>1, <1>2, <1>3, <1>4, ThreadsTyped
<1>6. MainFits'
  <2>1. queue' = queue /\ exit' = exit
    BY <1>1 DEF logVars, queueVars
  <2>2. queue # "none" /\ exiting /\ exit
    BY <1>1, <1>2 DEF MainFits
  <2>3. exiting'
    BY <1>1, <2>2
  <2>4. CASE owner'["logger"] = "joining" /\ mainAt' = "join"
    BY <2>1, <2>2, <2>3, <2>4 DEF MainFits, Starting, Ended
  <2>5. CASE owner'["logger"] \in {"none", "done"} /\ mainAt' = "stop"
    BY <2>1, <2>2, <2>3, <2>5 DEF MainFits, Starting, Ended
  <2> QED
    BY <1>1, <1>3, <2>4, <2>5
<1>7. /\ mainAt \notin Ended /\ mainAt \notin Starting /\ mainAt' \notin Starting
      /\ mainAt' # "queue" /\ mainAt' # "logger"
  BY <1>1, <1>3 DEF Starting, Ended
<1> QED
  BY <1>1, <1>3, <1>5, <1>6, <1>7, MainMoves

-----------------------------------------------------------------------------
(* 8. A thread in Log goes on, and the invariant.                           *)

(* Only who can find the queue or the file gone does.                      *)
LEMMA LogStepMoves ==
    ASSUME ControlInv, broken = "no", NEW l \in Loggers, LogStep(l)
    PROVE  /\ UNCHANGED <<threadVars, options, mainAt, handler, files, queue, exit, exiting,
                          lostStats, count, refused, since>>
           /\ hand' \in [Loggers -> {"none", "log", "queue", "print", "file", "stderr"}]
           /\ messages' \in Seq(Messages \cup {Exit}) /\ printed' \in Seq(Messages)
           /\ unheard' \subseteq Messages /\ dropped' \subseteq Messages
           /\ broken' \in Loggers \cup {"memory", "no"}
           /\ \A k \in Loggers \ {l} : hand'[k] = hand[k]
           /\ hand[l] # "none" /\ Message(l) \in Messages
           /\ failures' \in 0..MaxFailures
           /\ \/ /\ UNCHANGED <<hand, messages, printed, unheard, dropped, failures>>
                 /\ \/ broken' = l /\ hand[l] = "queue" /\ queue = "freed"
                    \/ broken' = l /\ hand[l] = "file" /\ "file" \notin openFiles
              \/ /\ hand[l] = "log" /\ hand'[l] = IF queue = "there" THEN "queue" ELSE "print"
                 /\ UNCHANGED <<messages, printed, unheard, dropped, failures, broken>>
              \/ /\ hand[l] = "log" /\ hand'[l] = "none"
                 /\ dropped' = dropped \cup {Message(l)} /\ Fail
                 /\ UNCHANGED <<messages, printed, unheard, broken>>
              \/ /\ hand[l] = "queue" /\ queue # "freed" /\ exit /\ hand'[l] = "print"
                 /\ UNCHANGED <<messages, printed, unheard, dropped, failures, broken>>
              \/ /\ hand[l] = "queue" /\ queue # "freed" /\ ~exit /\ hand'[l] = "none"
                 /\ messages' = Append(messages, Message(l))
                 /\ UNCHANGED <<printed, unheard, dropped, failures, broken>>
              \/ /\ hand[l] = "print" /\ hand'[l] = Destination
                 /\ UNCHANGED <<messages, printed, unheard, dropped, failures, broken>>
              \/ /\ hand[l] \in {"file", "stderr"} /\ hand'[l] = "none"
                 /\ printed' = Append(printed, Message(l))
                 /\ UNCHANGED <<messages, unheard, dropped, failures, broken>>
              \/ /\ hand[l] \in {"file", "stderr"} /\ hand'[l] = "none"
                 /\ unheard' = unheard \cup {Message(l)}
                 /\ UNCHANGED <<messages, printed, dropped, failures, broken>>
<1> DEFINE M == Messages \cup {Exit}
<1>1. /\ hand \in [Loggers -> {"none", "log", "queue", "print", "file", "stderr"}]
      /\ messages \in Seq(M) /\ printed \in Seq(Messages) /\ unheard \subseteq Messages
      /\ dropped \subseteq Messages /\ failures \in 0..MaxFailures
      /\ Destination \in {"file", "stderr"}
  BY DEF ControlInv, TypeOK, Destination
<1>2. UNCHANGED <<threadVars, options, mainAt, handler, files, queue, exit, exiting, lostStats>>
  BY DEF LogStep
<1>3. hand[l] # "none" => Message(l) \in Messages
  <2>1. HandFits(l) /\ count[l] \in 0..MaxLogs + 3
    BY DEF ControlInv, TypeOK
  <2>2. hand[l] # "none" => count[l] \in 1..MaxLogs + 3
    BY <2>1 DEF HandFits
  <2> QED
    BY <2>2 DEF Message, Messages
<1>4. CASE EnqueueMessage(l)
  <2>1. hand[l] = "queue" /\ UNCHANGED <<count, printed, refused, unheard, dropped, since, failures>>
    BY <1>4 DEF EnqueueMessage
  <2>2. CASE queue = "freed"
    <3>1. broken' = l /\ UNCHANGED <<hand, messages>>
      BY <1>4, <2>2 DEF EnqueueMessage
    <3> QED
      BY <1>1, <1>2, <1>3, <2>1, <2>2, <3>1
  <2>3. CASE queue # "freed" /\ exit
    <3>1. broken' = broken /\ hand' = [hand EXCEPT ![l] = "print"] /\ messages' = messages
      BY <1>4, <2>3 DEF EnqueueMessage, MoveHand
    <3> QED
      BY <1>1, <1>2, <1>3, <2>1, <2>3, <3>1
  <2>4. CASE queue # "freed" /\ ~exit
    <3>1. broken' = broken /\ hand' = [hand EXCEPT ![l] = "none"]
          /\ messages' = Append(messages, Message(l))
      BY <1>4, <2>4 DEF EnqueueMessage, MoveHand
    <3>2. messages' \in Seq(M)
      <4>1. Message(l) \in M /\ messages \in Seq(M)
        BY <1>1, <1>3, <2>1
      <4> HIDE DEF M
      <4> QED
        BY <3>1, <4>1, AppendProperties
    <3> QED
      BY <1>1, <1>2, <1>3, <2>1, <2>4, <3>1, <3>2
  <2> QED
    BY <2>2, <2>3, <2>4
<1>5. CASE ChooseFile(l)
  <2>1. hand[l] = "print" /\ hand' = [hand EXCEPT ![l] = Destination]
        /\ UNCHANGED <<count, printed, refused, unheard, dropped, since, failures, messages, broken>>
    BY <1>5 DEF ChooseFile, MoveHand
  <2> QED
    BY <1>1, <1>2, <1>3, <2>1
<1>6. CASE WriteMessage(l)
  <2>1. hand[l] \in {"file", "stderr"} /\ UNCHANGED <<count, refused, dropped, since, failures, messages>>
    BY <1>6 DEF WriteMessage
  <2>2. CASE hand[l] = "file" /\ "file" \notin openFiles
    <3>1. broken' = l /\ UNCHANGED <<hand, printed, unheard>>
      BY <1>6, <2>2 DEF WriteMessage
    <3> QED
      BY <1>1, <1>2, <1>3, <2>1, <2>2, <3>1
  <2>3. CASE ~(hand[l] = "file" /\ "file" \notin openFiles) /\ hand[l] \in openFiles
    <3>1. broken' = broken /\ hand' = [hand EXCEPT ![l] = "none"]
          /\ printed' = Append(printed, Message(l)) /\ unheard' = unheard
      BY <1>6, <2>3 DEF WriteMessage, MoveHand
    <3>2. printed' \in Seq(Messages)
      BY <1>1, <1>3, <2>1, <3>1, AppendProperties
    <3> QED
      BY <1>1, <1>2, <1>3, <2>1, <3>1, <3>2
  <2>4. CASE ~(hand[l] = "file" /\ "file" \notin openFiles) /\ hand[l] \notin openFiles
    <3>1. broken' = broken /\ hand' = [hand EXCEPT ![l] = "none"]
          /\ unheard' = unheard \cup {Message(l)} /\ printed' = printed
      BY <1>6, <2>4 DEF WriteMessage, MoveHand
    <3> QED
      BY <1>1, <1>2, <1>3, <2>1, <3>1
  <2> QED
    BY <2>2, <2>3, <2>4
<1>7. CASE HandleMessage(l)
  <2>1. hand[l] = "log" /\ UNCHANGED <<count, printed, refused, unheard, since, messages, broken>>
    BY <1>7 DEF HandleMessage
  <2>2. CASE /\ hand' = [hand EXCEPT ![l] = IF queue = "there" THEN "queue" ELSE "print"]
             /\ UNCHANGED <<dropped, failures>>
    BY <1>1, <1>2, <1>3, <2>1, <2>2
  <2>3. CASE Fail /\ hand' = [hand EXCEPT ![l] = "none"] /\ dropped' = dropped \cup {Message(l)}
    <3>1. failures' \in 0..MaxFailures
      BY <1>1, <2>3 DEF Fail
    <3> QED
      BY <1>1, <1>2, <1>3, <2>1, <2>3, <3>1
  <2> QED
    BY <1>7, <2>2, <2>3 DEF HandleMessage, MoveHand
<1> QED
  BY <1>4, <1>5, <1>6, <1>7 DEF LogStep

LEMMA LogStepFits ==
    ASSUME ControlInv, broken = "no", NEW l \in Loggers, LogStep(l)
    PROVE  ControlInv'
<1>1. /\ UNCHANGED <<threadVars, options, mainAt, handler, files, queue, exit, exiting,
                     lostStats, count, refused, since>>
      /\ hand' \in [Loggers -> {"none", "log", "queue", "print", "file", "stderr"}]
      /\ messages' \in Seq(Messages \cup {Exit}) /\ printed' \in Seq(Messages)
      /\ unheard' \subseteq Messages /\ dropped' \subseteq Messages /\ failures' \in 0..MaxFailures
      /\ broken' \in Loggers \cup {"memory", "no"}
      /\ \A k \in Loggers \ {l} : hand'[k] = hand[k]
  BY LogStepMoves
<1>2. UNCHANGED <<interval, periodic, logFile, file, openFiles>>
  BY <1>1 DEF options, files
<1>3. ThreadTypeOK' /\ Rests("logger")
  BY <1>1, ThreadsRest DEF ControlInv
<1>4. at'["logger"] = at["logger"] /\ owner'["logger"] = owner["logger"]
  BY <1>3 DEF Rests
<1>5. LoggerFits /\ MainFits /\ LogFits /\ CountsFit /\ HandFits(l) /\ LoggerFits'
  BY <1>3, LoggerRests DEF ControlInv
<1>6. TypeOK'
  <2>1. /\ {interval, periodic, logFile, handler, exit, exiting, lostStats}' \subseteq BOOLEAN
        /\ mainAt' \in MainPlaces /\ failures' \in 0..MaxFailures
    BY <1>1, <1>2 DEF ControlInv, TypeOK, MainPlaces
  <2>2. /\ file' \in {"none", "file", "stderr"} /\ openFiles' \subseteq {"file", "stderr"}
        /\ queue' \in {"none", "there", "freed"}
        /\ count' \in [Loggers -> 0..MaxLogs + 3]
        /\ refused' \cup unheard' \cup dropped' \subseteq Messages
        /\ since' \in [Loggers -> BOOLEAN]
    BY <1>1, <1>2 DEF ControlInv, TypeOK
  <2> QED
    BY <1>1, <1>3, <2>1, <2>2 DEF TypeOK, MainPlaces
<1>7. MainFits'
  BY <1>1, <1>4, <1>5 DEF MainFits
<1>8. CountsFit'
  BY <1>1, <1>4, <1>5 DEF CountsFit
<1>9. LogFits'
  <2>1. CASE messages' = messages
    BY <1>1, <1>2, <1>4, <1>5, <2>1 DEF LogFits
  <2>2. CASE /\ hand[l] = "queue" /\ queue # "freed" /\ ~exit
             /\ messages' = Append(messages, Message(l))
    <3>1. /\ messages \in Seq(Messages \cup {Exit})
          /\ Message(l) \in Messages \cup {Exit} /\ Message(l) # Exit
      <4>1. Message(l) \in Messages
        BY LogStepMoves
      <4>2. \A m \in Messages : m # Exit
        BY DEF Messages, Exit
      <4> QED
        BY <4>1, <4>2 DEF ControlInv, TypeOK
    <3>2. Exit \notin ToSet(messages) => Exit \notin ToSet(messages')
      BY <2>2, <3>1, AppendElements
    <3>3. queue # "none"
      BY <1>5, <2>2 DEF HandFits
    <3>4. at["logger"] \notin {"back", "write", "exit", "ended"}
      BY <1>5, <2>2 DEF LogFits
    <3> QED
      BY <1>1, <1>2, <1>4, <1>5, <2>2, <3>2, <3>3, <3>4 DEF LogFits
  <2> QED
    BY <2>1, <2>2, LogStepMoves
<1>10. ASSUME NEW k \in Loggers \ {l}
       PROVE  HandFits(k)'
  <2>1. HandFits(k) /\ hand'[k] = hand[k]
    BY <1>1 DEF ControlInv
  <2> QED
    BY <1>1, <1>2, <1>4, <2>1, HandStays
<1>11. HandFits(l)'
  <2>1. hand[l] # "none"
    BY LogStepMoves
  <2>2. CASE hand'[l] = hand[l]
    BY <1>1, <1>2, <1>4, <1>5, <2>2, HandStays
  <2>3. CASE hand'[l] \in {"none", "print", "stderr"}
    BY <1>1, <1>5, <2>1, <2>3 DEF HandFits
  <2>4. CASE hand[l] = "print" /\ hand'[l] = "file" /\ hand'[l] = Destination
    <3>1. ~exiting /\ file = "file" /\ "file" \in openFiles
      BY <1>5, <2>4 DEF Destination, LogFits
    <3>2. since[l] => at["logger"] = "absent"
      <4>1. since[l] => mainAt \in Ended
        BY <1>5, <2>4 DEF HandFits
      <4>2. mainAt \in Ended => queue = "none"
        BY <1>5, <3>1 DEF MainFits
      <4>3. queue = "none" => at["logger"] = "absent"
        BY <1>5 DEF MainFits, LoggerFits
      <4> QED
        BY <4>1, <4>2, <4>3
    <3> QED
      BY <1>1, <1>2, <1>4, <1>5, <2>1, <2>4, <3>1, <3>2 DEF HandFits
  <2>6. CASE hand[l] = "log" /\ hand'[l] = "queue" /\ queue = "there"
    <3>1. mainAt \in Ended => at["logger"] = "absent"
      <4>1. mainAt \in Ended => owner["logger"] \in {"none", "done"}
        BY <1>5 DEF MainFits
      <4>2. owner["logger"] \in {"none", "done"} => at["logger"] \in {"absent", "ended"}
        BY <1>5 DEF LoggerFits
      <4>3. at["logger"] # "ended"
        BY <1>5, <2>6 DEF LogFits
      <4> QED
        BY <4>1, <4>2, <4>3
    <3> QED
      BY <1>1, <1>4, <1>5, <2>1, <2>6, <3>1 DEF HandFits
  <2>5. Destination \in {"file", "stderr"}
    BY DEF Destination, ControlInv, TypeOK
  <2> QED
    BY <2>2, <2>3, <2>4, <2>5, <2>6, LogStepMoves
<1>12. LateLogIsSafe'
  <2>1. CASE broken' = "no"
    BY <2>1 DEF LateLogIsSafe, Loggers
  <2>2. CASE broken' = l /\ hand[l] = "queue" /\ queue = "freed"
    <3>1. at["logger"] = "ended"
      BY <1>5, <2>2 DEF LogFits
    <3>2. ~since[l]
      BY <1>5, <2>2, <3>1 DEF HandFits
    <3> QED
      BY <1>1, <2>2, <3>2 DEF LateLogIsSafe
  <2>3. CASE broken' = l /\ hand[l] = "file" /\ "file" \notin openFiles
    <3>1. ~since[l]
      BY <1>5, <2>3 DEF HandFits
    <3> QED
      BY <1>1, <2>3, <3>1 DEF LateLogIsSafe
  <2> QED
    BY <2>1, <2>2, <2>3, LogStepMoves
<1> QED
  BY <1>5, <1>6, <1>7, <1>8, <1>9, <1>10, <1>11, <1>12 DEF ControlInv

(* Memory is missing, and that is the end.                                 *)
LEMMA MemoryMissingFits ==
    ASSUME ControlInv, MemoryMissing
    PROVE  ControlInv'
<1>1. /\ UNCHANGED <<threadVars, interval, periodic, logFile, mainAt, handler, file, openFiles,
                     queue, messages, exit, exiting, hand, count, printed, refused, unheard, dropped,
                     since, lostStats>>
      /\ broken' = "memory" /\ Fail
  BY DEF MemoryMissing, options, files, queueVars, logging
<1>2. ThreadTypeOK' /\ Rests("logger")
  BY <1>1, ThreadsRest DEF ControlInv
<1>3. TypeOK'
  <2>1. failures' \in 0..MaxFailures
    BY <1>1, FailureCounted DEF ControlInv
  <2> QED
    BY <1>1, <1>2, <2>1 DEF ControlInv, TypeOK
<1>4. LoggerFits'
  BY <1>2, LoggerRests DEF ControlInv
<1>5. at'["logger"] = at["logger"] /\ owner'["logger"] = owner["logger"]
  BY <1>2 DEF Rests
<1>6. MainFits'
  BY <1>1, <1>5 DEF ControlInv, MainFits
<1>7. LogFits'
  BY <1>1, <1>5 DEF ControlInv, LogFits
<1>8. CountsFit'
  BY <1>1, <1>5 DEF ControlInv, CountsFit
<1>9. ASSUME NEW l \in Loggers
      PROVE  HandFits(l)'
  BY <1>1, <1>5 DEF ControlInv, HandFits
<1>10. LateLogIsSafe'
  BY <1>1 DEF LateLogIsSafe, Loggers
<1> QED
  BY <1>3, <1>4, <1>6, <1>7, <1>8, <1>9, <1>10 DEF ControlInv

(* The invariant, at the start and from a step to the next.                *)
LEMMA ControlStarts ==
    ASSUME Init
    PROVE  ControlInv
<1>1. "logger" \in Threads
  BY TwoThreads
<1>2. ThreadTypeOK
  BY DEF Init, ThreadInit, ThreadTypeOK, Places
<1>3. TypeOK
  <2>0. /\ interval \in BOOLEAN /\ periodic \in BOOLEAN /\ logFile \in BOOLEAN
        /\ handler = FALSE /\ exit = FALSE /\ exiting = FALSE /\ lostStats = FALSE
    BY DEF Init
  <2>5. {interval, periodic, logFile, handler, exit, exiting, lostStats} \subseteq BOOLEAN
    BY <2>0
  <2>1. /\ mainAt = "stats" /\ failures \in 0..MaxFailures
        /\ file \in {"none", "file", "stderr"} /\ openFiles \subseteq {"file", "stderr"}
        /\ queue \in {"none", "there", "freed"}
    BY DEF Init
  <2>2. messages \in Seq(Messages \cup {Exit}) /\ printed \in Seq(Messages)
    BY EmptySeq DEF Init
  <2>3. /\ hand \in [Loggers -> {"none", "log", "queue", "print", "file", "stderr"}]
        /\ since \in [Loggers -> BOOLEAN]
        /\ refused \cup unheard \cup dropped \subseteq Messages /\ broken \in Loggers \cup {"memory", "no"}
    BY DEF Init
  <2>4. count \in [Loggers -> 0..MaxLogs + 3]
    BY DEF Init
  <2> QED
    BY <1>2, <2>1, <2>2, <2>3, <2>4, <2>5 DEF TypeOK
<1>4. /\ memory["logger"] = "none" /\ state["logger"] = "NONE" /\ ~running["logger"]
      /\ ~initialized["logger"] /\ at["logger"] = "absent" /\ owner["logger"] = "none"
  BY <1>1 DEF Init, ThreadInit
<1>5. LoggerFits
  BY <1>4 DEF LoggerFits, Going, Begun
<1>6. MainFits
  BY <1>4 DEF Init, MainFits, Ended, Starting
<1>7. LogFits
  BY <1>4, ShortElements DEF Init, LogFits, Starting
<1>8. CountsFit
  <2>1. \A l \in Loggers : count[l] = 0
    BY DEF Init
  <2>2. "main" \in Loggers /\ "logger" \in Loggers /\ \A u \in Users : u \in Loggers
    BY DEF Loggers
  <2> QED
    BY <2>1, <2>2 DEF CountsFit
<1>9. \A l \in Loggers : HandFits(l)
  BY DEF Init, HandFits
<1>10. LateLogIsSafe
  BY DEF Init, LateLogIsSafe, Loggers
<1> QED
  BY <1>3, <1>5, <1>6, <1>7, <1>8, <1>9, <1>10 DEF ControlInv

LEMMA ControlStutters ==
    ASSUME ControlInv, UNCHANGED vars
    PROVE  ControlInv'
<1>1. UNCHANGED <<threadVars, interval, periodic, logFile, mainAt, failures, handler, file, openFiles,
                  queue, messages, exit, exiting, hand, count, printed, refused, unheard, dropped, since,
                  lostStats, broken>>
  BY DEF vars, options, files, queueVars, logging
<1>2. ThreadTypeOK' /\ Rests("logger")
  BY <1>1, ThreadsRest DEF ControlInv
<1>3. TypeOK'
  BY <1>1, <1>2 DEF ControlInv, TypeOK
<1>4. LoggerFits'
  BY <1>2, LoggerRests DEF ControlInv
<1>5. at'["logger"] = at["logger"] /\ owner'["logger"] = owner["logger"]
  BY <1>2 DEF Rests
<1>6. MainFits'
  BY <1>1, <1>5 DEF ControlInv, MainFits
<1>7. LogFits'
  BY <1>1, <1>5 DEF ControlInv, LogFits
<1>8. CountsFit'
  BY <1>1, <1>5 DEF ControlInv, CountsFit
<1>9. ASSUME NEW l \in Loggers
      PROVE  HandFits(l)'
  BY <1>1, <1>5 DEF ControlInv, HandFits
<1>10. LateLogIsSafe'
  BY <1>1 DEF ControlInv, LateLogIsSafe
<1> QED
  BY <1>3, <1>4, <1>6, <1>7, <1>8, <1>9, <1>10 DEF ControlInv

LEMMA ControlKept ==
    ASSUME ControlInv, IsInjective(messages), Next
    PROVE  ControlInv'
<1>0. broken = "no" /\ Step
  BY DEF Next
<1>1. CASE Main
  <2>1. CASE StatsInit
    BY <2>1, StatsInitFits
  <2>2. CASE SetHandler \/ StatsEnd
    BY <2>2, StatsEndFits
  <2>3. CASE OpenFile
    BY <1>0, <2>3, OpenFileFits
  <2>4. CASE MakeQueue
    BY <1>0, <2>4, MakeQueueFits
  <2>5. CASE MakeThread("logger", "logger", "user", BeginLog("main"))
    BY <1>0, <2>5, MakeLoggerFits
  <2>6. CASE BeginLogEnd
    BY <2>6, BeginLogEndFits
  <2>7. CASE EnqueueExit
    BY <1>0, <2>7, EnqueueExitFits
  <2>8. CASE Join("logger", "join", "stop")
    BY <2>8, JoinLoggerFits
  <2> QED
    BY <1>1, <2>1, <2>2, <2>3, <2>4, <2>5, <2>6, <2>7, <2>8 DEF Main, LogInit, LogEnd
<1>2. CASE LoggerThread
  <2>1. CASE LoggerLogs
    BY <1>0, <2>1, LoggerLogsFits
  <2>2. CASE LoggerInit
    BY <2>2, LoggerInitFits
  <2>3. CASE LogRun
    BY <2>3, LogRunFits
  <2>4. CASE LoggerLoop
    BY <2>4, LoggerLoopFits
  <2>5. CASE CloseFile
    BY <2>5, CloseFileFits
  <2>6. CASE FreeLogQueue
    BY <2>6, FreeLogQueueFits
  <2> QED
    BY <1>2, <2>1, <2>2, <2>3, <2>4, <2>5, <2>6 DEF LoggerThread
<1>3. CASE StatsThread
  BY <1>3, StatsThreadFits
<1>4. ASSUME NEW u \in Users, UserLogs(u)
      PROVE  ControlInv'
  BY <1>0, <1>4, UserLogsFits
<1>5. ASSUME NEW l \in Loggers, LogStep(l)
      PROVE  ControlInv'
  BY <1>0, <1>5, LogStepFits
<1>6. CASE MemoryMissing
  BY <1>6, MemoryMissingFits
<1> QED
  BY <1>0, <1>1, <1>2, <1>3, <1>4, <1>5, <1>6 DEF Step

-----------------------------------------------------------------------------
(* 9. Where each message is.                                                *)
LEMMA CountedIs ==
    ASSUME NEW counted, NEW m
    PROVE  m \in UNION {{<<l, n>> : n \in 1..counted[l]} : l \in Loggers}
           <=> \E l \in Loggers : \E n \in 1..counted[l] : m = <<l, n>>
<1> DEFINE Of(l) == {<<l, n>> : n \in 1..counted[l]}
<1>1. ASSUME m \in UNION {Of(l) : l \in Loggers}
      PROVE  \E l \in Loggers : \E n \in 1..counted[l] : m = <<l, n>>
  <2>1. PICK l \in Loggers : m \in Of(l)
    BY <1>1
  <2> QED
    BY <2>1
<1>2. ASSUME NEW l \in Loggers, NEW n \in 1..counted[l], m = <<l, n>>
      PROVE  m \in UNION {Of(k) : k \in Loggers}
  <2>1. m \in Of(l)
    BY <1>2
  <2> HIDE DEF Of
  <2> QED
    BY <2>1
<1> QED
  BY <1>1, <1>2

LEMMA AcceptedIs ==
    \A m : m \in Accepted <=> m \notin refused /\ \E l \in Loggers : \E n \in 1..count[l] : m = <<l, n>>
BY CountedIs DEF Accepted

LEMMA InHandIs ==
    \A m : m \in InHand <=> \E l \in Loggers : hand[l] # "none" /\ m = <<l, count[l]>>
BY DEF InHand, Message

(* What a thread has in hand, when it alone moves.                         *)
LEMMA InHandMoves ==
    ASSUME NEW l \in Loggers,
           \A k \in Loggers \ {l} : hand'[k] = hand[k] /\ count'[k] = count[k]
    PROVE  /\ hand[l] = "none" /\ hand'[l] = "none" => InHand' = InHand
           /\ hand[l] = "none" /\ hand'[l] # "none" => InHand' = InHand \cup {<<l, count'[l]>>}
           /\ hand[l] # "none" /\ hand'[l] # "none" /\ count'[l] = count[l] => InHand' = InHand
           /\ hand[l] # "none" => Message(l) \in InHand
           /\ hand[l] # "none" /\ hand'[l] = "none" => InHand' = InHand \ {Message(l)}
<1> DEFINE H == {<<k, count[k]>> : k \in {j \in Loggers \ {l} : hand[j] # "none"}}
<1>1. InHand = H \cup (IF hand[l] # "none" THEN {<<l, count[l]>>} ELSE {})
  <2>1. ASSUME NEW m \in InHand
        PROVE  m \in H \cup (IF hand[l] # "none" THEN {<<l, count[l]>>} ELSE {})
    BY InHandIs
  <2>2. ASSUME NEW m \in H
        PROVE  m \in InHand
    BY InHandIs
  <2>3. hand[l] # "none" => <<l, count[l]>> \in InHand
    BY InHandIs
  <2> QED
    BY <2>1, <2>2, <2>3
<1>2. \A m : m \in InHand' <=> \E k \in Loggers : hand'[k] # "none" /\ m = <<k, count'[k]>>
  BY DEF InHand, Message
<1>3. InHand' = H \cup (IF hand'[l] # "none" THEN {<<l, count'[l]>>} ELSE {})
  <2>1. ASSUME NEW m \in InHand'
        PROVE  m \in H \cup (IF hand'[l] # "none" THEN {<<l, count'[l]>>} ELSE {})
    BY <1>2
  <2>2. ASSUME NEW m \in H
        PROVE  m \in InHand'
    BY <1>2
  <2>3. hand'[l] # "none" => <<l, count'[l]>> \in InHand'
    BY <1>2
  <2> QED
    BY <2>1, <2>2, <2>3
<1>4. <<l, count[l]>> \notin H
  OBVIOUS
<1> HIDE DEF H
<1> QED
  BY <1>1, <1>3, <1>4 DEF Message

(* Nothing of the messages moves.                                          *)
LEMMA MessagesRest ==
    ASSUME EachPrintedOnce, RefusedPast, UNCHANGED <<messages, hand, count, printed, refused, unheard, dropped>>
    PROVE  EachPrintedOnce' /\ RefusedPast'
BY DEF EachPrintedOnce, RefusedPast, Accepted, Queued, InHand, Message

(* A thread enters Log, and its message is in its hand or refused.         *)
LEMMA BeginLogOnce ==
    ASSUME ControlInv, EachPrintedOnce, RefusedPast, NEW l \in Loggers, BeginLog(l),
           count[l] < MaxLogs + 3, UNCHANGED messages
    PROVE  EachPrintedOnce' /\ RefusedPast'
<1> DEFINE new == <<l, count[l] + 1>>
<1>1. /\ UNCHANGED <<printed, unheard, dropped>> /\ count'[l] = count[l] + 1 /\ hand[l] = "none"
      /\ hand'[l] = IF handler THEN "log" ELSE "none"
      /\ refused' = IF handler THEN refused ELSE refused \cup {new}
      /\ \A k \in Loggers \ {l} : hand'[k] = hand[k] /\ count'[k] = count[k]
  BY BeginLogMoves
<1>2. \A k \in Loggers : count[k] \in Nat
  BY DEF ControlInv, TypeOK
<1>3. count[l] \in Nat /\ count[l] + 1 \in 1..(MaxLogs + 3)
  BY <1>2
<1>4. new \notin Accepted /\ new \notin refused
  BY <1>3, AcceptedIs DEF RefusedPast
<1>5. \A m : m \in Accepted' <=>
                m \notin refused' /\ \E k \in Loggers : \E n \in 1..count'[k] : m = <<k, n>>
  BY CountedIs DEF Accepted
<1>6. \A m : (\E k \in Loggers : \E n \in 1..count'[k] : m = <<k, n>>) <=>
                (m = new \/ \E k \in Loggers : \E n \in 1..count[k] : m = <<k, n>>)
  <2>1. 1..count'[l] = 1..count[l] \cup {count[l] + 1}
    BY <1>1, <1>3
  <2>2. \A k \in Loggers \ {l} : 1..count'[k] = 1..count[k]
    BY <1>1
  <2>3. ASSUME NEW k \in Loggers, NEW n \in 1..count'[k]
        PROVE  <<k, n>> = new \/ n \in 1..count[k]
    BY <2>1, <2>2
  <2>4. ASSUME NEW k \in Loggers, NEW n \in 1..count[k]
        PROVE  n \in 1..count'[k]
    BY <2>1, <2>2
  <2>5. count[l] + 1 \in 1..count'[l]
    BY <2>1
  <2> HIDE DEF new
  <2>6. ASSUME NEW m, NEW k \in Loggers, NEW n \in 1..count'[k], m = <<k, n>>
        PROVE  m = new \/ \E j \in Loggers : \E i \in 1..count[j] : m = <<j, i>>
    BY <2>3, <2>6
  <2>7. ASSUME NEW m, NEW k \in Loggers, NEW n \in 1..count[k], m = <<k, n>>
        PROVE  \E j \in Loggers : \E i \in 1..count'[j] : m = <<j, i>>
    BY <2>4, <2>7
  <2>8. \E j \in Loggers : \E i \in 1..count'[j] : new = <<j, i>>
    BY <2>5 DEF new
  <2> QED
    BY <2>6, <2>7, <2>8
<1>7. RefusedPast'
  <2>1. ASSUME NEW k \in Loggers, NEW n \in 1..(MaxLogs + 3), <<k, n>> \in refused'
        PROVE  n <= count'[k]
    <3>1. CASE <<k, n>> \in refused
      <4>1. n <= count[k]
        BY <3>1 DEF RefusedPast
      <4> QED
        BY <1>1, <1>2, <4>1
    <3>2. CASE <<k, n>> = new
      BY <1>1, <1>3, <3>2
    <3> QED
      BY <1>1, <2>1, <3>1, <3>2
  <2> QED
    BY <2>1 DEF RefusedPast
<1> HIDE DEF new
<1>8. /\ Accepted' = (IF handler THEN Accepted \cup {new} ELSE Accepted)
      /\ InHand' = (IF handler THEN InHand \cup {new} ELSE InHand)
  <2>1. InHand' = (IF handler THEN InHand \cup {new} ELSE InHand)
    BY <1>1, InHandMoves DEF new
  <2>2. \A m : m \in Accepted' <=> m \notin refused' /\ (m = new \/ m \in Accepted \/ m \in refused)
    <3> DEFINE Was(m) == \E k \in Loggers : \E n \in 1..count[k] : m = <<k, n>>
               Is(m) == \E k \in Loggers : \E n \in 1..count'[k] : m = <<k, n>>
    <3>1. \A m : m \in Accepted' <=> m \notin refused' /\ Is(m)
      BY <1>5
    <3>2. \A m : Is(m) <=> m = new \/ Was(m)
      BY <1>6
    <3>3. \A m : m \in Accepted <=> m \notin refused /\ Was(m)
      BY AcceptedIs
    <3>4. refused \subseteq refused'
      BY <1>1
    <3> HIDE DEF Was, Is
    <3> QED
      BY <3>1, <3>2, <3>3, <3>4
  <2>3. CASE handler
    <3>1. \A m : m \in Accepted' <=> m = new \/ m \in Accepted
      BY <1>1, <1>4, <2>2, <2>3, AcceptedIs
    <3>2. Accepted' = Accepted \cup {new}
      BY <3>1
    <3> QED
      BY <2>1, <2>3, <3>2
  <2>4. CASE ~handler
    <3>1. \A m : m \in Accepted' <=> m \in Accepted
      BY <1>1, <1>4, <2>2, <2>4, AcceptedIs
    <3>2. Accepted' = Accepted
      BY <3>1
    <3> QED
      BY <2>1, <2>4, <3>2
  <2> QED
    BY <2>1, <2>3, <2>4
<1>9. Queued' = Queued /\ ToSet(printed)' = ToSet(printed)
  BY <1>1 DEF Queued
<1>10. EachPrintedOnce'
  <2>1. IsInjective(printed') /\ IsInjective(messages')
    BY <1>1 DEF EachPrintedOnce
  <2>2. CASE handler
    BY <1>1, <1>4, <1>8, <1>9, <2>1, <2>2 DEF EachPrintedOnce
  <2>3. CASE ~handler
    BY <1>1, <1>8, <1>9, <2>1, <2>3 DEF EachPrintedOnce
  <2> QED
    BY <2>2, <2>3
<1> QED
  BY <1>7, <1>10

(* It goes from its hand to where it stays.                                *)
LEMMA LogStepOnce ==
    ASSUME ControlInv, broken = "no", EachPrintedOnce, RefusedPast, NEW l \in Loggers, LogStep(l)
    PROVE  EachPrintedOnce' /\ RefusedPast'
<1> DEFINE m == Message(l)
           M == Messages \cup {Exit}
           P == ToSet(printed)
<1>1. /\ UNCHANGED <<count, refused>> /\ hand[l] # "none" /\ m \in Messages
      /\ \A k \in Loggers \ {l} : hand'[k] = hand[k] /\ count'[k] = count[k]
      /\ count'[l] = count[l]
  BY LogStepMoves
<1>2. RefusedPast' /\ Accepted' = Accepted
  BY <1>1 DEF RefusedPast, Accepted
<1>3. /\ m \in InHand
      /\ hand'[l] # "none" => InHand' = InHand
      /\ hand'[l] = "none" => InHand' = InHand \ {m}
  BY <1>1, InHandMoves
<1>4. m # Exit /\ m \in M /\ messages \in Seq(M) /\ printed \in Seq(Messages)
  <2>1. \A x \in Messages : x # Exit
    BY DEF Messages, Exit
  <2> QED
    BY <1>1, <2>1 DEF ControlInv, TypeOK
<1>5. m \notin P /\ m \notin ToSet(messages) /\ m \notin unheard /\ m \notin dropped
  BY <1>3, <1>4 DEF EachPrintedOnce, Queued
<1>6. /\ P \cup Queued \cup InHand \cup unheard \cup dropped = Accepted
      /\ IsInjective(printed) /\ IsInjective(messages)
      /\ P \cap (Queued \cup InHand \cup unheard \cup dropped) = {}
      /\ Queued \cap (InHand \cup unheard \cup dropped) = {}
      /\ InHand \cap (unheard \cup dropped) = {} /\ unheard \cap dropped = {}
  BY DEF EachPrintedOnce
<1> HIDE DEF m, M, P
<1>7. CASE UNCHANGED <<messages, printed, unheard, dropped>> /\ InHand' = InHand
  BY <1>2, <1>6, <1>7 DEF EachPrintedOnce, Queued, P
<1>8. CASE /\ messages' = Append(messages, m) /\ InHand' = InHand \ {m}
           /\ UNCHANGED <<printed, unheard, dropped>>
  <2>1. IsInjective(messages') /\ ToSet(messages') = ToSet(messages) \cup {m}
    BY <1>4, <1>5, <1>6, <1>8, AppendDistinct, AppendElements
  <2>2. Queued' = Queued \cup {m} /\ ToSet(printed)' = P
    BY <1>4, <1>8, <2>1 DEF Queued, P
  <2> QED
    BY <1>2, <1>3, <1>5, <1>6, <1>8, <2>1, <2>2 DEF EachPrintedOnce
<1>9. CASE /\ printed' = Append(printed, m) /\ InHand' = InHand \ {m}
           /\ UNCHANGED <<messages, unheard, dropped>>
  <2>1. IsInjective(printed') /\ ToSet(printed)' = P \cup {m}
    <3>1. m \in Messages
      BY <1>1 DEF m
    <3> QED
      BY <1>4, <1>5, <1>6, <1>9, <3>1, AppendDistinct, AppendElements DEF P
  <2>2. Queued' = Queued /\ m \notin Queued
    BY <1>5, <1>9 DEF Queued
  <2> QED
    BY <1>2, <1>3, <1>5, <1>6, <1>9, <2>1, <2>2 DEF EachPrintedOnce
<1>10. CASE /\ unheard' = unheard \cup {m} /\ InHand' = InHand \ {m}
            /\ UNCHANGED <<messages, printed, dropped>>
  <2>1. IsInjective(printed') /\ IsInjective(messages') /\ ToSet(printed)' = P
    BY <1>6, <1>10 DEF P
  <2>2. Queued' = Queued /\ m \notin Queued
    BY <1>5, <1>10 DEF Queued
  <2> QED
    BY <1>2, <1>3, <1>5, <1>6, <1>10, <2>1, <2>2 DEF EachPrintedOnce
<1>12. CASE /\ dropped' = dropped \cup {m} /\ InHand' = InHand \ {m}
            /\ UNCHANGED <<messages, printed, unheard>>
  <2>1. IsInjective(printed') /\ IsInjective(messages') /\ ToSet(printed)' = P
    BY <1>6, <1>12 DEF P
  <2>2. Queued' = Queued /\ m \notin Queued
    BY <1>5, <1>12 DEF Queued
  <2> QED
    BY <1>2, <1>3, <1>5, <1>6, <1>12, <2>1, <2>2 DEF EachPrintedOnce
<1>11. Destination # "none"
  BY DEF Destination
<1> QED
  <2>1. CASE UNCHANGED <<hand, messages, printed, unheard, dropped>>
    BY <1>1, <1>2, <1>3, <1>7, <2>1
  <2>2. CASE hand'[l] \in {"queue", "print", Destination} /\ UNCHANGED <<messages, printed, unheard, dropped>>
    BY <1>2, <1>3, <1>7, <1>11, <2>2
  <2>3. CASE /\ hand'[l] = "none" /\ messages' = Append(messages, m)
             /\ UNCHANGED <<printed, unheard, dropped>>
    BY <1>2, <1>3, <1>8, <2>3
  <2>4. CASE /\ hand'[l] = "none" /\ printed' = Append(printed, m)
             /\ UNCHANGED <<messages, unheard, dropped>>
    BY <1>2, <1>3, <1>9, <2>4
  <2>5. CASE /\ hand'[l] = "none" /\ unheard' = unheard \cup {m}
             /\ UNCHANGED <<messages, printed, dropped>>
    BY <1>2, <1>3, <1>10, <2>5
  <2>6. CASE /\ hand'[l] = "none" /\ dropped' = dropped \cup {m}
             /\ UNCHANGED <<messages, printed, unheard>>
    BY <1>2, <1>3, <1>12, <2>6
  <2> QED
    BY <2>1, <2>2, <2>3, <2>4, <2>5, <2>6, LogStepMoves DEF m

(* What a thread drops failed.                                              *)
LEMMA DroppedRests ==
    ASSUME DroppedFits, dropped' = dropped, failures \in Nat, failures' \in Nat,
           failures' >= failures
    PROVE  DroppedFits'
BY FS_CardinalityType DEF DroppedFits, DroppedForFailures

LEMMA LogStepDrops ==
    ASSUME ControlInv, broken = "no", DroppedFits, NEW l \in Loggers, LogStep(l)
    PROVE  DroppedFits'
<1>1. failures \in Nat
  BY DEF ControlInv, TypeOK
<1>2. CASE dropped' = dropped /\ failures' = failures
  BY <1>1, <1>2, DroppedRests
<1>3. CASE dropped' = dropped \cup {Message(l)} /\ Fail
  <2>1. failures' = failures + 1
    BY <1>3 DEF Fail
  <2>2. /\ IsFiniteSet(dropped') /\ Cardinality(dropped) \in Nat
        /\ Cardinality(dropped') <= Cardinality(dropped) + 1
    <3>1. /\ IsFiniteSet(dropped) /\ Cardinality(dropped) \in Nat
      BY FS_CardinalityType DEF DroppedFits
    <3>2. /\ IsFiniteSet(dropped \cup {Message(l)})
          /\ Cardinality(dropped \cup {Message(l)}) =
                IF Message(l) \in dropped THEN Cardinality(dropped) ELSE Cardinality(dropped) + 1
      BY <3>1, FS_AddElement
    <3> QED
      BY <1>3, <3>1, <3>2
  <2>3. Cardinality(dropped') \in Nat /\ Cardinality(dropped) <= failures
    BY <2>2, FS_CardinalityType DEF DroppedFits, DroppedForFailures
  <2> QED
    BY <1>1, <2>1, <2>2, <2>3 DEF DroppedFits, DroppedForFailures
<1> QED
  BY <1>2, <1>3, LogStepMoves

(* The logger prints what it takes from the queue.                         *)
LEMMA LogRunOnce ==
    ASSUME ControlInv, EachPrintedOnce, RefusedPast, LogRun
    PROVE  EachPrintedOnce' /\ RefusedPast'
<1> DEFINE h == Head(messages)
           M == Messages \cup {Exit}
           P == ToSet(printed)
<1>1. /\ messages # <<>> /\ messages' = Tail(messages)
      /\ UNCHANGED <<hand, count, refused, unheard, dropped>>
      /\ \/ h = Exit /\ printed' = printed
         \/ h # Exit /\ printed' = Append(printed, h)
  BY DEF LogRun
<1>2. RefusedPast' /\ Accepted' = Accepted /\ InHand' = InHand
  BY <1>1 DEF RefusedPast, Accepted, InHand, Message
<1>3. messages \in Seq(M) /\ printed \in Seq(Messages)
  BY DEF ControlInv, TypeOK
<1>4. /\ P \cup Queued \cup InHand \cup unheard \cup dropped = Accepted
      /\ IsInjective(printed) /\ IsInjective(messages)
      /\ P \cap (Queued \cup InHand \cup unheard \cup dropped) = {}
      /\ Queued \cap (InHand \cup unheard \cup dropped) = {}
      /\ InHand \cap (unheard \cup dropped) = {} /\ unheard \cap dropped = {}
  BY DEF EachPrintedOnce
<1>5. h \in M /\ (h # Exit => h \in Messages)
  <2>1. Head(messages) \in M
    <3> HIDE DEF M
    <3> QED
      BY <1>1, <1>3, TailProperties
  <2> QED
    BY <2>1
<1> HIDE DEF h, M, P
<1>6. /\ ToSet(messages) = {h} \cup ToSet(messages') /\ h \notin ToSet(messages')
      /\ IsInjective(messages')
  BY <1>1, <1>3, <1>4, HeadTailElements, TailDistinct DEF h
<1>7. CASE h = Exit /\ printed' = printed
  <2>1. Queued' = Queued /\ ToSet(printed)' = P
    BY <1>6, <1>7 DEF Queued, P
  <2> QED
    BY <1>1, <1>2, <1>4, <1>6, <1>7, <2>1 DEF EachPrintedOnce
<1>8. CASE h # Exit /\ printed' = Append(printed, h)
  <2>1. Queued = Queued' \cup {h} /\ h \notin Queued'
    BY <1>6, <1>8 DEF Queued
  <2>2. h \notin P
    BY <1>4, <2>1
  <2>3. IsInjective(printed') /\ ToSet(printed)' = P \cup {h}
    BY <1>3, <1>4, <1>5, <1>8, <2>2, AppendDistinct, AppendElements DEF P
  <2> QED
    BY <1>1, <1>2, <1>4, <1>6, <2>1, <2>2, <2>3 DEF EachPrintedOnce
<1> QED
  BY <1>1, <1>7, <1>8

LEMMA CloseFileOnce ==
    ASSUME ControlInv, EachPrintedOnce, RefusedPast, CloseFile
    PROVE  EachPrintedOnce' /\ RefusedPast'
<1> DEFINE P == ToSet(printed)
<1>1. /\ messages' = <<>> /\ printed' = printed \o messages
      /\ UNCHANGED <<hand, count, refused, unheard, dropped>> /\ Exit \notin ToSet(messages)
  BY DEF CloseFile, ControlInv, LogFits
<1>2. RefusedPast' /\ Accepted' = Accepted /\ InHand' = InHand
  BY <1>1 DEF RefusedPast, Accepted, InHand, Message
<1>3. messages \in Seq(Messages) /\ printed \in Seq(Messages)
  BY <1>1, OnlyMessages DEF ControlInv, TypeOK
<1>4. /\ P \cup Queued \cup InHand \cup unheard \cup dropped = Accepted
      /\ IsInjective(printed) /\ IsInjective(messages)
      /\ P \cap (Queued \cup InHand \cup unheard \cup dropped) = {}
      /\ Queued \cap (InHand \cup unheard \cup dropped) = {}
      /\ InHand \cap (unheard \cup dropped) = {} /\ unheard \cap dropped = {}
  BY DEF EachPrintedOnce
<1>5. Queued = ToSet(messages)
  BY <1>1 DEF Queued
<1>6. ToSet(messages') = {} /\ Queued' = {} /\ IsInjective(messages')
  BY <1>1, ShortElements DEF Queued, IsInjective
<1> HIDE DEF P
<1>7. ToSet(printed)' = P \cup Queued /\ IsInjective(printed')
  <2>1. ToSet(printed) \cap ToSet(messages) = {}
    BY <1>4, <1>5 DEF P
  <2> QED
    BY <1>1, <1>3, <1>4, <1>5, <2>1, ConcatElements, ConcatDistinct DEF P
<1> QED
  BY <1>1, <1>2, <1>4, <1>6, <1>7 DEF EachPrintedOnce

LEMMA EnqueueExitOnce ==
    ASSUME ControlInv, EachPrintedOnce, RefusedPast, EnqueueExit
    PROVE  EachPrintedOnce' /\ RefusedPast'
<1> DEFINE M == Messages \cup {Exit}
<1>1. /\ messages' = Append(messages, Exit)
      /\ UNCHANGED <<hand, count, printed, refused, unheard, dropped>>
  BY DEF EnqueueExit, logging
<1>2. ~exit /\ Exit \notin ToSet(messages)
  BY DEF EnqueueExit, GoTo, ControlInv, MainFits, LogFits
<1>3. RefusedPast' /\ Accepted' = Accepted /\ InHand' = InHand
  BY <1>1 DEF RefusedPast, Accepted, InHand, Message
<1>4. messages \in Seq(M) /\ Exit \in M
  BY DEF ControlInv, TypeOK
<1> HIDE DEF M
<1>5. IsInjective(messages') /\ ToSet(messages') = ToSet(messages) \cup {Exit}
  BY <1>1, <1>2, <1>4, AppendDistinct, AppendElements DEF EachPrintedOnce
<1>6. Queued' = Queued
  BY <1>2, <1>5 DEF Queued
<1> QED
  BY <1>1, <1>3, <1>5, <1>6 DEF EachPrintedOnce

-----------------------------------------------------------------------------
(* 10. In what order they are printed.                                      *)
LEMMA AppendInOrder ==
    ASSUME NEW S, NEW s \in Seq(S), NEW e \in S, InOrder(s),
           \A x \in ToSet(s) : x[1] = e[1] => x[2] < e[2]
    PROVE  InOrder(Append(s, e))
<1> DEFINE a == Append(s, e)
<1>1. /\ Len(s) \in Nat /\ DOMAIN s = 1..Len(s)
      /\ a \in Seq(S) /\ Len(a) = Len(s) + 1
      /\ \A i \in 1..Len(s) : a[i] = s[i]
      /\ a[Len(s) + 1] = e
  BY LenProperties, AppendProperties
<1> HIDE DEF a
<1>2. DOMAIN a = 1..(Len(s) + 1)
  BY <1>1, LenProperties
<1>3. ASSUME NEW i \in DOMAIN a, NEW j \in DOMAIN a, i < j, a[i][1] = a[j][1]
      PROVE  a[i][2] < a[j][2]
  <2>1. i \in 1..Len(s) /\ a[i] = s[i]
    BY <1>1, <1>2, <1>3
  <2>2. CASE j = Len(s) + 1
    <3>1. s[i] \in ToSet(s)
      BY <1>1, <2>1 DEF ToSet
    <3> QED
      BY <1>1, <1>3, <2>1, <2>2, <3>1
  <2>3. CASE j # Len(s) + 1
    <3>1. j \in 1..Len(s) /\ a[j] = s[j]
      BY <1>1, <1>2, <2>3
    <3> QED
      BY <1>1, <1>3, <2>1, <3>1 DEF InOrder
  <2> QED
    BY <2>2, <2>3
<1> QED
  BY <1>3 DEF a, InOrder

LEMMA TailInOrder ==
    ASSUME NEW S, NEW s \in Seq(S), s # <<>>, InOrder(s)
    PROVE  /\ InOrder(Tail(s))
           /\ \A y \in ToSet(Tail(s)) : Head(s)[1] = y[1] => Head(s)[2] < y[2]
<1> DEFINE t == Tail(s)
<1>1. /\ Len(s) \in Nat \ {0} /\ DOMAIN s = 1..Len(s) /\ Head(s) = s[1]
      /\ t \in Seq(S) /\ Len(t) = Len(s) - 1
      /\ \A i \in 1..(Len(s) - 1) : t[i] = s[i + 1]
  BY TailProperties, LenProperties
<1>2. DOMAIN t = 1..(Len(s) - 1)
  BY <1>1, LenProperties
<1> HIDE DEF t
<1>3. ASSUME NEW i \in DOMAIN t, NEW j \in DOMAIN t, i < j, t[i][1] = t[j][1]
      PROVE  t[i][2] < t[j][2]
  <2>1. PICK k \in DOMAIN s, m \in DOMAIN s : k = i + 1 /\ m = j + 1 /\ k < m
    BY <1>1, <1>2, <1>3
  <2>2. t[i] = s[k] /\ t[j] = s[m]
    BY <1>1, <1>2, <2>1
  <2> QED
    BY <1>3, <2>1, <2>2 DEF InOrder
<1>4. ASSUME NEW y \in ToSet(t), Head(s)[1] = y[1]
      PROVE  Head(s)[2] < y[2]
  <2>1. PICK i \in DOMAIN t : y = t[i]
    BY DEF ToSet
  <2>2. PICK k \in DOMAIN s : k = i + 1 /\ 1 < k /\ 1 \in DOMAIN s
    BY <1>1, <1>2
  <2>3. y = s[k]
    BY <1>1, <1>2, <2>1, <2>2
  <2> QED
    BY <1>1, <1>4, <2>2, <2>3 DEF InOrder
<1> QED
  BY <1>3, <1>4 DEF t, InOrder

(* What a thread logged before what it has in hand.                        *)
LEMMA EarlierMessages ==
    ASSUME ControlInv, EachPrintedOnce, NEW l \in Loggers, hand[l] # "none",
           NEW x \in ToSet(printed) \cup Queued, x[1] = l
    PROVE  x[2] < count[l]
<1>1. Message(l) \in InHand
  BY DEF InHand
<1>2. x # Message(l) /\ x \in Accepted
  BY <1>1 DEF EachPrintedOnce
<1>3. PICK k \in Loggers : \E i \in 1..count[k] : x = <<k, i>>
  BY <1>2, AcceptedIs
<1>4. PICK n \in 1..count[k] : x = <<k, n>>
  BY <1>3
<1>5. k = l /\ n # count[l] /\ x[2] = n
  BY <1>2, <1>4 DEF Message
<1>6. count[l] \in Nat
  BY DEF ControlInv, TypeOK
<1> QED
  BY <1>4, <1>5, <1>6

LEMMA OrderRests ==
    ASSUME MessagesInv, UNCHANGED <<messages, hand, printed>>, ~exiting' => ~exiting
    PROVE  PrintedInOrder' /\ (~exiting' => QueueInOrder')
BY DEF MessagesInv, PrintedInOrder, QueueInOrder, InOrder

LEMMA BeginLogInOrder ==
    ASSUME ControlInv, MessagesInv, NEW l \in Loggers, BeginLog(l), count[l] < MaxLogs + 3,
           UNCHANGED <<messages, exiting>>
    PROVE  PrintedInOrder' /\ (~exiting' => QueueInOrder')
<1>1. /\ printed' = printed /\ hand'[l] \notin {"print", "file", "stderr"}
      /\ \A k \in Loggers \ {l} : hand'[k] = hand[k]
  BY BeginLogMoves
<1>2. PrintedInOrder'
  BY <1>1 DEF MessagesInv, PrintedInOrder
<1>3. ASSUME ~exiting'
      PROVE  QueueInOrder'
  <2>1. QueueInOrder
    BY <1>3 DEF MessagesInv
  <2>2. \A k \in Loggers : hand'[k] \in {"print", "file", "stderr"} =>
           hand[k] \in {"print", "file", "stderr"}
    BY <1>1
  <2> QED
    BY <1>1, <2>1, <2>2 DEF QueueInOrder
<1> QED
  BY <1>2, <1>3

(* Who prints by itself before LogEnd has found no queue yet.              *)
LEMMA LogStepInOrder ==
    ASSUME ControlInv, broken = "no", MessagesInv, NEW l \in Loggers, LogStep(l)
    PROVE  PrintedInOrder' /\ (~exiting' => QueueInOrder')
<1> DEFINE m == Message(l)
           M == Messages \cup {Exit}
<1>1. /\ exiting' = exiting /\ hand[l] # "none" /\ m \in Messages
      /\ \A k \in Loggers \ {l} : hand'[k] = hand[k]
  BY LogStepMoves
<1> SUFFICES ASSUME ~exiting
             PROVE  InOrder(printed') /\ QueueInOrder'
  BY <1>1 DEF PrintedInOrder, InOrder
<1>2. InOrder(printed) /\ QueueInOrder /\ ~exit /\ Exit \notin ToSet(messages)
  BY DEF MessagesInv, PrintedInOrder, InOrder, ControlInv, MainFits, LogFits
<1>3. m[1] = l /\ m[2] = count[l] /\ m \in M /\ messages \in Seq(M) /\ printed \in Seq(Messages)
  BY <1>1 DEF Message, ControlInv, TypeOK
<1>4. \A x \in ToSet(printed) \cup ToSet(messages) : x[1] = m[1] => x[2] < m[2]
  BY <1>1, <1>2, <1>3, EarlierMessages DEF MessagesInv, Queued
<1>5. /\ InOrder(messages)
      /\ \A x \in ToSet(printed), y \in ToSet(messages) : x[1] = y[1] => x[2] < y[2]
      /\ \A k \in Loggers : hand[k] \in {"print", "file", "stderr"} =>
            \A y \in ToSet(messages) : y[1] # k
  BY <1>2 DEF QueueInOrder
<1> HIDE DEF m, M
<1>6. CASE /\ UNCHANGED <<messages, printed>>
           /\ hand[l] \in {"log", "queue"} => hand'[l] \in {"log", "queue", "none"}
  <2>1. ASSUME NEW k \in Loggers, hand'[k] \in {"print", "file", "stderr"}
        PROVE  hand[k] \in {"print", "file", "stderr"}
    <3>1. CASE k = l
      BY <1>1, <1>6, <2>1, <3>1 DEF ControlInv, TypeOK
    <3>2. CASE k # l
      BY <1>1, <2>1, <3>2
    <3> QED
      BY <3>1, <3>2
  <2> QED
    BY <1>2, <1>5, <1>6, <2>1 DEF QueueInOrder
<1>9. CASE /\ UNCHANGED <<messages, printed>> /\ hand[l] = "log"
           /\ hand'[l] = IF queue = "there" THEN "queue" ELSE "print"
  <2>1. CASE queue = "there"
    BY <1>6, <1>9, <2>1
  <2>2. CASE queue # "there"
    <3>1. queue # "freed"
      BY <1>2 DEF ControlInv, LogFits
    <3>2. messages = <<>>
      BY <2>2, <3>1 DEF ControlInv, LogFits, TypeOK
    <3>3. ToSet(messages') = {}
      BY <1>9, <3>2, ShortElements
    <3> QED
      BY <1>2, <1>5, <1>9, <3>3 DEF QueueInOrder
  <2> QED
    BY <2>1, <2>2
<1>7. CASE messages' = Append(messages, m) /\ printed' = printed /\ hand'[l] = "none"
  <2>1. InOrder(messages') /\ ToSet(messages') = ToSet(messages) \cup {m}
    BY <1>3, <1>4, <1>5, <1>7, AppendInOrder, AppendElements
  <2>2. ASSUME NEW k \in Loggers, hand'[k] \in {"print", "file", "stderr"},
               NEW y \in ToSet(messages')
        PROVE  y[1] # k
    <3>1. k # l /\ hand[k] \in {"print", "file", "stderr"}
      BY <1>1, <1>7, <2>2
    <3> QED
      BY <1>3, <1>5, <2>1, <2>2, <3>1
  <2>3. \A x \in ToSet(printed'), y \in ToSet(messages') : x[1] = y[1] => x[2] < y[2]
    BY <1>4, <1>5, <1>7, <2>1
  <2> QED
    BY <1>2, <1>7, <2>1, <2>2, <2>3 DEF QueueInOrder
<1>8. CASE /\ printed' = Append(printed, m) /\ messages' = messages /\ hand'[l] = "none"
           /\ hand[l] \in {"file", "stderr"}
  <2>1. m \in Messages
    BY <1>1 DEF m
  <2>2. InOrder(printed') /\ ToSet(printed') = ToSet(printed) \cup {m}
    BY <1>2, <1>3, <1>4, <1>8, <2>1, AppendInOrder, AppendElements
  <2>3. ASSUME NEW x \in ToSet(printed'), NEW y \in ToSet(messages'), x[1] = y[1]
        PROVE  x[2] < y[2]
    <3>1. CASE x \in ToSet(printed)
      BY <1>5, <1>8, <2>3, <3>1
    <3>2. CASE x = m
      BY <1>3, <1>5, <1>8, <2>3, <3>2
    <3> QED
      BY <2>2, <3>1, <3>2
  <2>4. ASSUME NEW k \in Loggers, hand'[k] \in {"print", "file", "stderr"},
               NEW y \in ToSet(messages')
        PROVE  y[1] # k
    <3>1. k # l /\ hand[k] \in {"print", "file", "stderr"}
      BY <1>1, <1>8, <2>4
    <3> QED
      BY <1>5, <1>8, <2>4, <3>1
  <2> QED
    BY <1>5, <1>8, <2>2, <2>3, <2>4 DEF QueueInOrder
<1> QED
  BY <1>2, <1>6, <1>7, <1>8, <1>9, LogStepMoves DEF m

LEMMA LogRunInOrder ==
    ASSUME ControlInv, MessagesInv, LogRun
    PROVE  PrintedInOrder' /\ (~exiting' => QueueInOrder')
<1> DEFINE h == Head(messages)
           M == Messages \cup {Exit}
<1>1. messages # <<>> /\ messages' = Tail(messages) /\ UNCHANGED <<hand, exiting>>
  BY DEF LogRun
<1> SUFFICES ASSUME ~exiting
             PROVE  InOrder(printed') /\ QueueInOrder'
  BY <1>1 DEF PrintedInOrder, InOrder
<1>2. InOrder(printed) /\ QueueInOrder /\ Exit \notin ToSet(messages)
  BY DEF MessagesInv, PrintedInOrder, InOrder, ControlInv, MainFits, LogFits
<1>3. messages \in Seq(M) /\ printed \in Seq(Messages)
  BY DEF ControlInv, TypeOK
<1>4. /\ InOrder(messages)
      /\ \A x \in ToSet(printed), y \in ToSet(messages) : x[1] = y[1] => x[2] < y[2]
      /\ \A k \in Loggers : hand[k] \in {"print", "file", "stderr"} =>
            \A y \in ToSet(messages) : y[1] # k
  BY <1>2 DEF QueueInOrder
<1>5. h \in M /\ ToSet(messages) = {h} \cup ToSet(messages')
  <2> HIDE DEF M
  <2> QED
    BY <1>1, <1>3, TailProperties, HeadTailElements
<1>6. h \in Messages /\ printed' = Append(printed, h)
  BY <1>2, <1>5 DEF LogRun
<1> HIDE DEF h, M
<1>7. InOrder(messages') /\ \A y \in ToSet(messages') : h[1] = y[1] => h[2] < y[2]
  BY <1>1, <1>3, <1>4, TailInOrder DEF h
<1>8. InOrder(printed') /\ ToSet(printed') = ToSet(printed) \cup {h}
  BY <1>2, <1>3, <1>4, <1>5, <1>6, AppendInOrder, AppendElements
<1>9. \A x \in ToSet(printed'), y \in ToSet(messages') : x[1] = y[1] => x[2] < y[2]
  BY <1>4, <1>5, <1>7, <1>8
<1>10. \A k \in Loggers : hand'[k] \in {"print", "file", "stderr"} =>
            \A y \in ToSet(messages') : y[1] # k
  BY <1>1, <1>4, <1>5
<1> QED
  BY <1>7, <1>8, <1>9, <1>10 DEF QueueInOrder

-----------------------------------------------------------------------------
(* 11. The invariants of the specification.                                 *)
LEMMA CountsBelow ==
    ASSUME ControlInv, NEW l \in Loggers
    PROVE  count[l] < MaxLogs + 3
<1>1. count[l] \in Nat /\ CountsFit
  BY DEF ControlInv, TypeOK
<1>2. CASE l \in Users
  <2>1. count[l] <= MaxLogs
    BY <1>1, <1>2 DEF CountsFit
  <2> QED
    BY <1>1, <2>1
<1>3. CASE l \in {"logger", "main"}
  <2>1. count[l] <= 2
    BY <1>1, <1>3 DEF CountsFit
  <2> QED
    BY <1>1, <2>1
<1> QED
  BY <1>2, <1>3 DEF Loggers

(* Failures are only counted.                                              *)
LEMMA FailuresGrow ==
    ASSUME TypeOK, Next
    PROVE  failures \in Nat /\ failures' \in Nat /\ failures' >= failures
<1>1. failures \in Nat
  BY DEF TypeOK
<1>2. failures' = failures \/ Fail
  <2>0. Step
    BY DEF Next
  <2>1. CASE Main
    <3>1. StatsInit => failures' = failures \/ Fail
      BY DEF StatsInit, NoStats, MakeThread
    <3>2. LogInit => failures' = failures \/ Fail
      BY DEF LogInit, SetHandler, OpenFile, MakeQueue, MakeThread
    <3>3. LogEnd \/ StatsEnd => failures' = failures
      BY DEF LogEnd, StatsEnd, BeginLogEnd, EnqueueExit, Join, StopStats, LastStats
    <3> QED
      BY <2>1, <3>1, <3>2, <3>3 DEF Main
  <2>2. CASE LoggerThread
    BY <2>2 DEF LoggerThread, LoggerLogs, LoggerInit, LogRun, LoggerLoop, CloseFile, FreeLogQueue
  <2>3. CASE StatsThread
    BY <2>3 DEF StatsThread, StatsBegins, StatsRun, StatsGoesOn
  <2>4. ASSUME NEW u \in Users, UserLogs(u)
        PROVE  failures' = failures
    BY <2>4 DEF UserLogs
  <2>5. ASSUME NEW l \in Loggers, LogStep(l)
        PROVE  failures' = failures \/ Fail
    BY <2>5 DEF LogStep, HandleMessage, EnqueueMessage, ChooseFile, WriteMessage
  <2>6. CASE MemoryMissing
    BY <2>6 DEF MemoryMissing
  <2> QED
    BY <2>0, <2>1, <2>2, <2>3, <2>4, <2>5, <2>6 DEF Step
<1> QED
  BY <1>1, <1>2 DEF Fail

(* What any step does of the messages.                                     *)
LEMMA StepOfMessages ==
    ASSUME ControlInv, Next
    PROVE  \/ UNCHANGED <<messages, logging>> /\ (~exiting' => ~exiting)
           \/ \E l \in Loggers : BeginLog(l) /\ UNCHANGED <<messages, exiting>>
           \/ \E l \in Loggers : LogStep(l)
           \/ LogRun \/ CloseFile \/ EnqueueExit
<1> DEFINE quiet == UNCHANGED <<messages, logging>> /\ (~exiting' => ~exiting)
           warns == BeginLog("main") /\ UNCHANGED <<messages, exiting>>
<1>0. Step /\ "main" \in Loggers /\ "logger" \in Loggers /\ Users \subseteq Loggers
  BY DEF Next, Loggers
<1>1. CASE StatsInit \/ StatsEnd
  <2>1. UNCHANGED <<messages, logging, exiting>>
    BY <1>1 DEF StatsInit, StatsEnd, NoStats, MakeThread, StopStats, Join, LastStats, queueVars
  <2> QED
    BY <2>1
<1>2. CASE LogInit
  <2>1. CASE SetHandler
    BY <2>1 DEF SetHandler, queueVars
  <2>2. CASE OpenFile
    <3>1. UNCHANGED <<messages, exiting>> /\ (UNCHANGED logging \/ BeginLog("main"))
      BY <2>2 DEF OpenFile, queueVars
    <3> QED
      BY <1>0, <3>1
  <2>3. CASE MakeQueue
    <3>1. UNCHANGED <<messages, exiting>> /\ (UNCHANGED logging \/ BeginLog("main"))
      BY <2>3 DEF MakeQueue
    <3> QED
      BY <1>0, <3>1
  <2>4. CASE MakeThread("logger", "logger", "user", BeginLog("main"))
    <3>1. UNCHANGED <<messages, exiting>> /\ (UNCHANGED logging \/ BeginLog("main"))
      BY <2>4 DEF MakeThread, queueVars
    <3> QED
      BY <1>0, <3>1
  <2> QED
    BY <1>2, <2>1, <2>2, <2>3, <2>4 DEF LogInit
<1>3. CASE LogEnd
  <2>1. CASE BeginLogEnd
    <3>1. UNCHANGED <<messages, logging>> /\ (exiting' = exiting \/ exiting' = TRUE)
      BY <2>1 DEF BeginLogEnd, queueVars
    <3> QED
      BY <3>1
  <2>2. CASE Join("logger", "join", "stop")
    BY <2>2 DEF Join, queueVars
  <2> QED
    BY <1>3, <2>1, <2>2 DEF LogEnd
<1>4. CASE LoggerThread
  <2>1. CASE LoggerLogs
    <3>1. BeginLog("logger") /\ UNCHANGED <<messages, exiting>>
      BY <2>1 DEF LoggerLogs, queueVars
    <3> QED
      BY <1>0, <3>1
  <2>2. CASE LoggerInit \/ LoggerLoop \/ FreeLogQueue
    <3>1. UNCHANGED <<messages, logging, exiting>>
      BY <2>2 DEF LoggerInit, LoggerLoop, FreeLogQueue, queueVars
    <3> QED
      BY <3>1
  <2> QED
    BY <1>4, <2>1, <2>2 DEF LoggerThread
<1>5. CASE StatsThread
  <2>1. UNCHANGED <<messages, logging, exiting>>
    BY <1>5 DEF StatsThread, StatsBegins, StatsRun, StatsGoesOn, queueVars
  <2> QED
    BY <2>1
<1>6. ASSUME NEW u \in Users, UserLogs(u)
      PROVE  u \in Loggers /\ BeginLog(u) /\ UNCHANGED <<messages, exiting>>
  BY <1>0, <1>6 DEF UserLogs, queueVars
<1>7. CASE MemoryMissing
  <2>1. UNCHANGED <<messages, logging, exiting>>
    BY <1>7 DEF MemoryMissing, queueVars
  <2> QED
    BY <2>1
<1> QED
  BY <1>0, <1>1, <1>2, <1>3, <1>4, <1>5, <1>6, <1>7 DEF Step, Main

LEMMA MessagesKept ==
    ASSUME ControlInv, MessagesInv, Next
    PROVE  MessagesInv'
<1>0. EachPrintedOnce /\ RefusedPast /\ DroppedFits /\ broken = "no"
  BY DEF MessagesInv, Next
<1>7. dropped' = dropped => DroppedFits'
  <2>1. failures \in Nat /\ failures' \in Nat /\ failures' >= failures
    BY FailuresGrow DEF ControlInv
  <2> QED
    BY <1>0, <2>1, DroppedRests
<1>1. CASE UNCHANGED <<messages, logging>> /\ (~exiting' => ~exiting)
  <2>1. UNCHANGED <<messages, hand, count, printed, refused, unheard, dropped>>
    BY <1>1 DEF logging
  <2> QED
    BY <1>0, <1>1, <1>7, <2>1, MessagesRest, OrderRests DEF MessagesInv
<1>2. ASSUME NEW l \in Loggers, BeginLog(l), UNCHANGED <<messages, exiting>>
      PROVE  MessagesInv'
  <2>1. count[l] < MaxLogs + 3
    BY CountsBelow
  <2>2. EachPrintedOnce' /\ RefusedPast'
    BY <1>0, <1>2, <2>1, BeginLogOnce
  <2>3. PrintedInOrder' /\ (~exiting' => QueueInOrder')
    BY <1>2, <2>1, BeginLogInOrder
  <2>4. DroppedFits'
    BY <1>2, <1>7 DEF BeginLog
  <2> QED
    BY <2>2, <2>3, <2>4 DEF MessagesInv
<1>3. ASSUME NEW l \in Loggers, LogStep(l)
      PROVE  MessagesInv'
  <2>1. EachPrintedOnce' /\ RefusedPast'
    BY <1>0, <1>3, LogStepOnce
  <2>2. PrintedInOrder' /\ (~exiting' => QueueInOrder')
    BY <1>0, <1>3, LogStepInOrder
  <2>3. DroppedFits'
    BY <1>0, <1>3, LogStepDrops
  <2> QED
    BY <2>1, <2>2, <2>3 DEF MessagesInv
<1>4. CASE LogRun
  <2>1. EachPrintedOnce' /\ RefusedPast'
    BY <1>0, <1>4, LogRunOnce
  <2>2. PrintedInOrder' /\ (~exiting' => QueueInOrder')
    BY <1>4, LogRunInOrder
  <2>3. DroppedFits'
    BY <1>4, <1>7 DEF LogRun
  <2> QED
    BY <2>1, <2>2, <2>3 DEF MessagesInv
<1>5. CASE CloseFile
  <2>1. EachPrintedOnce' /\ RefusedPast'
    BY <1>0, <1>5, CloseFileOnce
  <2>2. exiting'
    BY <1>5 DEF CloseFile, ControlInv, LogFits, MainFits
  <2>3. DroppedFits'
    BY <1>5, <1>7 DEF CloseFile
  <2> QED
    BY <2>1, <2>2, <2>3 DEF MessagesInv, PrintedInOrder
<1>6. CASE EnqueueExit
  <2>1. EachPrintedOnce' /\ RefusedPast'
    BY <1>0, <1>6, EnqueueExitOnce
  <2>2. exiting'
    BY <1>6 DEF EnqueueExit, GoTo, ControlInv, MainFits
  <2>3. DroppedFits'
    BY <1>6, <1>7 DEF EnqueueExit, logging
  <2> QED
    BY <2>1, <2>2, <2>3 DEF MessagesInv, PrintedInOrder
<1> QED
  BY <1>1, <1>2, <1>3, <1>4, <1>5, <1>6, StepOfMessages

LEMMA MessagesStart ==
    ASSUME Init
    PROVE  MessagesInv
<1>1. /\ printed = <<>> /\ messages = <<>> /\ unheard = {} /\ refused = {}
      /\ dropped = {} /\ failures = 0
      /\ \A l \in Loggers : count[l] = 0 /\ hand[l] = "none"
  BY DEF Init
<1>2. ToSet(printed) = {} /\ ToSet(messages) = {} /\ Queued = {} /\ InHand = {}
  BY <1>1, ShortElements DEF Queued, InHand
<1>3. \A m : m \notin Accepted
  <2>1. \A l \in Loggers : 1..count[l] = {}
    BY <1>1
  <2> QED
    BY <2>1, AcceptedIs
<1>4. Accepted = {}
  BY <1>3
<1>5. IsInjective(printed) /\ IsInjective(messages) /\ InOrder(printed) /\ InOrder(messages)
  BY <1>1 DEF IsInjective, InOrder
<1>6. EachPrintedOnce
  BY <1>1, <1>2, <1>4, <1>5 DEF EachPrintedOnce
<1>7. RefusedPast
  BY <1>1 DEF RefusedPast
<1>8. PrintedInOrder /\ QueueInOrder
  BY <1>2, <1>5 DEF PrintedInOrder, QueueInOrder, InOrder
<1>9. DroppedFits
  BY <1>1, FS_EmptySet DEF DroppedFits, DroppedForFailures
<1> QED
  BY <1>6, <1>7, <1>8, <1>9 DEF MessagesInv

Aio4cInv == ControlInv /\ MessagesInv

LEMMA Aio4cInvariant ==
    /\ Init => Aio4cInv
    /\ Aio4cInv /\ [Next]_vars => Aio4cInv'
    /\ Aio4cInv => PrintedOnceInOrder /\ NothingQueuedAtEnd /\ LateLogIsSafe
<1>1. Init => Aio4cInv
  BY ControlStarts, MessagesStart DEF Aio4cInv
<1>2. ASSUME Aio4cInv, [Next]_vars
      PROVE  Aio4cInv'
  <2>1. CASE Next
    <3>1. ControlInv /\ MessagesInv /\ IsInjective(messages)
      BY <1>2 DEF Aio4cInv, MessagesInv, EachPrintedOnce
    <3> QED
      BY <2>1, <3>1, ControlKept, MessagesKept DEF Aio4cInv
  <2>2. CASE UNCHANGED vars
    <3>1. ControlInv'
      BY <1>2, <2>2, ControlStutters DEF Aio4cInv
    <3>2. UNCHANGED <<messages, hand, count, printed, refused, unheard, dropped, exiting>>
      BY <2>2 DEF vars, queueVars, logging
    <3>4. DroppedFits'
      BY <1>2, <2>2 DEF Aio4cInv, MessagesInv, DroppedFits, DroppedForFailures, vars, logging
    <3>3. MessagesInv'
      BY <1>2, <3>2, <3>4, MessagesRest, OrderRests DEF Aio4cInv, MessagesInv
    <3> QED
      BY <3>1, <3>3 DEF Aio4cInv
  <2> QED
    BY <1>2, <2>1, <2>2
<1>3. ASSUME Aio4cInv
      PROVE  PrintedOnceInOrder /\ NothingQueuedAtEnd /\ LateLogIsSafe
  <2>1. PrintedOnceInOrder /\ LateLogIsSafe
    BY <1>3 DEF Aio4cInv, ControlInv, MessagesInv, DroppedFits, PrintedOnceInOrder
  <2>2. ASSUME mainAt \in Ended, at["logger"] # "absent"
        PROVE  messages = <<>>
    <3>1. LoggerFits /\ MainFits /\ LogFits
      BY <1>3 DEF Aio4cInv, ControlInv
    <3>2. owner["logger"] \in {"none", "done"}
      BY <2>2, <3>1 DEF MainFits
    <3>3. at["logger"] = "ended"
      BY <2>2, <3>1, <3>2 DEF LoggerFits
    <3> QED
      BY <3>1, <3>3 DEF LogFits
  <2> QED
    BY <2>1, <2>2 DEF NothingQueuedAtEnd
<1> QED
  BY <1>1, <1>2, <1>3

(* Every message a handler accepted is in one place: in the hand of its     *)
(* thread, queued, printed, written to a closed stderr or dropped; none is  *)
(* printed twice, no more are dropped than allocations failed, and before   *)
(* LogEnd a thread's messages come out in order, however many threads log   *)
(* and whenever the logger's thread runs (_LogDefaultHandler, _LogRun,      *)
(* _LogExit).                                                               *)
THEOREM MessagesPrintedOnceInOrder == Spec => []PrintedOnceInOrder
<1>1. Spec => []Aio4cInv
  BY Aio4cInvariant, PTL DEF Spec
<1>2. Aio4cInv => PrintedOnceInOrder
  BY Aio4cInvariant
<1> QED
  BY <1>1, <1>2, PTL

(* LogEnd comes back with an empty queue if the logger's thread ever was    *)
(* (LogEnd, _LogExit).                                                      *)
THEOREM QueuePrintedByLogEnd == Spec => []NothingQueuedAtEnd
<1>1. Spec => []Aio4cInv
  BY Aio4cInvariant, PTL DEF Spec
<1>2. Aio4cInv => NothingQueuedAtEnd
  BY Aio4cInvariant
<1> QED
  BY <1>1, <1>2, PTL

(* Only a thread that was in Log while LogEnd ran can find the queue freed  *)
(* or the file closed (Log, FreeQueue).                                     *)
THEOREM LateLogHarmless == Spec => []LateLogIsSafe
<1>1. Spec => []Aio4cInv
  BY Aio4cInvariant, PTL DEF Spec
<1>2. Aio4cInv => LateLogIsSafe
  BY Aio4cInvariant
<1> QED
  BY <1>1, <1>2, PTL

-----------------------------------------------------------------------------
(* 12. The library's own threads are used by Thread's protocol.             *)
LEMMA StepsDrive ==
    ASSUME Next
    PROVE  ThreadNext \/ UNCHANGED threadVars
<1> DEFINE Drives(t) == OwnerStep(t) \/ RunStep(t)
<1>0. Step /\ "logger" \in Threads /\ "stats" \in Threads
  BY TwoThreads DEF Next
<1>1. CASE StatsInit
  <2>1. Drives("stats") \/ UNCHANGED threadVars
    BY <1>1 DEF StatsInit, NoStats, MakeThread, OwnerStep
  <2> QED
    BY <1>0, <2>1 DEF ThreadNext
<1>2. CASE LogInit
  <2>1. Drives("logger") \/ UNCHANGED threadVars
    BY <1>2 DEF LogInit, SetHandler, OpenFile, MakeQueue, MakeThread, OwnerStep
  <2> QED
    BY <1>0, <2>1 DEF ThreadNext
<1>3. CASE LogEnd
  <2>1. Drives("logger") \/ UNCHANGED threadVars
    BY <1>3 DEF LogEnd, BeginLogEnd, EnqueueExit, Join, OwnerStep
  <2> QED
    BY <1>0, <2>1 DEF ThreadNext
<1>4. CASE StatsEnd
  <2>1. Drives("stats") \/ UNCHANGED threadVars
    BY <1>4 DEF StatsEnd, StopStats, Join, LastStats, OwnerStep
  <2> QED
    BY <1>0, <2>1 DEF ThreadNext
<1>5. CASE LoggerThread
  <2>1. Drives("logger") \/ UNCHANGED threadVars
    BY <1>5 DEF LoggerThread, LoggerLogs, LoggerInit, LogRun, LoggerLoop, CloseFile, FreeLogQueue,
                RunStep
  <2> QED
    BY <1>0, <2>1 DEF ThreadNext
<1>6. CASE StatsThread
  <2>1. Drives("stats") \/ UNCHANGED threadVars
    BY <1>6 DEF StatsThread, StatsBegins, StatsRun, StatsGoesOn, RunStep
  <2> QED
    BY <1>0, <2>1 DEF ThreadNext
<1>7. ASSUME NEW u \in Users, UserLogs(u)
      PROVE  UNCHANGED threadVars
  BY <1>7 DEF UserLogs
<1>8. ASSUME NEW l \in Loggers, LogStep(l)
      PROVE  UNCHANGED threadVars
  BY <1>8 DEF LogStep
<1>9. CASE MemoryMissing
  BY <1>9 DEF MemoryMissing
<1> QED
  BY <1>0, <1>1, <1>2, <1>3, <1>4, <1>5, <1>6, <1>7, <1>8, <1>9 DEF Step, Main

(* Log.c and stats.c create, start, stop and join their threads by the      *)
(* protocol of thread.c.                                                    *)
THEOREM Aio4cImplementsThread == Spec => ThreadSpec
<1>1. Init => ThreadInit
  BY DEF Init
<1>2. [Next]_vars => [ThreadNext]_threadVars
  BY StepsDrive DEF vars
<1> QED
  BY <1>1, <1>2, PTL DEF Spec, ThreadSpec
=============================================================================
