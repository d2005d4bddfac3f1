------------------------------- MODULE Aio4c -------------------------------
(***************************************************************************)
(* The library's own threads, from Aio4cInit to Aio4cEnd (src/src/aio4c.c):*)
(* the one that writes statistics (stats.c) and the one that prints the    *)
(* messages the others log (log.c).  Threads of the user log at any time,  *)
(* before the logger is there and after it is gone included.               *)
(*                                                                         *)
(* Only messages that pass the level test are here, and no handler of the  *)
(* user's own (logger->custom), which has neither queue nor thread.  What  *)
(* the probes add up is left out.                                          *)
(*                                                                         *)
(* The queue is the FIFO that module Queue specifies.  Its use once freed, *)
(* and that of the file once closed, are undefined: "broken" says who did, *)
(* and nothing moves any more.  stderr is never freed: what is written to  *)
(* it once it is closed goes nowhere.  So is the use of memory nobody got: *)
(* then "broken" is "memory".                                              *)
(***************************************************************************)
EXTENDS Thread, Sequences, SequencesExt

CONSTANTS
    Users,        \* threads that log
    MaxLogs,      \* bound: messages each of them logs
    MaxFailures   \* bound: allocations and system calls that fail

Loggers == Users \cup {"logger", "main"}

ASSUME Aio4cAssumption ==
    /\ IsFiniteSet(Users)
    /\ Users \cap {"logger", "main", "memory", "no"} = {}
    /\ MaxLogs \in Nat
    /\ MaxFailures \in Nat
    /\ Threads = {"logger", "stats"}

VARIABLES
    \* the options
    interval,   \* AIO4C_STATS_INTERVAL is not 0
    periodic,   \* AIO4C_STATS_ENABLE_PERIODIC_OUTPUT
    logFile,    \* AIO4C_LOG_FILE is set
    \* the main thread
    mainAt,     \* where it is between Aio4cInit and Aio4cEnd
    failures,   \* what failed so far
    \* the logger, and what it uses
    handler,    \* logger->handler is set
    file,       \* logger->file: "none", "file" or "stderr"
    openFiles,  \* which of "file" and "stderr" are open
    queue,      \* logger->queue: "none", "there" or "freed"
    messages,   \* what is in it
    exit,       \* its exit flag
    exiting,    \* logger->exiting
    \* the threads that log
    hand,       \* where each is in Log with its last message
    count,      \* messages each has logged
    \* history
    printed,    \* messages printed, in order
    refused,    \* messages dropped as there was no handler
    unheard,    \* messages written to stderr after it was closed
    dropped,    \* messages for which there was no memory
    lostStats,  \* statistics were
    since,      \* whether LogEnd had come back when a thread entered Log
    broken      \* who used the queue once freed, or the file once closed, or "memory"

options == <<interval, periodic, logFile>>
files == <<file, openFiles>>
queueVars == <<queue, messages, exit>>
logging == <<hand, count, printed, refused, unheard, dropped, since>>
vars == <<threadVars, options, mainAt, failures, handler, files, queueVars, exiting, logging,
          lostStats, broken>>

Messages == Loggers \X (1 .. MaxLogs + 3)
Exit == <<"EXIT", 0>>
Ended == {"stop", "join stats", "last stats", "done"}

TypeOK ==
    /\ ThreadTypeOK
    /\ {interval, periodic, logFile, handler, exit, exiting, lostStats} \subseteq BOOLEAN
    /\ mainAt \in {"stats", "handler", "file", "queue", "logger", "user", "exit", "join"} \cup Ended
    /\ failures \in 0 .. MaxFailures
    /\ file \in {"none", "file", "stderr"}
    /\ openFiles \subseteq {"file", "stderr"}
    /\ queue \in {"none", "there", "freed"}
    /\ messages \in Seq(Messages \cup {Exit})
    /\ hand \in [Loggers -> {"none", "log", "queue", "print", "file", "stderr"}]
    /\ count \in [Loggers -> 0 .. MaxLogs + 3]
    /\ printed \in Seq(Messages)
    /\ refused \cup unheard \cup dropped \subseteq Messages
    /\ since \in [Loggers -> BOOLEAN]
    /\ broken \in Loggers \cup {"memory", "no"}

\* ThreadMain has run: Aio4cInit goes on with StatsInit.
Init ==
    /\ ThreadInit
    /\ interval \in BOOLEAN
    /\ periodic \in BOOLEAN
    /\ logFile \in BOOLEAN
    /\ mainAt = "stats"
    /\ failures = 0
    /\ handler = FALSE
    /\ file = "none"
    /\ openFiles = {"stderr"}
    /\ queue = "none"
    /\ messages = <<>>
    /\ exit = FALSE
    /\ exiting = FALSE
    /\ hand = [l \in Loggers |-> "none"]
    /\ count = [l \in Loggers |-> 0]
    /\ printed = <<>>
    /\ refused = {}
    /\ unheard = {}
    /\ dropped = {}
    /\ lostStats = FALSE
    /\ since = [l \in Loggers |-> FALSE]
    /\ broken = "no"

-----------------------------------------------------------------------------
(* Log, by any thread                                                       *)
Message(l) == <<l, count[l]>>

MoveHand(l, place) == hand' = [hand EXCEPT ![l] = place]

Fail ==
    /\ failures < MaxFailures
    /\ failures' = failures + 1

\* Nothing without a handler; else the message is formatted.
BeginLog(l) ==
    /\ hand[l] = "none"
    /\ count' = [count EXCEPT ![l] = @ + 1]
    /\ since' = [since EXCEPT ![l] = mainAt \in Ended]
    /\ IF handler
       THEN MoveHand(l, "log") /\ UNCHANGED refused
       ELSE refused' = refused \cup {<<l, count'[l]>>} /\ UNCHANGED hand
    /\ UNCHANGED <<printed, unheard, dropped>>

HandleTrusting(l) ==
    /\ hand[l] = "log"
    /\ \/ /\ MoveHand(l, IF queue # "none" THEN "queue" ELSE "print")
          /\ UNCHANGED <<dropped, failures>>
       \/ /\ Fail
          /\ MoveHand(l, "none")
          /\ dropped' = dropped \cup {Message(l)}
    /\ UNCHANGED <<count, printed, refused, unheard, since, messages, broken>>

\* _LogDefaultHandler (or LogBuffer before it) has no memory for the message,
\* which is forgotten; or it looks for the queue, ...
HandleMessage(l) ==
    /\ hand[l] = "log"
    /\ \/ /\ MoveHand(l, IF queue = "there" THEN "queue" ELSE "print")
          /\ UNCHANGED <<dropped, failures>>
       \/ /\ Fail
          /\ MoveHand(l, "none")
          /\ dropped' = dropped \cup {Message(l)}
    /\ UNCHANGED <<count, printed, refused, unheard, since, messages, broken>>

EnqueueAndPrint(l) ==
    /\ hand[l] = "queue"
    /\ queue = "there"
    /\ MoveHand(l, "print")
    /\ messages' = IF exit THEN messages ELSE Append(messages, Message(l))
    /\ UNCHANGED <<count, printed, refused, unheard, dropped, since, failures, broken>>

\* ... which takes the message unless it is exiting.  It may be gone.
EnqueueMessage(l) ==
    /\ hand[l] = "queue"
    /\ IF queue = "freed"
       THEN broken' = l /\ UNCHANGED <<hand, messages>>
       ELSE /\ MoveHand(l, IF exit THEN "print" ELSE "none")
            /\ messages' = IF exit THEN messages ELSE Append(messages, Message(l))
            /\ UNCHANGED broken
    /\ UNCHANGED <<count, printed, refused, unheard, dropped, since, failures>>

\* _LogPrintMessage by the thread itself: where to, ...
Destination == IF ~exiting /\ file # "none" THEN file ELSE "stderr"

ChooseFile(l) ==
    /\ hand[l] = "print"
    /\ MoveHand(l, Destination)
    /\ UNCHANGED <<count, printed, refused, unheard, dropped, since, failures, messages, broken>>

\* ... then fprintf and fflush.
WriteMessage(l) ==
    /\ hand[l] \in {"file", "stderr"}
    /\ IF hand[l] = "file" /\ "file" \notin openFiles
       THEN broken' = l /\ UNCHANGED <<hand, printed, unheard>>
       ELSE /\ MoveHand(l, "none")
            /\ IF hand[l] \in openFiles
               THEN printed' = Append(printed, Message(l)) /\ UNCHANGED unheard
               ELSE unheard' = unheard \cup {Message(l)} /\ UNCHANGED printed
            /\ UNCHANGED broken
    /\ UNCHANGED <<count, refused, dropped, since, failures, messages>>

\* A thread in Log goes on.
LogStep(l) ==
    /\ HandleMessage(l) \/ EnqueueMessage(l) \/ ChooseFile(l) \/ WriteMessage(l)
    /\ UNCHANGED <<threadVars, options, mainAt, handler, files, queue, exit, exiting, lostStats>>

\* The user's threads log when they like.
UserLogs(u) ==
    /\ count[u] < MaxLogs
    /\ BeginLog(u)
    /\ UNCHANGED <<threadVars, options, mainAt, failures, handler, files, queueVars, exiting,
                   lostStats, broken>>

-----------------------------------------------------------------------------
(* Aio4cInit: StatsInit, then LogInit                                       *)

GoTo(here, next) == mainAt = here /\ mainAt' = next

\* NewThread and ThreadStart; what the owner says of a failure.
MakeThread(t, here, next, Warn) ==
    /\ mainAt = here
    /\ \/ NewThread(t) /\ UNCHANGED <<mainAt, failures, logging>>
       \/ ThreadStart(t) /\ UNCHANGED <<mainAt, failures, logging>>
       \/ ThreadStarted(t) /\ mainAt' = next /\ UNCHANGED <<failures, logging>>
       \/ ThreadStartFails(t) /\ Fail /\ Warn /\ UNCHANGED mainAt
       \/ FreeUnstarted(t) /\ mainAt' = next /\ UNCHANGED <<failures, logging>>
       \/ /\ owner[t] = "none"
          /\ Fail \/ (~SlotLeft /\ UNCHANGED failures)
          /\ Warn
          /\ mainAt' = next
          /\ UNCHANGED threadVars
    /\ UNCHANGED <<options, handler, files, queueVars, exiting, lostStats, broken>>

NoStats ==
    /\ ~interval
    /\ GoTo("stats", "handler")
    /\ UNCHANGED <<threadVars, options, failures, handler, files, queueVars, exiting, logging,
                   lostStats, broken>>

StatsInit == NoStats \/ (interval /\ MakeThread("stats", "stats", "handler", UNCHANGED logging))

SetHandler ==
    /\ GoTo("handler", "file")
    /\ handler' = TRUE
    /\ UNCHANGED <<threadVars, options, failures, files, queueVars, exiting, logging, lostStats,
                   broken>>

\* The file of the options, or stderr, with a warning when it cannot be opened.
OpenFile ==
    /\ GoTo("file", "queue")
    /\ \/ /\ logFile
          /\ file' = "file"
          /\ openFiles' = openFiles \cup {"file"}
          /\ UNCHANGED <<failures, logging>>
       \/ /\ file' = "stderr"
          /\ IF logFile THEN Fail /\ BeginLog("main") ELSE UNCHANGED <<failures, logging>>
          /\ UNCHANGED openFiles
    /\ UNCHANGED <<threadVars, options, handler, queueVars, exiting, lostStats, broken>>

MakeQueue ==
    /\ \/ /\ GoTo("queue", "logger")
          /\ queue' = "there"
          /\ UNCHANGED <<failures, logging>>
       \/ /\ GoTo("queue", "user")
          /\ Fail
          /\ BeginLog("main")
          /\ UNCHANGED queue
    /\ UNCHANGED <<threadVars, options, handler, files, messages, exit, exiting, lostStats, broken>>

LogInit ==
    SetHandler \/ OpenFile \/ MakeQueue \/ MakeThread("logger", "logger", "user", BeginLog("main"))

-----------------------------------------------------------------------------
(* Aio4cEnd: LogEnd, then StatsEnd                                          *)

BeginLogEnd ==
    /\ IF queue = "none"
       THEN GoTo("user", "stop") /\ UNCHANGED exiting
       ELSE GoTo("user", "exit") /\ exiting' = TRUE
    /\ UNCHANGED <<threadVars, options, failures, handler, files, queueVars, logging, lostStats,
                   broken>>

FlagExitOnly ==
    /\ GoTo("exit", "join")
    /\ exit' = TRUE
    /\ UNCHANGED <<threadVars, options, failures, handler, files, queue, messages, exiting, logging,
                   lostStats, broken>>

EnqueueExit ==
    /\ GoTo("exit", "join")
    /\ exit' = TRUE
    /\ messages' = Append(messages, Exit)
    /\ UNCHANGED <<threadVars, options, failures, handler, files, queue, exiting, logging, lostStats,
                   broken>>

JoinNobody(t, here, next) ==
    /\ GoTo(here, next)
    /\ UNCHANGED <<threadVars, options, failures, handler, files, queueVars, exiting, logging,
                   lostStats, broken>>

\* ThreadJoin, which has nothing to do without a thread.
Join(t, here, next) ==
    /\ mainAt = here
    /\ \/ ThreadJoin(t) /\ mainAt' = IF owner'[t] = "done" THEN next ELSE mainAt
       \/ ThreadJoined(t) /\ mainAt' = next
       \/ owner[t] \in {"none", "done"} /\ mainAt' = next /\ UNCHANGED threadVars
    /\ UNCHANGED <<options, failures, handler, files, queueVars, exiting, logging, lostStats, broken>>

StopStats ==
    /\ GoTo("stop", "join stats")
    /\ IF owner["stats"] = "started" THEN ThreadStop("stats") ELSE UNCHANGED threadVars
    /\ UNCHANGED <<options, failures, handler, files, queueVars, exiting, logging, lostStats, broken>>

\* _PrintStats, on stderr
PrintStats == lostStats' = (lostStats \/ (periodic /\ "stderr" \notin openFiles))

LastStats ==
    /\ GoTo("last stats", "done")
    /\ PrintStats
    /\ UNCHANGED <<threadVars, options, failures, handler, files, queueVars, exiting, logging, broken>>

LogEnd == BeginLogEnd \/ EnqueueExit \/ Join("logger", "join", "stop")
StatsEnd == StopStats \/ Join("stats", "join stats", "last stats") \/ LastStats

\* The main thread, between two messages of its own.
Main == hand["main"] = "none" /\ (StatsInit \/ LogInit \/ LogEnd \/ StatsEnd)

-----------------------------------------------------------------------------
(* The logger's thread: _LogInit, _LogRun, _LogExit                         *)

\* It logs once from its initialization, once from its exit callback.
LoggerLogs ==
    /\ \/ at["logger"] = "init" /\ count["logger"] = 0
       \/ at["logger"] = "exit" /\ count["logger"] = 1
    /\ BeginLog("logger")
    /\ UNCHANGED <<threadVars, options, mainAt, failures, handler, files, queueVars, exiting,
                   lostStats, broken>>

HasLogged(n) == count["logger"] = n /\ hand["logger"] = "none"

LoggerInit ==
    /\ BeginInit("logger") \/ (HasLogged(1) /\ EndInit("logger", TRUE))
    /\ UNCHANGED <<options, mainAt, failures, handler, files, queueVars, exiting, logging, lostStats,
                   broken>>

\* Dequeue, waiting; a message is printed, EXIT ends the routine.
LogRun ==
    /\ at["logger"] = "run"
    /\ messages # <<>>
    /\ messages' = Tail(messages)
    /\ IF Head(messages) = Exit
       THEN RoutineReturns("logger", FALSE) /\ UNCHANGED printed
       ELSE printed' = Append(printed, Head(messages)) /\ UNCHANGED threadVars
    /\ UNCHANGED <<options, mainAt, failures, handler, files, queue, exit, exiting, hand, count,
                   refused, unheard, dropped, since, lostStats, broken>>

LoggerLoop ==
    /\ LoopStep("logger")
    /\ UNCHANGED <<options, mainAt, failures, handler, files, queueVars, exiting, logging, lostStats,
                   broken>>

\* _LogExit empties the queue, which takes nothing more, and closes the file.
CloseFile ==
    /\ at["logger"] = "exit"
    /\ HasLogged(2)
    /\ file # "none"
    /\ printed' = printed \o messages
    /\ messages' = <<>>
    /\ openFiles' = openFiles \ {file}
    /\ file' = "none"
    /\ UNCHANGED <<threadVars, options, mainAt, failures, handler, queue, exit, exiting, hand, count,
                   refused, unheard, dropped, since, lostStats, broken>>

\* Then it frees the queue and resets the pointer; the thread is over.
FreeLogQueue ==
    /\ at["logger"] = "exit"
    /\ HasLogged(2)
    /\ file = "none"
    /\ queue' = "freed"
    /\ EndCleanup("logger")
    /\ UNCHANGED <<options, mainAt, failures, handler, files, messages, exit, exiting, logging,
                   lostStats, broken>>

LoggerThread ==
    LoggerLogs \/ LoggerInit \/ LogRun \/ LoggerLoop \/ CloseFile \/ FreeLogQueue

-----------------------------------------------------------------------------
(* The thread of the statistics                                             *)

\* _statsInit, which fails with its file: its warning has no handler yet.
StatsBegins ==
    /\ \/ BeginInit("stats") /\ UNCHANGED failures
       \/ EndInit("stats", TRUE) /\ UNCHANGED failures
       \/ EndInit("stats", FALSE) /\ Fail
    /\ UNCHANGED <<options, mainAt, handler, files, queueVars, exiting, logging, lostStats, broken>>

\* _statsRun samples, writes, sleeps, and asks for more.
StatsRun ==
    /\ RoutineReturns("stats", TRUE)
    /\ PrintStats
    /\ UNCHANGED <<options, mainAt, failures, handler, files, queueVars, exiting, logging, broken>>

StatsGoesOn ==
    /\ LoopStep("stats") \/ EndCleanup("stats")
    /\ UNCHANGED <<options, mainAt, failures, handler, files, queueVars, exiting, logging, lostStats,
                   broken>>

StatsThread == StatsBegins \/ StatsRun \/ StatsGoesOn

-----------------------------------------------------------------------------
\* Memory that is used without a look at whether it was got: the message of
\* Log, the node of _Enqueue, for EXIT too, and the item of _LogRun.
MemoryMissing ==
    /\ Fail
    /\ \/ \E l \in Loggers : \/ hand[l] = "log"
                            \/ (hand[l] = "queue" /\ queue = "there" /\ ~exit)
       \/ mainAt = "exit"
       \/ at["logger"] = "run"
    /\ broken' = "memory"
    /\ UNCHANGED <<threadVars, options, mainAt, handler, files, queueVars, exiting, logging, lostStats>>

Step ==
    \/ Main \/ LoggerThread \/ StatsThread
    \/ \E u \in Users : UserLogs(u)
    \/ \E l \in Loggers : LogStep(l)
    \/ MemoryMissing

Next == broken = "no" /\ Step

Spec == Init /\ [][Next]_vars

\* Every thread is scheduled, and main, once it has begun to end, goes on.
\* Nobody has to log, and nothing to fail.
FairSpec ==
    /\ Spec
    /\ WF_vars(broken = "no" /\ LoggerThread)
    /\ WF_vars(broken = "no" /\ StatsThread)
    /\ WF_vars(broken = "no" /\ Main /\ mainAt # "user" /\ failures' = failures)
    /\ \A l \in Loggers : WF_vars(broken = "no" /\ LogStep(l))

-----------------------------------------------------------------------------
(* Properties.                                                              *)

Queued == ToSet(messages) \ {Exit}
InHand == {Message(l) : l \in {m \in Loggers : hand[m] # "none"}}
Accepted == (UNION {{<<l, n>> : n \in 1 .. count[l]} : l \in Loggers}) \ refused

\* A message is in the hand of the thread that logs it, in the queue, printed,
\* written to a closed stderr, or dropped for want of memory: never in two of
\* these or printed twice (_LogDefaultHandler, _LogRun).
EachPrintedOnce ==
    /\ ToSet(printed) \cup Queued \cup InHand \cup unheard \cup dropped = Accepted
    /\ IsInjective(printed) /\ IsInjective(messages)
    /\ ToSet(printed) \cap (Queued \cup InHand \cup unheard \cup dropped) = {}
    /\ Queued \cap (InHand \cup unheard \cup dropped) = {}
    /\ InHand \cap (unheard \cup dropped) = {}
    /\ unheard \cap dropped = {}

\* No more messages are dropped than allocations failed (log.c says nothing
\* of them).
DroppedForFailures == Cardinality(dropped) <= failures

\* Before LogEnd, the messages of a thread are printed in the order it logged
\* them, whether by itself or by the logger (LogInit creates the queue while
\* others may log).
PrintedInOrder ==
    ~exiting =>
        \A i, j \in DOMAIN printed :
            i < j /\ printed[i][1] = printed[j][1] => printed[i][2] < printed[j][2]

\* What is logged comes out once, and in order (Log, _LogPrintMessage), but for
\* what a failure each drops; EXIT, which is no message, is never printed (the
\* types).
PrintedOnceInOrder == TypeOK /\ EachPrintedOnce /\ DroppedForFailures /\ PrintedInOrder

\* LogEnd comes back once all that was queued is printed, but when the
\* logger's thread could not be started: nobody ever prints that.
NothingQueuedAtEnd ==
    mainAt \in Ended /\ at["logger"] # "absent" => messages = <<>>

\* A thread that enters Log once LogEnd has come back uses neither the queue
\* nor the file: only one that was in Log meanwhile may find them gone
\* (_LogExit, FreeQueue).
LateLogIsSafe == broken \in Loggers => ~since[broken]

\* Aio4cEnd comes back, but when the statistics' thread overwrote ThreadStop's
\* write to running.
EndReturns ==
    mainAt = "exit" ~> mainAt = "done" \/ broken # "no" \/ overwritten # {}

\* thread.h:246, of ThreadStop: "This function requires a thread to exits its
\* infinite loop".  A thread that overwrites the write to running does not.
StopObeyed == mainAt = "join stats" ~> mainAt = "done" \/ broken # "no"

\* What the usage says of -Se: "enable periodic statistics output to stderr".
StatsReachStderr == ~lostStats
=============================================================================
