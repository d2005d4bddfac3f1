------------------------------- MODULE Server -------------------------------
(***************************************************************************)
(* A server with one pipe: the acceptor, reader, worker and writer threads *)
(* (acceptor.c, reader.c, worker.c, writer.c) and the life of the          *)
(* connections they share (connection.c, event.c), from accept(2) to       *)
(* FreeConnection, shutdown included.                                      *)
(*                                                                         *)
(* A thread runs its routine; whatever the routine still has to do before  *)
(* it looks at its queue again is its "agenda", a sequence of steps, each  *)
(* of which is one access to what the threads share.  A step's own calls   *)
(* go in front of the rest, as on a stack.                                 *)
(*                                                                         *)
(* The queues are the FIFOs that module Queue specifies, the reader's with *)
(* its emptied flag, the selector is reduced to its wake-up pipe and the   *)
(* set of registered sockets.  Only the user's READ handler acts on the    *)
(* connection; INIT, CONNECTED, WRITE, CLOSE and FREE handlers do not.     *)
(*                                                                         *)
(* What the code does after a connection is used once freed, or after a    *)
(* handler list is changed while another thread runs through it, is        *)
(* undefined: "undefined" says so, and nothing moves any more.             *)
(***************************************************************************)
EXTENDS Integers, Sequences, SequencesExt, FiniteSets, FiniteSetsExt, Removal

CONSTANTS
    Conns,         \* connections the peers open
    NoConn,        \* a step that is about no connection
    NoThread,      \* nobody holds a lock
    Reactions,     \* what the user's READ handler may do
    MaxData,       \* bound: messages a peer sends
    PipeSize,      \* bound: bytes the wake-up pipe holds before it is full
    OtherTraffic   \* whether the reader also serves other sockets, which
                   \* may wake it at any time

ASSUME ServerAssumption ==
    /\ IsFiniteSet(Conns)
    /\ NoConn \notin Conns
    /\ Reactions \subseteq {"none", "write", "close", "finish"}
    /\ MaxData \in Nat
    /\ PipeSize \in Nat \ {0}
    /\ OtherTraffic \in BOOLEAN

Pipe == {"reader", "worker", "writer"}
Threads == Pipe \cup {"acceptor"}

ASSUME NoThreadAssumption == NoThread \notin Threads

VARIABLES
    \* the connections
    state,        \* connection->state
    holder,       \* thread holding connection->stateLock, or NoThread
    handlers,     \* system handlers of CLOSE, each called once, in order
    hooks,        \* other system handlers: "pending", "inbound", "outbound"
    managedBy,    \* connection->managedBy
    closedBy,     \* connection->closedBy (the client's is always set)
    freed,        \* connections FreeConnection was called for
    \* the threads
    phase,        \* where each thread is in its loop
    agenda,       \* what each thread does before it is back in its loop
    queue,        \* the queue of each thread of the pipe
    exiting,      \* queue->exit of each
    emptied,      \* queue->emptied of the reader's queue
    accepted,     \* the acceptor's queue
    pipe,         \* bytes in the reader's wake-up pipe
    registered,   \* connections the reader's selector has a key for
    load,         \* reader->load
    \* the peers
    inbox,        \* messages received and not read
    sent,         \* messages sent so far
    eof,          \* the peer closed or reset the connection
    \* history, read by the properties only
    told,         \* how often each owner was told of the close
    undefined     \* "no", or what made the rest undefined

ownership == <<managedBy, closedBy, freed>>
connection == <<state, holder, handlers, hooks, ownership>>
queues == <<queue, exiting, emptied, accepted>>
reader == <<pipe, registered, load>>
peer == <<inbox, sent, eof>>
vars == <<connection, phase, agenda, queues, reader, peer, told, undefined>>

States == {"NONE", "INITIALIZED", "CONNECTED", "PENDING_CLOSE", "CLOSED"}
Item(type, c) == [type |-> type, conn |-> c]
Items == [type : {"DATA", "TASK", "CLOSE", "PENDING_CLOSE", "OUTBOUND", "EXIT"},
          conn : Conns \cup {NoConn}]
Do(op, c, arg) == [op |-> op, conn |-> c, arg |-> arg]
Steps == [op : {"offer", "hook", "manage", "wake", "state", "lock", "fire", "tell",
                "unhook", "unlock", "forget", "release", "load", "read", "inbound",
                "task", "write", "outbound", "send", "purge", "drain", "disown",
                "exit", "join"},
          conn : Conns \cup {NoConn},
          arg : States \cup Threads \cup {"pending", "inbound", "outbound", "nothing"}]

TypeOK ==
    /\ state \in [Conns -> States]
    /\ holder \in [Conns -> Threads \cup {NoThread}]
    /\ handlers \in [Conns -> Seq(Threads)]
    /\ hooks \in [Conns -> SUBSET {"pending", "inbound", "outbound"}]
    /\ managedBy \in [Conns -> SUBSET Threads]
    /\ closedBy \in [Conns -> SUBSET Threads]
    /\ freed \in SUBSET Conns
    /\ phase \in [Threads -> {"run", "poll", "exit", "gone"}]
    /\ agenda \in [Threads -> Seq(Steps)]
    /\ queue \in [Pipe -> Seq(Items)]
    /\ exiting \in [Pipe -> BOOLEAN]
    /\ emptied \in BOOLEAN
    /\ accepted \in Seq(Conns)
    /\ pipe \in 0..PipeSize
    /\ registered \in SUBSET Conns
    /\ load \in Int
    /\ inbox \in [Conns -> 0..MaxData]
    /\ sent \in [Conns -> 0..MaxData]
    /\ eof \in [Conns -> BOOLEAN]
    /\ told \in [Conns -> [Threads -> Nat]]
    /\ undefined \in {"no", "freed", "race"}

-----------------------------------------------------------------------------
(* The server is started: each thread is at the head of its loop and the   *)
(* reader sleeps in poll(2).                                               *)
Init ==
    /\ state = [c \in Conns |-> "NONE"]
    /\ holder = [c \in Conns |-> NoThread]
    /\ handlers = [c \in Conns |-> <<>>]
    /\ hooks = [c \in Conns |-> {}]
    /\ managedBy = [c \in Conns |-> {"acceptor"}]
    /\ closedBy = [c \in Conns |-> {}]
    /\ freed = {}
    /\ phase = [t \in Threads |-> IF t = "reader" THEN "poll" ELSE "run"]
    /\ agenda = [t \in Threads |-> <<>>]
    /\ queue = [q \in Pipe |-> <<>>]
    /\ exiting = [q \in Pipe |-> FALSE]
    /\ emptied = FALSE
    /\ accepted = <<>>
    /\ pipe = 0
    /\ registered = {}
    /\ load = 0
    /\ inbox = [c \in Conns |-> 0]
    /\ sent = [c \in Conns |-> 0]
    /\ eof = [c \in Conns |-> FALSE]
    /\ told = [c \in Conns |-> [t \in Threads |-> 0]]
    /\ undefined = "no"

CanRead(c) == state[c] = "CONNECTED"
CanWrite(c) == state[c] \in {"CONNECTED", "PENDING_CLOSE"}

\* Thread t is at the head of its loop.
InLoop(t) == undefined = "no" /\ phase[t] = "run" /\ agenda[t] = <<>>

\* The step thread t is at is an op, about a connection that still exists.
Due(t) == Head(agenda[t])
Does(t, op) ==
    /\ undefined = "no"
    /\ agenda[t] # <<>>
    /\ Due(t).op = op
    /\ Due(t).conn \notin freed

\* It is done, and its own steps are to be done before the rest.
Then(t, steps) == agenda' = [agenda EXCEPT ![t] = steps \o Tail(@)]

\* Another thread runs through the CLOSE handlers of c.
Dispatched(c, t) == holder[c] \notin {t, NoThread} /\ state[c] = "CLOSED"

-----------------------------------------------------------------------------
(* The peers *)
PeerSends(c) ==
    /\ undefined = "no"
    /\ state[c] # "NONE" /\ ~eof[c]
    /\ sent[c] < MaxData
    /\ inbox' = [inbox EXCEPT ![c] = @ + 1]
    /\ sent' = [sent EXCEPT ![c] = @ + 1]
    /\ UNCHANGED <<connection, phase, agenda, queues, reader, eof, told, undefined>>

PeerCloses(c) ==
    /\ undefined = "no"
    /\ state[c] # "NONE" /\ ~eof[c]
    /\ eof' = [eof EXCEPT ![c] = TRUE]
    /\ UNCHANGED <<connection, phase, agenda, queues, reader, inbox, sent, told, undefined>>

-----------------------------------------------------------------------------
(* ConnectionState, NoMoreUsed and ManagedBy, by whichever thread *)

\* The unlocked test, then the lock.
ChangeState(t) ==
    /\ Does(t, "state")
    /\ Then(t, IF state[Due(t).conn] = Due(t).arg THEN <<>>
               ELSE <<Do("lock", Due(t).conn, Due(t).arg)>>)
    /\ UNCHANGED <<connection, phase, queues, reader, peer, told, undefined>>

\* The system handlers of the event are called with the lock held.
AnnounceUnlocked(c, s) ==
    CASE s = "CLOSED" -> <<Do("unlock", c, "nothing"), Do("fire", c, "nothing")>>
      [] s = "PENDING_CLOSE" /\ "pending" \in hooks[c] ->
            <<Do("unlock", c, "nothing"), Do("tell", c, "pending")>>
      [] OTHER -> <<Do("unlock", c, "nothing")>>

Announce(c, s) ==
    CASE s = "CLOSED" -> <<Do("fire", c, "nothing"), Do("unlock", c, "nothing")>>
      [] s = "PENDING_CLOSE" /\ "pending" \in hooks[c] ->
            <<Do("tell", c, "pending"), Do("unlock", c, "nothing")>>
      [] OTHER -> <<Do("unlock", c, "nothing")>>

LockState(t) ==
    /\ Does(t, "lock")
    /\ LET c == Due(t).conn
           s == Due(t).arg IN
          /\ holder[c] = NoThread
          /\ holder' = [holder EXCEPT ![c] = t]
          /\ state' = [state EXCEPT ![c] = s]
          /\ Then(t, Announce(c, s))
    /\ UNCHANGED <<handlers, hooks, ownership, phase, queues, reader, peer, told, undefined>>

UnlockState(t) ==
    /\ Does(t, "unlock")
    /\ holder' = [holder EXCEPT ![Due(t).conn] = NoThread]
    /\ Then(t, <<>>)
    /\ UNCHANGED <<state, handlers, hooks, ownership, phase, queues, reader, peer, told, undefined>>

ManagedBy(t) ==
    /\ Does(t, "manage")
    /\ LET c == Due(t).conn
           all == managedBy[c] \cup {Due(t).arg} IN
          /\ managedBy' = [managedBy EXCEPT ![c] = all]
          /\ Then(t, IF all = Threads THEN <<Do("state", c, "CONNECTED")>> ELSE <<>>)
    /\ UNCHANGED <<state, holder, handlers, hooks, closedBy, freed>>
    /\ UNCHANGED <<phase, queues, reader, peer, told, undefined>>

\* The owner that completes the set frees the connection.
NoMoreUsed(t) ==
    /\ Does(t, "release")
    /\ LET c == Due(t).conn
           all == closedBy[c] \cup {Due(t).arg} IN
          /\ closedBy' = [closedBy EXCEPT ![c] = IF all = Threads THEN {} ELSE all]
          /\ freed' = IF all = Threads THEN freed \cup {c} ELSE freed
    /\ Then(t, <<>>)
    /\ UNCHANGED <<state, holder, handlers, hooks, managedBy>>
    /\ UNCHANGED <<phase, queues, reader, peer, told, undefined>>

-----------------------------------------------------------------------------
(* The acceptor *)

\* ReaderManageConnection, WorkerManageConnection, WriterManageConnection.
ManageEarly(c) == <<
    Do("offer", c, "reader"),
    Do("hook", c, "pending"), Do("hook", c, "reader"),
    Do("hook", c, "inbound"), Do("hook", c, "worker"), Do("manage", c, "worker"),
    Do("manage", c, "writer"), Do("hook", c, "outbound"), Do("hook", c, "writer"),
    Do("wake", NoConn, "reader")>>

Manage(c) == <<
    Do("offer", c, "reader"),
    Do("hook", c, "pending"), Do("hook", c, "reader"),
    Do("hook", c, "inbound"), Do("hook", c, "worker"), Do("manage", c, "worker"),
    Do("hook", c, "outbound"), Do("hook", c, "writer"), Do("manage", c, "writer"),
    Do("wake", NoConn, "reader")>>

\* accept(2), the factory's copy, and the connection's place in the queue.
Accept(c) ==
    /\ InLoop("acceptor")
    /\ state[c] = "NONE"
    /\ state' = [state EXCEPT ![c] = "INITIALIZED"]
    /\ handlers' = [handlers EXCEPT ![c] = <<"acceptor">>]
    /\ accepted' = Append(accepted, c)
    /\ agenda' = [agenda EXCEPT !["acceptor"] = Manage(c)]
    /\ UNCHANGED <<holder, hooks, ownership, phase, queue, exiting, emptied>>
    /\ UNCHANGED <<reader, peer, told, undefined>>

\* EnqueueDataItem; a reader that is exiting does not manage the connection.
Offer(t) ==
    /\ Does(t, "offer")
    /\ \/ /\ ~exiting["reader"]
          /\ queue' = [queue EXCEPT !["reader"] = Append(@, Item("DATA", Due(t).conn))]
          /\ Then(t, <<>>)
       \/ /\ exiting["reader"]
          /\ agenda' = [agenda EXCEPT ![t] = <<>>]
          /\ UNCHANGED queue
    /\ UNCHANGED <<connection, phase, exiting, emptied, accepted, reader, peer, told, undefined>>

\* ConnectionAddSystemHandler
AddHandler(t) ==
    /\ Does(t, "hook")
    /\ LET c == Due(t).conn
           arg == Due(t).arg IN
          \/ /\ arg \notin Threads
             /\ hooks' = [hooks EXCEPT ![c] = @ \cup {arg}]
             /\ Then(t, <<>>)
             /\ UNCHANGED <<handlers, undefined>>
          \/ /\ arg \in Threads /\ ~Dispatched(c, t)
             /\ handlers' = [handlers EXCEPT ![c] = Append(@, arg)]
             /\ Then(t, <<>>)
             /\ UNCHANGED <<hooks, undefined>>
          \/ /\ arg \in Threads /\ Dispatched(c, t)
             /\ undefined' = "race"
             /\ UNCHANGED <<handlers, hooks, agenda>>
    /\ UNCHANGED <<state, holder, ownership, phase, queues, reader, peer, told>>

\* SelectorWakeUp
WakeUpUnbounded(t) ==
    /\ Does(t, "wake")
    /\ pipe' = pipe + 1
    /\ Then(t, <<>>)
    /\ UNCHANGED <<connection, phase, queues, registered, load, peer, told, undefined>>

WakeUp(t) ==
    /\ Does(t, "wake")
    /\ pipe' = IF pipe < PipeSize THEN pipe + 1 ELSE pipe
    /\ Then(t, <<>>)
    /\ UNCHANGED <<connection, phase, queues, registered, load, peer, told, undefined>>

(* ThreadStop was called and the routine has returned: _AcceptorExit       *)
AcceptorExit ==
    /\ InLoop("acceptor")
    /\ phase' = [phase EXCEPT !["acceptor"] = "exit"]
    /\ agenda' = [agenda EXCEPT !["acceptor"] = <<Do("drain", NoConn, "nothing")>>]
    /\ UNCHANGED <<connection, queues, reader, peer, told, undefined>>

\* ReaderEnd, WorkerEnd, WriterEnd
EndAsleep(q) == <<Do("exit", NoConn, q), Do("join", NoConn, q)>>

End(q) ==
    <<Do("exit", NoConn, q)>>
    \o (IF q = "reader" THEN <<Do("wake", NoConn, q)>> ELSE <<>>)
    \o <<Do("join", NoConn, q)>>

\* Each connection left in the acceptor's queue is closed, then the reader.
Drain(t) ==
    /\ Does(t, "drain")
    /\ \/ /\ accepted = <<>>
          /\ Then(t, End("reader"))
          /\ UNCHANGED accepted
       \/ /\ accepted # <<>>
          /\ accepted' = Tail(accepted)
          /\ LET c == Head(accepted) IN
                Then(t, <<Do("disown", c, "nothing"), Do("state", c, "CLOSED"),
                          Do("release", c, "acceptor"), Do("drain", NoConn, "nothing")>>)
    /\ UNCHANGED <<connection, phase, queue, exiting, emptied, reader, peer, told, undefined>>

\* EventHandlerRemove of the acceptor's own CLOSE handler, without a lock
Disown(t) ==
    /\ Does(t, "disown")
    /\ LET c == Due(t).conn IN
          \/ /\ ~Dispatched(c, t)
             /\ handlers' = [handlers EXCEPT ![c] = Without(@, {"acceptor"})]
             /\ Then(t, <<>>)
             /\ UNCHANGED undefined
          \/ /\ Dispatched(c, t)
             /\ undefined' = "race"
             /\ UNCHANGED <<handlers, agenda>>
    /\ UNCHANGED <<state, holder, hooks, ownership, phase, queues, reader, peer, told>>

-----------------------------------------------------------------------------
(* The CLOSE event: the system handlers in order, each called once *)

\* _AcceptorCloseHandler, _ReaderEventHandler, _WorkerCloseHandler and
\* _WriterEventHandler
CloseHandler(c, o) ==
    IF o = "acceptor"
    THEN <<Do("forget", c, o), Do("release", c, o)>>
    ELSE <<Do("tell", c, o)>>

FireClose(t) ==
    /\ Does(t, "fire")
    /\ LET c == Due(t).conn IN
          Then(t, IF handlers[c] = <<>> THEN <<>>
                  ELSE CloseHandler(c, Head(handlers[c]))
                       \o <<Do("unhook", c, Head(handlers[c])), Do("fire", c, "nothing")>>)
    /\ UNCHANGED <<connection, phase, queues, reader, peer, told, undefined>>

\* The handler is once: it is removed when its callback has returned.
RemoveHandler(t) ==
    /\ Does(t, "unhook")
    /\ LET c == Due(t).conn IN
          handlers' = [handlers EXCEPT ![c] = Without(@, {Due(t).arg})]
    /\ Then(t, <<>>)
    /\ UNCHANGED <<state, holder, hooks, ownership, phase, queues, reader, peer, told, undefined>>

\* RemoveAll on the acceptor's queue
Forget(t) ==
    /\ Does(t, "forget")
    /\ LET c == Due(t).conn IN
          /\ accepted' = Without(accepted, {c})
          /\ told' = [told EXCEPT ![c]["acceptor"] = @ + 1]
    /\ Then(t, <<>>)
    /\ UNCHANGED <<connection, phase, queue, exiting, emptied, reader, peer, undefined>>

\* To the queue, or, when it does not take items any more, on the spot (the
\* writer's handler does nothing then).
TellSilently(t) ==
    /\ Does(t, "tell")
    /\ LET c == Due(t).conn
           q == IF Due(t).arg = "pending" THEN "reader" ELSE Due(t).arg
           type == IF Due(t).arg = "pending" THEN "PENDING_CLOSE" ELSE "CLOSE" IN
          /\ hooks' = [hooks EXCEPT ![c] = @ \ {Due(t).arg}]
          /\ ~exiting[q]
          /\ queue' = [queue EXCEPT ![q] = Append(@, Item(type, c))]
          /\ Then(t, <<>>)
    /\ UNCHANGED <<state, holder, handlers, ownership, phase, exiting, emptied, accepted>>
    /\ UNCHANGED <<reader, peer, told, undefined>>

TellLosesClose(t) ==
    /\ Does(t, "tell")
    /\ LET c == Due(t).conn
           q == IF Due(t).arg = "pending" THEN "reader" ELSE Due(t).arg
           type == IF Due(t).arg = "pending" THEN "PENDING_CLOSE" ELSE "CLOSE" IN
          /\ hooks' = [hooks EXCEPT ![c] = @ \ {Due(t).arg}]
          /\ \/ /\ ~exiting[q]
                /\ queue' = [queue EXCEPT ![q] = Append(@, Item(type, c))]
                /\ Then(t, IF q = "reader" THEN <<Do("wake", NoConn, q)>> ELSE <<>>)
             \/ /\ exiting[q]
                /\ Then(t, <<>>)
                /\ UNCHANGED queue
          /\ told' = IF type = "PENDING_CLOSE" \/ (exiting[q] /\ q = "writer") THEN told
                     ELSE [told EXCEPT ![c][q] = @ + 1]
    /\ UNCHANGED <<state, holder, handlers, ownership, phase, exiting, emptied, accepted>>
    /\ UNCHANGED <<reader, peer, undefined>>

Tell(t) ==
    /\ Does(t, "tell")
    /\ LET c == Due(t).conn
           q == IF Due(t).arg = "pending" THEN "reader" ELSE Due(t).arg
           type == IF Due(t).arg = "pending" THEN "PENDING_CLOSE" ELSE "CLOSE" IN
          /\ hooks' = [hooks EXCEPT ![c] = @ \ {Due(t).arg}]
          /\ \/ /\ ~exiting[q]
                /\ queue' = [queue EXCEPT ![q] = Append(@, Item(type, c))]
                /\ Then(t, IF q = "reader" THEN <<Do("wake", NoConn, q)>> ELSE <<>>)
             \/ /\ exiting[q]
                /\ Then(t, IF q = "writer" THEN <<>> ELSE <<Do("release", c, q)>>)
                /\ UNCHANGED queue
          /\ told' = IF type = "PENDING_CLOSE" \/ (exiting[q] /\ q = "writer") THEN told
                     ELSE [told EXCEPT ![c][q] = @ + 1]
    /\ UNCHANGED <<state, holder, handlers, ownership, phase, exiting, emptied, accepted>>
    /\ UNCHANGED <<reader, peer, undefined>>

-----------------------------------------------------------------------------
(* The reader *)

\* Dequeue without waiting: nothing to do, or told so once after emptying.
ReaderIdle ==
    /\ InLoop("reader")
    /\ emptied \/ queue["reader"] = <<>>
    /\ emptied' = FALSE
    /\ phase' = [phase EXCEPT !["reader"] = "poll"]
    /\ UNCHANGED <<connection, agenda, queue, exiting, accepted, reader, peer, told, undefined>>

ReaderTake(item) ==
    /\ InLoop("reader")
    /\ ~emptied
    /\ queue["reader"] # <<>>
    /\ item = Head(queue["reader"])
    /\ item.conn \notin freed
    /\ queue' = [queue EXCEPT !["reader"] = Tail(@)]
    /\ emptied' = (Tail(queue["reader"]) = <<>>)

ReaderManages(c) ==
    /\ ReaderTake(Item("DATA", c))
    /\ registered' = registered \cup {c}
    /\ agenda' = [agenda EXCEPT !["reader"] = <<Do("manage", c, "reader"), Do("load", c, "nothing")>>]
    /\ UNCHANGED <<connection, phase, exiting, accepted, pipe, load, peer, told, undefined>>

ReaderLoads(t) ==
    /\ Does(t, "load")
    /\ load' = load + 1
    /\ Then(t, <<>>)
    /\ UNCHANGED <<connection, phase, queues, pipe, registered, peer, told, undefined>>

ReaderKeepsLoad(c) ==
    /\ ReaderTake(Item("CLOSE", c))
    /\ registered' = registered \ {c}
    /\ agenda' = [agenda EXCEPT !["reader"] = <<Do("release", c, "reader")>>]
    /\ UNCHANGED <<connection, phase, exiting, accepted, pipe, load, peer, told, undefined>>

ReaderCloses(c) ==
    /\ ReaderTake(Item("CLOSE", c))
    /\ registered' = registered \ {c}
    /\ load' = load - 1
    /\ agenda' = [agenda EXCEPT !["reader"] = <<Do("release", c, "reader")>>]
    /\ UNCHANGED <<connection, phase, exiting, accepted, pipe, peer, told, undefined>>

ReaderNotes(c) ==
    /\ ReaderTake(Item("PENDING_CLOSE", c))
    /\ UNCHANGED <<connection, phase, agenda, exiting, accepted, reader, peer, told, undefined>>

ReaderExit ==
    /\ ReaderTake(Item("EXIT", NoConn))
    /\ phase' = [phase EXCEPT !["reader"] = "exit"]
    /\ agenda' = [agenda EXCEPT !["reader"] = End("worker")]
    /\ UNCHANGED <<connection, exiting, accepted, reader, peer, told, undefined>>

\* Select, then one ConnectionRead for each ready socket
Ready == {c \in registered : inbox[c] > 0 \/ eof[c]}

ReaderSelect ==
    /\ undefined = "no"
    /\ phase["reader"] = "poll"
    /\ pipe' = IF pipe > 0 THEN pipe - 1 ELSE 0
    /\ phase' = [phase EXCEPT !["reader"] = "run"]
    /\ agenda' = [agenda EXCEPT !["reader"] =
                     [i \in 1..Cardinality(Ready) |-> Do("read", SetToSeq(Ready)[i], "nothing")]]
    /\ UNCHANGED <<connection, queues, registered, load, peer, told, undefined>>

\* ConnectionRead: data that comes when it may not be read is dropped.
Read(t) ==
    /\ Does(t, "read")
    /\ LET c == Due(t).conn IN
          \/ /\ inbox[c] > 0
             /\ inbox' = [inbox EXCEPT ![c] = @ - 1]
             /\ Then(t, IF CanRead(c) THEN <<Do("inbound", c, "nothing")>> ELSE <<>>)
          \/ /\ inbox[c] = 0
             /\ Then(t, <<Do("state", c, "CLOSED")>>)
             /\ UNCHANGED inbox
    /\ UNCHANGED <<connection, phase, queues, reader, sent, eof, told, undefined>>

\* _WorkerReadHandler: the unlocked test, then the task for the worker
Inbound(t) ==
    /\ Does(t, "inbound")
    /\ LET c == Due(t).conn IN
          Then(t, IF "inbound" \in hooks[c] /\ state[c] # "CLOSED"
                  THEN <<Do("task", c, "nothing")>> ELSE <<>>)
    /\ UNCHANGED <<connection, phase, queues, reader, peer, told, undefined>>

EnqueueTask(t) ==
    /\ Does(t, "task")
    /\ queue' = IF exiting["worker"] THEN queue
                ELSE [queue EXCEPT !["worker"] = Append(@, Item("TASK", Due(t).conn))]
    /\ Then(t, <<>>)
    /\ UNCHANGED <<connection, phase, exiting, emptied, accepted, reader, peer, told, undefined>>

-----------------------------------------------------------------------------
(* The worker *)

Take(t, item) ==
    /\ InLoop(t)
    /\ queue[t] # <<>>
    /\ item = Head(queue[t])
    /\ item.conn \notin freed
    /\ queue' = [queue EXCEPT ![t] = Tail(@)]

\* What the user's READ handler does about the connection.
Reaction(r, c) ==
    CASE r = "none" -> <<>>
      [] r = "write" -> <<Do("write", c, "nothing")>>                       \* EnableWriteInterest
      [] r = "close" -> <<Do("state", c, "CLOSED")>>                 \* ConnectionClose(c, true)
      [] r = "finish" -> <<Do("state", c, "PENDING_CLOSE")>>         \* ConnectionClose(c, false)

WorkerProcesses(c, r) ==
    /\ Take("worker", Item("TASK", c))
    /\ agenda' = [agenda EXCEPT !["worker"] = Reaction(r, c)]
    /\ UNCHANGED <<connection, phase, exiting, emptied, accepted, reader, peer, told, undefined>>

\* _WorkerRun and _WriterRun on a CLOSE event: RemoveAll, then NoMoreUsed
Closes(t, c) ==
    /\ Take(t, Item("CLOSE", c))
    /\ agenda' = [agenda EXCEPT ![t] = <<Do("purge", c, t), Do("release", c, t)>>]
    /\ UNCHANGED <<connection, phase, exiting, emptied, accepted, reader, peer, told, undefined>>

Purge(t) ==
    /\ Does(t, "purge")
    /\ LET c == Due(t).conn
           q == Due(t).arg
           removed == IF q = "worker" THEN {"TASK"} ELSE {"OUTBOUND", "CLOSE"} IN
          queue' = [queue EXCEPT ![q] = Without(@, [type : removed, conn : {c}])]
    /\ Then(t, <<>>)
    /\ UNCHANGED <<connection, phase, exiting, emptied, accepted, reader, peer, told, undefined>>

WorkerExit ==
    /\ Take("worker", Item("EXIT", NoConn))
    /\ phase' = [phase EXCEPT !["worker"] = "exit"]
    /\ agenda' = [agenda EXCEPT !["worker"] = End("writer")]
    /\ UNCHANGED <<connection, exiting, emptied, accepted, reader, peer, told, undefined>>

\* EnableWriteInterest: the unlocked test, then the event for the writer
WriteInterest(t) ==
    /\ Does(t, "write")
    /\ LET c == Due(t).conn IN
          Then(t, IF CanWrite(c) /\ "outbound" \in hooks[c] THEN <<Do("outbound", c, "nothing")>> ELSE <<>>)
    /\ UNCHANGED <<connection, phase, queues, reader, peer, told, undefined>>

EnqueueOutbound(t) ==
    /\ Does(t, "outbound")
    /\ queue' = IF exiting["writer"] THEN queue
                ELSE [queue EXCEPT !["writer"] = Append(@, Item("OUTBOUND", Due(t).conn))]
    /\ Then(t, <<>>)
    /\ UNCHANGED <<connection, phase, exiting, emptied, accepted, reader, peer, told, undefined>>

-----------------------------------------------------------------------------
(* The writer *)

WriterTakes(c) ==
    /\ Take("writer", Item("OUTBOUND", c))
    /\ agenda' = [agenda EXCEPT !["writer"] = <<Do("send", c, "nothing")>>]
    /\ UNCHANGED <<connection, phase, exiting, emptied, accepted, reader, peer, told, undefined>>

\* ConnectionWrite: everything was sent, or not (the event goes back to the
\* queue), or sending failed or was not allowed (the connection is closed).
Write(t) ==
    /\ Does(t, "send")
    /\ LET c == Due(t).conn IN
          \/ /\ CanWrite(c)
             /\ Then(t, <<>>)
          \/ /\ CanWrite(c)
             /\ Then(t, <<Do("outbound", c, "nothing")>>)
          \/ Then(t, <<Do("state", c, "CLOSED")>>)
    /\ UNCHANGED <<connection, phase, queues, reader, peer, told, undefined>>

WriterExit ==
    /\ Take("writer", Item("EXIT", NoConn))
    /\ phase' = [phase EXCEPT !["writer"] = "gone"]
    /\ UNCHANGED <<connection, agenda, exiting, emptied, accepted, reader, peer, told, undefined>>

-----------------------------------------------------------------------------
(* The end of the threads *)

\* EnqueueExitItem
EnqueueExit(t) ==
    /\ Does(t, "exit")
    /\ LET q == Due(t).arg IN
          /\ exiting' = [exiting EXCEPT ![q] = TRUE]
          /\ queue' = [queue EXCEPT ![q] = Append(@, Item("EXIT", NoConn))]
    /\ Then(t, <<>>)
    /\ UNCHANGED <<connection, phase, emptied, accepted, reader, peer, told, undefined>>

\* ThreadJoin, the last thing an exit routine waits for
JoinAtOnce(t) ==
    /\ Does(t, "join")
    /\ phase' = [phase EXCEPT ![t] = "gone"]
    /\ Then(t, <<>>)
    /\ UNCHANGED <<connection, queues, reader, peer, told, undefined>>

Join(t) ==
    /\ Does(t, "join")
    /\ phase[Due(t).arg] = "gone"
    /\ phase' = [phase EXCEPT ![t] = "gone"]
    /\ Then(t, <<>>)
    /\ UNCHANGED <<connection, queues, reader, peer, told, undefined>>

-----------------------------------------------------------------------------
(* A thread uses a connection that was freed: it has an item about it, or  *)
(* is in the middle of something about it.                                 *)
UseFreed(t) ==
    /\ undefined = "no"
    /\ \/ agenda[t] # <<>> /\ Due(t).conn \in freed
       \/ /\ t \in Pipe /\ InLoop(t)
          /\ t = "reader" => ~emptied
          /\ queue[t] # <<>> /\ Head(queue[t]).conn \in freed
    /\ undefined' = "freed"
    /\ UNCHANGED <<connection, phase, agenda, queues, reader, peer, told>>

\* What any thread may have on its agenda.
Perform(t) ==
    \/ ChangeState(t) \/ LockState(t) \/ UnlockState(t)
    \/ ManagedBy(t) \/ NoMoreUsed(t)
    \/ Offer(t) \/ AddHandler(t) \/ WakeUp(t) \/ Drain(t) \/ Disown(t)
    \/ FireClose(t) \/ RemoveHandler(t) \/ Forget(t) \/ Tell(t)
    \/ ReaderLoads(t) \/ Read(t) \/ Inbound(t) \/ EnqueueTask(t)
    \/ Purge(t) \/ WriteInterest(t) \/ EnqueueOutbound(t) \/ Write(t)
    \/ EnqueueExit(t) \/ Join(t)
    \/ UseFreed(t)

ReaderStep ==
    \/ ReaderIdle \/ ReaderExit
    \/ (pipe > 0 \/ Ready # {}) /\ ReaderSelect
    \/ \E c \in Conns : ReaderManages(c) \/ ReaderCloses(c) \/ ReaderNotes(c)

WorkerStep ==
    \/ WorkerExit
    \/ \E c \in Conns : Closes("worker", c) \/ \E r \in Reactions : WorkerProcesses(c, r)

WriterStep ==
    \/ WriterExit
    \/ \E c \in Conns : Closes("writer", c) \/ WriterTakes(c)

Next ==
    \/ \E c \in Conns : PeerSends(c) \/ PeerCloses(c) \/ Accept(c)
    \/ AcceptorExit
    \/ \E t \in Threads : Perform(t)
    \/ ReaderStep \/ WorkerStep \/ WriterStep
    \/ OtherTraffic /\ ReaderSelect

Spec == Init /\ [][Next]_vars

(* Threads are scheduled, and a mutex somebody keeps releasing is granted. *)
(* Nothing says that other sockets ever wake the reader.                   *)
Fairness ==
    /\ \A t \in Threads : WF_vars(Perform(t))
    /\ WF_vars(ReaderStep) /\ WF_vars(WorkerStep) /\ WF_vars(WriterStep)

FairSpec == Spec /\ Fairness

-----------------------------------------------------------------------------
(* Properties *)

(* No lost wake-up of the reader: it never sleeps in poll(2) on a queue    *)
(* that is not empty, unless a byte is in its pipe or the thread that      *)
(* filled the queue has still to write it.  (The reader may find nothing   *)
(* in a queue that is not empty, because of the emptied flag.)             *)
NoLostReaderWakeUp ==
    phase["reader"] = "poll" /\ queue["reader"] # <<>> =>
        \/ pipe > 0
        \/ \E t \in Threads : Do("wake", NoConn, "reader") \in ToSet(agenda[t])

(* The reader's load, by which _ChooseReader balances connections, is the  *)
(* number of sockets it has registered: whatever the order of accepting    *)
(* and closing, a connection's DATA item comes before its CLOSE event.     *)
LoadExact ==
    load = Cardinality({c \in registered :
                           Do("load", c, "nothing") \notin ToSet(agenda["reader"])})

(* However many threads close a connection at once, and whatever state it  *)
(* came back to meanwhile, each owner is told of the close at most once,   *)
(* so each gives the connection up at most once.                           *)
ToldOnce ==
    \A c \in Conns, t \in Threads : told[c][t] <= 1

(* A connection is CONNECTED, and so read from and written to, only when   *)
(* the handlers of all the threads are in place: ManagedBy is each one's   *)
(* last call.                                                              *)
ConnectedWhenHandled ==
    \A c \in Conns : state[c] = "CONNECTED" =>
        /\ {"inbound", "outbound"} \subseteq hooks[c]
        /\ \A i \in DOMAIN agenda["acceptor"] :
              agenda["acceptor"][i].op = "hook" => agenda["acceptor"][i].conn # c

(* Threads end in the reverse order of who calls whom: no thread still has *)
(* something to put in the queue of a thread that is gone, or to run       *)
(* handlers that would.                                                    *)
Delivers(t, q) ==
    \E i \in DOMAIN agenda[t] : LET s == agenda[t][i] IN
        \/ s.op \in {"offer", "tell"} /\ s.arg = q
        \/ s.op = "tell" /\ s.arg = "pending" /\ q = "reader"
        \/ s.op \in {"inbound", "task"} /\ q = "worker"
        \/ s.op \in {"write", "outbound"} /\ q = "writer"
        \/ s.op = "fire" /\ q \in ToSet(handlers[s.conn])

GoneLast ==
    \A q \in Pipe, t \in Threads : phase[q] = "gone" => ~Delivers(t, q)

(* Nobody waits forever at shutdown: once the acceptor's routine is over,  *)
(* every thread of the server ends.                                        *)
ShutdownCompletes ==
    phase["acceptor"] = "exit" ~>
        undefined # "no" \/ \A t \in Threads : phase[t] = "gone"

(* A connection is freed once the threads of the pipe were told of its     *)
(* close (the acceptor, told first, or closing by itself, follows suit).   *)
EventuallyFreed ==
    \A c \in Conns :
        (\A q \in Pipe : told[c][q] > 0) ~> (undefined # "no" \/ c \in freed)

(* event.h, Connection.java: CONNECTED announces that a connection "was    *)
(* accepted", so it follows INITIALIZED and never a close.                 *)
ConnectedWhenAccepted ==
    [][\A c \in Conns :
          state'[c] = "CONNECTED" /\ state[c] # "CONNECTED" => state[c] = "INITIALIZED"]_vars

(* test/server.c frees the handler's data on FREE_EVENT: no thread uses a  *)
(* connection any more when it is freed.                                   *)
NotUsedOnceFreed == undefined # "freed"
=============================================================================
