------------------------------- MODULE Client -------------------------------
(***************************************************************************)
(* The client of src/src/client.c: a thread that makes one connection      *)
(* after the other, hands each to the pipe (reader, worker, writer) once   *)
(* it is established, and retries or gives up when it is closed.           *)
(*                                                                         *)
(* As in module Server, what a thread has still to do before it looks at   *)
(* its queue again is its "agenda".  Of the pipe, only what the client's   *)
(* thread depends on is kept: who signs for a connection, who closes it    *)
(* and why, who is told and gives it up, and the end of the threads; the   *)
(* reader's selector, the tasks and the data are those of module Server.   *)
(* So are a partial send, which puts the OUTBOUND event back, and the      *)
(* PENDING_CLOSE event, which the reader only logs.  As there, use after   *)
(* free and a handler list changed under its reader are "undefined".       *)
(***************************************************************************)
EXTENDS Integers, Sequences, SequencesExt, Removal

CONSTANTS
    MaxConns,      \* bound: connections the client makes
    Retries,       \* client->retries
    EarlyHangUps,  \* bound: connections the peer may close or reset before
                   \* they are CONNECTED
    Closings,      \* states the user's READ handler may put a connection in
    NoThread       \* nobody holds a lock

Pipe == {"reader", "worker", "writer"}
Threads == Pipe \cup {"client"}

ASSUME ClientAssumption ==
    /\ MaxConns \in Nat \ {0}
    /\ Retries \in Nat
    /\ Closings \subseteq {"CLOSED", "PENDING_CLOSE"}
    /\ NoThread \notin Threads

VARIABLES
    \* the client
    made,         \* connections made so far; the last one is client->connection
    connected,    \* client->connected
    retryCount,   \* client->retryCount
    exiting,      \* client->exiting
    events,       \* client->queue
    \* the connections
    state,        \* connection->state
    holder,       \* thread holding connection->stateLock, or NoThread
    forError,     \* connection->closedForError
    handlers,     \* system handlers of CLOSE, each called once, in order
    managedBy,    \* threads of the pipe that signed connection->managedBy
    closedBy,     \* connection->closedBy (the acceptor's is always set)
    freed,        \* connections FreeConnection was called for
    finishing,    \* connections whose handlers of PENDING_CLOSE were called
    registered,   \* connections the reader's selector has a key for
    \* the threads
    phase,        \* where each thread is in its life
    agenda,       \* what each does before it is back in its loop
    queue,        \* the queue of each thread of the pipe
    stopping,     \* queue->exit of each
    \* history, read by the properties only
    established,  \* connections that were CONNECTED once
    lost,         \* connections on which a system call failed
    early,        \* connections the pipe closed before they were CONNECTED
    undefined     \* "no", or what made the rest undefined

client == <<made, connected, retryCount, exiting, events>>
flags == <<state, holder, forError, handlers>>
owners == <<managedBy, closedBy, freed>>
io == <<finishing, registered>>
threads == <<phase, queue, stopping>>
history == <<established, lost, early>>
vars == <<client, flags, owners, io, threads, agenda, history, undefined>>

Conns == 1..MaxConns
States == {"NONE", "INITIALIZED", "CONNECTING", "CONNECTED", "PENDING_CLOSE", "CLOSED"}
Event(e, n) == [event |-> e, conn |-> n]
Do(op, n, arg) == [op |-> op, conn |-> n, arg |-> arg]

TypeOK ==
    /\ made \in Conns
    /\ connected \in BOOLEAN
    /\ retryCount \in 0..Retries
    /\ exiting \in BOOLEAN
    /\ events \in Seq([event : {"INIT", "CONNECTING", "CONNECTED", "CLOSE", "FREE"}, conn : 1..made])
    /\ state \in [Conns -> States]
    /\ holder \in [Conns -> Threads \cup {NoThread}]
    /\ forError \in [Conns -> BOOLEAN]
    /\ handlers \in [Conns -> Seq(Threads)]
    /\ managedBy \in [Conns -> SUBSET Pipe]
    /\ closedBy \in [Conns -> SUBSET Threads]
    /\ freed \in SUBSET (1..made)
    /\ finishing \in SUBSET (1..made)
    /\ registered \in SUBSET (1..made)
    /\ phase \in [Threads -> {"run", "exit", "gone"}]
    /\ queue \in [Pipe -> Seq([event : {"DATA", "CLOSE", "OUTBOUND", "EXIT"}, conn : 0..made])]
    /\ stopping \in [Pipe -> BOOLEAN]
    /\ established \in SUBSET (1..made)
    /\ lost \in SUBSET (1..made)
    /\ early \in SUBSET (1..made)
    /\ undefined \in {"no", "freed", "race"}

-----------------------------------------------------------------------------
(* _clientInit has made the reader and the first connection, whose         *)
(* ConnectionInit succeeded or not.                                        *)
Init ==
    /\ made = 1
    /\ connected = FALSE
    /\ retryCount = 0
    /\ exiting = FALSE
    /\ \E ok \in BOOLEAN :
          /\ state = [n \in Conns |-> IF n > 1 THEN "NONE" ELSE IF ok THEN "INITIALIZED" ELSE "CLOSED"]
          /\ forError = [n \in Conns |-> n = 1 /\ ~ok]
          /\ handlers = [n \in Conns |-> IF n = 1 /\ ~ok THEN <<>> ELSE <<"client">>]
          /\ events = <<Event(IF ok THEN "INIT" ELSE "CLOSE", 1)>>
    /\ holder = [n \in Conns |-> NoThread]
    /\ managedBy = [n \in Conns |-> {}]
    /\ closedBy = [n \in Conns |-> {}]
    /\ freed = {}
    /\ finishing = {}
    /\ registered = {}
    /\ phase = [t \in Threads |-> "run"]
    /\ agenda = [t \in Threads |-> <<>>]
    /\ queue = [q \in Pipe |-> <<>>]
    /\ stopping = [q \in Pipe |-> FALSE]
    /\ established = {}
    /\ lost = {n \in {1} : forError[n]}
    /\ early = {}
    /\ undefined = "no"

\* Thread t is at the head of its loop.
InLoop(t) == undefined = "no" /\ phase[t] = "run" /\ agenda[t] = <<>>

\* The step thread t is at is an op, about a connection that still exists.
Due(t) == Head(agenda[t])
Does(t, op) ==
    /\ undefined = "no"
    /\ agenda[t] # <<>>
    /\ Due(t).op = op
    /\ Due(t).conn \notin freed

\* It is done, and its own steps are to be done before the rest.
Then(t, steps) == agenda' = [agenda EXCEPT ![t] = steps \o Tail(@)]

\* _clientEventHandler; the queue outlives every thread of the pipe.
Told(e, n) == Append(events, Event(e, n))

-----------------------------------------------------------------------------
(* ConnectionState, ManagedBy, NoMoreUsed and FreeConnection, by whichever *)
(* thread                                                                  *)

\* Nothing to do in that state.  (The test is made without the lock, but a
\* thread that passes it too early finds no handler left to call.)
KeepState(t) ==
    /\ Does(t, "state")
    /\ state[Due(t).conn] = Due(t).arg
    /\ Then(t, <<>>)
    /\ UNCHANGED <<client, flags, owners, io, threads, history, undefined>>

\* The handlers are called with the lock held: the client's, the reader's of
\* PENDING_CLOSE, once, and the user's of CONNECTED, which enables write
\* interest as test/client.c does.  Those of CLOSE have steps of their own.
ChangeState(t) ==
    /\ Does(t, "state")
    /\ state[Due(t).conn] # Due(t).arg
    /\ LET n == Due(t).conn
           s == Due(t).arg
           news == [INITIALIZED |-> "INIT", CONNECTING |-> "CONNECTING", CONNECTED |-> "CONNECTED"]
           first == s = "PENDING_CLOSE" /\ n \notin finishing IN
          /\ holder[n] = NoThread
          /\ state' = [state EXCEPT ![n] = s]
          /\ holder' = [holder EXCEPT ![n] = IF s = "CLOSED" THEN t ELSE NoThread]
          /\ finishing' = IF first THEN finishing \cup {n} ELSE finishing
          /\ Then(t, CASE s = "CLOSED" -> <<Do("fire", n, "nothing")>>
                       [] first /\ stopping["reader"] -> <<Do("release", n, "reader")>>
                       [] OTHER -> <<>>)
          /\ events' = IF s \in DOMAIN news THEN Told(news[s], n) ELSE events
          /\ queue' = IF s = "CONNECTED" /\ managedBy[n] = Pipe /\ ~stopping["writer"]
                      THEN [queue EXCEPT !["writer"] = Append(@, Event("OUTBOUND", n))]
                      ELSE queue
          /\ established' = IF s = "CONNECTED" THEN established \cup {n} ELSE established
          /\ early' = IF s = "CLOSED" /\ t \in Pipe /\ n \notin established THEN early \cup {n} ELSE early
    /\ UNCHANGED <<made, connected, retryCount, exiting, forError, handlers>>
    /\ UNCHANGED <<owners, registered, phase, stopping, lost, undefined>>

\* The next handler of CLOSE: the event goes to its thread's queue; a thread
\* of the pipe that takes no events any more has the connection given up for
\* it on the spot, except the writer.
FireNext(t) ==
    /\ Does(t, "fire")
    /\ LET n == Due(t).conn IN
          /\ handlers[n] # <<>>
          /\ handlers' = [handlers EXCEPT ![n] = Tail(@)]
          /\ LET o == Head(handlers[n]) IN
                \/ /\ o = "client"
                   /\ events' = Told("CLOSE", n)
                   /\ UNCHANGED <<queue, agenda>>
                \/ /\ o \in Pipe /\ ~stopping[o]
                   /\ queue' = [queue EXCEPT ![o] = Append(@, Event("CLOSE", n))]
                   /\ UNCHANGED <<events, agenda>>
                \/ /\ o \in Pipe /\ stopping[o]
                   /\ agenda' = IF o = "writer" THEN agenda
                                ELSE [agenda EXCEPT ![t] = <<Do("release", n, o)>> \o @]
                   /\ UNCHANGED <<events, queue>>
    /\ UNCHANGED <<made, connected, retryCount, exiting, state, holder, forError>>
    /\ UNCHANGED <<owners, io, phase, stopping, history, undefined>>

FireLast(t) ==
    /\ Does(t, "fire")
    /\ handlers[Due(t).conn] = <<>>
    /\ holder' = [holder EXCEPT ![Due(t).conn] = NoThread]
    /\ Then(t, <<>>)
    /\ UNCHANGED <<client, state, forError, handlers, owners, io, threads, history, undefined>>

ManagedBy(t) ==
    /\ Does(t, "sign")
    /\ LET n == Due(t).conn
           all == managedBy[n] \cup {Due(t).arg} IN
          /\ managedBy' = [managedBy EXCEPT ![n] = all]
          /\ Then(t, IF all = Pipe THEN <<Do("state", n, "CONNECTED")>> ELSE <<>>)
    /\ UNCHANGED <<client, flags, closedBy, freed, io, threads, history, undefined>>

\* The owner that completes the set frees the connection, and the client is
\* told so.
NoMoreUsed(t) ==
    /\ Does(t, "release")
    /\ LET n == Due(t).conn
           all == closedBy[n] \cup {Due(t).arg}
           last == all = Threads IN
          /\ closedBy' = [closedBy EXCEPT ![n] = IF last THEN {} ELSE all]
          /\ freed' = IF last THEN freed \cup {n} ELSE freed
          /\ events' = IF last THEN Told("FREE", n) ELSE events
    /\ Then(t, <<>>)
    /\ UNCHANGED <<made, connected, retryCount, exiting, flags, managedBy>>
    /\ UNCHANGED <<io, threads, history, undefined>>

\* The client frees a connection it thinks nobody else knows.
FreeConnection(t) ==
    /\ Does(t, "free")
    /\ freed' = freed \cup {Due(t).conn}
    /\ events' = Told("FREE", Due(t).conn)
    /\ Then(t, <<>>)
    /\ UNCHANGED <<made, connected, retryCount, exiting, flags, managedBy, closedBy>>
    /\ UNCHANGED <<io, threads, history, undefined>>

\* __ConnectionHandleError notes why it closes the connection, whether it is
\* closed already or not: a system call failed, or something else is noted as
\* an error, for good or until it turns out to be the peer's end of file.
Blame(t) ==
    /\ Does(t, "blame")
    /\ LET n == Due(t).conn IN
          /\ forError' = [forError EXCEPT ![n] = (Due(t).arg # "disconnected")]
          /\ lost' = IF Due(t).arg = "failed" THEN lost \cup {n} ELSE lost
    /\ Then(t, <<>>)
    /\ UNCHANGED <<client, state, holder, handlers, owners, io, threads, established, early, undefined>>

HandleError(n, why) == <<Do("blame", n, why), Do("state", n, "CLOSED")>>
HandleDisconnected(n) ==
    <<Do("blame", n, "noted"), Do("blame", n, "disconnected"), Do("state", n, "CLOSED")>>

-----------------------------------------------------------------------------
(* The client's thread *)
TakeEvent(e, n) ==
    /\ InLoop("client")
    /\ events # <<>>
    /\ Head(events) = Event(e, n)
    /\ events' = Tail(events)

\* ConnectionConnect: in progress, established at once, or failed
Connects(n) ==
    /\ TakeEvent("INIT", n)
    /\ n \notin freed
    /\ \E steps \in {<<Do("state", n, "CONNECTING")>>, <<Do("state", n, "CONNECTED")>>, HandleError(n, "failed")} :
          agenda' = [agenda EXCEPT !["client"] = steps]
    /\ UNCHANGED <<made, connected, retryCount, exiting>>
    /\ UNCHANGED <<flags, owners, io, threads, history, undefined>>

\* ReaderManageConnection and those it calls
ManageEarly(n) == <<
    Do("offer", n, "nothing"), Do("hook", n, "reader"),
    Do("hook", n, "worker"), Do("sign", n, "worker"),
    Do("sign", n, "writer"), Do("hook", n, "writer")>>

Manage(n) == <<
    Do("offer", n, "nothing"), Do("hook", n, "reader"),
    Do("hook", n, "worker"), Do("sign", n, "worker"),
    Do("hook", n, "writer"), Do("sign", n, "writer")>>

FinishesCount(n) ==
    /\ TakeEvent("CONNECTING", n)
    /\ n \notin freed
    /\ \E steps \in {Manage(n), HandleError(n, "failed")} : agenda' = [agenda EXCEPT !["client"] = steps]
    /\ retryCount' = 0
    /\ UNCHANGED <<made, connected, exiting>>
    /\ UNCHANGED <<flags, owners, io, threads, history, undefined>>

FinishesConnect(n) ==
    /\ TakeEvent("CONNECTING", n)
    /\ n \notin freed
    /\ \E steps \in {Manage(n), HandleError(n, "failed")} : agenda' = [agenda EXCEPT !["client"] = steps]
    /\ UNCHANGED <<made, connected, retryCount, exiting>>
    /\ UNCHANGED <<flags, owners, io, threads, history, undefined>>

Offer(t) ==
    /\ Does(t, "offer")
    /\ queue' = [queue EXCEPT !["reader"] = Append(@, Event("DATA", Due(t).conn))]
    /\ Then(t, <<>>)
    /\ UNCHANGED <<client, flags, owners, io, phase, stopping, history, undefined>>

\* EventHandlerAdd; not while another thread runs through the list
AddHandler(t) ==
    /\ Does(t, "hook")
    /\ LET n == Due(t).conn IN
          \/ /\ holder[n] = NoThread
             /\ handlers' = [handlers EXCEPT ![n] = Append(@, Due(t).arg)]
             /\ Then(t, <<>>)
             /\ UNCHANGED undefined
          \/ /\ holder[n] # NoThread
             /\ undefined' = "race"
             /\ UNCHANGED <<handlers, agenda>>
    /\ UNCHANGED <<client, state, holder, forError, owners, io, threads, history>>

Establishes(n) ==
    /\ TakeEvent("CONNECTED", n)
    /\ connected' = TRUE
    /\ retryCount' = 0
    /\ UNCHANGED <<made, exiting, flags, owners, io, threads, agenda, history, undefined>>

\* The reason is read, the connection given up (freed at once by a client
\* that was not told it was connected), then the client decides.
LosesQuietly(n) ==
    /\ TakeEvent("CLOSE", n)
    /\ n \notin freed
    /\ agenda' = [agenda EXCEPT !["client"] =
                     IF connected THEN <<Do("release", n, "client")>>
                     ELSE <<Do("free", n, "nothing"), Do("decide", 0, IF forError[n] THEN "error" ELSE "clean")>>]
    /\ UNCHANGED <<made, connected, retryCount, exiting>>
    /\ UNCHANGED <<flags, owners, io, threads, history, undefined>>

Loses(n) ==
    /\ TakeEvent("CLOSE", n)
    /\ n \notin freed
    /\ agenda' = [agenda EXCEPT !["client"] =
                     <<IF connected THEN Do("release", n, "client") ELSE Do("free", n, "nothing"),
                       Do("decide", 0, IF forError[n] THEN "error" ELSE "clean")>>]
    /\ UNCHANGED <<made, connected, retryCount, exiting>>
    /\ UNCHANGED <<flags, owners, io, threads, history, undefined>>

\* _connection: the next one, whose ConnectionInit succeeds or not
TriesCountingTwice(t) ==
    /\ Does(t, "decide")
    /\ Due(t).arg = "error"
    /\ retryCount < Retries
    /\ made < MaxConns
    /\ made' = made + 1
    /\ retryCount' = retryCount + 2
    /\ connected' = FALSE
    /\ \E init \in {<<Do("state", made + 1, "INITIALIZED")>>, HandleError(made + 1, "failed")} : Then(t, init)
    /\ handlers' = [handlers EXCEPT ![made + 1] = <<"client">>]
    /\ UNCHANGED <<exiting, events, state, holder, forError>>
    /\ UNCHANGED <<owners, io, threads, history, undefined>>

TriesAgain(t) ==
    /\ Does(t, "decide")
    /\ Due(t).arg = "error"
    /\ retryCount < Retries
    /\ made < MaxConns
    /\ made' = made + 1
    /\ retryCount' = retryCount + 1
    /\ connected' = FALSE
    /\ \E init \in {<<Do("state", made + 1, "INITIALIZED")>>, HandleError(made + 1, "failed")} : Then(t, init)
    /\ handlers' = [handlers EXCEPT ![made + 1] = <<"client">>]
    /\ UNCHANGED <<exiting, events, state, holder, forError>>
    /\ UNCHANGED <<owners, io, threads, history, undefined>>

GivesUp(t) ==
    /\ Does(t, "decide")
    /\ Due(t).arg = "clean" \/ retryCount = Retries
    /\ exiting' = TRUE
    /\ Then(t, <<>>)
    /\ UNCHANGED <<made, connected, retryCount, events>>
    /\ UNCHANGED <<flags, owners, io, threads, history, undefined>>

\* ReaderEnd, WorkerEnd, WriterEnd
EndUnasked(q) == <<Do("join", 0, q)>>

End(q) == <<Do("exit", 0, q), Do("join", 0, q)>>

Leaves(n) ==
    /\ TakeEvent("FREE", n)
    /\ \/ /\ exiting
          /\ phase' = [phase EXCEPT !["client"] = "exit"]
          /\ agenda' = [agenda EXCEPT !["client"] = End("reader")]
       \/ /\ ~exiting
          /\ UNCHANGED <<phase, agenda>>
    /\ UNCHANGED <<made, connected, retryCount, exiting>>
    /\ UNCHANGED <<flags, owners, io, queue, stopping, history, undefined>>

EnqueueExit(t) ==
    /\ Does(t, "exit")
    /\ stopping' = [stopping EXCEPT ![Due(t).arg] = TRUE]
    /\ queue' = [queue EXCEPT ![Due(t).arg] = Append(@, Event("EXIT", 0))]
    /\ Then(t, <<>>)
    /\ UNCHANGED <<client, flags, owners, io, phase, history, undefined>>

Join(t) ==
    /\ Does(t, "join")
    /\ phase[Due(t).arg] = "gone"
    /\ phase' = [phase EXCEPT ![t] = "gone"]
    /\ Then(t, <<>>)
    /\ UNCHANGED <<client, flags, owners, io, queue, stopping, history, undefined>>

-----------------------------------------------------------------------------
(* The pipe *)
Take(q, e, n) ==
    /\ InLoop(q)
    /\ queue[q] # <<>>
    /\ Head(queue[q]) = Event(e, n)
    /\ n \notin freed
    /\ queue' = [queue EXCEPT ![q] = Tail(@)]

ReaderManages(n) ==
    /\ Take("reader", "DATA", n)
    /\ registered' = registered \cup {n}
    /\ agenda' = [agenda EXCEPT !["reader"] = <<Do("sign", n, "reader")>>]
    /\ UNCHANGED <<client, flags, owners, finishing, phase, stopping, history, undefined>>

\* The CLOSE event; the writer's RemoveAll takes its other events with it.
Closes(q, n) ==
    /\ InLoop(q)
    /\ queue[q] # <<>>
    /\ Head(queue[q]) = Event("CLOSE", n)
    /\ n \notin freed
    /\ queue' = [queue EXCEPT ![q] =
                    IF q = "writer" THEN Without(Tail(@), {i \in ToSet(@) : i.conn = n}) ELSE Tail(@)]
    /\ registered' = IF q = "reader" THEN registered \ {n} ELSE registered
    /\ agenda' = [agenda EXCEPT ![q] = <<Do("release", n, q)>>]
    /\ UNCHANGED <<client, flags, owners, finishing, phase, stopping, history, undefined>>

\* The EXIT item: each thread ends the next, the writer is the last.
Exits(q) ==
    /\ Take(q, "EXIT", 0)
    /\ phase' = [phase EXCEPT ![q] = IF q = "writer" THEN "gone" ELSE "exit"]
    /\ agenda' = [agenda EXCEPT ![q] = CASE q = "reader" -> End("worker")
                                        [] q = "worker" -> End("writer")
                                        [] q = "writer" -> <<>>]
    /\ UNCHANGED <<client, flags, owners, io, stopping, history, undefined>>

\* The reader has emptied its queue and reads the peer's end of file or an
\* error; what it reads else changes nothing here.
Reads(n) ==
    /\ InLoop("reader")
    /\ queue["reader"] = <<>>
    /\ n \in registered \ freed
    /\ n \in established \cup EarlyHangUps
    /\ \E steps \in {HandleError(n, "failed"),
                    IF state[n] = "PENDING_CLOSE" THEN <<Do("state", n, "CLOSED")>>
                    ELSE HandleDisconnected(n)} :
          agenda' = [agenda EXCEPT !["reader"] = steps]
    /\ UNCHANGED <<client, flags, owners, io, threads, history, undefined>>

\* The user's READ handler, run by the worker before it takes the CLOSE event,
\* closes a connected n one way or the other; the state may have changed by
\* the time it does.
UserCloses(n) ==
    /\ InLoop("worker")
    /\ state[n] = "CONNECTED" /\ managedBy[n] = Pipe
    /\ n \notin freed
    /\ "worker" \in ToSet(handlers[n]) \/ Event("CLOSE", n) \in ToSet(queue["worker"])
    /\ \E s \in Closings :
          agenda' = [agenda EXCEPT !["worker"] = <<Do("state", n, s)>>]
    /\ UNCHANGED <<client, flags, owners, io, threads, history, undefined>>

\* ConnectionWrite: all is sent, or sending fails, or is not allowed any more.
Writes(n) ==
    /\ Take("writer", "OUTBOUND", n)
    /\ LET allowed == state[n] \in {"CONNECTED", "PENDING_CLOSE"} IN
          \E steps \in IF allowed THEN {<<>>, HandleError(n, "failed")} ELSE {HandleError(n, "noted")} :
             agenda' = [agenda EXCEPT !["writer"] = steps]
    /\ UNCHANGED <<client, flags, owners, io, phase, stopping, history, undefined>>

-----------------------------------------------------------------------------
(* A thread uses a connection that was freed. *)
UseFreed(t) ==
    /\ undefined = "no"
    /\ \/ agenda[t] # <<>> /\ Due(t).conn \in freed
       \/ /\ t \in Pipe /\ InLoop(t)
          /\ queue[t] # <<>> /\ Head(queue[t]).conn \in freed
       \/ /\ t = "client" /\ InLoop(t)
          /\ events # <<>> /\ Head(events).conn \in freed
          /\ Head(events).event \in {"INIT", "CONNECTING", "CLOSE"}
    /\ undefined' = "freed"
    /\ UNCHANGED <<client, flags, owners, io, threads, agenda, history>>

\* What any thread may have on its agenda.
Perform(t) ==
    \/ KeepState(t) \/ ChangeState(t) \/ FireNext(t) \/ FireLast(t)
    \/ ManagedBy(t) \/ NoMoreUsed(t) \/ FreeConnection(t) \/ Blame(t)
    \/ Offer(t) \/ AddHandler(t) \/ TriesAgain(t) \/ GivesUp(t)
    \/ EnqueueExit(t) \/ Join(t)
    \/ UseFreed(t)

ClientStep ==
    \E n \in Conns : \/ Connects(n) \/ FinishesConnect(n) \/ Establishes(n)
                    \/ Loses(n) \/ Leaves(n)

PipeStep(q) ==
    \/ Exits(q)
    \/ \E n \in Conns : \/ Closes(q, n)
                       \/ (q = "reader" /\ ReaderManages(n))
                       \/ (q = "writer" /\ Writes(n))

Next ==
    \/ \E t \in Threads : Perform(t)
    \/ ClientStep
    \/ \E q \in Pipe : PipeStep(q)
    \/ \E n \in Conns : Reads(n) \/ UserCloses(n)

Spec == Init /\ [][Next]_vars

(* Threads are scheduled; peers and users do as they please. *)
Fairness ==
    /\ \A t \in Threads : WF_vars(Perform(t))
    /\ WF_vars(ClientStep)
    /\ \A q \in Pipe : WF_vars(PipeStep(q))

FairSpec == Spec /\ Fairness

-----------------------------------------------------------------------------
(* Properties *)

(* Every connection made takes a retry, and only a connection that was     *)
(* CONNECTED gives the client its retries anew, once, whatever the order   *)
(* in which the events of several connections reach the client.            *)
RetriesCounted == made - 1 <= retryCount + Retries * Cardinality(established)

(* client.h:136-138: "the maximum number of retries" of a connection that  *)
(* is closed unexpectedly.  It is exceeded: a connection the peer closed   *)
(* early is CONNECTED by the last signature, and the client is told so     *)
(* after it has retried.                                                   *)
LastEstablished == IF established = {} THEN 1 ELSE CHOOSE n \in established : \A m \in established : m <= n
RetriesBounded == made - LastEstablished <= Retries

(* Until the client ends the reader, the pipe never uses a connection that *)
(* was freed, and EventHandlerAdd never meets a thread that runs through   *)
(* the list of handlers, unless the peer hung up while the client was      *)
(* handing the connection over: then the reader closes it under the        *)
(* client, which frees it at once because it was not told it is connected. *)
OnlyEarlyBreaks ==
    undefined = "race" \/ (undefined = "freed" /\ ~stopping["reader"]) => early # {}

(* A client that gave up ends, and the threads of its pipe with it.  Not   *)
(* after such a hang-up: a handler of CLOSE added too late is never        *)
(* called, its thread never gives the connection up, and the client waits  *)
(* for FREE.                                                               *)
ExitingEnds == exiting ~> (undefined # "no" \/ early # {} \/ \A t \in Threads : phase[t] = "gone")

(* client.h: a client reconnects when the connection is lost "for any      *)
(* other reason which is not a normal disconnection": it does not when     *)
(* nothing failed, and the peer or the user closed the connection.         *)
RetriesLostOnly == [][made' > made => made \in lost]_vars

(* A connection that is lost is made again, or the client has given up.    *)
LostIsNoticed ==
    \A n \in Conns : n \in lost ~> (undefined # "no" \/ exiting \/ made > n \/ made = MaxConns)
=============================================================================
