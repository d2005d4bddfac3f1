------------------------------ MODULE Transfer ------------------------------
(***************************************************************************)
(* The bytes of one connection: from the socket through the read buffer,   *)
(* the buffers of the worker's pool and the worker's queue to the user's   *)
(* READ handler, and from the user's WRITE handler through the write       *)
(* buffer to the socket (ConnectionRead and ConnectionWrite of             *)
(* src/src/connection.c, with buffer.c, worker.c and writer.c).            *)
(*                                                                         *)
(* The reader, worker and writer threads each do one access to what they   *)
(* share a step; the user closes the connection, gracefully or not and     *)
(* more than once, and asks to write at any time, from any thread.  How    *)
(* the connection is then given up and freed is in Server and Client.  The *)
(* bytes of a direction are numbered.                                      *)
(***************************************************************************)
EXTENDS Buffer, FiniteSets

CONSTANTS
    Batch,    \* AIO4C_BUFFER_POOL_BATCH_SIZE
    Loads,    \* bounds, one pair is chosen: bytes the peer sends, and times
              \* the user asks to write
    MaxPut    \* bound: bytes the WRITE handler puts each time

ASSUME TransferAssumption ==
    /\ Batch \in Nat \ {0}
    /\ Loads \subseteq (Nat \X Nat)
    /\ MaxPut \in 0 .. BufferSize

VARIABLES
    load,          \* the pair chosen
    state,         \* connection->state
    canRead,       \* connection->canRead
    canWrite,      \* connection->canWrite
    settling,      \* the thread that set the state has not set the flags yet
    toTell,        \* threads the dispatch of CLOSE has still to tell
    closed,        \* CLOSED was set once, and took the handlers of CLOSE
    \* inbound
    inbox,         \* bytes the socket received
    peerDone,      \* the peer will send no more
    readBuffer,    \* connection->readBuffer
    readerAt,      \* where the reader is in ConnectionRead
    readerHand,    \* the buffer it has allocated, or 0
    pool,          \* worker->pool->buffers
    emptied,       \* the emptied flag of that queue
    content,       \* the buffers made for the pool
    tasks,         \* worker->queue: buffers, and 0 for the CLOSE event
    workerAt,      \* where the worker is in the item it took
    workerHand,    \* buffer of the task it took, or 0
    \* outbound
    asking,        \* a call of EnableWriteInterest has tested canWrite
    outbound,      \* writer->queue: "OUTBOUND" and "CLOSE" events
    writerAt,      \* where the writer is in ConnectionWrite
    memorized,     \* pendingCloseMemorized
    writeBuffer,   \* connection->writeBuffer
    shut,          \* the writing end of the socket is shut down
    \* history
    sent,          \* bytes the peer sent
    delivered,     \* bytes the READ handler was given
    peak,          \* most buffers out of the pool at once
    asked,         \* OUTBOUND events put in the queue for the user
    calls,         \* calls of the WRITE handler
    put,           \* bytes it put
    wire           \* bytes the socket took

receiving == <<inbox, peerDone, sent>>
reading == <<readBuffer, readerAt, readerHand>>
pooled == <<pool, emptied, content, peak>>
working == <<tasks, workerAt, workerHand, delivered>>
inboundVars == <<receiving, reading, pooled, working>>
interest == <<asking, asked>>
writing == <<writerAt, memorized, writeBuffer, shut, calls, put, wire>>
outboundVars == <<interest, outbound, writing>>
closing == <<state, canRead, canWrite, settling, toTell, closed>>
vars == <<load, closing, inboundVars, outboundVars>>

Made == Len(content)
Numbers(n) == [i \in 1 .. n |-> i]

TypeOK ==
    /\ load \in Loads
    /\ state \in {"CONNECTED", "PENDING_CLOSE", "CLOSED"}
    /\ {canRead, canWrite, settling, closed} \subseteq BOOLEAN
    /\ toTell \in {<<>>, <<"writer">>, <<"worker", "writer">>}
    /\ inbox \in Seq(1 .. load[1])
    /\ peerDone \in BOOLEAN
    /\ readBuffer \in Buffers(1 .. load[1])
    /\ readerAt \in {"poll", "test", "allocate", "grow", "again", "copy", "offer"}
    /\ readerHand \in 0 .. Made
    /\ pool \in Seq(1 .. Made)
    /\ emptied \in BOOLEAN
    /\ content \in Seq(Buffers(1 .. load[1]))
    /\ tasks \in Seq(0 .. Made)
    /\ workerAt \in {"idle", "process", "release"}
    /\ workerHand \in 0 .. Made
    /\ asking \in BOOLEAN
    /\ outbound \in Seq({"OUTBOUND", "CLOSE"})
    /\ writerAt \in {"idle", "close", "produce", "send", "again"}
    /\ memorized \in BOOLEAN
    /\ writeBuffer \in Buffers(Nat)
    /\ writeBuffer.position <= writeBuffer.limit
    /\ shut \in BOOLEAN
    /\ sent \in 0 .. load[1]
    /\ delivered \in Seq(1 .. load[1])
    /\ peak \in 0 .. Made
    /\ asked \in 0 .. load[2]
    /\ calls \in Nat
    /\ put \in Nat
    /\ wire \in Seq(Nat)

\* The connection is CONNECTED and all its handlers are there.  The read and
\* write buffers come from NewConnection.
Init ==
    /\ load \in Loads
    /\ state = "CONNECTED"
    /\ canRead = TRUE
    /\ canWrite = TRUE
    /\ settling = FALSE
    /\ toTell = <<>>
    /\ closed = FALSE
    /\ inbox = <<>>
    /\ peerDone = FALSE
    /\ readBuffer = NewBuffer
    /\ readerAt = "poll"
    /\ readerHand = 0
    /\ pool = Numbers(Batch)
    /\ emptied = FALSE
    /\ content = [i \in 1 .. Batch |-> NewBuffer]
    /\ tasks = <<>>
    /\ workerAt = "idle"
    /\ workerHand = 0
    /\ asking = FALSE
    /\ outbound = <<>>
    /\ writerAt = "idle"
    /\ memorized = FALSE
    /\ writeBuffer = BufferLimit(NewBuffer, 0)
    /\ shut = FALSE
    /\ sent = 0
    /\ delivered = <<>>
    /\ peak = 0
    /\ asked = 0
    /\ calls = 0
    /\ put = 0
    /\ wire = <<>>

-----------------------------------------------------------------------------
(* ConnectionState                                                          *)

\* A thread sets another state than there is, once it has stateLock: it keeps
\* the lock until the flags are set and, for CLOSED, the handlers called.
\* These are handlers of once: the first CLOSED calls them and removes them.
\* (The test is made without the lock; but to set a state that is there by
\* then changes nothing, and finds no handler of CLOSE.)
SetState(s) ==
    /\ ~settling /\ toTell = <<>>
    /\ state # s
    /\ state' = s
    /\ settling' = TRUE
    /\ toTell' = IF s = "CLOSED" /\ ~closed THEN <<"worker", "writer">> ELSE <<>>
    /\ closed' = (closed \/ s = "CLOSED")
    /\ UNCHANGED <<canRead, canWrite>>

\* The flags of the two states that are set here.
SetFlags ==
    /\ settling
    /\ settling' = FALSE
    /\ canRead' = FALSE
    /\ canWrite' = (state = "PENDING_CLOSE")
    /\ UNCHANGED <<load, state, toTell, closed, inboundVars, outboundVars>>

\* ConnectionClose by a thread of the library, always with force.
Close == IF state = "CLOSED" THEN UNCHANGED closing ELSE SetState("CLOSED")

\* _WorkerCloseHandler
TellWorker ==
    /\ ~settling /\ toTell # <<>> /\ Head(toTell) = "worker"
    /\ toTell' = Tail(toTell)
    /\ tasks' = Append(tasks, 0)
    /\ UNCHANGED <<load, state, canRead, canWrite, settling, closed, receiving, reading,
                   pooled, workerAt, workerHand, delivered, outboundVars>>

\* _WriterEventHandler
TellWriter ==
    /\ ~settling /\ toTell # <<>> /\ Head(toTell) = "writer"
    /\ toTell' = Tail(toTell)
    /\ outbound' = Append(outbound, "CLOSE")
    /\ UNCHANGED <<load, state, canRead, canWrite, settling, closed, inboundVars, interest, writing>>

-----------------------------------------------------------------------------
(* The peer and the user                                                    *)
PeerSends ==
    /\ ~peerDone
    /\ sent < load[1]
    /\ sent' = sent + 1
    /\ inbox' = Append(inbox, sent + 1)
    /\ UNCHANGED <<load, closing, peerDone, reading, pooled, working, outboundVars>>

PeerCloses ==
    /\ ~peerDone
    /\ peerDone' = TRUE
    /\ UNCHANGED <<load, closing, inbox, sent, reading, pooled, working, outboundVars>>

\* ConnectionClose: a graceful close, also of a connection that is closed, or
\* one at once.
UserCloses(force) ==
    /\ SetState(IF force THEN "CLOSED" ELSE "PENDING_CLOSE")
    /\ UNCHANGED <<load, inboundVars, outboundVars>>

\* EnableWriteInterest: the test ...
UserAsks ==
    /\ ~asking
    /\ canWrite
    /\ asked < load[2]
    /\ asking' = TRUE
    /\ UNCHANGED <<load, closing, inboundVars, asked, outbound, writing>>

\* ... and the event.
AskToWrite ==
    /\ asking
    /\ asking' = FALSE
    /\ asked' = asked + 1
    /\ outbound' = Append(outbound, "OUTBOUND")
    /\ UNCHANGED <<load, closing, inboundVars, writing>>

-----------------------------------------------------------------------------
(* The reader: ConnectionRead, then _WorkerReadHandler                      *)

\* recv gives some of what there is; data nobody may read any more is wiped.
ReceiveData(n) ==
    /\ readerAt = "poll"
    /\ n \in 1 .. Len(inbox)
    /\ n <= BufferRemaining(readBuffer)
    /\ inbox' = SubSeq(inbox, n + 1, Len(inbox))
    /\ LET filled == Written(readBuffer, SubSeq(inbox, 1, n)) IN
       IF canRead
       THEN /\ readBuffer' = BufferPosition(filled, readBuffer.position + n)
            /\ readerAt' = "test"
       ELSE /\ readBuffer' = BufferReset(filled)
            /\ UNCHANGED readerAt
    /\ UNCHANGED <<load, closing, peerDone, sent, readerHand, pooled, working, outboundVars>>

\* recv returns 0, or an error; either way the connection is closed.  So it
\* is when there is no room left.
ReadFails ==
    /\ readerAt = "poll"
    /\ peerDone \/ (inbox # <<>> /\ ~BufferHasRemaining(readBuffer))
    /\ state # "CLOSED"
    /\ Close
    /\ UNCHANGED <<load, inboundVars, outboundVars>>

MoveReader(place) ==
    /\ readerAt' = place
    /\ UNCHANGED <<load, closing, receiving, tasks, workerAt, workerHand, delivered,
                   outboundVars>>

\* The handler does nothing on a connection that is closed.
TestClosed ==
    /\ readerAt = "test"
    /\ MoveReader(IF state = "CLOSED" THEN "poll" ELSE "allocate")
    /\ UNCHANGED <<readBuffer, readerHand, pooled>>

Larger(m, n) == IF m > n THEN m ELSE n

\* Dequeue of the pool's queue, without waiting, gives a buffer ...
Take ==
    /\ ~emptied
    /\ pool # <<>>
    /\ readerHand' = Head(pool)
    /\ pool' = Tail(pool)
    /\ emptied' = (pool' = <<>>)
    /\ peak' = Larger(peak, Made - Len(pool'))
    /\ MoveReader("copy")
    /\ UNCHANGED <<readBuffer, content>>

\* ... or says the queue is empty, or was emptied by the one before.
TakeNothing(place) ==
    /\ emptied \/ pool = <<>>
    /\ emptied' = FALSE
    /\ MoveReader(place)
    /\ UNCHANGED <<readBuffer, readerHand, pool, content, peak>>

\* AllocateBuffer: a first attempt, ...
Allocate ==
    /\ readerAt = "allocate"
    /\ Take \/ TakeNothing("grow")

\* ... a batch if there was nothing, ...
Grow ==
    /\ readerAt = "grow"
    /\ pool' = pool \o [i \in 1 .. Batch |-> Made + i]
    /\ content' = content \o [i \in 1 .. Batch |-> NewBuffer]
    /\ MoveReader("again")
    /\ UNCHANGED <<readBuffer, readerHand, emptied, peak>>

\* ... and a second attempt, whose failure nobody expects.
AllocateAgain ==
    /\ readerAt = "again"
    /\ Take

\* BufferFlip, BufferCopy, BufferReset
Copy ==
    /\ readerAt = "copy"
    /\ content' = [content EXCEPT ![readerHand] = BufferCopy(BufferFlip(readBuffer))]
    /\ readBuffer' = BufferReset(readBuffer)
    /\ MoveReader("offer")
    /\ UNCHANGED <<readerHand, pool, emptied, peak>>

\* EnqueueTaskItem.  The queue is not exiting, as it is the reader that ends
\* the worker.
Offer ==
    /\ readerAt = "offer"
    /\ tasks' = Append(tasks, readerHand)
    /\ readerHand' = 0
    /\ readerAt' = "poll"
    /\ UNCHANGED <<load, closing, receiving, readBuffer, pooled, workerAt, workerHand,
                   delivered, outboundVars>>

Reader ==
    \/ \E n \in 1 .. BufferSize : ReceiveData(n)
    \/ ReadFails
    \/ TestClosed \/ Allocate \/ Grow \/ AllocateAgain \/ Copy \/ Offer

-----------------------------------------------------------------------------
(* The worker: _WorkerRun                                                   *)

WorkerTakesWithoutReleasing ==
    /\ workerAt = "idle"
    /\ tasks # <<>>
    /\ IF Head(tasks) # 0
       THEN /\ tasks' = Tail(tasks)
            /\ workerHand' = Head(tasks)
            /\ workerAt' = "process"
       ELSE /\ tasks' = <<>>
            /\ UNCHANGED <<workerHand, workerAt>>
    /\ UNCHANGED <<load, closing, receiving, reading, pooled, delivered, outboundVars>>

\* A task, or CLOSE, after which RemoveAll releases what tasks are left.
WorkerTakes ==
    /\ workerAt = "idle"
    /\ tasks # <<>>
    /\ IF Head(tasks) # 0
       THEN /\ tasks' = Tail(tasks)
            /\ workerHand' = Head(tasks)
            /\ workerAt' = "process"
            /\ UNCHANGED <<pool, content>>
       ELSE /\ tasks' = <<>>
            /\ pool' = pool \o Tail(tasks)
            /\ content' = [i \in 1 .. Made |->
                              IF i \in ToSet(Tail(tasks)) THEN BufferReset(content[i])
                              ELSE content[i]]
            /\ UNCHANGED <<workerHand, workerAt>>
    /\ UNCHANGED <<load, closing, receiving, reading, emptied, peak, delivered, outboundVars>>

\* ConnectionProcessData: the READ handler reads all of the data buffer.
Process ==
    /\ workerAt = "process"
    /\ delivered' = delivered \o Rest(content[workerHand])
    /\ workerAt' = "release"
    /\ UNCHANGED <<load, closing, receiving, reading, pooled, tasks, workerHand, outboundVars>>

\* ReleaseBuffer
Release ==
    /\ workerAt = "release"
    /\ content' = [content EXCEPT ![workerHand] = BufferReset(@)]
    /\ pool' = Append(pool, workerHand)
    /\ workerHand' = 0
    /\ workerAt' = "idle"
    /\ UNCHANGED <<load, closing, receiving, reading, emptied, peak, tasks, delivered, outboundVars>>

Worker == WorkerTakes \/ Process \/ Release

-----------------------------------------------------------------------------
(* The writer: _WriterRun and ConnectionWrite                               *)

\* An event about a connection that may not be written to closes it.  (The
\* state is read after the flag; it may as well be read with it.)
WriterTakes ==
    /\ writerAt = "idle"
    /\ outbound # <<>> /\ Head(outbound) = "OUTBOUND"
    /\ outbound' = Tail(outbound)
    /\ IF canWrite
       THEN /\ memorized' = (state = "PENDING_CLOSE")
            /\ writerAt' = IF BufferHasRemaining(writeBuffer) THEN "send" ELSE "produce"
       ELSE /\ writerAt' = "close"
            /\ UNCHANGED memorized
    /\ UNCHANGED <<load, closing, inboundVars, interest, writeBuffer, shut, calls, put, wire>>

WriterCloses ==
    /\ writerAt = "close"
    /\ writerAt' = "idle"
    /\ Close
    /\ UNCHANGED <<load, inboundVars, interest, outbound, memorized, writeBuffer, shut, calls, put, wire>>

\* RemoveAll takes every event about the connection that is left.
WriterForgets ==
    /\ writerAt = "idle"
    /\ outbound # <<>> /\ Head(outbound) = "CLOSE"
    /\ outbound' = <<>>
    /\ UNCHANGED <<load, closing, inboundVars, interest, writing>>

\* The WRITE handler puts n bytes, between BufferReset and BufferFlip.
Produce(n) ==
    /\ writerAt = "produce"
    /\ calls' = calls + 1
    /\ put' = put + n
    /\ writeBuffer' = BufferFlip(BufferPut(BufferReset(writeBuffer), [i \in 1 .. n |-> put + i]))
    /\ writerAt' = "send"
    /\ UNCHANGED <<load, closing, inboundVars, interest, outbound, memorized, shut, wire>>

\* The writing end is shut down once all is sent, if the close was pending
\* when ConnectionWrite began.
ShutsDown(n) == memorized /\ n = BufferRemaining(writeBuffer)

SendFromStart(n) ==
    /\ writerAt = "send"
    /\ ~shut
    /\ n <= BufferRemaining(writeBuffer)
    /\ n = 0 => ~BufferHasRemaining(writeBuffer)
    /\ wire' = wire \o SubSeq(writeBuffer.data, 1, n)
    /\ writeBuffer' = BufferPosition(writeBuffer, writeBuffer.position + n)
    /\ shut' = ShutsDown(n)
    /\ writerAt' = IF n < BufferRemaining(writeBuffer) THEN "again" ELSE "idle"
    /\ UNCHANGED <<load, closing, inboundVars, interest, outbound, memorized, calls, put>>

SendAgain(n) ==
    /\ writerAt = "send"
    /\ ~shut
    /\ n <= BufferRemaining(writeBuffer)
    /\ n = 0 => ~BufferHasRemaining(writeBuffer)
    /\ wire' = wire \o SubSeq(Rest(writeBuffer), 1, n)
    /\ writeBuffer' = BufferPosition(writeBuffer, writeBuffer.position + n)
    /\ shut' = ShutsDown(n)
    /\ writerAt' = IF n <= BufferRemaining(writeBuffer) THEN "again" ELSE "idle"
    /\ UNCHANGED <<load, closing, inboundVars, interest, outbound, memorized, calls, put>>

\* send takes n bytes, some of them if there are any.
Send(n) ==
    /\ writerAt = "send"
    /\ ~shut
    /\ n <= BufferRemaining(writeBuffer)
    /\ n = 0 => ~BufferHasRemaining(writeBuffer)
    /\ wire' = wire \o SubSeq(Rest(writeBuffer), 1, n)
    /\ writeBuffer' = BufferPosition(writeBuffer, writeBuffer.position + n)
    /\ shut' = ShutsDown(n)
    /\ writerAt' = IF n < BufferRemaining(writeBuffer) THEN "again" ELSE "idle"
    /\ UNCHANGED <<load, closing, inboundVars, interest, outbound, memorized, calls, put>>

\* The socket's buffer is full (EAGAIN), its writing end is shut down (EPIPE)
\* or the peer is gone.
SendFails ==
    /\ writerAt = "send"
    /\ shut \/ BufferHasRemaining(writeBuffer)
    /\ writerAt' = "idle"
    /\ Close
    /\ UNCHANGED <<load, inboundVars, interest, outbound, memorized, writeBuffer, shut, calls, put, wire>>

DropRest ==
    /\ writerAt = "again"
    /\ writerAt' = "idle"
    /\ UNCHANGED <<load, closing, inboundVars, interest, outbound, memorized, writeBuffer, shut, calls,
                   put, wire>>

\* Not everything was sent: the event goes back to the end of the queue.
WriteAgain ==
    /\ writerAt = "again"
    /\ writerAt' = "idle"
    /\ outbound' = Append(outbound, "OUTBOUND")
    /\ UNCHANGED <<load, closing, inboundVars, interest, memorized, writeBuffer, shut, calls, put, wire>>

Writer ==
    \/ WriterTakes \/ WriterCloses \/ WriterForgets
    \/ \E n \in 0 .. MaxPut : Produce(n)
    \/ \E n \in 0 .. BufferSize : Send(n)
    \/ SendFails \/ WriteAgain

-----------------------------------------------------------------------------
Peer == PeerSends \/ PeerCloses
User == \E force \in BOOLEAN : UserCloses(force)
Tell == SetFlags \/ TellWorker \/ TellWriter

Next == Peer \/ User \/ UserAsks \/ AskToWrite \/ Tell \/ Reader \/ Worker \/ Writer

Spec == Init /\ [][Next]_vars

\* The threads are scheduled; nobody has to send, to ask or to close.
FairSpec ==
    /\ Spec
    /\ WF_vars(Reader) /\ WF_vars(Worker) /\ WF_vars(Writer)
    /\ WF_vars(Tell) /\ WF_vars(AskToWrite)

-----------------------------------------------------------------------------
(* Properties.                                                              *)

\* Every buffer made for the pool is in one place, and once: in the pool, in
\* a task, or in the hand of the reader or of the worker (AllocateBuffer,
\* ReleaseBuffer, _removeCallback).
Hands == {readerHand, workerHand} \ {0}

OneHand ==
    /\ ToSet(pool) \cup Hands \cup (ToSet(tasks) \ {0}) = 1 .. Made
    /\ IsInjective(pool) /\ IsInjective(tasks)
    /\ readerHand = workerHand => workerHand = 0
    /\ Hands \cap ToSet(tasks) = {}
    /\ ToSet(pool) \cap (Hands \cup ToSet(tasks)) = {}

\* The pool grows only when every buffer was out at once, although Dequeue
\* also fails on a queue that was emptied before (AllocateBuffer).
GrowsWhenNeeded == Made <= peak + Batch

\* The pool neither loses nor lends a buffer twice, and grows when it must;
\* and no buffer leaves its bounds (the types).
PoolKept == TypeOK /\ OneHand /\ GrowsWhenNeeded

BytesOf(b) == IF b = 0 THEN <<>> ELSE Rest(content[b])
Received(b) == SubSeq(b.data, 1, b.position)
InHand(place) == IF workerAt = place THEN BytesOf(workerHand) ELSE <<>>

\* What the worker has begun with, the buffers it will take in their order,
\* and what no buffer of the pool has yet.
Begun == delivered \o InHand("process")
Coming == IF readerAt = "offer" THEN Append(tasks, readerHand) ELSE tasks
Unread == Received(readBuffer) \o inbox

\* bytes are the ones that come after byte n; the number of the byte before
\* the i-th buffer to come.
After(n, bytes) == \A j \in DOMAIN bytes : bytes[j] = n + j
Preceding(i) == IF i = 1 THEN Len(Begun) ELSE Last(BytesOf(Coming[i - 1]))

\* The READ handler is given what the peer sent, in order and nothing twice;
\* nothing is missing as long as the connection may be read: what the handler
\* has, the buffers on their way to it, the read buffer and the socket hold
\* every byte, one after the other (ConnectionRead, _WorkerReadHandler,
\* _WorkerRun).
ReadInOrder ==
    /\ After(0, delivered)
    /\ canRead =>
          /\ After(0, Begun)
          /\ \A i \in DOMAIN Coming :
                BytesOf(Coming[i]) # <<>> /\ After(Preceding(i), BytesOf(Coming[i]))
          /\ After(Preceding(Len(Coming) + 1), Unread)
          /\ sent = Preceding(Len(Coming) + 1) + Len(Unread)

\* What the socket takes is what the WRITE handler put, in order, and what is
\* not sent yet is in the write buffer, all of it, even after a send that
\* failed (ConnectionWrite).
WrittenInOrder == wire \o Rest(writeBuffer) = Numbers(put)

\* Both directions at once, with the closes of either side in between.
BytesInOrder == ReadInOrder /\ WrittenInOrder

Outbound == Cardinality({i \in DOMAIN outbound : outbound[i] = "OUTBOUND"})

\* The WRITE handler is called for the events the user asked for, and for
\* nothing else: never once more, whatever was closed, reopened and lost; and
\* until a first CLOSED no event is lost either.  A partial send, which puts
\* an event back that is then used for what is left, does not change the count
\* (EnableWriteInterest, ConnectionWrite, _WriterRun).
Left == IF BufferHasRemaining(writeBuffer) THEN 1 ELSE 0

InterestCounted ==
    writerAt = "idle" =>
        /\ calls + Outbound <= asked + Left
        /\ ~closed => calls + Outbound = asked + Left

\* The same, as a promise: whoever asked to write gets to, and what is put is
\* sent, unless the connection is CLOSED once.
InterestServed ==
    asked > calls \/ BufferHasRemaining(writeBuffer) ~>
        (calls = asked /\ ~BufferHasRemaining(writeBuffer)) \/ closed

\* "The onWrite method will be called the same number of times this method is
\* called" (Connection.java, enableWriteInterest): but what was asked for, or
\* left to send, when a connection was CLOSED is lost when it is reopened.
InterestKept ==
    canWrite /\ ~settling /\ toTell = <<>> /\ writerAt = "idle" =>
        calls + Outbound = asked + Left

\* What Connection.java says of a graceful close: "output buffers will be sent
\* over the network, then, the connection will be closed".
OutputSentBeforeClose == shut => Len(wire) = put
=============================================================================
