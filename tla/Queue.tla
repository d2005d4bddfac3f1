------------------------------- MODULE Queue -------------------------------
(***************************************************************************)
(* The blocking FIFO of src/src/queue.c, on which every thread of the      *)
(* library sleeps or polls.                                                *)
(*                                                                         *)
(* Every operation runs under queue->lock, so an operation is one step,    *)
(* except where the code gives the lock up (WaitCondition in Dequeue) and  *)
(* where it loops (RemoveAll), which takes one step per visited node while *)
(* everybody else is shut out.  An item is abstracted to its type, the     *)
(* connection RemoveAll discriminates on, and a ticket: its rank among the *)
(* items the queue ever accepted.  Allocation failures are not modelled.   *)
(***************************************************************************)
EXTENDS Integers, Sequences, SequencesExt, FiniteSets

CONSTANTS
    Consumers,    \* threads that call Dequeue
    Conns,        \* connections items are about
    NoConn,       \* stands for "no RemoveAll under way", and for an EXIT item
    Types,        \* types of the items the queue's users put in it
    RemovedType,  \* the type of item RemoveAll's callback selects
    MaxItems,     \* bound: number of items accepted in a behaviour
    WaitMayFail   \* whether WaitCondition may report an error

ASSUME QueueAssumption ==
    /\ IsFiniteSet(Consumers)
    /\ Consumers # {}
    /\ NoConn \notin Conns
    /\ "EXIT" \notin Types
    /\ RemovedType \in Types
    /\ MaxItems \in Nat
    /\ WaitMayFail \in BOOLEAN

VARIABLES
    busy,        \* queue->busy: the pending items, oldest first
    free,        \* Len(queue->free): nodes kept for reuse
    exit,        \* queue->exit
    emptied,     \* queue->emptied
    waiting,     \* consumers asleep on queue->condition, not yet signalled
    woken,       \* consumers signalled, that have not got the lock back yet
    scanning,    \* connection of the RemoveAll that holds the lock, or NoConn
    cursor,      \* position of the next node RemoveAll looks at
    answer,      \* what the last Dequeue of each consumer returned
    freed,       \* FreeQueue has run
    \* history, read by the properties only (and by the bounds)
    tickets,     \* number of items accepted
    taken,       \* tickets handed to a consumer
    dropped,     \* tickets taken out by RemoveAll
    allocated,   \* nodes alive
    peak,        \* most items ever pending at once
    closed       \* connections RemoveAll was called for

lists == <<busy, free>>
flags == <<exit, emptied, freed>>
condition == <<waiting, woken>>
loop == <<scanning, cursor>>
history == <<tickets, taken, dropped, allocated, peak, closed>>
vars == <<lists, flags, condition, loop, answer, history>>

Items == [type : Types \cup {"EXIT"}, conn : Conns \cup {NoConn}, ticket : Nat]
Answers == {"initial", "item", "exit", "nothing"}

TypeOK ==
    /\ busy \in Seq(Items)
    /\ free \in Nat
    /\ exit \in BOOLEAN
    /\ emptied \in BOOLEAN
    /\ waiting \in SUBSET Consumers
    /\ woken \in SUBSET Consumers
    /\ waiting \cap woken = {}
    /\ scanning \in Conns \cup {NoConn}
    /\ cursor \in Nat \ {0}
    /\ answer \in [Consumers -> Answers]
    /\ freed \in BOOLEAN
    /\ tickets \in Nat
    /\ taken \in SUBSET Nat
    /\ dropped \in SUBSET Nat
    /\ allocated \in Nat
    /\ peak \in Nat
    /\ closed \in SUBSET Conns

-----------------------------------------------------------------------------
(* NewQueue *)
Init ==
    /\ busy = <<>>
    /\ free = 0
    /\ exit = FALSE
    /\ emptied = FALSE
    /\ waiting = {}
    /\ woken = {}
    /\ scanning = NoConn
    /\ cursor = 1
    /\ answer = [t \in Consumers |-> "initial"]
    /\ freed = FALSE
    /\ tickets = 0
    /\ taken = {}
    /\ dropped = {}
    /\ allocated = 0
    /\ peak = 0
    /\ closed = {}

\* queue->lock is free and the queue is still there to be called.
LockFree == scanning = NoConn /\ ~freed

\* pthread_cond_signal: one sleeper, whichever the system chooses, if any.
NotifyNobody == UNCHANGED condition

NotifyCondition ==
    \/ /\ waiting = {}
       /\ UNCHANGED condition
    \/ \E t \in waiting :
          /\ waiting' = waiting \ {t}
          /\ woken' = woken \cup {t}

-----------------------------------------------------------------------------
(* _Enqueue, reached through EnqueueDataItem, EnqueueEventItem,            *)
(* EnqueueTaskItem and EnqueueExitItem.                                    *)

\* A node of the free list, or a new one, is filled and added last.
AddFirst(item) ==
    /\ busy' = <<item>> \o busy
    /\ free' = IF free = 0 THEN 0 ELSE free - 1
    /\ allocated' = IF free = 0 THEN allocated + 1 ELSE allocated
    /\ peak' = IF Len(busy) < peak THEN peak ELSE Len(busy) + 1

AddWithoutNode(item) ==
    /\ busy' = Append(busy, item)
    /\ free' = free - 1
    /\ peak' = IF Len(busy) < peak THEN peak ELSE Len(busy) + 1
    /\ UNCHANGED allocated

AddLast(item) ==
    /\ busy' = Append(busy, item)
    /\ free' = IF free = 0 THEN 0 ELSE free - 1
    /\ allocated' = IF free = 0 THEN allocated + 1 ELSE allocated
    /\ peak' = IF Len(busy) < peak THEN peak ELSE Len(busy) + 1

Accept(type, c) ==
    /\ LockFree
    /\ tickets < MaxItems
    /\ tickets' = tickets + 1
    /\ AddLast([type |-> type, conn |-> c, ticket |-> tickets + 1])
    /\ exit' = (exit \/ type = "EXIT")
    /\ NotifyCondition
    /\ UNCHANGED <<emptied, loop, answer, freed, taken, dropped, closed>>

\* On an exiting or freed queue, _Enqueue returns false and changes nothing.
Enqueue(type, c) ==
    /\ ~exit
    /\ Accept(type, c)

-----------------------------------------------------------------------------
(* Dequeue.  A consumer that got the EXIT item does not come back.         *)

Outside(t) == t \notin waiting \cup woken /\ answer[t] # "exit"

\* The queue was emptied by the previous Dequeue: say so, once.
DequeueStaysEmptied(t) ==
    /\ LockFree
    /\ Outside(t)
    /\ emptied
    /\ answer' = [answer EXCEPT ![t] = "nothing"]
    /\ UNCHANGED <<lists, flags, condition, loop, history>>

DequeueEmptied(t) ==
    /\ LockFree
    /\ Outside(t)
    /\ emptied
    /\ emptied' = FALSE
    /\ answer' = [answer EXCEPT ![t] = "nothing"]
    /\ UNCHANGED <<lists, exit, freed, condition, loop, history>>

\* The oldest item is handed over and its node kept for reuse.
PopLeaksNode(t) ==
    /\ busy # <<>>
    /\ busy' = Tail(busy)
    /\ emptied' = (busy' = <<>>)
    /\ answer' = [answer EXCEPT ![t] = IF Head(busy).type = "EXIT" THEN "exit" ELSE "item"]
    /\ taken' = taken \cup {Head(busy).ticket}
    /\ woken' = woken \ {t}
    /\ UNCHANGED <<free, waiting, exit, freed, loop, tickets, dropped, allocated, peak, closed>>

Pop(t) ==
    /\ busy # <<>>
    /\ busy' = Tail(busy)
    /\ free' = free + 1
    /\ emptied' = (busy' = <<>>)
    /\ answer' = [answer EXCEPT ![t] = IF Head(busy).type = "EXIT" THEN "exit" ELSE "item"]
    /\ taken' = taken \cup {Head(busy).ticket}
    /\ woken' = woken \ {t}
    /\ UNCHANGED <<waiting, exit, freed, loop, tickets, dropped, allocated, peak, closed>>

\* pthread_cond_wait lets the lock go.
Sleep(t, wait) ==
    /\ busy = <<>>
    /\ wait /\ ~exit
    /\ waiting' = waiting \cup {t}
    /\ woken' = woken \ {t}
    /\ UNCHANGED <<lists, flags, loop, answer, history>>

\* Nothing to hand over, and no reason (or no way) to wait.
GiveUp(t, wait) ==
    /\ busy = <<>>
    /\ exit \/ ~wait \/ WaitMayFail
    /\ answer' = [answer EXCEPT ![t] = "nothing"]
    /\ woken' = woken \ {t}
    /\ UNCHANGED <<lists, flags, waiting, loop, history>>

DequeueLoop(t, wait) == Pop(t) \/ Sleep(t, wait) \/ GiveUp(t, wait)

Dequeue(t, wait) ==
    /\ LockFree
    /\ Outside(t)
    /\ ~emptied
    /\ DequeueLoop(t, wait)

\* Back from pthread_cond_wait with the lock: the loop's test again.
Resume(t) ==
    /\ LockFree
    /\ t \in woken
    /\ DequeueLoop(t, TRUE)

\* POSIX lets pthread_cond_wait return without a signal.
SpuriousWakeUp(t) ==
    /\ t \in waiting
    /\ waiting' = waiting \ {t}
    /\ woken' = woken \cup {t}
    /\ UNCHANGED <<lists, flags, loop, answer, history>>

-----------------------------------------------------------------------------
(* RemoveAll.  The _removeCallback of worker.c, writer.c and acceptor.c    *)
(* selects the items of one type about one connection; each calls it once  *)
(* a connection, on its close event.                                       *)
RemoveAllBegin(c) ==
    /\ LockFree
    /\ c \notin closed
    /\ closed' = closed \cup {c}
    /\ scanning' = c
    /\ cursor' = 1
    /\ NotifyCondition
    /\ UNCHANGED <<lists, flags, answer, tickets, taken, dropped, allocated, peak>>

Selected(item) == item.type = RemovedType /\ item.conn = scanning

RemoveNodeSkipsNext ==
    /\ scanning # NoConn
    /\ cursor <= Len(busy)
    /\ Selected(busy[cursor])
    /\ busy' = RemoveAt(busy, cursor)
    /\ cursor' = cursor + 1
    /\ free' = free + 1
    /\ dropped' = dropped \cup {busy[cursor].ticket}
    /\ UNCHANGED <<flags, condition, scanning, answer, tickets, taken, allocated, peak, closed>>

RemoveNode ==
    /\ scanning # NoConn
    /\ cursor <= Len(busy)
    /\ Selected(busy[cursor])
    /\ busy' = RemoveAt(busy, cursor)
    /\ free' = free + 1
    /\ dropped' = dropped \cup {busy[cursor].ticket}
    /\ UNCHANGED <<flags, condition, loop, answer, tickets, taken, allocated, peak, closed>>

KeepNode ==
    /\ scanning # NoConn
    /\ cursor <= Len(busy)
    /\ ~Selected(busy[cursor])
    /\ cursor' = cursor + 1
    /\ UNCHANGED <<lists, flags, condition, scanning, answer, history>>

RemoveAllEnd ==
    /\ scanning # NoConn
    /\ cursor > Len(busy)
    /\ scanning' = NoConn
    /\ cursor' = 1
    /\ UNCHANGED <<lists, flags, condition, answer, history>>

(* FreeQueue, by the consumer's own exit routine, once nobody sleeps on    *)
(* the queue.                                                              *)
FreeQueue(t) ==
    /\ LockFree
    /\ answer[t] = "exit"
    /\ waiting = {} /\ woken = {}
    /\ freed' = TRUE
    /\ allocated' = allocated - free - Len(busy)
    /\ free' = 0
    /\ busy' = <<>>
    /\ UNCHANGED <<exit, emptied, condition, loop, answer, tickets, taken, dropped, peak, closed>>

-----------------------------------------------------------------------------
Consume(t) ==
    \/ DequeueEmptied(t)
    \/ \E wait \in BOOLEAN : Dequeue(t, wait)
    \/ Resume(t)

Scan == RemoveNode \/ KeepNode \/ RemoveAllEnd

Next ==
    \/ \E type \in Types, c \in Conns : Enqueue(type, c)
    \/ Enqueue("EXIT", NoConn)
    \/ \E t \in Consumers : Consume(t) \/ SpuriousWakeUp(t) \/ FreeQueue(t)
    \/ \E c \in Conns : RemoveAllBegin(c)
    \/ Scan

Spec == Init /\ [][Next]_vars

(* The consumers are loops (_ReaderRun, _WorkerRun, ...), a pthread mutex  *)
(* is eventually granted, and RemoveAll's loop runs to its end.            *)
Fairness ==
    /\ \A t \in Consumers : WF_vars(Consume(t))
    /\ WF_vars(Scan)

FairSpec == Spec /\ Fairness

-----------------------------------------------------------------------------
(* Properties *)

Pending == {busy[i].ticket : i \in DOMAIN busy}

(* Every accepted item is pending, or was handed to a consumer, or was     *)
(* taken out by RemoveAll, and only one of these: _Enqueue, Dequeue and    *)
(* RemoveAll neither lose nor duplicate an item.                           *)
Conservation ==
    /\ 1..tickets = taken \cup dropped \cup Pending
    /\ taken \cap dropped = {}
    /\ taken \cap Pending = {}
    /\ dropped \cap Pending = {}

(* First in, first out: the pending items are in the order _Enqueue        *)
(* accepted them, and all of them came after every item Dequeue handed     *)
(* over, whatever RemoveAll took out in between.                           *)
FIFO ==
    /\ \A i, j \in DOMAIN busy : i < j => busy[i].ticket < busy[j].ticket
    /\ \A i \in DOMAIN busy, n \in taken : n < busy[i].ticket

(* Nodes move between the two lists and are never leaked: until FreeQueue, *)
(* each node alive is in one of them, and the queue never allocates more   *)
(* nodes than the most items it ever held; FreeQueue frees all of them.    *)
NodesRecycled ==
    /\ allocated = Len(busy) + free
    /\ ~freed => allocated = peak
    /\ freed => allocated = 0

(* No lost wake-up: while some consumer sleeps unsignalled, every pending  *)
(* item has a signalled consumer on its way to take it (one signal per     *)
(* _Enqueue is enough, in spite of consumers that poll in between).        *)
NoLostWakeUp ==
    waiting # {} => Len(busy) <= Cardinality(woken)

(* The EXIT item wakes the thread that waits on the queue: once exit is    *)
(* set, not all consumers sleep unsignalled (the users have one consumer   *)
(* per queue: it never sleeps through the exit).                           *)
ExitWakes == exit => waiting # Consumers

(* EXIT is the last item the queue accepts: nothing is pending behind it,  *)
(* so the thread that stops on it leaves no item, event or task unserved.  *)
NothingBehindExit ==
    /\ \A i \in DOMAIN busy : busy[i].type = "EXIT" => exit /\ i = Len(busy)
    /\ (\E t \in Consumers : answer[t] = "exit") => exit /\ busy = <<>>

(* What _Enqueue accepts is delivered: Dequeue and RemoveAll neither lose  *)
(* nor duplicate nor reorder an item, and nothing is behind EXIT.          *)
Delivered == Conservation /\ FIFO /\ NothingBehindExit

(* Whoever sleeps in Dequeue with something to come back for is on its way *)
(* to be woken, by an item or by EXIT.                                     *)
NobodyLeftAsleep == NoLostWakeUp /\ ExitWakes

(* Every accepted item is eventually handed over or removed, although a    *)
(* Dequeue that finds the emptied flag returns nothing while items wait.   *)
EventuallyServed ==
    \A n \in 1..MaxItems : (n <= tickets) ~> (n \in taken \cup dropped)

(* RemoveAll's items are out of the queue as soon as it has the lock: no   *)
(* consumer can see them any more.                                         *)
Visible == {busy[i] : i \in {j \in DOMAIN busy : scanning = NoConn \/ ~Selected(busy[j])}}

Abstract == INSTANCE Channel WITH
    sent <- tickets, pending <- Visible, received <- taken, open <- ~exit

(* To its users the queue is the atomic FIFO of Channel, although          *)
(* RemoveAll walks the list node by node, Dequeue sleeps and polls, and    *)
(* FreeQueue throws away whatever is left: none of these loses or reorders *)
(* an item.                                                                *)
Implements == Abstract!Spec

(* queue.h on Dequeue: it returns false only when the queue is empty.      *)
DequeueFailsOnlyWhenEmpty ==
    [][\A t \in Consumers :
          answer[t] # "nothing" /\ answer'[t] = "nothing" => busy = <<>>]_vars
============================================================================
