---------------------------- MODULE QueueProofs -----------------------------
(***************************************************************************)
(* Proofs about Queue, for any numbers of consumers, connections, types    *)
(* and items.                                                              *)
(***************************************************************************)
EXTENDS Queue, SequenceLemmas, FiniteSetTheorems

USE QueueAssumption

(* The steps of Next, one disjunct per thing that can happen to the lists  *)
(* and to the threads on the condition.                                    *)
Hands(t) == LockFree /\ Pop(t) /\ (t \in woken \/ Outside(t))
FallsAsleep(t) == LockFree /\ Sleep(t, TRUE) /\ (t \in woken \/ Outside(t))
Returns(t) == LockFree /\ \E wait \in BOOLEAN : GiveUp(t, wait)

(* What a thread inside Dequeue does, whether it just came or just woke.   *)
LEMMA ConsumeSteps ==
    ASSUME NEW t \in Consumers, Consume(t)
    PROVE  DequeueEmptied(t) \/ Hands(t) \/ FallsAsleep(t) \/ Returns(t)
<1>1. CASE \E wait \in BOOLEAN : Dequeue(t, wait)
  BY <1>1 DEF Dequeue, DequeueLoop, Hands, FallsAsleep, Returns, Sleep
<1>2. CASE Resume(t)
  BY <1>2 DEF Resume, DequeueLoop, Hands, FallsAsleep, Returns
<1> QED
  BY <1>1, <1>2 DEF Consume

(* Every step of queue.c's operations, once Dequeue, Resume and the scan   *)
(* of RemoveAll are split into the branches of their loops.                *)
LEMMA Steps ==
    ASSUME Next
    PROVE  \/ \E type \in Types \cup {"EXIT"}, c \in Conns \cup {NoConn} : Enqueue(type, c)
           \/ \E t \in Consumers : \/ DequeueEmptied(t)
                                   \/ Hands(t)
                                   \/ FallsAsleep(t)
                                   \/ Returns(t)
                                   \/ SpuriousWakeUp(t)
                                   \/ FreeQueue(t)
           \/ \E c \in Conns : RemoveAllBegin(c)
           \/ RemoveNode \/ KeepNode \/ RemoveAllEnd
<1>1. CASE \E type \in Types, c \in Conns : Enqueue(type, c)
  BY <1>1
<1>2. CASE Enqueue("EXIT", NoConn)
  BY <1>2
<1>3. CASE \E t \in Consumers : Consume(t) \/ SpuriousWakeUp(t) \/ FreeQueue(t)
  BY <1>3, ConsumeSteps
<1> QED
  BY <1>1, <1>2, <1>3 DEF Next, Scan

-----------------------------------------------------------------------------
(* Typing, and the nodes                                                   *)

NodesInv == TypeOK /\ NodesRecycled

(* NewQueue starts with two empty lists and no node.                       *)
LEMMA NodesInit ==
    ASSUME Init
    PROVE  NodesInv
<1>1. busy \in Seq(Items) /\ Len(busy) = 0
  BY EmptySeq DEF Init
<1>2. answer \in [Consumers -> Answers]
  BY DEF Init, Answers
<1>3. TypeOK
  <2>1. /\ waiting \in SUBSET Consumers
        /\ woken \in SUBSET Consumers
        /\ waiting \cap woken = {}
        /\ taken \in SUBSET Nat
        /\ dropped \in SUBSET Nat
        /\ closed \in SUBSET Conns
    BY DEF Init
  <2>2. /\ free \in Nat
        /\ scanning \in Conns \cup {NoConn}
        /\ cursor \in Nat \ {0}
        /\ tickets \in Nat
        /\ allocated \in Nat
        /\ peak \in Nat
    BY DEF Init
  <2>3. exit \in BOOLEAN /\ emptied \in BOOLEAN /\ freed \in BOOLEAN
    BY DEF Init
  <2> QED
    BY <1>1, <1>2, <2>1, <2>2, <2>3 DEF TypeOK
<1>4. NodesRecycled
  BY <1>1 DEF Init, NodesRecycled
<1> QED
  BY <1>3, <1>4 DEF NodesInv

(* _Enqueue, Dequeue, RemoveAll and FreeQueue move nodes between the two   *)
(* lists and keep the fields in their domains.                             *)
LEMMA NodesNext ==
    ASSUME NodesInv, [Next]_vars
    PROVE  NodesInv'
<1> USE DEF NodesInv
<1>0. busy \in Seq(Items) /\ Len(busy) \in Nat
  BY LenProperties DEF TypeOK
<1>1. ASSUME NEW type \in Types \cup {"EXIT"}, NEW c \in Conns \cup {NoConn}, Enqueue(type, c)
      PROVE  NodesInv'
  <2> DEFINE item == [type |-> type, conn |-> c, ticket |-> tickets + 1]
  <2>1. item \in Items
    BY DEF Items, TypeOK
  <2>2. busy' \in Seq(Items) /\ Len(busy') = Len(busy) + 1
    BY <1>0, <1>1, <2>1, AppendProperties DEF Enqueue, Accept, AddLast
  <2>3. /\ waiting' \in SUBSET Consumers
        /\ woken' \in SUBSET Consumers
        /\ waiting' \cap woken' = {}
    BY <1>1 DEF Enqueue, Accept, NotifyCondition, TypeOK, condition
  <2>4. exit' \in BOOLEAN
    BY <1>1 DEF Enqueue, Accept, TypeOK
  <2>5. TypeOK'
    BY <1>0, <1>1, <2>2, <2>3, <2>4 DEF Enqueue, Accept, AddLast, TypeOK, loop
  <2>6. NodesRecycled'
    <3>1. /\ ~freed /\ ~freed'
          /\ free' = IF free = 0 THEN 0 ELSE free - 1
          /\ allocated' = IF free = 0 THEN allocated + 1 ELSE allocated
          /\ peak' = IF Len(busy) < peak THEN peak ELSE Len(busy) + 1
      BY <1>1 DEF Enqueue, Accept, AddLast, LockFree
    <3>2. free \in Nat /\ allocated \in Nat /\ peak \in Nat
      BY DEF TypeOK
    <3>3. allocated = Len(busy) + free /\ allocated = peak
      BY <3>1 DEF NodesRecycled
    <3> QED
      BY <1>0, <2>2, <3>1, <3>2, <3>3 DEF NodesRecycled
  <2> QED
    BY <2>5, <2>6
<1>2. ASSUME NEW t \in Consumers, DequeueEmptied(t)
      PROVE  NodesInv'
  BY <1>2 DEF DequeueEmptied, TypeOK, NodesRecycled, Answers, lists, condition, loop, history
<1>3. ASSUME NEW t \in Consumers, Hands(t)
      PROVE  NodesInv'
  <2>1. busy' \in Seq(Items) /\ Len(busy') = Len(busy) - 1
    BY <1>0, <1>3, TailProperties DEF Hands, Pop
  <2>2. busy[1] \in Items /\ Head(busy) = busy[1]
    BY <1>0, <1>3, TailProperties DEF Hands, Pop
  <2>3. taken' \in SUBSET Nat
    BY <1>3, <2>2 DEF Hands, Pop, TypeOK, Items
  <2>4. TypeOK'
    BY <1>0, <1>3, <2>1, <2>3 DEF Hands, Pop, TypeOK, Answers, loop
  <2>5. NodesRecycled'
    BY <1>0, <1>3, <2>1 DEF Hands, Pop, TypeOK, NodesRecycled, LockFree
  <2> QED
    BY <2>4, <2>5
<1>4. ASSUME NEW t \in Consumers, FallsAsleep(t)
      PROVE  NodesInv'
  BY <1>4 DEF FallsAsleep, Sleep, TypeOK, NodesRecycled, lists, flags, loop, history
<1>5. ASSUME NEW t \in Consumers, Returns(t)
      PROVE  NodesInv'
  BY <1>5 DEF Returns, GiveUp, TypeOK, NodesRecycled, Answers, lists, flags, loop, history
<1>6. ASSUME NEW t \in Consumers, SpuriousWakeUp(t)
      PROVE  NodesInv'
  BY <1>6 DEF SpuriousWakeUp, TypeOK, NodesRecycled, lists, flags, loop, history
<1>7. ASSUME NEW t \in Consumers, FreeQueue(t)
      PROVE  NodesInv'
  BY <1>0, <1>7, EmptySeq DEF FreeQueue, TypeOK, NodesRecycled, condition, loop
<1>8. ASSUME NEW c \in Conns, RemoveAllBegin(c)
      PROVE  NodesInv'
  BY <1>8 DEF RemoveAllBegin, NotifyCondition, TypeOK, NodesRecycled, lists, flags, condition
<1>9. CASE RemoveNode
  <2>1. cursor \in 1..Len(busy)
    BY <1>0, <1>9 DEF RemoveNode, TypeOK
  <2>2. busy' \in Seq(Items) /\ Len(busy') = Len(busy) - 1
    BY <1>0, <1>9, <2>1, RemoveAtProperties DEF RemoveNode
  <2>3. busy[cursor] \in Items
    BY <1>0, <2>1, ElementOfSeq
  <2>4. dropped' \in SUBSET Nat
    BY <1>9, <2>3 DEF RemoveNode, TypeOK, Items
  <2>5. TypeOK'
    BY <1>0, <1>9, <2>2, <2>4 DEF RemoveNode, TypeOK, flags, condition, loop
  <2>6. NodesRecycled'
    BY <1>0, <1>9, <2>2 DEF RemoveNode, TypeOK, NodesRecycled, flags
  <2> QED
    BY <2>5, <2>6
<1>10. CASE KeepNode
  BY <1>10 DEF KeepNode, TypeOK, NodesRecycled, lists, flags, condition, history
<1>11. CASE RemoveAllEnd
  BY <1>11 DEF RemoveAllEnd, TypeOK, NodesRecycled, lists, flags, condition, history
<1>12. CASE UNCHANGED vars
  BY <1>12 DEF vars, TypeOK, NodesRecycled, lists, flags, condition, loop, history
<1> QED
  BY <1>1, <1>2, <1>3, <1>4, <1>5, <1>6, <1>7, <1>8, <1>9, <1>10, <1>11, <1>12, Steps

(* The queue's state is well formed and its nodes are recycled: what       *)
(* _Enqueue takes off queue->free, Dequeue and RemoveAll put back.         *)
THEOREM NodesCorrect == Spec => [](TypeOK /\ NodesRecycled)
<1>1. Init => NodesInv
  BY NodesInit
<1>2. NodesInv /\ [Next]_vars => NodesInv'
  BY NodesNext
<1> QED
  BY <1>1, <1>2, PTL DEF Spec, NodesInv

(* The queue's variables keep their types for any consumers, producers and *)
(* items, and no consumer both sleeps on the condition and is signalled    *)
(* (WaitCondition, NotifyCondition).                                       *)
THEOREM QueueTyped == Spec => []TypeOK
  BY NodesCorrect, PTL

-----------------------------------------------------------------------------
(* The order of the items, what becomes of them, and EXIT behind them all  *)

OrderInv == FIFO /\ Conservation /\ NothingBehindExit

\* Pending and the properties speak of DOMAIN, the sequence lemmas of Len.
LEMMA PendingItems ==
    ASSUME TypeOK
    PROVE  /\ DOMAIN busy = 1..Len(busy)
           /\ Len(busy) \in Nat
           /\ \A i \in 1..Len(busy) : /\ busy[i] \in Items
                                      /\ busy[i].ticket \in Nat
                                      /\ busy[i].ticket \in Pending
           /\ \A n \in Pending : \E i \in 1..Len(busy) : n = busy[i].ticket
<1>1. DOMAIN busy = 1..Len(busy) /\ Len(busy) \in Nat
  BY LenProperties DEF TypeOK
<1>2. \A i \in 1..Len(busy) : busy[i] \in Items
  BY ElementOfSeq DEF TypeOK
<1> QED
  BY <1>1, <1>2 DEF Pending, Items

(* NewQueue: no ticket given out, none pending.                            *)
LEMMA OrderInit ==
    ASSUME Init
    PROVE  OrderInv
<1>1. DOMAIN busy = {} /\ Pending = {}
  BY DEF Init, Pending
<1>2. 1..tickets = {} /\ taken = {} /\ dropped = {}
  BY DEF Init
<1>3. \A t \in Consumers : answer[t] # "exit"
  BY DEF Init
<1> QED
  BY <1>1, <1>2, <1>3 DEF OrderInv, FIFO, Conservation, NothingBehindExit

(* A step that leaves the items alone keeps their order.                   *)
LEMMA OrderKept ==
    ASSUME OrderInv, UNCHANGED <<busy, exit, tickets, taken, dropped>>,
           \A t \in Consumers : answer'[t] = "exit" => answer[t] = "exit"
    PROVE  OrderInv'
<1>1. Pending' = Pending
  BY DEF Pending
<1>2. FIFO' /\ Conservation'
  BY <1>1 DEF OrderInv, FIFO, Conservation
<1>3. NothingBehindExit'
  BY DEF OrderInv, NothingBehindExit
<1> QED
  BY <1>2, <1>3 DEF OrderInv

(* _Enqueue adds the newest ticket at the end, and nothing behind EXIT.    *)
LEMMA OrderEnqueue ==
    ASSUME NodesInv, NodesInv', OrderInv,
           NEW type \in Types \cup {"EXIT"}, NEW c \in Conns \cup {NoConn}, Enqueue(type, c)
    PROVE  OrderInv'
<1> DEFINE item == [type |-> type, conn |-> c, ticket |-> tickets + 1]
           n == Len(busy)
<1>0. TypeOK /\ TypeOK' /\ tickets \in Nat /\ busy \in Seq(Items) /\ n \in Nat
  BY PendingItems DEF NodesInv, TypeOK
<1>1. /\ busy' = Append(busy, item)
      /\ tickets' = tickets + 1
      /\ UNCHANGED <<taken, dropped, answer>>
      /\ ~exit
      /\ type = "EXIT" => exit'
  BY DEF Enqueue, Accept, AddLast
<1>2. item \in Items
  BY <1>0 DEF Items
<1>3. /\ Len(busy') = n + 1
      /\ \A i \in 1..n : busy'[i] = busy[i]
      /\ busy'[n + 1] = item
  BY <1>0, <1>1, <1>2, AppendProperties
<1>4. /\ item.ticket = tickets + 1
      /\ item.type = type
  OBVIOUS
<1> HIDE DEF item, n
<1>5. /\ DOMAIN busy' = 1..(n + 1)
      /\ DOMAIN busy = 1..n
      /\ \A i \in 1..n : busy[i].ticket \in Nat /\ busy[i].ticket \in Pending
  BY <1>0, <1>3, PendingItems, LenProperties DEF n, TypeOK
<1>6. \A i \in 1..n : busy[i].ticket \in 1..tickets
  BY <1>5 DEF OrderInv, Conservation
<1>7. taken \subseteq 1..tickets /\ dropped \subseteq 1..tickets /\ Pending \subseteq 1..tickets
  BY DEF OrderInv, Conservation
<1>8. Pending' = Pending \cup {tickets + 1}
  <2>1. ASSUME NEW m \in Pending'
        PROVE  m \in Pending \cup {tickets + 1}
    <3>1. PICK i \in 1..(n + 1) : m = busy'[i].ticket
      BY <1>5 DEF Pending
    <3>2. CASE i \in 1..n
      BY <1>3, <1>5, <3>1, <3>2
    <3>3. CASE i = n + 1
      BY <1>3, <1>4, <3>1, <3>3
    <3> QED
      BY <1>0, <3>2, <3>3 DEF n
  <2>2. ASSUME NEW m \in Pending
        PROVE  m \in Pending'
    <3>1. PICK i \in 1..n : m = busy[i].ticket
      BY <1>5 DEF Pending
    <3>2. i \in 1..(n + 1) /\ m = busy'[i].ticket
      BY <1>0, <1>3, <3>1 DEF n
    <3> QED
      BY <1>5, <3>2 DEF Pending
  <2>3. tickets + 1 \in Pending'
    <3>1. n + 1 \in 1..(n + 1) /\ tickets + 1 = busy'[n + 1].ticket
      BY <1>0, <1>3, <1>4 DEF n
    <3> QED
      BY <1>5, <3>1 DEF Pending
  <2> QED
    BY <2>1, <2>2, <2>3
<1>9. Conservation'
  <2>1. 1..(tickets + 1) = 1..tickets \cup {tickets + 1} /\ tickets + 1 \notin 1..tickets
    BY <1>0
  <2> QED
    BY <1>1, <1>7, <1>8, <2>1 DEF OrderInv, Conservation
<1>10. FIFO'
  <2>1. ASSUME NEW i \in 1..(n + 1), NEW j \in 1..(n + 1), i < j
        PROVE  busy'[i].ticket < busy'[j].ticket
    <3>1. i \in 1..n /\ busy'[i] = busy[i]
      BY <1>0, <1>3, <2>1 DEF n
    <3>2. CASE j \in 1..n
      BY <1>3, <1>5, <2>1, <3>1, <3>2 DEF OrderInv, FIFO
    <3>3. CASE j = n + 1
      BY <1>0, <1>3, <1>4, <1>6, <3>1, <3>3
    <3> QED
      BY <1>0, <3>2, <3>3 DEF n
  <2>2. ASSUME NEW i \in 1..(n + 1), NEW m \in taken
        PROVE  m < busy'[i].ticket
    <3>1. CASE i \in 1..n
      BY <1>3, <1>5, <3>1 DEF OrderInv, FIFO
    <3>2. CASE i = n + 1
      BY <1>0, <1>3, <1>4, <1>7, <3>2
    <3> QED
      BY <1>0, <3>1, <3>2 DEF n
  <2> QED
    BY <1>1, <1>5, <2>1, <2>2 DEF FIFO
<1>11. NothingBehindExit'
  <2>1. ASSUME NEW i \in 1..(n + 1), busy'[i].type = "EXIT"
        PROVE  exit' /\ i = n + 1
    <3>1. i \notin 1..n
      BY <1>1, <1>3, <1>5, <2>1 DEF OrderInv, NothingBehindExit
    <3>2. i = n + 1
      BY <1>0, <3>1 DEF n
    <3> QED
      BY <1>1, <1>3, <1>4, <2>1, <3>2
  <2>2. \A t \in Consumers : answer'[t] # "exit"
    BY <1>1 DEF OrderInv, NothingBehindExit
  <2> QED
    BY <1>3, <1>5, <2>1, <2>2 DEF NothingBehindExit
<1> QED
  BY <1>9, <1>10, <1>11 DEF OrderInv

(* What taking the n-th node out does to the pending tickets: used for     *)
(* ListPop in Dequeue and for ListRemove in RemoveAll.                     *)
LEMMA ItemRemoved ==
    ASSUME TypeOK, TypeOK', FIFO, NEW n \in 1..Len(busy),
           Len(busy') = Len(busy) - 1,
           \A i \in 1..(n - 1) : busy'[i] = busy[i],
           \A i \in n..(Len(busy) - 1) : busy'[i] = busy[i + 1]
    PROVE  /\ Pending' = Pending \ {busy[n].ticket}
           /\ \A i, j \in DOMAIN busy' : i < j => busy'[i].ticket < busy'[j].ticket
           /\ \A i \in DOMAIN busy' : \E j \in DOMAIN busy :
                 busy'[i] = busy[j] /\ (i = Len(busy') <=> IF n = Len(busy) THEN j = n - 1 ELSE j = Len(busy))
<1> DEFINE len == Len(busy)
           Old(i) == IF i < n THEN i ELSE i + 1
<1>0. /\ len \in Nat
      /\ DOMAIN busy = 1..len
      /\ DOMAIN busy' = 1..(len - 1)
      /\ \A i \in 1..len : busy[i].ticket \in Nat /\ busy[i].ticket \in Pending
  BY PendingItems, LenProperties DEF TypeOK
<1>1. ASSUME NEW i \in 1..(len - 1)
      PROVE  /\ Old(i) \in 1..len
             /\ Old(i) # n
             /\ busy'[i] = busy[Old(i)]
  <2>1. CASE i < n
    BY <1>0, <2>1
  <2>2. CASE ~(i < n)
    BY <1>0, <2>2
  <2> QED
    BY <2>1, <2>2
<1>2. \A i, j \in 1..(len - 1) : i < j => Old(i) < Old(j)
  BY <1>0
<1>3. \A j \in 1..len : j # n => \E i \in 1..(len - 1) : Old(i) = j
  <2> SUFFICES ASSUME NEW j \in 1..len, j # n
               PROVE  \E i \in 1..(len - 1) : Old(i) = j
    OBVIOUS
  <2>1. CASE j < n
    <3>1. j \in 1..(len - 1) /\ Old(j) = j
      BY <1>0, <2>1
    <3> QED
      BY <3>1
  <2>2. CASE j > n
    <3>1. j - 1 \in 1..(len - 1) /\ Old(j - 1) = j
      BY <1>0, <2>2
    <3> QED
      BY <3>1
  <2> QED
    BY <1>0, <2>1, <2>2
<1>4. \A i \in 1..(len - 1) :
         i = len - 1 <=> IF n = len THEN Old(i) = n - 1 ELSE Old(i) = len
  BY <1>0
<1>5. \A i, j \in 1..len : i # j => busy[i].ticket # busy[j].ticket
  <2>1. \A i, j \in 1..len : i < j => busy[i].ticket < busy[j].ticket
    BY <1>0, Zenon DEF FIFO
  <2>2. \A i, j \in 1..len : i # j => i < j \/ j < i
    BY <1>0
  <2> QED
    BY <1>0, <2>1, <2>2
<1> HIDE DEF len, Old
<1>6. Pending' = Pending \ {busy[n].ticket}
  <2>1. ASSUME NEW m \in Pending'
        PROVE  m \in Pending \ {busy[n].ticket}
    <3>1. PICK i \in 1..(len - 1) : m = busy'[i].ticket
      BY <1>0 DEF Pending
    <3> QED
      BY <1>0, <1>1, <1>5, <3>1 DEF len
  <2>2. ASSUME NEW m \in Pending, m # busy[n].ticket
        PROVE  m \in Pending'
    <3>1. PICK j \in 1..len : m = busy[j].ticket
      BY <1>0 DEF Pending
    <3>2. PICK i \in 1..(len - 1) : Old(i) = j
      BY <1>3, <2>2, <3>1
    <3> QED
      BY <1>0, <1>1, <3>1, <3>2 DEF Pending
  <2> QED
    BY <2>1, <2>2
<1>7. \A i, j \in DOMAIN busy' : i < j => busy'[i].ticket < busy'[j].ticket
  BY <1>0, <1>1, <1>2 DEF FIFO
<1>8. ASSUME NEW i \in DOMAIN busy'
      PROVE  \E j \in DOMAIN busy :
                busy'[i] = busy[j] /\ (i = Len(busy') <=> IF n = Len(busy) THEN j = n - 1 ELSE j = Len(busy))
  <2>1. /\ Old(i) \in DOMAIN busy
        /\ busy'[i] = busy[Old(i)]
        /\ i = Len(busy') <=> IF n = Len(busy) THEN Old(i) = n - 1 ELSE Old(i) = Len(busy)
    BY <1>0, <1>1, <1>4 DEF len
  <2> QED
    BY <2>1
<1> QED
  BY <1>6, <1>7, <1>8

(* Dequeue hands over the oldest pending ticket.                           *)
LEMMA OrderPop ==
    ASSUME NodesInv, NodesInv', OrderInv, NEW t \in Consumers, Hands(t)
    PROVE  OrderInv'
<1>0. TypeOK /\ TypeOK'
  BY DEF NodesInv
<1>1. /\ Len(busy) \in Nat /\ 1 \in 1..Len(busy)
      /\ Len(busy') = Len(busy) - 1
      /\ \A i \in 1..(1 - 1) : busy'[i] = busy[i]
      /\ \A i \in 1..(Len(busy) - 1) : busy'[i] = busy[i + 1]
      /\ Head(busy) = busy[1]
  BY <1>0, TailProperties DEF Hands, Pop, TypeOK
<1>2. /\ Pending' = Pending \ {busy[1].ticket}
      /\ \A i, j \in DOMAIN busy' : i < j => busy'[i].ticket < busy'[j].ticket
  BY <1>0, <1>1, ItemRemoved DEF OrderInv
<1>3. /\ DOMAIN busy = 1..Len(busy)
      /\ DOMAIN busy' = 1..(Len(busy) - 1)
      /\ \A i \in 1..Len(busy) : busy[i].ticket \in Nat /\ busy[i].ticket \in Pending
  BY <1>0, <1>1, PendingItems, LenProperties DEF TypeOK
<1>4. /\ taken' = taken \cup {busy[1].ticket}
      /\ UNCHANGED <<tickets, dropped, exit>>
  BY <1>1 DEF Hands, Pop
<1>5. FIFO'
  <2>1. ASSUME NEW i \in 1..(Len(busy) - 1), NEW m \in taken'
        PROVE  m < busy'[i].ticket
    <3>1. i + 1 \in 1..Len(busy) /\ busy'[i] = busy[i + 1]
      BY <1>1
    <3>2. busy[1].ticket < busy[i + 1].ticket
      <4>1. 1 < i + 1
        BY <1>1
      <4> QED
        BY <1>1, <1>3, <3>1, <4>1, Zenon DEF OrderInv, FIFO
    <3>3. m \in taken => m < busy[i + 1].ticket
      BY <1>3, <3>1 DEF OrderInv, FIFO
    <3> QED
      BY <1>4, <3>1, <3>2, <3>3
  <2> QED
    BY <1>2, <1>3, <2>1 DEF FIFO
<1>6. Conservation'
  BY <1>1, <1>2, <1>3, <1>4 DEF OrderInv, Conservation
<1>7. NothingBehindExit'
  <2>1. ASSUME NEW i \in 1..(Len(busy) - 1), busy'[i].type = "EXIT"
        PROVE  exit' /\ i = Len(busy')
    <3>1. i + 1 \in 1..Len(busy) /\ busy[i + 1].type = "EXIT"
      BY <1>1, <2>1
    <3>2. exit /\ i + 1 = Len(busy)
      BY <1>3, <3>1 DEF OrderInv, NothingBehindExit
    <3> QED
      BY <1>1, <1>4, <3>2
  <2>2. ASSUME NEW u \in Consumers, answer'[u] = "exit"
        PROVE  exit' /\ busy' = <<>>
    <3>1. answer[u] # "exit"
      BY DEF OrderInv, NothingBehindExit, Hands, Pop
    <3>2. u = t /\ busy[1].type = "EXIT"
      BY <1>0, <1>1, <2>2, <3>1 DEF Hands, Pop, TypeOK
    <3>3. exit /\ Len(busy) = 1
      BY <1>1, <1>3, <3>2 DEF OrderInv, NothingBehindExit
    <3>4. Len(busy') = 0 /\ busy' \in Seq(Items)
      BY <1>0, <1>1, <3>3 DEF TypeOK
    <3> QED
      BY <1>4, <3>3, <3>4, EmptySeq
  <2> QED
    BY <1>3, <2>1, <2>2 DEF NothingBehindExit
<1> QED
  BY <1>5, <1>6, <1>7 DEF OrderInv

(* RemoveAll takes a ticket out of the middle and keeps the others' order. *)
LEMMA OrderRemove ==
    ASSUME NodesInv, NodesInv', OrderInv, RemoveNode
    PROVE  OrderInv'
<1>0. TypeOK /\ TypeOK' /\ Len(busy) \in Nat
  BY PendingItems DEF NodesInv
<1>1. /\ cursor \in 1..Len(busy)
      /\ Len(busy') = Len(busy) - 1
      /\ \A i \in 1..(cursor - 1) : busy'[i] = busy[i]
      /\ \A i \in cursor..(Len(busy) - 1) : busy'[i] = busy[i + 1]
  <2>1. cursor \in 1..Len(busy)
    BY <1>0 DEF RemoveNode, TypeOK
  <2>2. busy' = RemoveAt(busy, cursor) /\ busy \in Seq(Items)
    BY <1>0 DEF RemoveNode, TypeOK
  <2>3. /\ Len(RemoveAt(busy, cursor)) = Len(busy) - 1
        /\ \A i \in 1..(cursor - 1) : RemoveAt(busy, cursor)[i] = busy[i]
        /\ \A i \in cursor..(Len(busy) - 1) : RemoveAt(busy, cursor)[i] = busy[i + 1]
    BY <2>1, <2>2, RemoveAtProperties
  <2> QED
    BY <2>1, <2>2, <2>3
<1>2. /\ Pending' = Pending \ {busy[cursor].ticket}
      /\ \A i, j \in DOMAIN busy' : i < j => busy'[i].ticket < busy'[j].ticket
      /\ \A i \in DOMAIN busy' : \E j \in DOMAIN busy :
            busy'[i] = busy[j] /\ (i = Len(busy') <=> IF cursor = Len(busy) THEN j = cursor - 1 ELSE j = Len(busy))
  BY <1>0, <1>1, ItemRemoved DEF OrderInv
<1>3. /\ dropped' = dropped \cup {busy[cursor].ticket}
      /\ busy[cursor].ticket \in Pending
      /\ UNCHANGED <<tickets, taken, exit, answer>>
      /\ busy[cursor].type # "EXIT"
      /\ busy # <<>>
  <2>1. busy[cursor].ticket \in Pending
    BY <1>0, <1>1, PendingItems
  <2>2. busy # <<>>
    BY <1>0, <1>1, EmptySeq
  <2> QED
    BY <2>1, <2>2 DEF RemoveNode, Selected, flags
<1>4. FIFO'
  BY <1>2, <1>3 DEF OrderInv, FIFO
<1>5. Conservation'
  BY <1>2, <1>3 DEF OrderInv, Conservation
<1>6. NothingBehindExit'
  <2>1. ASSUME NEW i \in DOMAIN busy', busy'[i].type = "EXIT"
        PROVE  exit' /\ i = Len(busy')
    <3>1. PICK j \in DOMAIN busy :
             busy'[i] = busy[j] /\ (i = Len(busy') <=> IF cursor = Len(busy) THEN j = cursor - 1 ELSE j = Len(busy))
      BY <1>2
    <3>2. exit /\ j = Len(busy)
      BY <2>1, <3>1 DEF OrderInv, NothingBehindExit
    <3>3. cursor # Len(busy)
      BY <1>3, <2>1, <3>1, <3>2
    <3> QED
      BY <1>3, <3>1, <3>2, <3>3
  <2> QED
    BY <1>3, <2>1 DEF OrderInv, NothingBehindExit
<1> QED
  BY <1>4, <1>5, <1>6 DEF OrderInv

(* The three cases above, and every step that leaves the items alone.      *)
LEMMA OrderNext ==
    ASSUME NodesInv, NodesInv', OrderInv, [Next]_vars
    PROVE  OrderInv'
<1>1. ASSUME NEW t \in Consumers, DequeueEmptied(t)
      PROVE  OrderInv'
  <2>1. \A u \in Consumers : answer'[u] = "exit" => answer[u] = "exit"
    BY <1>1 DEF DequeueEmptied, NodesInv, TypeOK
  <2> QED
    BY <1>1, <2>1, OrderKept DEF DequeueEmptied, lists, history
<1>2. ASSUME NEW t \in Consumers, FallsAsleep(t)
      PROVE  OrderInv'
  BY <1>2, OrderKept DEF FallsAsleep, Sleep, lists, flags, history
<1>3. ASSUME NEW t \in Consumers, Returns(t)
      PROVE  OrderInv'
  <2>1. \A u \in Consumers : answer'[u] = "exit" => answer[u] = "exit"
    BY <1>3 DEF Returns, GiveUp, NodesInv, TypeOK
  <2> QED
    BY <1>3, <2>1, OrderKept DEF Returns, GiveUp, lists, flags, history
<1>4. ASSUME NEW t \in Consumers, SpuriousWakeUp(t)
      PROVE  OrderInv'
  BY <1>4, OrderKept DEF SpuriousWakeUp, lists, flags, history
<1>5. ASSUME NEW t \in Consumers, FreeQueue(t)
      PROVE  OrderInv'
  \* Nothing is left to lose: the consumer got EXIT, and nothing came behind.
  <2>1. busy = <<>>
    BY <1>5 DEF FreeQueue, OrderInv, NothingBehindExit
  <2> QED
    BY <1>5, <2>1, OrderKept DEF FreeQueue
<1>6. ASSUME NEW c \in Conns, RemoveAllBegin(c)
      PROVE  OrderInv'
  BY <1>6, OrderKept DEF RemoveAllBegin, lists, flags
<1>7. CASE KeepNode
  BY <1>7, OrderKept DEF KeepNode, lists, flags, history
<1>8. CASE RemoveAllEnd
  BY <1>8, OrderKept DEF RemoveAllEnd, lists, flags, history
<1>9. CASE UNCHANGED vars
  BY <1>9, OrderKept DEF vars, lists, flags, history
<1> QED
  BY <1>1, <1>2, <1>3, <1>4, <1>5, <1>6, <1>7, <1>8, <1>9, Steps, OrderEnqueue, OrderPop, OrderRemove

(* The queue is a FIFO that loses nothing: items leave in the order they   *)
(* were accepted, each to one consumer or to RemoveAll, and the thread     *)
(* that takes the EXIT item leaves nothing behind.                         *)
THEOREM OrderCorrect == Spec => []Delivered
<1>1. Init => NodesInv /\ OrderInv
  BY NodesInit, OrderInit
<1>2. NodesInv /\ OrderInv /\ [Next]_vars => NodesInv' /\ OrderInv'
  BY NodesNext, OrderNext
<1>3. OrderInv => Delivered
  BY DEF OrderInv, Delivered
<1> QED
  BY <1>1, <1>2, <1>3, PTL DEF Spec

-----------------------------------------------------------------------------
(* The threads on the condition                                            *)

WakeUpInv == NoLostWakeUp /\ ExitWakes

(* What _Enqueue's and Dequeue's counting rests on: finitely many threads  *)
(* sleep on queue->condition.                                              *)
LEMMA SleepersFinite ==
    ASSUME TypeOK
    PROVE  /\ IsFiniteSet(woken)
           /\ Cardinality(woken) \in Nat
           /\ Len(busy) \in Nat
<1>1. IsFiniteSet(woken)
  BY FS_Subset DEF TypeOK, QueueAssumption
<1> QED
  BY <1>1, FS_CardinalityType, LenProperties DEF TypeOK

\* Signalling one sleeper per item is enough, if there is one to signal.
LEMMA Signalled ==
    ASSUME TypeOK, NotifyCondition
    PROVE  /\ waiting' \subseteq waiting
           /\ waiting' # Consumers
           /\ waiting' # {} => Cardinality(woken') = Cardinality(woken) + 1
<1>1. CASE waiting = {} /\ UNCHANGED condition
  BY <1>1 DEF condition, QueueAssumption
<1>2. ASSUME NEW t \in waiting, waiting' = waiting \ {t}, woken' = woken \cup {t}
      PROVE  /\ waiting' \subseteq waiting
             /\ waiting' # Consumers
             /\ Cardinality(woken') = Cardinality(woken) + 1
  <2>1. t \in Consumers /\ t \notin woken
    BY DEF TypeOK
  <2> QED
    BY <1>2, <2>1, SleepersFinite, FS_AddElement
<1> QED
  BY <1>1, <1>2 DEF NotifyCondition

(* NewQueue: nobody sleeps yet.                                            *)
LEMMA WakeUpInit ==
    ASSUME Init
    PROVE  WakeUpInv
BY DEF Init, WakeUpInv, NoLostWakeUp, ExitWakes

(* _Enqueue signals as it adds an item; Dequeue takes one as a signalled   *)
(* thread comes back, and sleeps only when nothing is pending.             *)
LEMMA WakeUpNext ==
    ASSUME NodesInv, NodesInv', WakeUpInv, [Next]_vars
    PROVE  WakeUpInv'
<1> USE DEF WakeUpInv, NoLostWakeUp, ExitWakes
<1>0. /\ TypeOK /\ TypeOK'
      /\ Len(busy) \in Nat
      /\ Len(busy') \in Nat
      /\ IsFiniteSet(woken)
      /\ Cardinality(woken) \in Nat
  <2>1. TypeOK /\ TypeOK'
    BY DEF NodesInv
  <2>2. Len(busy') \in Nat
    BY <2>1, LenProperties DEF TypeOK
  <2> QED
    BY <2>1, <2>2, SleepersFinite
<1>1. ASSUME NEW type \in Types \cup {"EXIT"}, NEW c \in Conns \cup {NoConn}, Enqueue(type, c)
      PROVE  WakeUpInv'
  <2>1. Len(busy') = Len(busy) + 1
    <3>1. [type |-> type, conn |-> c, ticket |-> tickets + 1] \in Items
      BY <1>0 DEF Items, TypeOK
    <3> QED
      BY <1>0, <1>1, <3>1, AppendProperties DEF Enqueue, Accept, AddLast, TypeOK
  <2>2. NotifyCondition
    BY <1>1 DEF Enqueue, Accept
  <2> QED
    BY <1>0, <2>1, <2>2, Signalled
<1>2. ASSUME NEW t \in Consumers, Hands(t)
      PROVE  WakeUpInv'
  <2>1. Len(busy') = Len(busy) - 1
    BY <1>0, <1>2, TailProperties DEF Hands, Pop, TypeOK
  <2>2. /\ UNCHANGED <<waiting, exit>>
        /\ woken' = woken \ {t}
    BY <1>2 DEF Hands, Pop
  <2>3. Cardinality(woken') \in {Cardinality(woken) - 1, Cardinality(woken)}
    <3>1. CASE t \in woken
      BY <1>0, <2>2, <3>1, FS_RemoveElement
    <3>2. CASE t \notin woken
      BY <1>0, <2>2, <3>2, FS_RemoveElement
    <3> QED
      BY <3>1, <3>2
  <2>4. Len(busy) <= Cardinality(woken) => Len(busy') <= Cardinality(woken')
    BY <1>0, <2>1, <2>3
  <2> QED
    BY <2>2, <2>4
<1>3. ASSUME NEW t \in Consumers, FallsAsleep(t)
      PROVE  WakeUpInv'
  <2>1. busy' = <<>> /\ ~exit'
    BY <1>3 DEF FallsAsleep, Sleep, lists, flags
  <2>2. Len(busy') = 0
    BY <2>1
  <2>3. Cardinality(woken') \in Nat
    BY <1>0, <1>3, FS_RemoveElement, FS_CardinalityType DEF FallsAsleep, Sleep
  <2> QED
    BY <2>1, <2>2, <2>3
<1>4. ASSUME NEW t \in Consumers, Returns(t)
      PROVE  WakeUpInv'
  <2>1. busy' = <<>> /\ UNCHANGED <<waiting, exit>>
    BY <1>4 DEF Returns, GiveUp, lists, flags
  <2>2. Len(busy') = 0
    BY <2>1
  <2>3. Cardinality(woken') \in Nat
    BY <1>0, <1>4, FS_RemoveElement, FS_CardinalityType DEF Returns, GiveUp
  <2> QED
    BY <2>1, <2>2, <2>3
<1>5. ASSUME NEW t \in Consumers, SpuriousWakeUp(t)
      PROVE  WakeUpInv'
  <2>1. /\ UNCHANGED <<busy, exit>>
        /\ waiting' = waiting \ {t}
        /\ woken' = woken \cup {t}
        /\ t \in waiting
    BY <1>5 DEF SpuriousWakeUp, lists, flags
  <2>2. Cardinality(woken') = Cardinality(woken) + 1
    <3>1. t \notin woken
      BY <1>0, <2>1 DEF TypeOK
    <3> QED
      BY <1>0, <2>1, <3>1, FS_AddElement
  <2>3. waiting' # Consumers
    BY <2>1
  <2> QED
    BY <1>0, <2>1, <2>2, <2>3
<1>6. ASSUME NEW t \in Consumers, FreeQueue(t)
      PROVE  WakeUpInv'
  BY <1>6 DEF FreeQueue, condition, QueueAssumption
<1>7. ASSUME NEW c \in Conns, RemoveAllBegin(c)
      PROVE  WakeUpInv'
  <2>1. NotifyCondition /\ UNCHANGED <<busy, exit>>
    BY <1>7 DEF RemoveAllBegin, lists, flags
  <2> QED
    BY <1>0, <2>1, Signalled
<1>8. CASE RemoveNode
  <2>1. cursor \in 1..Len(busy)
    BY <1>0, <1>8 DEF RemoveNode, TypeOK
  <2>2. Len(busy') = Len(busy) - 1
    BY <1>0, <1>8, <2>1, RemoveAtProperties DEF RemoveNode, TypeOK
  <2> QED
    BY <1>0, <1>8, <2>2 DEF RemoveNode, flags, condition
<1>9. CASE KeepNode
  BY <1>9 DEF KeepNode, lists, flags, condition
<1>10. CASE RemoveAllEnd
  BY <1>10 DEF RemoveAllEnd, lists, flags, condition
<1>11. ASSUME NEW t \in Consumers, DequeueEmptied(t)
       PROVE  WakeUpInv'
  BY <1>11 DEF DequeueEmptied, lists, condition
<1>12. CASE UNCHANGED vars
  BY <1>12 DEF vars, lists, flags, condition
<1> QED
  BY <1>1, <1>2, <1>3, <1>4, <1>5, <1>6, <1>7, <1>8, <1>9, <1>10, <1>11, <1>12, Steps

(* One signal per _Enqueue never leaves a pending item to a sleeper nobody *)
(* signalled, and no single consumer sleeps through the EXIT item.         *)
THEOREM WakeUpCorrect == Spec => []NobodyLeftAsleep
<1>1. Init => NodesInv /\ WakeUpInv
  BY NodesInit, WakeUpInit
<1>2. NodesInv /\ WakeUpInv /\ [Next]_vars => NodesInv' /\ WakeUpInv'
  BY NodesNext, WakeUpNext
<1>3. WakeUpInv => NobodyLeftAsleep
  BY DEF WakeUpInv, NobodyLeftAsleep
<1> QED
  BY <1>1, <1>2, <1>3, PTL DEF Spec
-----------------------------------------------------------------------------
(* Queue implements Channel: every step of queue.c is one step of the      *)
(* atomic FIFO to the items its users can see, or none.                    *)

(* While RemoveAll walks the list, it leaves nothing it was asked for      *)
(* behind its cursor.                                                      *)
SweptInv ==
    scanning # NoConn =>
        \A i \in 1..Len(busy) : i < cursor => ~Selected(busy[i])

RefinementInv == NodesInv /\ OrderInv /\ SweptInv

\* The nodes that stay when the n-th one is unlinked, in both directions.
LEMMA OthersStay ==
    ASSUME Len(busy) \in Nat, NEW n \in 1..Len(busy),
           \A i \in 1..(n - 1) : busy'[i] = busy[i],
           \A i \in n..(Len(busy) - 1) : busy'[i] = busy[i + 1]
    PROVE  /\ \A i \in 1..(Len(busy) - 1) : \E j \in 1..Len(busy) : j # n /\ busy'[i] = busy[j]
           /\ \A j \in 1..Len(busy) : j # n => \E i \in 1..(Len(busy) - 1) : busy'[i] = busy[j]
<1>1. ASSUME NEW i \in 1..(Len(busy) - 1)
      PROVE  \E j \in 1..Len(busy) : j # n /\ busy'[i] = busy[j]
  <2>1. CASE i < n
    <3>1. i \in 1..Len(busy) /\ i # n /\ busy'[i] = busy[i]
      BY <2>1
    <3> QED
      BY <3>1
  <2>2. CASE ~(i < n)
    <3>1. i + 1 \in 1..Len(busy) /\ i + 1 # n /\ busy'[i] = busy[i + 1]
      BY <2>2
    <3> QED
      BY <3>1
  <2> QED
    BY <2>1, <2>2
<1>2. ASSUME NEW j \in 1..Len(busy), j # n
      PROVE  \E i \in 1..(Len(busy) - 1) : busy'[i] = busy[j]
  <2>1. CASE j < n
    <3>1. j \in 1..(Len(busy) - 1) /\ busy'[j] = busy[j]
      BY <2>1
    <3> QED
      BY <3>1
  <2>2. CASE ~(j < n)
    <3>1. j - 1 \in 1..(Len(busy) - 1) /\ j - 1 \in n..(Len(busy) - 1) /\ (j - 1) + 1 = j
      BY <1>2, <2>2
    <3>2. busy'[j - 1] = busy[j]
      BY <3>1
    <3> QED
      BY <3>1, <3>2
  <2> QED
    BY <2>1, <2>2
<1> QED
  BY <1>1, <1>2

(* What a user sees, in terms of the positions of the list.                *)
LEMMA VisibleItems ==
    ASSUME TypeOK
    PROVE  /\ DOMAIN busy = 1..Len(busy)
           /\ Len(busy) \in Nat
           /\ \A item : item \in Visible <=>
                 \E i \in 1..Len(busy) : item = busy[i] /\ (scanning = NoConn \/ ~Selected(busy[i]))
<1>1. DOMAIN busy = 1..Len(busy) /\ Len(busy) \in Nat
  BY LenProperties DEF TypeOK
<1> QED
  BY <1>1 DEF Visible

-----------------------------------------------------------------------------
(* The invariant                                                           *)

(* Nodes only join the list at its end and leave it under the cursor, and  *)
(* nobody else gets the lock before RemoveAll is done.                     *)
LEMMA SweptNext ==
    ASSUME RefinementInv, NodesInv', [Next]_vars
    PROVE  SweptInv'
<1> USE DEF SweptInv
<1>0. /\ TypeOK /\ TypeOK'
      /\ Len(busy) \in Nat /\ Len(busy') \in Nat
      /\ cursor \in Nat
  BY PendingItems, LenProperties DEF RefinementInv, NodesInv, TypeOK
<1>1. CASE scanning' = NoConn
  BY <1>1
<1>2. ASSUME NEW c \in Conns, RemoveAllBegin(c)
      PROVE  SweptInv'
  BY <1>0, <1>2 DEF RemoveAllBegin
<1>3. CASE RemoveNode
  <2>1. /\ cursor \in 1..Len(busy)
        /\ Len(busy') = Len(busy) - 1
        /\ \A i \in 1..(cursor - 1) : busy'[i] = busy[i]
        /\ UNCHANGED loop
        /\ scanning # NoConn
    BY <1>0, <1>3, RemoveAtProperties DEF RemoveNode, TypeOK
  <2>2. ASSUME NEW i \in 1..Len(busy'), i < cursor'
        PROVE  ~Selected(busy[i]) /\ busy'[i] = busy[i]
    <3>1. i \in 1..(cursor - 1) /\ i \in 1..Len(busy) /\ i < cursor
      BY <1>0, <2>1, <2>2 DEF loop
    <3> QED
      BY <2>1, <3>1 DEF RefinementInv
  <2> QED
    BY <2>1, <2>2 DEF Selected, loop
<1>4. CASE KeepNode
  <2>1. /\ cursor' = cursor + 1
        /\ ~Selected(busy[cursor])
        /\ UNCHANGED <<busy, scanning>>
        /\ scanning # NoConn
    BY <1>4 DEF KeepNode, lists
  <2>2. ASSUME NEW i \in 1..Len(busy), i < cursor + 1
        PROVE  ~Selected(busy[i])
    <3>1. i = cursor \/ i < cursor
      BY <1>0, <2>2
    <3> QED
      BY <2>1, <3>1 DEF RefinementInv
  <2> QED
    BY <2>1, <2>2 DEF Selected
<1>5. CASE UNCHANGED vars
  BY <1>5 DEF RefinementInv, vars, lists, loop, Selected
<1>6. ASSUME NEW t \in Consumers, SpuriousWakeUp(t)
      PROVE  SweptInv'
  BY <1>6 DEF RefinementInv, SpuriousWakeUp, lists, loop, Selected
<1>7. CASE \/ \E type \in Types \cup {"EXIT"}, c \in Conns \cup {NoConn} : Enqueue(type, c)
           \/ \E t \in Consumers : \/ DequeueEmptied(t)
                                   \/ Hands(t)
                                   \/ FallsAsleep(t)
                                   \/ Returns(t)
                                   \/ FreeQueue(t)
           \/ RemoveAllEnd
  <2>1. scanning' = NoConn
    BY <1>7 DEF Enqueue, Accept, DequeueEmptied, Hands, FallsAsleep, Returns, Pop, Sleep, GiveUp,
                FreeQueue, RemoveAllEnd, LockFree, loop
  <2> QED
    BY <1>1, <2>1
<1> QED
  BY <1>2, <1>3, <1>4, <1>5, <1>6, <1>7, Steps

-----------------------------------------------------------------------------
(* One lemma per operation that a user can tell apart                      *)

\* What a step that leaves the items and the scan alone is to Channel.
LEMMA StutterRefines ==
    ASSUME UNCHANGED <<busy, scanning, exit, tickets, taken>>
    PROVE  UNCHANGED Abstract!vars
<1>1. Visible' = Visible
  BY DEF Visible, Selected
<1> QED
  BY <1>1 DEF Abstract!vars

(* _Enqueue adds its item to what the consumers see, behind the lock.      *)
LEMMA EnqueueRefines ==
    ASSUME RefinementInv, NodesInv',
           NEW type \in Types \cup {"EXIT"}, NEW c \in Conns \cup {NoConn}, Enqueue(type, c)
    PROVE  Abstract!Send(type, c)
<1> DEFINE item == [type |-> type, conn |-> c, ticket |-> tickets + 1]
<1>0. /\ TypeOK /\ TypeOK'
      /\ Len(busy) \in Nat
      /\ tickets \in Nat
      /\ busy \in Seq(Items)
  BY PendingItems DEF RefinementInv, NodesInv, TypeOK
<1>1. /\ busy' = Append(busy, item)
      /\ tickets' = tickets + 1
      /\ taken' = taken
      /\ scanning = NoConn /\ scanning' = NoConn
      /\ ~exit /\ exit' = (exit \/ type = "EXIT")
  BY DEF Enqueue, Accept, AddLast, LockFree, loop
<1>2. item \in Items
  BY <1>0 DEF Items
<1> HIDE DEF item
<1>3. /\ Len(busy') = Len(busy) + 1
      /\ \A i \in 1..Len(busy) : busy'[i] = busy[i]
      /\ busy'[Len(busy) + 1] = item
  BY <1>0, <1>1, <1>2, AppendProperties
<1>4. /\ \A x : x \in Visible <=> \E i \in 1..Len(busy) : x = busy[i]
      /\ \A x : x \in Visible' <=> \E i \in 1..Len(busy') : x = busy'[i]
  <2>1. /\ DOMAIN busy = 1..Len(busy)
        /\ DOMAIN busy' = 1..Len(busy')
    BY <1>0, LenProperties DEF TypeOK
  <2> QED
    BY <1>1, <2>1 DEF Visible
<1>5. Visible' = Visible \cup {item}
  <2>1. ASSUME NEW x \in Visible'
        PROVE  x \in Visible \cup {item}
    <3>1. PICK i \in 1..Len(busy') : x = busy'[i]
      BY <1>4
    <3>2. i \in 1..Len(busy) \/ i = Len(busy) + 1
      BY <1>0, <1>3
    <3> QED
      BY <1>3, <1>4, <3>1, <3>2
  <2>2. ASSUME NEW x \in Visible
        PROVE  x \in Visible'
    <3>1. PICK i \in 1..Len(busy) : x = busy[i]
      BY <1>4
    <3>2. i \in 1..Len(busy') /\ x = busy'[i]
      BY <1>0, <1>3, <3>1
    <3> QED
      BY <1>4, <3>2
  <2>3. item \in Visible'
    <3>1. Len(busy) + 1 \in 1..Len(busy')
      BY <1>0, <1>3
    <3> QED
      BY <1>3, <1>4, <3>1
  <2> QED
    BY <2>1, <2>2, <2>3
<1>6. (~exit)' = (type # "EXIT")
  BY <1>1
<1> QED
  BY <1>1, <1>5, <1>6 DEF Abstract!Send, item

(* ListPop: the oldest node leaves, and it carries the smallest ticket.    *)
LEMMA PopRefines ==
    ASSUME RefinementInv, NodesInv', NEW t \in Consumers, Hands(t)
    PROVE  \E item \in Visible : Abstract!Receive(item)
<1>0. /\ TypeOK /\ TypeOK'
      /\ FIFO
      /\ \A i \in 1..Len(busy) : busy[i].ticket \in Nat
      /\ DOMAIN busy = 1..Len(busy)
      /\ DOMAIN busy' = 1..Len(busy')
  BY PendingItems, LenProperties DEF RefinementInv, NodesInv, OrderInv, TypeOK
<1>1. /\ Len(busy) \in Nat /\ 1 \in 1..Len(busy)
      /\ Len(busy') = Len(busy) - 1
      /\ \A i \in 1..(1 - 1) : busy'[i] = busy[i]
      /\ \A i \in 1..(Len(busy) - 1) : busy'[i] = busy[i + 1]
      /\ Head(busy) = busy[1]
  BY <1>0, TailProperties DEF Hands, Pop, TypeOK
<1>2. /\ taken' = taken \cup {busy[1].ticket}
      /\ UNCHANGED <<tickets, exit>>
      /\ scanning = NoConn /\ scanning' = NoConn
  BY <1>1 DEF Hands, Pop, LockFree, loop
<1>3. /\ \A x : x \in Visible <=> \E i \in 1..Len(busy) : x = busy[i]
      /\ \A x : x \in Visible' <=> \E i \in 1..Len(busy') : x = busy'[i]
  BY <1>0, <1>2 DEF Visible
<1>4. \A i \in 1..Len(busy) : i # 1 => busy[1].ticket < busy[i].ticket
  <2>1. \A i \in 1..Len(busy) : 1 < i => busy[1].ticket < busy[i].ticket
    BY <1>0, <1>1, Zenon DEF FIFO
  <2> QED
    BY <1>1, <2>1
<1>5. /\ \A i \in 1..(Len(busy) - 1) : \E j \in 1..Len(busy) : j # 1 /\ busy'[i] = busy[j]
      /\ \A j \in 1..Len(busy) : j # 1 => \E i \in 1..(Len(busy) - 1) : busy'[i] = busy[j]
  BY <1>1, OthersStay
<1>6. \A other \in Visible : busy[1].ticket <= other.ticket
  BY <1>0, <1>1, <1>3, <1>4
<1>7. Visible' = Visible \ {busy[1]}
  <2>1. \A i \in 1..Len(busy) : i # 1 => busy[i] # busy[1]
    BY <1>0, <1>1, <1>4
  <2>2. ASSUME NEW x \in Visible'
        PROVE  x \in Visible \ {busy[1]}
    <3>1. PICK i \in 1..(Len(busy) - 1) : x = busy'[i]
      BY <1>1, <1>3
    <3>2. PICK j \in 1..Len(busy) : j # 1 /\ busy'[i] = busy[j]
      BY <1>5
    <3> QED
      BY <1>3, <2>1, <3>1, <3>2
  <2>3. ASSUME NEW x \in Visible \ {busy[1]}
        PROVE  x \in Visible'
    <3>1. PICK j \in 1..Len(busy) : j # 1 /\ x = busy[j]
      BY <1>3
    <3>2. PICK i \in 1..(Len(busy) - 1) : busy'[i] = busy[j]
      BY <1>5, <3>1
    <3> QED
      BY <1>1, <1>3, <3>1, <3>2
  <2> QED
    BY <2>2, <2>3
<1>8. busy[1] \in Visible
  BY <1>1, <1>3
<1> QED
  BY <1>2, <1>6, <1>7, <1>8 DEF Abstract!Receive

(* RemoveAll takes all of its items from the consumers when it locks the   *)
(* queue, before it has unlinked any of them.                              *)
LEMMA RemoveAllBeginRefines ==
    ASSUME RefinementInv, NEW c \in Conns, RemoveAllBegin(c)
    PROVE  Abstract!Withdraw(c)
<1>1. /\ scanning = NoConn /\ scanning' = c /\ c # NoConn
      /\ UNCHANGED <<busy, exit, tickets, taken>>
  <2>1. c # NoConn
    BY QueueAssumption
  <2> QED
    BY <2>1 DEF RemoveAllBegin, LockFree, lists, flags
<1>2. Visible' = Visible \ {x \in Visible : x.type = RemovedType /\ x.conn = c}
  <2>1. \A x : x \in Visible <=> \E i \in DOMAIN busy : x = busy[i]
    BY <1>1 DEF Visible
  <2>2. \A x : x \in Visible' <=>
              \E i \in DOMAIN busy : x = busy[i] /\ ~(x.type = RemovedType /\ x.conn = c)
    BY <1>1 DEF Visible, Selected
  <2>3. \A x : x \in Visible' <=> x \in Visible /\ ~(x.type = RemovedType /\ x.conn = c)
    BY <2>1, <2>2
  <2> QED
    BY <2>3
<1> QED
  BY <1>1, <1>2 DEF Abstract!Withdraw, Abstract!About

(* Unlinking a selected node shows nobody anything new.                    *)
LEMMA RemoveNodeRefines ==
    ASSUME RefinementInv, NodesInv', RemoveNode
    PROVE  UNCHANGED Abstract!vars
<1>0. /\ TypeOK /\ TypeOK'
      /\ Len(busy) \in Nat
      /\ DOMAIN busy = 1..Len(busy)
      /\ DOMAIN busy' = 1..Len(busy')
  BY PendingItems, LenProperties DEF RefinementInv, NodesInv, TypeOK
<1>1. /\ cursor \in 1..Len(busy)
      /\ Len(busy') = Len(busy) - 1
      /\ \A i \in 1..(cursor - 1) : busy'[i] = busy[i]
      /\ \A i \in cursor..(Len(busy) - 1) : busy'[i] = busy[i + 1]
  <2>1. cursor \in 1..Len(busy)
    BY <1>0 DEF RemoveNode, TypeOK
  <2>2. busy' = RemoveAt(busy, cursor) /\ busy \in Seq(Items)
    BY <1>0 DEF RemoveNode, TypeOK
  <2>3. /\ Len(RemoveAt(busy, cursor)) = Len(busy) - 1
        /\ \A i \in 1..(cursor - 1) : RemoveAt(busy, cursor)[i] = busy[i]
        /\ \A i \in cursor..(Len(busy) - 1) : RemoveAt(busy, cursor)[i] = busy[i + 1]
    BY <2>1, <2>2, RemoveAtProperties
  <2> QED
    BY <2>1, <2>2, <2>3
<1>2. /\ scanning # NoConn
      /\ Selected(busy[cursor])
      /\ UNCHANGED <<scanning, exit, tickets, taken>>
  BY DEF RemoveNode, loop, flags
<1>3. /\ \A i \in 1..(Len(busy) - 1) : \E j \in 1..Len(busy) : j # cursor /\ busy'[i] = busy[j]
      /\ \A j \in 1..Len(busy) : j # cursor => \E i \in 1..(Len(busy) - 1) : busy'[i] = busy[j]
  BY <1>0, <1>1, OthersStay
<1>4. /\ \A x : x \in Visible <=> \E i \in 1..Len(busy) : x = busy[i] /\ ~Selected(x)
      /\ \A x : x \in Visible' <=> \E i \in 1..Len(busy') : x = busy'[i] /\ ~Selected(x)
  BY <1>0, <1>2 DEF Visible, Selected
<1>5. Visible' = Visible
  <2>1. ASSUME NEW x \in Visible'
        PROVE  x \in Visible
    <3>1. PICK i \in 1..(Len(busy) - 1) : x = busy'[i] /\ ~Selected(x)
      BY <1>1, <1>4
    <3>2. PICK j \in 1..Len(busy) : busy'[i] = busy[j]
      BY <1>3
    <3> QED
      BY <1>4, <3>1, <3>2
  <2>2. ASSUME NEW x \in Visible
        PROVE  x \in Visible'
    <3>1. PICK j \in 1..Len(busy) : x = busy[j] /\ ~Selected(x)
      BY <1>4
    <3>2. j # cursor
      BY <1>2, <3>1
    <3> QED
      BY <1>1, <1>3, <1>4, <3>1, <3>2
  <2> QED
    BY <2>1, <2>2
<1> QED
  BY <1>2, <1>5 DEF Abstract!vars

(* When RemoveAll unlocks, it has left none of its items behind.           *)
LEMMA RemoveAllEndRefines ==
    ASSUME RefinementInv, RemoveAllEnd
    PROVE  UNCHANGED Abstract!vars
<1>1. /\ scanning # NoConn /\ scanning' = NoConn
      /\ cursor > Len(busy)
      /\ UNCHANGED <<busy, exit, tickets, taken>>
  BY DEF RemoveAllEnd, lists, flags, history
<1>2. \A i \in DOMAIN busy : ~Selected(busy[i])
  <2>1. DOMAIN busy = 1..Len(busy) /\ Len(busy) \in Nat /\ cursor \in Nat
    BY PendingItems DEF RefinementInv, NodesInv, TypeOK
  <2> QED
    BY <1>1, <2>1 DEF RefinementInv, SweptInv
<1>3. Visible' = Visible
  BY <1>1, <1>2 DEF Visible
<1> QED
  BY <1>1, <1>3 DEF Abstract!vars

-----------------------------------------------------------------------------
(* NewQueue's empty list is the empty channel.                             *)
LEMMA InitRefines ==
    ASSUME Init
    PROVE  RefinementInv /\ Abstract!Init
<1>1. NodesInv /\ OrderInv
  BY NodesInit, OrderInit
<1>2. SweptInv
  BY DEF Init, SweptInv
<1>3. Visible = {}
  BY DEF Init, Visible
<1>4. Abstract!Init
  BY <1>3 DEF Init, Abstract!Init
<1> QED
  BY <1>1, <1>2, <1>4 DEF RefinementInv

(* Every step of queue.c is a step of the channel, or none.                *)
LEMMA NextRefines ==
    ASSUME RefinementInv, NodesInv', [Next]_vars
    PROVE  [Abstract!Next]_(Abstract!vars)
<1>1. ASSUME NEW type \in Types, NEW c \in Conns, Enqueue(type, c)
      PROVE  Abstract!Next
  BY <1>1, EnqueueRefines DEF Abstract!Next
<1>2. CASE Enqueue("EXIT", NoConn)
  BY <1>2, EnqueueRefines DEF Abstract!Next
<1>3. ASSUME NEW t \in Consumers, Hands(t)
      PROVE  Abstract!Next
  BY <1>3, PopRefines DEF Abstract!Next
<1>4. ASSUME NEW t \in Consumers, DequeueEmptied(t) \/ FallsAsleep(t) \/ Returns(t) \/ SpuriousWakeUp(t)
      PROVE  UNCHANGED Abstract!vars
  <2>1. CASE DequeueEmptied(t)
    BY <2>1, StutterRefines DEF DequeueEmptied, lists, loop, history
  <2>2. CASE FallsAsleep(t)
    BY <2>2, StutterRefines DEF FallsAsleep, Sleep, lists, flags, loop, history
  <2>3. CASE Returns(t)
    BY <2>3, StutterRefines DEF Returns, GiveUp, lists, flags, loop, history
  <2>4. CASE SpuriousWakeUp(t)
    BY <2>4, StutterRefines DEF SpuriousWakeUp, lists, flags, loop, history
  <2> QED
    BY <1>4, <2>1, <2>2, <2>3, <2>4
<1>5. ASSUME NEW t \in Consumers, FreeQueue(t)
      PROVE  UNCHANGED Abstract!vars
  \* The consumer got EXIT, and nothing came behind it: nothing is thrown away.
  <2>1. busy = <<>>
    BY <1>5 DEF FreeQueue, RefinementInv, OrderInv, NothingBehindExit
  <2> QED
    BY <1>5, <2>1, StutterRefines DEF FreeQueue, loop
<1>6. ASSUME NEW c \in Conns, RemoveAllBegin(c)
      PROVE  Abstract!Next
  BY <1>6, RemoveAllBeginRefines DEF Abstract!Next
<1>7. CASE KeepNode
  BY <1>7, StutterRefines DEF KeepNode, lists, flags, history
<1>8. CASE UNCHANGED vars
  BY <1>8, StutterRefines DEF vars, lists, flags, loop, history
<1> QED
  BY <1>1, <1>2, <1>3, <1>4, <1>5, <1>6, <1>7, <1>8, RemoveNodeRefines, RemoveAllEndRefines,
     ConsumeSteps DEF Next, Scan

(* queue.c implements the atomic FIFO: whatever its threads, its node by   *)
(* node scans and its wake-ups do, the items its users exchange leave in   *)
(* order, are removed as a whole, and stop at EXIT with none left behind.  *)
THEOREM QueueImplementsChannel == Spec => Implements
<1>1. Init => RefinementInv /\ Abstract!Init
  BY InitRefines
<1>2. RefinementInv /\ [Next]_vars => RefinementInv' /\ [Abstract!Next]_(Abstract!vars)
  <2> SUFFICES ASSUME RefinementInv, [Next]_vars
               PROVE  RefinementInv' /\ [Abstract!Next]_(Abstract!vars)
    OBVIOUS
  <2>1. NodesInv'
    BY NodesNext DEF RefinementInv
  <2>2. OrderInv'
    BY <2>1, OrderNext DEF RefinementInv
  <2>3. SweptInv'
    BY <2>1, SweptNext
  <2>4. [Abstract!Next]_(Abstract!vars)
    BY <2>1, NextRefines
  <2> QED
    BY <2>1, <2>2, <2>3, <2>4 DEF RefinementInv
<1> QED
  BY <1>1, <1>2, PTL DEF Spec, Implements, Abstract!Spec
=============================================================================
