---------------------- MODULE SelectorAndBindingProofs ----------------------
(***************************************************************************)
(* Proofs about two small modules that have nothing in common, one after   *)
(* the other: Selector, for any sockets, any supply of keys and any bounds, *)
(* and whether or not the owner interrupts its sweeps; and Binding, for any *)
(* number of connections, when a client does not retry.                    *)
(***************************************************************************)
EXTENDS Selector, Binding, SequenceLemmas

USE SelectorAssumption

\* A key counts what was served of it only while it is busy; so the key the
\* sweep goes on from, once one event of it was served, is in the list.
ServedAreBusy == \A k \in Keys : key[k].curCount > 0 => k \in Busy

SelectorInv == TypeOK /\ KeyTable /\ ServedAreBusy

-----------------------------------------------------------------------------
(* A busy key is where its own index says.                                 *)
LEMMA BusyIndex ==
    ASSUME SelectorInv, NEW k \in Busy
    PROVE  /\ k \in Keys
           /\ key[k].poll \in 1..Len(busyKeys)
           /\ busyKeys[key[k].poll] = k
           /\ Position(k) = key[k].poll
           /\ polls[key[k].poll].fd = key[k].fd
<1>1. PICK i \in 1..Len(busyKeys) : busyKeys[i] = k
  BY DEF Busy, ToSet, SelectorInv, TypeOK
<1>2. key[k].poll = i /\ key[k].fd = polls[i].fd
  BY <1>1 DEF SelectorInv, TypeOK, KeyTable, PollsMatchKeys
<1>3. \A j \in DOMAIN busyKeys : busyKeys[j] = k => j = i
  BY <1>1 DEF SelectorInv, TypeOK, KeyTable, KeysListedOnce
<1>4. Position(k) = i
  BY <1>1, <1>3 DEF Position
<1> QED
  BY <1>1, <1>2, <1>4, ElementOfSeq DEF SelectorInv, TypeOK

LEMMA IndexBusy ==
    ASSUME SelectorInv, NEW i \in 1..Len(busyKeys)
    PROVE  /\ busyKeys[i] \in Busy
           /\ busyKeys[i] \in Keys
           /\ key[busyKeys[i]].poll = i
           /\ key[busyKeys[i]].fd = polls[i].fd
           /\ i \in 1..Len(polls)
           /\ polls[i] \in Polls
<1>1. i \in DOMAIN busyKeys /\ Len(polls) = Len(busyKeys)
  BY DEF SelectorInv, TypeOK, KeyTable, PollsMatchKeys
<1>2. busyKeys[i] \in Keys /\ polls[i] \in Polls
  BY <1>1, ElementOfSeq DEF SelectorInv, TypeOK
<1> QED
  BY <1>1, <1>2 DEF Busy, ToSet, SelectorInv, KeyTable, PollsMatchKeys

(* NewSelector's empty tables agree.                                       *)
LEMMA Initially == Init => SelectorInv
<1> SUFFICES ASSUME Init PROVE SelectorInv
  OBVIOUS
<1>1. TypeOK
  <2>1. Zeroed \in KeyFields
    BY DEF Zeroed, KeyFields
  <2>2. key \in [Keys -> KeyFields]
    BY <2>1 DEF Init
  <2>3. busyKeys \in Seq(Keys) /\ freeKeys \in Seq(Keys) /\ polls \in Seq(Polls)
    BY EmptySeq DEF Init
  <2>4. maxPolls \in Nat \ {0} /\ pipe \in Nat
    BY DEF Init
  <2> QED
    BY <2>2, <2>3, <2>4 DEF Init, TypeOK
<1>2. Busy = {} /\ Free = {} /\ Len(busyKeys) = 0 /\ Len(polls) = 0
  BY DEF Init, Busy, Free, ToSet
<1>3. KeyTable
  BY <1>2 DEF Init, KeyTable, PollsMatchKeys, KeysListedOnce, OneKeyPerSocket, PollsFit, ReadyMarked, Zeroed
<1>4. ServedAreBusy
  BY DEF Init, ServedAreBusy, Zeroed
<1> QED
  BY <1>1, <1>3, <1>4 DEF SelectorInv

-----------------------------------------------------------------------------
(* Register                                                                *)
LEMMA AttachKeepsInv ==
    ASSUME SelectorInv,
           NEW k \in Keys, NEW fd \in Fds,
           k \notin Busy, k \notin Free',
           \A j \in Busy : key[j].fd # fd,
           Attach(k, fd),
           freeKeys' \in Seq(Keys), Free' \subseteq Free,
           \A i, j \in DOMAIN freeKeys' : freeKeys'[i] = freeKeys'[j] => i = j,
           UNCHANGED <<curKey, pipe, locked, ready>>
    PROVE  SelectorInv'
<1> DEFINE n == Len(busyKeys)
           new == [fd |-> fd, poll |-> n + 1, count |-> 1, curCount |-> 0, linked |-> TRUE]
           entry == [fd |-> fd, revents |-> FALSE]
<1>0. /\ busyKeys \in Seq(Keys) /\ polls \in Seq(Polls) /\ key \in [Keys -> KeyFields]
      /\ n \in Nat /\ Len(polls) = n /\ maxPolls \in Nat \ {0} /\ n + 1 <= maxPolls
      /\ new \in KeyFields /\ entry \in Polls
  BY DEF SelectorInv, TypeOK, KeyTable, PollsMatchKeys, PollsFit, KeyFields, Polls
<1>1. /\ busyKeys' \in Seq(Keys) /\ Len(busyKeys') = n + 1
      /\ \A i \in 1..n : busyKeys'[i] = busyKeys[i]
      /\ busyKeys'[n + 1] = k
  BY <1>0 DEF Attach
<1>2. /\ polls' \in Seq(Polls) /\ Len(polls') = n + 1
      /\ \A i \in 1..n : polls'[i] = polls[i]
      /\ polls'[n + 1] = entry
  BY <1>0 DEF Attach
<1>3. /\ key' \in [Keys -> KeyFields]
      /\ key'[k] = new
      /\ \A j \in Keys \ {k} : key'[j] = key[j]
  BY <1>0 DEF Attach
<1>4. maxPolls' \in Nat \ {0} /\ n + 2 <= maxPolls'
  BY <1>0 DEF Attach
<1> HIDE DEF n, new, entry
<1>5. DOMAIN busyKeys' = 1..(n + 1) /\ DOMAIN busyKeys = 1..n
  BY <1>0, <1>1 DEF n
<1>6. Busy' = Busy \cup {k}
  BY <1>0, <1>1, <1>5 DEF Busy, ToSet
<1>7. \A j \in Busy : j \in Keys /\ j # k /\ key[j].poll \in 1..n /\ busyKeys[key[j].poll] = j
  BY BusyIndex DEF n
<1>8. \A i \in 1..n : busyKeys[i] \in Busy /\ busyKeys[i] \in Keys /\ busyKeys[i] # k
                      /\ key[busyKeys[i]].poll = i /\ key[busyKeys[i]].fd = polls[i].fd
  BY IndexBusy DEF n
<1>9. TypeOK'
  BY <1>1, <1>2, <1>3, <1>4 DEF SelectorInv, TypeOK
<1>10. PollsMatchKeys'
  <2>1. ASSUME NEW i \in 1..(n + 1)
        PROVE  key'[busyKeys'[i]].poll = i /\ key'[busyKeys'[i]].fd = polls'[i].fd
    <3>1. CASE i \in 1..n
      BY <1>1, <1>2, <1>3, <1>8, <3>1
    <3>2. CASE i = n + 1
      BY <1>1, <1>2, <1>3, <3>2 DEF new, entry, n
    <3> QED
      BY <1>0, <3>1, <3>2
  <2> QED
    BY <1>1, <1>2, <1>5, <2>1 DEF PollsMatchKeys
<1>11. KeysListedOnce'
  <2>1. \A i, j \in 1..(n + 1) : busyKeys'[i] = busyKeys'[j] => i = j
    <3>1. \A i, j \in 1..n : busyKeys[i] = busyKeys[j] => i = j
      BY <1>5 DEF SelectorInv, KeyTable, KeysListedOnce
    <3>2. \A i \in 1..(n + 1) : i = n + 1 \/ i \in 1..n
      BY <1>0
    <3> QED
      BY <1>1, <1>8, <3>1, <3>2
  <2>2. Busy' \cap Free' = {}
    BY <1>6 DEF SelectorInv, KeyTable, KeysListedOnce
  <2>3. \A j \in Keys : key'[j].linked <=> j \in Busy'
    BY <1>3, <1>6 DEF SelectorInv, KeyTable, KeysListedOnce, new
  <2> QED
    BY <1>5, <2>1, <2>2, <2>3 DEF KeysListedOnce
<1>12. OneKeyPerSocket'
  BY <1>3, <1>6, <1>7 DEF SelectorInv, KeyTable, OneKeyPerSocket, new
<1>13. PollsFit'
  BY <1>0, <1>2, <1>4 DEF PollsFit
<1>14. ReadyMarked'
  <2>1. ~polls'[key'[k].poll].revents
    BY <1>2, <1>3 DEF new, entry, n
  <2>2. \A j \in Busy : polls'[key'[j].poll] = polls[key[j].poll]
    BY <1>2, <1>3, <1>7
  <2> QED
    BY <1>6, <2>1, <2>2 DEF SelectorInv, KeyTable, ReadyMarked
<1>15. ServedAreBusy'
  BY <1>3, <1>6 DEF SelectorInv, ServedAreBusy, new
<1> QED
  BY <1>9, <1>10, <1>11, <1>12, <1>13, <1>14, <1>15 DEF SelectorInv, KeyTable

LEMMA RegisterNewKeepsInv ==
    ASSUME SelectorInv, NEW fd \in Fds, RegisterNew(fd)
    PROVE  SelectorInv'
<1>0. /\ \A j \in Busy : key[j].fd # fd
      /\ UNCHANGED <<curKey, pipe, locked, ready>>
  BY DEF RegisterNew
<1>1. freeKeys \in Seq(Keys) /\ Free \subseteq Keys
  BY ElementOfSeq DEF SelectorInv, TypeOK, Free, ToSet
<1>2. /\ \A i, j \in DOMAIN freeKeys : freeKeys[i] = freeKeys[j] => i = j
      /\ Busy \cap Free = {}
  BY DEF SelectorInv, KeyTable, KeysListedOnce
<1>3. CASE /\ freeKeys # <<>>
           /\ freeKeys' = Tail(freeKeys)
           /\ Attach(Head(freeKeys), fd)
  <2> DEFINE k == Head(freeKeys)
             m == Len(freeKeys)
  <2>1. /\ m \in Nat \ {0}
        /\ k = freeKeys[1] /\ k \in Keys
        /\ freeKeys' \in Seq(Keys)
        /\ Len(freeKeys') = m - 1
        /\ \A i \in 1..(m - 1) : freeKeys'[i] = freeKeys[i + 1]
    BY <1>1, <1>3, TailProperties
  <2>2. DOMAIN freeKeys = 1..m /\ DOMAIN freeKeys' = 1..(m - 1)
    BY <1>1, <2>1
  <2> HIDE DEF k, m
  <2>3. k \in Free /\ k \notin Busy
    BY <1>2, <2>1, <2>2 DEF Free, ToSet
  <2>4. \A i \in 1..(m - 1) : i + 1 \in 1..m /\ i + 1 # 1 /\ 1 \in 1..m
    BY <2>1
  <2>5. Free' \subseteq Free
    BY <2>1, <2>2, <2>4 DEF Free, ToSet
  <2>6. k \notin Free'
    <3>1. SUFFICES ASSUME NEW i \in 1..(m - 1), k = freeKeys'[i]
                   PROVE  FALSE
      BY <2>2 DEF Free, ToSet
    <3>2. freeKeys[1] = freeKeys[i + 1] /\ 1 \in DOMAIN freeKeys /\ i + 1 \in DOMAIN freeKeys
      BY <2>1, <2>2, <2>4, <3>1
    <3> QED
      BY <1>2, <2>4, <3>1, <3>2
  <2>7. \A i, j \in DOMAIN freeKeys' : freeKeys'[i] = freeKeys'[j] => i = j
    <3>1. SUFFICES ASSUME NEW i \in 1..(m - 1), NEW j \in 1..(m - 1), freeKeys'[i] = freeKeys'[j]
                   PROVE  i = j
      BY <2>2
    <3>2. freeKeys[i + 1] = freeKeys[j + 1] /\ i + 1 \in DOMAIN freeKeys /\ j + 1 \in DOMAIN freeKeys
      BY <2>1, <2>2, <2>4, <3>1
    <3>3. i + 1 = j + 1
      BY <1>2, <3>2
    <3> QED
      BY <3>3
  <2>8. Attach(k, fd)
    BY <1>3 DEF k
  <2> QED
    BY <1>0, <2>1, <2>3, <2>5, <2>6, <2>7, <2>8, AttachKeepsInv
<1>4. CASE /\ freeKeys = <<>>
           /\ \E k \in Keys \ Busy : Attach(k, fd)
           /\ UNCHANGED freeKeys
  <2>1. PICK k \in Keys \ Busy : Attach(k, fd)
    BY <1>4
  <2>2. Free' = {} /\ freeKeys' = freeKeys
    BY <1>4 DEF Free, ToSet
  <2> QED
    BY <1>0, <1>1, <1>2, <2>1, <2>2, AttachKeepsInv
<1> QED
  BY <1>3, <1>4 DEF RegisterNew

-----------------------------------------------------------------------------
(* Unregister                                                              *)
LEMMA DetachKeepsInv ==
    ASSUME SelectorInv,
           NEW k \in Keys, key[k].linked, Detach(k),
           ready' = ready \ {k},
           UNCHANGED <<maxPolls, curKey, pipe, locked>>
    PROVE  SelectorInv'
<1> DEFINE n == Len(busyKeys)
           p == key[k].poll
           Old(i) == IF i < p THEN i ELSE i + 1
<1>0. /\ busyKeys \in Seq(Keys) /\ freeKeys \in Seq(Keys)
      /\ polls \in Seq(Polls) /\ key \in [Keys -> KeyFields]
      /\ n \in Nat /\ Len(polls) = n /\ DOMAIN busyKeys = 1..n
  BY DEF SelectorInv, TypeOK, KeyTable, PollsMatchKeys
<1>1. k \in Busy
  BY DEF SelectorInv, KeyTable, KeysListedOnce
<1>2. p \in 1..n /\ busyKeys[p] = k /\ Position(k) = p
  BY <1>1, BusyIndex
<1> HIDE DEF p
<1>3. /\ busyKeys' \in Seq(Keys) /\ Len(busyKeys') = n - 1
      /\ \A i \in 1..(p - 1) : busyKeys'[i] = busyKeys[i]
      /\ \A i \in p..(n - 1) : busyKeys'[i] = busyKeys[i + 1]
  BY <1>0, <1>2, RemoveAtProperties DEF Detach
<1>4. /\ polls' \in Seq(Polls) /\ Len(polls') = n - 1
      /\ \A i \in 1..(p - 1) : polls'[i] = polls[i]
      /\ \A i \in p..(n - 1) : polls'[i] = polls[i + 1]
  <2>1. polls' = RemoveAt(polls, p)
    BY DEF Detach, p
  <2> QED
    BY <1>0, <1>2, <2>1, RemoveAtProperties
<1> HIDE DEF n
<1>5. \A i \in 1..(n - 1) : /\ Old(i) \in 1..n /\ Old(i) # p
                            /\ busyKeys'[i] = busyKeys[Old(i)]
                            /\ polls'[i] = polls[Old(i)]
                            /\ i = IF Old(i) > p THEN Old(i) - 1 ELSE Old(i)
  BY <1>0, <1>2, <1>3, <1>4
<1>6. \A i \in 1..n : i # p => \E j \in 1..(n - 1) : Old(j) = i
  <2>1. ASSUME NEW i \in 1..n, i # p
        PROVE  \E j \in 1..(n - 1) : Old(j) = i
    <3>1. CASE i < p
      <4>1. i \in 1..(n - 1) /\ Old(i) = i
        BY <1>0, <1>2, <3>1
      <4> QED
        BY <4>1
    <3>2. CASE i > p
      <4>1. i - 1 \in 1..(n - 1) /\ Old(i - 1) = i
        BY <1>0, <1>2, <3>2
      <4> QED
        BY <4>1
    <3> QED
      BY <1>0, <1>2, <2>1, <3>1, <3>2
  <2> QED
    BY <2>1
<1> HIDE DEF Old
<1>7. \A i \in 1..n : /\ busyKeys[i] \in Busy /\ busyKeys[i] \in Keys
                     /\ key[busyKeys[i]].poll = i
                     /\ key[busyKeys[i]].fd = polls[i].fd
  BY IndexBusy DEF n
<1>8. \A j \in Busy : /\ j \in Keys
                     /\ key[j].poll \in 1..n /\ busyKeys[key[j].poll] = j
  BY BusyIndex DEF n
<1>9. DOMAIN busyKeys' = 1..(n - 1)
  BY <1>0, <1>2, <1>3
<1>10. Busy' = Busy \ {k}
  <2>1. ASSUME NEW i \in 1..(n - 1)
        PROVE  busyKeys'[i] \in Busy \ {k}
    BY <1>2, <1>5, <1>7
  <2>2. ASSUME NEW j \in Busy \ {k}
        PROVE  \E i \in 1..(n - 1) : busyKeys'[i] = j
    <3>1. key[j].poll \in 1..n /\ busyKeys[key[j].poll] = j /\ key[j].poll # p
      BY <1>2, <1>8
    <3>2. PICK i \in 1..(n - 1) : Old(i) = key[j].poll
      BY <1>6, <3>1
    <3> QED
      BY <1>5, <3>1, <3>2
  <2>3. Busy' = {busyKeys'[i] : i \in 1..(n - 1)}
    BY <1>9 DEF Busy, ToSet
  <2> QED
    BY <2>1, <2>2, <2>3
<1>11. /\ freeKeys' \in Seq(Keys) /\ Free' = Free \cup {k}
       /\ \A i, j \in DOMAIN freeKeys' : freeKeys'[i] = freeKeys'[j] => i = j
  <2> DEFINE m == Len(freeKeys)
  <2>1. /\ m \in Nat /\ DOMAIN freeKeys = 1..m
        /\ freeKeys' \in Seq(Keys) /\ DOMAIN freeKeys' = 1..(m + 1)
        /\ \A i \in 1..m : freeKeys'[i] = freeKeys[i]
        /\ freeKeys'[m + 1] = k
    BY <1>0 DEF Detach
  <2> HIDE DEF m
  <2>2. \A i \in 1..(m + 1) : i \in 1..m \/ i = m + 1
    BY <2>1
  <2>3. 1..m \subseteq 1..(m + 1) /\ m + 1 \in 1..(m + 1)
    BY <2>1
  <2>4. Free = {freeKeys[i] : i \in 1..m} /\ Free' = {freeKeys'[i] : i \in 1..(m + 1)}
    BY <2>1 DEF Free, ToSet
  <2>5. Free' = Free \cup {k}
    BY <2>1, <2>2, <2>3, <2>4
  <2>6. /\ \A i, j \in 1..m : freeKeys[i] = freeKeys[j] => i = j
        /\ k \notin Free
    BY <1>1, <2>1 DEF SelectorInv, KeyTable, KeysListedOnce
  <2>7. \A i \in 1..m : freeKeys'[i] \in Free
    BY <2>1, <2>4
  <2>8. \A i, j \in 1..(m + 1) : freeKeys'[i] = freeKeys'[j] => i = j
    BY <2>1, <2>2, <2>6, <2>7
  <2> QED
    BY <2>1, <2>5, <2>8
<1>12. /\ key' \in [Keys -> KeyFields]
       /\ key'[k] = Zeroed
       /\ \A j \in Keys \ {k} :
             /\ key'[j].fd = key[j].fd
             /\ key'[j].linked = key[j].linked
             /\ key'[j].curCount = key[j].curCount
             /\ j \in Busy => key'[j].poll = IF key[j].poll > p THEN key[j].poll - 1 ELSE key[j].poll
  <2>1. Zeroed \in KeyFields
    BY DEF Zeroed, KeyFields
  <2>2. key' = [j \in Keys |->
                  IF j = k THEN Zeroed
                  ELSE IF j \in Busy /\ key[j].poll > p
                  THEN [key[j] EXCEPT !.poll = @ - 1]
                  ELSE key[j]]
    BY DEF Detach, p
  <2>3. ASSUME NEW j \in Keys \ {k}
        PROVE  /\ key'[j] \in KeyFields
               /\ key'[j].fd = key[j].fd
               /\ key'[j].linked = key[j].linked
               /\ key'[j].curCount = key[j].curCount
               /\ j \in Busy => key'[j].poll = IF key[j].poll > p THEN key[j].poll - 1 ELSE key[j].poll
    <3>1. key[j] \in KeyFields
      BY <1>0
    <3>2. CASE j \in Busy /\ key[j].poll > p
      BY <2>2, <3>1, <3>2 DEF KeyFields
    <3>3. CASE ~(j \in Busy /\ key[j].poll > p)
      BY <2>2, <3>1, <3>3
    <3> QED
      BY <3>2, <3>3
  <2>4. key'[k] = Zeroed
    BY <2>2
  <2>5. key' \in [Keys -> KeyFields]
    BY <2>1, <2>2, <2>3, <2>4
  <2> QED
    BY <2>3, <2>4, <2>5
<1>13. \A i \in 1..(n - 1) : /\ busyKeys'[i] \in Busy \ {k}
                             /\ busyKeys'[i] \in Keys \ {k}
                             /\ key'[busyKeys'[i]].poll = i
                             /\ key'[busyKeys'[i]].fd = polls'[i].fd
  BY <1>2, <1>5, <1>7, <1>12
<1>14. TypeOK'
  BY <1>3, <1>4, <1>11, <1>12 DEF SelectorInv, TypeOK
<1>15. PollsMatchKeys'
  BY <1>3, <1>4, <1>9, <1>13 DEF PollsMatchKeys
<1>16. KeysListedOnce'
  <2>1. \A i, j \in 1..(n - 1) : busyKeys'[i] = busyKeys'[j] => i = j
    BY <1>13
  <2>2. Busy' \cap Free' = {}
    BY <1>10, <1>11 DEF SelectorInv, KeyTable, KeysListedOnce
  <2>3. \A j \in Keys : key'[j].linked <=> j \in Busy'
    BY <1>10, <1>12 DEF SelectorInv, KeyTable, KeysListedOnce, Zeroed
  <2> QED
    BY <1>9, <1>11, <2>1, <2>2, <2>3 DEF KeysListedOnce
<1>17. OneKeyPerSocket'
  BY <1>8, <1>10, <1>12 DEF SelectorInv, KeyTable, OneKeyPerSocket
<1>18. PollsFit'
  BY <1>0, <1>4 DEF SelectorInv, TypeOK, KeyTable, PollsFit
<1>19. ReadyMarked'
  <2>1. ASSUME NEW j \in Busy \ {k}
        PROVE  polls'[key'[j].poll] = polls[key[j].poll]
    <3>1. key[j].poll \in 1..n /\ busyKeys[key[j].poll] = j /\ key[j].poll # p
      BY <1>2, <1>8
    <3>2. PICK i \in 1..(n - 1) : Old(i) = key[j].poll
      BY <1>6, <3>1
    <3>3. key'[j].poll = i
      BY <1>5, <1>13, <3>1, <3>2
    <3> QED
      BY <1>5, <3>2, <3>3
  <2> QED
    BY <1>10, <2>1 DEF SelectorInv, KeyTable, ReadyMarked
<1>20. ServedAreBusy'
  BY <1>10, <1>12 DEF SelectorInv, ServedAreBusy, Zeroed
<1> QED
  BY <1>14, <1>15, <1>16, <1>17, <1>18, <1>19, <1>20 DEF SelectorInv, KeyTable

-----------------------------------------------------------------------------
\* What no step but Register's and Unregister's changes: where a key stands,
FieldsStay ==
    /\ key' \in [Keys -> KeyFields]
    /\ \A k \in Keys : /\ key'[k].fd = key[k].fd
                       /\ key'[k].poll = key[k].poll
                       /\ key'[k].linked = key[k].linked
                       /\ key'[k].curCount > 0 => k \in Busy

\* the sockets of the entries,
EntriesStay ==
    /\ polls' \in Seq(Polls)
    /\ Len(polls') = Len(polls)
    /\ \A i \in 1..Len(polls) : polls'[i].fd = polls[i].fd

\* and that the keys to return are the marked ones.
MarksAgree ==
    /\ curKey' \in Keys \cup {NoKey}
    /\ pipe' \in Nat
    /\ locked' \in BOOLEAN
    /\ ready' \subseteq Busy
    /\ \A k \in Busy : k \in ready' <=> polls'[key[k].poll].revents = TRUE

(* Steps that leave the lists and the sockets of the keys alone: only the  *)
(* counts, the revents and what is still to be returned change.            *)
LEMMA TableKept ==
    ASSUME SelectorInv,
           UNCHANGED <<busyKeys, freeKeys, maxPolls>>,
           FieldsStay, EntriesStay, MarksAgree
    PROVE  SelectorInv'
<1> USE DEF FieldsStay, EntriesStay, MarksAgree
<1>1. Busy' = Busy /\ Free' = Free
  BY DEF Busy, Free
<1>2. \A k \in Busy : k \in Keys
  BY BusyIndex
<1>3. ready' \in SUBSET Keys
  BY <1>2
<1>4. TypeOK'
  BY <1>3 DEF SelectorInv, TypeOK
<1>5. PollsMatchKeys'
  <2>1. ASSUME NEW i \in 1..Len(busyKeys)
        PROVE  key'[busyKeys[i]].poll = i /\ key'[busyKeys[i]].fd = polls'[i].fd
    BY IndexBusy
  <2> QED
    BY <2>1 DEF SelectorInv, TypeOK, KeyTable, PollsMatchKeys
<1>6. KeysListedOnce'
  BY <1>1 DEF SelectorInv, KeyTable, KeysListedOnce
<1>7. OneKeyPerSocket'
  BY <1>1, <1>2 DEF SelectorInv, KeyTable, OneKeyPerSocket
<1>8. PollsFit'
  BY DEF SelectorInv, KeyTable, PollsFit
<1>9. ReadyMarked'
  <2>1. \A k \in Busy : key'[k].poll = key[k].poll
    BY <1>2
  <2>2. \A k \in Busy : polls'[key[k].poll].revents = TRUE <=> polls'[key[k].poll].revents
    <3>1. \A k \in Busy : key[k].poll \in 1..Len(polls')
      BY BusyIndex DEF SelectorInv, KeyTable, PollsMatchKeys
    <3>2. \A i \in 1..Len(polls') : polls'[i].revents \in BOOLEAN
      <4>1. \A i \in 1..Len(polls') : polls'[i] \in Polls
        BY ElementOfSeq
      <4> QED
        BY <4>1 DEF Polls
    <3> QED
      BY <3>1, <3>2
  <2>3. ready' = {k \in Busy : polls'[key'[k].poll].revents}
    BY <2>1, <2>2
  <2> QED
    BY <1>1, <2>3 DEF ReadyMarked
<1>10. ServedAreBusy'
  BY <1>1 DEF ServedAreBusy
<1> QED
  BY <1>4, <1>5, <1>6, <1>7, <1>8, <1>9, <1>10 DEF SelectorInv, KeyTable

(* One count of one key is set: nothing else of any key changes.           *)
LEMMA CountSet ==
    ASSUME NEW f \in [Keys -> KeyFields], NEW k \in Keys, NEW c \in Nat,
           NEW g, g = [f EXCEPT ![k].curCount = c]
    PROVE  /\ g \in [Keys -> KeyFields]
           /\ g[k].curCount = c
           /\ \A j \in Keys : /\ g[j].fd = f[j].fd
                              /\ g[j].poll = f[j].poll
                              /\ g[j].linked = f[j].linked
                              /\ j # k => g[j].curCount = f[j].curCount
<1>1. f[k] \in KeyFields /\ [f[k] EXCEPT !.curCount = c] \in KeyFields
  BY DEF KeyFields
<1>2. /\ [f[k] EXCEPT !.curCount = c].fd = f[k].fd
      /\ [f[k] EXCEPT !.curCount = c].poll = f[k].poll
      /\ [f[k] EXCEPT !.curCount = c].linked = f[k].linked
      /\ [f[k] EXCEPT !.curCount = c].curCount = c
  BY <1>1 DEF KeyFields
<1>3. g[k] = [f[k] EXCEPT !.curCount = c] /\ \A j \in Keys \ {k} : g[j] = f[j]
  OBVIOUS
<1>4. g \in [Keys -> KeyFields]
  BY <1>1
<1> QED
  BY <1>2, <1>3, <1>4

(* The counts of a registration or of an unregistration that is not the    *)
(* last.                                                                   *)
LEMMA CountsKeepInv ==
    ASSUME SelectorInv,
           \/ \E fd \in Fds : RegisterAgain(fd)
           \/ \E k \in Keys : UnregisterOne(k)
    PROVE  SelectorInv'
<1>1. /\ key \in [Keys -> KeyFields]
      /\ polls \in Seq(Polls) /\ curKey \in Keys \cup {NoKey}
      /\ pipe \in Nat /\ locked \in BOOLEAN
      /\ ready \subseteq Busy
      /\ \A k \in Busy : k \in ready <=> polls[key[k].poll].revents = TRUE
      /\ \A k \in Keys : key[k].curCount > 0 => k \in Busy
  BY DEF SelectorInv, TypeOK, KeyTable, ReadyMarked, ServedAreBusy
<1>2. PICK k \in Keys, c \in Nat : key' = [key EXCEPT ![k].count = c]
  <2>1. CASE \E fd \in Fds : RegisterAgain(fd)
    <3>1. PICK k \in Busy : key' = [key EXCEPT ![k].count = @ + 1]
      BY <2>1 DEF RegisterAgain
    <3>2. k \in Keys
      BY BusyIndex
    <3>3. key[k].count + 1 \in Nat
      BY <1>1, <3>2 DEF KeyFields
    <3> QED
      BY <3>1, <3>2, <3>3
  <2>2. CASE \E k \in Keys : UnregisterOne(k)
    <3>1. PICK k \in Keys : key[k].count > 1 /\ key' = [key EXCEPT ![k].count = @ - 1]
      BY <2>2 DEF UnregisterOne
    <3>2. key[k].count - 1 \in Nat
      BY <1>1, <3>1 DEF KeyFields
    <3> QED
      BY <3>1, <3>2
  <2> QED
    BY <2>1, <2>2
<1>3. /\ key' \in [Keys -> KeyFields]
      /\ \A j \in Keys : /\ key'[j].fd = key[j].fd
                          /\ key'[j].poll = key[j].poll
                          /\ key'[j].linked = key[j].linked
                          /\ key'[j].curCount = key[j].curCount
  BY <1>1, <1>2 DEF KeyFields
<1>4. UNCHANGED <<busyKeys, freeKeys, polls, maxPolls, curKey, pipe, locked, ready>>
  BY DEF RegisterAgain, UnregisterOne
<1> QED
  BY <1>1, <1>3, <1>4, TableKept DEF FieldsStay, EntriesStay, MarksAgree

LEMMA SelectKeepsInv ==
    ASSUME SelectorInv, NEW up \in SUBSET Busy, Select(up)
    PROVE  SelectorInv'
<1> DEFINE n == Len(polls)
           Found(i) == polls[i].fd \in {key[k].fd : k \in up}
<1>1. /\ key \in [Keys -> KeyFields]
      /\ polls \in Seq(Polls) /\ n \in Nat /\ DOMAIN polls = 1..n
      /\ Len(busyKeys) = n
      /\ \A k \in Keys : key[k].curCount > 0 => k \in Busy
  BY DEF SelectorInv, TypeOK, KeyTable, PollsMatchKeys, ServedAreBusy
<1>2. polls' = [i \in 1..n |-> [polls[i] EXCEPT !.revents = Found(i)]]
  BY <1>1 DEF Select
<1> HIDE DEF n, Found
<1>3. \A i \in 1..n : /\ polls'[i] \in Polls
                     /\ polls'[i].fd = polls[i].fd
                     /\ polls'[i].revents = Found(i)
  <2>1. \A i \in 1..n : polls[i] \in Polls
    BY IndexBusy, <1>1
  <2>2. \A i \in 1..n : Found(i) \in BOOLEAN
    BY DEF Found
  <2> QED
    BY <1>2, <2>1, <2>2 DEF Polls
<1>4. polls' \in Seq(Polls) /\ Len(polls') = n
  <2>1. ASSUME NEW i \in 1..n
        PROVE  [polls[i] EXCEPT !.revents = Found(i)] \in Polls
    <3>1. polls[i] \in Polls /\ Found(i) \in BOOLEAN
      BY <1>1, IndexBusy DEF Found
    <3> QED
      BY <3>1 DEF Polls
  <2>2. polls' \in [1..n -> Polls]
    BY <1>2, <2>1
  <2> QED
    BY <1>1, <2>2, RewrittenProperties
<1>5. \A k \in Busy : k \in up <=> polls'[key[k].poll].revents = TRUE
  <2>1. ASSUME NEW k \in Busy
        PROVE  k \in up <=> polls'[key[k].poll].revents = TRUE
    <3>1. key[k].poll \in 1..n /\ polls[key[k].poll].fd = key[k].fd
      BY <1>1, BusyIndex
    <3>2. Found(key[k].poll) <=> \E j \in up : key[j].fd = key[k].fd
      BY <3>1 DEF Found
    <3>3. \A j \in up : key[j].fd = key[k].fd => j = k
      BY DEF SelectorInv, KeyTable, OneKeyPerSocket
    <3>4. Found(key[k].poll) <=> k \in up
      BY <3>2, <3>3
    <3>5. polls'[key[k].poll].revents = Found(key[k].poll)
      BY <1>3, <3>1
    <3>6. Found(key[k].poll) \in BOOLEAN
      BY DEF Found
    <3> QED
      BY <3>4, <3>5, <3>6
  <2> QED
    BY <2>1
<1>6. /\ UNCHANGED <<busyKeys, freeKeys, key, maxPolls, curKey, locked>>
      /\ ready' = up
      /\ pipe' = IF pipe > 0 THEN pipe - 1 ELSE 0
  BY DEF Select, keys
<1>7. pipe' \in Nat /\ curKey' \in Keys \cup {NoKey} /\ locked' \in BOOLEAN
  BY <1>6 DEF SelectorInv, TypeOK
<1>8. Len(polls) = n
  BY DEF n
<1>9. /\ key' \in [Keys -> KeyFields]
      /\ \A k \in Keys : /\ key'[k].fd = key[k].fd
                         /\ key'[k].poll = key[k].poll
                         /\ key'[k].linked = key[k].linked
                         /\ key'[k].curCount > 0 => k \in Busy
  BY <1>1, <1>6
<1>10. /\ Len(polls') = Len(polls)
       /\ \A i \in 1..Len(polls) : polls'[i].fd = polls[i].fd
       /\ ready' \subseteq Busy
       /\ \A k \in Busy : k \in ready' <=> polls'[key[k].poll].revents = TRUE
  BY <1>3, <1>4, <1>5, <1>6, <1>8
<1> QED
  BY <1>4, <1>6, <1>7, <1>9, <1>10, TableKept DEF FieldsStay, EntriesStay, MarksAgree

-----------------------------------------------------------------------------
(* SelectionKeyReady                                                       *)

\* What the bookkeeping before the sweep leaves of the keys' fields.
KeysKept(fields) ==
    /\ fields \in [Keys -> KeyFields]
    /\ \A k \in Keys : /\ fields[k].fd = key[k].fd
                       /\ fields[k].poll = key[k].poll
                       /\ fields[k].linked = key[k].linked
                       /\ fields[k].curCount > 0 => k \in Busy

LEMMA ScanKeepsInv ==
    ASSUME SelectorInv, NEW from, NEW fields, KeysKept(fields),
           ScanFrom(from, fields),
           UNCHANGED <<busyKeys, freeKeys, maxPolls, pipe>>
    PROVE  SelectorInv'
<1>1. /\ polls \in Seq(Polls) /\ DOMAIN polls = 1..Len(polls)
      /\ Len(busyKeys) = Len(polls)
      /\ pipe \in Nat /\ locked \in BOOLEAN
      /\ ready \subseteq Busy
      /\ \A k \in Busy : k \in ready <=> polls[key[k].poll].revents = TRUE
  BY DEF SelectorInv, TypeOK, KeyTable, PollsMatchKeys, ReadyMarked
<1>2. CASE /\ key' = fields /\ curKey' = NoKey
           /\ UNCHANGED <<polls, locked, ready>>
  BY <1>1, <1>2, TableKept DEF KeysKept, FieldsStay, EntriesStay, MarksAgree
<1>3. CASE /\ from \in Busy
           /\ \E k \in FirstReady(from) :
                 /\ key' = [fields EXCEPT ![k].curCount = @ + 1]
                 /\ polls' = [polls EXCEPT ![key[k].poll].revents = FALSE]
                 /\ curKey' = k
                 /\ ready' = ready \ {k}
           /\ UNCHANGED locked
  <2>1. PICK k \in FirstReady(from) :
                 /\ key' = [fields EXCEPT ![k].curCount = @ + 1]
                 /\ polls' = [polls EXCEPT ![key[k].poll].revents = FALSE]
                 /\ curKey' = k
                 /\ ready' = ready \ {k}
    BY <1>3
  <2>2. k \in Busy
    BY DEF FirstReady, Candidates, Busy, ToSet
  <2>3. k \in Keys /\ key[k].poll \in 1..Len(polls) /\ busyKeys[key[k].poll] = k
    BY <1>1, <2>2, BusyIndex
  <2>4. FieldsStay
    <3>1. fields \in [Keys -> KeyFields] /\ fields[k].curCount + 1 \in Nat
      BY <2>3 DEF KeysKept, KeyFields
    <3>2. key' = [fields EXCEPT ![k].curCount = fields[k].curCount + 1]
      BY <2>1
    <3> DEFINE c == fields[k].curCount + 1
               g == key'
    <3>3. /\ g \in [Keys -> KeyFields]
          /\ \A j \in Keys : /\ g[j].fd = fields[j].fd
                             /\ g[j].poll = fields[j].poll
                             /\ g[j].linked = fields[j].linked
                             /\ j # k => g[j].curCount = fields[j].curCount
      BY <2>3, <3>1, <3>2, CountSet
    <3> QED
      BY <2>2, <3>3 DEF KeysKept, FieldsStay
  <2>5. /\ polls' \in Seq(Polls) /\ Len(polls') = Len(polls)
        /\ \A i \in 1..Len(polls) :
              /\ polls'[i].fd = polls[i].fd
              /\ polls'[i].revents = TRUE <=> i # key[k].poll /\ polls[i].revents = TRUE
    <3>1. polls[key[k].poll] \in Polls
      BY <1>1, <2>3, ElementOfSeq
    <3>2. [polls[key[k].poll] EXCEPT !.revents = FALSE] \in Polls
      BY <3>1 DEF Polls
    <3>3. \A i \in 1..Len(polls) : polls[i] \in Polls
      BY <1>1, IndexBusy
    <3> QED
      BY <1>1, <2>1, <2>3, <3>1, <3>2, <3>3 DEF Polls
  <2>6. /\ ready' \subseteq Busy
        /\ \A j \in Busy : j \in ready' <=> polls'[key[j].poll].revents = TRUE
    <3>1. \A j \in Busy : key[j].poll \in 1..Len(polls) /\ (key[j].poll = key[k].poll => j = k)
      BY <1>1, <2>3, BusyIndex
    <3> QED
      BY <1>1, <2>1, <2>5, <3>1
  <2>7. locked' \in BOOLEAN /\ curKey' \in Keys \cup {NoKey} /\ pipe' \in Nat
    BY <1>1, <1>3, <2>1, <2>3
  <2>8. UNCHANGED <<busyKeys, freeKeys, maxPolls>>
    OBVIOUS
  <2>9. \A i \in 1..Len(polls) : polls'[i].fd = polls[i].fd
    BY <2>5
  <2>10. EntriesStay
    BY <2>5, <2>9 DEF EntriesStay
  <2>11. MarksAgree
    BY <2>6, <2>7 DEF MarksAgree
  <2> QED
    BY <2>4, <2>8, <2>10, <2>11, TableKept
<1> QED
  BY <1>2, <1>3 DEF ScanFrom

LEMMA SweepKeepsInv ==
    ASSUME SelectorInv, NEW k, NEW fields, KeysKept(fields), Sweep(k, fields),
           UNCHANGED <<busyKeys, freeKeys, maxPolls, pipe>>
    PROVE  SelectorInv'
<1>1. CASE NoBusyKey(fields)
  <2>1. /\ polls \in Seq(Polls) /\ pipe \in Nat
        /\ ready \subseteq Busy
        /\ \A j \in Busy : j \in ready <=> polls[key[j].poll].revents = TRUE
    BY DEF SelectorInv, TypeOK, KeyTable, ReadyMarked
  <2>2. /\ key' = fields /\ curKey' = NoKey /\ locked' = TRUE
        /\ polls' = polls /\ ready' = ready
    BY <1>1 DEF NoBusyKey
  <2> QED
    BY <2>1, <2>2, TableKept DEF KeysKept, FieldsStay, EntriesStay, MarksAgree
<1>2. CASE ScanFrom(Start(k), fields)
  BY <1>2, ScanKeepsInv
<1> QED
  BY <1>1, <1>2 DEF Sweep

LEMMA ReadyKeepsInv ==
    ASSUME SelectorInv, SelectionKeyReady
    PROVE  SelectorInv'
<1>1. /\ key \in [Keys -> KeyFields]
      /\ polls \in Seq(Polls) /\ pipe \in Nat /\ locked \in BOOLEAN
      /\ curKey \in Keys \cup {NoKey}
      /\ ready \subseteq Busy
      /\ \A j \in Busy : j \in ready <=> polls[key[j].poll].revents = TRUE
      /\ \A j \in Keys : key[j].curCount > 0 => j \in Busy
  BY DEF SelectorInv, TypeOK, KeyTable, ReadyMarked, ServedAreBusy
<1>2. UNCHANGED <<busyKeys, freeKeys, maxPolls, pipe>>
  BY DEF SelectionKeyReady
<1>3. KeysKept(key)
  BY <1>1 DEF KeysKept
<1>4. CASE ReadyFirst
  BY <1>2, <1>3, <1>4, SweepKeepsInv DEF ReadyFirst
<1>5. CASE ReadyAgain
  <2>1. curKey \in Keys /\ key[curKey].curCount > 0 /\ key[curKey].curCount \in Nat
    BY <1>1, <1>5 DEF ReadyAgain, KeyFields
  <2>2. CASE /\ key' = [key EXCEPT ![curKey].curCount = @ + 1]
             /\ UNCHANGED <<polls, curKey, locked, ready>>
    <3>1. FieldsStay
      <4>1. key[curKey].curCount + 1 \in Nat /\ curKey \in Busy
        BY <1>1, <2>1
      <4>2. key' = [key EXCEPT ![curKey].curCount = key[curKey].curCount + 1]
        BY <2>2
      <4>3. /\ key' \in [Keys -> KeyFields]
            /\ \A j \in Keys : /\ key'[j].fd = key[j].fd
                               /\ key'[j].poll = key[j].poll
                               /\ key'[j].linked = key[j].linked
                               /\ j # curKey => key'[j].curCount = key[j].curCount
        BY <1>1, <2>1, <4>1, <4>2, CountSet
      <4> QED
        BY <1>1, <4>1, <4>3 DEF FieldsStay
    <3> QED
      <4>1. /\ UNCHANGED <<busyKeys, freeKeys, maxPolls>>
            /\ polls' \in Seq(Polls) /\ Len(polls') = Len(polls)
            /\ \A i \in 1..Len(polls) : polls'[i].fd = polls[i].fd
            /\ curKey' \in Keys \cup {NoKey} /\ pipe' \in Nat /\ locked' \in BOOLEAN
            /\ ready' \subseteq Busy
            /\ \A k \in Busy : k \in ready' <=> polls'[key[k].poll].revents = TRUE
        BY <1>1, <1>2, <2>2
      <4>2. EntriesStay
        BY <4>1 DEF EntriesStay
      <4>3. MarksAgree
        BY <4>1 DEF MarksAgree
      <4> QED
        BY <3>1, <4>1, <4>2, <4>3, TableKept
  <2>3. CASE Sweep(NextBusy(curKey), key) \/ Sweep(curKey, key)
    BY <1>2, <1>3, <2>3, SweepKeepsInv
  <2> QED
    BY <1>5, <2>2, <2>3 DEF ReadyAgain
<1>6. CASE ReadyNext
  <2>1. curKey \in Keys
    BY <1>1, <1>6 DEF ReadyNext
  <2>2. KeysKept([key EXCEPT ![curKey].curCount = 0])
    <3> DEFINE g == [key EXCEPT ![curKey].curCount = 0]
    <3>1. /\ g \in [Keys -> KeyFields]
          /\ g[curKey].curCount = 0
          /\ \A j \in Keys : /\ g[j].fd = key[j].fd
                             /\ g[j].poll = key[j].poll
                             /\ g[j].linked = key[j].linked
                             /\ j # curKey => g[j].curCount = key[j].curCount
      <4>1. PICK c \in Nat : c = 0
        OBVIOUS
      <4>2. g = [key EXCEPT ![curKey].curCount = c]
        BY <4>1
      <4> HIDE DEF g
      <4>3. /\ g \in [Keys -> KeyFields]
            /\ g[curKey].curCount = c
            /\ \A j \in Keys : /\ g[j].fd = key[j].fd
                               /\ g[j].poll = key[j].poll
                               /\ g[j].linked = key[j].linked
                               /\ j # curKey => g[j].curCount = key[j].curCount
        BY <1>1, <2>1, <4>2, CountSet
      <4> QED
        BY <4>1, <4>3
    <3> HIDE DEF g
    <3>2. KeysKept(g)
      BY <1>1, <3>1 DEF KeysKept
    <3> QED
      BY <3>2 DEF g
  <2> QED
    BY <1>2, <1>6, <2>2, SweepKeepsInv DEF ReadyNext
<1> QED
  BY <1>4, <1>5, <1>6 DEF SelectionKeyReady

-----------------------------------------------------------------------------
LEMMA Step ==
    ASSUME SelectorInv, [Next]_vars
    PROVE  SelectorInv'
<1>1. ASSUME NEW fd \in Fds, RegisterAgain(fd) \/ RegisterNew(fd)
      PROVE  SelectorInv'
  BY <1>1, CountsKeepInv, RegisterNewKeepsInv
<1>2. ASSUME NEW k \in Keys, UnregisterOne(k) \/ UnregisterKey(k)
      PROVE  SelectorInv'
  <2>1. CASE UnregisterOne(k)
    BY <2>1, CountsKeepInv
  <2>2. CASE UnregisterKey(k)
    BY <2>2, DetachKeepsInv DEF UnregisterKey
  <2> QED
    BY <1>2, <2>1, <2>2
<1>3. ASSUME NEW up \in SUBSET Busy, Select(up)
      PROVE  SelectorInv'
  BY <1>3, SelectKeepsInv
<1>4. CASE SelectorWakeUp
  <2>1. /\ UNCHANGED <<busyKeys, freeKeys, key, polls, maxPolls, curKey, locked, ready>>
        /\ pipe' \in Nat
    BY <1>4 DEF SelectorWakeUp, keys, SelectorInv, TypeOK
  <2> QED
    BY <2>1 DEF SelectorInv, TypeOK, KeyTable, PollsMatchKeys, KeysListedOnce,
                OneKeyPerSocket, PollsFit, ReadyMarked, ServedAreBusy, Busy, Free
<1>5. CASE SelectionKeyReady
  BY <1>5, ReadyKeepsInv
<1>6. CASE UNCHANGED vars
  BY <1>6 DEF vars, keys, SelectorInv, TypeOK, KeyTable, PollsMatchKeys, KeysListedOnce,
              OneKeyPerSocket, PollsFit, ReadyMarked, ServedAreBusy, Busy, Free
<1> QED
  BY <1>1, <1>2, <1>3, <1>4, <1>5, <1>6 DEF Next

(* For any sockets and any series of Register, Unregister, Select and      *)
(* SelectionKeyReady, interrupted sweeps included: the lists of keys and   *)
(* the array of poll(2) agree, no socket has two keys, and what is still   *)
(* to be returned is what is marked (selector.c, Register to               *)
(* SelectionKeyReady).                                                     *)
THEOREM KeyTableCorrect == Spec => []KeyTable
<1>1. SelectorInv => KeyTable
  BY DEF SelectorInv
<1> QED
  BY Initially, Step, <1>1, PTL DEF Spec

(* The variables keep their types: no key is in the lists that is not one, *)
(* and the array never needs a size it was not given.                      *)
THEOREM SelectorTyped == Spec => []TypeOK
<1>1. SelectorInv => TypeOK
  BY DEF SelectorInv
<1> QED
  BY Initially, Step, <1>1, PTL DEF Spec

-----------------------------------------------------------------------------
(* The Java binding: what its properties say holds of every server, and of *)
(* the client that makes one connection.                                   *)
USE BindingAssumption

\* The client makes one connection.
NoRetry == "client" \in Kinds => Retries = 0

\* The structure of a connection's handlers, once there is a Java Connection,
\* holds that one; the server's copies are those of the references, and the
\* client has no connection but the first.
Bound ==
    /\ \A n \in pointer : life[n] # "none" /\ target[Wrapper(n)] = n
    /\ kind = "server" => copied = refs
    /\ kind = "client" => /\ \A n \in Conns : life[n] # "none" => n = 1
                          /\ target[0] \in {0} \cup pointer

BindingInv == OwnObject /\ ReferencesExact /\ Bound

Begun(n) == life[n] \in {"made", "open", "closing", "closed"}

-----------------------------------------------------------------------------
LEMMA KindIs ==
    ASSUME BindingInv
    PROVE  /\ kind \in {"client", "server"}
           /\ kind = "server" => \A n : Wrapper(n) = n
           /\ kind = "client" => \A n : Wrapper(n) = 0
BY DEF BindingInv, ReferencesExact, BindingTypeOK, Wrapper

LEMMA BindingInitially == BindingInit => BindingInv
<1> SUFFICES ASSUME BindingInit PROVE BindingInv
  OBVIOUS
<1>1. BindingTypeOK
  BY DEF BindingInit, BindingTypeOK
<1> QED
  BY <1>1 DEF BindingInit, BindingInv, OwnObject, ReferencesExact, Bound

(* A handler that can call does so on the object of its own connection,    *)
(* and one that cannot has found NULL, never a deleted reference.          *)
LEMMA HandleIsRight ==
    ASSUME NoRetry, BindingInv, undefined = "no",
           NEW n \in Conns, NEW event \in {"INIT", "DATA", "CLOSE"},
           Begun(n) \/ (kind = "client" /\ n = 1 /\ life[n] = "none"),
           Handle(event, n)
    PROVE  /\ OwnObject'
           /\ calls' \subseteq [event : {"INIT", "DATA", "CLOSE"}, of : Conns, on : Conns]
           /\ undefined' \in {"no", "null"}
<1>0. /\ calls \subseteq [event : {"INIT", "DATA", "CLOSE"}, of : Conns, on : Conns]
      /\ refs = {m \in pointer : Exists(m)}
      /\ refs \subseteq Conns
      /\ kind \in Kinds
      /\ pointer \subseteq Conns
  BY DEF BindingInv, ReferencesExact, BindingTypeOK
<1>1. ASSUME Callable(n)
      PROVE  target[Wrapper(n)] = n
  <2>1. CASE kind = "server"
    <3>1. n \in pointer
      BY <1>0, <1>1, <2>1 DEF Callable, BindingInv, Bound
    <3> QED
      BY <3>1 DEF BindingInv, Bound
  <2>2. CASE kind = "client"
    <3>1. target[0] \in pointer /\ target[0] \in Conns
      BY <1>0, <1>1, <2>2, KindIs DEF Callable
    <3>2. target[0] = 1
      BY <2>2, <3>1 DEF BindingInv, Bound
    <3>3. n = 1
      BY <2>2 DEF BindingInv, Bound, Begun
    <3> QED
      BY <2>2, <3>2, <3>3, KindIs
  <2> QED
    BY <2>1, <2>2, KindIs
<1>2. ASSUME ~Callable(n)
      PROVE  ~((kind = "server" => n \in copied) /\ target[Wrapper(n)] # 0)
  <2>1. CASE kind = "server"
    <3>1. n \in copied => n \in refs /\ target[Wrapper(n)] = n
      BY <1>0, <2>1 DEF BindingInv, Bound
    <3> QED
      BY <1>2, <2>1, <3>1 DEF Callable
  <2>2. CASE kind = "client"
    <3>1. target[0] \in pointer => target[0] \in refs
      <4>1. ASSUME target[0] \in pointer
            PROVE  target[0] = 1 /\ life[1] # "none"
        BY <1>0, <2>2, <4>1 DEF BindingInv, Bound
      <4>2. n = 1
        BY <2>2 DEF BindingInv, Bound, Begun
      <4>3. life[1] # "none" => Exists(1)
        BY <4>2 DEF Begun, Exists
      <4> QED
        BY <1>0, <4>1, <4>3
    <3>2. target[0] \notin refs
      BY <1>2, <2>2, KindIs DEF Callable
    <3> QED
      BY <2>2, <3>1, <3>2, KindIs DEF BindingInv, Bound
  <2> QED
    BY <2>1, <2>2, KindIs
<1>3. CASE Call(event, n)
  <2>1. Callable(n) /\ target[Wrapper(n)] = n
    BY <1>1, <1>3 DEF Call
  <2>2. calls' = calls \cup {[event |-> event, of |-> n, on |-> n]} /\ undefined' = "no"
    BY <1>3, <2>1 DEF Call
  <2>3. OwnObject'
    BY <2>2 DEF BindingInv, OwnObject
  <2> QED
    BY <1>0, <2>2, <2>3
<1>4. CASE CannotCall(n)
  <2>1. undefined' = "null" /\ calls' = calls
    BY <1>2, <1>4 DEF CannotCall
  <2> QED
    BY <1>0, <2>1 DEF BindingInv, OwnObject
<1> QED
  BY <1>3, <1>4 DEF Handle

(* A connection moves on, and what is bound stays.                         *)
LEMMA MovesOn ==
    ASSUME BindingInv, NEW n \in Conns, NEW to \in {"open", "closing", "closed"},
           Begun(n) \/ (life[n] = "none" /\ kind = "client" /\ n = 1),
           life' = [life EXCEPT ![n] = to],
           UNCHANGED <<kind, phase, held, refs, copied, target, pointer>>,
           OwnObject',
           calls' \subseteq [event : {"INIT", "DATA", "CLOSE"}, of : Conns, on : Conns],
           undefined' \in {"no", "null"}
    PROVE  BindingInv'
<1>0. BindingTypeOK /\ pointer \subseteq Conns /\ life \in [Conns -> {"none", "made", "open", "closing", "closed", "freed"}]
  BY DEF BindingInv, ReferencesExact, BindingTypeOK
<1>1. BindingTypeOK'
  BY <1>0 DEF BindingTypeOK
<1>2. /\ life'[n] = to
      /\ \A m \in Conns \ {n} : life'[m] = life[m]
  BY <1>0
<1>3. \A m \in pointer : Exists(m)' <=> Exists(m)
  <2>1. n \in pointer => Exists(n) /\ Exists(n)'
    BY <1>2 DEF BindingInv, Bound, Begun, Exists
  <2> QED
    BY <1>0, <1>2, <2>1 DEF Exists
<1>4. ReferencesExact'
  BY <1>1, <1>3 DEF BindingInv, ReferencesExact
<1>5. Bound'
  <2>1. \A m \in pointer : life'[m] # "none"
    BY <1>0, <1>2 DEF BindingInv, Bound
  <2>2. kind = "client" => \A m \in Conns : life'[m] # "none" => m = 1
    BY <1>2 DEF BindingInv, Bound, Begun
  <2> QED
    BY <2>1, <2>2 DEF BindingInv, Bound, Wrapper
<1> QED
  BY <1>4, <1>5 DEF BindingInv

(* A Java Connection is made for n and bound to its structure.             *)
LEMMA CreateKeepsInv ==
    ASSUME BindingInv, NEW n \in Conns, NEW to \in {"made", "open"},
           life[n] = "none", kind = "client" => n = 1,
           life' = [life EXCEPT ![n] = to],
           CreateFor(n),
           copied' = IF kind = "server" THEN copied \cup {n} ELSE copied,
           OwnObject',
           calls' \subseteq [event : {"INIT", "DATA", "CLOSE"}, of : Conns, on : Conns],
           UNCHANGED <<kind, phase, held, undefined>>
    PROVE  BindingInv'
<1>0. /\ BindingTypeOK /\ pointer \subseteq Conns
      /\ life \in [Conns -> {"none", "made", "open", "closing", "closed", "freed"}]
      /\ target \in [{0} \cup Conns -> {0} \cup Conns]
      /\ refs = {m \in pointer : Exists(m)}
      /\ n \notin pointer
      /\ Wrapper(n) \in {0} \cup Conns
  BY KindIs DEF BindingInv, ReferencesExact, BindingTypeOK, Bound
<1>1. /\ refs' = refs \cup {n}
      /\ target' = [target EXCEPT ![Wrapper(n)] = n]
      /\ pointer' = pointer \cup {n}
  BY DEF CreateFor
<1>2. target' \in [{0} \cup Conns -> {0} \cup Conns]
  BY <1>0, <1>1
<1>3. BindingTypeOK'
  BY <1>0, <1>1, <1>2 DEF BindingTypeOK
<1>4. /\ life'[n] = to
      /\ \A m \in Conns \ {n} : life'[m] = life[m]
  BY <1>0
<1>5. /\ Exists(n)'
      /\ \A m \in pointer : Exists(m)' <=> Exists(m)
  BY <1>0, <1>4 DEF Exists
<1>6. refs' = {m \in pointer' : Exists(m)'}
  BY <1>0, <1>1, <1>5
<1>7. ReferencesExact'
  BY <1>3, <1>6 DEF BindingInv, ReferencesExact
<1>8. /\ target'[Wrapper(n)] = n
      /\ \A w \in {0} \cup Conns : w # Wrapper(n) => target'[w] = target[w]
  BY <1>0, <1>1
<1>9. \A m \in pointer : m # n /\ m \in Conns /\ life[m] # "none" /\ target[Wrapper(m)] = m
  BY <1>0 DEF BindingInv, Bound
<1>10. kind = "client" => pointer = {}
  BY <1>9 DEF BindingInv, Bound
<1>11. Wrapper(n)' = Wrapper(n) /\ \A m \in pointer : Wrapper(m)' = Wrapper(m)
  BY DEF Wrapper
<1>12. \A m \in pointer' : life'[m] # "none" /\ target'[Wrapper(m)'] = m
  <2>1. CASE kind = "server"
    BY <1>1, <1>4, <1>8, <1>9, <1>11, <2>1, KindIs
  <2>2. CASE kind = "client"
    BY <1>1, <1>4, <1>8, <1>10, <1>11, <2>2, KindIs
  <2> QED
    BY <2>1, <2>2, KindIs
<1>13. kind = "client" => target'[0] = n
  BY <1>8, KindIs
<1>14. kind = "client" => \A m \in Conns : life'[m] # "none" => m = 1
  BY <1>4 DEF BindingInv, Bound
<1>15. Bound'
  BY <1>1, <1>12, <1>13, <1>14 DEF BindingInv, Bound
<1> QED
  BY <1>7, <1>15 DEF BindingInv

(* FREE deletes the reference of its own connection, and no other.         *)
LEMMA FreeKeepsInv ==
    ASSUME NoRetry, BindingInv, NEW n \in Conns, FreeEvent(n)
    PROVE  BindingInv'
<1>0. /\ BindingTypeOK /\ pointer \subseteq Conns /\ refs \subseteq Conns /\ copied \subseteq Conns
      /\ life \in [Conns -> {"none", "made", "open", "closing", "closed", "freed"}]
      /\ refs = {m \in pointer : Exists(m)}
      /\ life[n] = "closed" /\ undefined = "no"
  BY DEF BindingInv, ReferencesExact, BindingTypeOK, FreeEvent, Native
<1>1. /\ UNCHANGED <<kind, phase, held, target, pointer>>
      /\ life' = [life EXCEPT ![n] = "freed"]
  BY DEF FreeEvent
<1>2. /\ life'[n] = "freed"
      /\ \A m \in Conns \ {n} : life'[m] = life[m]
  BY <1>0, <1>1
<1>3. /\ ~Exists(n)'
      /\ \A m \in Conns \ {n} : Exists(m)' <=> Exists(m)
  BY <1>2 DEF Exists
<1>4. Exists(n)
  BY <1>0 DEF Exists
<1>5. n \in pointer => target[Wrapper(n)] = n /\ n \in refs
  BY <1>0, <1>4 DEF BindingInv, Bound
<1>6. CASE Callable(n) /\ refs' = refs \ {target[Wrapper(n)]} /\ copied' = copied \ {n}
           /\ UNCHANGED <<calls, undefined>>
  <2>1. n \in pointer
    <3>1. CASE kind = "server"
      BY <1>0, <1>6, <3>1 DEF Callable, BindingInv, Bound
    <3>2. CASE kind = "client"
      <4>1. target[0] \in pointer /\ target[0] \in Conns
        BY <1>0, <1>6, <3>2, KindIs DEF Callable
      <4>2. target[0] = 1 /\ n = 1
        BY <1>0, <3>2, <4>1 DEF BindingInv, Bound
      <4> QED
        BY <4>1, <4>2
    <3> QED
      BY <3>1, <3>2, KindIs
  <2>2. refs' = refs \ {n}
    BY <1>5, <1>6, <2>1
  <2>3. refs' = {m \in pointer' : Exists(m)'}
    BY <1>0, <1>1, <1>3, <2>2
  <2>4. BindingTypeOK'
    BY <1>0, <1>1, <1>6 DEF BindingTypeOK
  <2>5. ReferencesExact'
    BY <1>1, <1>6, <2>3, <2>4 DEF BindingInv, ReferencesExact
  <2>6. \A m \in pointer : life'[m] # "none"
    BY <1>0, <1>2 DEF BindingInv, Bound
  <2>7. kind = "client" => \A m \in Conns : life'[m] # "none" => m = 1
    BY <1>0, <1>2 DEF BindingInv, Bound
  <2>8. Bound'
    BY <1>1, <1>6, <2>2, <2>6, <2>7 DEF BindingInv, Bound, Wrapper
  <2> QED
    BY <1>6, <2>5, <2>8 DEF BindingInv, OwnObject
<1>7. CASE CannotCall(n) /\ UNCHANGED <<refs, copied>>
  <2>1. OwnObject' /\ undefined' \in {"no", "null"}
    <3>1. Handle("CLOSE", n) /\ Begun(n)
      BY <1>0, <1>7 DEF Handle, Begun
    <3> QED
      BY <1>0, <3>1, HandleIsRight
  <2>2. n \notin pointer
    <3>1. ~Callable(n)
      BY <1>7 DEF CannotCall
    <3> QED
      BY <1>5, <3>1 DEF Callable, BindingInv, Bound, Wrapper
  <2>3. refs' = {m \in pointer' : Exists(m)'}
    BY <1>0, <1>1, <1>3, <1>7, <2>2
  <2>4. BindingTypeOK'
    BY <1>0, <1>1, <1>7, <2>1 DEF BindingTypeOK, CannotCall
  <2>5. ReferencesExact'
    BY <1>1, <2>1, <2>3, <2>4 DEF BindingInv, ReferencesExact
  <2>6. \A m \in pointer : life'[m] # "none"
    BY <1>0, <1>2 DEF BindingInv, Bound
  <2>7. kind = "client" => \A m \in Conns : life'[m] # "none" => m = 1
    BY <1>0, <1>2 DEF BindingInv, Bound
  <2>8. Bound'
    BY <1>1, <1>7, <2>6, <2>7 DEF BindingInv, Bound, Wrapper
  <2> QED
    BY <2>1, <2>5, <2>8 DEF BindingInv
<1> QED
  BY <1>6, <1>7 DEF FreeEvent

(* What the user does with the Client or Server leaves the connections be. *)
LEMMA OwnerKeepsInv ==
    ASSUME BindingInv, Initialize \/ JavaStart \/ JavaStop \/ Join
    PROVE  BindingInv'
<1>1. /\ UNCHANGED <<kind, refs, copied, target, life, pointer, calls>>
      /\ undefined' \in {"no", "null"}
      /\ phase' \in {"thrown", "hollow", "ready", "running", "stopping", "joined"}
      /\ held' = IF phase' \in {"new", "thrown", "joined"} THEN {} ELSE Owners
  BY DEF BindingInv, ReferencesExact, Initialize, JavaStart, JavaStop, Join, Ended
<1>2. BindingTypeOK'
  BY <1>1 DEF BindingInv, ReferencesExact, BindingTypeOK
<1>3. ReferencesExact'
  BY <1>1, <1>2 DEF BindingInv, ReferencesExact, Exists
<1> QED
  BY <1>1, <1>3 DEF BindingInv, Bound, OwnObject, Wrapper

-----------------------------------------------------------------------------
LEMMA BindingStep ==
    ASSUME NoRetry, BindingInv, [BindingNext]_bindingVars
    PROVE  BindingInv'
<1> DEFINE CallTypes == [event : {"INIT", "DATA", "CLOSE"}, of : Conns, on : Conns]
<1>0. /\ BindingTypeOK
      /\ kind = "client" => Retries = 0
  BY DEF BindingInv, ReferencesExact, BindingTypeOK, NoRetry
<1>1. ASSUME NEW n \in Conns, Accepts(n)
      PROVE  BindingInv'
  <2>1. /\ life[n] = "none" /\ kind = "server"
        /\ life' = [life EXCEPT ![n] = "made"]
        /\ UNCHANGED <<kind, phase, held, calls, undefined>>
    BY <1>1 DEF Accepts
  <2>2. CASE copied' = copied \cup {n} /\ CreateFor(n)
    <3>1. calls' \subseteq CallTypes /\ OwnObject'
      BY <1>0, <2>1 DEF BindingTypeOK, BindingInv, OwnObject
    <3> QED
      BY <2>1, <2>2, <3>1, CreateKeepsInv
  <2>3. CASE UNCHANGED <<copied, refs, target, pointer>>
    <3>1. n \notin pointer
      BY <2>1 DEF BindingInv, Bound
    <3>2. /\ pointer \subseteq Conns
          /\ \A m \in Conns \ {n} : life'[m] = life[m]
      BY <1>0, <2>1 DEF BindingTypeOK
    <3>3. \A m \in pointer : life'[m] = life[m] /\ (Exists(m)' <=> Exists(m))
      BY <3>1, <3>2 DEF Exists
    <3>4. BindingTypeOK'
      BY <1>0, <2>1, <2>3 DEF BindingTypeOK
    <3>5. ReferencesExact'
      BY <2>1, <2>3, <3>3, <3>4 DEF BindingInv, ReferencesExact
    <3> QED
      BY <2>1, <2>3, <3>3, <3>5 DEF BindingInv, Bound, OwnObject, Wrapper
  <2> QED
    BY <1>1, <2>2, <2>3 DEF Accepts
<1>2. ASSUME NEW n \in Conns, ServerInit(n)
      PROVE  BindingInv'
  <2>1. /\ Begun(n) /\ undefined = "no" /\ Handle("INIT", n)
        /\ life' = [life EXCEPT ![n] = "open"]
        /\ UNCHANGED <<kind, phase, held, refs, copied, target, pointer>>
    BY <1>2 DEF ServerInit, Native, Begun
  <2>2. OwnObject' /\ calls' \subseteq CallTypes /\ undefined' \in {"no", "null"}
    BY <2>1, HandleIsRight
  <2> QED
    BY <2>1, <2>2, MovesOn
<1>3. ASSUME NEW n \in Conns, MakesNext(n)
      PROVE  kind = "client" /\ n = 1 /\ life[n] = "none" /\ undefined = "no"
  BY <1>0, <1>3 DEF MakesNext, Native, Conns
<1>4. ASSUME NEW n \in Conns, ClientInit(n)
      PROVE  BindingInv'
  <2>1. /\ kind = "client" /\ n = 1 /\ life[n] = "none"
        /\ life' = [life EXCEPT ![n] = "open"]
        /\ CreateFor(n)
        /\ calls' = calls \cup {[event |-> "INIT", of |-> n, on |-> n]}
        /\ UNCHANGED <<kind, phase, held, copied, undefined>>
    BY <1>3, <1>4 DEF ClientInit
  <2>2. calls' \subseteq CallTypes /\ OwnObject'
    BY <1>0, <2>1 DEF BindingTypeOK, BindingInv, OwnObject
  <2> QED
    BY <2>1, <2>2, CreateKeepsInv
<1>5. ASSUME NEW n \in Conns, ClientInitFails(n)
      PROVE  BindingInv'
  <2>1. /\ kind = "client" /\ n = 1 /\ life[n] = "none" /\ undefined = "no"
        /\ Handle("CLOSE", n)
        /\ life' = [life EXCEPT ![n] = "closed"]
        /\ UNCHANGED <<kind, phase, held, refs, copied, target, pointer>>
    BY <1>3, <1>5 DEF ClientInitFails
  <2>2. OwnObject' /\ calls' \subseteq CallTypes /\ undefined' \in {"no", "null"}
    BY <2>1, HandleIsRight
  <2> QED
    BY <2>1, <2>2, MovesOn
<1>6. ASSUME NEW n \in Conns, Data(n)
      PROVE  BindingInv'
  <2>1. /\ Begun(n) /\ undefined = "no" /\ Handle("DATA", n)
        /\ life[n] \in {"open", "closing", "closed"}
        /\ UNCHANGED <<kind, phase, held, refs, copied, target, pointer, life>>
    BY <1>6 DEF Data, Native, Begun
  <2>2. OwnObject' /\ calls' \subseteq CallTypes /\ undefined' \in {"no", "null"}
    BY <2>1, HandleIsRight
  <2>3. PICK to \in {"open", "closing", "closed"} : life' = [life EXCEPT ![n] = to]
    BY <1>0, <2>1 DEF BindingTypeOK
  <2> QED
    BY <2>1, <2>2, <2>3, MovesOn
<1>7. ASSUME NEW n \in Conns, CloseBegins(n)
      PROVE  BindingInv'
  <2>1. /\ Begun(n) /\ undefined' = "no"
        /\ life' = [life EXCEPT ![n] = "closing"]
        /\ UNCHANGED <<kind, phase, held, refs, copied, target, pointer, calls>>
    BY <1>7 DEF CloseBegins, Native, Begun
  <2>2. OwnObject' /\ calls' \subseteq CallTypes
    BY <1>0, <2>1 DEF BindingTypeOK, BindingInv, OwnObject
  <2> QED
    BY <2>1, <2>2, MovesOn
<1>8. ASSUME NEW n \in Conns, CloseEnds(n)
      PROVE  BindingInv'
  <2>1. /\ Begun(n) /\ undefined = "no" /\ Handle("CLOSE", n)
        /\ life' = [life EXCEPT ![n] = "closed"]
        /\ UNCHANGED <<kind, phase, held, refs, copied, target, pointer>>
    BY <1>8 DEF CloseEnds, Native, Begun
  <2>2. OwnObject' /\ calls' \subseteq CallTypes /\ undefined' \in {"no", "null"}
    BY <2>1, HandleIsRight
  <2> QED
    BY <2>1, <2>2, MovesOn
<1>9. ASSUME NEW n \in Conns, UserCalls(n)
      PROVE  BindingInv'
  <2>1. UNCHANGED <<kind, phase, held, refs, copied, target, pointer, calls>>
    BY <1>9 DEF UserCalls
  <2>2. CASE undefined' = "freed" /\ UNCHANGED life
    <3>1. BindingTypeOK'
      BY <1>0, <2>1, <2>2 DEF BindingTypeOK
    <3> QED
      BY <2>1, <2>2, <3>1 DEF BindingInv, ReferencesExact, OwnObject, Bound, Exists, Wrapper
  <2>3. CASE life[n] = "open" /\ life' = [life EXCEPT ![n] = "closing"] /\ UNCHANGED undefined
    <3>1. Begun(n) /\ undefined' = "no"
      BY <1>9, <2>3 DEF UserCalls, Native, Begun
    <3>2. OwnObject' /\ calls' \subseteq CallTypes
      BY <1>0, <2>1 DEF BindingTypeOK, BindingInv, OwnObject
    <3> QED
      BY <2>1, <2>3, <3>1, <3>2, MovesOn
  <2> QED
    BY <1>9, <2>2, <2>3 DEF UserCalls
<1>10. CASE UNCHANGED bindingVars
  BY <1>10 DEF bindingVars, BindingInv, ReferencesExact, BindingTypeOK, OwnObject, Bound, Exists, Wrapper
<1> QED
  BY <1>1, <1>2, <1>4, <1>5, <1>6, <1>7, <1>8, <1>9, <1>10, FreeKeepsInv, OwnerKeepsInv DEF BindingNext

(* For any number of connections of a server, and for a client that does   *)
(* not retry, whatever allocation fails: each event is told to the Java    *)
(* Connection made for its own connection (client.c and server.c of jni).  *)
THEOREM EventsReachTheirObject ==
    NoRetry => (BindingSpec => []OwnObject)
<1> SUFFICES ASSUME NoRetry PROVE BindingSpec => []OwnObject
  OBVIOUS
<1>1. BindingInv /\ [BindingNext]_bindingVars => BindingInv'
  BY BindingStep
<1>2. BindingInv => OwnObject
  BY DEF BindingInv
<1> QED
  BY BindingInitially, <1>1, <1>2, PTL DEF BindingSpec

(* In the same cases every global reference is given back exactly once,    *)
(* and no handler uses one that was deleted.                               *)
THEOREM ReferencesGivenBack ==
    NoRetry => (BindingSpec => []ReferencesExact)
<1> SUFFICES ASSUME NoRetry PROVE BindingSpec => []ReferencesExact
  OBVIOUS
<1>1. BindingInv /\ [BindingNext]_bindingVars => BindingInv'
  BY BindingStep
<1>2. BindingInv => ReferencesExact
  BY DEF BindingInv
<1> QED
  BY BindingInitially, <1>1, <1>2, PTL DEF BindingSpec
=============================================================================
