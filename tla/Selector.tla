------------------------------ MODULE Selector ------------------------------
(***************************************************************************)
(* The multiplexer of src/src/selector.c (AIO4C_HAVE_POLL and              *)
(* AIO4C_HAVE_PIPE build): the keys of the registered sockets, the array   *)
(* handed to poll(2), and the cursor SelectionKeyReady moves over them.    *)
(*                                                                         *)
(* In the library, as in src/test/selector.c, one thread owns a selector:  *)
(* it alone registers, unregisters, selects and iterates; any other thread *)
(* only calls SelectorWakeUp.  So each operation of the owner is one step. *)
(*                                                                         *)
(* polls[0], the wake-up pipe, never moves and is left out of the sequence *)
(* "polls": numPolls is Len(polls) + 1 and indexes are the code's own.     *)
(* What is awaited on a socket (operation, result, attachment) is not told *)
(* apart: a socket is ready or not.  Allocations succeed.                  *)
(***************************************************************************)
EXTENDS Integers, Sequences, SequencesExt

CONSTANTS
    Fds,          \* sockets
    Keys,         \* SelectionKey objects the heap can provide
    NoKey,        \* the NULL SelectionKey
    NoFd,         \* the zeroed descriptor of a key that is not registered
    MaxCount,     \* bound: registrations of a socket
    PipeSize,     \* bound: bytes the wake-up pipe holds before it is full
    MidSweep      \* whether the owner may also register, unregister or
                  \* select before SelectionKeyReady has returned false

ASSUME SelectorAssumption ==
    /\ NoKey \notin Keys
    /\ NoFd \notin Fds
    /\ MaxCount \in Nat \ {0}
    /\ PipeSize \in Nat \ {0}
    /\ MidSweep \in BOOLEAN

VARIABLES
    busyKeys,     \* selector->busyKeys
    freeKeys,     \* selector->freeKeys
    key,          \* the fields of each SelectionKey
    polls,        \* selector->polls[1 .. numPolls - 1]
    maxPolls,     \* selector->maxPolls
    curKey,       \* selector->curKey
    pipe,         \* bytes in the wake-up pipe
    locked,       \* selector->lock is held between two operations
    \* history, read by the properties only
    ready         \* keys Select reported and the sweep has not returned yet

keys == <<busyKeys, freeKeys, key>>
vars == <<keys, polls, maxPolls, curKey, pipe, locked, ready>>

KeyFields == [fd : Fds \cup {NoFd}, poll : Int, count : Nat, curCount : Nat, linked : BOOLEAN]
Polls == [fd : Fds, revents : BOOLEAN]

TypeOK ==
    /\ busyKeys \in Seq(Keys)
    /\ freeKeys \in Seq(Keys)
    /\ key \in [Keys -> KeyFields]
    /\ polls \in Seq(Polls)
    /\ maxPolls \in Nat \ {0}
    /\ curKey \in Keys \cup {NoKey}
    /\ pipe \in Nat
    /\ locked \in BOOLEAN
    /\ ready \in SUBSET Keys

Busy == ToSet(busyKeys)
Free == ToSet(freeKeys)

\* Where ListRemove and the iteration over the busy keys find a key.
Position(k) == CHOOSE i \in DOMAIN busyKeys : busyKeys[i] = k

\* memset(key, 0, sizeof(SelectionKey))
Zeroed == [fd |-> NoFd, poll |-> 0, count |-> 0, curCount |-> 0, linked |-> FALSE]

-----------------------------------------------------------------------------
(* NewSelector; no SelectionKey exists yet *)
Init ==
    /\ busyKeys = <<>>
    /\ freeKeys = <<>>
    /\ key = [k \in Keys |-> Zeroed]
    /\ polls = <<>>
    /\ maxPolls = 1
    /\ curKey = NoKey
    /\ pipe = 0
    /\ locked = FALSE
    /\ ready = {}

\* The owner is not stuck on the lock, and is between two sweeps if it has to.
OwnerMay == ~locked /\ (curKey = NoKey \/ MidSweep)

-----------------------------------------------------------------------------
(* Register *)

\* The socket has a key already: one more registration of it.
RegisterAgain(fd) ==
    /\ OwnerMay
    /\ \E k \in Busy :
          /\ key[k].fd = fd
          /\ key[k].count < MaxCount
          /\ key' = [key EXCEPT ![k].count = @ + 1]
    /\ UNCHANGED <<busyKeys, freeKeys, polls, maxPolls, curKey, pipe, locked, ready>>

\* A key off the free list, or a new one, and a poll entry, both added last.
Attach(k, fd) ==
    /\ key' = [key EXCEPT ![k] = [fd |-> fd, poll |-> Len(polls) + 1, count |-> 1,
                                  curCount |-> 0, linked |-> TRUE]]
    /\ busyKeys' = Append(busyKeys, k)
    /\ polls' = Append(polls, [fd |-> fd, revents |-> FALSE])
    /\ maxPolls' = IF Len(polls) + 1 = maxPolls THEN maxPolls + 1 ELSE maxPolls

RegisterNew(fd) ==
    /\ OwnerMay
    /\ \A k \in Busy : key[k].fd # fd
    /\ \/ /\ freeKeys # <<>>
          /\ freeKeys' = Tail(freeKeys)
          /\ Attach(Head(freeKeys), fd)
       \/ /\ freeKeys = <<>>
          /\ \E k \in Keys \ Busy : Attach(k, fd)
          /\ UNCHANGED freeKeys
    /\ UNCHANGED <<curKey, pipe, locked, ready>>

-----------------------------------------------------------------------------
(* Unregister *)

\* The entries after pollIndex move down by one, and the keys' indexes too.
DetachNoShift(k) ==
    /\ busyKeys' = RemoveAt(busyKeys, Position(k))
    /\ freeKeys' = Append(freeKeys, k)
    /\ polls' = RemoveAt(polls, key[k].poll)
    /\ key' = [key EXCEPT ![k] = Zeroed]

DetachKeepsLastPoll(k) ==
    /\ busyKeys' = RemoveAt(busyKeys, Position(k))
    /\ freeKeys' = Append(freeKeys, k)
    /\ polls' = Append(RemoveAt(polls, key[k].poll), [fd |-> NoFd, revents |-> FALSE])
    /\ key' = [key EXCEPT ![k] = Zeroed]

Detach(k) ==
    LET pollIndex == key[k].poll IN
    /\ busyKeys' = RemoveAt(busyKeys, Position(k))
    /\ freeKeys' = Append(freeKeys, k)
    /\ polls' = RemoveAt(polls, pollIndex)
    /\ key' = [j \in Keys |->
                  IF j = k THEN Zeroed
                  ELSE IF j \in Busy /\ key[j].poll > pollIndex
                  THEN [key[j] EXCEPT !.poll = @ - 1]
                  ELSE key[j]]

\* Not the last registration of the socket, and not all were asked for.
UnregisterOne(k) ==
    /\ OwnerMay
    /\ key[k].linked
    /\ key[k].count > 1
    /\ key' = [key EXCEPT ![k].count = @ - 1]
    /\ UNCHANGED <<busyKeys, freeKeys, polls, maxPolls, curKey, pipe, locked, ready>>

\* The last one, or all of them.  A key that is not registered is let be.
UnregisterKey(k) ==
    /\ OwnerMay
    /\ key[k].linked
    /\ Detach(k)
    /\ ready' = ready \ {k}
    /\ UNCHANGED <<maxPolls, curKey, pipe, locked>>

-----------------------------------------------------------------------------
(* Select: poll(2) sleeps until the pipe or a socket is ready.  "up" is    *)
(* the set of busy keys whose socket it finds ready.                       *)
Select(up) ==
    /\ OwnerMay
    /\ up # {} \/ pipe > 0
    /\ polls' = [i \in DOMAIN polls |->
                    [polls[i] EXCEPT !.revents = polls[i].fd \in {key[k].fd : k \in up}]]
    /\ pipe' = IF pipe > 0 THEN pipe - 1 ELSE 0
    /\ ready' = up
    /\ UNCHANGED <<keys, maxPolls, curKey, locked>>

(* SelectorWakeUp, by any thread, without the lock: one byte, unless the   *)
(* pipe is full.                                                           *)
SelectorWakeUp ==
    /\ pipe < PipeSize
    /\ pipe' = pipe + 1
    /\ UNCHANGED <<keys, polls, maxPolls, curKey, locked, ready>>

-----------------------------------------------------------------------------
(* SelectionKeyReady *)

NextBusy(k) ==
    IF Position(k) < Len(busyKeys) THEN busyKeys[Position(k) + 1] ELSE NoKey

\* The scan of the list from key k on: the keys with revents, and the first.
Candidates(k) ==
    {i \in DOMAIN busyKeys : i >= Position(k) /\ polls[key[busyKeys[i]].poll].revents}

FirstReady(k) ==
    {busyKeys[i] : i \in {i \in Candidates(k) : \A j \in Candidates(k) : i <= j}}

\* The current key once the bookkeeping about the previous one is done: the
\* first busy key when the list was finished, or not begun.
Start(k) == IF k = NoKey THEN Head(busyKeys) ELSE k

ScanFrom(from, fields) ==
    \/ /\ from \in Busy
       /\ \E k \in FirstReady(from) :
             /\ key' = [fields EXCEPT ![k].curCount = @ + 1]
             /\ polls' = [polls EXCEPT ![key[k].poll].revents = FALSE]
             /\ curKey' = k
             /\ ready' = ready \ {k}
       /\ UNCHANGED locked
    \/ /\ from \in Busy => Candidates(from) = {}   \* an unlinked key ends the list
       /\ key' = fields
       /\ curKey' = NoKey
       /\ UNCHANGED <<polls, locked, ready>>

\* With no busy key at all, false is returned, and the lock is kept.
NoBusyKey(fields) ==
    /\ key' = fields
    /\ curKey' = NoKey
    /\ locked' = TRUE
    /\ UNCHANGED <<polls, ready>>

SweepSkipsFirst(k, fields) ==
    IF k = NoKey /\ Len(busyKeys) > 1 THEN ScanFrom(busyKeys[2], fields)
    ELSE IF k = NoKey /\ busyKeys = <<>> THEN NoBusyKey(fields)
    ELSE ScanFrom(Start(k), fields)

Sweep(k, fields) ==
    IF k = NoKey /\ busyKeys = <<>> THEN NoBusyKey(fields)
    ELSE ScanFrom(Start(k), fields)

\* No current key, or one nothing was returned for since it was zeroed.
ReadyFirst ==
    /\ curKey # NoKey => key[curKey].curCount = 0
    /\ Sweep(curKey, key)

\* The current key has registrations left: poll(2) its socket again.
ReadyAgain ==
    /\ curKey # NoKey /\ key[curKey].curCount >= 1
    /\ key[curKey].count > key[curKey].curCount
    /\ \/ /\ key' = [key EXCEPT ![curKey].curCount = @ + 1]    \* still ready
          /\ UNCHANGED <<polls, curKey, locked, ready>>
       \/ Sweep(NextBusy(curKey), key)                         \* no more
       \/ Sweep(curKey, key)                                   \* poll failed

\* All its registrations were served: on to the next key.
ReadyNext ==
    /\ curKey # NoKey /\ key[curKey].curCount >= 1
    /\ key[curKey].count <= key[curKey].curCount
    /\ Sweep(NextBusy(curKey), [key EXCEPT ![curKey].curCount = 0])

SelectionKeyReady ==
    /\ ~locked
    /\ ReadyFirst \/ ReadyAgain \/ ReadyNext
    /\ UNCHANGED <<busyKeys, freeKeys, maxPolls, pipe>>

-----------------------------------------------------------------------------
Next ==
    \/ \E fd \in Fds : RegisterAgain(fd) \/ RegisterNew(fd)
    \/ \E k \in Keys : UnregisterOne(k) \/ UnregisterKey(k)
    \/ \E up \in SUBSET Busy : Select(up)
    \/ SelectorWakeUp
    \/ SelectionKeyReady

Spec == Init /\ [][Next]_vars

(* _ReaderRun and _AcceptorRun iterate after every Select that reports a   *)
(* socket, until SelectionKeyReady returns false.                          *)
FairSpec == Spec /\ WF_vars(SelectionKeyReady)

-----------------------------------------------------------------------------
(* Properties *)

(* A key and its entry in the array of poll(2) never part: the n-th busy   *)
(* key is the one of the n-th entry, through every Register and every      *)
(* shift of Unregister, so a socket's event is never taken for another's.  *)
PollsMatchKeys ==
    /\ Len(polls) = Len(busyKeys)
    /\ \A i \in DOMAIN busyKeys :
          /\ key[busyKeys[i]].poll = i
          /\ key[busyKeys[i]].fd = polls[i].fd

(* A SelectionKey is on one of the two lists at most, once; it is marked   *)
(* as linked while it is busy, and only then: Unregister recycles it once. *)
KeysListedOnce ==
    /\ \A i, j \in DOMAIN busyKeys : busyKeys[i] = busyKeys[j] => i = j
    /\ \A i, j \in DOMAIN freeKeys : freeKeys[i] = freeKeys[j] => i = j
    /\ Busy \cap Free = {}
    /\ \A k \in Keys : key[k].linked <=> k \in Busy

(* A socket has one key, however often it is registered: poll(2) is not    *)
(* given the same socket twice, and its unregistration leaves no entry.    *)
OneKeyPerSocket ==
    \A k, l \in Busy : key[k].fd = key[l].fd => k = l

(* The array holds numPolls entries: Register writes within maxPolls.      *)
PollsFit == Len(polls) + 1 <= maxPolls

(* The keys still to be returned are those whose entry has revents set,    *)
(* wherever the entry was moved since Select: none is returned twice for   *)
(* one event, and none gets the event of the key that sat there before.    *)
ReadyMarked ==
    ready = {k \in Busy : polls[key[k].poll].revents}

(* The keys, their two lists and the array of poll(2) agree after any      *)
(* series of Register, Unregister, Select and SelectionKeyReady.           *)
KeyTable ==
    /\ PollsMatchKeys
    /\ KeysListedOnce
    /\ OneKeyPerSocket
    /\ PollsFit
    /\ ReadyMarked

(* Iterating until false misses no key: each one Select reported is        *)
(* returned by SelectionKeyReady (or unregistered meanwhile), when the     *)
(* owner sweeps without registering or unregistering in between.           *)
EveryReadyKeyReturned ==
    \A k \in Keys : k \in ready ~> k \notin ready

(* selector.h on SelectionKeyReady: false means that "a Select operation   *)
(* can be performed again on the Selector", so the lock is not kept.       *)
LockGivenBack == ~locked

=============================================================================
