--------------------------- MODULE TransferProofs ---------------------------
(***************************************************************************)
(* Proofs about Transfer, for buffers of any size, batches of any size and *)
(* any number of bytes: no buffer of the pool is lost or lent twice, every *)
(* byte comes in order, and no call of the WRITE handler is lost before a  *)
(* first CLOSED nor made unasked after it.                                 *)
(***************************************************************************)
EXTENDS Transfer, SequenceLemmas

USE TransferAssumption, BufferAssumption

-----------------------------------------------------------------------------
(* 1. Buffers.                                                              *)

LEMMA NewBufferIs ==
    ASSUME NEW S
    PROVE  /\ NewBuffer \in Buffers(S)
           /\ NewBuffer.position = 0 /\ NewBuffer.limit = BufferSize
           /\ \A i \in 1..BufferSize : NewBuffer.data[i] = 0
BY DEF NewBuffer, Buffers

LEMMA BufferIs ==
    ASSUME NEW S, NEW b \in Buffers(S)
    PROVE  /\ b.position \in 0..BufferSize /\ b.limit \in 0..BufferSize
           /\ b.data \in [1..BufferSize -> S \cup {0}]
           /\ \A i \in 1..BufferSize : b.data[i] \in S \cup {0}
           /\ b = [position |-> b.position, limit |-> b.limit, data |-> b.data]
BY DEF Buffers

(* Assigning one member.                                                   *)
LEMMA FieldSet ==
    ASSUME NEW S, NEW b \in Buffers(S)
    PROVE  /\ \A d \in [1..BufferSize -> S \cup {0}] :
                 /\ [b EXCEPT !.data = d] \in Buffers(S)
                 /\ [b EXCEPT !.data = d].position = b.position
                 /\ [b EXCEPT !.data = d].limit = b.limit
                 /\ [b EXCEPT !.data = d].data = d
           /\ \A n \in 0..BufferSize :
                 /\ [b EXCEPT !.position = n] \in Buffers(S)
                 /\ [b EXCEPT !.position = n].position = n
                 /\ [b EXCEPT !.position = n].limit = b.limit
                 /\ [b EXCEPT !.position = n].data = b.data
           /\ \A n \in 0..BufferSize :
                 /\ [b EXCEPT !.limit = n] \in Buffers(S)
                 /\ [b EXCEPT !.limit = n].position = b.position
                 /\ [b EXCEPT !.limit = n].limit = n
                 /\ [b EXCEPT !.limit = n].data = b.data
BY DEF Buffers

LEMMA FlippedIs ==
    ASSUME NEW S, NEW b \in Buffers(S)
    PROVE  /\ BufferFlip(b) \in Buffers(S)
           /\ BufferFlip(b).position = 0
           /\ BufferFlip(b).limit = b.position
           /\ BufferFlip(b).data = b.data
<1> DEFINE l == [b EXCEPT !.limit = b.position]
<1>1. /\ b.position \in 0..BufferSize
      /\ l \in Buffers(S) /\ l.limit = b.position /\ l.data = b.data
  BY BufferIs, FieldSet
<1>2. BufferFlip(b) = [l EXCEPT !.position = 0]
  BY DEF BufferFlip
<1> HIDE DEF l
<1>3. 0 \in 0..BufferSize
  OBVIOUS
<1> QED
  BY <1>1, <1>2, <1>3, FieldSet

LEMMA PositionIs ==
    ASSUME NEW S, NEW b \in Buffers(S), NEW n \in 0..BufferSize, n <= b.limit
    PROVE  /\ BufferPosition(b, n) \in Buffers(S)
           /\ BufferPosition(b, n).position = n
           /\ BufferPosition(b, n).limit = b.limit
           /\ BufferPosition(b, n).data = b.data
<1>1. b.limit \in 0..BufferSize
  BY BufferIs
<1>2. BufferPosition(b, n) = [b EXCEPT !.position = n]
  BY <1>1 DEF BufferPosition
<1> QED
  BY <1>2, FieldSet

(* The bytes between the position and the limit.                           *)
LEMMA RestElements ==
    ASSUME NEW S, NEW b \in Buffers(S), b.position <= b.limit
    PROVE  /\ Rest(b) \in Seq(S \cup {0})
           /\ Len(Rest(b)) = b.limit - b.position
           /\ \A k \in 1..(b.limit - b.position) : Rest(b)[k] = b.data[b.position + k]
<1>1. /\ b.position \in 0..BufferSize /\ b.limit \in 0..BufferSize
      /\ \A i \in 1..BufferSize : b.data[i] \in S \cup {0}
  BY BufferIs
<1>2. \A i \in (b.position + 1)..b.limit : b.data[i] \in S \cup {0}
  BY <1>1
<1>3. /\ b.position + 1 \in Int /\ b.limit \in Int
      /\ b.limit - (b.position + 1) + 1 = b.limit - b.position
  BY <1>1
<1>4. /\ SubSeq(b.data, b.position + 1, b.limit) \in Seq(S \cup {0})
      /\ Len(SubSeq(b.data, b.position + 1, b.limit)) =
            IF b.position + 1 <= b.limit THEN b.limit - (b.position + 1) + 1 ELSE 0
      /\ \A k \in 1..(b.limit - (b.position + 1) + 1) :
            SubSeq(b.data, b.position + 1, b.limit)[k] = b.data[b.position + 1 + k - 1]
  BY <1>2, <1>3, SubSeqProperties
<1> QED
  BY <1>1, <1>3, <1>4 DEF Rest

(* recv into the read buffer.                                              *)
LEMMA ReceivedInto ==
    ASSUME NEW S, NEW b \in Buffers(S), NEW bytes \in Seq(S),
           b.position + Len(bytes) <= b.limit,
           NEW c, c = BufferPosition(Written(b, bytes), b.position + Len(bytes))
    PROVE  /\ c \in Buffers(S)
           /\ c.position = b.position + Len(bytes) /\ c.limit = b.limit
           /\ \A i \in 1..b.position : c.data[i] = b.data[i]
           /\ \A k \in 1..Len(bytes) : c.data[b.position + k] = bytes[k]
<1>1. /\ b.position \in 0..BufferSize /\ b.limit \in 0..BufferSize
      /\ \A i \in 1..BufferSize : b.data[i] \in S \cup {0}
      /\ Len(bytes) \in Nat /\ \A k \in 1..Len(bytes) : bytes[k] \in S
  BY BufferIs, LenProperties, ElementOfSeq
<1> DEFINE data == [i \in 1..BufferSize |->
                       IF i - b.position \in 1..Len(bytes) THEN bytes[i - b.position]
                       ELSE b.data[i]]
<1>2. /\ data \in [1..BufferSize -> S \cup {0}]
      /\ \A i \in 1..b.position : data[i] = b.data[i]
      /\ \A k \in 1..Len(bytes) : data[b.position + k] = bytes[k]
  <2>1. data \in [1..BufferSize -> S \cup {0}]
    BY <1>1
  <2>2. ASSUME NEW i \in 1..b.position
        PROVE  data[i] = b.data[i]
    <3>1. i \in 1..BufferSize /\ i - b.position \notin 1..Len(bytes)
      BY <1>1
    <3> QED
      BY <3>1
  <2>3. ASSUME NEW k \in 1..Len(bytes)
        PROVE  data[b.position + k] = bytes[k]
    <3>1. /\ b.position + k \in 1..BufferSize
          /\ (b.position + k) - b.position = k
      BY <1>1
    <3> QED
      BY <3>1
  <2> QED
    BY <2>1, <2>2, <2>3
<1>3. Written(b, bytes) = [b EXCEPT !.data = data]
  BY DEF Written
<1> HIDE DEF data
<1> DEFINE w == Written(b, bytes)
<1>4. w \in Buffers(S) /\ w.position = b.position /\ w.limit = b.limit /\ w.data = data
  BY <1>2, <1>3, FieldSet
<1> HIDE DEF w
<1> DEFINE n == b.position + Len(bytes)
<1>5. n \in 0..BufferSize /\ n <= w.limit
  BY <1>1, <1>4
<1>6. c = BufferPosition(w, n)
  BY DEF w
<1> HIDE DEF n
<1>7. /\ BufferPosition(w, n) \in Buffers(S) /\ BufferPosition(w, n).position = n
      /\ BufferPosition(w, n).limit = w.limit /\ BufferPosition(w, n).data = w.data
  BY <1>4, <1>5, PositionIs
<1>8. /\ c \in Buffers(S) /\ c.position = n
      /\ c.limit = w.limit /\ c.data = w.data
  BY <1>6, <1>7
<1> QED
  BY <1>2, <1>4, <1>8 DEF n

(* BufferFlip and BufferCopy of the read buffer into a new one.            *)
LEMMA CopyOf ==
    ASSUME NEW S, NEW b \in Buffers(S), NEW c, c = BufferCopy(BufferFlip(b))
    PROVE  /\ c \in Buffers(S)
           /\ c.position = 0 /\ c.limit = b.position
           /\ \A i \in 1..b.position : c.data[i] = b.data[i]
<1> DEFINE src == BufferFlip(b)
           bytes == Rest(src)
<1>1. /\ b.position \in 0..BufferSize
      /\ \A i \in 1..BufferSize : b.data[i] \in S \cup {0}
      /\ src \in Buffers(S) /\ src.position = 0 /\ src.limit = b.position /\ src.data = b.data
  BY BufferIs, FlippedIs
<1> HIDE DEF src
<1>2. src.position <= src.limit
  BY <1>1
<1>3. /\ Len(bytes) = src.limit - src.position
      /\ \A k \in 1..(src.limit - src.position) : bytes[k] = src.data[src.position + k]
  BY <1>1, <1>2, RestElements
<1> HIDE DEF bytes
<1>4. Len(bytes) = b.position /\ \A k \in 1..b.position : bytes[k] = b.data[k]
  BY <1>1, <1>3
<1> DEFINE data == [i \in 1..BufferSize |->
                       IF i - NewBuffer.position \in 1..Len(bytes)
                       THEN bytes[i - NewBuffer.position] ELSE NewBuffer.data[i]]
<1>5. /\ data \in [1..BufferSize -> S \cup {0}]
      /\ \A i \in 1..b.position : data[i] = b.data[i]
  BY <1>1, <1>4, NewBufferIs
<1>6. Written(NewBuffer, bytes) = [NewBuffer EXCEPT !.data = data]
  BY DEF Written
<1> HIDE DEF data
<1> DEFINE w == Written(NewBuffer, bytes)
<1>7. w \in Buffers(S) /\ w.position = 0 /\ w.data = data
  BY <1>5, <1>6, NewBufferIs, FieldSet
<1> HIDE DEF w
<1>8. c = BufferLimit(w, src.limit - src.position)
  BY DEF BufferCopy, BufferRemaining, src, bytes, w
<1>9. c = [w EXCEPT !.limit = b.position]
  BY <1>1, <1>8 DEF BufferLimit
<1>10. /\ c \in Buffers(S) /\ c.position = w.position
       /\ c.limit = b.position /\ c.data = w.data
  BY <1>1, <1>7, <1>9, FieldSet
<1> QED
  BY <1>5, <1>7, <1>10

(* What the WRITE handler puts, between BufferReset and BufferFlip.        *)
LEMMA PutInto ==
    ASSUME NEW S, NEW bytes \in Seq(S), Len(bytes) <= BufferSize,
           NEW c, c = BufferFlip(BufferPut(NewBuffer, bytes))
    PROVE  /\ c \in Buffers(S)
           /\ c.position = 0 /\ c.limit = Len(bytes)
           /\ \A i \in 1..Len(bytes) : c.data[i] = bytes[i]
<1>1. /\ Len(bytes) \in 0..BufferSize
      /\ \A k \in 1..Len(bytes) : bytes[k] \in S
  BY LenProperties, ElementOfSeq
<1> DEFINE data == [i \in 1..BufferSize |->
                       IF i - NewBuffer.position \in 1..Len(bytes)
                       THEN bytes[i - NewBuffer.position] ELSE NewBuffer.data[i]]
<1>2. /\ data \in [1..BufferSize -> S \cup {0}]
      /\ \A i \in 1..Len(bytes) : data[i] = bytes[i]
  BY <1>1, NewBufferIs
<1>3. Written(NewBuffer, bytes) = [NewBuffer EXCEPT !.data = data]
  BY DEF Written
<1> HIDE DEF data
<1> DEFINE w == Written(NewBuffer, bytes)
           p == BufferPut(NewBuffer, bytes)
<1>4. w \in Buffers(S) /\ w.position = 0 /\ w.data = data
  BY <1>2, <1>3, NewBufferIs, FieldSet
<1>5. ~(NewBuffer.position + Len(bytes) > NewBuffer.limit)
  BY <1>1, NewBufferIs
<1>6. p = [w EXCEPT !.position = @ + Len(bytes)]
  BY <1>5 DEF BufferPut
<1> HIDE DEF w, p
<1>7. p = [w EXCEPT !.position = Len(bytes)]
  BY <1>1, <1>4, <1>6 DEF Buffers
<1>8. p \in Buffers(S) /\ p.position = Len(bytes) /\ p.data = w.data
  BY <1>1, <1>4, <1>7, FieldSet
<1>9. c = BufferFlip(p)
  BY DEF p
<1> QED
  BY <1>2, <1>4, <1>8, <1>9, FlippedIs


-----------------------------------------------------------------------------
(* 2. The invariants.                                                       *)

\* The parts of TypeOK, each about the variables of one side.
InboundTypes ==
    /\ load \in Loads
    /\ inbox \in Seq(1 .. load[1])
    /\ peerDone \in BOOLEAN
    /\ readBuffer \in Buffers(1 .. load[1])
    /\ readerAt \in {"poll", "test", "allocate", "grow", "again", "copy", "offer"}
    /\ readerHand \in 0 .. Made
    /\ pool \in Seq(1 .. Made)
    /\ emptied \in BOOLEAN
    /\ content \in Seq(Buffers(1 .. load[1]))
    /\ tasks \in Seq(0 .. Made)
    /\ workerAt \in {"idle", "process", "release"}
    /\ workerHand \in 0 .. Made
    /\ sent \in 0 .. load[1]
    /\ delivered \in Seq(1 .. load[1])
    /\ peak \in 0 .. Made

OutboundTypes ==
    /\ asking \in BOOLEAN
    /\ outbound \in Seq({"OUTBOUND", "CLOSE"})
    /\ writerAt \in {"idle", "close", "produce", "send", "again"}
    /\ memorized \in BOOLEAN
    /\ writeBuffer \in Buffers(Nat)
    /\ writeBuffer.position <= writeBuffer.limit
    /\ shut \in BOOLEAN
    /\ asked \in 0 .. load[2]
    /\ calls \in Nat
    /\ put \in Nat
    /\ wire \in Seq(Nat)

\* Only a connection that was closed has threads to tell, and each is told of
\* it once; until the flags are set the dispatch has not begun.
ClosingTypes ==
    /\ state \in {"CONNECTED", "PENDING_CLOSE", "CLOSED"}
    /\ canRead \in BOOLEAN /\ canWrite \in BOOLEAN
    /\ settling \in BOOLEAN /\ closed \in BOOLEAN
    /\ toTell \in {<<>>, <<"writer">>, <<"worker", "writer">>}
    /\ state = "CLOSED" => closed
    /\ settling => state # "CONNECTED"
    /\ ~closed => canWrite /\ toTell = <<>>
    /\ canRead => ~closed \/ (settling /\ toTell = <<"worker", "writer">>)

WorkerUntold ==
    ~closed \/ toTell = <<"worker", "writer">> => 0 \notin ToSet(tasks)

WriterUntold ==
    ~closed \/ toTell # <<>> => "CLOSE" \notin ToSet(outbound)

\* A buffer is in a hand exactly while its thread is at work with one.
HandsBusy ==
    /\ readerHand # 0 <=> readerAt \in {"copy", "offer"}
    /\ workerHand # 0 <=> workerAt # "idle"

\* The pool has nothing to give, or says so, only once all its buffers were
\* out; a batch that was added is there until the reader has had its share.
Lent ==
    /\ pool = <<>> \/ emptied \/ readerAt = "grow" => peak = Made
    /\ readerAt = "again" => pool # <<>>
    /\ readerAt \in {"grow", "again"} => ~emptied

\* The bytes that go to the worker were received: none is one of those that
\* memset cleared.
Filled(b) ==
    /\ content[b].position = 0
    /\ \A i \in 1 .. content[b].limit : content[b].data[i] # 0

OnlyReceived ==
    /\ readBuffer.limit = BufferSize
    /\ \A i \in 1 .. readBuffer.position : readBuffer.data[i] # 0
    /\ \A b \in ToSet(tasks) : b # 0 => Filled(b)
    /\ readerAt = "offer" => Filled(readerHand)
    /\ workerHand # 0 => Filled(workerHand)

InboundInv ==
    /\ ClosingTypes /\ WorkerUntold
    /\ InboundTypes
    /\ OneHand /\ GrowsWhenNeeded
    /\ HandsBusy /\ Lent /\ OnlyReceived

\* WrittenInOrder, byte by byte, and what is left when.
Wrote ==
    /\ put = Len(wire) + (writeBuffer.limit - writeBuffer.position)
    /\ \A i \in 1 .. Len(wire) : wire[i] = i
    /\ \A k \in 1 .. (writeBuffer.limit - writeBuffer.position) :
          writeBuffer.data[writeBuffer.position + k] = Len(wire) + k
    /\ writerAt = "produce" => ~BufferHasRemaining(writeBuffer)
    /\ writerAt = "again" => BufferHasRemaining(writeBuffer)

\* InterestCounted, at every step of the writer: the event it took is for the
\* call it is about to make, or for the bytes that are left.
Due ==
    asked + (IF writerAt \in {"idle", "close"} /\ BufferHasRemaining(writeBuffer) THEN 1
             ELSE IF writerAt = "produce" THEN -1 ELSE 0)

Counted ==
    /\ calls + Outbound <= Due
    /\ ~closed => calls + Outbound = Due
    /\ writerAt = "close" => closed

OutboundInv ==
    /\ ClosingTypes /\ WriterUntold
    /\ load \in Loads /\ OutboundTypes
    /\ asking => asked < load[2]
    /\ Wrote /\ Counted

-----------------------------------------------------------------------------
(* 3. Closing.                                                              *)

Settles ==
    /\ settling /\ settling' = FALSE
    /\ canRead' = FALSE /\ canWrite' = (state = "PENDING_CLOSE")
    /\ UNCHANGED <<state, toTell, closed>>

Tells ==
    /\ ~settling /\ toTell # <<>> /\ toTell' = Tail(toTell)
    /\ UNCHANGED <<state, canRead, canWrite, settling, closed>>

ClosingMoves ==
    \/ UNCHANGED closing
    \/ SetState("PENDING_CLOSE") \/ SetState("CLOSED")
    \/ Settles \/ Tells

LEMMA ToldInTurn ==
    /\ Tail(<<"worker", "writer">>) = <<"writer">> /\ Head(<<"worker", "writer">>) = "worker"
    /\ Tail(<<"writer">>) = <<>> /\ Head(<<"writer">>) = "writer"
    /\ <<"writer">> # <<>> /\ <<"worker", "writer">> # <<>>
    /\ <<"writer">> # <<"worker", "writer">>
OBVIOUS

LEMMA ClosingMoved ==
    ASSUME ClosingTypes, ClosingMoves
    PROVE  /\ ClosingTypes'
           /\ closed => closed'
           /\ canRead' => canRead
           /\ toTell' = <<"worker", "writer">> =>
                 ~closed \/ toTell = <<"worker", "writer">>
           /\ toTell' # <<>> => ~closed \/ toTell # <<>>
<1>1. CASE UNCHANGED closing
  BY <1>1 DEF ClosingTypes, closing
<1>2. CASE SetState("PENDING_CLOSE")
  BY <1>2 DEF ClosingTypes, SetState
<1>3. CASE SetState("CLOSED")
  <2>1. /\ ~settling /\ toTell = <<>> /\ state' = "CLOSED" /\ settling' = TRUE
        /\ toTell' = IF ~closed THEN <<"worker", "writer">> ELSE <<>>
        /\ closed' = TRUE
        /\ canRead' = canRead /\ canWrite' = canWrite
    BY <1>3 DEF SetState
  <2>2. canRead => ~closed
    BY <2>1 DEF ClosingTypes
  <2>3. CASE closed
    BY <2>1, <2>2, <2>3, ToldInTurn DEF ClosingTypes
  <2>4. CASE ~closed
    BY <2>1, <2>4, ToldInTurn DEF ClosingTypes
  <2> QED
    BY <2>3, <2>4
<1>4. CASE Settles
  <2>1. /\ settling' = FALSE /\ canRead' = FALSE /\ canWrite' \in BOOLEAN
        /\ UNCHANGED <<state, toTell, closed>>
    BY <1>4 DEF Settles
  <2>2. ~closed => canWrite'
    BY <1>4 DEF Settles, ClosingTypes
  <2> QED
    BY <2>1, <2>2 DEF ClosingTypes
<1>5. CASE Tells
  <2>1. toTell' \in {<<>>, <<"writer">>}
    BY <1>5, ToldInTurn DEF ClosingTypes, Tells
  <2>2. closed /\ ~canRead
    BY <1>5 DEF ClosingTypes, Tells
  <2> QED
    BY <1>5, <2>1, <2>2, ToldInTurn DEF ClosingTypes, Tells
<1> QED
  BY <1>1, <1>2, <1>3, <1>4, <1>5 DEF ClosingMoves

LEMMA CloseMoves ==
    ASSUME Close, ClosingTypes
    PROVE  ClosingMoves /\ closed'
<1>1. CASE state = "CLOSED"
  BY <1>1 DEF Close, ClosingMoves, ClosingTypes, closing
<1>2. CASE state # "CLOSED"
  <2>1. SetState("CLOSED")
    BY <1>2 DEF Close
  <2> QED
    BY <2>1 DEF ClosingMoves, SetState
<1> QED
  BY <1>1, <1>2

(* A step that leaves one side's variables alone leaves its invariant.     *)
LEMMA InboundStays ==
    ASSUME InboundInv, ClosingMoves, UNCHANGED <<load, inboundVars>>
    PROVE  InboundInv'
<1>1. ClosingTypes' /\ WorkerUntold'
  BY ClosingMoved DEF InboundInv, WorkerUntold, inboundVars, working
<1>2. /\ InboundTypes' /\ HandsBusy' /\ Lent'
      /\ OneHand' /\ GrowsWhenNeeded'
  BY DEF InboundInv, InboundTypes, Made, HandsBusy, Lent, OneHand, Hands, GrowsWhenNeeded,
         inboundVars, receiving, reading, pooled, working
<1>3. OnlyReceived'
  BY DEF InboundInv, OnlyReceived, Filled, inboundVars, reading, pooled, working
<1> QED
  BY <1>1, <1>2, <1>3 DEF InboundInv

LEMMA OutboundStays ==
    ASSUME OutboundInv, ClosingMoves, UNCHANGED <<load, outboundVars>>
    PROVE  OutboundInv'
<1>1. ClosingTypes' /\ WriterUntold'
  BY ClosingMoved DEF OutboundInv, WriterUntold, outboundVars
<1>2. /\ load' \in Loads /\ OutboundTypes' /\ Wrote'
      /\ asking' => asked' < load'[2]
  BY DEF OutboundInv, OutboundTypes, Wrote, BufferHasRemaining, outboundVars, interest, writing
<1>3. closed => closed'
  BY ClosingMoved DEF OutboundInv
<1>4. Counted'
  BY <1>3 DEF OutboundInv, Counted, Due, Outbound, BufferHasRemaining, outboundVars, interest, writing
<1> QED
  BY <1>1, <1>2, <1>4 DEF OutboundInv

-----------------------------------------------------------------------------
(* 4. The inbound side: the pool and what its buffers hold.                 *)

LEMMA LoadIs ==
    ASSUME InboundTypes
    PROVE  load[1] \in Nat /\ load[2] \in Nat /\ Made \in Nat
<1>1. load \in Nat \X Nat
  BY DEF InboundTypes
<1>2. Len(content) \in Nat
  BY LenProperties DEF InboundTypes
<1> QED
  BY <1>1, <1>2 DEF Made

LEMMA InboundInit == Init => InboundInv
<1> SUFFICES ASSUME Init PROVE InboundInv
  OBVIOUS
<1>1. /\ load \in Nat \X Nat /\ load[1] \in Nat
      /\ Batch \in Nat \ {0} /\ BufferSize \in Nat \ {0}
  BY DEF Init
<1> DEFINE S == 1..load[1]
<1>2. content \in [1..Batch -> Buffers(S)]
  BY NewBufferIs DEF Init
<1>3. content \in Seq(Buffers(S)) /\ Len(content) = Batch
  BY <1>1, <1>2, RewrittenProperties
<1>4. pool \in [1..Batch -> 1..Batch] /\ \A i \in 1..Batch : pool[i] = i
  BY DEF Init, Numbers
<1>5. pool \in Seq(1..Batch) /\ Len(pool) = Batch /\ DOMAIN pool = 1..Batch
  BY <1>1, <1>4, RewrittenProperties
<1>6. InboundTypes
  <2>1. /\ tasks \in Seq(0..Made) /\ inbox \in Seq(S) /\ delivered \in Seq(S)
    BY DEF Init
  <2>2. readBuffer \in Buffers(S)
    BY NewBufferIs DEF Init
  <2>3. /\ readerHand \in 0..Made /\ workerHand \in 0..Made /\ peak \in 0..Made
        /\ pool \in Seq(1..Made) /\ sent \in 0..load[1]
    BY <1>1, <1>3, <1>5 DEF Init, Made
  <2> QED
    BY <1>3, <2>1, <2>2, <2>3 DEF Init, InboundTypes
<1>7. ToSet(pool) = 1..Batch /\ IsInjective(pool) /\ pool # <<>>
  <2>1. ToSet(pool) = 1..Batch
    <3>1. \A x \in ToSet(pool) : \E i \in 1..Batch : x = pool[i]
      BY <1>5 DEF ToSet
    <3>2. \A i \in 1..Batch : pool[i] \in ToSet(pool)
      BY <1>5 DEF ToSet
    <3>3. \A x : x \in ToSet(pool) <=> x \in 1..Batch
      BY <1>4, <3>1, <3>2
    <3> QED
      BY <3>3
  <2>2. IsInjective(pool)
    BY <1>4, <1>5 DEF IsInjective
  <2> QED
    BY <1>1, <1>5, <2>1, <2>2
<1>8. ToSet(tasks) = {} /\ IsInjective(tasks)
  BY ShortElements DEF Init, IsInjective
<1>9. OneHand
  BY <1>1, <1>3, <1>7, <1>8 DEF Init, OneHand, Hands, Made
<1>10. GrowsWhenNeeded /\ HandsBusy /\ Lent
  BY <1>1, <1>3, <1>7 DEF Init, GrowsWhenNeeded, HandsBusy, Lent, Made
<1>11. OnlyReceived
  BY <1>8, NewBufferIs DEF Init, OnlyReceived
<1>12. ClosingTypes /\ WorkerUntold
  BY <1>8 DEF Init, ClosingTypes, WorkerUntold
<1> QED
  BY <1>6, <1>9, <1>10, <1>11, <1>12 DEF InboundInv

(* The steps that neither move a buffer nor change one of the pool.        *)
PoolStays == UNCHANGED <<load, closing, readerHand, pool, content, tasks, workerHand>>

LEMMA PoolUnmoved ==
    ASSUME InboundInv, PoolStays, InboundTypes', HandsBusy', Lent', OnlyReceived',
           peak' \in Nat, peak <= peak'
    PROVE  InboundInv'
<1>1. ClosingTypes' /\ WorkerUntold'
  BY DEF InboundInv, PoolStays, ClosingTypes, WorkerUntold, closing
<1>2. OneHand'
  BY DEF InboundInv, PoolStays, OneHand, Hands, Made
<1>3. GrowsWhenNeeded'
  BY LoadIs DEF InboundInv, PoolStays, GrowsWhenNeeded, InboundTypes, Made
<1> QED
  BY <1>1, <1>2, <1>3 DEF InboundInv

LEMMA InboundPeer == InboundInv /\ Peer => InboundInv'
<1> SUFFICES ASSUME InboundInv, Peer PROVE InboundInv'
  OBVIOUS
<1>1. /\ UNCHANGED <<load, closing, reading, pooled, working>>
      /\ inbox' \in Seq(1..load[1]) /\ peerDone' \in BOOLEAN /\ sent' \in 0..load[1]
  <2>1. CASE PeerSends
    <3>1. sent + 1 \in 1..load[1] /\ inbox \in Seq(1..load[1]) /\ peerDone \in BOOLEAN
      BY <2>1, LoadIs DEF PeerSends, InboundInv, InboundTypes
    <3> QED
      BY <2>1, <3>1, AppendProperties DEF PeerSends
  <2>2. CASE PeerCloses
    BY <2>2 DEF PeerCloses, InboundInv, InboundTypes
  <2> QED
    BY <2>1, <2>2 DEF Peer
<1>2. InboundTypes'
  BY <1>1 DEF InboundInv, InboundTypes, Made, reading, pooled, working
<1>3. HandsBusy' /\ Lent' /\ OnlyReceived'
  BY <1>1 DEF InboundInv, HandsBusy, Lent, OnlyReceived, Filled, Made, reading, pooled, working
<1> QED
  BY <1>1, <1>2, <1>3, PoolUnmoved DEF PoolStays, InboundInv, InboundTypes, reading, pooled, working

LEMMA InboundTold == InboundInv /\ TellWorker => InboundInv'
<1> SUFFICES ASSUME InboundInv, TellWorker PROVE InboundInv'
  OBVIOUS
<1>1. /\ toTell = <<"worker", "writer">> /\ toTell' = <<"writer">>
      /\ closed /\ closed' = closed /\ ClosingTypes'
  <2>1. Tells /\ Head(toTell) = "worker"
    BY DEF TellWorker, Tells
  <2> QED
    BY <2>1, ToldInTurn, ClosingMoved DEF Tells, ClosingMoves, InboundInv, ClosingTypes
<1>2. 0 \notin ToSet(tasks)
  BY <1>1 DEF InboundInv, WorkerUntold
<1>3. /\ tasks' = Append(tasks, 0) /\ tasks \in Seq(0..Made) /\ 0 \in 0..Made
      /\ UNCHANGED <<load, receiving, reading, pooled, workerAt, workerHand, delivered>>
  BY LoadIs DEF TellWorker, InboundInv, InboundTypes
<1>4. /\ tasks' \in Seq(0..Made) /\ ToSet(tasks') = ToSet(tasks) \cup {0} /\ IsInjective(tasks')
  <2>1. IsInjective(tasks)
    BY DEF InboundInv, OneHand
  <2> DEFINE T == 0..Made
  <2>0. tasks \in Seq(T) /\ 0 \in T
    BY <1>3
  <2> HIDE DEF T
  <2>2. /\ Append(tasks, 0) \in Seq(T)
        /\ ToSet(Append(tasks, 0)) = ToSet(tasks) \cup {0}
    BY <2>0, AppendProperties, AppendElements
  <2>3. IsInjective(Append(tasks, 0))
    BY <1>2, <2>0, <2>1, AppendDistinct
  <2>4. tasks' \in Seq(T)
    BY <1>3, <2>2
  <2>5. tasks' \in Seq(0..Made)
    BY <2>4 DEF T
  <2> QED
    BY <1>3, <2>2, <2>3, <2>5
<1>5. InboundTypes'
  BY <1>3, <1>4 DEF InboundInv, InboundTypes, Made, receiving, reading, pooled
<1>6. OneHand'
  <2>1. 0 \notin ToSet(pool) /\ 0 \notin Hands
    <3>1. \A i \in DOMAIN pool : pool[i] \in 1..Made
      BY LenProperties, ElementOfSeq DEF InboundInv, InboundTypes
    <3> QED
      BY <3>1, LoadIs DEF InboundInv, ToSet, Hands
  <2> QED
    BY <1>3, <1>4, <2>1 DEF InboundInv, OneHand, Hands, Made, reading, pooled
<1>7. GrowsWhenNeeded' /\ HandsBusy' /\ Lent'
  BY <1>3 DEF InboundInv, GrowsWhenNeeded, HandsBusy, Lent, Made, reading, pooled
<1>8. OnlyReceived'
  BY <1>3, <1>4 DEF InboundInv, OnlyReceived, Filled, reading, pooled
<1>9. ClosingTypes' /\ WorkerUntold'
  BY <1>1, ToldInTurn DEF WorkerUntold
<1> QED
  BY <1>5, <1>6, <1>7, <1>8, <1>9 DEF InboundInv

LEMMA Elements ==
    ASSUME InboundTypes
    PROVE  /\ \A b \in ToSet(pool) : b \in 1..Made
           /\ \A b \in ToSet(tasks) : b \in 0..Made
<1>1. /\ \A i \in DOMAIN pool : pool[i] \in 1..Made
      /\ \A i \in DOMAIN tasks : tasks[i] \in 0..Made
  BY LenProperties, ElementOfSeq DEF InboundTypes
<1> QED
  BY <1>1 DEF ToSet

(* What recv takes from the socket and puts in the read buffer.            *)
LEMMA Receives ==
    ASSUME InboundInv, NEW n \in 1..BufferSize, ReceiveData(n)
    PROVE  /\ n \in 1..Len(inbox) /\ Len(inbox) \in Nat
           /\ readBuffer.position \in 0..BufferSize
           /\ inbox' \in Seq(1..load[1]) /\ Len(inbox') = Len(inbox) - n
           /\ \A k \in 1..(Len(inbox) - n) : inbox'[k] = inbox[n + k]
           /\ canRead =>
                 /\ readBuffer' \in Buffers(1..load[1])
                 /\ readBuffer'.position = readBuffer.position + n
                 /\ readBuffer'.limit = BufferSize
                 /\ \A i \in 1..readBuffer.position : readBuffer'.data[i] = readBuffer.data[i]
                 /\ \A k \in 1..n : /\ readBuffer'.data[readBuffer.position + k] = inbox[k]
                                    /\ inbox[k] \in 1..load[1]
<1> DEFINE S == 1..load[1]
           bytes == SubSeq(inbox, 1, n)
<1>1. /\ inbox \in Seq(S) /\ Len(inbox) \in Nat /\ n \in 1..Len(inbox)
      /\ \A i \in 1..Len(inbox) : inbox[i] \in S
      /\ readBuffer \in Buffers(S) /\ readBuffer.limit = BufferSize
      /\ readBuffer.position \in 0..BufferSize
      /\ n <= BufferSize - readBuffer.position
  BY LenProperties, ElementOfSeq, BufferIs
     DEF ReceiveData, BufferRemaining, InboundInv, InboundTypes, OnlyReceived
<1>2. /\ bytes \in Seq(S) /\ Len(bytes) = n
      /\ \A i \in 1..n : bytes[i] = inbox[i] /\ inbox[i] \in S
  <2>1. /\ 1 \in Int /\ n \in Int /\ \A i \in 1..n : inbox[i] \in S
    BY <1>1
  <2> HIDE DEF S
  <2>2. /\ SubSeq(inbox, 1, n) \in Seq(S)
        /\ Len(SubSeq(inbox, 1, n)) = IF 1 <= n THEN n - 1 + 1 ELSE 0
        /\ \A i \in 1..(n - 1 + 1) : SubSeq(inbox, 1, n)[i] = inbox[1 + i - 1]
    BY <2>1, SubSeqProperties
  <2> QED
    BY <1>1, <2>1, <2>2
<1>3. /\ inbox' \in Seq(S) /\ Len(inbox') = Len(inbox) - n
      /\ \A k \in 1..(Len(inbox) - n) : inbox'[k] = inbox[n + k]
  <2> DEFINE m == Len(inbox)
  <2>1. /\ n + 1 \in Int /\ m \in Int
        /\ \A i \in (n + 1)..m : inbox[i] \in S
    BY <1>1
  <2>2. inbox' = SubSeq(inbox, n + 1, m)
    BY DEF ReceiveData
  <2>3. m \in Nat /\ n <= m
    BY <1>1
  <2> HIDE DEF S, m
  <2>4. /\ inbox' \in Seq(S)
        /\ Len(inbox') = IF n + 1 <= m THEN m - (n + 1) + 1 ELSE 0
        /\ \A k \in 1..(m - (n + 1) + 1) : inbox'[k] = inbox[n + 1 + k - 1]
    BY <2>1, <2>2, SubSeqProperties
  <2>5. Len(inbox') = m - n
    BY <2>3, <2>4
  <2>6. ASSUME NEW k \in 1..(m - n)
        PROVE  inbox'[k] = inbox[n + k]
    <3>1. k \in 1..(m - (n + 1) + 1) /\ n + 1 + k - 1 = n + k
      BY <2>3
    <3> QED
      BY <2>4, <3>1
  <2> QED
    BY <2>4, <2>5, <2>6 DEF m
<1> HIDE DEF bytes
<1>4. ASSUME canRead
      PROVE  /\ readBuffer' \in Buffers(S)
             /\ readBuffer'.position = readBuffer.position + n
             /\ readBuffer'.limit = BufferSize
             /\ \A i \in 1..readBuffer.position : readBuffer'.data[i] = readBuffer.data[i]
             /\ \A k \in 1..n : readBuffer'.data[readBuffer.position + k] = inbox[k]
  <2> DEFINE c == BufferPosition(Written(readBuffer, bytes), readBuffer.position + Len(bytes))
  <2>1. readBuffer' = BufferPosition(Written(readBuffer, bytes), readBuffer.position + n)
    BY <1>4 DEF ReceiveData, bytes
  <2>2. readBuffer' = c
    BY <1>2, <2>1
  <2>3. /\ readBuffer \in Buffers(S) /\ bytes \in Seq(S)
        /\ readBuffer.position + Len(bytes) <= readBuffer.limit
    BY <1>1, <1>2
  <2>4. c = BufferPosition(Written(readBuffer, bytes), readBuffer.position + Len(bytes))
    OBVIOUS
  <2> HIDE DEF S, c
  <2>5. /\ c \in Buffers(S)
        /\ c.position = readBuffer.position + Len(bytes) /\ c.limit = readBuffer.limit
        /\ \A i \in 1..readBuffer.position : c.data[i] = readBuffer.data[i]
        /\ \A k \in 1..Len(bytes) : c.data[readBuffer.position + k] = bytes[k]
    BY <2>3, <2>4, ReceivedInto
  <2> QED
    BY <1>1, <1>2, <2>2, <2>5
<1> QED
  BY <1>1, <1>2, <1>3, <1>4

LEMMA InboundReceives ==
    ASSUME InboundInv, NEW n \in 1..BufferSize, ReceiveData(n)
    PROVE  InboundInv'
<1>1. /\ readerAt = "poll" /\ PoolStays
      /\ UNCHANGED <<peerDone, sent, pooled, working>>
  BY DEF ReceiveData, PoolStays, pooled, working
<1>2. readerHand = 0 /\ readerHand' = 0
  BY <1>1 DEF InboundInv, HandsBusy, PoolStays
<1>3. /\ readBuffer' \in Buffers(1..load[1]) /\ readBuffer'.limit = BufferSize
      /\ \A i \in 1..readBuffer'.position : readBuffer'.data[i] # 0
      /\ readerAt' \in {"poll", "test"}
  <2>1. CASE canRead
    <3>1. ASSUME NEW i \in 1..readBuffer'.position
          PROVE  readBuffer'.data[i] # 0
      <4>1. CASE i \in 1..readBuffer.position
        BY <2>1, <4>1, Receives DEF InboundInv, OnlyReceived
      <4>2. CASE i \notin 1..readBuffer.position
        <5>1. i - readBuffer.position \in 1..n
          BY <2>1, <4>2, Receives
        <5>2. PICK k \in 1..n : k = i - readBuffer.position
          BY <5>1
        <5>3. readBuffer'.data[readBuffer.position + k] = inbox[k] /\ inbox[k] \in 1..load[1]
          BY <2>1, Receives
        <5>4. i = readBuffer.position + k
          BY <2>1, <5>2, Receives
        <5> QED
          BY <5>3, <5>4
      <4> QED
        BY <4>1, <4>2
    <3>2. readerAt' = "test"
      BY <2>1 DEF ReceiveData
    <3> QED
      BY <2>1, <3>1, <3>2, Receives
  <2>2. CASE ~canRead
    <3>1. readBuffer' = NewBuffer /\ readerAt' = readerAt
      BY <2>2 DEF ReceiveData, BufferReset
    <3> QED
      BY <1>1, <3>1, NewBufferIs
  <2> QED
    BY <2>1, <2>2
<1>4. InboundTypes'
  BY <1>1, <1>3, Receives DEF InboundInv, InboundTypes, Made, PoolStays, pooled, working
<1>5. HandsBusy' /\ Lent'
  BY <1>1, <1>2, <1>3 DEF InboundInv, HandsBusy, Lent, Made, PoolStays, pooled, working
<1>6. OnlyReceived'
  BY <1>1, <1>3 DEF InboundInv, OnlyReceived, Filled, PoolStays
<1>7. peak' \in Nat /\ peak <= peak'
  BY <1>1, LoadIs DEF InboundInv, InboundTypes, pooled
<1> QED
  BY <1>1, <1>4, <1>5, <1>6, <1>7, PoolUnmoved

LEMMA InboundTests == InboundInv /\ TestClosed => InboundInv'
<1> SUFFICES ASSUME InboundInv, TestClosed PROVE InboundInv'
  OBVIOUS
<1>1. /\ readerAt = "test" /\ readerAt' \in {"poll", "allocate"}
      /\ PoolStays /\ UNCHANGED <<receiving, readBuffer, pooled, working>>
  BY DEF TestClosed, MoveReader, PoolStays, pooled, working
<1>2. InboundTypes'
  BY <1>1 DEF InboundInv, InboundTypes, Made, PoolStays, receiving, pooled, working
<1>3. HandsBusy' /\ Lent' /\ OnlyReceived'
  BY <1>1 DEF InboundInv, HandsBusy, Lent, OnlyReceived, Filled, Made, PoolStays, pooled, working
<1>4. peak' \in Nat /\ peak <= peak'
  BY <1>1, LoadIs DEF InboundInv, InboundTypes, pooled
<1> QED
  BY <1>1, <1>2, <1>3, <1>4, PoolUnmoved

(* AllocateBuffer gets the first buffer of the pool.                       *)
LEMMA InboundTakes ==
    ASSUME InboundInv, readerAt \in {"allocate", "again"}, Take
    PROVE  InboundInv'
<1> DEFINE h == Head(pool)
<1>1. /\ readerHand = 0 /\ readerHand' = h /\ readerAt' = "copy"
      /\ pool # <<>> /\ pool' = Tail(pool)
      /\ emptied' = (pool' = <<>>)
      /\ peak' = Larger(peak, Made - Len(pool'))
      /\ UNCHANGED <<load, closing, receiving, readBuffer, content, tasks, workerAt, workerHand,
                     delivered>>
  BY DEF Take, MoveReader, InboundInv, HandsBusy
<1>2. /\ IsInjective(pool) /\ pool \in Seq(1..Made) /\ peak \in 0..Made /\ Made \in Nat
      /\ InboundTypes
  BY LoadIs DEF InboundInv, OneHand, InboundTypes
<1>3. /\ pool' \in Seq(1..Made) /\ h \in 1..Made
      /\ ToSet(pool) = {h} \cup ToSet(pool')
      /\ h \notin ToSet(pool') /\ IsInjective(pool')
  <2> DEFINE T == 1..Made
  <2>1. pool \in Seq(T)
    BY <1>2
  <2> HIDE DEF T
  <2>2. Tail(pool) \in Seq(T) /\ h \in T
    BY <1>1, <2>1, TailProperties
  <2>3. ToSet(pool) = {h} \cup ToSet(Tail(pool))
    BY <1>1, <2>1, HeadTailElements
  <2>4. IsInjective(Tail(pool)) /\ h \notin ToSet(Tail(pool))
    BY <1>1, <1>2, <2>1, TailDistinct
  <2> QED
    BY <1>1, <2>2, <2>3, <2>4 DEF T
<1> HIDE DEF h
<1>4. Len(pool') \in Nat /\ (pool' = <<>> => Len(pool') = 0)
  BY <1>3, LenProperties, EmptySeq
<1>5. /\ peak' \in Nat /\ peak <= peak'
      /\ Made - Len(pool') <= peak'
      /\ peak' \in 0..Made
  <2> DEFINE m == Made - Len(pool')
  <2>1. m \in Int /\ m <= Made
    BY <1>2, <1>4
  <2> HIDE DEF m
  <2>2. peak' = IF peak > m THEN peak ELSE m
    BY <1>1 DEF Larger, m
  <2>3. peak' \in 0..Made /\ peak <= peak' /\ m <= peak'
    BY <1>2, <2>1, <2>2
  <2> QED
    BY <1>2, <2>3 DEF m
<1>6. InboundTypes'
  BY <1>1, <1>2, <1>3, <1>5 DEF InboundTypes, Made, receiving
<1>7. OneHand'
  <2>1. /\ ToSet(pool) \cup Hands \cup (ToSet(tasks) \ {0}) = 1..Made
        /\ Hands \cap ToSet(tasks) = {}
        /\ ToSet(pool) \cap (Hands \cup ToSet(tasks)) = {}
        /\ Hands = {workerHand} \ {0} /\ Hands' = {h, workerHand} \ {0}
        /\ IsInjective(tasks)
    BY <1>1 DEF InboundInv, OneHand, Hands
  <2>2. Hands' = Hands \cup {h} /\ h \notin Hands /\ h # 0
    BY <1>2, <1>3, <2>1
  <2>3. /\ ToSet(pool') \cup Hands' \cup (ToSet(tasks) \ {0}) = 1..Made
        /\ Hands' \cap ToSet(tasks) = {}
        /\ ToSet(pool') \cap (Hands' \cup ToSet(tasks)) = {}
    BY <1>3, <2>1, <2>2
  <2>4. h # workerHand
    BY <2>1, <2>2
  <2> QED
    BY <1>1, <1>3, <2>1, <2>3, <2>4 DEF OneHand, Made
<1>8. GrowsWhenNeeded'
  BY <1>1, <1>2, <1>5 DEF InboundInv, GrowsWhenNeeded, Made
<1>9. HandsBusy'
  BY <1>1, <1>3 DEF InboundInv, HandsBusy
<1>10. Lent'
  <2>1. pool' = <<>> \/ emptied' <=> pool' = <<>>
    BY <1>1
  <2>2. pool' = <<>> => peak' = Made
    BY <1>2, <1>4, <1>5
  <2> QED
    BY <1>1, <2>1, <2>2 DEF Lent, Made
<1>11. OnlyReceived'
  BY <1>1 DEF InboundInv, OnlyReceived, Filled
<1>12. ClosingTypes' /\ WorkerUntold'
  BY <1>1 DEF InboundInv, ClosingTypes, WorkerUntold, closing
<1> QED
  BY <1>6, <1>7, <1>8, <1>9, <1>10, <1>11, <1>12 DEF InboundInv

LEMMA InboundAllocates ==
    ASSUME InboundInv, Allocate \/ AllocateAgain
    PROVE  InboundInv'
<1>1. CASE Take /\ readerAt \in {"allocate", "again"}
  BY <1>1, InboundTakes
<1>2. CASE readerAt = "allocate" /\ TakeNothing("grow")
  <2>1. /\ readerAt' = "grow" /\ ~emptied' /\ emptied' \in BOOLEAN
        /\ (emptied \/ pool = <<>>)
        /\ PoolStays /\ UNCHANGED <<receiving, readBuffer, workerAt, delivered, peak>>
    BY <1>2 DEF TakeNothing, MoveReader, PoolStays
  <2>2. InboundTypes'
    BY <2>1 DEF InboundInv, InboundTypes, Made, PoolStays, receiving
  <2>3. peak = Made
    BY <2>1 DEF InboundInv, Lent
  <2>4. HandsBusy' /\ Lent' /\ OnlyReceived'
    BY <1>2, <2>1, <2>3
       DEF InboundInv, HandsBusy, Lent, OnlyReceived, Filled, Made, PoolStays
  <2>5. peak' \in Nat /\ peak <= peak'
    BY <2>1, LoadIs DEF InboundInv, InboundTypes
  <2> QED
    BY <2>1, <2>2, <2>4, <2>5, PoolUnmoved
<1> QED
  BY <1>1, <1>2 DEF Allocate, AllocateAgain

(* The batch that AllocateBuffer adds.                                     *)
LEMMA InboundGrows == InboundInv /\ Grow => InboundInv'
<1> SUFFICES ASSUME InboundInv, Grow PROVE InboundInv'
  OBVIOUS
<1> DEFINE more == [i \in 1..Batch |-> Made + i]
           fresh == [i \in 1..Batch |-> NewBuffer]
           S == Buffers(1..load[1])
<1>1. /\ readerAt = "grow" /\ readerAt' = "again"
      /\ pool' = pool \o more /\ content' = content \o fresh
      /\ UNCHANGED <<load, closing, receiving, readBuffer, readerHand, emptied, tasks, workerAt,
                     workerHand, delivered, peak>>
  BY DEF Grow, MoveReader
<1>2. /\ InboundTypes /\ Made \in Nat /\ Batch \in Nat \ {0} /\ Made = Len(content)
      /\ content \in Seq(S) /\ pool \in Seq(1..Made) /\ tasks \in Seq(0..Made)
      /\ peak = Made /\ IsInjective(pool) /\ ~emptied
  BY <1>1, LoadIs DEF InboundInv, InboundTypes, OneHand, Made, Lent
<1>3. fresh \in Seq(S) /\ Len(fresh) = Batch
  <2>1. fresh \in [1..Batch -> S]
    BY NewBufferIs
  <2> HIDE DEF S, fresh
  <2> QED
    BY <1>2, <2>1, RewrittenProperties
<1>4. /\ content' \in Seq(S) /\ Made' = Made + Batch
      /\ \A b \in 1..Made : content'[b] = content[b]
  <2> HIDE DEF S, fresh
  <2>1. /\ content \o fresh \in Seq(S) /\ Len(content \o fresh) = Len(content) + Len(fresh)
        /\ \A i \in 1..(Len(content) + Len(fresh)) :
              (content \o fresh)[i] =
                 IF i <= Len(content) THEN content[i] ELSE fresh[i - Len(content)]
    BY <1>2, <1>3, ConcatProperties
  <2> QED
    BY <1>1, <1>2, <1>3, <2>1 DEF Made
<1>5. /\ more \in Seq(1..(Made + Batch)) /\ IsInjective(more)
      /\ \A x : x \in ToSet(more) <=> x \in (Made + 1)..(Made + Batch)
      /\ Len(more) = Batch
  <2>1. more \in [1..Batch -> 1..(Made + Batch)] /\ \A i \in 1..Batch : more[i] = Made + i
    BY <1>2
  <2> HIDE DEF more
  <2>2. more \in Seq(1..(Made + Batch)) /\ Len(more) = Batch
    BY <1>2, <2>1, RewrittenProperties
  <2>3. DOMAIN more = 1..Batch
    BY <2>1
  <2>4. IsInjective(more)
    BY <1>2, <2>1, <2>3 DEF IsInjective
  <2>5. \A x \in ToSet(more) : x \in (Made + 1)..(Made + Batch)
    <3>1. \A x \in ToSet(more) : \E i \in 1..Batch : x = more[i]
      BY <2>3 DEF ToSet
    <3> QED
      BY <1>2, <2>1, <3>1
  <2>6. ASSUME NEW x \in (Made + 1)..(Made + Batch)
        PROVE  x \in ToSet(more)
    <3>1. x - Made \in 1..Batch /\ more[x - Made] = x
      BY <1>2, <2>1
    <3> QED
      BY <2>3, <3>1 DEF ToSet
  <2> QED
    BY <2>2, <2>4, <2>5, <2>6
<1>6. /\ pool' \in Seq(1..(Made + Batch)) /\ tasks \in Seq(0..(Made + Batch))
      /\ ToSet(pool') = ToSet(pool) \cup ToSet(more)
      /\ IsInjective(pool') /\ pool' # <<>>
  <2> DEFINE T == 1..(Made + Batch)
  <2>1. 1..Made \subseteq T /\ 0..Made \subseteq 0..(Made + Batch)
    BY <1>2
  <2>2. tasks \in Seq(0..(Made + Batch)) /\ pool \in Seq(T) /\ more \in Seq(T)
    BY <1>2, <1>5, <2>1, SeqMonotonic
  <2>3. ToSet(pool) \cap ToSet(more) = {}
    <3>1. \A b \in ToSet(pool) : b \in 1..Made
      BY <1>2, Elements
    <3>2. ASSUME NEW b \in 1..Made
          PROVE  b \notin ToSet(more)
      <4>1. b \notin (Made + 1)..(Made + Batch)
        BY <1>2
      <4> QED
        BY <1>5, <4>1
    <3> QED
      BY <3>1, <3>2
  <2> HIDE DEF T, more
  <2>4. pool \o more \in Seq(T) /\ Len(pool \o more) = Len(pool) + Len(more)
    BY <2>2, ConcatProperties
  <2>5. ToSet(pool \o more) = ToSet(pool) \cup ToSet(more)
    BY <2>2, ConcatElements
  <2>6. IsInjective(pool \o more)
    BY <1>2, <1>5, <2>2, <2>3, ConcatDistinct
  <2>7. Len(pool) \in Nat /\ Len(<<>>) = 0
    BY <2>2, LenProperties, EmptySeq
  <2>8. pool \o more # <<>>
    BY <1>2, <1>5, <2>4, <2>7
  <2> QED
    BY <1>1, <2>2, <2>4, <2>5, <2>6, <2>8 DEF T
<1> HIDE DEF more, fresh
<1>7. InboundTypes'
  <2>1. /\ readerHand \in 0..(Made + Batch) /\ workerHand \in 0..(Made + Batch)
        /\ peak \in 0..(Made + Batch)
    BY <1>2 DEF InboundTypes
  <2> QED
    BY <1>1, <1>2, <1>4, <1>6, <2>1 DEF InboundTypes, receiving
<1>8. OneHand'
  <2>1. /\ ToSet(pool) \cup Hands \cup (ToSet(tasks) \ {0}) = 1..Made
        /\ Hands \cap ToSet(tasks) = {} /\ IsInjective(tasks)
        /\ ToSet(pool) \cap (Hands \cup ToSet(tasks)) = {}
        /\ readerHand = workerHand => workerHand = 0
        /\ Hands' = Hands /\ tasks' = tasks
    BY <1>1 DEF InboundInv, OneHand, Hands
  <2>2. \A b \in Hands \cup ToSet(tasks) : b \in 0..Made
    BY <1>2, Elements DEF Hands, InboundTypes
  <2>3. ToSet(pool') \cap (Hands \cup ToSet(tasks)) = {}
    BY <1>2, <1>5, <1>6, <2>1, <2>2
  <2>4. ToSet(pool') \cup Hands \cup (ToSet(tasks) \ {0}) = 1..(Made + Batch)
    <3>1. \A x : x \in 1..(Made + Batch) <=> x \in 1..Made \/ x \in (Made + 1)..(Made + Batch)
      BY <1>2
    <3> QED
      BY <1>5, <1>6, <2>1, <3>1
  <2> QED
    BY <1>1, <1>4, <1>6, <2>1, <2>3, <2>4 DEF OneHand
<1>9. GrowsWhenNeeded' /\ HandsBusy' /\ Lent'
  BY <1>1, <1>2, <1>4, <1>6 DEF InboundInv, GrowsWhenNeeded, HandsBusy, Lent
<1>10. OnlyReceived'
  <2>1. \A b \in 1..Made : Filled(b)' <=> Filled(b)
    BY <1>4 DEF Filled
  <2>2. \A b \in ToSet(tasks) : b # 0 => b \in 1..Made
    BY <1>2, Elements
  <2>3. workerHand # 0 => workerHand \in 1..Made
    BY <1>2 DEF InboundTypes
  <2> QED
    BY <1>1, <2>1, <2>2, <2>3 DEF InboundInv, OnlyReceived
<1>11. ClosingTypes' /\ WorkerUntold'
  BY <1>1 DEF InboundInv, ClosingTypes, WorkerUntold, closing
<1> QED
  BY <1>7, <1>8, <1>9, <1>10, <1>11 DEF InboundInv

(* The bytes of a buffer that was filled.                                  *)
LEMMA FilledBytes ==
    ASSUME InboundTypes, NEW b \in 1..Made, Filled(b)
    PROVE  /\ content[b].limit \in 0..BufferSize
           /\ Rest(content[b]) \in Seq(1..load[1])
           /\ Len(Rest(content[b])) = content[b].limit
           /\ \A k \in 1..content[b].limit : Rest(content[b])[k] = content[b].data[k]
<1> DEFINE S == 1..load[1]
           c == content[b]
<1>1. content \in Seq(Buffers(S)) /\ b \in 1..Len(content)
  BY DEF InboundTypes, Made
<1>2. c \in Buffers(S)
  <2> HIDE DEF S
  <2> QED
    BY <1>1, ElementOfSeq
<1>3. /\ c.position = 0 /\ \A i \in 1..c.limit : c.data[i] # 0
  BY DEF Filled
<1> HIDE DEF c
<1>4. /\ c.limit \in 0..BufferSize /\ c.position <= c.limit
      /\ \A i \in 1..c.limit : c.data[i] \in S
  <2> HIDE DEF S
  <2>1. c.limit \in 0..BufferSize /\ \A i \in 1..BufferSize : c.data[i] \in S \cup {0}
    BY <1>2, BufferIs
  <2>2. \A i \in 1..c.limit : i \in 1..BufferSize
    BY <2>1
  <2> QED
    BY <1>3, <2>1, <2>2
<1>5. /\ Len(Rest(c)) = c.limit - c.position
      /\ \A k \in 1..(c.limit - c.position) : Rest(c)[k] = c.data[c.position + k]
  <2> HIDE DEF S
  <2> QED
    BY <1>2, <1>4, RestElements
<1>6. Rest(c) \in Seq(S)
  <2> HIDE DEF S
  <2>1. \A i \in 1..c.limit : c.data[i] \in S
    BY <1>4
  <2>2. Rest(c) = SubSeq(c.data, 1, c.limit)
    BY <1>3 DEF Rest
  <2>3. 1 \in Int /\ c.limit \in Int
    BY <1>4
  <2>4. SubSeq(c.data, 1, c.limit) \in Seq(S)
    BY <2>1, <2>3, SubSeqProperties
  <2> QED
    BY <2>2, <2>4
<1>7. /\ Len(Rest(c)) = c.limit
      /\ \A k \in 1..c.limit : Rest(c)[k] = c.data[k]
  BY <1>3, <1>4, <1>5
<1> QED
  BY <1>4, <1>6, <1>7 DEF c

(* What one buffer is given leaves the others as they are.                 *)
LEMMA OneBufferSet ==
    ASSUME InboundTypes, NEW b \in 1..Made, NEW new \in Buffers(1..load[1]),
           content' = [content EXCEPT ![b] = new]
    PROVE  /\ content' \in Seq(Buffers(1..load[1])) /\ Made' = Made
           /\ content'[b] = new
           /\ \A c \in (1..Made) \ {b} : content'[c] = content[c]
<1> DEFINE T == Buffers(1..load[1])
<1>1. content \in Seq(T) /\ b \in 1..Len(content) /\ new \in T
  BY DEF InboundTypes, Made
<1> HIDE DEF T
<1>2. /\ content' \in Seq(T) /\ Len(content') = Len(content)
      /\ \A j \in 1..Len(content) : content'[j] = IF j = b THEN new ELSE content[j]
  BY <1>1, ExceptSeq
<1> QED
  BY <1>1, <1>2 DEF T, Made

LEMMA InboundCopies == InboundInv /\ Copy => InboundInv'
<1> SUFFICES ASSUME InboundInv, Copy PROVE InboundInv'
  OBVIOUS
<1> DEFINE new == BufferCopy(BufferFlip(readBuffer))
           S == 1..load[1]
<1>1. /\ readerAt = "copy" /\ readerAt' = "offer"
      /\ content' = [content EXCEPT ![readerHand] = new]
      /\ readBuffer' = NewBuffer
      /\ UNCHANGED <<load, closing, receiving, readerHand, pool, emptied, peak, tasks, workerAt,
                     workerHand, delivered>>
  BY DEF Copy, MoveReader, BufferReset
<1>2. InboundTypes /\ readerHand \in 1..Made /\ readBuffer \in Buffers(S)
  BY <1>1 DEF InboundInv, InboundTypes, HandsBusy
<1>3. /\ new \in Buffers(S) /\ new.position = 0 /\ new.limit = readBuffer.position
      /\ \A i \in 1..readBuffer.position : new.data[i] = readBuffer.data[i]
  <2>1. new = BufferCopy(BufferFlip(readBuffer))
    OBVIOUS
  <2> HIDE DEF S, new
  <2> QED
    BY <1>2, <2>1, CopyOf
<1> HIDE DEF new
<1>4. /\ content' \in Seq(Buffers(S)) /\ Made' = Made
      /\ content'[readerHand] = new
      /\ \A c \in (1..Made) \ {readerHand} : content'[c] = content[c]
  BY <1>1, <1>2, <1>3, OneBufferSet
<1>5. InboundTypes'
  BY <1>1, <1>2, <1>4, NewBufferIs DEF InboundTypes, receiving
<1>6. OneHand' /\ GrowsWhenNeeded' /\ HandsBusy' /\ Lent'
  BY <1>1, <1>4 DEF InboundInv, OneHand, Hands, GrowsWhenNeeded, HandsBusy, Lent
<1>7. OnlyReceived'
  <2>1. \A b \in (1..Made) \ {readerHand} : Filled(b)' <=> Filled(b)
    BY <1>4 DEF Filled
  <2>2. \A b \in ToSet(tasks) : b # 0 => b \in (1..Made) \ {readerHand}
    BY <1>2, Elements DEF InboundInv, OneHand, Hands
  <2>3. workerHand # 0 => workerHand \in (1..Made) \ {readerHand}
    BY <1>2 DEF InboundInv, InboundTypes, OneHand
  <2>4. Filled(readerHand)'
    BY <1>1, <1>3, <1>4 DEF Filled, InboundInv, OnlyReceived
  <2>5. readBuffer'.limit = BufferSize /\ \A i \in 1..readBuffer'.position : readBuffer'.data[i] # 0
    BY <1>1, NewBufferIs
  <2> QED
    BY <1>1, <2>1, <2>2, <2>3, <2>4, <2>5 DEF InboundInv, OnlyReceived
<1>8. ClosingTypes' /\ WorkerUntold'
  BY <1>1 DEF InboundInv, ClosingTypes, WorkerUntold, closing
<1> QED
  BY <1>5, <1>6, <1>7, <1>8 DEF InboundInv

LEMMA InboundOffers == InboundInv /\ Offer => InboundInv'
<1> SUFFICES ASSUME InboundInv, Offer PROVE InboundInv'
  OBVIOUS
<1>1. /\ readerAt = "offer" /\ readerAt' = "poll" /\ readerHand' = 0
      /\ tasks' = Append(tasks, readerHand)
      /\ UNCHANGED <<load, closing, receiving, readBuffer, pool, emptied, content, peak,
                     workerAt, workerHand, delivered>>
  BY DEF Offer, pooled
<1>2. InboundTypes /\ readerHand \in 1..Made /\ tasks \in Seq(0..Made)
  BY <1>1 DEF InboundInv, InboundTypes, HandsBusy
<1>3. /\ readerHand \in Hands /\ readerHand # workerHand /\ readerHand # 0
      /\ Hands \cap ToSet(tasks) = {} /\ IsInjective(tasks)
  BY <1>2 DEF InboundInv, OneHand, Hands
<1>4. /\ tasks' \in Seq(0..Made) /\ ToSet(tasks') = ToSet(tasks) \cup {readerHand}
      /\ IsInjective(tasks')
  <2> DEFINE T == 0..Made
  <2>1. tasks \in Seq(T) /\ readerHand \in T /\ readerHand \notin ToSet(tasks)
    BY <1>2, <1>3
  <2> HIDE DEF T
  <2>2. /\ Append(tasks, readerHand) \in Seq(T)
        /\ ToSet(Append(tasks, readerHand)) = ToSet(tasks) \cup {readerHand}
    BY <2>1, AppendProperties, AppendElements
  <2>3. IsInjective(Append(tasks, readerHand))
    BY <1>3, <2>1, AppendDistinct
  <2> QED
    BY <1>1, <2>2, <2>3 DEF T
<1>5. InboundTypes'
  BY <1>1, <1>2, <1>4 DEF InboundTypes, Made, receiving
<1>6. OneHand'
  <2>1. /\ ToSet(pool) \cup Hands \cup (ToSet(tasks) \ {0}) = 1..Made
        /\ ToSet(pool) \cap (Hands \cup ToSet(tasks)) = {}
        /\ IsInjective(pool)
    BY DEF InboundInv, OneHand
  <2>2. Hands = Hands' \cup {readerHand} /\ readerHand \notin Hands' /\ Hands' \subseteq Hands
    BY <1>1, <1>3 DEF Hands
  <2>3. /\ ToSet(pool) \cup Hands' \cup (ToSet(tasks') \ {0}) = 1..Made
        /\ Hands' \cap ToSet(tasks') = {}
        /\ ToSet(pool) \cap (Hands' \cup ToSet(tasks')) = {}
    BY <1>3, <1>4, <2>1, <2>2
  <2>4. readerHand' = workerHand' => workerHand' = 0
    BY <1>1
  <2> QED
    BY <1>1, <1>4, <2>1, <2>3, <2>4 DEF OneHand, Made
<1>7. GrowsWhenNeeded' /\ HandsBusy' /\ Lent'
  BY <1>1 DEF InboundInv, GrowsWhenNeeded, HandsBusy, Lent, Made
<1>8. OnlyReceived'
  BY <1>1, <1>4 DEF InboundInv, OnlyReceived, Filled
<1>9. WorkerUntold'
  BY <1>1, <1>3, <1>4 DEF InboundInv, WorkerUntold, closing
<1>10. ClosingTypes'
  BY <1>1 DEF InboundInv, ClosingTypes, closing
<1> QED
  BY <1>5, <1>6, <1>7, <1>8, <1>9, <1>10 DEF InboundInv

(* The first task is a buffer.                                             *)
LEMMA InboundBegins ==
    ASSUME InboundInv, WorkerTakes, Head(tasks) # 0
    PROVE  InboundInv'
<1> DEFINE h == Head(tasks)
<1>1. /\ workerAt = "idle" /\ workerAt' = "process" /\ workerHand' = h
      /\ tasks # <<>> /\ tasks' = Tail(tasks)
      /\ UNCHANGED <<load, closing, receiving, reading, pooled, delivered>>
  BY DEF WorkerTakes, pooled
<1>2. InboundTypes /\ tasks \in Seq(0..Made) /\ workerHand = 0 /\ IsInjective(tasks)
  BY <1>1 DEF InboundInv, InboundTypes, HandsBusy, OneHand
<1>3. /\ tasks' \in Seq(0..Made) /\ h \in 0..Made
      /\ ToSet(tasks) = {h} \cup ToSet(tasks')
      /\ h \notin ToSet(tasks') /\ IsInjective(tasks')
  <2> DEFINE T == 0..Made
  <2>1. tasks \in Seq(T)
    BY <1>2
  <2> HIDE DEF T
  <2>2. Tail(tasks) \in Seq(T) /\ h \in T
    BY <1>1, <2>1, TailProperties
  <2>3. ToSet(tasks) = {h} \cup ToSet(Tail(tasks))
    BY <1>1, <2>1, HeadTailElements
  <2>4. IsInjective(Tail(tasks)) /\ h \notin ToSet(Tail(tasks))
    BY <1>1, <1>2, <2>1, TailDistinct
  <2> QED
    BY <1>1, <2>2, <2>3, <2>4 DEF T
<1>4. h # 0
  OBVIOUS
<1> HIDE DEF h
<1>5. InboundTypes'
  BY <1>1, <1>2, <1>3 DEF InboundTypes, Made, receiving, reading, pooled
<1>6. OneHand'
  <2>1. /\ ToSet(pool) \cup Hands \cup (ToSet(tasks) \ {0}) = 1..Made
        /\ ToSet(pool) \cap (Hands \cup ToSet(tasks)) = {}
        /\ Hands \cap ToSet(tasks) = {}
        /\ IsInjective(pool)
    BY DEF InboundInv, OneHand
  <2>2. Hands = {readerHand} \ {0} /\ Hands' = {readerHand, h} \ {0}
    BY <1>1, <1>2 DEF Hands, reading
  <2>3. Hands' = Hands \cup {h} /\ h \notin Hands
    BY <1>3, <1>4, <2>1, <2>2
  <2>4. /\ ToSet(pool) \cup Hands' \cup (ToSet(tasks') \ {0}) = 1..Made
        /\ Hands' \cap ToSet(tasks') = {}
        /\ ToSet(pool) \cap (Hands' \cup ToSet(tasks')) = {}
    BY <1>3, <1>4, <2>1, <2>3
  <2>5. readerHand # h
    BY <1>4, <2>2, <2>3
  <2> QED
    BY <1>1, <1>3, <2>1, <2>4, <2>5 DEF OneHand, Made, reading, pooled
<1>7. GrowsWhenNeeded' /\ HandsBusy' /\ Lent'
  BY <1>1, <1>4 DEF InboundInv, GrowsWhenNeeded, HandsBusy, Lent, Made, reading, pooled
<1>8. OnlyReceived'
  BY <1>1, <1>3, <1>4 DEF InboundInv, OnlyReceived, Filled, reading, pooled
<1>9. WorkerUntold'
  BY <1>1, <1>3 DEF InboundInv, WorkerUntold, closing
<1>10. ClosingTypes'
  BY <1>1 DEF InboundInv, ClosingTypes, closing
<1> QED
  BY <1>5, <1>6, <1>7, <1>8, <1>9, <1>10 DEF InboundInv

(* It is the CLOSE event: RemoveAll releases the buffers that are left.    *)
LEMMA InboundForgets ==
    ASSUME InboundInv, WorkerTakes, Head(tasks) = 0
    PROVE  InboundInv'
<1> DEFINE rest == Tail(tasks)
           S == Buffers(1..load[1])
<1>1. /\ workerAt = "idle" /\ workerAt' = "idle" /\ workerHand' = workerHand
      /\ tasks # <<>> /\ tasks' = <<>>
      /\ pool' = pool \o rest
      /\ content' = [i \in 1..Made |-> IF i \in ToSet(rest) THEN NewBuffer ELSE content[i]]
      /\ UNCHANGED <<load, closing, receiving, reading, emptied, peak, delivered>>
  BY DEF WorkerTakes, BufferReset
<1>2. /\ InboundTypes /\ tasks \in Seq(0..Made) /\ pool \in Seq(1..Made) /\ content \in Seq(S)
      /\ workerHand = 0 /\ IsInjective(tasks) /\ IsInjective(pool) /\ Made \in Nat
  BY <1>1, LoadIs DEF InboundInv, InboundTypes, HandsBusy, OneHand
<1>3. /\ rest \in Seq(0..Made)
      /\ ToSet(tasks) = {0} \cup ToSet(rest)
      /\ 0 \notin ToSet(rest) /\ IsInjective(rest)
  <2> DEFINE T == 0..Made
  <2>1. tasks \in Seq(T)
    BY <1>2
  <2> HIDE DEF T
  <2>2. Tail(tasks) \in Seq(T)
    BY <1>1, <2>1, TailProperties
  <2>3. ToSet(tasks) = {0} \cup ToSet(Tail(tasks))
    BY <1>1, <2>1, HeadTailElements
  <2>4. IsInjective(Tail(tasks)) /\ 0 \notin ToSet(Tail(tasks))
    BY <1>1, <1>2, <2>1, TailDistinct
  <2> QED
    BY <2>2, <2>3, <2>4 DEF T
<1> HIDE DEF rest
<1>4. rest \in Seq(1..Made)
  <2>1. /\ Len(rest) \in Nat /\ rest \in [1..Len(rest) -> 0..Made] /\ DOMAIN rest = 1..Len(rest)
    BY <1>3, LenProperties
  <2>2. ASSUME NEW i \in 1..Len(rest)
        PROVE  rest[i] \in 1..Made
    <3>1. rest[i] \in ToSet(rest)
      BY <2>1 DEF ToSet
    <3>2. rest[i] # 0
      BY <1>3, <3>1
    <3>3. rest[i] \in 0..Made
      BY <2>1
    <3>4. Made \in Nat
      BY <1>2
    <3> QED
      BY <3>2, <3>3, <3>4
  <2>3. rest \in [1..Len(rest) -> 1..Made]
    BY <2>1, <2>2
  <2> QED
    BY <2>1, <2>3, RewrittenProperties
<1>5. /\ ToSet(pool) \cup Hands \cup ToSet(rest) = 1..Made
      /\ ToSet(pool) \cap (Hands \cup ToSet(rest)) = {}
      /\ Hands \cap ToSet(rest) = {}
      /\ Hands' = Hands
  BY <1>1, <1>3 DEF InboundInv, OneHand, Hands, reading
<1>6. /\ pool' \in Seq(1..Made) /\ ToSet(pool') = ToSet(pool) \cup ToSet(rest)
      /\ IsInjective(pool')
  <2> DEFINE T == 1..Made
  <2>1. pool \in Seq(T) /\ rest \in Seq(T) /\ ToSet(pool) \cap ToSet(rest) = {}
    BY <1>2, <1>4, <1>5
  <2> HIDE DEF T
  <2>2. pool \o rest \in Seq(T)
    BY <2>1, ConcatProperties
  <2>3. ToSet(pool \o rest) = ToSet(pool) \cup ToSet(rest)
    BY <2>1, ConcatElements
  <2>4. IsInjective(pool \o rest)
    BY <1>2, <1>3, <2>1, ConcatDistinct
  <2> QED
    BY <1>1, <2>2, <2>3, <2>4 DEF T
<1>7. /\ content' \in Seq(S) /\ Made' = Made
      /\ \A b \in (1..Made) \ ToSet(rest) : content'[b] = content[b]
  <2>1. \A b \in 1..Made : content[b] \in S
    <3> HIDE DEF S
    <3> QED
      BY <1>2, ElementOfSeq DEF Made
  <2>2. NewBuffer \in S
    BY NewBufferIs
  <2> HIDE DEF S
  <2>3. content' \in [1..Made -> S]
    BY <1>1, <2>1, <2>2
  <2>4. content' \in Seq(S) /\ Len(content') = Made
    BY <1>2, <2>3, RewrittenProperties
  <2> QED
    BY <1>1, <2>4 DEF Made
<1>8. InboundTypes'
  <2>1. tasks' \in Seq(0..Made)
    BY <1>1
  <2> QED
    BY <1>1, <1>2, <1>6, <1>7, <2>1 DEF InboundTypes, receiving, reading
<1>9. ToSet(tasks') = {} /\ IsInjective(tasks')
  BY <1>1, ShortElements DEF IsInjective
<1>10. OneHand'
  <2>1. readerHand' = workerHand' => workerHand' = 0
    BY <1>1, <1>2
  <2> QED
    BY <1>5, <1>6, <1>7, <1>9, <2>1 DEF OneHand
<1>11. Lent'
  <2>1. pool # <<>> => pool' # <<>>
    <3>1. Len(pool) \in Nat /\ Len(rest) \in Nat /\ Len(pool \o rest) = Len(pool) + Len(rest)
      BY <1>2, <1>4, ConcatProperties, LenProperties
    <3>2. pool # <<>> => Len(pool) # 0
      BY <1>2, EmptySeq
    <3> QED
      BY <1>1, <3>1, <3>2
  <2> QED
    BY <1>1, <1>7, <2>1 DEF InboundInv, Lent, reading
<1>12. GrowsWhenNeeded' /\ HandsBusy'
  BY <1>1, <1>7 DEF InboundInv, GrowsWhenNeeded, HandsBusy, reading
<1>13. OnlyReceived'
  <2>1. readerAt = "offer" => readerHand \in (1..Made) \ ToSet(rest)
    BY <1>2, <1>5 DEF InboundInv, InboundTypes, HandsBusy, Hands
  <2>2. \A b \in (1..Made) \ ToSet(rest) : Filled(b)' <=> Filled(b)
    BY <1>7 DEF Filled
  <2> QED
    BY <1>1, <1>2, <1>9, <2>1, <2>2 DEF InboundInv, OnlyReceived, reading
<1>14. ClosingTypes' /\ WorkerUntold'
  BY <1>1, <1>9 DEF InboundInv, ClosingTypes, WorkerUntold, closing
<1> QED
  BY <1>8, <1>10, <1>11, <1>12, <1>13, <1>14 DEF InboundInv

LEMMA InboundProcesses == InboundInv /\ Process => InboundInv'
<1> SUFFICES ASSUME InboundInv, Process PROVE InboundInv'
  OBVIOUS
<1>1. /\ workerAt = "process" /\ workerAt' = "release"
      /\ delivered' = delivered \o Rest(content[workerHand])
      /\ PoolStays /\ UNCHANGED <<receiving, readBuffer, readerAt, emptied, peak>>
  BY DEF Process, PoolStays, reading, pooled
<1>2. InboundTypes /\ workerHand \in 1..Made /\ Filled(workerHand)
  BY <1>1 DEF InboundInv, InboundTypes, HandsBusy, OnlyReceived
<1>3. delivered' \in Seq(1..load[1])
  <2> DEFINE S == 1..load[1]
  <2>1. delivered \in Seq(S) /\ Rest(content[workerHand]) \in Seq(S)
    BY <1>2, FilledBytes DEF InboundTypes
  <2> HIDE DEF S
  <2>2. delivered' \in Seq(S)
    BY <1>1, <2>1, ConcatProperties
  <2> QED
    BY <2>2 DEF S
<1>4. InboundTypes'
  BY <1>1, <1>2, <1>3 DEF InboundTypes, Made, PoolStays, receiving
<1>5. HandsBusy' /\ Lent' /\ OnlyReceived'
  BY <1>1 DEF InboundInv, HandsBusy, Lent, OnlyReceived, Filled, Made, PoolStays
<1>6. peak' \in Nat /\ peak <= peak'
  BY <1>1, <1>2, LoadIs DEF InboundTypes
<1> QED
  BY <1>1, <1>4, <1>5, <1>6, PoolUnmoved

(* ReleaseBuffer                                                           *)
LEMMA InboundReleases == InboundInv /\ Release => InboundInv'
<1> SUFFICES ASSUME InboundInv, Release PROVE InboundInv'
  OBVIOUS
<1>1. /\ workerAt = "release" /\ workerAt' = "idle" /\ workerHand' = 0
      /\ content' = [content EXCEPT ![workerHand] = NewBuffer]
      /\ pool' = Append(pool, workerHand)
      /\ UNCHANGED <<load, closing, receiving, reading, emptied, peak, tasks, delivered>>
  BY DEF Release, BufferReset
<1>2. /\ InboundTypes /\ workerHand \in 1..Made /\ pool \in Seq(1..Made) /\ IsInjective(pool)
  BY <1>1 DEF InboundInv, InboundTypes, HandsBusy, OneHand
<1>3. /\ content' \in Seq(Buffers(1..load[1])) /\ Made' = Made
      /\ \A c \in (1..Made) \ {workerHand} : content'[c] = content[c]
  <2>1. NewBuffer \in Buffers(1..load[1])
    BY NewBufferIs
  <2> QED
    BY <1>1, <1>2, <2>1, OneBufferSet
<1>4. /\ ToSet(pool) \cup Hands \cup (ToSet(tasks) \ {0}) = 1..Made
      /\ ToSet(pool) \cap (Hands \cup ToSet(tasks)) = {}
      /\ Hands \cap ToSet(tasks) = {} /\ IsInjective(tasks)
      /\ readerHand # workerHand /\ workerHand \in Hands
  BY <1>2 DEF InboundInv, OneHand, Hands
<1>5. Hands = Hands' \cup {workerHand} /\ workerHand \notin Hands' /\ Hands' \subseteq Hands
  BY <1>1, <1>2, <1>4 DEF Hands, reading
<1>6. /\ pool' \in Seq(1..Made) /\ ToSet(pool') = ToSet(pool) \cup {workerHand}
      /\ IsInjective(pool') /\ pool' # <<>>
  <2> DEFINE T == 1..Made
  <2>1. pool \in Seq(T) /\ workerHand \in T /\ workerHand \notin ToSet(pool)
    BY <1>2, <1>4
  <2> HIDE DEF T
  <2>2. /\ Append(pool, workerHand) \in Seq(T)
        /\ ToSet(Append(pool, workerHand)) = ToSet(pool) \cup {workerHand}
        /\ Append(pool, workerHand) # <<>>
    BY <2>1, AppendProperties, AppendElements
  <2>3. IsInjective(Append(pool, workerHand))
    BY <1>2, <2>1, AppendDistinct
  <2> QED
    BY <1>1, <2>2, <2>3 DEF T
<1>7. InboundTypes'
  <2>1. workerHand' \in 0..Made
    BY <1>1, <1>2, LoadIs
  <2> QED
    BY <1>1, <1>2, <1>3, <1>6, <2>1 DEF InboundTypes, receiving, reading
<1>8. OneHand'
  <2>1. /\ ToSet(pool') \cup Hands' \cup (ToSet(tasks) \ {0}) = 1..Made
        /\ ToSet(pool') \cap (Hands' \cup ToSet(tasks)) = {}
        /\ Hands' \cap ToSet(tasks) = {}
    BY <1>4, <1>5, <1>6
  <2> QED
    BY <1>1, <1>3, <1>4, <1>6, <2>1 DEF OneHand
<1>9. GrowsWhenNeeded' /\ HandsBusy' /\ Lent'
  BY <1>1, <1>3, <1>6 DEF InboundInv, GrowsWhenNeeded, HandsBusy, Lent, reading
<1>10. OnlyReceived'
  <2>1. \A b \in (1..Made) \ {workerHand} : Filled(b)' <=> Filled(b)
    BY <1>3 DEF Filled
  <2>2. \A b \in ToSet(tasks) : b # 0 => b \in (1..Made) \ {workerHand}
    BY <1>2, <1>4, Elements
  <2>3. readerAt = "offer" => readerHand \in (1..Made) \ {workerHand}
    BY <1>2, <1>4 DEF InboundInv, InboundTypes, HandsBusy
  <2> QED
    BY <1>1, <2>1, <2>2, <2>3 DEF InboundInv, OnlyReceived, reading
<1>11. ClosingTypes' /\ WorkerUntold'
  BY <1>1 DEF InboundInv, ClosingTypes, WorkerUntold, closing
<1> QED
  BY <1>7, <1>8, <1>9, <1>10, <1>11 DEF InboundInv

(* The steps of the other side, and the closes.                            *)
Outbounds == UserAsks \/ AskToWrite \/ Writer
Closes == (\E force \in BOOLEAN : UserCloses(force)) \/ ReadFails \/ SetFlags \/ TellWriter

LEMMA OtherSteps ==
    ASSUME ClosingTypes, Outbounds \/ Closes
    PROVE  ClosingMoves /\ UNCHANGED <<load, inboundVars>>
<1>1. ASSUME NEW force \in BOOLEAN, UserCloses(force)
      PROVE  ClosingMoves /\ UNCHANGED <<load, inboundVars>>
  BY <1>1 DEF UserCloses, ClosingMoves
<1>2. CASE ReadFails
  BY <1>2, CloseMoves DEF ReadFails
<1>3. CASE TellWriter \/ SetFlags
  BY <1>3 DEF TellWriter, SetFlags, ClosingMoves, Settles, Tells
<1>4. CASE UserAsks \/ AskToWrite
  BY <1>4 DEF UserAsks, AskToWrite, ClosingMoves
<1>5. CASE WriterTakes \/ WriterForgets \/ WriteAgain
  BY <1>5 DEF WriterTakes, WriterForgets, WriteAgain, ClosingMoves
<1>7. CASE SendFails \/ WriterCloses
  BY <1>7, CloseMoves DEF SendFails, WriterCloses
<1>6. ASSUME NEW n, Produce(n) \/ Send(n)
      PROVE  ClosingMoves /\ UNCHANGED <<load, inboundVars>>
  BY <1>6 DEF Produce, Send, ClosingMoves
<1> QED
  BY <1>1, <1>2, <1>3, <1>4, <1>5, <1>6, <1>7 DEF Outbounds, Closes, Writer

LEMMA InboundStep == InboundInv /\ [Next]_vars => InboundInv'
<1> SUFFICES ASSUME InboundInv, [Next]_vars PROVE InboundInv'
  OBVIOUS
<1>1. CASE UNCHANGED vars
  BY <1>1, InboundStays DEF vars, ClosingMoves
<1>2. CASE Peer
  BY <1>2, InboundPeer
<1>3. CASE TellWorker
  BY <1>3, InboundTold
<1>4. CASE Outbounds \/ Closes
  BY <1>4, OtherSteps, InboundStays DEF InboundInv
<1>5. ASSUME NEW n \in 1..BufferSize, ReceiveData(n)
      PROVE  InboundInv'
  BY <1>5, InboundReceives
<1>6. CASE TestClosed
  BY <1>6, InboundTests
<1>7. CASE Allocate \/ AllocateAgain
  BY <1>7, InboundAllocates
<1>8. CASE Grow
  BY <1>8, InboundGrows
<1>9. CASE Copy
  BY <1>9, InboundCopies
<1>10. CASE Offer
  BY <1>10, InboundOffers
<1>11. CASE WorkerTakes
  BY <1>11, InboundBegins, InboundForgets
<1>12. CASE Process
  BY <1>12, InboundProcesses
<1>13. CASE Release
  BY <1>13, InboundReleases
<1> QED
  BY <1>1, <1>2, <1>3, <1>4, <1>5, <1>6, <1>7, <1>8, <1>9, <1>10, <1>11, <1>12, <1>13
     DEF Next, User, Tell, Reader, Worker, Outbounds, Closes

-----------------------------------------------------------------------------
(* 5. The outbound side: what is written, and the calls of the handler.     *)

LEMMA OutboundAre ==
    ASSUME OutboundInv
    PROVE  /\ load[2] \in Nat /\ asked \in Nat /\ calls \in Nat /\ put \in Nat
           /\ Outbound \in Nat /\ Len(wire) \in Nat
           /\ writeBuffer.position \in 0..BufferSize /\ writeBuffer.limit \in 0..BufferSize
           /\ BufferHasRemaining(writeBuffer) <=> writeBuffer.position < writeBuffer.limit
           /\ BufferRemaining(writeBuffer) = writeBuffer.limit - writeBuffer.position
           /\ writeBuffer.position <= writeBuffer.limit
           /\ ~BufferHasRemaining(writeBuffer) => writeBuffer.position = writeBuffer.limit
<1>1. load \in Nat \X Nat
  BY DEF OutboundInv
<1>3. Outbound \in Nat
  <2>1. Outbound = Cardinality(PlacesOf(outbound, "OUTBOUND"))
    BY DEF Outbound, PlacesOf
  <2>2. outbound \in Seq({"OUTBOUND", "CLOSE"})
    BY DEF OutboundInv, OutboundTypes
  <2> QED
    BY <2>1, <2>2, PlacesFinite
<1>2. /\ Len(wire) \in Nat
      /\ writeBuffer.position \in 0..BufferSize /\ writeBuffer.limit \in 0..BufferSize
      /\ writeBuffer.position <= writeBuffer.limit
  BY LenProperties, BufferIs DEF OutboundInv, OutboundTypes
<1> QED
  BY <1>1, <1>2, <1>3 DEF OutboundInv, OutboundTypes, BufferHasRemaining, BufferRemaining

LEMMA OutboundInit == Init => OutboundInv
<1> SUFFICES ASSUME Init PROVE OutboundInv
  OBVIOUS
<1>1. load \in Loads /\ load \in Nat \X Nat /\ load[2] \in Nat
  BY DEF Init
<1>2. /\ writeBuffer \in Buffers(Nat)
      /\ writeBuffer.position = 0 /\ writeBuffer.limit = 0
  <2>1. /\ NewBuffer \in Buffers(Nat) /\ NewBuffer.position = 0
    BY NewBufferIs
  <2>2. writeBuffer = [NewBuffer EXCEPT !.limit = 0]
    BY DEF Init, BufferLimit
  <2>3. 0 \in 0..BufferSize
    OBVIOUS
  <2> QED
    BY <2>1, <2>2, <2>3, FieldSet
<1>3. /\ outbound = <<>> /\ wire = <<>> /\ Len(outbound) = 0 /\ Len(wire) = 0
      /\ outbound \in Seq({"OUTBOUND", "CLOSE"}) /\ wire \in Seq(Nat)
      /\ ToSet(outbound) = {}
  BY EmptySeq, ShortElements DEF Init
<1>4. OutboundTypes
  <2>1. asked \in 0..load[2] /\ writeBuffer.position <= writeBuffer.limit
    BY <1>1, <1>2 DEF Init
  <2>2. writeBuffer \in Buffers(Nat) /\ outbound \in Seq({"OUTBOUND", "CLOSE"}) /\ wire \in Seq(Nat)
    BY <1>2, <1>3
  <2> QED
    BY <2>1, <2>2 DEF Init, OutboundTypes
<1>5. Wrote /\ Counted
  <2>1. Wrote
    BY <1>2, <1>3 DEF Init, Wrote, BufferHasRemaining
  <2>2. Outbound = 0
    <3>1. Outbound = Cardinality(PlacesOf(outbound, "OUTBOUND"))
      BY DEF Outbound, PlacesOf
    <3> QED
      BY <1>3, <3>1, PlacesFinite
  <2>3. Counted
    BY <1>2, <2>2 DEF Init, Counted, Due, BufferHasRemaining
  <2> QED
    BY <2>1, <2>3
<1>6. ClosingTypes /\ WriterUntold
  BY <1>3 DEF Init, ClosingTypes, WriterUntold
<1> QED
  BY <1>1, <1>4, <1>5, <1>6 DEF Init, OutboundInv

LEMMA OutboundCounted ==
    ASSUME OutboundInv
    PROVE  /\ Outbound = Cardinality(PlacesOf(outbound, "OUTBOUND"))
           /\ outbound \in Seq({"OUTBOUND", "CLOSE"})
BY DEF Outbound, PlacesOf, OutboundInv, OutboundTypes

(* What enters the writer's queue, ...                                     *)
LEMMA EventAdded ==
    ASSUME OutboundInv, NEW e \in {"OUTBOUND", "CLOSE"}, outbound' = Append(outbound, e)
    PROVE  /\ outbound' \in Seq({"OUTBOUND", "CLOSE"})
           /\ ToSet(outbound') = ToSet(outbound) \cup {e}
           /\ Outbound' = Outbound + (IF e = "OUTBOUND" THEN 1 ELSE 0)
<1> DEFINE E == {"OUTBOUND", "CLOSE"}
           m == "OUTBOUND"
<1>1. outbound \in Seq(E) /\ e \in E
  BY OutboundCounted
<1>2. Outbound' = Cardinality(PlacesOf(Append(outbound, e), m))
  BY DEF Outbound, PlacesOf
<1>3. Outbound = Cardinality(PlacesOf(outbound, m))
  BY OutboundCounted
<1> HIDE DEF E
<1>4. Append(outbound, e) \in Seq(E) /\ ToSet(Append(outbound, e)) = ToSet(outbound) \cup {e}
  BY <1>1, AppendProperties, AppendElements
<1>5. outbound' \in Seq(E) /\ ToSet(outbound') = ToSet(outbound) \cup {e}
  BY <1>4
<1>6. Outbound' = Outbound + (IF e = m THEN 1 ELSE 0)
  <2> HIDE DEF m
  <2> QED
    BY <1>1, <1>2, <1>3, PlacesAppended
<1> QED
  BY <1>5, <1>6 DEF E

(* ... and the first event that leaves it.                                 *)
LEMMA EventTaken ==
    ASSUME OutboundInv, outbound # <<>>, outbound' = Tail(outbound)
    PROVE  /\ outbound' \in Seq({"OUTBOUND", "CLOSE"})
           /\ ToSet(outbound) = {Head(outbound)} \cup ToSet(outbound')
           /\ Outbound' = Outbound - (IF Head(outbound) = "OUTBOUND" THEN 1 ELSE 0)
<1> DEFINE E == {"OUTBOUND", "CLOSE"}
           m == "OUTBOUND"
<1>1. outbound \in Seq(E)
  BY OutboundCounted
<1>2. Outbound' = Cardinality(PlacesOf(Tail(outbound), m))
  BY DEF Outbound, PlacesOf
<1>3. Outbound = Cardinality(PlacesOf(outbound, m))
  BY OutboundCounted
<1> HIDE DEF E
<1>4. Tail(outbound) \in Seq(E) /\ ToSet(outbound) = {Head(outbound)} \cup ToSet(Tail(outbound))
  BY <1>1, TailProperties, HeadTailElements
<1>5. outbound' \in Seq(E) /\ ToSet(outbound) = {Head(outbound)} \cup ToSet(outbound')
  BY <1>4
<1>6. Outbound' = Outbound - (IF Head(outbound) = m THEN 1 ELSE 0)
  <2> HIDE DEF m
  <2>1. Cardinality(PlacesOf(outbound, m)) =
            Cardinality(PlacesOf(Tail(outbound), m)) + (IF Head(outbound) = m THEN 1 ELSE 0)
    BY <1>1, PlacesOfTail
  <2>2. Cardinality(PlacesOf(Tail(outbound), m)) \in Nat
    BY <1>4, PlacesFinite
  <2> QED
    BY <1>2, <1>3, <2>1, <2>2
<1> QED
  BY <1>5, <1>6 DEF E

LEMMA OutboundSame == UNCHANGED outbound => UNCHANGED Outbound
BY DEF Outbound

LEMMA OutboundAsks == OutboundInv /\ (UserAsks \/ AskToWrite) => OutboundInv'
<1> SUFFICES ASSUME OutboundInv, UserAsks \/ AskToWrite PROVE OutboundInv'
  OBVIOUS
<1>1. CASE UserAsks
  <2>1. /\ asking' = TRUE /\ asked < load[2]
        /\ UNCHANGED <<load, closing, asked, outbound, writing>>
    BY <1>1 DEF UserAsks
  <2> QED
    BY <2>1, OutboundSame
       DEF OutboundInv, ClosingTypes, WriterUntold, OutboundTypes, Wrote, Counted, Due,
           BufferHasRemaining, closing, writing
<1>2. CASE AskToWrite
  <2>1. /\ asking /\ asking' = FALSE /\ asked' = asked + 1
        /\ outbound' = Append(outbound, "OUTBOUND")
        /\ UNCHANGED <<load, closing, writing>>
    BY <1>2 DEF AskToWrite
  <2>2. /\ outbound' \in Seq({"OUTBOUND", "CLOSE"}) /\ Outbound' = Outbound + 1
        /\ ToSet(outbound') = ToSet(outbound) \cup {"OUTBOUND"}
    BY <2>1, EventAdded
  <2>3. asked' \in 0..load[2]
    BY <2>1, OutboundAre DEF OutboundInv
  <2>4. load' \in Loads /\ OutboundTypes'
    BY <2>1, <2>2, <2>3 DEF OutboundInv, OutboundTypes, writing
  <2>5. Wrote'
    BY <2>1 DEF OutboundInv, Wrote, BufferHasRemaining, writing
  <2>6. Counted'
    <3> DEFINE extra == IF writerAt \in {"idle", "close"} /\ BufferHasRemaining(writeBuffer) THEN 1
                        ELSE IF writerAt = "produce" THEN -1 ELSE 0
    <3>1. /\ extra \in Int /\ extra' = extra /\ closed' = closed /\ calls' = calls
          /\ writerAt' = writerAt
      BY <2>1 DEF BufferHasRemaining, closing, writing
    <3>2. Due = asked + extra /\ Due' = asked' + extra'
      BY DEF Due
    <3> HIDE DEF extra
    <3>3. asked \in Nat /\ calls \in Nat /\ Outbound \in Nat
      BY OutboundAre
    <3>4. Due' = Due + 1 /\ Due \in Int
      BY <2>1, <3>1, <3>2, <3>3
    <3> QED
      BY <2>2, <3>1, <3>3, <3>4 DEF OutboundInv, Counted
  <2>7. ClosingTypes' /\ WriterUntold'
    BY <2>1, <2>2 DEF OutboundInv, ClosingTypes, WriterUntold, closing
  <2> QED
    BY <2>1, <2>4, <2>5, <2>6, <2>7 DEF OutboundInv
<1> QED
  BY <1>1, <1>2

LEMMA OutboundTold == OutboundInv /\ TellWriter => OutboundInv'
<1> SUFFICES ASSUME OutboundInv, TellWriter PROVE OutboundInv'
  OBVIOUS
<1>1. /\ toTell # <<>> /\ Head(toTell) = "writer" /\ Tells
      /\ outbound' = Append(outbound, "CLOSE")
      /\ UNCHANGED <<load, interest, writing>>
  BY DEF TellWriter, Tells
<1>2. toTell = <<"writer">> /\ toTell' = <<>> /\ closed /\ closed' /\ ClosingTypes'
  BY <1>1, ToldInTurn, ClosingMoved DEF OutboundInv, ClosingTypes, ClosingMoves, Tells
<1>3. outbound' \in Seq({"OUTBOUND", "CLOSE"}) /\ Outbound' = Outbound + 0
  BY <1>1, EventAdded
<1>4. /\ load' \in Loads /\ OutboundTypes' /\ Wrote'
      /\ asking' => asked' < load'[2]
  BY <1>1, <1>3 DEF OutboundInv, OutboundTypes, Wrote, BufferHasRemaining, interest, writing
<1>5. Counted'
  BY <1>1, <1>2, <1>3, OutboundAre
     DEF OutboundInv, Counted, Due, BufferHasRemaining, interest, writing
<1>6. WriterUntold'
  BY <1>2 DEF WriterUntold
<1> QED
  BY <1>2, <1>4, <1>5, <1>6 DEF OutboundInv

LEMMA OutboundTakes == OutboundInv /\ (WriterTakes \/ WriterForgets) => OutboundInv'
<1> SUFFICES ASSUME OutboundInv, WriterTakes \/ WriterForgets PROVE OutboundInv'
  OBVIOUS
<1>1. CASE WriterTakes
  <2>1. /\ writerAt = "idle" /\ outbound # <<>> /\ Head(outbound) = "OUTBOUND"
        /\ outbound' = Tail(outbound)
        /\ UNCHANGED <<load, closing, interest, writeBuffer, shut, calls, put, wire>>
    BY <1>1 DEF WriterTakes
  <2>2. /\ outbound' \in Seq({"OUTBOUND", "CLOSE"}) /\ Outbound' = Outbound - 1
        /\ ToSet(outbound') \subseteq ToSet(outbound)
    BY <2>1, EventTaken
  <2>3. /\ memorized' \in BOOLEAN
        /\ writerAt' \in {"send", "produce", "close"}
        /\ writerAt' = "send" => BufferHasRemaining(writeBuffer)
        /\ writerAt' = "produce" => ~BufferHasRemaining(writeBuffer)
        /\ writerAt' = "close" => ~canWrite
    BY <1>1 DEF WriterTakes, OutboundInv, OutboundTypes
  <2>4. load' \in Loads /\ OutboundTypes' /\ (asking' => asked' < load'[2])
    BY <2>1, <2>2, <2>3 DEF OutboundInv, OutboundTypes, interest
  <2>5. Wrote'
    BY <2>1, <2>3 DEF OutboundInv, Wrote, BufferHasRemaining
  <2>6. Counted'
    <3>0. asked \in Nat /\ calls \in Nat /\ Outbound \in Nat
      BY OutboundAre
    <3>1. /\ writerAt' = "close" => closed
          /\ closed' = closed /\ calls' = calls /\ asked' = asked
          /\ BufferHasRemaining(writeBuffer)' <=> BufferHasRemaining(writeBuffer)
      BY <2>1, <2>3 DEF OutboundInv, ClosingTypes, BufferHasRemaining, closing, interest
    <3>2. /\ calls + Outbound <= Due /\ (~closed => calls + Outbound = Due)
          /\ Due = asked + (IF BufferHasRemaining(writeBuffer) THEN 1 ELSE 0)
      BY <2>1 DEF OutboundInv, Counted, Due
    <3>3. CASE writerAt' = "send"
      <4>1. Due' = asked
        BY <3>0, <3>1, <3>3 DEF Due
      <4>2. Due = asked + 1
        BY <2>3, <3>2, <3>3
      <4> QED
        BY <2>2, <3>0, <3>1, <3>2, <3>3, <4>1, <4>2 DEF Counted
    <3>4. CASE writerAt' = "produce"
      <4>1. Due' = asked - 1
        BY <2>3, <3>0, <3>1, <3>4 DEF Due
      <4>2. Due = asked
        BY <2>3, <3>0, <3>2, <3>4
      <4> QED
        BY <2>2, <3>0, <3>1, <3>2, <3>4, <4>1, <4>2 DEF Counted
    <3>5. CASE writerAt' = "close"
      <4>1. Due' = Due /\ Due \in Int
        BY <3>0, <3>1, <3>2, <3>5 DEF Due
      <4> QED
        BY <2>2, <3>0, <3>1, <3>2, <3>5, <4>1 DEF Counted
    <3> QED
      BY <2>3, <3>3, <3>4, <3>5
  <2>7. ClosingTypes' /\ WriterUntold'
    BY <2>1, <2>2 DEF OutboundInv, ClosingTypes, WriterUntold, closing
  <2> QED
    BY <2>4, <2>5, <2>6, <2>7 DEF OutboundInv
<1>2. CASE WriterForgets
  <2>1. /\ outbound # <<>> /\ Head(outbound) = "CLOSE" /\ outbound' = <<>>
        /\ UNCHANGED <<load, closing, interest, writing>>
    BY <1>2 DEF WriterForgets
  <2>2. closed /\ toTell = <<>>
    <3>1. outbound \in Seq({"OUTBOUND", "CLOSE"})
      BY OutboundCounted
    <3>2. ToSet(outbound) = {Head(outbound)} \cup ToSet(Tail(outbound))
      BY <2>1, <3>1, HeadTailElements
    <3> QED
      BY <2>1, <3>2 DEF OutboundInv, WriterUntold
  <2>3. /\ load' \in Loads /\ OutboundTypes' /\ Wrote'
        /\ asking' => asked' < load'[2]
    BY <2>1 DEF OutboundInv, OutboundTypes, Wrote, BufferHasRemaining, interest, writing
  <2>4. ClosingTypes' /\ WriterUntold'
    BY <2>1, ShortElements DEF OutboundInv, ClosingTypes, WriterUntold, closing
  <2>5. Outbound' = 0
    <3>1. Outbound' = Cardinality({i \in DOMAIN <<>> : <<>>[i] = "OUTBOUND"})
      BY <2>1 DEF Outbound
    <3>2. {i \in DOMAIN <<>> : <<>>[i] = "OUTBOUND"} = {}
      OBVIOUS
    <3> QED
      BY <3>1, <3>2, FS_EmptySet
  <2>6. Counted'
    <3>1. calls + Outbound <= Due /\ Due \in Int
      BY OutboundAre DEF OutboundInv, Counted, Due
    <3>2. Due' = Due /\ calls' = calls /\ closed'
      BY <2>1, <2>2 DEF Due, BufferHasRemaining, closing, interest, writing
    <3> QED
      BY <2>5, <3>1, <3>2, OutboundAre DEF Counted
  <2> QED
    BY <2>3, <2>4, <2>6 DEF OutboundInv
<1> QED
  BY <1>1, <1>2

LEMMA OutboundProduces ==
    ASSUME OutboundInv, NEW n \in 0..MaxPut, Produce(n)
    PROVE  OutboundInv'
<1> DEFINE bytes == [i \in 1..n |-> put + i]
<1>1. /\ writerAt = "produce" /\ writerAt' = "send"
      /\ calls' = calls + 1 /\ put' = put + n
      /\ writeBuffer' = BufferFlip(BufferPut(NewBuffer, bytes))
      /\ UNCHANGED <<load, closing, interest, outbound, memorized, shut, wire>>
  BY DEF Produce, BufferReset
<1>2. put \in Nat /\ n \in Nat /\ n <= BufferSize /\ calls \in Nat /\ Len(wire) \in Nat
  BY OutboundAre
<1>3. bytes \in Seq(Nat) /\ Len(bytes) = n /\ \A i \in 1..n : bytes[i] = put + i
  <2>1. bytes \in [1..n -> Nat] /\ \A i \in 1..n : bytes[i] = put + i
    BY <1>2
  <2> HIDE DEF bytes
  <2> QED
    BY <1>2, <2>1, RewrittenProperties
<1> HIDE DEF bytes
<1>4. /\ writeBuffer' \in Buffers(Nat)
      /\ writeBuffer'.position = 0 /\ writeBuffer'.limit = n
      /\ \A i \in 1..n : writeBuffer'.data[i] = put + i
  <2> DEFINE c == BufferFlip(BufferPut(NewBuffer, bytes))
  <2>1. c = BufferFlip(BufferPut(NewBuffer, bytes)) /\ Len(bytes) <= BufferSize
    BY <1>2, <1>3
  <2> HIDE DEF c
  <2>2. /\ c \in Buffers(Nat) /\ c.position = 0 /\ c.limit = Len(bytes)
        /\ \A i \in 1..Len(bytes) : c.data[i] = bytes[i]
    BY <1>3, <2>1, PutInto
  <2>3. writeBuffer' = c
    BY <1>1, <2>1
  <2> QED
    BY <1>3, <2>2, <2>3
<1>5. put = Len(wire) /\ \A i \in 1..Len(wire) : wire[i] = i
  <2>1. /\ put = Len(wire) + (writeBuffer.limit - writeBuffer.position)
        /\ \A i \in 1..Len(wire) : wire[i] = i
        /\ ~BufferHasRemaining(writeBuffer)
    BY <1>1 DEF OutboundInv, Wrote
  <2>2. writeBuffer.position = writeBuffer.limit /\ writeBuffer.limit \in Nat
    BY <2>1, OutboundAre
  <2> QED
    BY <1>2, <2>1, <2>2
<1>6. Wrote'
  <2>1. put' = Len(wire) + (n - 0)
    BY <1>1, <1>2, <1>5
  <2>2. \A k \in 1..(n - 0) : writeBuffer'.data[0 + k] = Len(wire) + k
    BY <1>2, <1>4, <1>5
  <2> QED
    BY <1>1, <1>4, <1>5, <2>1, <2>2 DEF Wrote
<1>7. Counted'
  <2>0. asked \in Nat /\ calls \in Nat /\ Outbound \in Nat
    BY OutboundAre
  <2>1. /\ calls + Outbound <= asked - 1
        /\ ~closed => calls + Outbound = asked - 1
    <3>1. Due = asked + (-1)
      BY <1>1 DEF OutboundInv, Wrote, Due
    <3>2. /\ calls + Outbound <= Due
          /\ ~closed => calls + Outbound = Due
      BY DEF OutboundInv, Counted
    <3> QED
      BY <2>0, <3>1, <3>2
  <2>2. Due' = asked + 0 /\ Outbound' = Outbound /\ closed' = closed
    BY <1>1, OutboundSame DEF Due, closing, interest
  <2> QED
    BY <1>1, <2>0, <2>1, <2>2 DEF Counted
<1>8. load' \in Loads /\ OutboundTypes' /\ (asking' => asked' < load'[2])
  <2>1. writeBuffer'.position <= writeBuffer'.limit /\ put' \in Nat /\ calls' \in Nat
    BY <1>1, <1>2, <1>4
  <2> QED
    BY <1>1, <1>4, <2>1 DEF OutboundInv, OutboundTypes, interest
<1>9. ClosingTypes' /\ WriterUntold'
  BY <1>1 DEF OutboundInv, ClosingTypes, WriterUntold, closing
<1> QED
  BY <1>6, <1>7, <1>8, <1>9 DEF OutboundInv

LEMMA OutboundSends ==
    ASSUME OutboundInv, NEW n \in 0..BufferSize, Send(n)
    PROVE  OutboundInv'
<1> DEFINE p == writeBuffer.position
           l == writeBuffer.limit
           bytes == SubSeq(Rest(writeBuffer), 1, n)
<1>1. /\ writerAt = "send" /\ n <= l - p
      /\ wire' = wire \o bytes
      /\ writeBuffer' = BufferPosition(writeBuffer, p + n)
      /\ shut' = ShutsDown(n)
      /\ writerAt' = IF n < l - p THEN "again" ELSE "idle"
      /\ UNCHANGED <<load, closing, interest, outbound, memorized, calls, put>>
  BY DEF Send, BufferRemaining
<1>2. /\ p \in 0..BufferSize /\ l \in 0..BufferSize /\ p <= l /\ n \in Nat
      /\ Len(wire) \in Nat /\ wire \in Seq(Nat) /\ writeBuffer \in Buffers(Nat)
      /\ put = Len(wire) + (l - p)
      /\ \A i \in 1..Len(wire) : wire[i] = i
      /\ \A k \in 1..(l - p) : writeBuffer.data[p + k] = Len(wire) + k
  BY OutboundAre DEF OutboundInv, OutboundTypes, Wrote
<1>3. /\ bytes \in Seq(Nat) /\ Len(bytes) = n
      /\ \A k \in 1..n : bytes[k] = Len(wire) + k
  <2>1. \A k \in 1..(l - p) : Rest(writeBuffer)[k] = writeBuffer.data[p + k]
    BY <1>2, RestElements
  <2>2. ASSUME NEW k \in 1..n
        PROVE  Rest(writeBuffer)[k] = Len(wire) + k /\ Rest(writeBuffer)[k] \in Nat
    <3>1. k \in 1..(l - p)
      BY <1>1, <1>2
    <3>2. Rest(writeBuffer)[k] = Len(wire) + k
      BY <1>2, <2>1, <3>1
    <3> QED
      BY <1>2, <3>2
  <2>3. 1 \in Int /\ n \in Int /\ \A k \in 1..n : Rest(writeBuffer)[k] \in Nat
    BY <1>2, <2>2
  <2>4. /\ SubSeq(Rest(writeBuffer), 1, n) \in Seq(Nat)
        /\ Len(SubSeq(Rest(writeBuffer), 1, n)) = IF 1 <= n THEN n - 1 + 1 ELSE 0
        /\ \A k \in 1..(n - 1 + 1) :
              SubSeq(Rest(writeBuffer), 1, n)[k] = Rest(writeBuffer)[1 + k - 1]
    BY <2>3, SubSeqProperties
  <2>5. Len(bytes) = n
    BY <1>2, <2>4
  <2>6. \A k \in 1..n : bytes[k] = Rest(writeBuffer)[k]
    BY <1>2, <2>4
  <2> QED
    BY <2>2, <2>4, <2>5, <2>6
<1> HIDE DEF bytes
<1>4. /\ writeBuffer' \in Buffers(Nat) /\ writeBuffer'.position = p + n
      /\ writeBuffer'.limit = l /\ writeBuffer'.data = writeBuffer.data
  <2> DEFINE m == p + n
  <2>1. m \in 0..BufferSize /\ m <= writeBuffer.limit
    BY <1>1, <1>2
  <2>2. writeBuffer' = BufferPosition(writeBuffer, m)
    BY <1>1
  <2> HIDE DEF m
  <2>3. /\ writeBuffer' \in Buffers(Nat) /\ writeBuffer'.position = m
        /\ writeBuffer'.limit = writeBuffer.limit /\ writeBuffer'.data = writeBuffer.data
    BY <1>2, <2>1, <2>2, PositionIs
  <2> QED
    BY <2>3 DEF m
<1>5. /\ wire' \in Seq(Nat) /\ Len(wire') = Len(wire) + n
      /\ \A i \in 1..(Len(wire) + n) : wire'[i] = i
  <2>1. /\ wire' \in Seq(Nat) /\ Len(wire') = Len(wire) + n
        /\ \A i \in 1..(Len(wire) + n) :
              wire'[i] = IF i <= Len(wire) THEN wire[i] ELSE bytes[i - Len(wire)]
    BY <1>1, <1>2, <1>3, ConcatProperties
  <2>2. ASSUME NEW i \in 1..(Len(wire) + n)
        PROVE  wire'[i] = i
    <3>1. CASE i <= Len(wire)
      <4>1. wire'[i] = wire[i]
        BY <2>1, <3>1
      <4>2. wire[i] = i
        BY <1>2, <3>1
      <4> QED
        BY <4>1, <4>2
    <3>2. CASE i > Len(wire)
      <4>1. i - Len(wire) \in 1..n
        BY <1>2, <3>2
      <4>2. bytes[i - Len(wire)] = Len(wire) + (i - Len(wire))
        BY <1>3, <4>1
      <4> QED
        BY <1>2, <2>1, <3>2, <4>2
    <3> QED
      BY <1>2, <3>1, <3>2
  <2> QED
    BY <2>1, <2>2
<1>6. writerAt' = "again" => n < l - p
  BY <1>1, <1>2
<1>7. BufferHasRemaining(writeBuffer)' <=> n < l - p
  BY <1>2, <1>4 DEF BufferHasRemaining
<1>8. Wrote'
  <2>1. put' = Len(wire') + (l - (p + n))
    BY <1>1, <1>2, <1>5
  <2>2. ASSUME NEW k \in 1..(l - (p + n))
        PROVE  writeBuffer.data[p + n + k] = Len(wire') + k
    <3>1. n + k \in 1..(l - p)
      BY <1>2
    <3>2. writeBuffer.data[p + (n + k)] = Len(wire) + (n + k)
      BY <1>2, <3>1
    <3>3. p + n + k = p + (n + k)
      BY <1>2
    <3>4. Len(wire) + (n + k) = Len(wire') + k
      <4>1. Len(wire') = Len(wire) + n
        BY <1>5
      <4> QED
        BY <1>2, <4>1
    <3> QED
      BY <3>2, <3>3, <3>4
  <2>3. writerAt' # "produce"
    BY <1>1
  <2>4. /\ \A i \in 1..Len(wire') : wire'[i] = i
        /\ writerAt' = "again" => BufferHasRemaining(writeBuffer)'
    BY <1>5, <1>6, <1>7
  <2> QED
    BY <1>4, <2>1, <2>2, <2>3, <2>4 DEF Wrote
<1>9. Counted'
  <2>1. /\ calls + Outbound <= asked + 0
        /\ ~closed => calls + Outbound = asked + 0
    BY <1>1 DEF OutboundInv, Counted, Due
  <2>2. Due' = asked + 0
    BY <1>1, <1>7 DEF Due, interest
  <2>3. Outbound' = Outbound /\ closed' = closed /\ calls' = calls /\ writerAt' # "close"
    BY <1>1, OutboundSame DEF closing
  <2> QED
    BY <2>1, <2>2, <2>3 DEF Counted
<1>10. load' \in Loads /\ OutboundTypes' /\ (asking' => asked' < load'[2])
  <2>1. /\ writeBuffer'.position <= writeBuffer'.limit
        /\ writerAt' \in {"again", "idle"}
    BY <1>1, <1>2, <1>4
  <2>2. shut' \in BOOLEAN
    BY <1>1 DEF ShutsDown, OutboundInv, OutboundTypes
  <2> QED
    BY <1>1, <1>4, <1>5, <2>1, <2>2 DEF OutboundInv, OutboundTypes, interest
<1>11. ClosingTypes' /\ WriterUntold'
  BY <1>1 DEF OutboundInv, ClosingTypes, WriterUntold, closing
<1> QED
  BY <1>8, <1>9, <1>10, <1>11 DEF OutboundInv

LEMMA OutboundEnds == OutboundInv /\ (SendFails \/ WriterCloses \/ WriteAgain) => OutboundInv'
<1> SUFFICES ASSUME OutboundInv, SendFails \/ WriterCloses \/ WriteAgain PROVE OutboundInv'
  OBVIOUS
<1>1. CASE SendFails \/ WriterCloses
  <2>1. /\ writerAt \in {"send", "close"} /\ writerAt' = "idle" /\ Close
        /\ UNCHANGED <<load, interest, outbound, memorized, writeBuffer, shut, calls, put, wire>>
    BY <1>1 DEF SendFails, WriterCloses
  <2>2. closed' /\ ClosingTypes' /\ WriterUntold'
    BY <2>1, CloseMoves, ClosingMoved DEF OutboundInv, WriterUntold
  <2>3. load' \in Loads /\ OutboundTypes' /\ (asking' => asked' < load'[2])
    BY <2>1 DEF OutboundInv, OutboundTypes, interest
  <2>4. Wrote'
    BY <2>1 DEF OutboundInv, Wrote
  <2>5. Counted'
    <3>1. calls + Outbound <= Due /\ Due <= asked + Left
      <4>1. CASE BufferHasRemaining(writeBuffer)
        BY <2>1, <4>1, OutboundAre DEF OutboundInv, Counted, Due, Left
      <4>2. CASE ~BufferHasRemaining(writeBuffer)
        BY <2>1, <4>2, OutboundAre DEF OutboundInv, Counted, Due, Left
      <4> QED
        BY <4>1, <4>2
    <3>2. Due' = asked + Left
      BY <2>1 DEF Due, Left, BufferHasRemaining, interest
    <3>3. Outbound' = Outbound /\ calls' = calls
      BY <2>1, OutboundSame
    <3>4. Left \in Nat /\ Due \in Int
      BY OutboundAre DEF Left, Due
    <3> QED
      BY <2>1, <2>2, <3>1, <3>2, <3>3, <3>4, OutboundAre DEF Counted
  <2> QED
    BY <2>2, <2>3, <2>4, <2>5 DEF OutboundInv
<1>2. CASE WriteAgain
  <2>1. /\ writerAt = "again" /\ writerAt' = "idle" /\ outbound' = Append(outbound, "OUTBOUND")
        /\ UNCHANGED <<load, closing, interest, memorized, writeBuffer, shut, calls, put, wire>>
    BY <1>2 DEF WriteAgain
  <2>2. /\ outbound' \in Seq({"OUTBOUND", "CLOSE"}) /\ Outbound' = Outbound + 1
        /\ ToSet(outbound') = ToSet(outbound) \cup {"OUTBOUND"}
    BY <2>1, EventAdded
  <2>3. load' \in Loads /\ OutboundTypes' /\ (asking' => asked' < load'[2])
    BY <2>1, <2>2 DEF OutboundInv, OutboundTypes, interest
  <2>4. Wrote'
    BY <2>1 DEF OutboundInv, Wrote
  <2>5. Counted'
    <3>1. /\ calls + Outbound <= asked + 0
          /\ ~closed => calls + Outbound = asked + 0
          /\ BufferHasRemaining(writeBuffer)
      BY <2>1 DEF OutboundInv, Counted, Due, Wrote
    <3>2. Due' = asked + 1 /\ closed' = closed /\ calls' = calls
      BY <2>1, <3>1 DEF Due, BufferHasRemaining, closing, interest
    <3>3. asked \in Nat /\ calls \in Nat /\ Outbound \in Nat
      BY OutboundAre
    <3> QED
      BY <2>1, <2>2, <3>1, <3>2, <3>3 DEF Counted
  <2>6. ClosingTypes' /\ WriterUntold'
    BY <2>1, <2>2 DEF OutboundInv, ClosingTypes, WriterUntold, closing
  <2> QED
    BY <2>3, <2>4, <2>5, <2>6 DEF OutboundInv
<1> QED
  BY <1>1, <1>2

(* The steps of the other side, and the closes.                            *)
Inbounds ==
    \/ Peer \/ TellWorker \/ Worker
    \/ \E n \in 1..BufferSize : ReceiveData(n)
    \/ TestClosed \/ Allocate \/ Grow \/ AllocateAgain \/ Copy \/ Offer
ReaderCloses == (\E force \in BOOLEAN : UserCloses(force)) \/ ReadFails \/ SetFlags

LEMMA InboundSteps ==
    ASSUME ClosingTypes, Inbounds \/ ReaderCloses
    PROVE  ClosingMoves /\ UNCHANGED <<load, outboundVars>>
<1>1. ASSUME NEW force \in BOOLEAN, UserCloses(force)
      PROVE  ClosingMoves /\ UNCHANGED <<load, outboundVars>>
  BY <1>1 DEF UserCloses, ClosingMoves
<1>2. CASE ReadFails
  BY <1>2, CloseMoves DEF ReadFails
<1>3. CASE TellWorker \/ SetFlags
  BY <1>3 DEF TellWorker, SetFlags, ClosingMoves, Settles, Tells
<1>4. CASE Peer
  BY <1>4 DEF Peer, PeerSends, PeerCloses, ClosingMoves
<1>5. CASE Worker
  BY <1>5 DEF Worker, WorkerTakes, Process, Release, ClosingMoves
<1>6. ASSUME NEW n, ReceiveData(n)
      PROVE  ClosingMoves /\ UNCHANGED <<load, outboundVars>>
  BY <1>6 DEF ReceiveData, ClosingMoves
<1>7. CASE TestClosed \/ Allocate \/ Grow \/ AllocateAgain \/ Copy
  BY <1>7 DEF TestClosed, Allocate, Grow, AllocateAgain, Copy, Take, TakeNothing, MoveReader,
              ClosingMoves
<1>8. CASE Offer
  BY <1>8 DEF Offer, ClosingMoves
<1> QED
  BY <1>1, <1>2, <1>3, <1>4, <1>5, <1>6, <1>7, <1>8 DEF Inbounds, ReaderCloses

LEMMA OutboundStep == OutboundInv /\ [Next]_vars => OutboundInv'
<1> SUFFICES ASSUME OutboundInv, [Next]_vars PROVE OutboundInv'
  OBVIOUS
<1>1. CASE UNCHANGED vars
  BY <1>1, OutboundStays DEF vars, ClosingMoves
<1>2. CASE Inbounds \/ ReaderCloses
  BY <1>2, InboundSteps, OutboundStays DEF OutboundInv
<1>3. CASE UserAsks \/ AskToWrite
  BY <1>3, OutboundAsks
<1>4. CASE TellWriter
  BY <1>4, OutboundTold
<1>5. CASE WriterTakes \/ WriterForgets
  BY <1>5, OutboundTakes
<1>6. ASSUME NEW n \in 0..MaxPut, Produce(n)
      PROVE  OutboundInv'
  BY <1>6, OutboundProduces
<1>7. ASSUME NEW n \in 0..BufferSize, Send(n)
      PROVE  OutboundInv'
  BY <1>7, OutboundSends
<1>8. CASE SendFails \/ WriterCloses \/ WriteAgain
  BY <1>8, OutboundEnds
<1> QED
  BY <1>1, <1>2, <1>3, <1>4, <1>5, <1>6, <1>7, <1>8
     DEF Next, User, Tell, Reader, Writer, Inbounds, ReaderCloses

-----------------------------------------------------------------------------
(* 6. The bytes that are read.  The invariant goes along the line: what the *)
(* handler has, the buffer in the worker's hand, the tasks up to CLOSE, the *)
(* reader's hand or the read buffer, the socket.  It holds after a close    *)
(* too, up to the last buffer a reader that was past the test brings.       *)

RunsFrom(b, n) ==
    /\ content[b].limit >= 1
    /\ \A k \in 1 .. content[b].limit : content[b].data[k] = n + k
LastByte(b) == content[b].data[content[b].limit]

Had == Len(delivered) + (IF workerAt = "process" THEN content[workerHand].limit ELSE 0)
ByteBefore(i) == IF i = 1 THEN Had ELSE LastByte(tasks[i - 1])

\* The tasks without the CLOSE event at their end, and the last byte they hold.
Lined == IF tasks # <<>> /\ tasks[Len(tasks)] = 0 THEN Len(tasks) - 1 ELSE Len(tasks)
Reached == ByteBefore(Lined + 1)

\* The reader has received bytes that it goes on to bring to the worker.
Bringing == readerAt \in {"test", "allocate", "grow", "again", "copy"}

WorkerLine ==
    /\ \A i \in 1 .. Len(delivered) : delivered[i] = i
    /\ workerAt = "process" => RunsFrom(workerHand, Len(delivered))
    /\ \A i \in 1 .. Len(tasks) :
          (\A j \in 1 .. i : tasks[j] # 0) => RunsFrom(tasks[i], ByteBefore(i))

ReaderLine ==
    /\ Bringing \/ readerAt = "offer" => \A i \in 1 .. Len(tasks) - 1 : tasks[i] # 0
    /\ Bringing => readBuffer.position >= 1
    /\ Bringing \/ canRead =>
          \A k \in 1 .. readBuffer.position : readBuffer.data[k] = Reached + k
    /\ readerAt = "offer" => RunsFrom(readerHand, Reached) /\ readBuffer.position = 0

\* The last byte that left the socket.
Drawn == Reached + (IF readerAt = "offer" THEN content[readerHand].limit
                    ELSE readBuffer.position)

SocketLine ==
    canRead =>
        /\ \A k \in 1 .. Len(inbox) : inbox[k] = Drawn + k
        /\ sent = Drawn + Len(inbox)

ReadInv == WorkerLine /\ ReaderLine /\ SocketLine

LEMMA TasksAre ==
    ASSUME InboundInv
    PROVE  /\ Len(tasks) \in Nat /\ DOMAIN tasks = 1..Len(tasks)
           /\ tasks = <<>> <=> Len(tasks) = 0
           /\ \A i \in 1..Len(tasks) : tasks[i] \in 0..Made /\ tasks[i] \in ToSet(tasks)
           /\ \A i, j \in 1..Len(tasks) : tasks[i] = tasks[j] => i = j
           /\ Lined \in 0..Len(tasks)
           /\ Lined # Len(tasks) <=> (Len(tasks) # 0 /\ tasks[Len(tasks)] = 0)
           /\ Lined # Len(tasks) => Lined = Len(tasks) - 1
           /\ Lined # 0 => Lined \in 1..Len(tasks) /\ tasks[Lined] # 0
<1>1. tasks \in Seq(0..Made) /\ IsInjective(tasks)
  BY DEF InboundInv, InboundTypes, OneHand
<1>2. /\ Len(tasks) \in Nat /\ DOMAIN tasks = 1..Len(tasks)
      /\ tasks = <<>> <=> Len(tasks) = 0
      /\ \A i \in 1..Len(tasks) : tasks[i] \in 0..Made
  BY <1>1, LenProperties, ElementOfSeq, EmptySeq
<1>3. \A i \in 1..Len(tasks) : tasks[i] \in ToSet(tasks)
  BY <1>2 DEF ToSet
<1>4. \A i, j \in 1..Len(tasks) : tasks[i] = tasks[j] => i = j
  BY <1>1, <1>2 DEF IsInjective
<1>5. CASE Len(tasks) # 0 /\ tasks[Len(tasks)] = 0
  <2>1. Lined = Len(tasks) - 1
    BY <1>2, <1>5 DEF Lined
  <2>2. Len(tasks) \in Nat /\ Len(tasks) # 0
    BY <1>2, <1>5
  <2> HIDE DEF Lined
  <2>3. /\ Lined \in 0..Len(tasks) /\ Lined # Len(tasks) /\ Len(tasks) \in 1..Len(tasks)
        /\ Lined # 0 => Lined \in 1..Len(tasks)
    BY <2>1, <2>2
  <2>4. Lined # 0 => tasks[Lined] # 0
    BY <1>4, <1>5, <2>3
  <2>5. /\ Lined # Len(tasks) <=> (Len(tasks) # 0 /\ tasks[Len(tasks)] = 0)
        /\ Lined # Len(tasks) => Lined = Len(tasks) - 1
    BY <1>5, <2>1, <2>3
  <2> QED
    BY <1>2, <1>3, <1>4, <2>3, <2>4, <2>5
<1>6. CASE ~(Len(tasks) # 0 /\ tasks[Len(tasks)] = 0)
  <2>1. Lined = Len(tasks)
    BY <1>2, <1>6 DEF Lined
  <2> QED
    BY <1>2, <1>3, <1>4, <1>6, <2>1
<1> QED
  BY <1>5, <1>6

\* No CLOSE event is before the tasks the reader's next buffer follows.
Open == Bringing \/ readerAt = "offer" \/ canRead

LEMMA LineIs ==
    ASSUME InboundInv, ReadInv
    PROVE  /\ Had \in Nat /\ Len(delivered) \in Nat
           /\ \A i \in 1..Len(tasks) :
                 RunsFrom(tasks[i], ByteBefore(i)) /\ tasks[i] # 0 /\ ByteBefore(i) \in Nat =>
                    /\ LastByte(tasks[i]) = ByteBefore(i) + content[tasks[i]].limit
                    /\ LastByte(tasks[i]) \in Nat
           /\ Open => \A i \in 1..Lined : tasks[i] # 0
           /\ \A i \in 1..Len(tasks) :
                 (\A j \in 1..i : tasks[j] # 0) => RunsFrom(tasks[i], ByteBefore(i))
<1>1. /\ InboundTypes /\ Len(delivered) \in Nat
      /\ workerAt = "process" => workerHand \in 1..Made /\ Filled(workerHand)
  BY LenProperties DEF InboundInv, InboundTypes, HandsBusy, OnlyReceived
<1>2. workerAt = "process" => content[workerHand].limit \in Nat
  BY <1>1, FilledBytes
<1>3. Had \in Nat
  BY <1>1, <1>2 DEF Had
<1>4. ASSUME NEW i \in 1..Len(tasks), RunsFrom(tasks[i], ByteBefore(i)), tasks[i] # 0,
             ByteBefore(i) \in Nat
      PROVE  /\ LastByte(tasks[i]) = ByteBefore(i) + content[tasks[i]].limit
             /\ LastByte(tasks[i]) \in Nat
  <2> DEFINE b == tasks[i]
             m == content[b].limit
  <2>1. b \in 1..Made /\ Filled(b)
    BY <1>4, TasksAre DEF InboundInv, OnlyReceived
  <2>2. m \in Nat /\ m >= 1
    BY <1>1, <1>4, <2>1, FilledBytes DEF RunsFrom
  <2>3. m \in 1..m
    BY <2>2
  <2>4. content[b].data[m] = ByteBefore(i) + m
    BY <1>4, <2>3 DEF RunsFrom
  <2> QED
    BY <1>4, <2>2, <2>4 DEF LastByte
<1>5. Open => \A i \in 1..Lined : tasks[i] # 0
  <2>1. CASE canRead
    <3>1. 0 \notin ToSet(tasks)
      BY <2>1 DEF InboundInv, ClosingTypes, WorkerUntold
    <3> QED
      BY <3>1, TasksAre
  <2>2. ASSUME \A i \in 1..Len(tasks) - 1 : tasks[i] # 0,
               NEW i \in 1..Lined
        PROVE  tasks[i] # 0
    <3>0. Lined # 0
      BY TasksAre
    <3>1. CASE i = Lined
      BY <3>0, <3>1, TasksAre
    <3>2. CASE i # Lined
      <4>1. i \in 1..Len(tasks) - 1
        BY <3>2, TasksAre
      <4> QED
        BY <2>2, <4>1
    <3> QED
      BY <3>1, <3>2
  <2> QED
    BY <2>1, <2>2 DEF Open, ReadInv, ReaderLine
<1> QED
  BY <1>1, <1>3, <1>4, <1>5 DEF ReadInv, WorkerLine

TasksRun ==
    \A i \in 1..Len(tasks) : (\A j \in 1..i : tasks[j] # 0) => RunsFrom(tasks[i], ByteBefore(i))

(* Steps that leave the tasks and what they hold.                          *)
LEMMA TasksStay ==
    ASSUME InboundInv, ReadInv, UNCHANGED tasks, Had' = Had,
           \A b \in 1..Made : b \in ToSet(tasks) => content'[b] = content[b]
    PROVE  /\ TasksRun' /\ Lined' = Lined
           /\ Open => Reached' = Reached
<1>1. Lined' = Lined
  BY DEF Lined
<1>2. \A i \in 1..Len(tasks) : tasks[i] # 0 => content'[tasks[i]] = content[tasks[i]]
  BY TasksAre
<1>3. ASSUME NEW i \in 1..(Len(tasks) + 1), i = 1 \/ tasks[i - 1] # 0
      PROVE  ByteBefore(i)' = ByteBefore(i)
  <2>1. CASE i = 1
    BY <2>1 DEF ByteBefore
  <2>2. CASE i # 1
    <3>1. i - 1 \in 1..Len(tasks)
      BY <2>2, TasksAre
    <3>2. content'[tasks[i - 1]] = content[tasks[i - 1]]
      BY <1>2, <1>3, <2>2, <3>1
    <3> QED
      BY <2>2, <3>2 DEF ByteBefore, LastByte
  <2> QED
    BY <2>1, <2>2
<1>4. ASSUME NEW i \in 1..Len(tasks), \A j \in 1..i : tasks[j] # 0
      PROVE  RunsFrom(tasks[i], ByteBefore(i))'
  <2>1. i \in 1..(Len(tasks) + 1) /\ i \in 1..i /\ (i # 1 => i - 1 \in 1..i)
    BY TasksAre
  <2>2. ByteBefore(i)' = ByteBefore(i)
    BY <1>3, <1>4, <2>1
  <2>3. RunsFrom(tasks[i], ByteBefore(i)) /\ content'[tasks[i]] = content[tasks[i]]
    BY <1>2, <1>4, <2>1 DEF ReadInv, WorkerLine
  <2> QED
    BY <2>2, <2>3 DEF RunsFrom
<1>5. ASSUME Open
      PROVE  Reached' = Reached
  <2>1. Lined + 1 \in 1..(Len(tasks) + 1)
    BY TasksAre
  <2>2. PICK i \in 1..(Len(tasks) + 1) : i = Lined + 1
    BY <2>1
  <2>3. i = 1 \/ tasks[i - 1] # 0
    <3>1. i - 1 = Lined
      BY <2>2, TasksAre
    <3> QED
      BY <2>2, <3>1, TasksAre
  <2>4. Reached = ByteBefore(i) /\ Reached' = ByteBefore(i)'
    BY <1>1, <2>2 DEF Reached, ByteBefore
  <2> QED
    BY <1>3, <2>3, <2>4
<1> QED
  BY <1>1, <1>4, <1>5 DEF TasksRun

LEMMA LineStays ==
    ASSUME InboundInv, ReadInv, UNCHANGED <<tasks, delivered, workerAt, workerHand>>,
           \A b \in 1..Made :
              b \in ToSet(tasks) \/ (workerAt = "process" /\ b = workerHand) =>
                 content'[b] = content[b]
    PROVE  /\ WorkerLine' /\ Had' = Had /\ Lined' = Lined
           /\ Open => Reached' = Reached
<1>1. ASSUME workerAt = "process"
      PROVE  content'[workerHand] = content[workerHand]
  <2>1. workerHand \in 1..Made
    BY <1>1 DEF InboundInv, InboundTypes, HandsBusy
  <2> QED
    BY <1>1, <2>1
<1>2. Had' = Had
  BY <1>1 DEF Had
<1>3. \A i \in 1..Len(delivered') : delivered'[i] = i
  BY DEF ReadInv, WorkerLine
<1>4. workerAt' = "process" => RunsFrom(workerHand, Len(delivered))'
  BY <1>1 DEF ReadInv, WorkerLine, RunsFrom
<1> QED
  BY <1>2, <1>3, <1>4, TasksStay DEF WorkerLine, TasksRun

LEMMA ReadInit == Init => ReadInv
<1> SUFFICES ASSUME Init PROVE ReadInv
  OBVIOUS
<1>1. /\ Len(tasks) = 0 /\ Len(delivered) = 0 /\ Len(inbox) = 0 /\ tasks = <<>>
      /\ readBuffer.position = 0
  BY EmptySeq, NewBufferIs DEF Init
<1>2. Had = 0 /\ Lined = 0
  BY <1>1 DEF Init, Had, Lined
<1>3. Reached = 0
  BY <1>2 DEF Reached, ByteBefore
<1>4. Drawn = 0
  BY <1>1, <1>3 DEF Init, Drawn
<1> QED
  BY <1>1, <1>4 DEF Init, ReadInv, WorkerLine, ReaderLine, SocketLine, Bringing

(* The byte before a task, and the last one of the tasks, are numbers.     *)
LEMMA BytesBefore ==
    ASSUME InboundInv, ReadInv
    PROVE  /\ \A i \in 1..(Len(tasks) + 1) :
                 (\A j \in 1..(i - 1) : tasks[j] # 0) => ByteBefore(i) \in Nat
           /\ Open => Reached \in Nat
<1>1. ASSUME NEW i \in 1..Len(tasks), \A j \in 1..i : tasks[j] # 0
      PROVE  LastByte(tasks[i]) \in Nat
  <2>1. PICK b \in 1..Made : b = tasks[i]
    BY <1>1, TasksAre
  <2>2. Filled(b)
    BY <1>1, <2>1, TasksAre DEF InboundInv, OnlyReceived
  <2>3. content[b].limit >= 1
    BY <1>1, <2>1, LineIs DEF RunsFrom
  <2>4. /\ content[b].limit \in 0..BufferSize
        /\ Rest(content[b]) \in Seq(1..load[1]) /\ Len(Rest(content[b])) = content[b].limit
        /\ \A k \in 1..content[b].limit : Rest(content[b])[k] = content[b].data[k]
    BY <2>2, FilledBytes DEF InboundInv
  <2>5. content[b].limit \in 1..content[b].limit
    BY <2>3, <2>4
  <2>6. Rest(content[b])[content[b].limit] \in 1..load[1]
    BY <2>4, <2>5, ElementOfSeq
  <2>7. content[b].data[content[b].limit] \in Nat
    BY <2>4, <2>5, <2>6
  <2> QED
    BY <2>1, <2>7 DEF LastByte
<1>2. ASSUME NEW i \in 1..(Len(tasks) + 1), \A j \in 1..(i - 1) : tasks[j] # 0
      PROVE  ByteBefore(i) \in Nat
  <2>1. CASE i = 1
    BY <2>1, LineIs DEF ByteBefore
  <2>2. CASE i # 1
    <3>1. PICK j \in 1..Len(tasks) : j = i - 1
      BY <2>2, TasksAre
    <3>2. LastByte(tasks[j]) \in Nat
      BY <1>1, <1>2, <3>1
    <3> QED
      BY <2>2, <3>1, <3>2 DEF ByteBefore
  <2> QED
    BY <2>1, <2>2
<1>3. ASSUME Open
      PROVE  Reached \in Nat
  <2>1. PICK i \in 1..(Len(tasks) + 1) : i = Lined + 1
    BY TasksAre
  <2>2. \A j \in 1..(i - 1) : tasks[j] # 0
    <3>1. i - 1 = Lined
      BY <2>1, TasksAre
    <3> QED
      BY <1>3, <3>1, LineIs
  <2>3. Reached = ByteBefore(i)
    BY <2>1 DEF Reached, ByteBefore
  <2> QED
    BY <1>2, <2>2, <2>3
<1> QED
  BY <1>2, <1>3

(* Steps that only close, or that are of the other side.                   *)
LEMMA ReadStays ==
    ASSUME InboundInv, ReadInv, UNCHANGED inboundVars, canRead' => canRead
    PROVE  ReadInv'
<1>1. UNCHANGED <<inbox, sent, readBuffer, readerAt, readerHand, content, tasks, workerAt,
                  workerHand, delivered>>
  BY DEF inboundVars, receiving, reading, pooled, working
<1>2. canRead' => canRead
  OBVIOUS
<1>3. /\ WorkerLine' /\ (Bringing' <=> Bringing)
      /\ Had' = Had /\ Lined' = Lined
  BY <1>1 DEF ReadInv, WorkerLine, RunsFrom, ByteBefore, LastByte, Had, Bringing, Lined
<1>4. Reached' = Reached
  BY <1>1, <1>3 DEF Reached, ByteBefore, LastByte
<1>5. Drawn' = Drawn
  BY <1>1, <1>4 DEF Drawn
<1>6. ReaderLine' /\ SocketLine'
  BY <1>1, <1>2, <1>3, <1>4, <1>5 DEF ReadInv, ReaderLine, SocketLine, RunsFrom
<1> QED
  BY <1>3, <1>6 DEF ReadInv

LEMMA ReadPeer == InboundInv /\ ReadInv /\ Peer => ReadInv'
<1> SUFFICES ASSUME InboundInv, ReadInv, Peer PROVE ReadInv'
  OBVIOUS
<1>1. /\ UNCHANGED <<closing, reading, pooled, working>>
      /\ \/ UNCHANGED <<inbox, sent>>
         \/ sent' = sent + 1 /\ inbox' = Append(inbox, sent + 1)
  BY DEF Peer, PeerSends, PeerCloses
<1>2. /\ WorkerLine' /\ Had' = Had /\ Lined' = Lined
      /\ Open => Reached' = Reached
  BY <1>1, LineStays DEF pooled, working
<1>3. /\ UNCHANGED <<readBuffer, readerAt, readerHand, content, tasks>>
      /\ Bringing' <=> Bringing
      /\ canRead' <=> canRead
  BY <1>1 DEF closing, reading, pooled, working, Bringing
<1>4. ReaderLine'
  BY <1>2, <1>3 DEF ReadInv, ReaderLine, Open, RunsFrom
<1>5. SocketLine'
  <2>1. canRead => Drawn' = Drawn
    BY <1>2, <1>3 DEF Open, Drawn
  <2>2. CASE UNCHANGED <<inbox, sent>>
    BY <1>3, <2>1, <2>2 DEF ReadInv, SocketLine
  <2>3. CASE sent' = sent + 1 /\ inbox' = Append(inbox, sent + 1)
    <3>1. inbox \in Seq(1..load[1]) /\ sent \in Nat /\ load[1] \in Nat
      BY LoadIs DEF InboundInv, InboundTypes
    <3>2. inbox \in Seq(Nat) /\ Len(inbox) \in Nat
      <4>1. 1..load[1] \subseteq Nat
        BY <3>1
      <4> QED
        BY <3>1, <4>1, SeqMonotonic, LenProperties
    <3>3. /\ Len(inbox') = Len(inbox) + 1
          /\ \A k \in 1..Len(inbox) : inbox'[k] = inbox[k]
          /\ inbox'[Len(inbox) + 1] = sent + 1
      BY <2>3, <3>1, <3>2, AppendProperties
    <3>4. ASSUME canRead
          PROVE  /\ \A k \in 1..Len(inbox') : inbox'[k] = Drawn + k
                 /\ sent' = Drawn + Len(inbox')
      <4>1. sent = Drawn + Len(inbox) /\ \A k \in 1..Len(inbox) : inbox[k] = Drawn + k
        BY <3>4 DEF ReadInv, SocketLine
      <4>2. Drawn \in Nat
        <5>1. readerAt = "offer" => content[readerHand].limit \in Nat
          BY FilledBytes DEF InboundInv, InboundTypes, HandsBusy, OnlyReceived
        <5>2. readBuffer.position \in Nat
          BY BufferIs DEF InboundInv, InboundTypes
        <5> QED
          BY <3>4, <5>1, <5>2, BytesBefore DEF Open, Drawn
      <4>3. sent + 1 = Drawn + (Len(inbox) + 1)
        BY <3>2, <4>1, <4>2
      <4>4. ASSUME NEW k \in 1..(Len(inbox) + 1)
            PROVE  inbox'[k] = Drawn + k
        <5>1. k \in 1..Len(inbox) \/ k = Len(inbox) + 1
          BY <3>2
        <5> QED
          BY <3>3, <4>1, <4>3, <5>1
      <4> QED
        BY <2>3, <3>3, <4>3, <4>4
    <3> QED
      BY <1>3, <2>1, <3>4 DEF SocketLine
  <2> QED
    BY <1>1, <2>2, <2>3
<1> QED
  BY <1>2, <1>4, <1>5 DEF ReadInv

(* CLOSE comes after every task.                                           *)
LEMMA ReadTold == InboundInv /\ ReadInv /\ TellWorker => ReadInv'
<1> SUFFICES ASSUME InboundInv, ReadInv, TellWorker PROVE ReadInv'
  OBVIOUS
<1>1. /\ tasks' = Append(tasks, 0) /\ canRead' = canRead
      /\ UNCHANGED <<receiving, reading, pooled, workerAt, workerHand, delivered>>
  BY DEF TellWorker
<1>2. ~canRead /\ 0 \notin ToSet(tasks)
  BY ToldInTurn DEF TellWorker, InboundInv, ClosingTypes, WorkerUntold
<1>3. /\ Len(tasks) \in Nat /\ Len(tasks') = Len(tasks) + 1
      /\ \A i \in 1..Len(tasks) : tasks'[i] = tasks[i]
      /\ tasks'[Len(tasks) + 1] = 0
  <2>1. tasks \in Seq(0..Made) /\ 0 \in 0..Made
    BY LoadIs DEF InboundInv, InboundTypes
  <2> DEFINE T == 0..Made
  <2>2. tasks \in Seq(T) /\ 0 \in T
    BY <2>1
  <2> HIDE DEF T
  <2> QED
    BY <1>1, <2>2, AppendProperties, LenProperties
<1>4. \A i \in 1..Len(tasks) : tasks[i] # 0
  BY <1>2, TasksAre
<1>5. Lined = Len(tasks) /\ Lined' = Len(tasks)
  <2>1. Lined = Len(tasks)
    BY <1>3, <1>4, TasksAre
  <2>2. Len(tasks') # 0 /\ tasks'[Len(tasks')] = 0 /\ tasks' # <<>>
    BY <1>3, EmptySeq
  <2>3. Lined' = Len(tasks') - 1
    BY <2>2 DEF Lined
  <2> QED
    BY <1>3, <2>1, <2>3
<1>6. Had' = Had
  BY <1>1 DEF Had, pooled
<1>7. \A i \in 1..(Len(tasks) + 1) : ByteBefore(i)' = ByteBefore(i)
  <2>1. ASSUME NEW i \in 1..(Len(tasks) + 1), i # 1
        PROVE  tasks'[i - 1] = tasks[i - 1]
    <3>1. i - 1 \in 1..Len(tasks)
      BY <1>3, <2>1
    <3> QED
      BY <1>3, <3>1
  <2> QED
    BY <1>1, <1>6, <2>1 DEF ByteBefore, LastByte, pooled
<1>8. Reached' = Reached
  <2>1. PICK i \in 1..(Len(tasks) + 1) : i = Lined + 1
    BY <1>3, <1>5
  <2>2. Reached = ByteBefore(i) /\ Reached' = ByteBefore(i)'
    BY <1>5, <2>1 DEF Reached, ByteBefore
  <2> QED
    BY <1>7, <2>2
<1>9. WorkerLine'
  <2>1. ASSUME NEW i \in 1..Len(tasks'), \A j \in 1..i : tasks'[j] # 0
        PROVE  RunsFrom(tasks[i], ByteBefore(i))'
    <3>1. i \in 1..Len(tasks) \/ i = Len(tasks) + 1
      BY <1>3
    <3>2. i \in 1..i
      BY <1>3
    <3>3. i \in 1..Len(tasks)
      BY <1>3, <2>1, <3>1, <3>2
    <3>4. \A j \in 1..i : j \in 1..Len(tasks) /\ tasks[j] # 0
      BY <1>3, <1>4, <3>3
    <3>5. RunsFrom(tasks[i], ByteBefore(i)) /\ ByteBefore(i)' = ByteBefore(i)
      BY <1>3, <1>7, <3>3, <3>4 DEF ReadInv, WorkerLine
    <3> QED
      BY <1>1, <1>3, <3>3, <3>5 DEF RunsFrom, pooled
  <2>2. \A i \in 1..Len(delivered') : delivered'[i] = i
    BY <1>1 DEF ReadInv, WorkerLine
  <2>3. workerAt' = "process" => RunsFrom(workerHand, Len(delivered))'
    BY <1>1 DEF ReadInv, WorkerLine, RunsFrom, pooled
  <2> QED
    BY <2>1, <2>2, <2>3 DEF WorkerLine, RunsFrom, ByteBefore, LastByte
<1>10. ReaderLine'
  <2>1. \A i \in 1..(Len(tasks') - 1) : tasks'[i] # 0
    <3>1. Len(tasks') - 1 = Len(tasks)
      BY <1>3
    <3> QED
      BY <1>3, <1>4, <3>1
  <2>2. /\ ~canRead' /\ (Bringing' <=> Bringing)
        /\ UNCHANGED <<readBuffer, readerAt, readerHand, content>>
    BY <1>1, <1>2 DEF Bringing, reading, pooled
  <2> QED
    BY <1>8, <2>1, <2>2 DEF ReadInv, ReaderLine, RunsFrom
<1>11. SocketLine'
  BY <1>1, <1>2 DEF SocketLine
<1> QED
  BY <1>9, <1>10, <1>11 DEF ReadInv

LEMMA ReadReceives ==
    ASSUME InboundInv, ReadInv, NEW n \in 1..BufferSize, ReceiveData(n)
    PROVE  ReadInv'
<1>1. /\ readerAt = "poll" /\ UNCHANGED <<closing, sent, readerHand, pooled, working>>
      /\ canRead => readerAt' = "test"
      /\ ~canRead => readerAt' = readerAt
      /\ canRead' <=> canRead
  BY DEF ReceiveData, closing
<1>2. /\ WorkerLine' /\ Had' = Had /\ Lined' = Lined
      /\ Open => Reached' = Reached
  BY <1>1, LineStays DEF pooled, working
<1>3. CASE ~canRead
  <2>1. ~canRead' /\ ~Bringing' /\ readerAt' # "offer"
    BY <1>1, <1>3 DEF Bringing
  <2> QED
    BY <1>2, <2>1 DEF ReadInv, ReaderLine, SocketLine
<1>4. CASE canRead
  <2> DEFINE p == readBuffer.position
  <2>1. /\ Reached' = Reached /\ Reached \in Nat /\ p \in Nat /\ n \in Nat
        /\ Drawn = Reached + p
    BY <1>1, <1>2, <1>4, BytesBefore, Receives DEF Open, Drawn
  <2>2. /\ \A k \in 1..p : readBuffer.data[k] = Reached + k
        /\ \A k \in 1..Len(inbox) : inbox[k] = Reached + p + k
        /\ sent = Reached + p + Len(inbox)
        /\ Len(inbox) \in Nat /\ n \in 1..Len(inbox)
    BY <1>4, <2>1, Receives DEF ReadInv, ReaderLine, SocketLine
  <2>3. /\ readBuffer'.position = p + n
        /\ \A k \in 1..p : readBuffer'.data[k] = readBuffer.data[k]
        /\ \A k \in 1..n : readBuffer'.data[p + k] = inbox[k]
        /\ Len(inbox') = Len(inbox) - n
        /\ \A k \in 1..(Len(inbox) - n) : inbox'[k] = inbox[n + k]
    BY <1>4, Receives
  <2>4. ASSUME NEW k \in 1..(p + n)
        PROVE  readBuffer'.data[k] = Reached + k
    <3>1. CASE k \in 1..p
      BY <2>2, <2>3, <3>1
    <3>2. CASE k \notin 1..p
      <4>0. k - p \in 1..n
        BY <2>1, <3>2
      <4>1. PICK m \in 1..n : m = k - p
        BY <4>0
      <4>2. k = p + m /\ m \in 1..Len(inbox)
        <5>1. p \in Int /\ k \in Int /\ n \in 1..Len(inbox) /\ Len(inbox) \in Nat
          BY <2>1, <2>2
        <5> HIDE DEF p
        <5> QED
          BY <4>1, <5>1
      <4>3. readBuffer'.data[k] = Reached + p + m
        BY <2>2, <2>3, <4>2
      <4> QED
        BY <2>1, <4>2, <4>3
    <3> QED
      BY <3>1, <3>2
  <2>5. ReaderLine'
    <3>1. \A i \in 1..(Len(tasks) - 1) : tasks[i] # 0
      <4>1. 0 \notin ToSet(tasks)
        BY <1>4 DEF InboundInv, ClosingTypes, WorkerUntold
      <4> QED
        BY <4>1, TasksAre
    <3>2. readBuffer'.position >= 1
      BY <2>1, <2>3
    <3> QED
      BY <1>1, <1>4, <2>1, <2>3, <2>4, <3>1, <3>2 DEF ReaderLine, working
  <2>6. SocketLine'
    <3>1. Drawn' = Reached + (p + n)
      BY <1>1, <1>4, <2>1, <2>3 DEF Drawn
    <3>2. ASSUME NEW k \in 1..Len(inbox')
          PROVE  inbox'[k] = Drawn' + k
      <4>1. PICK m \in 1..Len(inbox) : m = n + k
        BY <2>2, <2>3
      <4>2. inbox'[k] = Reached + p + m
        BY <2>2, <2>3, <4>1
      <4>3. /\ Reached \in Int /\ p \in Int /\ n \in Int /\ k \in Int
            /\ Drawn' = Reached + (p + n)
        BY <2>1, <2>2, <2>3, <3>1
      <4> HIDE DEF p
      <4> QED
        BY <4>1, <4>2, <4>3
    <3>3. sent' = Drawn' + Len(inbox')
      <4>1. sent' = Reached + p + Len(inbox)
        BY <1>1, <2>2
      <4>2. Len(inbox') = Len(inbox) - n
        BY <2>3
      <4>3. Reached \in Int /\ p \in Int /\ n \in Int /\ Len(inbox) \in Int
        BY <2>1, <2>2
      <4> HIDE DEF p
      <4> QED
        BY <3>1, <4>1, <4>2, <4>3
    <3> QED
      BY <3>2, <3>3 DEF SocketLine
  <2> QED
    BY <1>2, <2>5, <2>6 DEF ReadInv
<1> QED
  BY <1>3, <1>4

(* The reader goes on with what it received, or leaves it.                 *)
LEMMA ReadMoves ==
    ASSUME InboundInv, ReadInv, TestClosed \/ Allocate \/ Grow \/ AllocateAgain
    PROVE  ReadInv'
<1>1. /\ UNCHANGED <<closing, receiving, readBuffer, working>>
      /\ readerAt # "offer" /\ readerAt' # "offer" /\ Bringing
  BY DEF TestClosed, Allocate, Grow, AllocateAgain, Take, TakeNothing, MoveReader, working, Bringing
<1>2. \A b \in 1..Made : content'[b] = content[b]
  <2>1. CASE ~Grow
    BY <2>1 DEF TestClosed, Allocate, AllocateAgain, Take, TakeNothing, pooled
  <2>2. CASE Grow
    <3> DEFINE fresh == [i \in 1..Batch |-> NewBuffer]
               S == Buffers(1..load[1])
    <3>1. content \in Seq(S) /\ content' = content \o fresh /\ Made = Len(content)
      BY <2>2 DEF Grow, InboundInv, InboundTypes, Made
    <3>2. fresh \in [1..Batch -> S] /\ Batch \in Nat
      BY NewBufferIs
    <3> HIDE DEF S, fresh
    <3>3. fresh \in Seq(S)
      BY <3>2, RewrittenProperties
    <3>4. /\ Len(content) \in Nat /\ Len(fresh) \in Nat
          /\ \A i \in 1..(Len(content) + Len(fresh)) :
                (content \o fresh)[i] =
                   IF i <= Len(content) THEN content[i] ELSE fresh[i - Len(content)]
      BY <3>1, <3>3, ConcatProperties, LenProperties
    <3> QED
      BY <3>1, <3>4
  <2> QED
    BY <2>1, <2>2
<1>3. /\ WorkerLine' /\ Had' = Had /\ Lined' = Lined /\ Reached' = Reached
  BY <1>1, <1>2, LineStays DEF Open, working
<1>4. Drawn' = Drawn
  BY <1>1, <1>3 DEF Drawn
<1>5. ReaderLine'
  BY <1>1, <1>3 DEF ReadInv, ReaderLine, working
<1>6. SocketLine'
  BY <1>1, <1>4 DEF ReadInv, SocketLine, closing, receiving
<1> QED
  BY <1>3, <1>5, <1>6 DEF ReadInv

LEMMA ReadCopies == InboundInv /\ ReadInv /\ Copy => ReadInv'
<1> SUFFICES ASSUME InboundInv, ReadInv, Copy PROVE ReadInv'
  OBVIOUS
<1> DEFINE new == BufferCopy(BufferFlip(readBuffer))
           S == 1..load[1]
<1>1. /\ readerAt = "copy" /\ readerAt' = "offer" /\ Bringing /\ ~Bringing'
      /\ content' = [content EXCEPT ![readerHand] = new]
      /\ readBuffer' = NewBuffer
      /\ UNCHANGED <<closing, receiving, readerHand, working>>
  BY DEF Copy, MoveReader, BufferReset, Bringing, working
<1>2. InboundTypes /\ readerHand \in 1..Made /\ readBuffer \in Buffers(S)
  BY <1>1 DEF InboundInv, InboundTypes, HandsBusy
<1>3. /\ new \in Buffers(S) /\ new.limit = readBuffer.position
      /\ \A i \in 1..readBuffer.position : new.data[i] = readBuffer.data[i]
  <2>1. new = BufferCopy(BufferFlip(readBuffer))
    OBVIOUS
  <2> HIDE DEF S, new
  <2> QED
    BY <1>2, <2>1, CopyOf
<1> HIDE DEF new
<1>4. /\ content'[readerHand] = new
      /\ \A c \in (1..Made) \ {readerHand} : content'[c] = content[c]
  BY <1>1, <1>2, <1>3, OneBufferSet
<1>5. \A b \in 1..Made :
         b \in ToSet(tasks) \/ (workerAt = "process" /\ b = workerHand) => content'[b] = content[b]
  <2>1. readerHand \notin ToSet(tasks) /\ readerHand # workerHand
    BY <1>2 DEF InboundInv, OneHand, Hands
  <2> QED
    BY <1>4, <2>1
<1>6. /\ WorkerLine' /\ Had' = Had /\ Lined' = Lined /\ Reached' = Reached
  BY <1>1, <1>5, LineStays DEF Open, working
<1>7. ReaderLine'
  <2>1. readBuffer.position >= 1 /\ \A k \in 1..readBuffer.position : readBuffer.data[k] = Reached + k
    BY <1>1 DEF ReadInv, ReaderLine
  <2>2. RunsFrom(readerHand, Reached)'
    BY <1>1, <1>3, <1>4, <1>6, <2>1 DEF RunsFrom
  <2>3. readBuffer'.position = 0
    BY <1>1, NewBufferIs
  <2> QED
    BY <1>1, <2>2, <2>3 DEF ReadInv, ReaderLine, working
<1>8. Drawn' = Drawn
  BY <1>1, <1>3, <1>4, <1>6 DEF Drawn
<1>9. SocketLine'
  BY <1>1, <1>8 DEF ReadInv, SocketLine, closing, receiving
<1> QED
  BY <1>6, <1>7, <1>9 DEF ReadInv

(* The reader's buffer becomes the last task.                              *)
LEMMA ReadOffers == InboundInv /\ ReadInv /\ Offer => ReadInv'
<1> SUFFICES ASSUME InboundInv, ReadInv, Offer PROVE ReadInv'
  OBVIOUS
<1>1. /\ readerAt = "offer" /\ readerAt' = "poll" /\ ~Bringing' /\ Open
      /\ tasks' = Append(tasks, readerHand)
      /\ UNCHANGED <<closing, receiving, readBuffer, content, workerAt, workerHand, delivered>>
  BY DEF Offer, Bringing, Open, pooled
<1>2. readerHand \in 1..Made /\ readerHand # 0 /\ Made \in Nat
  BY <1>1, LoadIs DEF InboundInv, InboundTypes, HandsBusy
<1>3. /\ Len(tasks) \in Nat /\ Len(tasks') = Len(tasks) + 1
      /\ \A i \in 1..Len(tasks) : tasks'[i] = tasks[i]
      /\ tasks'[Len(tasks) + 1] = readerHand
  <2> DEFINE T == 0..Made
  <2>1. tasks \in Seq(T) /\ readerHand \in T
    BY <1>2 DEF InboundInv, InboundTypes
  <2> HIDE DEF T
  <2> QED
    BY <1>1, <2>1, AppendProperties, LenProperties
<1>4. Had' = Had
  BY <1>1 DEF Had
<1>5. \A i \in 1..(Len(tasks) + 1) : ByteBefore(i)' = ByteBefore(i)
  <2>1. ASSUME NEW i \in 1..(Len(tasks) + 1), i # 1
        PROVE  tasks'[i - 1] = tasks[i - 1]
    <3>1. i - 1 \in 1..Len(tasks)
      BY <1>3, <2>1
    <3> QED
      BY <1>3, <3>1
  <2> QED
    BY <1>1, <1>4, <2>1 DEF ByteBefore, LastByte
<1>6. RunsFrom(readerHand, Reached) /\ readBuffer.position = 0
  BY <1>1 DEF ReadInv, ReaderLine
<1>7. (\A j \in 1..Len(tasks) : tasks[j] # 0) => Reached = ByteBefore(Len(tasks) + 1)
  <2>1. ASSUME \A j \in 1..Len(tasks) : tasks[j] # 0
        PROVE  Lined = Len(tasks)
    <3>1. Len(tasks) # 0 => Len(tasks) \in 1..Len(tasks)
      BY <1>3
    <3> QED
      BY <2>1, <3>1, TasksAre
  <2> QED
    BY <2>1 DEF Reached
<1>8. WorkerLine'
  <2>1. ASSUME NEW i \in 1..Len(tasks'), \A j \in 1..i : tasks'[j] # 0
        PROVE  RunsFrom(tasks[i], ByteBefore(i))'
    <3>1. CASE i \in 1..Len(tasks)
      <4>1. \A j \in 1..i : j \in 1..Len(tasks) /\ tasks[j] # 0
        BY <1>3, <2>1, <3>1
      <4>2. RunsFrom(tasks[i], ByteBefore(i)) /\ ByteBefore(i)' = ByteBefore(i)
        BY <1>3, <1>5, <3>1, <4>1 DEF ReadInv, WorkerLine
      <4> QED
        BY <1>1, <1>3, <3>1, <4>2 DEF RunsFrom
    <3>2. CASE i \notin 1..Len(tasks)
      <4>1. i = Len(tasks) + 1
        BY <1>3, <3>2
      <4>2. \A j \in 1..Len(tasks) : tasks[j] # 0
        BY <1>3, <2>1, <4>1
      <4>3. RunsFrom(readerHand, ByteBefore(i)) /\ ByteBefore(i)' = ByteBefore(i)
        BY <1>3, <1>5, <1>6, <1>7, <4>1, <4>2
      <4> QED
        BY <1>1, <1>3, <4>1, <4>3 DEF RunsFrom
    <3> QED
      BY <3>1, <3>2
  <2>2. \A i \in 1..Len(delivered') : delivered'[i] = i
    BY <1>1 DEF ReadInv, WorkerLine
  <2>3. workerAt' = "process" => RunsFrom(workerHand, Len(delivered))'
    BY <1>1 DEF ReadInv, WorkerLine, RunsFrom
  <2> QED
    BY <2>1, <2>2, <2>3 DEF WorkerLine
<1>9. ReaderLine'
  BY <1>1, <1>6 DEF ReaderLine
<1>10. SocketLine'
  <2>1. ASSUME canRead
        PROVE  Drawn' = Drawn
    <3>1. \A j \in 1..Len(tasks) : tasks[j] # 0
      <4>1. 0 \notin ToSet(tasks)
        BY <2>1 DEF InboundInv, ClosingTypes, WorkerUntold
      <4> QED
        BY <4>1, TasksAre
    <3>2. Lined' = Len(tasks) + 1
      <4>1. tasks'[Len(tasks')] # 0
        BY <1>2, <1>3
      <4> QED
        BY <1>3, <4>1 DEF Lined
    <3>3. PICK h \in 1..Made : h = readerHand
      BY <1>2
    <3>4. Reached' = LastByte(h)'
      <4>1. PICK i \in Nat : i = Len(tasks) + 2
        BY <1>3
      <4>2. i = Lined' + 1 /\ i # 1 /\ i - 1 = Len(tasks) + 1
        BY <1>3, <3>2, <4>1
      <4>3. Reached' = ByteBefore(i)'
        BY <4>2 DEF Reached, ByteBefore
      <4>4. tasks'[i - 1] = h
        BY <1>3, <3>3, <4>2
      <4> QED
        BY <4>2, <4>3, <4>4 DEF ByteBefore, LastByte
    <3>5. content[h].limit \in Nat /\ Reached \in Nat
      BY <1>1, <3>3, FilledBytes, BytesBefore DEF InboundInv, OnlyReceived
    <3>6. content[h].limit \in 1..content[h].limit
      BY <1>6, <3>3, <3>5 DEF RunsFrom
    <3>7. LastByte(h) = Reached + content[h].limit
      BY <1>6, <3>3, <3>6 DEF RunsFrom, LastByte
    <3>8. LastByte(h)' = LastByte(h)
      BY <1>1 DEF LastByte
    <3>9. Drawn = Reached + content[h].limit
      BY <1>1, <3>3 DEF Drawn
    <3>10. Drawn' = Reached' + 0
      BY <1>1, <1>6 DEF Drawn
    <3> QED
      BY <3>4, <3>5, <3>7, <3>8, <3>9, <3>10
  <2> QED
    BY <1>1, <2>1 DEF ReadInv, SocketLine, closing, receiving
<1> QED
  BY <1>8, <1>9, <1>10 DEF ReadInv

(* The first task goes to the worker's hand: the bytes of the others stay  *)
(* where they are in the line.                                             *)
LEMMA ReadBegins ==
    ASSUME InboundInv, ReadInv, WorkerTakes, Head(tasks) # 0
    PROVE  ReadInv'
<1> DEFINE h == Head(tasks)
<1>1. /\ workerAt = "idle" /\ workerAt' = "process" /\ workerHand' = h
      /\ tasks # <<>> /\ tasks' = Tail(tasks) /\ h # 0
      /\ UNCHANGED <<closing, receiving, reading, content, delivered>>
  BY DEF WorkerTakes
<1>2. /\ Len(tasks) \in Nat /\ Len(tasks) # 0 /\ Len(tasks') = Len(tasks) - 1
      /\ h = tasks[1]
      /\ \A i \in 1..(Len(tasks) - 1) : tasks'[i] = tasks[i + 1]
      /\ tasks' = <<>> <=> Len(tasks') = 0
  <2> DEFINE T == 0..Made
  <2>1. tasks \in Seq(T)
    BY DEF InboundInv, InboundTypes
  <2> HIDE DEF T
  <2> QED
    BY <1>1, <2>1, TailProperties, LenProperties, EmptySeq, HeadTailProperties
<1> HIDE DEF h
<1>3. \A i \in 1..1 : tasks[i] # 0
  BY <1>1, <1>2
<1>4. /\ RunsFrom(h, Len(delivered)) /\ Had = Len(delivered) /\ Had \in Nat
      /\ h \in 1..Made
  <2>1. Had = Len(delivered) /\ Had \in Nat
    BY <1>1, LineIs DEF Had
  <2>2. 1 \in 1..Len(tasks) /\ tasks[1] \in 0..Made
    BY <1>2, TasksAre
  <2>3. RunsFrom(tasks[1], ByteBefore(1))
    BY <1>3, <2>2 DEF ReadInv, WorkerLine
  <2> QED
    BY <1>1, <1>2, <2>1, <2>2, <2>3 DEF ByteBefore
<1>5. Had' = LastByte(h)
  <2>1. Filled(h)
    BY <1>1, <1>2, <1>4, TasksAre DEF InboundInv, OnlyReceived
  <2>2. content[h].limit \in 1..content[h].limit
    BY <1>4, <2>1, FilledBytes DEF InboundInv, RunsFrom
  <2>3. LastByte(h) = Len(delivered) + content[h].limit
    BY <1>4, <2>2 DEF RunsFrom, LastByte
  <2> QED
    BY <1>1, <2>3 DEF Had
<1>6. ASSUME NEW i \in 1..Len(tasks), NEW j \in 2..(Len(tasks) + 1), j = i + 1
      PROVE  ByteBefore(i)' = ByteBefore(j)
  <2>1. j # 1 /\ j - 1 = i
    BY <1>2, <1>6
  <2>2. CASE i = 1
    BY <1>2, <1>5, <2>1, <2>2 DEF ByteBefore
  <2>3. CASE i # 1
    <3>1. PICK k \in 1..(Len(tasks) - 1) : k = i - 1 /\ k + 1 = i
      BY <1>2, <2>3
    <3>2. tasks'[k] = tasks[i]
      BY <1>2, <3>1
    <3> QED
      BY <1>1, <2>1, <2>3, <3>1, <3>2 DEF ByteBefore, LastByte
  <2> QED
    BY <2>2, <2>3
<1>7. Lined' = Lined - 1 /\ Lined \in 1..Len(tasks)
  <2>1. CASE Len(tasks) = 1
    <3>1. Lined = 1
      BY <1>1, <1>2, <2>1, TasksAre
    <3>2. tasks' = <<>> /\ Len(tasks') = 0
      BY <1>2, <2>1
    <3>3. Lined' = 0
      BY <3>2 DEF Lined
    <3> QED
      BY <2>1, <3>1, <3>3
  <2>2. CASE Len(tasks) # 1
    <3>1. PICK n \in 1..(Len(tasks) - 1) : n = Len(tasks') /\ n + 1 = Len(tasks)
      BY <1>2, <2>2
    <3>2. tasks'[n] = tasks[Len(tasks)] /\ tasks' # <<>> /\ tasks # <<>>
      BY <1>1, <1>2, <3>1
    <3>3. CASE tasks[Len(tasks)] = 0
      <4>1. Lined = n /\ Lined' = n - 1
        BY <3>1, <3>2, <3>3 DEF Lined
      <4> QED
        BY <1>2, <3>1, <4>1
    <3>4. CASE tasks[Len(tasks)] # 0
      <4>1. Lined = Len(tasks) /\ Lined' = n
        BY <3>1, <3>2, <3>4 DEF Lined
      <4> QED
        BY <1>2, <3>1, <4>1
    <3> QED
      BY <3>3, <3>4
  <2> QED
    BY <2>1, <2>2
<1>8. Reached' = Reached
  <2>1. PICK i \in 1..Len(tasks), j \in 2..(Len(tasks) + 1) :
           j = i + 1 /\ i = Lined' + 1 /\ j = Lined + 1
    BY <1>2, <1>7
  <2>2. Reached' = ByteBefore(i)' /\ Reached = ByteBefore(j)
    BY <2>1 DEF Reached, ByteBefore
  <2> QED
    BY <1>6, <2>1, <2>2
<1>9. WorkerLine'
  <2>1. ASSUME NEW i \in 1..Len(tasks'), \A k \in 1..i : tasks'[k] # 0
        PROVE  RunsFrom(tasks[i], ByteBefore(i))'
    <3>1. PICK j \in 2..Len(tasks) : j = i + 1
      BY <1>2
    <3>2. ASSUME NEW k \in 1..j
          PROVE  tasks[k] # 0
      <4>1. CASE k = 1
        BY <1>1, <1>2, <4>1
      <4>2. CASE k # 1
        <5>1. PICK m \in 1..i : m = k - 1 /\ m + 1 = k
          BY <3>1, <4>2
        <5>2. tasks'[m] = tasks[k] /\ tasks'[m] # 0
          BY <1>2, <2>1, <3>1, <5>1
        <5> QED
          BY <5>2
      <4> QED
        BY <4>1, <4>2
    <3>3. RunsFrom(tasks[j], ByteBefore(j))
      BY <1>2, <3>1, <3>2 DEF ReadInv, WorkerLine
    <3>4. ByteBefore(i)' = ByteBefore(j) /\ tasks'[i] = tasks[j]
      BY <1>2, <1>6, <3>1
    <3> QED
      BY <1>1, <3>3, <3>4 DEF RunsFrom
  <2>2. \A i \in 1..Len(delivered') : delivered'[i] = i
    BY <1>1 DEF ReadInv, WorkerLine
  <2>3. RunsFrom(workerHand, Len(delivered))'
    BY <1>1, <1>4 DEF RunsFrom
  <2> QED
    BY <2>1, <2>2, <2>3 DEF WorkerLine
<1>10. ReaderLine'
  <2>1. ASSUME Bringing \/ readerAt = "offer", NEW i \in 1..(Len(tasks') - 1)
        PROVE  tasks'[i] # 0
    <3>1. PICK j \in 1..(Len(tasks) - 1) : j = i + 1
      BY <1>2
    <3> QED
      BY <1>2, <2>1, <3>1 DEF ReadInv, ReaderLine
  <2>2. (Bringing' <=> Bringing) /\ (canRead' <=> canRead)
    BY <1>1 DEF Bringing, reading, closing
  <2> QED
    BY <1>1, <1>8, <2>1, <2>2 DEF ReadInv, ReaderLine, RunsFrom, reading
<1>11. SocketLine'
  BY <1>1, <1>8 DEF ReadInv, SocketLine, Drawn, reading, closing, receiving
<1> QED
  BY <1>9, <1>10, <1>11 DEF ReadInv

(* The CLOSE event: what the reader still brings follows what the handler  *)
(* has, as no task was left before it.                                     *)
LEMMA ReadForgets ==
    ASSUME InboundInv, ReadInv, WorkerTakes, Head(tasks) = 0
    PROVE  ReadInv'
<1>1. /\ workerAt = "idle" /\ workerAt' = "idle" /\ workerHand' = workerHand
      /\ tasks # <<>> /\ tasks' = <<>> /\ Len(tasks') = 0
      /\ content' = [i \in 1..Made |->
                        IF i \in ToSet(Tail(tasks)) THEN NewBuffer ELSE content[i]]
      /\ UNCHANGED <<closing, receiving, reading, delivered>>
  BY EmptySeq DEF WorkerTakes, BufferReset
<1>2. /\ Len(tasks) \in Nat /\ Len(tasks) # 0 /\ tasks[1] = 0
      /\ ToSet(Tail(tasks)) \subseteq ToSet(tasks)
  <2> DEFINE T == 0..Made
  <2>1. tasks \in Seq(T)
    BY DEF InboundInv, InboundTypes
  <2> HIDE DEF T
  <2>2. ToSet(tasks) = {Head(tasks)} \cup ToSet(Tail(tasks))
    BY <1>1, <2>1, HeadTailElements
  <2> QED
    BY <1>1, <2>1, <2>2, TailProperties
<1>3. ~canRead /\ ~canRead'
  <2>1. 0 \in ToSet(tasks)
    <3>1. 1 \in 1..Len(tasks)
      BY <1>2
    <3> QED
      BY <1>2, <3>1, TasksAre
  <2> QED
    BY <1>1, <2>1 DEF InboundInv, ClosingTypes, WorkerUntold, closing
<1>4. Had' = Had /\ Had = Len(delivered) /\ Had \in Nat
  BY <1>1, LineIs DEF Had
<1>5. Lined' = 0 /\ Reached' = Had
  <2>1. Lined' = 0
    BY <1>1 DEF Lined
  <2> QED
    BY <1>4, <2>1 DEF Reached, ByteBefore
<1>6. Bringing \/ readerAt = "offer" => Reached = Had
  <2>1. ASSUME Bringing \/ readerAt = "offer"
        PROVE  Reached = Had
    <3>1. \A i \in 1..(Len(tasks) - 1) : tasks[i] # 0
      BY <2>1 DEF ReadInv, ReaderLine
    <3>2. Len(tasks) = 1
      <4>1. PICK n \in Nat : n = Len(tasks) /\ n # 0
        BY <1>2
      <4>2. n # 1 => 1 \in 1..(n - 1)
        BY <4>1
      <4> QED
        BY <1>2, <3>1, <4>1, <4>2
    <3>3. Lined = 0
      BY <1>1, <1>2, <3>2 DEF Lined
    <3> QED
      BY <3>3 DEF Reached, ByteBefore
  <2> QED
    BY <2>1
<1>7. readerAt = "offer" => content'[readerHand] = content[readerHand]
  <2>1. ASSUME readerAt = "offer"
        PROVE  readerHand \in 1..Made /\ readerHand \notin ToSet(tasks)
    BY <2>1 DEF InboundInv, InboundTypes, HandsBusy, OneHand, Hands
  <2> QED
    BY <1>1, <1>2, <2>1
<1>8. WorkerLine'
  BY <1>1 DEF ReadInv, WorkerLine
<1>9. ReaderLine'
  <2>1. /\ Bringing' <=> Bringing
        /\ UNCHANGED <<readBuffer, readerAt, readerHand>>
    BY <1>1 DEF Bringing, reading
  <2>2. \A i \in 1..(Len(tasks') - 1) : tasks'[i] # 0
    BY <1>1
  <2>3. Bringing' \/ readerAt' = "offer" => Reached' = Reached
    BY <1>5, <1>6, <2>1
  <2>4. readerAt' = "offer" => RunsFrom(readerHand, Reached)' /\ readBuffer'.position = 0
    BY <1>7, <2>1, <2>3 DEF ReadInv, ReaderLine, RunsFrom
  <2>5. Bringing' => /\ readBuffer'.position >= 1
                     /\ \A k \in 1..readBuffer'.position : readBuffer'.data[k] = Reached' + k
    BY <2>1, <2>3 DEF ReadInv, ReaderLine
  <2> QED
    BY <1>3, <2>2, <2>4, <2>5 DEF ReaderLine
<1>10. SocketLine'
  BY <1>3 DEF SocketLine
<1> QED
  BY <1>8, <1>9, <1>10 DEF ReadInv

(* The handler has what was in the worker's hand.                          *)
LEMMA ReadProcesses == InboundInv /\ ReadInv /\ Process => ReadInv'
<1> SUFFICES ASSUME InboundInv, ReadInv, Process PROVE ReadInv'
  OBVIOUS
<1> DEFINE n == Len(delivered)
           m == content[workerHand].limit
           bytes == Rest(content[workerHand])
<1>1. /\ workerAt = "process" /\ workerAt' = "release"
      /\ delivered' = delivered \o bytes
      /\ UNCHANGED <<closing, receiving, reading, content, tasks, workerHand>>
  BY DEF Process, pooled
<1>2. InboundTypes /\ workerHand \in 1..Made /\ Filled(workerHand)
  BY <1>1 DEF InboundInv, InboundTypes, HandsBusy, OnlyReceived
<1>3. /\ n \in Nat /\ m \in Nat
      /\ Len(delivered') = n + m
      /\ \A i \in 1..(n + m) : delivered'[i] = IF i <= n THEN delivered[i] ELSE bytes[i - n]
      /\ \A k \in 1..m : bytes[k] = n + k
  <2> DEFINE S == 1..load[1]
  <2>1. /\ delivered \in Seq(S) /\ bytes \in Seq(S) /\ Len(bytes) = m
        /\ m \in Nat /\ \A k \in 1..m : bytes[k] = content[workerHand].data[k]
    BY <1>2, FilledBytes DEF InboundTypes
  <2>2. \A k \in 1..m : bytes[k] = n + k
    BY <1>1, <2>1 DEF ReadInv, WorkerLine, RunsFrom
  <2> HIDE DEF S, bytes, m
  <2>3. n \in Nat
    BY <2>1, LenProperties
  <2> HIDE DEF n
  <2>4. /\ Len(delivered') = n + m
        /\ \A i \in 1..(n + m) : delivered'[i] = IF i <= n THEN delivered[i] ELSE bytes[i - n]
    BY <1>1, <2>1, ConcatProperties DEF n
  <2> QED
    BY <2>1, <2>2, <2>3, <2>4
<1>4. ASSUME NEW i \in 1..Len(delivered')
      PROVE  delivered'[i] = i
  <2> HIDE DEF n, m, bytes
  <2>1. CASE i <= n
    BY <1>3, <2>1 DEF ReadInv, WorkerLine, n
  <2>2. CASE ~(i <= n)
    <3>1. PICK k \in 1..m : k = i - n /\ i = n + k
      BY <1>3, <2>2
    <3> QED
      BY <1>3, <2>2, <3>1
  <2> QED
    BY <2>1, <2>2
<1>5. Had' = Had
  BY <1>1, <1>3 DEF Had
<1>6. TasksRun' /\ Lined' = Lined /\ (Open => Reached' = Reached)
  BY <1>1, <1>5, TasksStay
<1>7. WorkerLine'
  BY <1>1, <1>4, <1>6 DEF WorkerLine, TasksRun
<1>8. ReaderLine' /\ SocketLine'
  <2>1. /\ Bringing' <=> Bringing
        /\ canRead' <=> canRead
        /\ UNCHANGED <<readBuffer, readerAt, readerHand, inbox, sent, content, tasks>>
    BY <1>1 DEF Bringing, reading, closing, receiving
  <2>2. Open => Drawn' = Drawn
    BY <1>6, <2>1 DEF Drawn
  <2>3. ReaderLine'
    BY <1>6, <2>1 DEF ReadInv, ReaderLine, RunsFrom, Open
  <2>4. SocketLine'
    BY <2>1, <2>2 DEF ReadInv, SocketLine, Open
  <2> QED
    BY <2>3, <2>4
<1> QED
  BY <1>7, <1>8 DEF ReadInv

(* A buffer that goes back to the pool is in nobody's line any more.       *)
LEMMA ReadReleases == InboundInv /\ ReadInv /\ Release => ReadInv'
<1> SUFFICES ASSUME InboundInv, ReadInv, Release PROVE ReadInv'
  OBVIOUS
<1>1. /\ workerAt = "release" /\ workerAt' = "idle"
      /\ content' = [content EXCEPT ![workerHand] = NewBuffer]
      /\ UNCHANGED <<closing, receiving, reading, tasks, delivered>>
  BY DEF Release, BufferReset
<1>2. InboundTypes /\ workerHand \in 1..Made
  BY <1>1 DEF InboundInv, InboundTypes, HandsBusy
<1>3. \A c \in (1..Made) \ {workerHand} : content'[c] = content[c]
  BY <1>1, <1>2, NewBufferIs, OneBufferSet
<1>4. workerHand \notin ToSet(tasks) /\ workerHand # readerHand
  BY <1>2 DEF InboundInv, OneHand, Hands
<1>5. Had' = Had
  BY <1>1 DEF Had
<1>6. TasksRun' /\ Lined' = Lined /\ (Open => Reached' = Reached)
  BY <1>1, <1>3, <1>4, <1>5, TasksStay
<1>7. WorkerLine'
  BY <1>1, <1>6 DEF ReadInv, WorkerLine, TasksRun
<1>8. ReaderLine' /\ SocketLine'
  <2>1. /\ Bringing' <=> Bringing
        /\ canRead' <=> canRead
        /\ UNCHANGED <<readBuffer, readerAt, readerHand, inbox, sent, tasks>>
        /\ readerAt = "offer" => content'[readerHand] = content[readerHand]
    BY <1>1, <1>2, <1>3, <1>4
    DEF Bringing, reading, closing, receiving, InboundInv, InboundTypes, HandsBusy
  <2>2. Open => Drawn' = Drawn
    BY <1>6, <2>1 DEF Drawn
  <2>3. ReaderLine'
    BY <1>6, <2>1 DEF ReadInv, ReaderLine, RunsFrom, Open
  <2>4. SocketLine'
    BY <2>1, <2>2 DEF ReadInv, SocketLine, Open
  <2> QED
    BY <2>3, <2>4
<1> QED
  BY <1>7, <1>8 DEF ReadInv

LEMMA ReadStep == InboundInv /\ ReadInv /\ [Next]_vars => ReadInv'
<1> SUFFICES ASSUME InboundInv, ReadInv, [Next]_vars PROVE ReadInv'
  OBVIOUS
<1>1. CASE Peer
  BY <1>1, ReadPeer
<1>2. CASE Outbounds \/ Closes \/ UNCHANGED vars
  <2>1. ClosingMoves /\ UNCHANGED inboundVars
    <3>1. CASE Outbounds \/ Closes
      BY <3>1, OtherSteps DEF InboundInv
    <3>2. CASE UNCHANGED vars
      BY <3>2 DEF ClosingMoves, vars
    <3> QED
      BY <1>2, <3>1, <3>2
  <2>2. canRead' => canRead
    BY <2>1, ClosingMoved DEF InboundInv
  <2> QED
    BY <2>1, <2>2, ReadStays
<1>3. CASE TellWorker
  BY <1>3, ReadTold
<1>4. CASE \E n \in 1..BufferSize : ReceiveData(n)
  BY <1>4, ReadReceives
<1>5. CASE TestClosed \/ Allocate \/ Grow \/ AllocateAgain
  BY <1>5, ReadMoves
<1>6. CASE Copy
  BY <1>6, ReadCopies
<1>7. CASE Offer
  BY <1>7, ReadOffers
<1>8. CASE WorkerTakes
  BY <1>8, ReadBegins, ReadForgets
<1>9. CASE Process
  BY <1>9, ReadProcesses
<1>10. CASE Release
  BY <1>10, ReadReleases
<1> QED
  BY <1>1, <1>2, <1>3, <1>4, <1>5, <1>6, <1>7, <1>8, <1>9, <1>10
  DEF Next, User, Tell, Reader, Worker, Outbounds, Closes

-----------------------------------------------------------------------------
(* 7. What the invariants say of the properties.                            *)

LEMMA PoolIsKept == InboundInv /\ OutboundInv => PoolKept
BY DEF InboundInv, OutboundInv, PoolKept, TypeOK, InboundTypes, OutboundTypes, ClosingTypes

LEMMA InterestIsCounted == OutboundInv => InterestCounted
BY DEF OutboundInv, Counted, Due, InterestCounted, Left

LEMMA IsWrittenInOrder == OutboundInv => WrittenInOrder
<1> SUFFICES ASSUME OutboundInv PROVE WrittenInOrder
  OBVIOUS
<1> DEFINE rest == Rest(writeBuffer)
           n == Len(wire)
           m == writeBuffer.limit - writeBuffer.position
<1>1. /\ wire \in Seq(Nat) /\ n \in Nat /\ put \in Nat
      /\ put = n + m
      /\ \A i \in 1..n : wire[i] = i
      /\ \A k \in 1..m : writeBuffer.data[writeBuffer.position + k] = n + k
  BY LenProperties DEF OutboundInv, OutboundTypes, Wrote
<1>2. /\ rest \in Seq(Nat) /\ Len(rest) = m /\ m \in Nat
      /\ \A k \in 1..m : rest[k] = n + k
  <2>1. writeBuffer \in Buffers(Nat) /\ writeBuffer.position <= writeBuffer.limit
    BY DEF OutboundInv, OutboundTypes
  <2>2. /\ writeBuffer.position \in Nat /\ writeBuffer.limit \in Nat
        /\ Nat \cup {0} = Nat
    BY <2>1, BufferIs
  <2>3. /\ rest \in Seq(Nat \cup {0}) /\ Len(rest) = m
        /\ \A k \in 1..m : rest[k] = writeBuffer.data[writeBuffer.position + k]
    BY <2>1, RestElements
  <2>4. m \in Nat
    BY <2>1, <2>2
  <2> HIDE DEF rest, m, n
  <2>5. \A k \in 1..m : rest[k] = n + k
    BY <1>1, <2>3
  <2> QED
    BY <2>2, <2>3, <2>4, <2>5
<1> HIDE DEF rest, m
<1>3. /\ wire \o rest \in Seq(Nat) /\ Len(wire \o rest) = n + m
      /\ \A i \in 1..(n + m) : (wire \o rest)[i] = IF i <= n THEN wire[i] ELSE rest[i - n]
  BY <1>1, <1>2, ConcatProperties
<1>4. ASSUME NEW i \in 1..put
      PROVE  (wire \o rest)[i] = i
  <2> HIDE DEF n
  <2>1. CASE i <= n
    BY <1>1, <1>2, <1>3, <2>1
  <2>2. CASE ~(i <= n)
    <3>1. n \in Nat /\ m \in Nat /\ put = n + m
      BY <1>1, <1>2
    <3>2. i - n \in 1..m /\ i = n + (i - n) /\ i \in 1..(n + m)
      BY <2>2, <3>1
    <3>3. (wire \o rest)[i] = rest[i - n]
      BY <1>3, <2>2, <3>2
    <3> QED
      BY <1>2, <3>2, <3>3
  <2> QED
    BY <2>1, <2>2
<1>5. Numbers(put) \in Seq(Nat) /\ Len(Numbers(put)) = put /\ \A i \in 1..put : Numbers(put)[i] = i
  <2>1. Numbers(put) \in [1..put -> Nat]
    BY <1>1 DEF Numbers
  <2>2. \A i \in 1..put : Numbers(put)[i] = i
    BY DEF Numbers
  <2> QED
    BY <1>1, <2>1, <2>2, RewrittenProperties
<1>6. wire \o rest = Numbers(put)
  BY <1>1, <1>3, <1>4, <1>5, SeqEqual
<1> QED
  BY <1>6 DEF WrittenInOrder, rest

(* A buffer of the line, as the bytes the handler will read from it.       *)
LEMMA BytesOfRun ==
    ASSUME InboundInv, NEW b \in 1..Made, Filled(b), NEW n \in Nat, RunsFrom(b, n)
    PROVE  /\ BytesOf(b) # <<>> /\ After(n, BytesOf(b))
           /\ BytesOf(b) \in Seq(1..load[1])
           /\ Len(BytesOf(b)) = content[b].limit /\ content[b].limit \in Nat
           /\ Last(BytesOf(b)) = LastByte(b)
           /\ LastByte(b) = n + content[b].limit
<1> DEFINE m == content[b].limit
<1>1. BytesOf(b) = Rest(content[b])
  <2>1. b # 0
    BY LoadIs DEF InboundInv
  <2> QED
    BY <2>1 DEF BytesOf
<1>2. /\ BytesOf(b) \in Seq(1..load[1]) /\ Len(BytesOf(b)) = m /\ m \in Nat
      /\ \A k \in 1..m : BytesOf(b)[k] = content[b].data[k]
  BY <1>1, FilledBytes DEF InboundInv
<1>3. m >= 1 /\ \A k \in 1..m : content[b].data[k] = n + k
  BY DEF RunsFrom
<1>4. DOMAIN BytesOf(b) = 1..m
  BY <1>2, LenProperties
<1>5. BytesOf(b) # <<>>
  BY <1>2, <1>3, EmptySeq
<1>6. After(n, BytesOf(b))
  BY <1>2, <1>3, <1>4 DEF After
<1>7. m \in 1..m
  BY <1>2, <1>3
<1>8. LastByte(b) = n + m /\ Last(BytesOf(b)) = LastByte(b)
  BY <1>2, <1>3, <1>7 DEF LastByte, Last
<1> QED
  BY <1>2, <1>5, <1>6, <1>8

(* What the worker has begun with.                                         *)
LEMMA BegunIs ==
    ASSUME InboundInv, ReadInv
    PROVE  After(0, delivered) /\ After(0, Begun) /\ Len(Begun) = Had
<1> DEFINE S == 1..load[1]
           n == Len(delivered)
           bytes == InHand("process")
           m == Len(bytes)
<1>1. /\ delivered \in Seq(S) /\ n \in Nat /\ DOMAIN delivered = 1..n
      /\ \A i \in 1..n : delivered[i] = i
  BY LenProperties DEF InboundInv, InboundTypes, ReadInv, WorkerLine
<1>2. After(0, delivered)
  BY <1>1 DEF After
<1>3. bytes \in Seq(S) /\ (\A k \in 1..m : bytes[k] = n + k) /\ m \in Nat /\ Had = n + m
  <2>1. CASE workerAt = "process"
    <3>1. workerHand \in 1..Made /\ Filled(workerHand) /\ RunsFrom(workerHand, n)
      BY <2>1 DEF InboundInv, InboundTypes, HandsBusy, OnlyReceived, ReadInv, WorkerLine
    <3>2. bytes = BytesOf(workerHand)
      BY <2>1 DEF InHand
    <3>3. /\ bytes \in Seq(S) /\ After(n, bytes)
          /\ m = content[workerHand].limit /\ m \in Nat
      BY <1>1, <3>1, <3>2, BytesOfRun
    <3>4. DOMAIN bytes = 1..m
      BY <3>3, LenProperties
    <3> QED
      BY <2>1, <3>3, <3>4 DEF After, Had
  <2>2. CASE workerAt # "process"
    <3>1. bytes = <<>> /\ m = 0
      BY <2>2, EmptySeq DEF InHand
    <3>2. Had = n + 0
      BY <2>2 DEF Had
    <3> HIDE DEF S, bytes, m
    <3>3. bytes \in Seq(S)
      BY <3>1, EmptySeq
    <3> QED
      BY <1>1, <3>1, <3>2, <3>3
  <2> QED
    BY <2>1, <2>2
<1>4. Begun = delivered \o bytes
  BY DEF Begun
<1> HIDE DEF S, bytes
<1>5. /\ Begun \in Seq(S) /\ Len(Begun) = n + m
      /\ \A i \in 1..(n + m) : Begun[i] = IF i <= n THEN delivered[i] ELSE bytes[i - n]
  BY <1>1, <1>3, <1>4, ConcatProperties
<1>6. DOMAIN Begun = 1..(n + m)
  BY <1>5, LenProperties
<1> HIDE DEF n, m
<1>7. ASSUME NEW i \in 1..(n + m)
      PROVE  Begun[i] = i
  <2>1. CASE i <= n
    BY <1>1, <1>3, <1>5, <2>1
  <2>2. CASE ~(i <= n)
    <3>1. PICK k \in 1..m : k = i - n /\ i = n + k
      BY <1>1, <1>3, <2>2
    <3> QED
      BY <1>1, <1>3, <1>5, <2>2, <3>1
  <2> QED
    BY <2>1, <2>2
<1>8. After(0, Begun)
  BY <1>1, <1>3, <1>6, <1>7 DEF After
<1> QED
  BY <1>2, <1>3, <1>5, <1>8

(* What no buffer of the pool has: the read buffer, then the socket.       *)
LEMMA UnreadIs ==
    ASSUME InboundInv, NEW n \in Nat,
           \A k \in 1..readBuffer.position : readBuffer.data[k] = n + k,
           \A k \in 1..Len(inbox) : inbox[k] = n + readBuffer.position + k
    PROVE  After(n, Unread) /\ Len(Unread) = readBuffer.position + Len(inbox)
<1> DEFINE S == (1..load[1]) \cup {0}
           got == Received(readBuffer)
           p == readBuffer.position
           m == Len(inbox)
<1>1. inbox \in Seq(1..load[1]) /\ readBuffer \in Buffers(1..load[1])
  BY DEF InboundInv, InboundTypes
<1>2. inbox \in Seq(S) /\ m \in Nat
  <2>1. 1..load[1] \subseteq S
    OBVIOUS
  <2> HIDE DEF S
  <2> QED
    BY <1>1, <2>1, SeqMonotonic, LenProperties
<1>3. p \in 0..BufferSize /\ \A i \in 1..BufferSize : readBuffer.data[i] \in S
  BY <1>1, BufferIs
<1>4. /\ got \in Seq(S) /\ Len(got) = p
      /\ \A k \in 1..p : got[k] = n + k
  <2>1. got = SubSeq(readBuffer.data, 1, p)
    BY DEF Received
  <2>2. \A i \in 1..p : readBuffer.data[i] \in S
    BY <1>3
  <2>3. p \in Nat /\ p - 1 + 1 = p
    BY <1>3
  <2> HIDE DEF S, p, got
  <2>4. /\ SubSeq(readBuffer.data, 1, p) \in Seq(S)
        /\ Len(SubSeq(readBuffer.data, 1, p)) = IF 1 <= p THEN p - 1 + 1 ELSE 0
        /\ \A k \in 1..(p - 1 + 1) : SubSeq(readBuffer.data, 1, p)[k] = readBuffer.data[1 + k - 1]
    BY <2>2, <2>3, SubSeqProperties
  <2>5. Len(got) = p
    BY <2>1, <2>3, <2>4
  <2>6. \A k \in 1..p : got[k] = readBuffer.data[k]
    BY <2>1, <2>3, <2>4
  <2> QED
    BY <2>1, <2>4, <2>5, <2>6 DEF p
<1>5. Unread = got \o inbox /\ m = Len(inbox) /\ p \in Nat
  BY <1>3 DEF Unread
<1>6. \A k \in 1..m : inbox[k] = n + p + k
  OBVIOUS
<1> HIDE DEF S, got, p, m
<1>7. /\ Unread \in Seq(S) /\ Len(Unread) = p + m
      /\ \A i \in 1..(p + m) : Unread[i] = IF i <= p THEN got[i] ELSE inbox[i - p]
  <2>1. inbox \in Seq(S) /\ got \in Seq(S) /\ Len(got) = p /\ Len(inbox) = m
    BY <1>2, <1>4, <1>5
  <2>2. /\ got \o inbox \in Seq(S)
        /\ Len(got \o inbox) = Len(got) + Len(inbox)
        /\ \A i \in 1..(Len(got) + Len(inbox)) :
              (got \o inbox)[i] = IF i <= Len(got) THEN got[i] ELSE inbox[i - Len(got)]
    BY <2>1, ConcatProperties
  <2> QED
    BY <1>5, <2>1, <2>2
<1>8. DOMAIN Unread = 1..(p + m)
  BY <1>7, LenProperties
<1>9. ASSUME NEW i \in 1..(p + m)
      PROVE  Unread[i] = n + i
  <2>1. CASE i <= p
    BY <1>2, <1>4, <1>5, <1>7, <2>1
  <2>2. CASE ~(i <= p)
    <3>1. PICK k \in 1..m : k = i - p /\ i = p + k
      BY <1>2, <1>5, <2>2
    <3>2. Unread[i] = inbox[k]
      BY <1>7, <2>2, <3>1
    <3>3. inbox[k] = n + p + k
      BY <1>6
    <3>4. p \in Nat /\ m \in Nat
      BY <1>2, <1>5
    <3>5. n + p + k = n + i
      BY <3>1, <3>4
    <3> QED
      BY <3>2, <3>3, <3>5
  <2> QED
    BY <2>1, <2>2
<1> QED
  BY <1>7, <1>8, <1>9 DEF After, p, m

LEMMA IsReadInOrder == InboundInv /\ ReadInv => ReadInOrder
<1> SUFFICES ASSUME InboundInv, ReadInv PROVE ReadInOrder
  OBVIOUS
<1>1. After(0, delivered) /\ After(0, Begun) /\ Len(Begun) = Had
  BY BegunIs
<1>2. SUFFICES ASSUME canRead
               PROVE  /\ \A i \in DOMAIN Coming :
                            /\ BytesOf(Coming[i]) # <<>>
                            /\ After(Preceding(i), BytesOf(Coming[i]))
                      /\ After(Preceding(Len(Coming) + 1), Unread)
                      /\ sent = Preceding(Len(Coming) + 1) + Len(Unread)
  BY <1>1 DEF ReadInOrder
<1> DEFINE n == Len(tasks)
<1>3. /\ n \in Nat /\ Open
      /\ \A i \in 1..n : tasks[i] \in 1..Made /\ Filled(tasks[i])
  <2>1. 0 \notin ToSet(tasks)
    BY <1>2 DEF InboundInv, ClosingTypes, WorkerUntold
  <2>2. ASSUME NEW i \in 1..n
        PROVE  tasks[i] \in 1..Made /\ Filled(tasks[i])
    <3>1. tasks[i] \in 0..Made /\ tasks[i] \in ToSet(tasks) /\ tasks[i] # 0 /\ Made \in Nat
      BY <2>1, TasksAre, LoadIs DEF InboundInv
    <3> QED
      BY <3>1 DEF InboundInv, OnlyReceived
  <2>3. n \in Nat /\ Open
    BY <1>2, TasksAre DEF Open
  <2> QED
    BY <2>2, <2>3
<1>4. ASSUME NEW i \in 1..n
      PROVE  /\ BytesOf(tasks[i]) # <<>> /\ After(ByteBefore(i), BytesOf(tasks[i]))
             /\ Last(BytesOf(tasks[i])) = LastByte(tasks[i])
  <2>1. \A j \in 1..n : tasks[j] # 0
    BY <1>3
  <2>2. (\A j \in 1..i : tasks[j] # 0) /\ i \in 1..(n + 1) /\ \A j \in 1..(i - 1) : tasks[j] # 0
    BY <1>3, <2>1
  <2>3. RunsFrom(tasks[i], ByteBefore(i)) /\ ByteBefore(i) \in Nat
    BY <2>2, LineIs, BytesBefore
  <2> QED
    BY <1>3, <2>3, BytesOfRun
<1>5. Reached = ByteBefore(n + 1) /\ Reached \in Nat
  <2>1. Lined = n
    <3>1. n # 0 => n \in 1..n
      BY <1>3
    <3>2. n # 0 => tasks[n] # 0
      BY <1>3, <3>1
    <3> QED
      BY <3>2, TasksAre
  <2> QED
    BY <1>3, <2>1, BytesBefore DEF Reached
<1>6. /\ \A k \in 1..readBuffer.position : readBuffer.data[k] = Reached + k
      /\ \A k \in 1..Len(inbox) : inbox[k] = Drawn + k
      /\ sent = Drawn + Len(inbox)
  BY <1>2 DEF ReadInv, ReaderLine, SocketLine
<1>7. readBuffer.position \in Nat /\ Len(inbox) \in Nat
  <2>1. readBuffer \in Buffers(1..load[1]) /\ inbox \in Seq(1..load[1])
    BY DEF InboundInv, InboundTypes
  <2> QED
    BY <2>1, BufferIs, LenProperties
<1> HIDE DEF n
<1>8. CASE readerAt # "offer"
  <2>1. Coming = tasks /\ DOMAIN tasks = 1..n /\ Len(tasks) = n
    BY <1>8, TasksAre DEF Coming, n
  <2>2. ASSUME NEW i \in 1..(n + 1)
        PROVE  Preceding(i) = ByteBefore(i)
    <3>1. CASE i = 1
      BY <1>1, <3>1 DEF Preceding, ByteBefore
    <3>2. CASE i # 1
      <4>1. PICK j \in 1..n : j = i - 1
        BY <1>3, <3>2
      <4> QED
        BY <1>4, <2>1, <3>2, <4>1 DEF Preceding, ByteBefore
    <3> QED
      BY <3>1, <3>2
  <2>3. ASSUME NEW i \in 1..n
        PROVE  BytesOf(Coming[i]) # <<>> /\ After(Preceding(i), BytesOf(Coming[i]))
    <3>1. i \in 1..(n + 1)
      BY <1>3
    <3> QED
      BY <1>4, <2>1, <2>2, <3>1
  <2>4. Preceding(n + 1) = Reached
    <3>1. n + 1 \in 1..(n + 1)
      BY <1>3
    <3> QED
      BY <1>5, <2>2, <3>1
  <2>5. Drawn = Reached + readBuffer.position
    BY <1>8 DEF Drawn
  <2>6. After(Reached, Unread) /\ Len(Unread) = readBuffer.position + Len(inbox)
    BY <1>5, <1>6, <2>5, UnreadIs
  <2>7. sent = Reached + Len(Unread)
    BY <1>5, <1>6, <1>7, <2>5, <2>6
  <2> QED
    BY <2>1, <2>3, <2>4, <2>6, <2>7
<1>9. CASE readerAt = "offer"
  <2> DEFINE m == content[readerHand].limit
  <2>1. /\ readerHand \in 1..Made /\ Filled(readerHand) /\ RunsFrom(readerHand, Reached)
        /\ readBuffer.position = 0
    BY <1>9 DEF InboundInv, InboundTypes, HandsBusy, OnlyReceived, ReadInv, ReaderLine
  <2>2. /\ BytesOf(readerHand) # <<>> /\ After(Reached, BytesOf(readerHand))
        /\ Last(BytesOf(readerHand)) = Reached + m /\ m \in Nat
    BY <1>5, <2>1, BytesOfRun
  <2>3. /\ Coming = Append(tasks, readerHand)
        /\ Len(Coming) = n + 1 /\ DOMAIN Coming = 1..(n + 1)
        /\ \A i \in 1..n : Coming[i] = tasks[i]
        /\ Coming[n + 1] = readerHand
    <3> DEFINE T == 0..Made
    <3>1. tasks \in Seq(T) /\ readerHand \in T /\ Coming = Append(tasks, readerHand)
      BY <1>9 DEF InboundInv, InboundTypes, Coming
    <3> HIDE DEF T
    <3> QED
      BY <3>1, AppendProperties, LenProperties DEF n
  <2>4. ASSUME NEW i \in 1..(n + 1)
        PROVE  Preceding(i) = ByteBefore(i)
    <3>1. CASE i = 1
      BY <1>1, <3>1 DEF Preceding, ByteBefore
    <3>2. CASE i # 1
      <4>1. PICK j \in 1..n : j = i - 1
        BY <1>3, <3>2
      <4> QED
        BY <1>4, <2>3, <3>2, <4>1 DEF Preceding, ByteBefore
    <3> QED
      BY <3>1, <3>2
  <2>5. Preceding(n + 1) = Reached
    <3>1. n + 1 \in 1..(n + 1)
      BY <1>3
    <3> QED
      BY <1>5, <2>4, <3>1
  <2>6. ASSUME NEW i \in 1..(n + 1)
        PROVE  BytesOf(Coming[i]) # <<>> /\ After(Preceding(i), BytesOf(Coming[i]))
    <3>1. i \in 1..n \/ i = n + 1
      BY <1>3
    <3> QED
      BY <1>4, <2>2, <2>3, <2>4, <2>5, <3>1
  <2>7. Preceding(n + 1 + 1) = Reached + m
    <3>1. PICK i \in Nat, j \in Nat : i = n + 1 + 1 /\ j = n + 1 /\ i # 1 /\ i - 1 = j
      BY <1>3
    <3> QED
      BY <2>2, <2>3, <3>1 DEF Preceding
  <2>8. Drawn = Reached + m
    BY <1>9 DEF Drawn
  <2> HIDE DEF m
  <2>9. PICK q \in Nat : q = Reached + m
    BY <1>5, <2>2
  <2>10. /\ \A k \in 1..readBuffer.position : readBuffer.data[k] = q + k
         /\ \A k \in 1..Len(inbox) : inbox[k] = q + readBuffer.position + k
    BY <1>6, <2>1, <2>8, <2>9
  <2>11. After(q, Unread) /\ Len(Unread) = readBuffer.position + Len(inbox)
    BY <2>10, UnreadIs
  <2>12. sent = q + Len(Unread)
    BY <1>6, <1>7, <2>1, <2>8, <2>9, <2>11
  <2> QED
    BY <2>3, <2>6, <2>7, <2>9, <2>11, <2>12
<1> QED
  BY <1>8, <1>9

-----------------------------------------------------------------------------
(* 8. The theorems.                                                         *)

LEMMA Inductive == Spec => [](InboundInv /\ OutboundInv /\ ReadInv)
<1>1. Init => InboundInv /\ OutboundInv /\ ReadInv
  BY InboundInit, OutboundInit, ReadInit
<1>2. InboundInv /\ OutboundInv /\ ReadInv /\ [Next]_vars => (InboundInv /\ OutboundInv /\ ReadInv)'
  BY InboundStep, OutboundStep, ReadStep
<1> QED
  BY <1>1, <1>2, PTL DEF Spec

(* AllocateBuffer, ReleaseBuffer and RemoveAll on CLOSE never lose a       *)
(* buffer of the worker's pool nor put one in two places, whatever the     *)
(* reader and the worker interleave; the pool grows by a batch only when   *)
(* all its buffers were out; and no buffer's position or limit leaves it.  *)
THEOREM TransferPool == Spec => []PoolKept
<1>1. InboundInv /\ OutboundInv => PoolKept
  BY PoolIsKept
<1> QED
  BY <1>1, Inductive, PTL

(* The WRITE handler is never called more often than EnableWriteInterest   *)
(* asked for, the events that are still in the writer's queue counted with *)
(* the calls, whoever closes, reopens and closes the connection again; and *)
(* until it is CLOSED for the first time exactly as often: an event that   *)
(* WriterRun puts back after a partial send is used for the bytes that are *)
(* left, and no other is lost.                                             *)
THEOREM TransferCounts == Spec => []InterestCounted
<1>1. OutboundInv => InterestCounted
  BY InterestIsCounted
<1> QED
  BY <1>1, Inductive, PTL

(* The bytes ConnectionRead takes from the socket come to the READ handler *)
(* in order and each once, all of them as long as canRead is set; those    *)
(* the WRITE handler puts go to the socket in order, and ConnectionWrite   *)
(* keeps what a send did not take.                                         *)
THEOREM TransferInOrder == Spec => []BytesInOrder
<1>1. InboundInv /\ OutboundInv /\ ReadInv => BytesInOrder
  BY IsReadInOrder, IsWrittenInOrder DEF BytesInOrder
<1> QED
  BY <1>1, Inductive, PTL
=============================================================================
