---------------------------- MODULE ClientProofs ----------------------------
(***************************************************************************)
(* What module Client promises, proved for any number of connections and   *)
(* retries, any closings of the user and peers that may hang up at any     *)
(* time: its types, and how many connections it makes.                     *)
(*                                                                         *)
(* While a connection is being opened there is one trace of it anywhere:   *)
(* a step on one agenda, an event in the client's queue, or the signatures *)
(* that are still due.  Whatever closes it meanwhile leaves no second, so  *)
(* that the connection is CONNECTED once, and the client is told so once.  *)
(***************************************************************************)
EXTENDS Client, SequenceLemmas, FiniteSetTheorems

USE ClientAssumption

(* What thread t has still to do.                                          *)
Pending(t) == ToSet(agenda[t])

(* The steps that the threads may come to have on their agendas.           *)
Ops == {"state", "fire", "sign", "release", "free", "blame", "offer", "hook", "decide", "exit", "join"}
Arguments == States \cup Threads \cup {"nothing", "failed", "noted", "disconnected", "error", "clean"}
Steps == [op : Ops, conn : 0..MaxConns, arg : Arguments]

Formed(x) ==
    \/ x.op = "state" /\ x.conn \in 1..made /\ x.arg \in States \ {"NONE"}
    \/ x.op \in {"fire", "free", "offer"} /\ x.conn \in 1..made
    \/ x.op = "release" /\ x.conn \in 1..made /\ x.arg \in Threads
    \/ x.op \in {"sign", "hook"} /\ x.conn \in 1..made /\ x.arg \in Pipe
    \/ x.op = "blame" /\ x.conn \in 1..made
    \/ x.op = "decide" /\ x.conn = 0
    \/ x.op \in {"exit", "join"} /\ x.conn = 0 /\ x.arg \in Pipe

Agendas ==
    /\ agenda \in [Threads -> Seq(Steps)]
    /\ \A t \in Threads : \A x \in Pending(t) : Formed(x)

-----------------------------------------------------------------------------
Opens(x) == x.op = "state" /\ x.arg \in {"INITIALIZED", "CONNECTING", "CONNECTED"}
Manages(x) == x.op \in {"offer", "hook", "sign"}
Decides(x) == x.op = "decide"

\* A step that neither opens nor hands over, and makes no other connection.
Calm(x) == ~Opens(x) /\ ~Manages(x) /\ ~Decides(x)

ManageFrom(n, k) == SubSeq(Manage(n), k, 6)

(* These are the first and the last that a thread does, but for the        *)
(* connection a client gives up before it decides.                         *)
FormAt(t) == \A x \in Pending(t) :
    /\ Opens(x) => agenda[t] = <<x>>
    /\ Manages(x) => \/ t = "client" /\ \E k \in 1..6 : agenda[t] = ManageFrom(x.conn, k)
                     \/ t = "reader" /\ x = Do("sign", x.conn, "reader") /\ agenda[t] = <<x>>
    /\ Decides(x) =>
          /\ t = "client"
          /\ \/ agenda[t] = <<x>>
             \/ \E y \in Steps : y.op \in {"release", "free"} /\ agenda[t] = <<y, x>>

Forms == \A t \in Threads : FormAt(t)

(* The three kinds of trace of connection n.                               *)
OpenedBy(t, n) == \E x \in Pending(t) : Opens(x) /\ x.conn = n
Opening(n) == \E t \in Threads : OpenedBy(t, n)
Heard(e, n) == Event(e, n) \in ToSet(events)
Asked(n) == Heard("INIT", n) \/ Heard("CONNECTING", n)
Offers(n) == Do("offer", n, "nothing") \in Pending("client")
Offered(n) == Event("DATA", n) \in ToSet(queue["reader"])
Signs(t, n, q) == Do("sign", n, q) \in Pending(t)
Managing(n) ==
    \/ \E x \in Pending("client") : Manages(x) /\ x.conn = n
    \/ Offered(n) \/ Signs("reader", n, "reader")
Unsettled(n) == Opening(n) \/ Asked(n) \/ Managing(n)

\* It is not in the hands of the pipe yet.
Early(n) ==
    \/ Asked(n)
    \/ \E t \in Threads : \E x \in Pending(t) : Opens(x) /\ x.arg # "CONNECTED" /\ x.conn = n

(* There is one trace of it, and a thread of the pipe signs once.          *)
TraceAt(n) ==
    /\ \A t, u \in Threads : OpenedBy(t, n) /\ OpenedBy(u, n) => t = u
    /\ OnceIn(events, Event("INIT", n)) /\ OnceIn(events, Event("CONNECTING", n))
    /\ Heard("INIT", n) => ~Heard("CONNECTING", n)
    /\ Opening(n) => ~Asked(n) /\ ~Managing(n)
    /\ Asked(n) => ~Managing(n)
    /\ Offers(n) => ~Offered(n)
    /\ Signs("reader", n, "reader") => ~Offers(n) /\ ~Offered(n)
    /\ OnceIn(queue["reader"], Event("DATA", n))
    /\ Offers(n) \/ Offered(n) \/ Signs("reader", n, "reader") => "reader" \notin managedBy[n]
    /\ \A q \in Pipe : Signs("client", n, q) => q \notin managedBy[n]
    /\ Early(n) => managedBy[n] = {}

(* A connection that is being opened was not established; ...              *)
UnsettledAt(n) == Unsettled(n) => n \notin established

(* ... the client is told once that it was, and this is so.                *)
ConnectedAt(n) ==
    /\ OnceIn(events, Event("CONNECTED", n))
    /\ Heard("CONNECTED", n) => n \in established

(* Nobody has signed for what is not made yet.                             *)
UnmadeAt(n) == n > made => managedBy[n] = {}

-----------------------------------------------------------------------------
(* 1. Agendas.                                                              *)

(* What thread t has to do after the step it is at.                        *)
Rest(t) == ToSet(Tail(agenda[t]))

LEMMA DoFields ==
    /\ \A op, n, arg : Do(op, n, arg).op = op /\ Do(op, n, arg).conn = n /\ Do(op, n, arg).arg = arg
    /\ \A e, n : Event(e, n).event = e /\ Event(e, n).conn = n
  BY DEF Do, Event

LEMMA StepFields ==
    ASSUME NEW x \in Steps
    PROVE  x = Do(x.op, x.conn, x.arg)
  BY DEF Do, Steps

LEMMA DueFacts ==
    ASSUME Agendas, NEW t \in Threads, agenda[t] # <<>>
    PROVE  /\ agenda[t] \in Seq(Steps) /\ Tail(agenda[t]) \in Seq(Steps)
           /\ Due(t) \in Steps /\ Formed(Due(t))
           /\ Pending(t) = {Due(t)} \cup Rest(t)
           /\ \A y \in Rest(t) : y \in Steps /\ Formed(y)
<1>1. agenda[t] \in Seq(Steps)
  BY DEF Agendas
<1>2. /\ Tail(agenda[t]) \in Seq(Steps) /\ Due(t) \in Steps
      /\ Pending(t) = {Due(t)} \cup Rest(t)
  BY <1>1, HeadTailProperties, HeadTailElements DEF Due, Pending, Rest
<1>3. \A y \in Rest(t) : y \in Steps
  BY <1>2, LenProperties DEF Rest, ToSet
<1>4. \A y \in Pending(t) : Formed(y)
  BY DEF Agendas
<1> QED
  BY <1>1, <1>2, <1>3, <1>4

LEMMA PendingSteps ==
    ASSUME Agendas, NEW t \in Threads
    PROVE  \A x \in Pending(t) : x \in Steps /\ Formed(x) /\ x = Do(x.op, x.conn, x.arg)
<1>1. agenda[t] \in Seq(Steps)
  BY DEF Agendas
<1>2. \A x \in Pending(t) : x \in Steps
  BY <1>1, LenProperties DEF Pending, ToSet
<1> QED
  BY <1>2, StepFields DEF Agendas

(* A connection that was made stays so.                                    *)
LEMMA FormedStays ==
    ASSUME NEW x, Formed(x), made \in Int, made' \in Int, made <= made'
    PROVE  Formed(x)'
<1>1. x.conn \in 1..made => x.conn \in 1..made'
  OBVIOUS
<1> QED
  BY <1>1 DEF Formed

(* Thread t does its step, and has steps to do before the rest.            *)
Goes(t, new) ==
    /\ Pending(t)' = new \cup Rest(t)
    /\ \A u \in Threads \ {t} : Pending(u)' = Pending(u)

LEMMA ThenGoes ==
    ASSUME Agendas, NEW t \in Threads, agenda[t] # <<>>,
           NEW steps \in Seq(Steps), Then(t, steps),
           made \in Int, made' \in Int, made <= made',
           \A x \in ToSet(steps) : Formed(x)'
    PROVE  /\ Agendas' /\ Goes(t, ToSet(steps))
           /\ agenda'[t] = steps \o Tail(agenda[t])
           /\ \A u \in Threads \ {t} : agenda'[u] = agenda[u]
<1>1. /\ agenda \in [Threads -> Seq(Steps)]
      /\ Tail(agenda[t]) \in Seq(Steps)
      /\ \A y \in Rest(t) : Formed(y)
  BY DueFacts DEF Agendas
<1>2. /\ steps \o Tail(agenda[t]) \in Seq(Steps)
      /\ ToSet(steps \o Tail(agenda[t])) = ToSet(steps) \cup Rest(t)
  <2> DEFINE rest == Tail(agenda[t])
  <2>1. rest \in Seq(Steps) /\ Rest(t) = ToSet(rest)
    BY <1>1 DEF Rest
  <2> HIDE DEF rest
  <2>2. steps \o rest \in Seq(Steps)
    BY <2>1, ConcatProperties
  <2>3. ToSet(steps \o rest) = ToSet(steps) \cup ToSet(rest)
    BY <2>1, ConcatElements
  <2> QED
    BY <2>1, <2>2, <2>3 DEF rest
<1>3. /\ agenda' \in [Threads -> Seq(Steps)]
      /\ agenda'[t] = steps \o Tail(agenda[t])
      /\ \A u \in Threads \ {t} : agenda'[u] = agenda[u]
  BY <1>1, <1>2 DEF Then
<1>4. Goes(t, ToSet(steps))
  BY <1>2, <1>3 DEF Goes, Pending
<1>5. ASSUME NEW u \in Threads, NEW x \in Pending(u)'
      PROVE  Formed(x)'
  <2>1. x \in ToSet(steps) \/ Formed(x)
    BY <1>1, <1>4, <1>5 DEF Agendas, Goes
  <2> QED
    BY <2>1, FormedStays
<1> QED
  BY <1>3, <1>4, <1>5 DEF Agendas

LEMMA ThenNothing ==
    ASSUME Agendas, NEW t \in Threads, agenda[t] # <<>>, Then(t, <<>>), UNCHANGED made, made \in Int
    PROVE  Agendas' /\ Goes(t, {}) /\ agenda'[t] = Tail(agenda[t])
           /\ \A u \in Threads \ {t} : agenda'[u] = agenda[u]
<1>1. <<>> \in Seq(Steps) /\ ToSet(<<>>) = {}
  BY EmptySeq, ShortElements
<1>2. Tail(agenda[t]) \in Seq(Steps)
  BY DueFacts
<1>3. <<>> \o Tail(agenda[t]) = Tail(agenda[t])
  BY <1>2
<1>4. made <= made' /\ made' \in Int
  OBVIOUS
<1>5. \A x \in ToSet(<<>>) : Formed(x)'
  BY <1>1
<1>6. /\ Agendas' /\ Goes(t, ToSet(<<>>))
      /\ agenda'[t] = <<>> \o Tail(agenda[t])
      /\ \A u \in Threads \ {t} : agenda'[u] = agenda[u]
  BY <1>1, <1>4, <1>5, ThenGoes
<1> QED
  BY <1>1, <1>3, <1>6

(* A thread in its loop gets something to do.                              *)
LEMMA StartGoes ==
    ASSUME Agendas, NEW t \in Threads, NEW steps \in Seq(Steps),
           agenda' = [agenda EXCEPT ![t] = steps], UNCHANGED made, made \in Int,
           \A x \in ToSet(steps) : Formed(x)
    PROVE  /\ Agendas'
           /\ agenda'[t] = steps /\ Pending(t)' = ToSet(steps)
           /\ \A u \in Threads \ {t} : agenda'[u] = agenda[u] /\ Pending(u)' = Pending(u)
<1>1. /\ agenda \in [Threads -> Seq(Steps)]
      /\ agenda' \in [Threads -> Seq(Steps)]
      /\ agenda'[t] = steps
      /\ \A u \in Threads \ {t} : agenda'[u] = agenda[u]
  BY DEF Agendas
<1>2. /\ Pending(t)' = ToSet(steps)
      /\ \A u \in Threads \ {t} : Pending(u)' = Pending(u)
  BY <1>1 DEF Pending
<1>3. \A u \in Threads : \A x \in Pending(u)' : Formed(x)
  BY <1>2 DEF Agendas
<1>4. \A u \in Threads : \A x \in Pending(u)' : Formed(x)'
  BY <1>3, FormedStays
<1> QED
  BY <1>1, <1>2, <1>4 DEF Agendas

-----------------------------------------------------------------------------
(* 2. Types.                                                                *)

Kinds == {"INIT", "CONNECTING", "CONNECTED", "CLOSE", "FREE"}
Items == [event : {"DATA", "CLOSE", "OUTBOUND", "EXIT"}, conn : 0..made]

LEMMA Words ==
    /\ {"state", "fire", "sign", "release", "free", "blame", "offer", "hook", "decide", "exit", "join"} \subseteq Ops
    /\ Pipe \subseteq Threads /\ Threads \subseteq Arguments /\ States \subseteq Arguments
    /\ {"nothing", "failed", "noted", "disconnected", "error", "clean"} \subseteq Arguments
    /\ Threads = {"reader", "worker", "writer", "client"} /\ Pipe = {"reader", "worker", "writer"}
    /\ {"INITIALIZED", "CONNECTING", "CONNECTED", "PENDING_CLOSE", "CLOSED"} \subseteq States
  BY DEF Ops, Arguments, Threads, Pipe, States

LEMMA DoTyped ==
    ASSUME NEW op \in Ops, NEW n \in 0..MaxConns, NEW arg \in Arguments
    PROVE  Do(op, n, arg) \in Steps
  BY DEF Do, Steps

LEMMA MadeTyped ==
    ASSUME TypeOK
    PROVE  /\ made \in Nat /\ made >= 1 /\ made <= MaxConns
           /\ \A n \in 1..made : n \in Conns /\ n \in 0..MaxConns
  BY DEF TypeOK, Conns

LEMMA OneStep ==
    ASSUME NEW x \in Steps
    PROVE  <<x>> \in Seq(Steps) /\ ToSet(<<x>>) = {x}
  BY ShortElements

LEMMA TwoSteps ==
    ASSUME NEW x \in Steps, NEW y \in Steps
    PROVE  <<x, y>> \in Seq(Steps) /\ ToSet(<<x, y>>) = {x, y}
  BY ShortElements

LEMMA ThreeSteps ==
    ASSUME NEW x \in Steps, NEW y \in Steps, NEW z \in Steps
    PROVE  <<x, y, z>> \in Seq(Steps) /\ ToSet(<<x, y, z>>) = {x, y, z}
<1>1. <<x, y, z>> \in Seq(Steps) /\ DOMAIN <<x, y, z>> = 1..3
  OBVIOUS
<1>2. /\ <<x, y, z>>[1] = x /\ <<x, y, z>>[2] = y /\ <<x, y, z>>[3] = z
  OBVIOUS
<1>3. \A i \in 1..3 : i = 1 \/ i = 2 \/ i = 3
  OBVIOUS
<1>4. \A w : w \in ToSet(<<x, y, z>>) <=> w \in {x, y, z}
  BY <1>1, <1>2, <1>3 DEF ToSet
<1> QED
  BY <1>1, <1>4

(* The calls of several steps.                                             *)
LEMMA ErrorSteps ==
    ASSUME TypeOK, NEW n \in 1..MaxConns, NEW why \in {"failed", "noted"}
    PROVE  /\ HandleError(n, why) \in Seq(Steps)
           /\ ToSet(HandleError(n, why)) = {Do("blame", n, why), Do("state", n, "CLOSED")}
           /\ \A x \in ToSet(HandleError(n, why)) : x.conn = n /\ (n <= made => Formed(x))
<1> DEFINE x == Do("blame", n, why)
           y == Do("state", n, "CLOSED")
<1>1. x \in Steps /\ y \in Steps
  BY DoTyped, Words
<1>2. n <= made => Formed(x) /\ Formed(y)
  BY DoFields, MadeTyped DEF Formed, States
<1>3. x.conn = n /\ y.conn = n
  BY DoFields
<1> HIDE DEF x, y
<1>4. <<x, y>> \in Seq(Steps) /\ ToSet(<<x, y>>) = {x, y}
  BY <1>1, TwoSteps
<1> QED
  BY <1>2, <1>3, <1>4 DEF HandleError, x, y

LEMMA DisconnectedSteps ==
    ASSUME TypeOK, NEW n \in 1..made
    PROVE  /\ HandleDisconnected(n) \in Seq(Steps)
           /\ ToSet(HandleDisconnected(n)) =
                 {Do("blame", n, "noted"), Do("blame", n, "disconnected"), Do("state", n, "CLOSED")}
           /\ \A x \in ToSet(HandleDisconnected(n)) : x.conn = n /\ Formed(x)
<1> DEFINE x == Do("blame", n, "noted")
           y == Do("blame", n, "disconnected")
           z == Do("state", n, "CLOSED")
<1>0. n \in 0..MaxConns
  BY MadeTyped
<1>1. x \in Steps /\ y \in Steps /\ z \in Steps
  BY <1>0, DoTyped, Words
<1>2. Formed(x) /\ Formed(y) /\ Formed(z)
  BY DoFields, MadeTyped DEF Formed, States
<1>3. x.conn = n /\ y.conn = n /\ z.conn = n
  BY DoFields
<1> HIDE DEF x, y, z
<1>4. <<x, y, z>> \in Seq(Steps) /\ ToSet(<<x, y, z>>) = {x, y, z}
  BY <1>1, ThreeSteps
<1> QED
  BY <1>2, <1>3, <1>4 DEF HandleDisconnected, x, y, z

LEMMA ManageIs ==
    ASSUME NEW n \in 1..MaxConns
    PROVE  /\ Manage(n) \in Seq(Steps) /\ Len(Manage(n)) = 6
           /\ Manage(n)[1] = Do("offer", n, "nothing") /\ Manage(n)[2] = Do("hook", n, "reader")
           /\ Manage(n)[3] = Do("hook", n, "worker") /\ Manage(n)[4] = Do("sign", n, "worker")
           /\ Manage(n)[5] = Do("hook", n, "writer") /\ Manage(n)[6] = Do("sign", n, "writer")
<1> DEFINE a == Do("offer", n, "nothing")
           b == Do("hook", n, "reader")
           c == Do("hook", n, "worker")
           d == Do("sign", n, "worker")
           e == Do("hook", n, "writer")
           f == Do("sign", n, "writer")
<1>1. a \in Steps /\ b \in Steps /\ c \in Steps /\ d \in Steps /\ e \in Steps /\ f \in Steps
  BY DoTyped, Words
<1>2. Manage(n) = <<a, b, c, d, e, f>>
  BY DEF Manage
<1> HIDE DEF a, b, c, d, e, f
<1>3. /\ <<a, b, c, d, e, f>> \in Seq(Steps) /\ Len(<<a, b, c, d, e, f>>) = 6
      /\ <<a, b, c, d, e, f>>[1] = a /\ <<a, b, c, d, e, f>>[2] = b
      /\ <<a, b, c, d, e, f>>[3] = c /\ <<a, b, c, d, e, f>>[4] = d
      /\ <<a, b, c, d, e, f>>[5] = e /\ <<a, b, c, d, e, f>>[6] = f
  BY <1>1
<1> QED
  BY <1>2, <1>3 DEF a, b, c, d, e, f

LEMMA ManageSteps ==
    ASSUME TypeOK, NEW n \in 1..made
    PROVE  /\ Manage(n) \in Seq(Steps)
           /\ \A x \in ToSet(Manage(n)) : x.conn = n /\ Formed(x) /\ Manages(x)
<1>0. n \in 1..MaxConns
  BY MadeTyped
<1>1. Manage(n) \in Seq(Steps) /\ DOMAIN Manage(n) = 1..6
  BY <1>0, ManageIs, LenProperties
<1>2. ASSUME NEW x \in ToSet(Manage(n))
      PROVE  /\ x.conn = n /\ x.op \in {"offer", "hook", "sign"}
             /\ x.op \in {"hook", "sign"} => x.arg \in Pipe
  <2>1. PICK i \in 1..6 : x = Manage(n)[i]
    BY <1>1 DEF ToSet
  <2>2. i = 1 \/ i = 2 \/ i = 3 \/ i = 4 \/ i = 5 \/ i = 6
    OBVIOUS
  <2>3. \/ x = Do("offer", n, "nothing") \/ x = Do("hook", n, "reader")
        \/ x = Do("hook", n, "worker") \/ x = Do("sign", n, "worker")
        \/ x = Do("hook", n, "writer") \/ x = Do("sign", n, "writer")
    BY <1>0, <2>1, <2>2, ManageIs
  <2> QED
    BY <2>3, DoFields DEF Pipe
<1> QED
  BY <1>1, <1>2 DEF Formed, Manages

(* An action that does its step and gets the steps it calls for.           *)
LEMMA ThenSome ==
    ASSUME TypeOK, Agendas, NEW t \in Threads, agenda[t] # <<>>,
           NEW steps \in Seq(Steps), Then(t, steps), UNCHANGED made,
           \A x \in ToSet(steps) : Formed(x)
    PROVE  /\ Agendas' /\ Goes(t, ToSet(steps))
           /\ agenda'[t] = steps \o Tail(agenda[t])
           /\ \A u \in Threads \ {t} : agenda'[u] = agenda[u]
<1>1. made \in Int /\ made' \in Int /\ made <= made'
  BY MadeTyped
<1>2. \A x \in ToSet(steps) : Formed(x)'
  BY <1>1, FormedStays
<1> QED
  BY <1>1, <1>2, ThenGoes

LEMMA ChangeStateThen ==
    ASSUME TypeOK, Agendas, NEW t \in Threads, ChangeState(t)
    PROVE  /\ agenda[t] # <<>> /\ Due(t).conn \in 1..made /\ Due(t).arg \in States \ {"NONE"}
           /\ \E steps \in Seq(Steps) :
                 /\ Then(t, steps)
                 /\ \A x \in ToSet(steps) : Formed(x) /\ x.conn = Due(t).conn /\ x.op \in {"fire", "release"}
                 /\ Opens(Due(t)) => steps = <<>>
<1> DEFINE n == Due(t).conn
           s == Due(t).arg
           x == Do("fire", n, "nothing")
           y == Do("release", n, "reader")
<1>1. agenda[t] # <<>> /\ Due(t).op = "state"
  BY DEF ChangeState, Does
<1>2. n \in 1..made /\ s \in States \ {"NONE"}
  BY <1>1, DueFacts DEF Formed
<1>3. n \in 0..MaxConns
  BY <1>2, MadeTyped
<1>4. x \in Steps /\ y \in Steps
  BY <1>3, DoTyped, Words
<1>5. /\ Formed(x) /\ x.conn = n /\ x.op = "fire"
      /\ Formed(y) /\ y.conn = n /\ y.op = "release"
  BY <1>2, DoFields DEF Formed, Threads, Pipe
<1> HIDE DEF x, y
<1>6. /\ <<x>> \in Seq(Steps) /\ ToSet(<<x>>) = {x}
      /\ <<y>> \in Seq(Steps) /\ ToSet(<<y>>) = {y}
      /\ <<>> \in Seq(Steps) /\ ToSet(<<>>) = {}
  BY <1>4, OneStep, EmptySeq, ShortElements
<1>7. \/ Then(t, <<x>>) /\ s = "CLOSED"
      \/ Then(t, <<y>>) /\ s = "PENDING_CLOSE"
      \/ Then(t, <<>>)
  <2>1. CASE s = "CLOSED"
    BY <2>1 DEF ChangeState, x
  <2>2. CASE s # "CLOSED" /\ s = "PENDING_CLOSE" /\ n \notin finishing /\ stopping["reader"]
    BY <2>2 DEF ChangeState, y
  <2>3. CASE s # "CLOSED" /\ ~(s = "PENDING_CLOSE" /\ n \notin finishing /\ stopping["reader"])
    BY <2>3 DEF ChangeState
  <2> QED
    BY <2>1, <2>2, <2>3
<1>8. Opens(Due(t)) => s \notin {"CLOSED", "PENDING_CLOSE"}
  BY DEF Opens
<1> QED
  BY <1>1, <1>2, <1>5, <1>6, <1>7, <1>8

LEMMA ManagedByThen ==
    ASSUME TypeOK, Agendas, NEW t \in Threads, ManagedBy(t)
    PROVE  /\ agenda[t] # <<>> /\ Due(t).op = "sign" /\ Due(t).conn \in 1..made /\ Due(t).arg \in Pipe
           /\ LET n == Due(t).conn
                  x == Do("state", n, "CONNECTED") IN
              /\ Formed(x) /\ x \in Steps /\ x.op = "state" /\ x.arg = "CONNECTED" /\ x.conn = n
              /\ managedBy'[n] = managedBy[n] \cup {Due(t).arg}
              /\ \A m \in Conns : m # n => managedBy'[m] = managedBy[m]
              /\ managedBy' \in [Conns -> SUBSET Pipe]
              /\ IF managedBy'[n] = Pipe THEN Then(t, <<x>>) ELSE Then(t, <<>>)
<1> DEFINE n == Due(t).conn
           x == Do("state", n, "CONNECTED")
<1>1. agenda[t] # <<>> /\ Due(t).op = "sign"
  BY DEF ManagedBy, Does
<1>2. n \in 1..made /\ Due(t).arg \in Pipe
  BY <1>1, DueFacts DEF Formed
<1>3. n \in 0..MaxConns /\ n \in Conns
  BY <1>2, MadeTyped
<1>4. x \in Steps
  BY <1>3, DoTyped, Words
<1>5. x.conn = n /\ x.op = "state" /\ x.arg = "CONNECTED"
  BY DoFields
<1>6. Formed(x)
  BY <1>2, <1>5 DEF Formed, States
<1>7. managedBy \in [Conns -> SUBSET Pipe]
  BY DEF TypeOK
<1>8. managedBy' = [managedBy EXCEPT ![n] = managedBy[n] \cup {Due(t).arg}]
  BY DEF ManagedBy
<1>9. Then(t, IF managedBy[n] \cup {Due(t).arg} = Pipe THEN <<x>> ELSE <<>>)
  BY DEF ManagedBy
<1> HIDE DEF x
<1>10. /\ managedBy'[n] = managedBy[n] \cup {Due(t).arg}
       /\ \A m \in Conns : m # n => managedBy'[m] = managedBy[m]
       /\ managedBy' \in [Conns -> SUBSET Pipe]
  BY <1>2, <1>3, <1>7, <1>8
<1>11. IF managedBy'[n] = Pipe THEN Then(t, <<x>>) ELSE Then(t, <<>>)
  BY <1>9, <1>10
<1> QED
  BY <1>1, <1>2, <1>4, <1>5, <1>6, <1>10, <1>11 DEF x

(* Handlers of CLOSE.                                                      *)
LEMMA FireNextGoes ==
    ASSUME TypeOK, Agendas, NEW t \in Threads, FireNext(t)
    PROVE  /\ agenda[t] # <<>> /\ Due(t).op = "fire" /\ Due(t).conn \in 1..made
           /\ Agendas'
           /\ \A u \in Threads \ {t} : agenda'[u] = agenda[u] /\ Pending(u)' = Pending(u)
           /\ \E x \in Steps :
                 /\ x.op = "release" /\ x.conn = Due(t).conn /\ Formed(x)
                 /\ \/ agenda'[t] = agenda[t] /\ Pending(t)' = Pending(t)
                    \/ agenda'[t] = <<x>> \o agenda[t] /\ Pending(t)' = {x} \cup Pending(t)
<1> DEFINE n == Due(t).conn
           o == Head(handlers[n])
           y == Do("release", n, o)
           x == Do("release", n, "reader")
<1>1. agenda[t] # <<>> /\ Due(t).op = "fire"
  BY DEF FireNext, Does
<1>2. n \in 1..made
  <2>1. Formed(Due(t))
    BY <1>1, DueFacts
  <2> QED
    BY <1>1, <2>1 DEF Formed
<1>3. n \in 0..MaxConns /\ n \in Conns /\ UNCHANGED made /\ made \in Int
  <2>1. n \in 0..MaxConns /\ n \in Conns /\ made \in Int
    BY <1>2, MadeTyped
  <2>2. UNCHANGED made
    BY DEF FireNext
  <2> QED
    BY <2>1, <2>2
<1>x. /\ x \in Steps /\ x.op = "release" /\ x.conn = n /\ Formed(x)
  <2>1. x \in Steps
    BY <1>3, DoTyped, Words
  <2> QED
    BY <1>2, <2>1, DoFields DEF Formed, Threads, Pipe
<1>4. CASE agenda' = agenda
  <2>1. \A u \in Threads : agenda'[u] = agenda[u] /\ Pending(u)' = Pending(u)
    BY <1>4 DEF Pending
  <2>2. Agendas'
    BY <1>3, <1>4, <2>1, FormedStays DEF Agendas
  <2> HIDE DEF x
  <2> QED
    BY <1>1, <1>2, <1>x, <2>1, <2>2
<1>5. CASE o \in Pipe /\ agenda' = [agenda EXCEPT ![t] = <<y>> \o agenda[t]]
  <2>1. y \in Steps
    BY <1>3, <1>5, DoTyped, Words
  <2>2. y.op = "release" /\ y.conn = n /\ Formed(y)
    BY <1>2, <1>5, DoFields DEF Formed, Threads
  <2> HIDE DEF y
  <2>3. agenda \in [Threads -> Seq(Steps)] /\ agenda[t] \in Seq(Steps)
    BY DEF Agendas
  <2>4. <<y>> \in Seq(Steps) /\ ToSet(<<y>>) = {y}
    BY <2>1, OneStep
  <2> DEFINE old == agenda[t]
             one == <<y>>
  <2>5. old \in Seq(Steps) /\ one \in Seq(Steps)
    BY <2>3, <2>4
  <2> HIDE DEF old, one
  <2>6. one \o old \in Seq(Steps) /\ ToSet(one \o old) = ToSet(one) \cup ToSet(old)
    BY <2>5, ConcatProperties, ConcatElements
  <2>7. /\ agenda' \in [Threads -> Seq(Steps)]
        /\ agenda'[t] = <<y>> \o agenda[t]
        /\ \A u \in Threads \ {t} : agenda'[u] = agenda[u]
    BY <1>5, <2>3, <2>6 DEF old, one
  <2>8. /\ Pending(t)' = {y} \cup Pending(t)
        /\ \A u \in Threads \ {t} : Pending(u)' = Pending(u)
    BY <2>4, <2>6, <2>7 DEF Pending, old, one
  <2>9. ASSUME NEW u \in Threads, NEW z \in Pending(u)'
        PROVE  Formed(z)'
    <3>1. Formed(z)
      BY <2>2, <2>8, <2>9 DEF Agendas
    <3> QED
      BY <1>3, <3>1, FormedStays
  <2>10. Agendas'
    BY <2>7, <2>9 DEF Agendas
  <2> QED
    BY <1>1, <1>2, <2>1, <2>2, <2>7, <2>8, <2>10
<1> QED
  BY <1>4, <1>5 DEF FireNext

(* The queues.                                                             *)
Events == [event : Kinds, conn : 1..made]

LEMMA QueuesTyped ==
    ASSUME TypeOK
    PROVE  /\ events \in Seq(Events)
           /\ queue \in [Pipe -> Seq(Items)]
           /\ \A q \in Pipe : queue[q] \in Seq(Items)
  BY DEF TypeOK, Events, Kinds, Items

LEMMA EventsTyped ==
    ASSUME TypeOK
    PROVE  /\ \A e \in Kinds, n \in 1..made : Append(events, Event(e, n)) \in Seq(Events)
           /\ events # <<>> => Tail(events) \in Seq(Events) /\ Head(events) \in Events
<1>1. events \in Seq(Events)
  BY QueuesTyped
<1>2. \A e \in Kinds, n \in 1..made : Event(e, n) \in Events
  BY DEF Event, Events
<1> QED
  BY <1>1, <1>2, AppendProperties, HeadTailProperties

LEMMA QueueTyped ==
    ASSUME TypeOK, NEW q \in Pipe
    PROVE  /\ \A i \in Items : [queue EXCEPT ![q] = Append(@, i)] \in [Pipe -> Seq(Items)]
           /\ queue[q] # <<>> =>
                 /\ [queue EXCEPT ![q] = Tail(@)] \in [Pipe -> Seq(Items)]
                 /\ \A R : [queue EXCEPT ![q] = Without(Tail(@), R)] \in [Pipe -> Seq(Items)]
<1>1. queue \in [Pipe -> Seq(Items)] /\ queue[q] \in Seq(Items)
  BY QueuesTyped
<1>2. \A i \in Items : Append(queue[q], i) \in Seq(Items)
  BY <1>1, AppendProperties
<1>3. queue[q] # <<>> => Tail(queue[q]) \in Seq(Items)
  BY <1>1, HeadTailProperties
<1>4. queue[q] # <<>> => \A R : Without(Tail(queue[q]), R) \in Seq(Items)
  BY <1>3, WithoutProperties
<1> QED
  BY <1>1, <1>2, <1>3, <1>4

LEMMA ItemTyped ==
    ASSUME TypeOK
    PROVE  /\ \A e \in {"DATA", "CLOSE", "OUTBOUND"}, n \in 1..made : Event(e, n) \in Items
           /\ Event("EXIT", 0) \in Items
<1>1. made \in Nat
  BY MadeTyped
<1> QED
  BY <1>1 DEF Event, Items

(* While the client makes no connection, the types are those of the        *)
(* variables one by one.                                                   *)
LEMMA TypesKept ==
    ASSUME TypeOK, UNCHANGED made, connected' \in BOOLEAN, retryCount' \in 0..Retries, exiting' \in BOOLEAN,
           events' \in Seq(Events), state' \in [Conns -> States],
           holder' \in [Conns -> Threads \cup {NoThread}], forError' \in [Conns -> BOOLEAN],
           handlers' \in [Conns -> Seq(Threads)], managedBy' \in [Conns -> SUBSET Pipe],
           closedBy' \in [Conns -> SUBSET Threads], freed' \in SUBSET (1..made),
           finishing' \in SUBSET (1..made), registered' \in SUBSET (1..made),
           phase' \in [Threads -> {"run", "exit", "gone"}], queue' \in [Pipe -> Seq(Items)],
           stopping' \in [Pipe -> BOOLEAN], established' \in SUBSET (1..made),
           lost' \in SUBSET (1..made), early' \in SUBSET (1..made), undefined' \in {"no", "freed", "race"}
    PROVE  TypeOK'
  BY DEF TypeOK, Events, Kinds, Items

LEMMA ChangeStateTyped ==
    ASSUME TypeOK, Agendas, NEW t \in Threads, ChangeState(t)
    PROVE  TypeOK' /\ Agendas'
<1> DEFINE n == Due(t).conn
           s == Due(t).arg
<1>1. /\ agenda[t] # <<>> /\ n \in 1..made /\ s \in States \ {"NONE"}
      /\ \E steps \in Seq(Steps) : Then(t, steps) /\ \A x \in ToSet(steps) : Formed(x)
  BY ChangeStateThen
<1>2. UNCHANGED made
  BY DEF ChangeState
<1>3. Agendas'
  BY <1>1, <1>2, ThenSome
<1>4. n \in Conns
  BY <1>1, MadeTyped
<1>5. events' \in Seq(Events)
  <2>1. events' = events \/ \E e \in Kinds : events' = Append(events, Event(e, n))
    <3> DEFINE news == [INITIALIZED |-> "INIT", CONNECTING |-> "CONNECTING", CONNECTED |-> "CONNECTED"]
    <3>1. DOMAIN news = {"INITIALIZED", "CONNECTING", "CONNECTED"}
      OBVIOUS
    <3>2. \A k \in {"INITIALIZED", "CONNECTING", "CONNECTED"} : news[k] \in Kinds
      BY DEF Kinds
    <3>3. events' = IF s \in DOMAIN news THEN Told(news[s], n) ELSE events
      BY DEF ChangeState
    <3> HIDE DEF news
    <3>4. CASE s \in DOMAIN news
      <4>1. news[s] \in Kinds /\ events' = Append(events, Event(news[s], n))
        BY <3>1, <3>2, <3>3, <3>4 DEF Told
      <4> QED
        BY <4>1
    <3>5. CASE s \notin DOMAIN news
      BY <3>3, <3>5
    <3> QED
      BY <3>4, <3>5
  <2> QED
    BY <1>1, <2>1, QueuesTyped, EventsTyped
<1>6. queue' \in [Pipe -> Seq(Items)]
  <2>1. queue' = queue \/ queue' = [queue EXCEPT !["writer"] = Append(@, Event("OUTBOUND", n))]
    BY DEF ChangeState
  <2>2. "writer" \in Pipe /\ Event("OUTBOUND", n) \in Items
    BY <1>1, ItemTyped DEF Pipe
  <2>3. [queue EXCEPT !["writer"] = Append(@, Event("OUTBOUND", n))] \in [Pipe -> Seq(Items)]
    BY <2>2, QueueTyped
  <2>4. queue \in [Pipe -> Seq(Items)]
    BY QueuesTyped
  <2> QED
    BY <2>1, <2>3, <2>4
<1>7. state' \in [Conns -> States] /\ holder' \in [Conns -> Threads \cup {NoThread}]
  <2>1. /\ state' = [state EXCEPT ![n] = s]
        /\ holder' = [holder EXCEPT ![n] = IF s = "CLOSED" THEN t ELSE NoThread]
    BY DEF ChangeState
  <2> QED
    BY <1>1, <1>4, <2>1 DEF TypeOK
<1>8. /\ finishing' \in SUBSET (1..made) /\ established' \in SUBSET (1..made)
      /\ early' \in SUBSET (1..made)
  <2>1. /\ finishing' = finishing \/ finishing' = finishing \cup {n}
        /\ established' = established \/ established' = established \cup {n}
        /\ early' = early \/ early' = early \cup {n}
    BY DEF ChangeState
  <2> QED
    BY <1>1, <2>1 DEF TypeOK
<1>9. UNCHANGED <<connected, retryCount, exiting, forError, handlers, owners, registered, phase, stopping, lost, undefined>>
  BY DEF ChangeState
<1> QED
  BY <1>2, <1>3, <1>5, <1>6, <1>7, <1>8, <1>9, TypesKept DEF TypeOK, owners

LEMMA ManagedByTyped ==
    ASSUME TypeOK, Agendas, NEW t \in Threads, ManagedBy(t)
    PROVE  TypeOK' /\ Agendas'
<1> DEFINE x == Do("state", Due(t).conn, "CONNECTED")
<1>1. /\ agenda[t] # <<>> /\ Formed(x) /\ x \in Steps
      /\ managedBy' \in [Conns -> SUBSET Pipe]
      /\ Then(t, <<x>>) \/ Then(t, <<>>)
  BY ManagedByThen
<1>2. UNCHANGED <<client, flags, closedBy, freed, io, threads, history, undefined>>
  BY DEF ManagedBy
<1>3. Agendas'
  <2>1. UNCHANGED made /\ made \in Int
    BY <1>2, MadeTyped DEF client
  <2> HIDE DEF x
  <2>2. <<x>> \in Seq(Steps) /\ ToSet(<<x>>) = {x}
    BY <1>1, OneStep
  <2> QED
    BY <1>1, <2>1, <2>2, ThenSome, ThenNothing
<1> QED
  BY <1>1, <1>2, <1>3 DEF TypeOK, client, flags, io, threads, history

LEMMA FireNextTyped ==
    ASSUME TypeOK, Agendas, NEW t \in Threads, FireNext(t)
    PROVE  TypeOK' /\ Agendas'
<1> DEFINE n == Due(t).conn
<1>1. n \in 1..made /\ Agendas'
  BY FireNextGoes
<1>2. n \in Conns
  BY <1>1, MadeTyped
<1>3. handlers' \in [Conns -> Seq(Threads)]
  <2>1. handlers[n] \in Seq(Threads) /\ handlers[n] # <<>> /\ handlers' = [handlers EXCEPT ![n] = Tail(@)]
    BY <1>2 DEF FireNext, TypeOK
  <2>2. Tail(handlers[n]) \in Seq(Threads)
    BY <2>1, HeadTailProperties
  <2> QED
    BY <1>2, <2>1, <2>2 DEF TypeOK
<1>4. events' \in Seq(Events)
  <2>1. events' = events \/ events' = Append(events, Event("CLOSE", n))
    BY DEF FireNext, Told
  <2>2. "CLOSE" \in Kinds
    BY DEF Kinds
  <2> QED
    BY <1>1, <2>1, <2>2, QueuesTyped, EventsTyped
<1>5. queue' \in [Pipe -> Seq(Items)]
  <2> DEFINE o == Head(handlers[n])
  <2>1. \/ queue' = queue
        \/ o \in Pipe /\ queue' = [queue EXCEPT ![o] = Append(@, Event("CLOSE", n))]
    BY DEF FireNext
  <2>2. Event("CLOSE", n) \in Items
    BY <1>1, ItemTyped
  <2>3. o \in Pipe => [queue EXCEPT ![o] = Append(@, Event("CLOSE", n))] \in [Pipe -> Seq(Items)]
    BY <2>2, QueueTyped
  <2> HIDE DEF o
  <2> QED
    BY <2>1, <2>3, QueuesTyped
<1>6. UNCHANGED <<made, connected, retryCount, exiting, state, holder, forError, owners, io, phase, stopping, history, undefined>>
  BY DEF FireNext
<1> QED
  BY <1>1, <1>3, <1>4, <1>5, <1>6, TypesKept DEF TypeOK, owners, io, history

(* The steps that call for no other.                                       *)
Plain(t) ==
    \/ KeepState(t) \/ FireLast(t) \/ NoMoreUsed(t) \/ FreeConnection(t) \/ Blame(t)
    \/ Offer(t) \/ GivesUp(t) \/ EnqueueExit(t) \/ Join(t)
    \/ AddHandler(t) /\ undefined' # "race"

LEMMA PlainGoes ==
    ASSUME TypeOK, Agendas, NEW t \in Threads, Plain(t)
    PROVE  /\ agenda[t] # <<>> /\ UNCHANGED made
           /\ Agendas' /\ Goes(t, {}) /\ agenda'[t] = Tail(agenda[t])
           /\ \A u \in Threads \ {t} : agenda'[u] = agenda[u]
           /\ Due(t) \in Pending(t)
           /\ Due(t).op \notin {"offer", "exit", "join", "decide", "state", "hook"} => Due(t).conn \in 1..made
           /\ Due(t).op \in {"offer", "hook", "state"} => Due(t).conn \in 1..made
<1>1. agenda[t] # <<>>
  BY DEF Plain, KeepState, FireLast, NoMoreUsed, FreeConnection, Blame, Offer, GivesUp, EnqueueExit,
         Join, AddHandler, Does
<1>2. Then(t, <<>>)
  <2>1. CASE AddHandler(t) /\ undefined' # "race"
    BY <2>1 DEF AddHandler
  <2>2. CASE ~(AddHandler(t) /\ undefined' # "race")
    BY <2>2 DEF Plain, KeepState, FireLast, NoMoreUsed, FreeConnection, Blame, Offer, GivesUp, EnqueueExit,
                Join
  <2> QED
    BY <2>1, <2>2
<1>3. UNCHANGED made
  BY DEF Plain, KeepState, FireLast, NoMoreUsed, FreeConnection, Blame, Offer, GivesUp, EnqueueExit,
         Join, AddHandler, client
<1>4. made \in Int
  BY MadeTyped
<1>5. Due(t) \in Pending(t) /\ Formed(Due(t))
  BY <1>1, DueFacts
<1>6. /\ Due(t).op \notin {"offer", "exit", "join", "decide", "state", "hook"} => Due(t).conn \in 1..made
      /\ Due(t).op \in {"offer", "hook", "state"} => Due(t).conn \in 1..made
  BY <1>5 DEF Formed
<1> QED
  BY <1>1, <1>2, <1>3, <1>4, <1>5, <1>6, ThenNothing

LEMMA PlainTyped ==
    ASSUME TypeOK, Agendas, NEW t \in Threads, Plain(t)
    PROVE  TypeOK' /\ Agendas'
<1> DEFINE n == Due(t).conn
<1>0. /\ agenda[t] # <<>> /\ Agendas' /\ UNCHANGED made
      /\ Formed(Due(t))
  BY PlainGoes, DueFacts
<1>m. \A m \in 1..made : m \in Conns
  BY MadeTyped
<1>1. CASE KeepState(t)
  BY <1>0, <1>1 DEF KeepState, TypeOK, client, flags, owners, io, threads, history
<1>2. CASE FireLast(t)
  <2>1. holder' \in [Conns -> Threads \cup {NoThread}]
    BY <1>2 DEF FireLast, TypeOK
  <2> QED
    BY <1>0, <1>2, <2>1 DEF FireLast, TypeOK, client, owners, io, threads, history
<1>3. CASE NoMoreUsed(t)
  <2>1. n \in 1..made /\ Due(t).arg \in Threads
    BY <1>0, <1>3 DEF NoMoreUsed, Does, Formed
  <2>2. events' = events \/ events' = Append(events, Event("FREE", n))
    BY <1>3 DEF NoMoreUsed, Told
  <2>3. events' \in Seq(Events)
    BY <2>1, <2>2, QueuesTyped, EventsTyped DEF Kinds
  <2>4. closedBy' \in [Conns -> SUBSET Threads] /\ freed' \in SUBSET (1..made)
    <3>1. closedBy \in [Conns -> SUBSET Threads] /\ freed \in SUBSET (1..made) /\ n \in Conns
      BY <1>m, <2>1 DEF TypeOK
    <3>2. /\ \/ closedBy' = [closedBy EXCEPT ![n] = {}]
             \/ closedBy' = [closedBy EXCEPT ![n] = closedBy[n] \cup {Due(t).arg}]
          /\ freed' = freed \cup {n} \/ freed' = freed
      BY <1>3 DEF NoMoreUsed
    <3>3. closedBy[n] \cup {Due(t).arg} \in SUBSET Threads
      BY <2>1, <3>1
    <3> QED
      BY <2>1, <3>1, <3>2, <3>3
  <2>5. UNCHANGED <<made, connected, retryCount, exiting, flags, managedBy, io, threads, history, undefined>>
    BY <1>3 DEF NoMoreUsed
  <2> QED
    BY <1>0, <2>3, <2>4, <2>5, QueuesTyped, TypesKept DEF TypeOK, flags, io, threads, history
<1>4. CASE FreeConnection(t)
  <2>1. n \in 1..made
    BY <1>0, <1>4 DEF FreeConnection, Does, Formed
  <2>2. events' = Append(events, Event("FREE", n)) /\ freed' = freed \cup {n}
    BY <1>4 DEF FreeConnection, Told
  <2>3. events' \in Seq(Events) /\ freed' \in SUBSET (1..made)
    BY <2>1, <2>2, EventsTyped DEF Kinds, TypeOK
  <2>4. UNCHANGED <<made, connected, retryCount, exiting, flags, managedBy, closedBy, io, threads, history, undefined>>
    BY <1>4 DEF FreeConnection
  <2> QED
    BY <1>0, <2>3, <2>4, QueuesTyped, TypesKept DEF TypeOK, flags, io, threads, history
<1>5. CASE Blame(t)
  <2>1. n \in 1..made
    BY <1>0, <1>5 DEF Blame, Does, Formed
  <2>2. /\ forError' = [forError EXCEPT ![n] = (Due(t).arg # "disconnected")]
        /\ lost' = lost \/ lost' = lost \cup {n}
    BY <1>5 DEF Blame
  <2>3. forError' \in [Conns -> BOOLEAN] /\ lost' \in SUBSET (1..made)
    BY <2>1, <2>2 DEF TypeOK
  <2> QED
    BY <1>0, <1>5, <2>3 DEF Blame, TypeOK, client, owners, io, threads
<1>6. CASE Offer(t)
  <2>1. n \in 1..made
    BY <1>0, <1>6 DEF Offer, Does, Formed
  <2>2. queue' \in [Pipe -> Seq(Items)]
    BY <1>6, <2>1, ItemTyped, QueueTyped DEF Offer, Pipe
  <2> QED
    BY <1>0, <1>6, <2>2 DEF Offer, TypeOK, Items, client, flags, owners, io, history
<1>7. CASE GivesUp(t)
  BY <1>0, <1>7 DEF GivesUp, TypeOK, flags, owners, io, threads, history
<1>8. CASE EnqueueExit(t)
  <2>1. Due(t).arg \in Pipe
    BY <1>0, <1>8 DEF EnqueueExit, Does, Formed
  <2>2. queue' \in [Pipe -> Seq(Items)]
    BY <1>8, <2>1, ItemTyped, QueueTyped DEF EnqueueExit
  <2>3. stopping' \in [Pipe -> BOOLEAN]
    BY <1>8, <2>1 DEF EnqueueExit, TypeOK
  <2> QED
    BY <1>0, <1>8, <2>2, <2>3 DEF EnqueueExit, TypeOK, Items, client, flags, owners, io, history
<1>9. CASE Join(t)
  <2>1. phase' \in [Threads -> {"run", "exit", "gone"}]
    BY <1>9 DEF Join, TypeOK
  <2> QED
    BY <1>0, <1>9, <2>1 DEF Join, TypeOK, client, flags, owners, io, history
<1>10. CASE AddHandler(t) /\ undefined' # "race"
  <2>1. n \in 1..made /\ Due(t).arg \in Pipe
    BY <1>0, <1>10 DEF AddHandler, Does, Formed
  <2>2. handlers' = [handlers EXCEPT ![n] = Append(@, Due(t).arg)] /\ UNCHANGED undefined
    BY <1>10 DEF AddHandler
  <2>3. n \in Conns /\ handlers[n] \in Seq(Threads) /\ Due(t).arg \in Threads
    BY <1>m, <2>1 DEF TypeOK, Threads
  <2>4. handlers' \in [Conns -> Seq(Threads)]
    BY <2>2, <2>3, AppendProperties DEF TypeOK
  <2>5. UNCHANGED <<client, state, holder, forError, owners, io, threads, history, undefined>>
    BY <1>10, <2>2 DEF AddHandler
  <2> QED
    BY <1>0, <2>4, <2>5 DEF TypeOK, client, owners, io, threads, history
<1> QED
  BY <1>0, <1>1, <1>2, <1>3, <1>4, <1>5, <1>6, <1>7, <1>8, <1>9, <1>10 DEF Plain

(* The client makes the next connection.                                   *)
LEMMA TriesGoes ==
    ASSUME TypeOK, Agendas, NEW t \in Threads, TriesAgain(t)
    PROVE  /\ agenda[t] # <<>> /\ Decides(Due(t)) /\ Due(t) \in Pending(t)
           /\ made + 1 \in Conns /\ made' = made + 1 /\ retryCount' = retryCount + 1 /\ retryCount' <= Retries
           /\ Agendas'
           /\ \A u \in Threads \ {t} : agenda'[u] = agenda[u]
           /\ \E steps \in Seq(Steps) :
                 /\ Goes(t, ToSet(steps)) /\ agenda'[t] = steps \o Tail(agenda[t])
                 /\ \/ \E x \in Steps : steps = <<x>> /\ Opens(x) /\ x.arg = "INITIALIZED" /\ x.conn = made + 1
                    \/ \A x \in ToSet(steps) : Calm(x) /\ x.conn = made + 1
<1>0. PICK m : m = made + 1
  OBVIOUS
<1> DEFINE x == Do("state", m, "INITIALIZED")
<1>1. agenda[t] # <<>> /\ Due(t).op = "decide"
  BY DEF TriesAgain, Does
<1>2. made < MaxConns /\ made' = m /\ retryCount' = retryCount + 1 /\ retryCount < Retries
  BY <1>0 DEF TriesAgain
<1>3. made \in Nat /\ m \in Conns /\ m \in 1..MaxConns /\ m \in 0..MaxConns /\ retryCount' <= Retries
  BY <1>0, <1>2, MadeTyped DEF Conns, TypeOK
<1>4. x \in Steps /\ HandleError(m, "failed") \in Seq(Steps)
  BY <1>3, DoTyped, Words, ErrorSteps
<1>5. x.op = "state" /\ x.arg = "INITIALIZED" /\ x.conn = m /\ Opens(x)
  BY DoFields DEF Opens
<1>6. Formed(x)'
  <2>1. m \in 1..made' /\ x.arg \in States \ {"NONE"}
    BY <1>2, <1>3, <1>5 DEF States
  <2> HIDE DEF x
  <2> QED
    BY <1>5, <2>1 DEF Formed
<1>7. \A y \in ToSet(HandleError(m, "failed")) : Calm(y) /\ y.conn = m /\ Formed(y)'
  <2>1. \A y \in {Do("blame", m, "failed"), Do("state", m, "CLOSED")} : Calm(y) /\ y.conn = m /\ Formed(y)'
    BY <1>2, <1>3, DoFields DEF Formed, Calm, Opens, Manages, Decides, States
  <2> QED
    BY <1>3, <2>1, ErrorSteps
<1>8. \/ Then(t, <<x>>)
      \/ Then(t, HandleError(m, "failed"))
  BY <1>0 DEF TriesAgain
<1>9. Due(t) \in Pending(t) /\ Decides(Due(t))
  BY <1>1, DueFacts DEF Decides
<1>10. made \in Int /\ made' \in Int /\ made <= made'
  BY <1>0, <1>2, <1>3
<1> HIDE DEF x
<1>11. CASE Then(t, <<x>>)
  <2>1. <<x>> \in Seq(Steps) /\ ToSet(<<x>>) = {x}
    BY <1>4, OneStep
  <2>3. \A y \in ToSet(<<x>>) : Formed(y)'
    BY <1>6, <2>1
  <2>2. /\ Agendas' /\ Goes(t, ToSet(<<x>>)) /\ agenda'[t] = <<x>> \o Tail(agenda[t])
        /\ \A u \in Threads \ {t} : agenda'[u] = agenda[u]
    BY <1>1, <1>10, <1>11, <2>1, <2>3, ThenGoes
  <2> QED
    BY <1>0, <1>1, <1>2, <1>3, <1>4, <1>5, <1>9, <2>1, <2>2
<1>12. CASE Then(t, HandleError(m, "failed"))
  <2>2. /\ Agendas' /\ Goes(t, ToSet(HandleError(m, "failed")))
        /\ agenda'[t] = HandleError(m, "failed") \o Tail(agenda[t])
        /\ \A u \in Threads \ {t} : agenda'[u] = agenda[u]
    BY <1>1, <1>4, <1>7, <1>10, <1>12, ThenGoes
  <2> QED
    BY <1>0, <1>1, <1>2, <1>3, <1>4, <1>7, <1>9, <2>2
<1> QED
  BY <1>8, <1>11, <1>12

LEMMA TriesTyped ==
    ASSUME TypeOK, Agendas, NEW t \in Threads, TriesAgain(t)
    PROVE  TypeOK' /\ Agendas'
<1>1. /\ made + 1 \in Conns /\ made' = made + 1 /\ retryCount' = retryCount + 1 /\ retryCount' <= Retries
      /\ Agendas'
  BY TriesGoes
<1>2. made \in Nat /\ 1..made \subseteq 1..made' /\ 0..made \subseteq 0..made'
  BY <1>1, MadeTyped
<1>3. /\ connected' = FALSE /\ handlers' = [handlers EXCEPT ![made + 1] = <<"client">>]
      /\ UNCHANGED <<exiting, events, state, holder, forError, owners, io, threads, history, undefined>>
  BY DEF TriesAgain
<1>4. handlers' \in [Conns -> Seq(Threads)]
  <2>1. "client" \in Threads /\ <<"client">> \in Seq(Threads)
    BY DEF Threads
  <2> QED
    BY <1>1, <1>3, <2>1 DEF TypeOK
<1>5. events' \in Seq(Events')
  <2>1. events \in Seq(Events) /\ Events \subseteq Events'
    BY <1>2, QueuesTyped DEF Events
  <2> QED
    BY <1>3, <2>1, SeqMonotonic
<1>6. queue' \in [Pipe -> Seq(Items')]
  <2>1. queue \in [Pipe -> Seq(Items)] /\ Items \subseteq Items'
    BY <1>2, QueuesTyped DEF Items
  <2>2. \A q \in Pipe : queue[q] \in Seq(Items')
    BY <2>1, SeqMonotonic
  <2> QED
    BY <1>3, <2>1, <2>2 DEF threads
<1>7. retryCount' \in 0..Retries
  BY <1>1 DEF TypeOK
<1>8. /\ freed' \in SUBSET (1..made') /\ finishing' \in SUBSET (1..made') /\ registered' \in SUBSET (1..made')
      /\ established' \in SUBSET (1..made') /\ lost' \in SUBSET (1..made') /\ early' \in SUBSET (1..made')
  <2>1. UNCHANGED <<freed, finishing, registered, established, lost, early>>
    BY <1>3 DEF owners, io, history
  <2>2. /\ freed \in SUBSET (1..made) /\ finishing \in SUBSET (1..made) /\ registered \in SUBSET (1..made)
        /\ established \in SUBSET (1..made) /\ lost \in SUBSET (1..made) /\ early \in SUBSET (1..made)
    BY DEF TypeOK
  <2> QED
    BY <1>2, <2>1, <2>2
<1>9. /\ exiting' \in BOOLEAN /\ state' \in [Conns -> States]
      /\ holder' \in [Conns -> Threads \cup {NoThread}] /\ forError' \in [Conns -> BOOLEAN]
      /\ managedBy' \in [Conns -> SUBSET Pipe] /\ closedBy' \in [Conns -> SUBSET Threads]
      /\ phase' \in [Threads -> {"run", "exit", "gone"}] /\ stopping' \in [Pipe -> BOOLEAN]
      /\ undefined' \in {"no", "freed", "race"} /\ connected' \in BOOLEAN
  BY <1>3 DEF TypeOK, owners, threads
<1> QED
  BY <1>1, <1>4, <1>5, <1>6, <1>7, <1>8, <1>9 DEF TypeOK, Events, Kinds, Items

(* A thread in its loop takes what it was told or asked.                   *)
LEMMA TakesEvent ==
    ASSUME TypeOK, NEW e \in Kinds, NEW n, TakeEvent(e, n)
    PROVE  /\ agenda["client"] = <<>> /\ "client" \in Threads
           /\ n \in 1..made /\ events # <<>> /\ Head(events) = Event(e, n) /\ Heard(e, n)
           /\ events' = Tail(events) /\ events' \in Seq(Events)
<1>1. agenda["client"] = <<>> /\ events # <<>> /\ Head(events) = Event(e, n) /\ events' = Tail(events)
  BY DEF TakeEvent, InLoop
<1>2. events \in Seq(Events)
  BY QueuesTyped
<1>3. Head(events) \in Events /\ Head(events) \in ToSet(events)
  BY <1>1, <1>2, EventsTyped, HeadTailElements
<1>4. n \in 1..made
  BY <1>1, <1>3, DoFields DEF Events
<1> QED
  BY <1>1, <1>3, <1>4, EventsTyped DEF Threads, Heard

LEMMA TakesItem ==
    ASSUME TypeOK, NEW q \in Pipe, NEW e, NEW n, Take(q, e, n)
    PROVE  /\ agenda[q] = <<>> /\ q \in Threads
           /\ n \in 0..made /\ queue[q] # <<>> /\ Event(e, n) \in ToSet(queue[q])
           /\ queue' = [queue EXCEPT ![q] = Tail(@)] /\ queue' \in [Pipe -> Seq(Items)]
           /\ Head(queue[q]) = Event(e, n)
<1>1. /\ agenda[q] = <<>> /\ queue[q] # <<>> /\ Head(queue[q]) = Event(e, n)
      /\ queue' = [queue EXCEPT ![q] = Tail(@)]
  BY DEF Take, InLoop
<1>2. queue[q] \in Seq(Items)
  BY QueuesTyped
<1>3. Head(queue[q]) \in Items /\ Head(queue[q]) \in ToSet(queue[q])
  BY <1>1, <1>2, HeadTailProperties, HeadTailElements
<1>4. n \in 0..made
  BY <1>1, <1>3, DoFields DEF Items
<1> QED
  BY <1>1, <1>3, <1>4, QueueTyped DEF Threads

\* Steps that neither open, nor hand over, nor decide.
Quiet(steps) == \A x \in ToSet(steps) : Calm(x)

Starts(t, steps) == agenda[t] = <<>> /\ agenda' = [agenda EXCEPT ![t] = steps]

LEMMA ConnectsGoes ==
    ASSUME TypeOK, Agendas, NEW n \in Conns, Connects(n)
    PROVE  \E steps \in Seq(Steps) :
              /\ Starts("client", steps)
              /\ \A x \in ToSet(steps) : Formed(x) /\ x.conn = n
              /\ \/ \E x \in Steps : steps = <<x>> /\ Opens(x)
                 \/ \A x \in ToSet(steps) : Calm(x)
<1>1. n \in 1..made /\ agenda["client"] = <<>>
  BY TakesEvent DEF Connects, Kinds
<1>2. n \in 1..MaxConns /\ n \in 0..MaxConns
  BY <1>1, MadeTyped
<1>3. ASSUME NEW s \in {"CONNECTING", "CONNECTED"},
             agenda' = [agenda EXCEPT !["client"] = <<Do("state", n, s)>>]
      PROVE  \E x \in Steps : /\ agenda' = [agenda EXCEPT !["client"] = <<x>>]
                              /\ Opens(x) /\ Formed(x) /\ x.conn = n
  <2>1. Do("state", n, s) \in Steps
    BY <1>2, DoTyped, Words
  <2>2. Opens(Do("state", n, s)) /\ Formed(Do("state", n, s)) /\ Do("state", n, s).conn = n
    BY <1>1, DoFields DEF Opens, Formed, States
  <2> QED
    BY <1>3, <2>1, <2>2
<1>4. CASE agenda' = [agenda EXCEPT !["client"] = HandleError(n, "failed")]
  <2>1. /\ HandleError(n, "failed") \in Seq(Steps)
        /\ \A x \in ToSet(HandleError(n, "failed")) : Formed(x) /\ x.conn = n
    BY <1>1, <1>2, ErrorSteps
  <2>2. \A x \in {Do("blame", n, "failed"), Do("state", n, "CLOSED")} : Calm(x)
    BY DoFields DEF Calm, Opens, Manages, Decides
  <2>3. \A x \in ToSet(HandleError(n, "failed")) : Calm(x)
    BY <1>2, <2>2, ErrorSteps
  <2> QED
    BY <1>1, <1>4, <2>1, <2>3 DEF Starts
<1>5. CASE \E x \in Steps : /\ agenda' = [agenda EXCEPT !["client"] = <<x>>]
                            /\ Opens(x) /\ Formed(x) /\ x.conn = n
  <2>1. PICK x \in Steps : /\ agenda' = [agenda EXCEPT !["client"] = <<x>>]
                           /\ Opens(x) /\ Formed(x) /\ x.conn = n
    BY <1>5
  <2>2. <<x>> \in Seq(Steps) /\ ToSet(<<x>>) = {x}
    BY OneStep
  <2> QED
    BY <1>1, <2>1, <2>2 DEF Starts
<1>6. \/ agenda' = [agenda EXCEPT !["client"] = <<Do("state", n, "CONNECTING")>>]
      \/ agenda' = [agenda EXCEPT !["client"] = <<Do("state", n, "CONNECTED")>>]
      \/ agenda' = [agenda EXCEPT !["client"] = HandleError(n, "failed")]
  BY DEF Connects
<1> QED
  BY <1>3, <1>4, <1>5, <1>6

LEMMA FinishesGoes ==
    ASSUME TypeOK, Agendas, NEW n \in Conns, FinishesConnect(n)
    PROVE  \E steps \in Seq(Steps) :
              /\ Starts("client", steps)
              /\ \A x \in ToSet(steps) : Formed(x) /\ x.conn = n
              /\ \/ steps = Manage(n)
                 \/ \A x \in ToSet(steps) : Calm(x)
<1>1. n \in 1..made /\ agenda["client"] = <<>>
  BY TakesEvent DEF FinishesConnect, Kinds
<1>2. n \in 1..MaxConns
  BY <1>1, MadeTyped
<1>3. CASE agenda' = [agenda EXCEPT !["client"] = Manage(n)]
  <2>1. Manage(n) \in Seq(Steps) /\ \A x \in ToSet(Manage(n)) : Formed(x) /\ x.conn = n
    BY <1>1, ManageSteps
  <2> QED
    BY <1>1, <1>3, <2>1 DEF Starts
<1>4. CASE agenda' = [agenda EXCEPT !["client"] = HandleError(n, "failed")]
  <2>1. /\ HandleError(n, "failed") \in Seq(Steps)
        /\ \A x \in ToSet(HandleError(n, "failed")) : Formed(x) /\ x.conn = n
    BY <1>1, <1>2, ErrorSteps
  <2>2. \A x \in {Do("blame", n, "failed"), Do("state", n, "CLOSED")} : Calm(x)
    BY DoFields DEF Calm, Opens, Manages, Decides
  <2>3. ToSet(HandleError(n, "failed")) = {Do("blame", n, "failed"), Do("state", n, "CLOSED")}
    BY <1>2, ErrorSteps
  <2>4. \A x \in ToSet(HandleError(n, "failed")) : Calm(x)
    BY <2>2, <2>3
  <2> QED
    BY <1>1, <1>4, <2>1, <2>4 DEF Starts
<1> QED
  BY <1>3, <1>4 DEF FinishesConnect

LEMMA LosesGoes ==
    ASSUME TypeOK, Agendas, NEW n \in Conns, Loses(n)
    PROVE  \E y \in Steps, d \in Steps :
              /\ Starts("client", <<y, d>>) /\ <<y, d>> \in Seq(Steps) /\ ToSet(<<y, d>>) = {y, d}
              /\ Formed(y) /\ y.op \in {"release", "free"} /\ y.conn = n
              /\ Formed(d) /\ Decides(d)
<1>1. n \in 1..made /\ agenda["client"] = <<>>
  BY TakesEvent DEF Loses, Kinds
<1>2. n \in 0..MaxConns /\ 0 \in 0..MaxConns
  BY <1>1, MadeTyped
<1> DEFINE y == IF connected THEN Do("release", n, "client") ELSE Do("free", n, "nothing")
           d == Do("decide", 0, IF forError[n] THEN "error" ELSE "clean")
<1>3. y \in Steps /\ d \in Steps
  BY <1>2, DoTyped, Words
<1>4. Formed(y) /\ y.op \in {"release", "free"} /\ y.conn = n /\ Formed(d) /\ Decides(d)
  BY <1>1, DoFields DEF Formed, Decides, Threads
<1>5. agenda' = [agenda EXCEPT !["client"] = <<y, d>>]
  BY DEF Loses
<1> HIDE DEF y, d
<1>6. <<y, d>> \in Seq(Steps) /\ ToSet(<<y, d>>) = {y, d}
  BY <1>3, TwoSteps
<1> QED
  BY <1>1, <1>3, <1>4, <1>5, <1>6 DEF Starts

LEMMA EndSteps ==
    ASSUME NEW q \in Pipe
    PROVE  /\ End(q) \in Seq(Steps)
           /\ \A x \in ToSet(End(q)) : Formed(x) /\ x.op \in {"exit", "join"}
<1> DEFINE x == Do("exit", 0, q)
           y == Do("join", 0, q)
<1>1. x \in Steps /\ y \in Steps
  BY DoTyped, Words
<1>2. /\ Formed(x) /\ x.op = "exit"
      /\ Formed(y) /\ y.op = "join"
  BY DoFields DEF Formed
<1> HIDE DEF x, y
<1>3. <<x, y>> \in Seq(Steps) /\ ToSet(<<x, y>>) = {x, y}
  BY <1>1, TwoSteps
<1> QED
  BY <1>2, <1>3 DEF End, x, y

LEMMA QuietOps ==
    ASSUME NEW steps, \A x \in ToSet(steps) : x.op \in {"exit", "join", "release", "blame"} \/ Calm(x)
    PROVE  Quiet(steps)
  BY DEF Quiet, Calm, Opens, Manages, Decides

\* The actions at the head of a loop that bring a connection no further.
LoopAction ==
    \/ \E n \in Conns : Leaves(n) \/ Reads(n) \/ UserCloses(n) \/ Writes(n)
    \/ \E q \in Pipe : Exits(q) \/ \E n \in Conns : Closes(q, n)

Started ==
    \/ UNCHANGED agenda
    \/ \E t \in Threads, steps \in Seq(Steps) :
          /\ Starts(t, steps) /\ Quiet(steps)
          /\ \A x \in ToSet(steps) : Formed(x)

LEMMA LeavesStarts ==
    ASSUME TypeOK, NEW n, Leaves(n)
    PROVE  Started
<1>1. agenda["client"] = <<>>
  BY DEF Leaves, TakeEvent, InLoop
<1>2. "client" \in Threads /\ "reader" \in Pipe
  BY DEF Threads, Pipe
<1>3. /\ End("reader") \in Seq(Steps) /\ Quiet(End("reader"))
      /\ \A x \in ToSet(End("reader")) : Formed(x)
  BY <1>2, EndSteps, QuietOps
<1> QED
  BY <1>1, <1>2, <1>3 DEF Leaves, Started, Starts

LEMMA ExitsStarts ==
    ASSUME TypeOK, NEW q \in Pipe, Exits(q)
    PROVE  Started
<1>1. agenda[q] = <<>> /\ q \in Threads
  BY TakesItem DEF Exits
<1>2. ASSUME NEW p \in Pipe
      PROVE  /\ End(p) \in Seq(Steps) /\ Quiet(End(p))
             /\ \A x \in ToSet(End(p)) : Formed(x)
  BY EndSteps, QuietOps
<1>3. /\ <<>> \in Seq(Steps) /\ ToSet(<<>>) = {} /\ Quiet(<<>>)
  BY EmptySeq, ShortElements DEF Quiet
<1>4. "worker" \in Pipe /\ "writer" \in Pipe
  BY DEF Pipe
<1>5. \/ agenda' = [agenda EXCEPT ![q] = End("worker")]
      \/ agenda' = [agenda EXCEPT ![q] = End("writer")]
      \/ agenda' = [agenda EXCEPT ![q] = <<>>]
  <2>1. agenda' = [agenda EXCEPT ![q] = CASE q = "reader" -> End("worker")
                                         [] q = "worker" -> End("writer")
                                         [] q = "writer" -> <<>>]
    BY DEF Exits
  <2>2. q = "reader" \/ q = "worker" \/ q = "writer"
    BY DEF Pipe
  <2> QED
    BY <2>1, <2>2
<1> HIDE DEF End
<1> QED
  BY <1>1, <1>2, <1>3, <1>4, <1>5 DEF Started, Starts

LEMMA ClosesStarts ==
    ASSUME TypeOK, NEW q \in Pipe, NEW n \in Conns, Closes(q, n)
    PROVE  Started /\ n \in 1..made
<1>1. agenda[q] = <<>> /\ q \in Threads /\ agenda' = [agenda EXCEPT ![q] = <<Do("release", n, q)>>]
  BY DEF Closes, InLoop, Threads
<1>2. n \in 1..made
  <2>1. queue[q] \in Seq(Items) /\ queue[q] # <<>> /\ Head(queue[q]) = Event("CLOSE", n)
    BY QueuesTyped DEF Closes
  <2>2. Head(queue[q]) \in Items
    BY <2>1, HeadTailProperties
  <2>3. n \in 0..made
    BY <2>1, <2>2, DoFields DEF Items
  <2> QED
    BY <2>3, MadeTyped DEF Conns
<1>3. n \in 0..MaxConns
  BY <1>2, MadeTyped
<1> DEFINE x == Do("release", n, q)
<1>4. x \in Steps
  BY <1>1, <1>3, DoTyped, Words
<1>5. Formed(x) /\ x.op = "release"
  BY <1>1, <1>2, DoFields DEF Formed, Calm, Opens, Manages, Decides
<1>6. agenda' = [agenda EXCEPT ![q] = <<x>>]
  BY <1>1
<1> HIDE DEF x
<1>7. <<x>> \in Seq(Steps) /\ ToSet(<<x>>) = {x}
  BY <1>4, OneStep
<1>8. Quiet(<<x>>)
  BY <1>5, <1>7, QuietOps
<1> QED
  BY <1>1, <1>2, <1>5, <1>6, <1>7, <1>8 DEF Started, Starts

(* A failing call, when it is allowed to say so.                           *)
LEMMA ErrorStarts ==
    ASSUME TypeOK, NEW t \in Threads, agenda[t] = <<>>, NEW n \in 1..made, NEW why \in {"failed", "noted"},
           agenda' = [agenda EXCEPT ![t] = HandleError(n, why)]
    PROVE  Started
<1>1. n \in 1..MaxConns
  BY MadeTyped
<1>2. /\ HandleError(n, why) \in Seq(Steps)
      /\ \A x \in ToSet(HandleError(n, why)) : x.conn = n /\ Formed(x)
  BY <1>1, ErrorSteps
<1>3. \A x \in {Do("blame", n, why), Do("state", n, "CLOSED")} : Calm(x)
  BY DoFields DEF Calm, Opens, Manages, Decides
<1>4. Quiet(HandleError(n, why))
  <2>1. \A x \in ToSet(HandleError(n, why)) : Calm(x)
    BY <1>1, <1>3, ErrorSteps
  <2> QED
    BY <2>1, QuietOps
<1> HIDE DEF HandleError
<1> QED
  BY <1>2, <1>4 DEF Started, Starts

LEMMA StateStarts ==
    ASSUME TypeOK, NEW t \in Threads, agenda[t] = <<>>, NEW n \in 1..made, NEW s \in {"PENDING_CLOSE", "CLOSED"},
           agenda' = [agenda EXCEPT ![t] = <<Do("state", n, s)>>]
    PROVE  Started
<1> DEFINE x == Do("state", n, s)
<1>1. n \in 0..MaxConns
  BY MadeTyped
<1>2. x \in Steps
  BY <1>1, DoTyped, Words
<1>3. Formed(x) /\ x.conn = n /\ Calm(x)
  BY DoFields DEF Formed, Calm, Opens, Manages, Decides, States
<1>4. agenda' = [agenda EXCEPT ![t] = <<x>>]
  OBVIOUS
<1> HIDE DEF x
<1>5. <<x>> \in Seq(Steps) /\ ToSet(<<x>>) = {x}
  BY <1>2, OneStep
<1>6. Quiet(<<x>>)
  BY <1>3, <1>5, QuietOps
<1> QED
  BY <1>3, <1>4, <1>5, <1>6 DEF Started, Starts

LEMMA ReadsStarts ==
    ASSUME TypeOK, NEW n \in Conns, Reads(n)
    PROVE  Started
<1>1. agenda["reader"] = <<>> /\ n \in registered
  BY DEF Reads, InLoop
<1>2. n \in 1..made
  BY <1>1 DEF TypeOK
<1>3. "reader" \in Threads
  BY DEF Threads, Pipe
<1>4. CASE agenda' = [agenda EXCEPT !["reader"] = HandleError(n, "failed")]
  BY <1>1, <1>2, <1>3, <1>4, ErrorStarts
<1>5. CASE agenda' = [agenda EXCEPT !["reader"] = <<Do("state", n, "CLOSED")>>]
  BY <1>1, <1>2, <1>3, <1>5, StateStarts
<1>6. CASE agenda' = [agenda EXCEPT !["reader"] = HandleDisconnected(n)]
  <2>1. /\ HandleDisconnected(n) \in Seq(Steps)
        /\ \A x \in ToSet(HandleDisconnected(n)) : x.conn = n /\ Formed(x)
    BY <1>2, DisconnectedSteps
  <2>2. \A x \in {Do("blame", n, "noted"), Do("blame", n, "disconnected"), Do("state", n, "CLOSED")} : Calm(x)
    BY DoFields DEF Calm, Opens, Manages, Decides
  <2>3. Quiet(HandleDisconnected(n))
    <3>1. \A x \in ToSet(HandleDisconnected(n)) : Calm(x)
      BY <1>2, <2>2, DisconnectedSteps
    <3> QED
      BY <3>1, QuietOps
  <2> HIDE DEF HandleDisconnected
  <2> QED
    BY <1>1, <1>2, <1>3, <1>6, <2>1, <2>3 DEF Started, Starts
<1> QED
  BY <1>4, <1>5, <1>6 DEF Reads

LEMMA UserClosesStarts ==
    ASSUME TypeOK, NEW n \in 1..made, UserCloses(n)
    PROVE  Started
<1>1. agenda["worker"] = <<>> /\ "worker" \in Threads
  BY DEF UserCloses, InLoop, Threads, Pipe
<1>2. PICK s \in Closings : agenda' = [agenda EXCEPT !["worker"] = <<Do("state", n, s)>>]
  BY DEF UserCloses
<1>3. s \in {"PENDING_CLOSE", "CLOSED"}
  BY ClientAssumption
<1> QED
  BY <1>1, <1>2, <1>3, StateStarts

LEMMA WritesStarts ==
    ASSUME TypeOK, NEW n \in Conns, Writes(n)
    PROVE  Started
<1>0. "writer" \in Pipe
  BY DEF Pipe
<1>1. /\ agenda["writer"] = <<>> /\ "writer" \in Threads /\ n \in 0..made
      /\ Event("OUTBOUND", n) \in ToSet(queue["writer"])
  BY <1>0, TakesItem DEF Writes
<1>2. n \in 1..made
  BY <1>1, MadeTyped DEF Conns
<1>3. <<>> \in Seq(Steps) /\ ToSet(<<>>) = {} /\ Quiet(<<>>)
  BY EmptySeq, ShortElements DEF Quiet
<1>4. \/ agenda' = [agenda EXCEPT !["writer"] = <<>>]
      \/ agenda' = [agenda EXCEPT !["writer"] = HandleError(n, "failed")]
      \/ agenda' = [agenda EXCEPT !["writer"] = HandleError(n, "noted")]
  BY DEF Writes
<1>5. CASE agenda' = [agenda EXCEPT !["writer"] = <<>>]
  BY <1>1, <1>3, <1>5 DEF Started, Starts
<1>6. CASE agenda' = [agenda EXCEPT !["writer"] = HandleError(n, "failed")]
  BY <1>1, <1>2, <1>6, ErrorStarts
<1>7. CASE agenda' = [agenda EXCEPT !["writer"] = HandleError(n, "noted")]
  BY <1>1, <1>2, <1>7, ErrorStarts
<1> QED
  BY <1>4, <1>5, <1>6, <1>7

(* The reader takes over a connection.                                     *)
LEMMA ReaderManagesGoes ==
    ASSUME TypeOK, NEW n \in Conns, ReaderManages(n)
    PROVE  LET x == Do("sign", n, "reader") IN
           /\ Starts("reader", <<x>>) /\ x \in Steps /\ n \in 1..made /\ Offered(n)
           /\ Formed(x) /\ x.conn = n /\ x.op = "sign"
           /\ queue' = [queue EXCEPT !["reader"] = Tail(@)] /\ Head(queue["reader"]) = Event("DATA", n)
           /\ queue["reader"] # <<>> /\ queue' \in [Pipe -> Seq(Items)]
<1>0. "reader" \in Pipe
  BY DEF Pipe
<1>1. /\ agenda["reader"] = <<>> /\ "reader" \in Threads /\ n \in 0..made
      /\ Event("DATA", n) \in ToSet(queue["reader"])
      /\ queue' = [queue EXCEPT !["reader"] = Tail(@)] /\ Head(queue["reader"]) = Event("DATA", n)
      /\ queue["reader"] # <<>> /\ queue' \in [Pipe -> Seq(Items)]
  BY <1>0, TakesItem DEF ReaderManages
<1>2. n \in 1..made /\ n \in 0..MaxConns
  BY <1>1, MadeTyped DEF Conns
<1>3. Do("sign", n, "reader") \in Steps
  BY <1>2, DoTyped, Words
<1>4. /\ Formed(Do("sign", n, "reader")) /\ Do("sign", n, "reader").conn = n
      /\ Do("sign", n, "reader").op = "sign"
  BY <1>0, <1>2, DoFields DEF Formed
<1>5. agenda' = [agenda EXCEPT !["reader"] = <<Do("sign", n, "reader")>>]
  BY DEF ReaderManages
<1> QED
  BY <1>1, <1>2, <1>3, <1>4, <1>5 DEF Starts, Offered

LEMMA StartsGoes ==
    ASSUME TypeOK, Agendas, UNCHANGED made, NEW t \in Threads, NEW steps \in Seq(Steps), Starts(t, steps),
           \A x \in ToSet(steps) : Formed(x)
    PROVE  /\ Agendas' /\ Pending(t) = {}
           /\ agenda'[t] = steps /\ Pending(t)' = ToSet(steps)
           /\ \A u \in Threads \ {t} : agenda'[u] = agenda[u] /\ Pending(u)' = Pending(u)
<1>1. made \in Int /\ agenda' = [agenda EXCEPT ![t] = steps] /\ agenda[t] = <<>>
  BY MadeTyped DEF Starts
<1>2. Pending(t) = {}
  BY <1>1, ShortElements DEF Pending
<1> QED
  BY <1>1, <1>2, StartGoes

LEMMA AgendaRests ==
    ASSUME Agendas, UNCHANGED <<agenda, made>>
    PROVE  Agendas' /\ \A u \in Threads : agenda'[u] = agenda[u] /\ Pending(u)' = Pending(u)
<1>1. \A u \in Threads : agenda'[u] = agenda[u] /\ Pending(u)' = Pending(u)
  BY DEF Pending
<1> QED
  BY <1>1 DEF Agendas, Formed

LEMMA StartedAgendas ==
    ASSUME TypeOK, Agendas, UNCHANGED made, Started
    PROVE  Agendas'
<1>1. CASE UNCHANGED agenda
  BY <1>1, AgendaRests
<1>2. ASSUME NEW t \in Threads, NEW steps \in Seq(Steps), Starts(t, steps), \A x \in ToSet(steps) : Formed(x)
      PROVE  Agendas'
  BY <1>2, StartsGoes
<1> QED
  BY <1>1, <1>2 DEF Started

LEMMA ClientStepTyped ==
    ASSUME TypeOK, Agendas, NEW n \in Conns,
           Connects(n) \/ FinishesConnect(n) \/ Establishes(n) \/ Loses(n) \/ Leaves(n)
    PROVE  TypeOK' /\ Agendas' /\ UNCHANGED made
<1>1. UNCHANGED made
  BY DEF Connects, FinishesConnect, Establishes, Loses, Leaves
<1>2. events' \in Seq(Events)
  <2>1. \E e \in Kinds : TakeEvent(e, n)
    BY DEF Connects, FinishesConnect, Establishes, Loses, Leaves, Kinds
  <2> QED
    BY <2>1, TakesEvent
<1>3. connected' \in BOOLEAN /\ retryCount' \in 0..Retries /\ exiting' \in BOOLEAN
  <2>1. /\ connected' = connected \/ connected' = TRUE
        /\ retryCount' = retryCount \/ retryCount' = 0
        /\ exiting' = exiting
    BY DEF Connects, FinishesConnect, Establishes, Loses, Leaves
  <2>2. connected \in BOOLEAN /\ retryCount \in 0..Retries /\ exiting \in BOOLEAN /\ 0 \in 0..Retries
    BY ClientAssumption DEF TypeOK
  <2> QED
    BY <2>1, <2>2
<1>4. UNCHANGED <<flags, owners, io, queue, stopping, history, undefined>>
  BY DEF Connects, FinishesConnect, Establishes, Loses, Leaves, threads
<1>5. phase' \in [Threads -> {"run", "exit", "gone"}]
  BY DEF Connects, FinishesConnect, Establishes, Loses, Leaves, threads, TypeOK
<1>6. "client" \in Threads
  BY DEF Threads
<1>7. Agendas'
  <2>1. CASE Connects(n)
    <3>1. PICK steps \in Seq(Steps) : Starts("client", steps) /\ \A x \in ToSet(steps) : Formed(x)
      BY <2>1, ConnectsGoes
    <3> QED
      BY <1>1, <1>6, <3>1, StartsGoes
  <2>2. CASE FinishesConnect(n)
    <3>1. PICK steps \in Seq(Steps) : Starts("client", steps) /\ \A x \in ToSet(steps) : Formed(x)
      BY <2>2, FinishesGoes
    <3> QED
      BY <1>1, <1>6, <3>1, StartsGoes
  <2>3. CASE Establishes(n)
    BY <1>1, <2>3, AgendaRests DEF Establishes
  <2>4. CASE Loses(n)
    <3>1. PICK y \in Steps, d \in Steps :
             /\ Starts("client", <<y, d>>) /\ <<y, d>> \in Seq(Steps) /\ ToSet(<<y, d>>) = {y, d}
             /\ Formed(y) /\ Formed(d)
      BY <2>4, LosesGoes
    <3>2. \A x \in ToSet(<<y, d>>) : Formed(x)
      BY <3>1
    <3> QED
      BY <1>1, <1>6, <3>1, <3>2, StartsGoes
  <2>5. CASE Leaves(n)
    BY <1>1, <2>5, LeavesStarts, StartedAgendas
  <2> QED
    BY <2>1, <2>2, <2>3, <2>4, <2>5
<1> QED
  BY <1>1, <1>2, <1>3, <1>4, <1>5, <1>7, QueuesTyped, TypesKept DEF TypeOK, flags, owners, io, history

(* What is not made yet has no state; the user closes what has one.        *)
Fresh == \A n \in Conns : n > made => state[n] = "NONE"

LEMMA PipeStepTyped ==
    ASSUME TypeOK, Agendas, Fresh, NEW q \in Pipe, NEW n \in Conns,
           \/ Exits(q) \/ Closes(q, n) \/ Reads(n) \/ UserCloses(n)
           \/ q = "reader" /\ ReaderManages(n)
           \/ q = "writer" /\ Writes(n)
    PROVE  TypeOK' /\ Agendas' /\ UNCHANGED made
<1>1. UNCHANGED <<client, flags, owners, finishing, stopping, history, undefined>>
  BY DEF Exits, Closes, Reads, UserCloses, ReaderManages, Writes, io, threads
<1>2. UNCHANGED <<made, connected, retryCount, exiting, events>>
  BY <1>1 DEF client
<1>3. /\ Agendas' /\ queue' \in [Pipe -> Seq(Items)] /\ registered' \in SUBSET (1..made)
      /\ phase' \in [Threads -> {"run", "exit", "gone"}]
  <2>1. CASE Exits(q)
    <3>1. Agendas'
      BY <1>2, <2>1, ExitsStarts, StartedAgendas
    <3>2. queue' \in [Pipe -> Seq(Items)]
      BY <2>1, TakesItem DEF Exits
    <3> QED
      BY <2>1, <3>1, <3>2 DEF Exits, io, TypeOK
  <2>2. CASE Closes(q, n)
    <3>1. Agendas'
      BY <1>2, <2>2, ClosesStarts, StartedAgendas
    <3>2. queue' \in [Pipe -> Seq(Items)]
      <4>1. queue[q] # <<>>
        BY <2>2 DEF Closes
      <4> DEFINE R == {i \in ToSet(queue[q]) : i.conn = n}
      <4>2. \/ queue' = [queue EXCEPT ![q] = Tail(@)]
            \/ queue' = [queue EXCEPT ![q] = Without(Tail(@), R)]
        BY <2>2 DEF Closes
      <4> HIDE DEF R
      <4>3. queue \in [Pipe -> Seq(Items)] /\ queue[q] \in Seq(Items)
        BY QueuesTyped
      <4>4. Tail(queue[q]) \in Seq(Items)
        BY <4>1, <4>3, HeadTailProperties
      <4>5. Without(Tail(queue[q]), R) \in Seq(Items)
        BY <4>4, WithoutProperties
      <4> QED
        BY <4>2, <4>3, <4>4, <4>5
    <3> QED
      BY <2>2, <3>1, <3>2 DEF Closes, TypeOK
  <2>3. CASE Reads(n)
    <3>1. Agendas'
      BY <1>2, <2>3, ReadsStarts, StartedAgendas
    <3>2. queue' \in [Pipe -> Seq(Items)] /\ UNCHANGED <<registered, phase>>
      BY <2>3, QueuesTyped DEF Reads, io, threads
    <3> QED
      BY <3>1, <3>2 DEF TypeOK
  <2>4. CASE UserCloses(n)
    <3>0. n \in 1..made
      BY <2>4, MadeTyped DEF UserCloses, Fresh, Conns
    <3>1. Agendas'
      BY <1>2, <2>4, <3>0, UserClosesStarts, StartedAgendas
    <3>2. queue' \in [Pipe -> Seq(Items)] /\ UNCHANGED <<registered, phase>>
      BY <2>4, QueuesTyped DEF UserCloses, io, threads
    <3> QED
      BY <3>1, <3>2 DEF TypeOK
  <2>5. CASE ReaderManages(n)
    <3> DEFINE x == Do("sign", n, "reader")
    <3>1. /\ Starts("reader", <<x>>) /\ x \in Steps /\ n \in 1..made /\ Formed(x)
          /\ queue' \in [Pipe -> Seq(Items)]
      BY <2>5, ReaderManagesGoes
    <3> HIDE DEF x
    <3>2. <<x>> \in Seq(Steps) /\ \A y \in ToSet(<<x>>) : Formed(y)
      BY <3>1, OneStep
    <3>3. Agendas'
      BY <1>2, <3>1, <3>2, StartsGoes DEF Threads, Pipe
    <3>4. registered' \in SUBSET (1..made)
      BY <2>5, <3>1 DEF ReaderManages, TypeOK
    <3> QED
      BY <2>5, <3>1, <3>3, <3>4 DEF ReaderManages, TypeOK
  <2>6. CASE Writes(n) /\ q = "writer"
    <3>1. Agendas'
      BY <1>2, <2>6, WritesStarts, StartedAgendas
    <3>2. queue' \in [Pipe -> Seq(Items)]
      BY <2>6, TakesItem DEF Writes
    <3> QED
      BY <2>6, <3>1, <3>2 DEF Writes, io, TypeOK
  <2> QED
    BY <2>1, <2>2, <2>3, <2>4, <2>5, <2>6
<1> QED
  BY <1>1, <1>2, <1>3, QueuesTyped, TypesKept DEF TypeOK, flags, owners, history

LEMMA FreshStays ==
    ASSUME TypeOK, Agendas, Fresh, Next
    PROVE  Fresh'
<1>1. CASE \E t \in Threads : ChangeState(t)
  <2>1. PICK t \in Threads : ChangeState(t)
    BY <1>1
  <2>2. PICK n \in 1..made : state' = [state EXCEPT ![n] = Due(t).arg]
    BY <2>1, ChangeStateThen DEF ChangeState
  <2>3. UNCHANGED made
    BY <2>1 DEF ChangeState
  <2>4. \A m \in Conns : m > made => state'[m] = state[m]
    BY <2>2, MadeTyped DEF TypeOK, Conns
  <2> QED
    BY <2>3, <2>4 DEF Fresh
<1>2. CASE \E t \in Threads : TriesAgain(t)
  <2>1. UNCHANGED state /\ made' = made + 1
    BY <1>2 DEF TriesAgain
  <2> QED
    BY <2>1, MadeTyped DEF Fresh, Conns
<1>3. CASE UNCHANGED state /\ UNCHANGED made
  BY <1>3 DEF Fresh
<1>4. ASSUME NEW t \in Threads, Perform(t), ~ChangeState(t), ~TriesAgain(t)
      PROVE  UNCHANGED state /\ UNCHANGED made
  BY <1>4 DEF Perform, KeepState, FireNext, FireLast, ManagedBy, NoMoreUsed, FreeConnection, Blame, Offer,
     AddHandler, GivesUp, EnqueueExit, Join, UseFreed, client, flags
<1>5. ASSUME ClientStep
      PROVE  UNCHANGED state /\ UNCHANGED made
  BY <1>5 DEF ClientStep, Connects, FinishesConnect, Establishes, Loses, Leaves, flags
<1>6. ASSUME NEW q \in Pipe, PipeStep(q)
      PROVE  UNCHANGED state /\ UNCHANGED made
  BY <1>6 DEF PipeStep, Exits, Closes, ReaderManages, Writes, flags, client
<1>7. ASSUME NEW n \in Conns, Reads(n) \/ UserCloses(n)
      PROVE  UNCHANGED state /\ UNCHANGED made
  BY <1>7 DEF Reads, UserCloses, flags, client
<1> QED
  BY <1>1, <1>2, <1>3, <1>4, <1>5, <1>6, <1>7 DEF Next

(* A thread that uses what is freed, or changes a list under its reader.   *)
Breaks(t) == UseFreed(t) \/ (AddHandler(t) /\ undefined' = "race")

LEMMA BreaksTyped ==
    ASSUME TypeOK, Agendas, NEW t \in Threads, Breaks(t)
    PROVE  TypeOK' /\ Agendas' /\ UNCHANGED <<client, flags, owners, io, threads, agenda, history>>
<1>1. CASE UseFreed(t)
  <2>1. UNCHANGED <<client, flags, owners, io, threads, agenda, history>> /\ undefined' = "freed"
    BY <1>1 DEF UseFreed
  <2>2. TypeOK'
    BY <2>1 DEF TypeOK, client, flags, owners, io, threads, history
  <2> QED
    BY <2>1, <2>2, AgendaRests DEF client
<1>2. CASE AddHandler(t) /\ undefined' = "race"
  <2>0. undefined = "no"
    BY <1>2 DEF AddHandler, Does
  <2>1. UNCHANGED <<client, state, holder, forError, handlers, agenda, owners, io, threads, history>>
    BY <1>2, <2>0 DEF AddHandler
  <2>2. TypeOK'
    BY <1>2, <2>1 DEF TypeOK, client, owners, io, threads, history
  <2> QED
    BY <2>1, <2>2, AgendaRests DEF client, flags
<1> QED
  BY <1>1, <1>2 DEF Breaks

(* The steps on agendas, by what they do to them.                          *)
LEMMA PerformKinds ==
    ASSUME NEW t, Perform(t)
    PROVE  \/ Plain(t) \/ Breaks(t)
           \/ ChangeState(t) \/ FireNext(t) \/ ManagedBy(t) \/ TriesAgain(t)
  BY DEF Perform, Plain, Breaks

LEMMA InitTyped ==
    ASSUME Init
    PROVE  TypeOK /\ Agendas /\ Fresh
<1>1. PICK ok \in BOOLEAN :
          /\ state = [n \in Conns |-> IF n > 1 THEN "NONE" ELSE IF ok THEN "INITIALIZED" ELSE "CLOSED"]
          /\ forError = [n \in Conns |-> n = 1 /\ ~ok]
          /\ handlers = [n \in Conns |-> IF n = 1 /\ ~ok THEN <<>> ELSE <<"client">>]
          /\ events = <<Event(IF ok THEN "INIT" ELSE "CLOSE", 1)>>
  BY DEF Init
<1>2. made = 1 /\ 1 \in Conns /\ 1 \in 1..made
  BY ClientAssumption DEF Init, Conns
<1>3. events \in Seq(Events)
  <2> DEFINE e == Event(IF ok THEN "INIT" ELSE "CLOSE", 1)
  <2>1. e \in Events
    BY <1>2 DEF Event, Events, Kinds
  <2>2. events = <<e>>
    BY <1>1
  <2> HIDE DEF e
  <2> QED
    BY <2>1, <2>2
<1>4. handlers \in [Conns -> Seq(Threads)]
  <2>1. <<>> \in Seq(Threads) /\ <<"client">> \in Seq(Threads)
    BY EmptySeq DEF Threads
  <2> QED
    BY <1>1, <2>1
<1>5. /\ state \in [Conns -> States] /\ forError \in [Conns -> BOOLEAN]
      /\ holder \in [Conns -> Threads \cup {NoThread}]
      /\ managedBy \in [Conns -> SUBSET Pipe] /\ closedBy \in [Conns -> SUBSET Threads]
  BY <1>1 DEF Init, States
<1>6. queue \in [Pipe -> Seq([event : {"DATA", "CLOSE", "OUTBOUND", "EXIT"}, conn : 0..made])]
  BY EmptySeq DEF Init
<1>7. lost \in SUBSET (1..made) /\ early \in SUBSET (1..made)
  BY <1>2 DEF Init
<1>8. TypeOK
  <2>1. made \in Conns /\ connected \in BOOLEAN /\ retryCount \in 0..Retries /\ exiting \in BOOLEAN
    <3>1. connected = FALSE /\ retryCount = 0 /\ exiting = FALSE
      BY DEF Init
    <3>2. 0 \in 0..Retries
      BY ClientAssumption
    <3> QED
      BY <1>2, <3>1, <3>2
  <2>2. /\ phase \in [Threads -> {"run", "exit", "gone"}] /\ stopping \in [Pipe -> BOOLEAN]
        /\ freed \in SUBSET (1..made) /\ finishing \in SUBSET (1..made) /\ registered \in SUBSET (1..made)
        /\ established \in SUBSET (1..made) /\ undefined \in {"no", "freed", "race"}
    BY DEF Init
  <2>3. events \in Seq([event : {"INIT", "CONNECTING", "CONNECTED", "CLOSE", "FREE"}, conn : 1..made])
    BY <1>3 DEF Events, Kinds
  <2> QED
    BY <1>4, <1>5, <1>6, <1>7, <2>1, <2>2, <2>3 DEF TypeOK
<1>9. Agendas
  <2>1. \A t \in Threads : agenda[t] = <<>> /\ Pending(t) = {}
    BY ShortElements DEF Init, Pending
  <2> QED
    BY <2>1, EmptySeq DEF Agendas, Init
<1> QED
  BY <1>1, <1>2, <1>8, <1>9 DEF Fresh

LEMMA NextTyped ==
    ASSUME TypeOK, Agendas, Fresh, [Next]_vars
    PROVE  TypeOK' /\ Agendas' /\ Fresh'
<1>1. CASE UNCHANGED vars
  <2>1. TypeOK'
    BY <1>1 DEF TypeOK, vars, client, flags, owners, io, threads, history
  <2>2. Agendas'
    BY <1>1, AgendaRests DEF vars, client
  <2> QED
    BY <1>1, <2>1, <2>2 DEF Fresh, vars, client, flags
<1>2. CASE Next
  <2>1. Fresh'
    BY <1>2, FreshStays
  <2>2. ASSUME NEW t \in Threads, Perform(t)
        PROVE  TypeOK' /\ Agendas'
    BY <2>2, PerformKinds, PlainTyped, BreaksTyped, ChangeStateTyped, FireNextTyped, ManagedByTyped, TriesTyped
  <2>3. ASSUME ClientStep
        PROVE  TypeOK' /\ Agendas'
    BY <2>3, ClientStepTyped DEF ClientStep
  <2>4. ASSUME NEW q \in Pipe, PipeStep(q)
        PROVE  TypeOK' /\ Agendas'
    <3>1. PICK n \in Conns : \/ Exits(q) \/ Closes(q, n)
                             \/ q = "reader" /\ ReaderManages(n)
                             \/ q = "writer" /\ Writes(n)
      BY <2>4, MadeTyped DEF PipeStep, TypeOK
    <3> QED
      BY <3>1, PipeStepTyped
  <2>5. ASSUME NEW n \in Conns, Reads(n) \/ UserCloses(n)
        PROVE  TypeOK' /\ Agendas'
    BY <2>5, PipeStepTyped DEF Pipe
  <2> QED
    BY <1>2, <2>1, <2>2, <2>3, <2>4, <2>5 DEF Next
<1> QED
  BY <1>1, <1>2

(* The client's state has the types that Client says.                      *)
THEOREM ClientTyped == Spec => []TypeOK
<1>1. Init => TypeOK /\ Agendas /\ Fresh
  BY InitTyped
<1>2. TypeOK /\ Agendas /\ Fresh /\ [Next]_vars => TypeOK' /\ Agendas' /\ Fresh'
  BY NextTyped
<1> QED
  BY <1>1, <1>2, PTL DEF Spec

-----------------------------------------------------------------------------
(* 3. Forms.                                                                *)

(* What is left to do of the handing over of n.                            *)
LEMMA ManageFromIs ==
    ASSUME NEW n \in 1..MaxConns, NEW k \in 1..6
    PROVE  /\ ManageFrom(n, k) \in Seq(Steps) /\ ManageFrom(n, k) # <<>>
           /\ Head(ManageFrom(n, k)) = Manage(n)[k]
           /\ k < 6 => Tail(ManageFrom(n, k)) = ManageFrom(n, k + 1)
           /\ k = 6 => Tail(ManageFrom(n, k)) = <<>>
           /\ ToSet(ManageFrom(n, k)) = {Manage(n)[i] : i \in k..6}
<1> DEFINE s == Manage(n)
           a == ManageFrom(n, k)
<1>1. s \in Seq(Steps) /\ Len(s) = 6 /\ DOMAIN s = 1..6
  BY ManageIs, LenProperties
<1>2. \A i \in 1..6 : s[i] \in Steps
  BY <1>1, LenProperties
<1>3. \A j \in 1..6 : /\ ManageFrom(n, j) \in Seq(Steps) /\ Len(ManageFrom(n, j)) = 7 - j
                      /\ \A i \in 1..(7 - j) : ManageFrom(n, j)[i] = s[j + i - 1]
  <2> SUFFICES ASSUME NEW j \in 1..6
               PROVE  /\ ManageFrom(n, j) \in Seq(Steps) /\ Len(ManageFrom(n, j)) = 7 - j
                      /\ \A i \in 1..(7 - j) : ManageFrom(n, j)[i] = s[j + i - 1]
    OBVIOUS
  <2>1. \A i \in j..6 : s[i] \in Steps
    BY <1>2
  <2> HIDE DEF s
  <2>2. /\ SubSeq(s, j, 6) \in Seq(Steps)
        /\ Len(SubSeq(s, j, 6)) = IF j <= 6 THEN 6 - j + 1 ELSE 0
        /\ \A i \in 1..(6 - j + 1) : SubSeq(s, j, 6)[i] = s[j + i - 1]
    BY <2>1, SubSeqProperties
  <2>3. 6 - j + 1 = 7 - j
    OBVIOUS
  <2> QED
    BY <2>2, <2>3 DEF ManageFrom, s
<1> HIDE DEF s, a
<1>4. /\ a \in Seq(Steps) /\ Len(a) = 7 - k /\ \A i \in 1..(7 - k) : a[i] = s[k + i - 1]
  BY <1>3 DEF a
<1>5. a # <<>> /\ Head(a) = s[k]
  <2>1. a # <<>>
    BY <1>4, EmptySeq
  <2>2. Head(a) = a[1]
    BY <1>4, <2>1, TailProperties
  <2> QED
    BY <1>4, <2>1, <2>2
<1>6. Tail(a) \in Seq(Steps) /\ Len(Tail(a)) = 6 - k /\ \A i \in 1..(6 - k) : Tail(a)[i] = a[i + 1]
  BY <1>4, <1>5, TailProperties
<1>7. k < 6 => Tail(a) = ManageFrom(n, k + 1)
  <2> HAVE k < 6
  <2> DEFINE b == ManageFrom(n, k + 1)
  <2>1. b \in Seq(Steps) /\ Len(b) = 6 - k /\ \A i \in 1..(6 - k) : b[i] = s[k + i]
    <3>1. PICK j \in 1..6 : j = k + 1
      OBVIOUS
    <3>2. /\ ManageFrom(n, j) \in Seq(Steps) /\ Len(ManageFrom(n, j)) = 7 - j
          /\ \A i \in 1..(7 - j) : ManageFrom(n, j)[i] = s[j + i - 1]
      BY <1>3
    <3>3. 7 - j = 6 - k /\ \A i \in 1..(6 - k) : j + i - 1 = k + i
      BY <3>1
    <3>4. b = ManageFrom(n, j)
      BY <3>1
    <3> HIDE DEF b
    <3> QED
      BY <3>2, <3>3, <3>4
  <2> HIDE DEF b
  <2>2. \A i \in 1..Len(b) : Tail(a)[i] = b[i]
    <3>1. \A i \in 1..(6 - k) : Tail(a)[i] = a[i + 1] /\ b[i] = s[k + i]
      BY <1>6, <2>1
    <3>2. \A i \in 1..(6 - k) : i + 1 \in 1..(7 - k) /\ k + (i + 1) - 1 = k + i
      OBVIOUS
    <3>3. \A i \in 1..(6 - k) : a[i + 1] = s[k + i]
      BY <1>4, <3>2
    <3>4. SUFFICES ASSUME NEW i \in 1..(6 - k)
                   PROVE  Tail(a)[i] = b[i]
      BY <2>1
    <3>5. Tail(a)[i] = a[i + 1] /\ b[i] = s[k + i] /\ a[i + 1] = s[k + i]
      BY <3>1, <3>3
    <3> QED
      BY <3>5
  <2>3. Tail(a) = b
    BY <1>6, <2>1, <2>2, SeqEqual
  <2> QED
    BY <2>3 DEF b
<1>8. k = 6 => Tail(a) = <<>>
  <2> HAVE k = 6
  <2> DEFINE b == Tail(a)
  <2>1. b \in Seq(Steps) /\ Len(b) = 0
    BY <1>6
  <2> HIDE DEF b
  <2>2. b = <<>>
    BY <2>1, EmptySeq
  <2> QED
    BY <2>2 DEF b
<1>9. ToSet(a) = {s[i] : i \in k..6}
  <2>1. DOMAIN a = 1..(7 - k)
    BY <1>4, LenProperties
  <2>2. \A i \in 1..(7 - k) : a[i] = s[k + i - 1] /\ k + i - 1 \in k..6
    BY <1>4
  <2>3. \A i \in k..6 : i - k + 1 \in 1..(7 - k) /\ a[i - k + 1] = s[i]
    BY <1>4
  <2>4. ToSet(a) = {a[i] : i \in 1..(7 - k)}
    BY <2>1 DEF ToSet
  <2>5. ASSUME NEW x \in ToSet(a)
        PROVE  x \in {s[i] : i \in k..6}
    <3>1. PICK i \in 1..(7 - k) : x = a[i]
      BY <2>4, <2>5
    <3>2. PICK j \in k..6 : j = k + i - 1
      BY <2>2, <3>1
    <3>3. x = s[j]
      BY <2>2, <3>1, <3>2
    <3> QED
      BY <3>3
  <2>6. ASSUME NEW x \in {s[i] : i \in k..6}
        PROVE  x \in ToSet(a)
    <3>1. PICK i \in k..6 : x = s[i]
      BY <2>6
    <3>2. PICK j \in 1..(7 - k) : j = i - k + 1
      BY <2>3, <3>1
    <3>3. x = a[j]
      BY <2>3, <3>1, <3>2
    <3> QED
      BY <2>4, <3>3
  <2> QED
    BY <2>5, <2>6
<1> QED
  BY <1>4, <1>5, <1>7, <1>8, <1>9 DEF a, s

LEMMA ManageFromAll ==
    ASSUME NEW n \in 1..MaxConns
    PROVE  ManageFrom(n, 1) = Manage(n)
<1> DEFINE s == Manage(n)
<1>1. s \in Seq(Steps) /\ Len(s) = 6
  BY ManageIs
<1>2. \A i \in 1..6 : s[i] \in Steps
  BY <1>1, LenProperties
<1> HIDE DEF s
<1>3. /\ SubSeq(s, 1, 6) \in Seq(Steps)
      /\ Len(SubSeq(s, 1, 6)) = IF 1 <= 6 THEN 6 - 1 + 1 ELSE 0
      /\ \A i \in 1..(6 - 1 + 1) : SubSeq(s, 1, 6)[i] = s[1 + i - 1]
  BY <1>2, SubSeqProperties
<1>4. Len(SubSeq(s, 1, 6)) = 6 /\ \A i \in 1..6 : SubSeq(s, 1, 6)[i] = s[i]
  BY <1>3
<1>5. SubSeq(s, 1, 6) = s
  BY <1>1, <1>3, <1>4, SeqEqual
<1> QED
  BY <1>5 DEF ManageFrom, s

(* The steps of a handing over, and the first of them.                     *)
LEMMA ManageAt ==
    ASSUME NEW n \in 1..MaxConns, NEW i \in 1..6
    PROVE  LET x == Manage(n)[i] IN
           /\ x \in Steps /\ Manages(x) /\ x.conn = n /\ ~Opens(x) /\ ~Decides(x)
           /\ x.op = "offer" <=> i = 1
           /\ x.op = "offer" => x = Do("offer", n, "nothing")
           /\ x.op = "sign" => x.arg \in {"worker", "writer"} /\ x.op # "hook"
           /\ x.op = "hook" => x.arg \in Pipe
           /\ i = 1 \/ x.op = "sign" \/ x.op = "hook"
           /\ i = 6 <=> x = Do("sign", n, "writer")
           /\ i = 4 <=> x = Do("sign", n, "worker")
           /\ x # Do("sign", n, "reader")
<1>0. i = 1 \/ i = 2 \/ i = 3 \/ i = 4 \/ i = 5 \/ i = 6
  OBVIOUS
<1>2. Manage(n)[i] \in Steps
  BY ManageIs, LenProperties
<1>3. /\ Do("offer", n, "nothing").op = "offer" /\ Do("offer", n, "nothing").conn = n
      /\ \A q : Do("hook", n, q).op = "hook" /\ Do("hook", n, q).conn = n /\ Do("hook", n, q).arg = q
      /\ \A q : Do("sign", n, q).op = "sign" /\ Do("sign", n, q).conn = n /\ Do("sign", n, q).arg = q
  BY DoFields
<1>4. /\ i = 1 => Manage(n)[i] = Do("offer", n, "nothing")
      /\ i = 2 => Manage(n)[i] = Do("hook", n, "reader")
      /\ i = 3 => Manage(n)[i] = Do("hook", n, "worker")
      /\ i = 4 => Manage(n)[i] = Do("sign", n, "worker")
      /\ i = 5 => Manage(n)[i] = Do("hook", n, "writer")
      /\ i = 6 => Manage(n)[i] = Do("sign", n, "writer")
  BY ManageIs
<1> HIDE DEF Manage, Do
<1> QED
  BY <1>0, <1>2, <1>3, <1>4 DEF Manages, Opens, Decides, Pipe

(* What follows the step a thread is at.                                   *)
LEMMA RestForms ==
    ASSUME TypeOK, Agendas, NEW t \in Threads, agenda[t] # <<>>, FormAt(t), NEW x \in Rest(t)
    PROVE  /\ ~Opens(x)
           /\ Manages(x) =>
                 /\ t = "client" /\ x.conn \in 1..made
                 /\ \E k \in 1..5 : /\ agenda[t] = ManageFrom(x.conn, k)
                                    /\ Due(t) = Manage(x.conn)[k]
                                    /\ Tail(agenda[t]) = ManageFrom(x.conn, k + 1)
           /\ Decides(x) => t = "client" /\ Due(t).op \in {"release", "free"} /\ Tail(agenda[t]) = <<x>>
<1>1. x \in Pending(t) /\ x \in Steps /\ Formed(x)
  BY DueFacts
<1>2. Tail(agenda[t]) # <<>>
  BY ShortElements DEF Rest
<1>3. \A y : agenda[t] # <<y>>
  <2>1. \A y : Tail(<<y>>) = <<>>
    OBVIOUS
  <2> QED
    BY <1>2, <2>1
<1>4. ~Opens(x)
  BY <1>1, <1>3 DEF FormAt
<1>5. ASSUME Manages(x)
      PROVE  /\ t = "client" /\ x.conn \in 1..made
             /\ \E k \in 1..5 : /\ agenda[t] = ManageFrom(x.conn, k)
                                /\ Due(t) = Manage(x.conn)[k]
                                /\ Tail(agenda[t]) = ManageFrom(x.conn, k + 1)
  <2>1. t = "client" /\ \E k \in 1..6 : agenda[t] = ManageFrom(x.conn, k)
    BY <1>1, <1>3, <1>5 DEF FormAt
  <2>2. PICK k \in 1..6 : agenda[t] = ManageFrom(x.conn, k)
    BY <2>1
  <2>3. x.conn \in 1..made
    BY <1>1, <1>5 DEF Formed, Manages
  <2>4. x.conn \in 1..MaxConns
    BY <2>3, MadeTyped
  <2>5. k # 6
    <3>1. k = 6 => Tail(ManageFrom(x.conn, k)) = <<>>
      BY <2>4, ManageFromIs
    <3> QED
      BY <1>2, <2>2, <3>1
  <2>6. k \in 1..5 /\ k < 6
    BY <2>5
  <2>7. Due(t) = Manage(x.conn)[k] /\ Tail(agenda[t]) = ManageFrom(x.conn, k + 1)
    BY <2>2, <2>4, <2>6, ManageFromIs DEF Due
  <2> QED
    BY <2>1, <2>2, <2>3, <2>6, <2>7
<1>6. ASSUME Decides(x)
      PROVE  t = "client" /\ Due(t).op \in {"release", "free"} /\ Tail(agenda[t]) = <<x>>
  <2>1. PICK y \in Steps : t = "client" /\ y.op \in {"release", "free"} /\ agenda[t] = <<y, x>>
    BY <1>1, <1>3, <1>6 DEF FormAt
  <2>2. Head(<<y, x>>) = y /\ Tail(<<y, x>>) = <<x>>
    OBVIOUS
  <2> QED
    BY <2>1, <2>2 DEF Due
<1> QED
  BY <1>4, <1>5, <1>6

LEMMA TailFormed ==
    ASSUME TypeOK, Agendas, NEW t \in Threads, agenda[t] # <<>>, FormAt(t),
           agenda'[t] = Tail(agenda[t])
    PROVE  FormAt(t)'
<1>1. Pending(t)' = Rest(t)
  BY DEF Pending, Rest
<1>2. ASSUME NEW x \in Rest(t), Manages(x)
      PROVE  t = "client" /\ \E k \in 1..6 : agenda'[t] = ManageFrom(x.conn, k)
  <2>1. PICK k \in 1..5 : t = "client" /\ Tail(agenda[t]) = ManageFrom(x.conn, k + 1)
    BY <1>2, RestForms
  <2>2. k + 1 \in 1..6
    OBVIOUS
  <2> QED
    BY <2>1, <2>2
<1>3. \A x \in Rest(t) : ~Opens(x) /\ (Decides(x) => t = "client" /\ agenda'[t] = <<x>>)
  BY RestForms
<1> QED
  BY <1>1, <1>2, <1>3 DEF FormAt

LEMMA RestQuiet ==
    ASSUME TypeOK, Agendas, NEW t \in Threads, agenda[t] # <<>>, FormAt(t),
           Due(t).op \notin {"release", "free", "offer", "hook", "sign"}
    PROVE  \A x \in Rest(t) : ~Opens(x) /\ ~Manages(x) /\ ~Decides(x)
<1> SUFFICES ASSUME NEW x \in Rest(t)
             PROVE  ~Opens(x) /\ ~Manages(x) /\ ~Decides(x)
  OBVIOUS
<1>1. ~Opens(x) /\ ~Decides(x)
  BY RestForms
<1>2. ~Manages(x)
  <2> SUFFICES ASSUME Manages(x)
               PROVE  FALSE
    OBVIOUS
  <2>1. PICK k \in 1..5 : Due(t) = Manage(x.conn)[k] /\ x.conn \in 1..made
    BY RestForms
  <2>2. k \in 1..6 /\ x.conn \in 1..MaxConns
    BY <2>1, MadeTyped
  <2>3. Manages(Due(t))
    BY <2>1, <2>2, ManageAt
  <2> QED
    BY <2>3 DEF Manages
<1> QED
  BY <1>1, <1>2

LEMMA FormStays ==
    ASSUME NEW t, FormAt(t), agenda'[t] = agenda[t]
    PROVE  FormAt(t)'
  BY DEF FormAt, Pending

LEMMA QuietForm ==
    ASSUME NEW t, \A x \in Pending(t)' : ~Opens(x) /\ ~Manages(x) /\ ~Decides(x)
    PROVE  FormAt(t)'
  BY DEF FormAt

LEMMA OneForm ==
    ASSUME NEW t, NEW x, agenda'[t] = <<x>>,
           \/ Opens(x)
           \/ t = "reader" /\ x = Do("sign", x.conn, "reader")
           \/ t = "client" /\ Decides(x)
    PROVE  FormAt(t)'
<1>1. Pending(t)' = {x}
  BY ShortElements DEF Pending
<1>2. Opens(x) => ~Manages(x) /\ ~Decides(x)
  BY DEF Opens, Manages, Decides
<1>3. x = Do("sign", x.conn, "reader") => ~Opens(x) /\ ~Decides(x)
  BY DoFields DEF Opens, Decides
<1>4. Decides(x) => ~Manages(x) /\ ~Opens(x)
  BY DEF Opens, Manages, Decides
<1> QED
  BY <1>1, <1>2, <1>3, <1>4 DEF FormAt

-----------------------------------------------------------------------------
(* 4. What does nothing new about a connection.                             *)

(* No thread has more to do to open connection m than before, ...          *)
AgendaFades(m) ==
    \A t \in Threads : \A x \in Pending(t)' : x.conn = m /\ (Opens(x) \/ Manages(x)) => x \in Pending(t)

(* ... the client is told no more of it, ...                               *)
News == {"INIT", "CONNECTING", "CONNECTED"}

HeardFades(m) ==
    \A e \in News :
        /\ Event(e, m) \in ToSet(events') => Heard(e, m)
        /\ OnceIn(events, Event(e, m)) => OnceIn(events', Event(e, m))

(* ... and neither is the reader.                                          *)
QueueFades(m) ==
    /\ Event("DATA", m) \in ToSet(queue'["reader"]) => Offered(m)
    /\ OnceIn(queue["reader"], Event("DATA", m)) => OnceIn(queue'["reader"], Event("DATA", m))

(* What holds of each connection.                                          *)
ConnectionInv(n) == TraceAt(n) /\ UnsettledAt(n) /\ ConnectedAt(n) /\ UnmadeAt(n)

(* The connections whose client has taken the CONNECTED event.             *)
Settled == {n \in established : ~Heard("CONNECTED", n)}

LEMMA TraceKept ==
    ASSUME NEW m, TraceAt(m), AgendaFades(m), HeardFades(m), QueueFades(m),
           managedBy'[m] = managedBy[m]
    PROVE  TraceAt(m)' /\ (Unsettled(m)' => Unsettled(m))
<1>1. \A t \in Threads : OpenedBy(t, m)' => OpenedBy(t, m)
  BY DEF AgendaFades, OpenedBy, Opens
<1>2. Opening(m)' => Opening(m)
  BY <1>1 DEF Opening
<1>3. /\ Heard("INIT", m)' => Heard("INIT", m)
      /\ Heard("CONNECTING", m)' => Heard("CONNECTING", m)
      /\ Asked(m)' => Asked(m)
  BY DEF HeardFades, News, Heard, Asked
<1>4. "client" \in Threads /\ "reader" \in Threads
  BY DEF Threads, Pipe
<1>5. /\ Offers(m)' => Offers(m)
      /\ \A t \in Threads : \A q : Signs(t, m, q)' => Signs(t, m, q)
  <2>1. /\ Manages(Do("offer", m, "nothing")) /\ Do("offer", m, "nothing").conn = m
        /\ \A q : Manages(Do("sign", m, q)) /\ Do("sign", m, q).conn = m
    BY DoFields DEF Manages
  <2> QED
    BY <1>4, <2>1 DEF AgendaFades, Offers, Signs
<1>6. Offered(m)' => Offered(m)
  BY DEF QueueFades, Offered
<1>7. (\E x \in Pending("client")' : Manages(x) /\ x.conn = m) => \E x \in Pending("client") : Manages(x) /\ x.conn = m
  BY <1>4 DEF AgendaFades
<1>8. Managing(m)' => Managing(m)
  BY <1>4, <1>5, <1>6, <1>7 DEF Managing
<1>9. Early(m)' => Early(m)
  BY <1>3 DEF Early, AgendaFades, Opens
<1>10. \A t, u \in Threads : OpenedBy(t, m)' /\ OpenedBy(u, m)' => t = u
  BY <1>1 DEF TraceAt
<1>11. OnceIn(events, Event("INIT", m))' /\ OnceIn(events, Event("CONNECTING", m))'
  BY DEF TraceAt, HeardFades, News
<1>12. OnceIn(queue["reader"], Event("DATA", m))'
  BY DEF TraceAt, QueueFades
<1>13. \A q \in Pipe : Signs("client", m, q)' => q \notin managedBy'[m]
  BY <1>4, <1>5 DEF TraceAt
<1>14. (Offers(m) \/ Offered(m) \/ Signs("reader", m, "reader"))' => "reader" \notin managedBy'[m]
  BY <1>4, <1>5, <1>6 DEF TraceAt
<1>15. /\ Heard("INIT", m)' => ~Heard("CONNECTING", m)'
       /\ Opening(m)' => ~Asked(m)' /\ ~Managing(m)'
       /\ Asked(m)' => ~Managing(m)'
       /\ Offers(m)' => ~Offered(m)'
       /\ Signs("reader", m, "reader")' => ~Offers(m)' /\ ~Offered(m)'
       /\ Early(m)' => managedBy'[m] = {}
  BY <1>2, <1>3, <1>4, <1>5, <1>6, <1>8, <1>9 DEF TraceAt
<1>16. Unsettled(m)' => Unsettled(m)
  BY <1>2, <1>3, <1>8 DEF Unsettled
<1>17. TraceAt(m)'
  BY <1>10, <1>11, <1>12, <1>13, <1>14, <1>15 DEF TraceAt
<1> QED
  BY <1>16, <1>17

(* Where they come from.                                                    *)
LEMMA GoesFades ==
    ASSUME Agendas, NEW t \in Threads, agenda[t] # <<>>, NEW new, Goes(t, new), NEW m,
           \A x \in new : x.conn = m => ~Opens(x) /\ ~Manages(x)
    PROVE  AgendaFades(m)
<1>1. Rest(t) \subseteq Pending(t)
  BY DueFacts
<1>2. \A x \in Pending(t)' : x \in new \/ x \in Pending(t)
  BY <1>1 DEF Goes
<1> QED
  BY <1>2 DEF AgendaFades, Goes

LEMMA StartsFades ==
    ASSUME TypeOK, Agendas, UNCHANGED made, NEW t \in Threads, NEW steps \in Seq(Steps), Starts(t, steps),
           \A x \in ToSet(steps) : Formed(x), NEW m,
           \A x \in ToSet(steps) : x.conn = m => ~Opens(x) /\ ~Manages(x)
    PROVE  AgendaFades(m)
<1>1. /\ Pending(t)' = ToSet(steps)
      /\ \A u \in Threads \ {t} : Pending(u)' = Pending(u)
  BY StartsGoes
<1> QED
  BY <1>1 DEF AgendaFades

LEMMA RestsFades ==
    ASSUME UNCHANGED agenda, NEW m
    PROVE  AgendaFades(m)
<1>1. \A t \in Threads : Pending(t)' = Pending(t)
  BY DEF Pending
<1> QED
  BY <1>1 DEF AgendaFades

LEMMA SameHeard ==
    ASSUME UNCHANGED events, NEW m
    PROVE  HeardFades(m)
  BY DEF HeardFades, Heard

LEMMA TailHeard ==
    ASSUME TypeOK, events # <<>>, events' = Tail(events), NEW m
    PROVE  HeardFades(m)
<1>1. events \in Seq(Events)
  BY QueuesTyped
<1>2. ToSet(Tail(events)) \subseteq ToSet(events)
  BY <1>1, HeadTailElements
<1>3. \A e : OnceIn(events, Event(e, m)) => OnceIn(Tail(events), Event(e, m))
  BY <1>1, TailOrder
<1> QED
  BY <1>2, <1>3 DEF HeardFades, Heard

LEMMA ToldHeard ==
    ASSUME TypeOK, NEW e \in Kinds, NEW n \in 1..made, events' = Told(e, n), NEW m,
           m # n \/ e \notin News
    PROVE  HeardFades(m)
<1> DEFINE y == Event(e, n)
<1>1. events \in Seq(Events) /\ y \in Events
  BY QueuesTyped DEF Event, Events
<1>2. \A k \in News : y # Event(k, m)
  <2>1. y.event = e /\ y.conn = n /\ \A k \in News : Event(k, m).event = k /\ Event(k, m).conn = m
    BY DoFields
  <2> HIDE DEF y
  <2> QED
    BY <2>1
<1>3. events' = Append(events, y)
  BY DEF Told
<1> HIDE DEF y
<1>4. ToSet(events') = ToSet(events) \cup {y}
  BY <1>1, <1>3, AppendElements
<1>5. \A x : OnceIn(events, x) /\ y # x => OnceIn(events', x)
  BY <1>1, <1>3, AppendOrder
<1> QED
  BY <1>2, <1>4, <1>5 DEF HeardFades, Heard

LEMMA SameQueues ==
    ASSUME UNCHANGED queue, NEW m
    PROVE  QueueFades(m)
  BY DEF QueueFades, Offered

LEMMA TailQueues ==
    ASSUME TypeOK, NEW q \in Pipe, queue[q] # <<>>, NEW R, NEW m,
           \/ queue' = [queue EXCEPT ![q] = Tail(@)]
           \/ q = "writer" /\ queue' = [queue EXCEPT ![q] = Without(Tail(@), R)]
    PROVE  QueueFades(m)
<1>1. queue \in [Pipe -> Seq(Items)] /\ queue[q] \in Seq(Items) /\ "reader" \in Pipe /\ "writer" \in Pipe
  BY QueuesTyped DEF Pipe
<1>2. Tail(queue[q]) \in Seq(Items) /\ ToSet(Tail(queue[q])) \subseteq ToSet(queue[q])
  BY <1>1, HeadTailProperties, HeadTailElements
<1>3. ToSet(Without(Tail(queue[q]), R)) \subseteq ToSet(Tail(queue[q]))
  BY <1>2, WithoutProperties
<1>4. OnceIn(queue[q], Event("DATA", m)) => OnceIn(Tail(queue[q]), Event("DATA", m))
  BY <1>1, TailOrder
<1>5. /\ queue'[q] = Tail(queue[q]) \/ (q = "writer" /\ queue'[q] = Without(Tail(queue[q]), R))
      /\ \A p \in Pipe : p # q => queue'[p] = queue[p]
  BY <1>1
<1>6. \A p \in Pipe : ToSet(queue'[p]) \subseteq ToSet(queue[p])
  BY <1>2, <1>3, <1>5
<1>7. OnceIn(queue["reader"], Event("DATA", m)) => OnceIn(queue'["reader"], Event("DATA", m))
  BY <1>1, <1>4, <1>5
<1> QED
  BY <1>1, <1>6, <1>7 DEF QueueFades, Offered

LEMMA AppendQueues ==
    ASSUME TypeOK, NEW q \in Pipe, NEW i \in Items, queue' = [queue EXCEPT ![q] = Append(@, i)], NEW m,
           q = "reader" => i # Event("DATA", m)
    PROVE  QueueFades(m)
<1>1. queue \in [Pipe -> Seq(Items)] /\ queue[q] \in Seq(Items) /\ "reader" \in Pipe /\ "writer" \in Pipe
  BY QueuesTyped DEF Pipe
<1>2. ToSet(Append(queue[q], i)) = ToSet(queue[q]) \cup {i}
  BY <1>1, AppendElements
<1>3. OnceIn(queue[q], Event("DATA", m)) /\ i # Event("DATA", m) => OnceIn(Append(queue[q], i), Event("DATA", m))
  BY <1>1, AppendOrder
<1>4. queue'[q] = Append(queue[q], i) /\ \A p \in Pipe : p # q => queue'[p] = queue[p]
  BY <1>1
<1>5. OnceIn(queue["reader"], Event("DATA", m)) => OnceIn(queue'["reader"], Event("DATA", m))
  BY <1>1, <1>3, <1>4
<1>6. Event("DATA", m) \in ToSet(queue'["reader"]) => Offered(m)
  BY <1>1, <1>2, <1>4 DEF Offered
<1> QED
  BY <1>5, <1>6 DEF QueueFades

LEMMA FadesKept ==
    ASSUME NEW m, ConnectionInv(m), AgendaFades(m), HeardFades(m), QueueFades(m),
           UNCHANGED made, managedBy'[m] = managedBy[m], m \in established' <=> m \in established
    PROVE  ConnectionInv(m)'
<1>1. TraceAt(m) /\ UnsettledAt(m) /\ ConnectedAt(m) /\ UnmadeAt(m)
  BY DEF ConnectionInv
<1>2. TraceAt(m)' /\ (Unsettled(m)' => Unsettled(m))
  BY <1>1, TraceKept
<1>3. UnsettledAt(m)'
  BY <1>1, <1>2 DEF UnsettledAt
<1>4. ConnectedAt(m)'
  BY <1>1 DEF HeardFades, News, ConnectedAt, Heard
<1>5. UnmadeAt(m)'
  BY <1>1 DEF UnmadeAt
<1> QED
  BY <1>2, <1>3, <1>4, <1>5 DEF ConnectionInv

(* What the client takes or is told else leaves the settled ones alone.    *)
LEMMA ToldSettled ==
    ASSUME TypeOK, NEW e \in Kinds, NEW n \in 1..made, events' = Told(e, n), e # "CONNECTED",
           UNCHANGED established
    PROVE  Settled' = Settled
<1> DEFINE y == Event(e, n)
<1>1. events \in Seq(Events) /\ y \in Events
  BY QueuesTyped DEF Event, Events
<1>2. \A m : y # Event("CONNECTED", m)
  <2>1. y.event = e /\ \A m : Event("CONNECTED", m).event = "CONNECTED"
    BY DoFields
  <2> HIDE DEF y
  <2> QED
    BY <2>1
<1>3. events' = Append(events, y)
  BY DEF Told
<1> HIDE DEF y
<1>4. ToSet(events') = ToSet(events) \cup {y}
  BY <1>1, <1>3, AppendElements
<1>5. \A m : Heard("CONNECTED", m)' <=> Heard("CONNECTED", m)
  BY <1>2, <1>4 DEF Heard
<1> QED
  BY <1>5 DEF Settled

LEMMA TakenSettled ==
    ASSUME TypeOK, NEW e, NEW n, TakeEvent(e, n), e # "CONNECTED", UNCHANGED established
    PROVE  Settled' = Settled
<1>1. events \in Seq(Events) /\ events # <<>> /\ events' = Tail(events) /\ Head(events) = Event(e, n)
  BY QueuesTyped DEF TakeEvent
<1>2. ToSet(events) = {Event(e, n)} \cup ToSet(events')
  BY <1>1, HeadTailElements
<1>3. \A m : Event(e, n) # Event("CONNECTED", m)
  <2>1. Event(e, n).event = e /\ \A m : Event("CONNECTED", m).event = "CONNECTED"
    BY DoFields
  <2> QED
    BY <2>1
<1>4. \A m : Heard("CONNECTED", m)' <=> Heard("CONNECTED", m)
  BY <1>2, <1>3 DEF Heard
<1> QED
  BY <1>4 DEF Settled

LEMMA SameSettled ==
    ASSUME UNCHANGED <<events, established>>
    PROVE  Settled' = Settled
  BY DEF Settled, Heard

-----------------------------------------------------------------------------
(* 5. The steps that bring no connection further.                           *)

(* What holds of all of them.                                              *)
Connections == \A n \in Conns : ConnectionInv(n)

Passes(t) ==
    \/ KeepState(t) \/ FireLast(t) \/ NoMoreUsed(t) \/ FreeConnection(t) \/ Blame(t)
    \/ GivesUp(t) \/ EnqueueExit(t) \/ Join(t)

LEMMA PassesHeard ==
    ASSUME TypeOK, Agendas, NEW t \in Threads, Passes(t), NEW m
    PROVE  HeardFades(m)
<1>1. Plain(t)
  BY DEF Passes, Plain
<1>2. CASE UNCHANGED events
  BY <1>2, SameHeard
<1>3. CASE NoMoreUsed(t) \/ FreeConnection(t)
  <2>1. Due(t).conn \in 1..made
    <3>1. Due(t).op \in {"release", "free"}
      BY <1>3 DEF NoMoreUsed, FreeConnection, Does
    <3> QED
      BY <1>1, <3>1, PlainGoes
  <2>2. events' = Told("FREE", Due(t).conn) \/ UNCHANGED events
    BY <1>3 DEF NoMoreUsed, FreeConnection
  <2>3. PICK n \in 1..made : events' = Told("FREE", n) \/ UNCHANGED events
    BY <2>1, <2>2
  <2>4. "FREE" \in Kinds
    BY DEF Kinds
  <2>5. "FREE" \notin News
    BY DEF News
  <2> QED
    BY <1>2, <2>3, <2>4, <2>5, ToldHeard
<1> QED
  BY <1>2, <1>3 DEF Passes, KeepState, FireLast, Blame, GivesUp, EnqueueExit, Join, client

LEMMA PassesQueues ==
    ASSUME TypeOK, Agendas, NEW t \in Threads, Passes(t), NEW m
    PROVE  QueueFades(m)
<1>1. CASE UNCHANGED queue
  BY <1>1, SameQueues
<1>2. CASE EnqueueExit(t)
  <2>1. agenda[t] # <<>> /\ Due(t).op = "exit"
    BY <1>2 DEF EnqueueExit, Does
  <2>2. Formed(Due(t))
    BY <2>1, DueFacts
  <2>3. Due(t).arg \in Pipe
    BY <2>1, <2>2 DEF Formed
  <2>4. PICK q \in Pipe : queue' = [queue EXCEPT ![q] = Append(@, Event("EXIT", 0))]
    BY <1>2, <2>3 DEF EnqueueExit
  <2> DEFINE i == Event("EXIT", 0)
  <2>5. i \in Items /\ i # Event("DATA", m)
    <3>1. i.event = "EXIT" /\ Event("DATA", m).event = "DATA"
      BY DoFields
    <3> QED
      BY <3>1, ItemTyped
  <2>6. queue' = [queue EXCEPT ![q] = Append(@, i)]
    BY <2>4
  <2> HIDE DEF i
  <2> QED
    BY <2>5, <2>6, AppendQueues
<1> QED
  BY <1>1, <1>2 DEF Passes, KeepState, FireLast, NoMoreUsed, FreeConnection, Blame, GivesUp, Join, threads

LEMMA PassesSettled ==
    ASSUME TypeOK, Agendas, NEW t \in Threads, Passes(t)
    PROVE  Settled' = Settled
<1>1. Plain(t)
  BY DEF Passes, Plain
<1>2. UNCHANGED established
  BY DEF Passes, KeepState, FireLast, NoMoreUsed, FreeConnection, Blame, GivesUp, EnqueueExit, Join, history
<1>3. CASE UNCHANGED events
  BY <1>2, <1>3, SameSettled
<1>4. CASE NoMoreUsed(t) \/ FreeConnection(t)
  <2>1. Due(t).conn \in 1..made
    <3>1. Due(t).op \in {"release", "free"}
      BY <1>4 DEF NoMoreUsed, FreeConnection, Does
    <3> QED
      BY <1>1, <3>1, PlainGoes
  <2>2. events' = Told("FREE", Due(t).conn) \/ UNCHANGED events
    BY <1>4 DEF NoMoreUsed, FreeConnection
  <2>3. PICK n \in 1..made : events' = Told("FREE", n) \/ UNCHANGED events
    BY <2>1, <2>2
  <2>4. "FREE" \in Kinds
    BY DEF Kinds
  <2> QED
    BY <1>2, <1>3, <2>3, <2>4, ToldSettled
<1> QED
  BY <1>3, <1>4 DEF Passes, KeepState, FireLast, Blame, GivesUp, EnqueueExit, Join, client

LEMMA PassesKeeps ==
    ASSUME TypeOK, Agendas, Forms, Connections, NEW t \in Threads, Passes(t)
    PROVE  Forms' /\ Connections'
<1>1. Plain(t)
  BY DEF Passes, Plain
<1>2. /\ agenda[t] # <<>> /\ UNCHANGED made
      /\ Goes(t, {}) /\ agenda'[t] = Tail(agenda[t])
      /\ \A u \in Threads \ {t} : agenda'[u] = agenda[u]
  BY <1>1, PlainGoes
<1>3. Forms'
  <2>1. FormAt(t)'
    BY <1>2, TailFormed DEF Forms
  <2>2. \A u \in Threads \ {t} : FormAt(u)'
    BY <1>2, FormStays DEF Forms
  <2> QED
    BY <2>1, <2>2 DEF Forms
<1>4. ASSUME NEW m \in Conns
      PROVE  ConnectionInv(m)'
  <2>1. AgendaFades(m)
    BY <1>2, GoesFades
  <2>2. HeardFades(m) /\ QueueFades(m)
    BY PassesHeard, PassesQueues
  <2>3. UNCHANGED <<managedBy, established>>
    BY DEF Passes, KeepState, FireLast, NoMoreUsed, FreeConnection, Blame, GivesUp, EnqueueExit, Join,
       owners, history
  <2>4. ConnectionInv(m)
    BY DEF Connections
  <2> QED
    BY <1>2, <2>1, <2>2, <2>3, <2>4, FadesKept
<1> QED
  BY <1>3, <1>4 DEF Connections

(* A thread starts to do what brings no connection further.                *)
LEMMA StartedKeeps ==
    ASSUME TypeOK, Agendas, Forms, Connections, Started, UNCHANGED <<made, managedBy, established>>,
           \A m \in Conns : HeardFades(m) /\ QueueFades(m)
    PROVE  Forms' /\ Connections'
<1>1. Forms' /\ \A m \in Conns : AgendaFades(m)
  <2>1. CASE UNCHANGED agenda
    <3>1. Forms'
      BY <2>1, FormStays DEF Forms
    <3> QED
      BY <2>1, <3>1, RestsFades
  <2>2. ASSUME NEW t \in Threads, NEW steps \in Seq(Steps), Starts(t, steps), Quiet(steps),
               \A x \in ToSet(steps) : Formed(x)
        PROVE  Forms' /\ \A m \in Conns : AgendaFades(m)
    <3>1. \A x \in ToSet(steps) : ~Opens(x) /\ ~Manages(x) /\ ~Decides(x)
      BY <2>2 DEF Quiet, Calm
    <3>2. \A m \in Conns : AgendaFades(m)
      BY <2>2, <3>1, StartsFades
    <3>3. Pending(t)' = ToSet(steps) /\ \A u \in Threads \ {t} : agenda'[u] = agenda[u]
      BY <2>2, StartsGoes
    <3>4. FormAt(t)'
      BY <3>1, <3>3, QuietForm
    <3>5. \A u \in Threads \ {t} : FormAt(u)'
      BY <3>3, FormStays DEF Forms
    <3> QED
      BY <3>2, <3>4, <3>5 DEF Forms
  <2> QED
    BY <2>1, <2>2 DEF Started
<1>2. ASSUME NEW m \in Conns
      PROVE  ConnectionInv(m)'
  <2>1. ConnectionInv(m)
    BY DEF Connections
  <2> QED
    BY <1>1, <2>1, FadesKept
<1> QED
  BY <1>1, <1>2 DEF Connections

LEMMA PipeQuietKeeps ==
    ASSUME TypeOK, Agendas, Fresh, Forms, Connections, NEW q \in Pipe, NEW n \in Conns,
           \/ Exits(q) \/ Closes(q, n) \/ Reads(n) \/ UserCloses(n)
           \/ q = "writer" /\ Writes(n)
    PROVE  Forms' /\ Connections' /\ Settled' = Settled
<1>1. UNCHANGED <<made, events, managedBy, established>>
  BY DEF Exits, Closes, Reads, UserCloses, Writes, client, owners, history
<1>2. Started
  <2>1. UserCloses(n) => n \in 1..made
    <3>1. UserCloses(n) => state[n] = "CONNECTED"
      BY DEF UserCloses
    <3> QED
      BY <3>1, MadeTyped DEF Fresh, Conns
  <2> QED
    BY <2>1, ExitsStarts, ClosesStarts, ReadsStarts, UserClosesStarts, WritesStarts
<1>3. ASSUME NEW m \in Conns
      PROVE  HeardFades(m) /\ QueueFades(m)
  <2>1. HeardFades(m)
    BY <1>1, SameHeard
  <2>2. CASE UNCHANGED queue
    BY <2>1, <2>2, SameQueues
  <2>3. CASE \E p \in Pipe : queue[p] # <<>> /\ queue' = [queue EXCEPT ![p] = Tail(@)]
    BY <2>1, <2>3, TailQueues
  <2>4. CASE Closes(q, n)
    <3> DEFINE R == {i \in ToSet(queue[q]) : i.conn = n}
    <3>1. queue[q] # <<>>
      BY <2>4 DEF Closes
    <3>2. \/ queue' = [queue EXCEPT ![q] = Tail(@)]
          \/ q = "writer" /\ queue' = [queue EXCEPT ![q] = Without(Tail(@), R)]
      BY <2>4 DEF Closes
    <3> HIDE DEF R
    <3> QED
      BY <2>1, <3>1, <3>2, TailQueues
  <2>5. CASE Exits(q)
    BY <2>3, <2>5 DEF Exits, Take
  <2>6. CASE Writes(n)
    BY <2>3, <2>6 DEF Writes, Take, Pipe
  <2>7. CASE Reads(n) \/ UserCloses(n)
    BY <2>2, <2>7 DEF Reads, UserCloses, threads
  <2> QED
    BY <2>4, <2>5, <2>6, <2>7
<1> QED
  BY <1>1, <1>2, <1>3, StartedKeeps, SameSettled

LEMMA LeavesKeeps ==
    ASSUME TypeOK, Agendas, Forms, Connections, NEW n \in Conns, Leaves(n)
    PROVE  Forms' /\ Connections' /\ Settled' = Settled
<1>1. UNCHANGED <<made, queue, managedBy, established>>
  BY DEF Leaves, owners, history
<1>2. Started
  BY LeavesStarts
<1>3. ASSUME NEW m \in Conns
      PROVE  HeardFades(m) /\ QueueFades(m)
  <2>1. events # <<>> /\ events' = Tail(events)
    BY DEF Leaves, TakeEvent
  <2> QED
    BY <1>1, <2>1, TailHeard, SameQueues
<1>4. TakeEvent("FREE", n)
  BY DEF Leaves
<1> QED
  BY <1>1, <1>2, <1>3, <1>4, StartedKeeps, TakenSettled

-----------------------------------------------------------------------------
(* 6. A connection is closed.                                               *)

LEMMA FiresAgenda ==
    ASSUME TypeOK, Agendas, Forms, NEW t \in Threads, FireNext(t)
    PROVE  Forms' /\ \A m \in Conns : AgendaFades(m)
<1>1. PICK x \in Steps :
         /\ x.op = "release"
         /\ \/ agenda'[t] = agenda[t] /\ Pending(t)' = Pending(t)
            \/ agenda'[t] = <<x>> \o agenda[t] /\ Pending(t)' = {x} \cup Pending(t)
  BY FireNextGoes
<1>2. /\ agenda[t] # <<>> /\ Due(t).op = "fire"
      /\ \A u \in Threads \ {t} : agenda'[u] = agenda[u] /\ Pending(u)' = Pending(u)
  BY FireNextGoes
<1>3. ~Opens(x) /\ ~Manages(x) /\ ~Decides(x)
  BY <1>1 DEF Opens, Manages, Decides
<1>4. \A u \in Threads : \A y \in Pending(u)' : y = x \/ y \in Pending(u)
  BY <1>1, <1>2
<1>6. \A m \in Conns : AgendaFades(m)
  BY <1>3, <1>4 DEF AgendaFades
<1>7. FormAt(t)'
  <2>1. \A y \in Rest(t) : ~Opens(y) /\ ~Manages(y) /\ ~Decides(y)
    BY <1>2, RestQuiet DEF Forms
  <2>2. ~Opens(Due(t)) /\ ~Manages(Due(t)) /\ ~Decides(Due(t))
    BY <1>2 DEF Opens, Manages, Decides
  <2>3. Pending(t) = {Due(t)} \cup Rest(t)
    BY <1>2, DueFacts
  <2>4. \A y \in Pending(t)' : ~Opens(y) /\ ~Manages(y) /\ ~Decides(y)
    BY <1>3, <1>4, <2>1, <2>2, <2>3
  <2> QED
    BY <2>4, QuietForm
<1>8. \A u \in Threads \ {t} : FormAt(u)'
  BY <1>2, FormStays DEF Forms
<1> QED
  BY <1>6, <1>7, <1>8 DEF Forms

LEMMA FiresQueues ==
    ASSUME TypeOK, Agendas, NEW t \in Threads, FireNext(t), NEW m
    PROVE  QueueFades(m)
<1>1. Due(t).conn \in 1..made
  BY FireNextGoes
<1>2. CASE UNCHANGED queue
  BY <1>2, SameQueues
<1>3. ASSUME NEW o \in Pipe, queue' = [queue EXCEPT ![o] = Append(@, Event("CLOSE", Due(t).conn))]
      PROVE  QueueFades(m)
  <2>1. PICK n \in 1..made : n = Due(t).conn
    BY <1>1
  <2> DEFINE i == Event("CLOSE", n)
  <2>2. i \in Items /\ i # Event("DATA", m)
    <3>1. i.event = "CLOSE" /\ Event("DATA", m).event = "DATA"
      BY DoFields
    <3> QED
      BY <3>1, ItemTyped
  <2>3. queue' = [queue EXCEPT ![o] = Append(@, i)]
    BY <1>3, <2>1
  <2> HIDE DEF i
  <2> QED
    BY <1>3, <2>2, <2>3, AppendQueues
<1> QED
  BY <1>2, <1>3 DEF FireNext

LEMMA FiresKeeps ==
    ASSUME TypeOK, Agendas, Forms, Connections, NEW t \in Threads, FireNext(t)
    PROVE  Forms' /\ Connections' /\ Settled' = Settled
<1>1. PICK n \in 1..made : n = Due(t).conn
  BY FireNextGoes
<1>2. events' = events \/ events' = Told("CLOSE", n)
  BY <1>1 DEF FireNext
<1>3. UNCHANGED <<made, managedBy, established>>
  BY DEF FireNext, owners, history
<1>4. "CLOSE" \in Kinds /\ "CLOSE" \notin News /\ "CLOSE" # "CONNECTED"
  BY DEF Kinds, News
<1>5. ASSUME NEW m \in Conns
      PROVE  ConnectionInv(m)'
  <2>1. AgendaFades(m) /\ QueueFades(m)
    BY FiresAgenda, FiresQueues
  <2>2. HeardFades(m)
    BY <1>2, <1>4, SameHeard, ToldHeard
  <2>3. ConnectionInv(m)
    BY DEF Connections
  <2> QED
    BY <1>3, <2>1, <2>2, <2>3, FadesKept
<1>6. Settled' = Settled
  BY <1>2, <1>3, <1>4, SameSettled, ToldSettled
<1> QED
  BY <1>5, <1>6, FiresAgenda DEF Connections

(* The state of a connection that is closed changes.                       *)
LEMMA ClosesStateKeeps ==
    ASSUME TypeOK, Agendas, Forms, Connections, NEW t \in Threads, ChangeState(t), ~Opens(Due(t))
    PROVE  Forms' /\ Connections' /\ Settled' = Settled
<1>1. /\ agenda[t] # <<>> /\ Due(t).op = "state" /\ Due(t).conn \in 1..made
      /\ Due(t).arg \in States \ {"NONE"}
  BY ChangeStateThen DEF ChangeState, Does
<1>2. PICK n \in 1..made : n = Due(t).conn
  BY <1>1
<1>3. PICK steps \in Seq(Steps) :
         Then(t, steps) /\ \A x \in ToSet(steps) : Formed(x) /\ x.conn = n /\ x.op \in {"fire", "release"}
  BY <1>2, ChangeStateThen
<1>4. UNCHANGED <<made, managedBy>>
  BY DEF ChangeState, owners
<1>5. /\ Goes(t, ToSet(steps))
      /\ \A u \in Threads \ {t} : agenda'[u] = agenda[u]
  BY <1>1, <1>3, <1>4, ThenSome
<1>6. \A x \in ToSet(steps) : ~Opens(x) /\ ~Manages(x) /\ ~Decides(x)
  BY <1>3 DEF Opens, Manages, Decides
<1>7. Forms'
  <2>1. \A x \in Pending(t)' : x \in ToSet(steps) \/ x \in Rest(t)
    BY <1>5 DEF Goes
  <2>2. \A x \in Rest(t) : ~Opens(x) /\ ~Manages(x) /\ ~Decides(x)
    BY <1>1, RestQuiet DEF Forms
  <2>3. FormAt(t)'
    BY <1>6, <2>1, <2>2, QuietForm
  <2>4. \A u \in Threads \ {t} : FormAt(u)'
    BY <1>5, FormStays DEF Forms
  <2> QED
    BY <2>3, <2>4 DEF Forms
<1>8. UNCHANGED <<events, queue, established>>
  <2>1. Due(t).arg \notin {"INITIALIZED", "CONNECTING", "CONNECTED"}
    BY <1>1 DEF Opens
  <2>2. DOMAIN [INITIALIZED |-> "INIT", CONNECTING |-> "CONNECTING", CONNECTED |-> "CONNECTED"]
           = {"INITIALIZED", "CONNECTING", "CONNECTED"}
    OBVIOUS
  <2> QED
    BY <2>1, <2>2 DEF ChangeState
<1>9. ASSUME NEW m \in Conns
      PROVE  ConnectionInv(m)'
  <2>1. AgendaFades(m)
    BY <1>1, <1>5, <1>6, GoesFades
  <2>2. HeardFades(m) /\ QueueFades(m)
    BY <1>8, SameHeard, SameQueues
  <2>3. ConnectionInv(m)
    BY DEF Connections
  <2> QED
    BY <1>4, <1>8, <2>1, <2>2, <2>3, FadesKept
<1>10. Settled' = Settled
  BY <1>8, SameSettled
<1> QED
  BY <1>7, <1>9, <1>10 DEF Connections

-----------------------------------------------------------------------------
(* 7. A connection is opened.                                               *)

(* What a thread that opens connection n does, and what the client and the *)
(* writer are told.                                                        *)
LEMMA OpensDoes ==
    ASSUME TypeOK, Agendas, Forms, NEW t \in Threads, ChangeState(t), Opens(Due(t)),
           NEW n \in 1..made, n = Due(t).conn
    PROVE  /\ agenda[t] = <<Due(t)>> /\ Due(t) \in Pending(t) /\ agenda'[t] = <<>>
           /\ Pending(t) = {Due(t)} /\ Pending(t)' = {}
           /\ \A u \in Threads \ {t} : agenda'[u] = agenda[u] /\ Pending(u)' = Pending(u)
           /\ \E e \in {"INIT", "CONNECTING", "CONNECTED"} :
                 /\ events' = Told(e, n)
                 /\ e = "INIT" <=> Due(t).arg = "INITIALIZED"
                 /\ e = "CONNECTING" <=> Due(t).arg = "CONNECTING"
                 /\ e = "CONNECTED" <=> Due(t).arg = "CONNECTED"
           /\ queue' = queue \/ queue' = [queue EXCEPT !["writer"] = Append(@, Event("OUTBOUND", n))]
           /\ established' = IF Due(t).arg = "CONNECTED" THEN established \cup {n} ELSE established
           /\ UNCHANGED <<made, managedBy>>
<1>1. agenda[t] # <<>> /\ agenda[t] \in Seq(Steps)
  BY ChangeStateThen DEF Agendas
<1>2. Due(t) \in Pending(t) /\ agenda[t] = <<Due(t)>>
  <2>1. Due(t) \in Pending(t)
    BY <1>1, DueFacts
  <2> QED
    BY <2>1 DEF Forms, FormAt
<1>3. Tail(agenda[t]) = <<>> /\ Rest(t) = {} /\ Pending(t) = {Due(t)}
  <2>1. \A x : Tail(<<x>>) = <<>>
    OBVIOUS
  <2>2. Tail(agenda[t]) = <<>>
    BY <1>2, <2>1
  <2> QED
    BY <1>1, <2>2, DueFacts, ShortElements DEF Rest
<1>4. Then(t, <<>>)
  BY ChangeStateThen
<1>5. UNCHANGED <<made, managedBy>>
  BY DEF ChangeState, owners
<1>6. /\ agenda'[t] = <<>> /\ Pending(t)' = {}
      /\ \A u \in Threads \ {t} : agenda'[u] = agenda[u] /\ Pending(u)' = Pending(u)
  <2>1. /\ Goes(t, {}) /\ agenda'[t] = Tail(agenda[t])
        /\ \A u \in Threads \ {t} : agenda'[u] = agenda[u]
    BY <1>1, <1>4, <1>5, ThenNothing, MadeTyped
  <2>2. Pending(t)' = {} \cup Rest(t) /\ \A u \in Threads \ {t} : Pending(u)' = Pending(u)
    BY <2>1 DEF Goes
  <2> QED
    BY <1>3, <2>1, <2>2
<1>7. Due(t).arg \in {"INITIALIZED", "CONNECTING", "CONNECTED"}
  BY DEF Opens
<1>8. \E e \in {"INIT", "CONNECTING", "CONNECTED"} :
         /\ events' = Told(e, n)
         /\ e = "INIT" <=> Due(t).arg = "INITIALIZED"
         /\ e = "CONNECTING" <=> Due(t).arg = "CONNECTING"
         /\ e = "CONNECTED" <=> Due(t).arg = "CONNECTED"
  <2> DEFINE news == [INITIALIZED |-> "INIT", CONNECTING |-> "CONNECTING", CONNECTED |-> "CONNECTED"]
  <2>1. /\ DOMAIN news = {"INITIALIZED", "CONNECTING", "CONNECTED"}
        /\ news["INITIALIZED"] = "INIT" /\ news["CONNECTING"] = "CONNECTING" /\ news["CONNECTED"] = "CONNECTED"
    OBVIOUS
  <2>2. events' = IF Due(t).arg \in DOMAIN news THEN Told(news[Due(t).arg], n) ELSE events
    BY DEF ChangeState
  <2> HIDE DEF news
  <2>3. events' = Told(news[Due(t).arg], n)
    BY <1>7, <2>1, <2>2
  <2>4. CASE Due(t).arg = "INITIALIZED"
    <3>1. events' = Told("INIT", n)
      BY <2>1, <2>3, <2>4
    <3> QED
      BY <2>4, <3>1
  <2>5. CASE Due(t).arg = "CONNECTING"
    <3>1. events' = Told("CONNECTING", n)
      BY <2>1, <2>3, <2>5
    <3> QED
      BY <2>5, <3>1
  <2>6. CASE Due(t).arg = "CONNECTED"
    <3>1. events' = Told("CONNECTED", n)
      BY <2>1, <2>3, <2>6
    <3> QED
      BY <2>6, <3>1
  <2> QED
    BY <1>7, <2>4, <2>5, <2>6
<1>9. /\ queue' = queue \/ queue' = [queue EXCEPT !["writer"] = Append(@, Event("OUTBOUND", n))]
      /\ established' = IF Due(t).arg = "CONNECTED" THEN established \cup {n} ELSE established
  BY DEF ChangeState
<1> QED
  BY <1>2, <1>3, <1>5, <1>6, <1>8, <1>9

(* The connection that is opened.                                          *)
LEMMA OpensOwn ==
    ASSUME TypeOK, Agendas, Forms, Connections, NEW t \in Threads, ChangeState(t), Opens(Due(t)),
           NEW n \in 1..made, n = Due(t).conn
    PROVE  ConnectionInv(n)' /\ Settled' = Settled
<1>0. n \in Conns
  BY MadeTyped
<1>1. /\ Pending(t) = {Due(t)} /\ Pending(t)' = {}
      /\ \A u \in Threads \ {t} : Pending(u)' = Pending(u)
  BY OpensDoes
<1>2. PICK e \in {"INIT", "CONNECTING", "CONNECTED"} :
         /\ events' = Told(e, n)
         /\ e = "INIT" <=> Due(t).arg = "INITIALIZED"
         /\ e = "CONNECTING" <=> Due(t).arg = "CONNECTING"
         /\ e = "CONNECTED" <=> Due(t).arg = "CONNECTED"
  BY OpensDoes
<1>3. /\ queue' = queue \/ queue' = [queue EXCEPT !["writer"] = Append(@, Event("OUTBOUND", n))]
      /\ established' = IF Due(t).arg = "CONNECTED" THEN established \cup {n} ELSE established
      /\ UNCHANGED <<made, managedBy>>
  BY OpensDoes
<1>5. OpenedBy(t, n) /\ Opening(n) /\ Unsettled(n)
  BY <1>1 DEF OpenedBy, Opening, Unsettled
<1>6. TraceAt(n) /\ UnsettledAt(n) /\ ConnectedAt(n) /\ UnmadeAt(n)
  BY <1>0 DEF Connections, ConnectionInv
<1>7. n \notin established /\ ~Heard("CONNECTED", n)
  BY <1>5, <1>6 DEF UnsettledAt, ConnectedAt
<1>8. ~Asked(n) /\ ~Managing(n)
  BY <1>5, <1>6 DEF TraceAt
<1>9. \A u \in Threads : Pending(u)' \subseteq Pending(u) /\ (u = t => Pending(u)' = {})
  BY <1>1
<1>10. ~Opening(n)'
  <2>1. \A u \in Threads : OpenedBy(u, n)' => u # t /\ OpenedBy(u, n)
    BY <1>9 DEF OpenedBy
  <2> QED
    BY <1>5, <1>6, <2>1 DEF Opening, TraceAt
<1>11. queue'["reader"] = queue["reader"]
  BY <1>3 DEF TypeOK, Pipe
<1>12. ~Managing(n)' /\ ~Offers(n)' /\ ~Offered(n)' /\ \A q : ~Signs("client", n, q)' /\ ~Signs("reader", n, "reader")'
  <2>1. "client" \in Threads /\ "reader" \in Threads
    BY DEF Threads, Pipe
  <2>2. ~Managing(n)' /\ ~Offered(n)' /\ ~Signs("reader", n, "reader")'
    BY <1>8, <1>9, <1>11, <2>1 DEF Managing, Offered, Signs
  <2>3. \A x \in Pending("client")' : ~(Manages(x) /\ x.conn = n)
    BY <2>2 DEF Managing
  <2>4. /\ Manages(Do("offer", n, "nothing")) /\ Do("offer", n, "nothing").conn = n
        /\ \A q : Manages(Do("sign", n, q)) /\ Do("sign", n, q).conn = n
    BY DoFields DEF Manages
  <2> QED
    BY <2>2, <2>3, <2>4 DEF Offers, Signs
<1> DEFINE y == Event(e, n)
           i == Event("INIT", n)
           g == Event("CONNECTING", n)
           d == Event("CONNECTED", n)
<1>13. /\ events \in Seq(Events) /\ y \in Events
       /\ events' = Append(events, y)
       /\ y = i <=> e = "INIT"
       /\ y = g <=> e = "CONNECTING"
       /\ y = d <=> e = "CONNECTED"
       /\ \A m : m # n => y # Event("CONNECTED", m)
  <2>1. /\ y.event = e /\ i.event = "INIT" /\ g.event = "CONNECTING" /\ d.event = "CONNECTED"
        /\ y.conn = n /\ \A m : Event("CONNECTED", m).conn = m
    BY DoFields
  <2>2. y \in Events
    BY DEF Event, Events, Kinds
  <2> QED
    BY <1>2, <2>1, <2>2, QueuesTyped DEF Told
<1>14. i \notin ToSet(events) /\ g \notin ToSet(events) /\ d \notin ToSet(events)
  BY <1>7, <1>8 DEF Asked, Heard
<1>15. ToSet(events') = ToSet(events) \cup {y}
  <2> HIDE DEF y, i, g, d
  <2> QED
    BY <1>13, AppendElements
<1>16. OnceIn(events, i) /\ OnceIn(events, g) /\ OnceIn(events, d)
  BY <1>6 DEF TraceAt, ConnectedAt
<1>17. OnceIn(events', i) /\ OnceIn(events', g) /\ OnceIn(events', d)
  <2> HIDE DEF y, i, g, d
  <2> QED
    BY <1>13, <1>14, <1>16, AppendOrder
<1>h. /\ Heard("CONNECTED", n)' <=> e = "CONNECTED"
      /\ \A m : m # n => (Heard("CONNECTED", m)' <=> Heard("CONNECTED", m))
  <2>1. /\ d \in ToSet(events') <=> e = "CONNECTED"
        /\ \A m : m # n => (Event("CONNECTED", m) \in ToSet(events') <=> Event("CONNECTED", m) \in ToSet(events))
    <3> HIDE DEF y, i, g, d
    <3> QED
      BY <1>13, <1>14, <1>15
  <2> QED
    BY <2>1 DEF Heard
<1> HIDE DEF y, i, g, d
<1>18. /\ i \in ToSet(events') <=> e = "INIT"
       /\ g \in ToSet(events') <=> e = "CONNECTING"
  BY <1>13, <1>14, <1>15
<1>19. Asked(n)' => Due(t).arg # "CONNECTED"
  BY <1>2, <1>18 DEF Asked, Heard, i, g
<1>20. Early(n)' => managedBy'[n] = {}
  <2>1. Early(n)' => Asked(n)'
    BY <1>10 DEF Early, Opening, OpenedBy, Opens
  <2>2. Due(t).arg # "CONNECTED" => Early(n)
    BY <1>1 DEF Early
  <2> QED
    BY <1>3, <1>6, <1>19, <2>1, <2>2 DEF TraceAt
<1>21. TraceAt(n)'
  <2>1. \A u, w \in Threads : OpenedBy(u, n)' /\ OpenedBy(w, n)' => u = w
    BY <1>10 DEF Opening
  <2>2. OnceIn(events, Event("INIT", n))' /\ OnceIn(events, Event("CONNECTING", n))'
    BY <1>17 DEF i, g
  <2>3. Heard("INIT", n)' => ~Heard("CONNECTING", n)'
    BY <1>18 DEF Heard, i, g
  <2>4. OnceIn(queue["reader"], Event("DATA", n))'
    BY <1>6, <1>11 DEF TraceAt
  <2> QED
    BY <1>10, <1>12, <1>20, <2>1, <2>2, <2>3, <2>4 DEF TraceAt
<1>22. UnsettledAt(n)'
  <2>1. SUFFICES ASSUME Unsettled(n)'
                 PROVE  n \notin established'
    BY DEF UnsettledAt
  <2>2. Asked(n)'
    BY <1>10, <1>12, <2>1 DEF Unsettled
  <2> QED
    BY <1>3, <1>7, <1>19, <2>2
<1>23. ConnectedAt(n)'
  <2>1. Heard("CONNECTED", n)' => n \in established'
    BY <1>2, <1>3, <1>h
  <2>2. OnceIn(events, Event("CONNECTED", n))'
    BY <1>17 DEF d
  <2> QED
    BY <2>1, <2>2 DEF ConnectedAt
<1>24. UnmadeAt(n)'
  BY <1>3, <1>6 DEF UnmadeAt
<1>25. Settled' = Settled
  <2>1. ASSUME NEW m
        PROVE  m \in Settled' <=> m \in Settled
    <3>1. CASE m = n
      BY <1>2, <1>3, <1>7, <1>h, <3>1 DEF Settled
    <3>2. CASE m # n
      <4>1. m \in established' <=> m \in established
        BY <1>3, <3>2
      <4>2. Heard("CONNECTED", m)' <=> Heard("CONNECTED", m)
        BY <1>h, <3>2
      <4> QED
        BY <4>1, <4>2 DEF Settled
    <3> QED
      BY <3>1, <3>2
  <2>2. \A x \in Settled : x \in Settled'
    BY <2>1
  <2>3. \A x \in Settled' : x \in Settled
    BY <2>1
  <2> QED
    BY <2>2, <2>3
<1> QED
  BY <1>21, <1>22, <1>23, <1>24, <1>25 DEF ConnectionInv

LEMMA OpensKeeps ==
    ASSUME TypeOK, Agendas, Forms, Connections, NEW t \in Threads, ChangeState(t), Opens(Due(t))
    PROVE  Forms' /\ Connections' /\ Settled' = Settled
<1>1. PICK n \in 1..made : n = Due(t).conn
  BY ChangeStateThen
<1>2. /\ agenda[t] = <<Due(t)>> /\ agenda'[t] = <<>>
      /\ Pending(t) = {Due(t)} /\ Pending(t)' = {}
      /\ \A u \in Threads \ {t} : agenda'[u] = agenda[u] /\ Pending(u)' = Pending(u)
  BY <1>1, OpensDoes
<1>3. /\ queue' = queue \/ queue' = [queue EXCEPT !["writer"] = Append(@, Event("OUTBOUND", n))]
      /\ established' = IF Due(t).arg = "CONNECTED" THEN established \cup {n} ELSE established
      /\ UNCHANGED <<made, managedBy>>
  BY <1>1, OpensDoes
<1>4. Forms'
  <2>1. FormAt(t)'
    BY <1>2, QuietForm
  <2>2. \A u \in Threads \ {t} : FormAt(u)'
    BY <1>2, FormStays DEF Forms
  <2> QED
    BY <2>1, <2>2 DEF Forms
<1>5. ASSUME NEW m \in Conns, m # n
      PROVE  ConnectionInv(m)'
  <2>1. AgendaFades(m)
    BY <1>2 DEF AgendaFades
  <2>2. HeardFades(m)
    <3>1. PICK e \in {"INIT", "CONNECTING", "CONNECTED"} : events' = Told(e, n)
      BY <1>1, OpensDoes
    <3> QED
      BY <1>5, <3>1, ToldHeard DEF Kinds
  <2>3. QueueFades(m)
    <3>1. CASE queue' = queue
      BY <3>1, SameQueues
    <3>2. CASE queue' = [queue EXCEPT !["writer"] = Append(@, Event("OUTBOUND", n))]
      <4> DEFINE i == Event("OUTBOUND", n)
      <4>1. i \in Items /\ "writer" \in Pipe
        BY ItemTyped DEF Pipe
      <4>2. queue' = [queue EXCEPT !["writer"] = Append(@, i)]
        BY <3>2
      <4> HIDE DEF i
      <4> QED
        BY <4>1, <4>2, AppendQueues
    <3> QED
      BY <1>3, <3>1, <3>2
  <2>4. m \in established' <=> m \in established
    BY <1>3, <1>5
  <2>5. ConnectionInv(m)
    BY DEF Connections
  <2> QED
    BY <1>3, <2>1, <2>2, <2>3, <2>4, <2>5, FadesKept
<1>6. ConnectionInv(n)' /\ Settled' = Settled
  BY <1>1, OpensOwn
<1> QED
  BY <1>4, <1>5, <1>6 DEF Connections

-----------------------------------------------------------------------------
(* 8. A connection is handed over.                                          *)

(* Where the thread is that hands n over.                                  *)
LEMMA ManageDue ==
    ASSUME TypeOK, Agendas, Forms, NEW t \in Threads, agenda[t] # <<>>, Manages(Due(t)),
           NEW n \in 1..made, n = Due(t).conn
    PROVE  \/ /\ t = "client"
              /\ \E k \in 1..6 : /\ Due(t) = Manage(n)[k]
                                 /\ Pending(t) = {Manage(n)[i] : i \in k..6}
                                 /\ Rest(t) = {Manage(n)[i] : i \in (k + 1)..6}
                                 /\ k = 6 => Tail(agenda[t]) = <<>>
           \/ /\ t = "reader" /\ Due(t) = Do("sign", n, "reader")
              /\ Pending(t) = {Due(t)} /\ Rest(t) = {} /\ Tail(agenda[t]) = <<>>
<1>0. n \in 1..MaxConns
  BY MadeTyped
<1>1. Due(t) \in Pending(t) /\ Pending(t) = {Due(t)} \cup Rest(t)
  BY DueFacts
<1>2. CASE t = "client" /\ \E k \in 1..6 : agenda[t] = ManageFrom(n, k)
  <2>1. PICK k \in 1..6 : agenda[t] = ManageFrom(n, k)
    BY <1>2
  <2>2. Due(t) = Manage(n)[k] /\ Pending(t) = {Manage(n)[i] : i \in k..6}
    BY <1>0, <2>1, ManageFromIs DEF Due, Pending
  <2>3. CASE k = 6
    <3>1. Tail(agenda[t]) = <<>>
      <4>1. k = 6 => Tail(ManageFrom(n, k)) = <<>>
        BY <1>0, ManageFromIs
      <4> QED
        BY <2>1, <2>3, <4>1
    <3>2. Rest(t) = {}
      BY <3>1, ShortElements DEF Rest
    <3>3. {Manage(n)[i] : i \in (k + 1)..6} = {}
      BY <2>3
    <3> QED
      BY <1>2, <2>2, <3>1, <3>2, <3>3
  <2>4. CASE k < 6
    <3>1. PICK j \in 1..6 : j = k + 1
      BY <2>4
    <3>2. Tail(agenda[t]) = ManageFrom(n, j)
      BY <1>0, <2>1, <2>4, <3>1, ManageFromIs
    <3>3. Rest(t) = {Manage(n)[i] : i \in j..6}
      BY <1>0, <3>2, ManageFromIs DEF Rest
    <3>4. Rest(t) = {Manage(n)[i] : i \in (k + 1)..6}
      BY <3>1, <3>3
    <3>5. k # 6
      BY <2>4
    <3> QED
      BY <1>2, <2>2, <3>4, <3>5
  <2> QED
    BY <2>3, <2>4
<1>3. CASE t = "reader" /\ Due(t) = Do("sign", n, "reader") /\ agenda[t] = <<Due(t)>>
  <2>1. \A x : Tail(<<x>>) = <<>>
    OBVIOUS
  <2>2. Tail(agenda[t]) = <<>>
    BY <1>3, <2>1
  <2>3. Rest(t) = {}
    BY <2>2, ShortElements DEF Rest
  <2> QED
    BY <1>1, <1>3, <2>2, <2>3
<1> QED
  BY <1>1, <1>2, <1>3 DEF Forms, FormAt

(* The client's last signature is the last of its steps.                   *)
LEMMA ManagingEnds ==
    ASSUME TypeOK, Agendas, Forms, NEW n \in 1..made,
           NEW y \in Pending("client"), Manages(y), y.conn = n
    PROVE  Signs("client", n, "writer")
<1>0. n \in 1..MaxConns /\ "client" \in Threads
  BY MadeTyped DEF Threads
<1>1. PICK k \in 1..6 : agenda["client"] = ManageFrom(n, k)
  BY <1>0 DEF Forms, FormAt
<1>2. Pending("client") = {Manage(n)[i] : i \in k..6}
  <2>1. ToSet(ManageFrom(n, k)) = {Manage(n)[i] : i \in k..6}
    BY <1>0, ManageFromIs
  <2>2. Pending("client") = ToSet(ManageFrom(n, k))
    BY <1>1, Zenon DEF Pending
  <2> QED
    BY <2>1, <2>2
<1>3. Manage(n)[6] = Do("sign", n, "writer") /\ 6 \in k..6
  BY <1>0, ManageIs
<1> QED
  BY <1>2, <1>3 DEF Signs

(* The client never signs for the reader.                                  *)
LEMMA NotForReader ==
    ASSUME TypeOK, Agendas, Forms, NEW n \in 1..made
    PROVE  ~Signs("client", n, "reader")
<1> SUFFICES ASSUME Signs("client", n, "reader")
             PROVE  FALSE
  OBVIOUS
<1> DEFINE y == Do("sign", n, "reader")
<1>0. n \in 1..MaxConns /\ "client" \in Threads
  BY MadeTyped DEF Threads
<1>1. y \in Pending("client") /\ Manages(y) /\ y.conn = n
  BY DoFields DEF Signs, Manages
<1> HIDE DEF y
<1>2. PICK k \in 1..6 : agenda["client"] = ManageFrom(n, k)
  BY <1>0, <1>1 DEF Forms, FormAt
<1>3. Pending("client") = {Manage(n)[i] : i \in k..6}
  BY <1>0, <1>2, ManageFromIs DEF Pending
<1>4. PICK i \in k..6 : y = Manage(n)[i]
  BY <1>1, <1>3
<1>5. i \in 1..6
  BY <1>4
<1> QED
  BY <1>0, <1>4, <1>5, ManageAt DEF y

(* It is not opened any more.                                              *)
LEMMA ManagedStays ==
    ASSUME NEW n, TraceAt(n), Managing(n), HeardFades(n),
           \A t \in Threads : \A x \in Pending(t)' : x.conn = n /\ Opens(x) => x \in Pending(t)
    PROVE  /\ ~Opening(n)' /\ ~Asked(n)' /\ ~Early(n)' /\ \A t \in Threads : ~OpenedBy(t, n)'
           /\ ~Heard("INIT", n)'
           /\ OnceIn(events, Event("INIT", n))' /\ OnceIn(events, Event("CONNECTING", n))'
<1>1. ~Opening(n) /\ ~Asked(n)
  BY DEF TraceAt
<1>2. \A t \in Threads : ~OpenedBy(t, n)'
  BY <1>1 DEF Opening, OpenedBy
<1>3. ~Opening(n)'
  BY <1>2 DEF Opening
<1>4. ~Asked(n)' /\ ~Heard("INIT", n)'
  BY <1>1 DEF Asked, HeardFades, News, Heard
<1>5. ~Early(n)'
  BY <1>3, <1>4 DEF Early, Opening, OpenedBy
<1>6. OnceIn(events, Event("INIT", n))' /\ OnceIn(events, Event("CONNECTING", n))'
  BY DEF TraceAt, HeardFades, News
<1> QED
  BY <1>2, <1>3, <1>4, <1>5, <1>6

(* Step offer.                                                             *)
LEMMA OfferKeeps ==
    ASSUME TypeOK, Agendas, Forms, Connections, NEW t \in Threads, Offer(t)
    PROVE  Forms' /\ Connections' /\ Settled' = Settled
<1>1. /\ agenda[t] # <<>> /\ UNCHANGED made
      /\ Goes(t, {}) /\ agenda'[t] = Tail(agenda[t])
      /\ \A u \in Threads \ {t} : agenda'[u] = agenda[u]
      /\ Due(t) \in Pending(t) /\ Due(t).op = "offer" /\ Due(t).conn \in 1..made
  BY PlainGoes DEF Plain, Offer, Does
<1>2. PICK n \in 1..made : n = Due(t).conn
  BY <1>1
<1>3. n \in Conns /\ n \in 1..MaxConns
  BY MadeTyped DEF Conns
<1>4. Forms'
  <2>1. FormAt(t)'
    BY <1>1, TailFormed DEF Forms
  <2>2. \A u \in Threads \ {t} : FormAt(u)'
    BY <1>1, FormStays DEF Forms
  <2> QED
    BY <2>1, <2>2 DEF Forms
<1>5. UNCHANGED <<events, managedBy, established>>
  BY DEF Offer, client, owners, history
<1>6. \A m \in Conns : AgendaFades(m) /\ HeardFades(m) /\ ConnectionInv(m)
  BY <1>1, <1>5, GoesFades, SameHeard DEF Connections
<1> DEFINE i == Event("DATA", n)
<1>8. i \in Items /\ queue' = [queue EXCEPT !["reader"] = Append(@, i)] /\ "reader" \in Pipe
  BY <1>2, ItemTyped DEF Offer, Pipe
<1>9. ASSUME NEW m \in Conns, m # n
      PROVE  ConnectionInv(m)'
  <2>1. i # Event("DATA", m)
    <3>1. i.conn = n /\ Event("DATA", m).conn = m
      BY DoFields
    <3> QED
      BY <1>9, <3>1
  <2> HIDE DEF i
  <2>2. QueueFades(m)
    BY <1>8, <2>1, AppendQueues
  <2> QED
    BY <1>1, <1>5, <1>6, <2>2, FadesKept
<1>10. t = "client" /\ Due(t) = Do("offer", n, "nothing") /\ ~Offers(n)'
  <2>1. Manages(Due(t)) /\ Due(t).op # "sign"
    BY <1>1 DEF Manages
  <2>2. Do("sign", n, "reader").op = "sign"
    BY DoFields
  <2>3. PICK k \in 1..6 : t = "client" /\ Due(t) = Manage(n)[k] /\ Rest(t) = {Manage(n)[j] : j \in (k + 1)..6}
    BY <1>1, <1>2, <2>1, <2>2, ManageDue
  <2>4. k = 1 /\ Due(t) = Do("offer", n, "nothing")
    BY <1>1, <1>3, <2>3, ManageAt
  <2>5. \A j \in 2..6 : Manage(n)[j] # Do("offer", n, "nothing")
    <3>1. \A j \in 2..6 : j \in 1..6 /\ j # 1
      OBVIOUS
    <3>2. Do("offer", n, "nothing").op = "offer"
      BY DoFields
    <3> QED
      BY <1>3, <3>1, <3>2, ManageAt
  <2>6. Pending(t)' = {Manage(n)[j] : j \in 2..6}
    BY <1>1, <2>3, <2>4 DEF Goes
  <2> QED
    BY <2>3, <2>4, <2>5, <2>6 DEF Offers
<1>11. Offers(n) /\ Managing(n) /\ Unsettled(n)
  BY <1>1, <1>2, <1>10 DEF Offers, Managing, Unsettled, Manages
<1>12. TraceAt(n) /\ UnsettledAt(n) /\ ConnectedAt(n) /\ UnmadeAt(n)
  BY <1>3, <1>6 DEF ConnectionInv
<1>13. ~Offered(n) /\ "reader" \notin managedBy[n] /\ ~Signs("reader", n, "reader")
  BY <1>11, <1>12 DEF TraceAt
<1>14. TraceAt(n)'
  <2>1. HeardFades(n)
    BY <1>3, <1>6
  <2>2. /\ ~Opening(n)' /\ ~Asked(n)' /\ ~Early(n)' /\ \A u \in Threads : ~OpenedBy(u, n)'
        /\ ~Heard("INIT", n)'
        /\ OnceIn(events, Event("INIT", n))' /\ OnceIn(events, Event("CONNECTING", n))'
    BY <1>3, <1>6, <1>11, <1>12, <2>1, ManagedStays DEF AgendaFades
  <2>3. \A u \in Threads : \A q : Signs(u, n, q)' => Signs(u, n, q)
    <3>1. \A q : Manages(Do("sign", n, q)) /\ Do("sign", n, q).conn = n
      BY DoFields DEF Manages
    <3> QED
      BY <1>3, <1>6, <3>1 DEF AgendaFades, Signs
  <2>4. OnceIn(queue["reader"], Event("DATA", n))'
    <3>1. queue["reader"] \in Seq(Items) /\ queue'["reader"] = Append(queue["reader"], i)
      BY <1>8, QueuesTyped
    <3>2. OnceIn(queue["reader"], i) /\ i \notin ToSet(queue["reader"])
      BY <1>12, <1>13 DEF TraceAt, Offered
    <3> HIDE DEF i
    <3>3. OnceIn(queue'["reader"], i)
      BY <1>8, <3>1, <3>2, AppendOrder
    <3> QED
      BY <3>3 DEF i
  <2>5. "client" \in Threads /\ "reader" \in Threads
    BY DEF Threads, Pipe
  <2>6. /\ ~Signs("reader", n, "reader")'
        /\ \A q \in Pipe : Signs("client", n, q)' => q \notin managedBy'[n]
        /\ "reader" \notin managedBy'[n]
    BY <1>5, <1>12, <1>13, <2>3, <2>5 DEF TraceAt
  <2> QED
    BY <1>10, <2>2, <2>4, <2>6 DEF TraceAt
<1>15. UnsettledAt(n)' /\ ConnectedAt(n)' /\ UnmadeAt(n)'
  BY <1>1, <1>5, <1>11, <1>12 DEF UnsettledAt, ConnectedAt, UnmadeAt, Heard
<1>16. Settled' = Settled
  BY <1>5, SameSettled
<1> QED
  BY <1>4, <1>9, <1>14, <1>15, <1>16 DEF Connections, ConnectionInv

(* Step hook, whether another thread runs through the handlers or not.     *)
LEMMA HookKeeps ==
    ASSUME TypeOK, Agendas, Forms, Connections, NEW t \in Threads, AddHandler(t)
    PROVE  Forms' /\ Connections' /\ Settled' = Settled
<1>1. UNCHANGED <<made, events, queue, managedBy, established>>
  BY DEF AddHandler, client, owners, threads, history
<1>2. Forms' /\ \A m : AgendaFades(m)
  <2>1. CASE undefined' # "race"
    <3>1. /\ agenda[t] # <<>>
          /\ Goes(t, {}) /\ agenda'[t] = Tail(agenda[t])
          /\ \A u \in Threads \ {t} : agenda'[u] = agenda[u]
      BY <2>1, PlainGoes DEF Plain
    <3>2. FormAt(t)'
      BY <3>1, TailFormed DEF Forms
    <3>3. \A u \in Threads \ {t} : FormAt(u)'
      BY <3>1, FormStays DEF Forms
    <3> QED
      BY <3>1, <3>2, <3>3, GoesFades DEF Forms
  <2>2. CASE undefined' = "race"
    <3>1. UNCHANGED agenda
      <4>1. undefined = "no"
        BY DEF AddHandler, Does
      <4> QED
        BY <2>2, <4>1 DEF AddHandler
    <3> QED
      BY <3>1, FormStays, RestsFades DEF Forms
  <2> QED
    BY <2>1, <2>2
<1>3. ASSUME NEW m \in Conns
      PROVE  ConnectionInv(m)'
  <2>1. HeardFades(m) /\ QueueFades(m) /\ ConnectionInv(m)
    BY <1>1, SameHeard, SameQueues DEF Connections
  <2> QED
    BY <1>1, <1>2, <2>1, FadesKept
<1> QED
  BY <1>1, <1>2, <1>3, SameSettled DEF Connections

(* Step sign: the signature that is given was due, and is due no more.     *)
LEMMA SignsGoes ==
    ASSUME TypeOK, Agendas, NEW t \in Threads, ManagedBy(t)
    PROVE  /\ agenda[t] # <<>> /\ Due(t).op = "sign" /\ Due(t) \in Pending(t) /\ UNCHANGED made
           /\ Due(t).conn \in 1..made /\ Due(t).arg \in Pipe
           /\ \E steps \in Seq(Steps) :
                 /\ Goes(t, ToSet(steps)) /\ agenda'[t] = steps \o Tail(agenda[t])
                 /\ \A u \in Threads \ {t} : agenda'[u] = agenda[u]
                 /\ IF managedBy'[Due(t).conn] = Pipe
                    THEN \E x \in Steps : /\ steps = <<x>> /\ Opens(x) /\ x.arg = "CONNECTED"
                                          /\ x.conn = Due(t).conn /\ ~Manages(x) /\ ~Decides(x)
                    ELSE steps = <<>>
<1>1. /\ agenda[t] # <<>> /\ Due(t).op = "sign" /\ Due(t).conn \in 1..made /\ Due(t).arg \in Pipe
  BY ManagedByThen
<1>2. PICK n \in 1..made : n = Due(t).conn
  BY <1>1
<1>3. Due(t) \in Pending(t)
  BY <1>1, DueFacts
<1>4. UNCHANGED made
  BY DEF ManagedBy, client
<1>5. CASE managedBy'[n] = Pipe
  <2> DEFINE x == Do("state", n, "CONNECTED")
  <2>1. /\ Formed(x) /\ x \in Steps /\ x.op = "state" /\ x.arg = "CONNECTED" /\ x.conn = n
        /\ Then(t, <<x>>)
    BY <1>2, <1>5, ManagedByThen
  <2> HIDE DEF x
  <2>2. Opens(x) /\ ~Manages(x) /\ ~Decides(x)
    BY <2>1 DEF Opens, Manages, Decides
  <2>3. <<x>> \in Seq(Steps) /\ \A y \in ToSet(<<x>>) : Formed(y)
    BY <2>1, OneStep
  <2>4. /\ Goes(t, ToSet(<<x>>)) /\ agenda'[t] = <<x>> \o Tail(agenda[t])
        /\ \A u \in Threads \ {t} : agenda'[u] = agenda[u]
    BY <1>1, <1>4, <2>1, <2>3, ThenSome
  <2>5. PICK steps \in Seq(Steps) : steps = <<x>>
    BY <2>3
  <2>6. Goes(t, ToSet(steps)) /\ agenda'[t] = steps \o Tail(agenda[t])
    BY <2>4, <2>5
  <2> QED
    BY <1>1, <1>2, <1>3, <1>4, <1>5, <2>1, <2>2, <2>4, <2>5, <2>6
<1>6. CASE managedBy'[n] # Pipe
  <2>1. Then(t, <<>>)
    BY <1>2, <1>6, ManagedByThen
  <2>2. <<>> \in Seq(Steps) /\ \A y \in ToSet(<<>>) : Formed(y)
    BY EmptySeq, ShortElements
  <2>3. /\ Goes(t, ToSet(<<>>)) /\ agenda'[t] = <<>> \o Tail(agenda[t])
        /\ \A u \in Threads \ {t} : agenda'[u] = agenda[u]
    BY <1>1, <1>4, <2>1, <2>2, ThenSome
  <2>4. PICK steps \in Seq(Steps) : steps = <<>>
    BY <2>2
  <2>5. Goes(t, ToSet(steps)) /\ agenda'[t] = steps \o Tail(agenda[t])
    BY <2>3, <2>4
  <2> QED
    BY <1>1, <1>2, <1>3, <1>4, <1>6, <2>3, <2>4, <2>5
<1> QED
  BY <1>5, <1>6

LEMMA SignsOnce ==
    ASSUME TypeOK, Agendas, Forms, Connections, NEW t \in Threads, ManagedBy(t),
           NEW n \in 1..made, n = Due(t).conn
    PROVE  /\ Managing(n)
           /\ t \in {"client", "reader"}
           /\ \A q \in Pipe : Signs("client", n, q)' => q \notin managedBy'[n]
           /\ (Offers(n) \/ Offered(n) \/ Signs("reader", n, "reader"))' => "reader" \notin managedBy'[n]
           /\ \A y \in Pending("client")' : Manages(y) /\ y.conn = n => Signs("client", n, "writer")'
           /\ Tail(agenda[t]) = <<>> \/ Signs("client", n, "writer")'
<1>0. n \in Conns /\ n \in 1..MaxConns
  BY MadeTyped DEF Conns
<1>1. /\ agenda[t] # <<>> /\ Due(t).op = "sign" /\ Due(t) \in Pending(t) /\ Due(t).arg \in Pipe
      /\ Manages(Due(t)) /\ Due(t) \in Steps
  BY SignsGoes, DueFacts DEF Manages
<1>2. PICK steps \in Seq(Steps) :
         /\ Goes(t, ToSet(steps))
         /\ \A x \in ToSet(steps) : ~Manages(x)
  <2>1. PICK steps \in Seq(Steps) :
            /\ Goes(t, ToSet(steps))
            /\ \/ \E x \in Steps : steps = <<x>> /\ ~Manages(x)
               \/ steps = <<>>
    BY SignsGoes
  <2>2. \A x \in ToSet(steps) : ~Manages(x)
    BY <2>1, ShortElements
  <2> QED
    BY <2>1, <2>2
<1>3. /\ Rest(t) \subseteq Pending(t) /\ Rest(t) \subseteq Pending(t)'
      /\ \A y \in Pending(t)' : Manages(y) => y \in Rest(t)
      /\ \A u \in Threads \ {t} : Pending(u)' = Pending(u)
  BY <1>1, <1>2, DueFacts DEF Goes
<1>q. PICK q \in Pipe : q = Due(t).arg
  BY <1>1
<1>4. managedBy'[n] = managedBy[n] \cup {q} /\ queue' = queue
  BY <1>q, ManagedByThen DEF ManagedBy, threads
<1>5. Due(t) = Do("sign", n, q)
  BY <1>q, <1>1, StepFields
<1>6. TraceAt(n)
  BY <1>0 DEF Connections, ConnectionInv
<1>7. /\ \A p : Manages(Do("sign", n, p)) /\ Do("sign", n, p).op = "sign" /\ Do("sign", n, p).arg = p
      /\ \A p : Do("sign", n, p).conn = n
      /\ Manages(Do("offer", n, "nothing")) /\ Do("offer", n, "nothing").conn = n
  BY DoFields DEF Manages
<1>8. "client" \in Threads /\ "reader" \in Threads /\ "client" # "reader"
  BY DEF Threads, Pipe
<1>9. /\ \A u \in Threads : \A p : Signs(u, n, p)' => Signs(u, n, p)
      /\ Offers(n)' => Offers(n)
      /\ Offered(n)' <=> Offered(n)
  BY <1>3, <1>4, <1>7, <1>8 DEF Signs, Offers, Offered
<1>10. CASE /\ t = "client"
            /\ \E k \in 1..6 : /\ Due(t) = Manage(n)[k]
                               /\ Pending(t) = {Manage(n)[i] : i \in k..6}
                               /\ Rest(t) = {Manage(n)[i] : i \in (k + 1)..6}
                               /\ k = 6 => Tail(agenda[t]) = <<>>
  <2>1. PICK k \in 1..6 : /\ Due(t) = Manage(n)[k]
                          /\ Rest(t) = {Manage(n)[i] : i \in (k + 1)..6}
                          /\ k = 6 => Tail(agenda[t]) = <<>>
    BY <1>10
  <2>2. (k = 4 /\ q = "worker") \/ (k = 6 /\ q = "writer")
    <3>1. q \in {"worker", "writer"}
      <4>1. n \in 1..MaxConns
        BY <1>0
      <4>2. Manage(n)[k].op = "sign" => Manage(n)[k].arg \in {"worker", "writer"}
        BY <4>1, ManageAt
      <4> QED
        BY <1>1, <1>q, <2>1, <4>2
    <3>2. (k = 4 <=> Due(t) = Do("sign", n, "worker")) /\ (k = 6 <=> Due(t) = Do("sign", n, "writer"))
      BY <1>0, <2>1, ManageAt
    <3> QED
      BY <1>5, <3>1, <3>2
  <2>3. Managing(n)
    BY <1>1, <1>10 DEF Managing
  <2>4. Do("sign", n, q) \notin Rest(t)
    <3>1. \A i \in (k + 1)..6 : i \in 1..6 /\ i # k
      OBVIOUS
    <3>2. \A i \in (k + 1)..6 : Manage(n)[i] # Do("sign", n, q)
      BY <1>0, <2>2, <3>1, ManageAt
    <3> QED
      BY <2>1, <3>2
  <2>5. \A p \in Pipe : Signs("client", n, p)' => p \notin managedBy'[n]
    <3>1. ~Signs("client", n, q)'
      <4>0. \A y \in Pending(t)' : Manages(y) => y # Do("sign", n, q)
        BY <1>3, <2>4
      <4>1. \A y \in Pending("client")' : Manages(y) => y # Do("sign", n, q)
        <5>1. t = "client"
          BY <1>10
        <5>2. Pending(t)' = Pending("client")'
          BY <5>1, Zenon DEF Pending
        <5> QED
          BY <4>0, <5>2
      <4>2. Do("sign", n, q) \notin Pending("client")'
        BY <1>7, <4>1
      <4> QED
        BY <4>2 DEF Signs
    <3>2. ASSUME NEW p \in Pipe, Signs("client", n, p)'
          PROVE  p \notin managedBy'[n]
      <4>1. p # q
        BY <3>1, <3>2 DEF Signs
      <4>2. p \notin managedBy[n]
        BY <1>6, <1>8, <1>9, <3>2 DEF TraceAt
      <4> QED
        BY <1>4, <4>1, <4>2
    <3> QED
      BY <3>2
  <2>6. (Offers(n) \/ Offered(n) \/ Signs("reader", n, "reader"))' => "reader" \notin managedBy'[n]
    BY <1>4, <1>6, <1>8, <1>9, <2>2 DEF TraceAt
  <2>7. k < 6 => Signs("client", n, "writer")'
    <3>0. k < 6 => 6 \in (k + 1)..6
      OBVIOUS
    <3>1. k < 6 => Manage(n)[6] \in Rest(t)
      BY <2>1, <3>0
    <3> QED
      BY <1>0, <1>3, <1>10, <3>1, ManageIs DEF Signs
  <2>8. ASSUME NEW y \in Pending("client")', Manages(y)
        PROVE  k < 6
    <3>1. y \in Rest(t)
      BY <1>3, <1>10, <2>8
    <3> QED
      BY <2>1, <3>1
  <2> QED
    BY <1>10, <2>1, <2>3, <2>5, <2>6, <2>7, <2>8
<1>11. CASE t = "reader" /\ Due(t) = Do("sign", n, "reader") /\ Rest(t) = {} /\ Tail(agenda[t]) = <<>>
  <2>1. q = "reader"
    BY <1>7, <1>11, <1>q
  <2>2. Signs("reader", n, "reader") /\ Managing(n)
    BY <1>1, <1>11 DEF Signs, Managing
  <2>3. ~Offers(n) /\ ~Offered(n)
    BY <1>6, <2>2 DEF TraceAt
  <2>4. ~Signs("reader", n, "reader")'
    BY <1>3, <1>7, <1>11 DEF Signs
  <2>5. \A p \in Pipe : Signs("client", n, p)' => p \notin managedBy'[n]
    <3>1. ~Signs("client", n, "reader")
      BY NotForReader
    <3> QED
      BY <1>4, <1>6, <1>8, <1>9, <2>1, <3>1 DEF TraceAt
  <2>6. \A y \in Pending("client")' : Manages(y) /\ y.conn = n => Signs("client", n, "writer")'
    <3>1. Pending("client")' = Pending("client")
      BY <1>3, <1>8, <1>11
    <3> QED
      BY <3>1, ManagingEnds DEF Signs
  <2> QED
    BY <1>9, <1>11, <2>2, <2>3, <2>4, <2>5, <2>6
<1> QED
  BY <1>1, <1>10, <1>11, ManageDue

LEMMA SignsOwn ==
    ASSUME TypeOK, Agendas, Forms, Connections, NEW t \in Threads, ManagedBy(t),
           NEW n \in 1..made, n = Due(t).conn
    PROVE  /\ ConnectionInv(n)'
           /\ managedBy'[n] = Pipe => Tail(agenda[t]) = <<>>
<1>0. n \in Conns
  BY MadeTyped
<1>1. /\ agenda[t] # <<>> /\ UNCHANGED made
      /\ \E steps \in Seq(Steps) :
            /\ Goes(t, ToSet(steps))
            /\ IF managedBy'[n] = Pipe
               THEN \E x \in Steps : /\ steps = <<x>> /\ Opens(x) /\ x.arg = "CONNECTED"
                                     /\ x.conn = n /\ ~Manages(x) /\ ~Decides(x)
               ELSE steps = <<>>
  BY SignsGoes
<1>2. PICK new : /\ Goes(t, new)
                 /\ \A x \in new : /\ managedBy'[n] = Pipe /\ Opens(x) /\ x.arg = "CONNECTED"
                                   /\ ~Manages(x) /\ ~Decides(x)
  <2>1. PICK steps \in Seq(Steps) :
            /\ Goes(t, ToSet(steps))
            /\ IF managedBy'[n] = Pipe
               THEN \E x \in Steps : /\ steps = <<x>> /\ Opens(x) /\ x.arg = "CONNECTED"
                                     /\ x.conn = n /\ ~Manages(x) /\ ~Decides(x)
               ELSE steps = <<>>
    BY <1>1
  <2>2. \A x \in ToSet(steps) : /\ managedBy'[n] = Pipe /\ Opens(x) /\ x.arg = "CONNECTED"
                                /\ ~Manages(x) /\ ~Decides(x)
    <3>1. CASE managedBy'[n] = Pipe
      <4>1. PICK x \in Steps : /\ steps = <<x>> /\ Opens(x) /\ x.arg = "CONNECTED"
                               /\ ~Manages(x) /\ ~Decides(x)
        BY <2>1, <3>1
      <4>2. ToSet(steps) = {x}
        BY <4>1, ShortElements
      <4> QED
        BY <3>1, <4>1, <4>2
    <3>2. CASE managedBy'[n] # Pipe
      BY <2>1, <3>2, ShortElements
    <3> QED
      BY <3>1, <3>2
  <2> QED
    BY <2>1, <2>2
<1>3. /\ Managing(n)
      /\ \A q \in Pipe : Signs("client", n, q)' => q \notin managedBy'[n]
      /\ (Offers(n) \/ Offered(n) \/ Signs("reader", n, "reader"))' => "reader" \notin managedBy'[n]
      /\ \A y \in Pending("client")' : Manages(y) /\ y.conn = n => Signs("client", n, "writer")'
      /\ Tail(agenda[t]) = <<>> \/ Signs("client", n, "writer")'
  BY SignsOnce
<1>4. /\ Rest(t) \subseteq Pending(t)
      /\ \A u \in Threads : \A y \in Pending(u)' : (u = t /\ y \in new) \/ y \in Pending(u)
  BY <1>1, <1>2, DueFacts DEF Goes
<1>5. TraceAt(n) /\ UnsettledAt(n) /\ ConnectedAt(n) /\ Unsettled(n)
  BY <1>0, <1>3 DEF Connections, ConnectionInv, Unsettled
<1>6. ~Opening(n) /\ ~Asked(n)
  BY <1>3, <1>5 DEF TraceAt
<1>7. UNCHANGED <<events, queue, established>>
  BY DEF ManagedBy, client, threads, history
<1>8. "client" \in Threads /\ "reader" \in Threads /\ "writer" \in Pipe /\ "reader" \in Pipe
  BY DEF Threads, Pipe
<1>9. managedBy'[n] = Pipe => /\ ~Managing(n)' /\ ~Signs("client", n, "writer")'
                              /\ Tail(agenda[t]) = <<>>
  BY <1>3, <1>8 DEF Managing
<1>10. ~Asked(n)'
  BY <1>6, <1>7 DEF Asked, Heard
<1>11. \A u \in Threads : OpenedBy(u, n)' => u = t /\ managedBy'[n] = Pipe
  <2> SUFFICES ASSUME NEW u \in Threads, OpenedBy(u, n)'
               PROVE  u = t /\ managedBy'[n] = Pipe
    OBVIOUS
  <2>1. PICK x \in Pending(u)' : Opens(x) /\ x.conn = n
    BY DEF OpenedBy
  <2>2. x \notin Pending(u)
    BY <1>6, <2>1 DEF Opening, OpenedBy
  <2> QED
    BY <1>2, <1>4, <2>1, <2>2
<1>12. Opening(n)' => managedBy'[n] = Pipe
  BY <1>11 DEF Opening
<1>13. ~Early(n)'
  <2>1. ASSUME NEW u \in Threads, NEW x \in Pending(u)', Opens(x), x.arg # "CONNECTED", x.conn = n
        PROVE  FALSE
    <3>1. x \in Pending(u)
      BY <1>2, <1>4, <2>1
    <3> QED
      BY <1>6, <2>1, <3>1 DEF Opening, OpenedBy
  <2> QED
    BY <1>10, <2>1 DEF Early
<1>14. TraceAt(n)'
  <2>1. \A u, w \in Threads : OpenedBy(u, n)' /\ OpenedBy(w, n)' => u = w
    BY <1>11
  <2>2. OnceIn(events, Event("INIT", n))' /\ OnceIn(events, Event("CONNECTING", n))'
    BY <1>5, <1>7 DEF TraceAt
  <2>3. ~Heard("INIT", n)'
    BY <1>10 DEF Asked
  <2>4. Opening(n)' => ~Asked(n)' /\ ~Managing(n)'
    BY <1>9, <1>10, <1>12
  <2>5. OnceIn(queue["reader"], Event("DATA", n))'
    BY <1>5, <1>7 DEF TraceAt
  <2>6. /\ Offers(n)' => Offers(n)
        /\ Signs("reader", n, "reader")' => Signs("reader", n, "reader")
        /\ Offered(n)' => Offered(n)
    <3>1. Manages(Do("offer", n, "nothing")) /\ Manages(Do("sign", n, "reader"))
      BY DoFields DEF Manages
    <3> QED
      BY <1>2, <1>4, <1>7, <1>8, <3>1 DEF Offers, Signs, Offered
  <2>7. /\ Offers(n)' => ~Offered(n)'
        /\ Signs("reader", n, "reader")' => ~Offers(n)' /\ ~Offered(n)'
    BY <1>5, <2>6 DEF TraceAt
  <2> QED
    BY <1>3, <1>10, <1>13, <2>1, <2>2, <2>3, <2>4, <2>5, <2>7 DEF TraceAt
<1>15. UnsettledAt(n)' /\ ConnectedAt(n)'
  BY <1>5, <1>7 DEF UnsettledAt, ConnectedAt, Heard
<1>16. UnmadeAt(n)'
  BY <1>1, MadeTyped DEF UnmadeAt
<1> QED
  BY <1>9, <1>14, <1>15, <1>16 DEF ConnectionInv

LEMMA SignsKeeps ==
    ASSUME TypeOK, Agendas, Forms, Connections, NEW t \in Threads, ManagedBy(t)
    PROVE  Forms' /\ Connections' /\ Settled' = Settled
<1>1. PICK n \in 1..made : n = Due(t).conn
  BY SignsGoes
<1>2. PICK steps \in Seq(Steps) :
         /\ Goes(t, ToSet(steps)) /\ agenda'[t] = steps \o Tail(agenda[t])
         /\ \A u \in Threads \ {t} : agenda'[u] = agenda[u]
         /\ IF managedBy'[n] = Pipe
            THEN \E x \in Steps : steps = <<x>> /\ Opens(x) /\ x.conn = n /\ ~Manages(x) /\ ~Decides(x)
            ELSE steps = <<>>
  BY <1>1, SignsGoes
<1>3. agenda[t] # <<>> /\ UNCHANGED made /\ Tail(agenda[t]) \in Seq(Steps)
  BY SignsGoes, DueFacts
<1>4. FormAt(t)'
  <2>1. CASE managedBy'[n] = Pipe
    <3>1. Tail(agenda[t]) = <<>>
      BY <1>1, <2>1, SignsOwn
    <3>2. PICK x \in Steps : steps = <<x>> /\ Opens(x)
      BY <1>2, <2>1
    <3>3. agenda'[t] = <<x>>
      <4>1. agenda'[t] = <<x>> \o <<>>
        BY <1>2, <3>1, <3>2
      <4> QED
        BY <4>1
    <3> QED
      BY <3>2, <3>3, OneForm
  <2>2. CASE managedBy'[n] # Pipe
    <3>1. steps = <<>>
      BY <1>2, <2>2
    <3>2. agenda'[t] = Tail(agenda[t])
      BY <1>2, <1>3, <3>1
    <3> QED
      BY <1>3, <3>2, TailFormed DEF Forms
  <2> QED
    BY <2>1, <2>2
<1>5. \A u \in Threads \ {t} : FormAt(u)'
  BY <1>2, FormStays DEF Forms
<1>6. \A x \in ToSet(steps) : x.conn = n /\ ~Manages(x) /\ ~Decides(x)
  <2>1. CASE managedBy'[n] = Pipe
    <3>1. PICK x \in Steps : steps = <<x>> /\ x.conn = n /\ ~Manages(x) /\ ~Decides(x)
      BY <1>2, <2>1
    <3>2. ToSet(steps) = {x}
      BY <3>1, ShortElements
    <3> QED
      BY <3>1, <3>2
  <2>2. CASE managedBy'[n] # Pipe
    BY <1>2, <2>2, ShortElements
  <2> QED
    BY <2>1, <2>2
<1>7. UNCHANGED <<events, queue, established>>
  BY DEF ManagedBy, client, threads, history
<1>8. ASSUME NEW m \in Conns, m # n
      PROVE  ConnectionInv(m)'
  <2>1. \A x \in ToSet(steps) : x.conn = m => ~Opens(x) /\ ~Manages(x)
    BY <1>6, <1>8
  <2>2. AgendaFades(m)
    BY <1>2, <1>3, <2>1, GoesFades
  <2>3. managedBy'[m] = managedBy[m]
    BY <1>1, <1>8 DEF ManagedBy, TypeOK
  <2>4. HeardFades(m) /\ QueueFades(m) /\ ConnectionInv(m)
    BY <1>7, SameHeard, SameQueues DEF Connections
  <2> QED
    BY <1>3, <1>7, <2>2, <2>3, <2>4, FadesKept
<1>9. ConnectionInv(n)'
  BY <1>1, SignsOwn
<1> QED
  BY <1>4, <1>5, <1>7, <1>8, <1>9, SameSettled DEF Forms, Connections

(* The client takes the event that asks it to go on with n.                *)
LEMMA AskedTaken ==
    ASSUME TypeOK, Connections, NEW n \in Conns, NEW e \in {"INIT", "CONNECTING"}, TakeEvent(e, n)
    PROVE  /\ Unsettled(n) /\ ~Opening(n) /\ ~Managing(n) /\ managedBy[n] = {}
           /\ ~Asked(n)' /\ ~Heard("INIT", n)'
           /\ OnceIn(events, Event("INIT", n))' /\ OnceIn(events, Event("CONNECTING", n))'
           /\ \A m \in Conns : HeardFades(m)
<1>1. TraceAt(n)
  BY DEF Connections, ConnectionInv
<1>2. events \in Seq(Events) /\ events # <<>> /\ Head(events) = Event(e, n) /\ Heard(e, n) /\ events' = Tail(events)
  BY QueuesTyped, TakesEvent DEF Kinds
<1>3. Asked(n) /\ Unsettled(n) /\ Early(n)
  BY <1>2 DEF Asked, Unsettled, Early
<1>4. ~Opening(n) /\ ~Managing(n) /\ managedBy[n] = {}
  BY <1>1, <1>3 DEF TraceAt
<1>5. ToSet(Tail(events)) \subseteq ToSet(events)
  BY <1>2, HeadTailElements
<1>6. /\ OnceIn(events, Event("INIT", n)) /\ OnceIn(events, Event("CONNECTING", n))
      /\ Heard("INIT", n) => ~Heard("CONNECTING", n)
  BY <1>1 DEF TraceAt
<1>7. Event(e, n) \notin ToSet(Tail(events))
  BY <1>2, <1>6, TailOrder
<1>8. ~Heard("INIT", n)' /\ ~Heard("CONNECTING", n)'
  BY <1>2, <1>5, <1>6, <1>7 DEF Heard
<1>9. OnceIn(events, Event("INIT", n))' /\ OnceIn(events, Event("CONNECTING", n))'
  BY <1>2, <1>6, TailOrder
<1>10. \A m \in Conns : HeardFades(m)
  BY <1>2, TailHeard
<1> QED
  BY <1>3, <1>4, <1>8, <1>9, <1>10 DEF Asked

LEMMA AskedOwn ==
    ASSUME TypeOK, Agendas, Connections, NEW n \in Conns,
           NEW e \in {"INIT", "CONNECTING"}, TakeEvent(e, n), n \in 1..made,
           NEW steps \in Seq(Steps), Starts("client", steps), \A x \in ToSet(steps) : Formed(x) /\ x.conn = n,
           \/ \E x \in Steps : steps = <<x>> /\ Opens(x)
           \/ \A x \in ToSet(steps) : Calm(x)
           \/ steps = Manage(n),
           UNCHANGED <<made, queue, managedBy, established>>
    PROVE  ConnectionInv(n)'
<1>1. /\ Unsettled(n) /\ ~Opening(n) /\ ~Managing(n) /\ managedBy[n] = {}
      /\ ~Asked(n)' /\ ~Heard("INIT", n)'
      /\ OnceIn(events, Event("INIT", n))' /\ OnceIn(events, Event("CONNECTING", n))'
      /\ HeardFades(n)
  BY AskedTaken
<1>2. TraceAt(n) /\ UnsettledAt(n) /\ ConnectedAt(n) /\ UnmadeAt(n)
  BY DEF Connections, ConnectionInv
<1>3. "client" \in Threads /\ "reader" \in Threads /\ "reader" # "client"
  BY DEF Threads, Pipe
<1>4. Pending("client")' = ToSet(steps) /\ \A u \in Threads \ {"client"} : Pending(u)' = Pending(u)
  BY <1>3, StartsGoes
<1>5. \A u \in Threads : OpenedBy(u, n)' => u = "client"
  BY <1>1, <1>4 DEF Opening, OpenedBy
<1>6. Offered(n)' = Offered(n) /\ Signs("reader", n, "reader")' = Signs("reader", n, "reader")
  BY <1>3, <1>4 DEF Offered, Signs
<1>7. ~Offered(n)' /\ ~Signs("reader", n, "reader")'
  BY <1>1, <1>6 DEF Managing
<1>8. \/ \A x \in ToSet(steps) : ~Manages(x)
      \/ \A x \in ToSet(steps) : ~Opens(x)
  <2>1. CASE \E x \in Steps : steps = <<x>> /\ Opens(x)
    <3>1. \A x \in ToSet(steps) : Opens(x)
      BY <2>1, ShortElements
    <3> QED
      BY <3>1 DEF Opens, Manages
  <2>2. CASE \A x \in ToSet(steps) : Calm(x)
    BY <2>2 DEF Calm
  <2>3. CASE steps = Manage(n)
    <3>1. \A x \in ToSet(steps) : Manages(x)
      BY <2>3, ManageSteps
    <3> QED
      BY <3>1 DEF Opens, Manages
  <2> QED
    BY <2>1, <2>2, <2>3
<1>9. Opening(n)' => ~Managing(n)'
  <2>1. Opening(n)' => \E x \in ToSet(steps) : Opens(x)
    BY <1>4, <1>5 DEF Opening, OpenedBy
  <2>2. Managing(n)' => \E x \in ToSet(steps) : Manages(x)
    BY <1>4, <1>7 DEF Managing
  <2> QED
    BY <1>8, <2>1, <2>2
<1>10. TraceAt(n)'
  <2>1. \A u, w \in Threads : OpenedBy(u, n)' /\ OpenedBy(w, n)' => u = w
    BY <1>5
  <2>2. OnceIn(queue["reader"], Event("DATA", n))'
    BY <1>2 DEF TraceAt
  <2> QED
    BY <1>1, <1>7, <1>9, <2>1, <2>2 DEF TraceAt
<1>11. UnsettledAt(n)' /\ UnmadeAt(n)'
  BY <1>1, <1>2 DEF UnsettledAt, UnmadeAt
<1>12. ConnectedAt(n)'
  BY <1>1, <1>2 DEF HeardFades, News, ConnectedAt, Heard
<1> QED
  BY <1>10, <1>11, <1>12 DEF ConnectionInv

LEMMA AskedKeeps ==
    ASSUME TypeOK, Agendas, Forms, Connections, NEW n \in Conns, Connects(n) \/ FinishesConnect(n)
    PROVE  Forms' /\ Connections' /\ Settled' = Settled
<1>1. PICK e \in {"INIT", "CONNECTING"} : TakeEvent(e, n)
  BY DEF Connects, FinishesConnect
<1>2. n \in 1..made
  BY <1>1, TakesEvent DEF Kinds
<1>3. UNCHANGED <<made, queue, managedBy, established>>
  BY DEF Connects, FinishesConnect, owners, threads, history
<1>4. PICK steps \in Seq(Steps) :
         /\ Starts("client", steps)
         /\ \A x \in ToSet(steps) : Formed(x) /\ x.conn = n
         /\ \/ \E x \in Steps : steps = <<x>> /\ Opens(x)
            \/ \A x \in ToSet(steps) : Calm(x)
            \/ steps = Manage(n)
  <2>1. CASE Connects(n)
    BY <2>1, ConnectsGoes
  <2>2. CASE FinishesConnect(n)
    BY <2>2, FinishesGoes
  <2> QED
    BY <2>1, <2>2
<1>5. ConnectionInv(n)'
  BY <1>1, <1>2, <1>3, <1>4, AskedOwn
<1>6. "client" \in Threads
  BY DEF Threads
<1>7. /\ agenda'["client"] = steps /\ Pending("client")' = ToSet(steps)
      /\ \A u \in Threads \ {"client"} : agenda'[u] = agenda[u]
  BY <1>3, <1>4, <1>6, StartsGoes
<1>8. FormAt("client")'
  <2>1. CASE \E x \in Steps : steps = <<x>> /\ Opens(x)
    BY <1>7, <2>1, OneForm
  <2>2. CASE \A x \in ToSet(steps) : Calm(x)
    BY <1>7, <2>2, QuietForm DEF Calm
  <2>3. CASE steps = Manage(n)
    <3>1. n \in 1..MaxConns
      BY <1>2, MadeTyped
    <3>2. \A x \in ToSet(steps) : x.conn = n /\ Manages(x)
      BY <1>2, <2>3, ManageSteps
    <3>3. \A x \in ToSet(steps) : ~Opens(x) /\ ~Decides(x)
      BY <3>2 DEF Opens, Manages, Decides
    <3>4. agenda'["client"] = ManageFrom(n, 1) /\ 1 \in 1..6
      BY <1>7, <2>3, <3>1, ManageFromAll
    <3> QED
      BY <1>7, <3>2, <3>3, <3>4 DEF FormAt
  <2> QED
    BY <1>4, <2>1, <2>2, <2>3
<1>9. Forms'
  <2>1. \A u \in Threads \ {"client"} : FormAt(u)'
    BY <1>7, FormStays DEF Forms
  <2> QED
    BY <1>8, <2>1 DEF Forms
<1>10. ASSUME NEW m \in Conns, m # n
       PROVE  ConnectionInv(m)'
  <2>1. \A x \in ToSet(steps) : x.conn # m
    BY <1>4, <1>10
  <2>2. AgendaFades(m)
    BY <1>3, <1>4, <1>6, <2>1, StartsFades
  <2>3. HeardFades(m) /\ QueueFades(m) /\ ConnectionInv(m)
    BY <1>1, <1>3, AskedTaken, SameQueues DEF Connections
  <2> QED
    BY <1>3, <2>2, <2>3, FadesKept
<1>11. Settled' = Settled
  BY <1>1, <1>3, TakenSettled
<1> QED
  BY <1>5, <1>9, <1>10, <1>11 DEF Connections

(* The reader takes the connection it was given.                           *)
LEMMA ReaderManagesOwn ==
    ASSUME TypeOK, Agendas, Forms, Connections, NEW n \in Conns, ReaderManages(n)
    PROVE  ConnectionInv(n)'
<1>1. UNCHANGED <<made, events, managedBy, established>>
  BY DEF ReaderManages, client, owners, history
<1> DEFINE x == Do("sign", n, "reader")
<1>2. /\ Starts("reader", <<x>>) /\ x \in Steps /\ n \in 1..made /\ Offered(n) /\ Formed(x)
      /\ queue' = [queue EXCEPT !["reader"] = Tail(@)] /\ Head(queue["reader"]) = Event("DATA", n)
      /\ queue["reader"] # <<>>
  BY ReaderManagesGoes
<1>3. x.op = "sign" /\ x.arg = "reader" /\ x.conn = n
  BY DoFields
<1>4. "client" \in Threads /\ "reader" \in Threads /\ "reader" # "client" /\ "reader" \in Pipe
  BY DEF Threads, Pipe
<1> HIDE DEF x
<1>5. <<x>> \in Seq(Steps) /\ ToSet(<<x>>) = {x}
  BY <1>2, OneStep
<1>6. Pending("reader")' = {x} /\ \A u \in Threads \ {"reader"} : Pending(u)' = Pending(u)
  BY <1>1, <1>2, <1>4, <1>5, StartsGoes
<1>7. TraceAt(n) /\ UnsettledAt(n) /\ ConnectedAt(n) /\ UnmadeAt(n)
  BY DEF Connections, ConnectionInv
<1>8. Managing(n) /\ Unsettled(n)
  BY <1>2 DEF Managing, Unsettled
<1>9. ~Offers(n) /\ "reader" \notin managedBy[n]
  BY <1>2, <1>7 DEF TraceAt
<1>10. ~Opens(x)
  BY <1>3 DEF Opens
<1>11. HeardFades(n)
  BY <1>1, SameHeard
<1>12. \A u \in Threads : \A y \in Pending(u)' : y = x \/ y \in Pending(u)
  BY <1>6
<1>13. /\ ~Opening(n)' /\ ~Asked(n)' /\ ~Early(n)' /\ \A u \in Threads : ~OpenedBy(u, n)'
       /\ ~Heard("INIT", n)'
       /\ OnceIn(events, Event("INIT", n))' /\ OnceIn(events, Event("CONNECTING", n))'
  BY <1>7, <1>8, <1>10, <1>11, <1>12, ManagedStays
<1>14. ~Offered(n)' /\ OnceIn(queue["reader"], Event("DATA", n))'
  <2>1. queue["reader"] \in Seq(Items) /\ queue'["reader"] = Tail(queue["reader"])
    BY <1>2, <1>4, QueuesTyped
  <2>2. OnceIn(queue["reader"], Event("DATA", n))
    BY <1>7 DEF TraceAt
  <2>3. PICK d : d = Event("DATA", n)
    OBVIOUS
  <2>4. OnceIn(queue["reader"], d) /\ Head(queue["reader"]) = d
    BY <1>2, <2>2, <2>3
  <2>5. OnceIn(Tail(queue["reader"]), d) /\ d \notin ToSet(Tail(queue["reader"]))
    BY <1>2, <2>1, <2>4, TailOrder
  <2>6. OnceIn(queue'["reader"], d) /\ d \notin ToSet(queue'["reader"])
    BY <2>1, <2>5
  <2> QED
    BY <2>3, <2>6 DEF Offered, Event
<1>15. TraceAt(n)'
  <2>1. Pending("client")' = Pending("client")
    BY <1>4, <1>6
  <2>2. ~Offers(n)' /\ \A q \in Pipe : Signs("client", n, q)' => q \notin managedBy'[n]
    BY <1>1, <1>7, <1>9, <2>1 DEF Offers, Signs, TraceAt
  <2>3. "reader" \notin managedBy'[n]
    BY <1>1, <1>9
  <2> QED
    BY <1>13, <1>14, <2>2, <2>3 DEF TraceAt
<1>16. UnsettledAt(n)' /\ UnmadeAt(n)'
  BY <1>1, <1>7, <1>8 DEF UnsettledAt, UnmadeAt
<1>17. ConnectedAt(n)'
  BY <1>1, <1>7 DEF ConnectedAt, Heard, Event
<1> QED
  BY <1>15, <1>16, <1>17 DEF ConnectionInv

LEMMA ReaderManagesKeeps ==
    ASSUME TypeOK, Agendas, Forms, Connections, NEW n \in Conns, ReaderManages(n)
    PROVE  Forms' /\ Connections' /\ Settled' = Settled
<1>1. UNCHANGED <<made, events, managedBy, established>>
  BY DEF ReaderManages, client, owners, history
<1> DEFINE x == Do("sign", n, "reader")
<1>2. /\ Starts("reader", <<x>>) /\ x \in Steps /\ Formed(x)
      /\ queue' = [queue EXCEPT !["reader"] = Tail(@)] /\ queue["reader"] # <<>>
  BY ReaderManagesGoes
<1>3. x.op = "sign" /\ x.conn = n /\ x = Do("sign", x.conn, "reader")
  BY DoFields
<1>4. "reader" \in Threads /\ "reader" \in Pipe
  BY DEF Threads, Pipe
<1> HIDE DEF x
<1>5. <<x>> \in Seq(Steps) /\ ToSet(<<x>>) = {x}
  BY <1>2, OneStep
<1>6. /\ agenda'["reader"] = <<x>>
      /\ \A u \in Threads \ {"reader"} : agenda'[u] = agenda[u]
  BY <1>1, <1>2, <1>4, <1>5, StartsGoes
<1>7. Forms'
  <2>1. FormAt("reader")'
    BY <1>3, <1>6, OneForm
  <2>2. \A u \in Threads \ {"reader"} : FormAt(u)'
    BY <1>6, FormStays DEF Forms
  <2> QED
    BY <2>1, <2>2 DEF Forms
<1>8. ASSUME NEW m \in Conns, m # n
      PROVE  ConnectionInv(m)'
  <2>1. \A y \in ToSet(<<x>>) : Formed(y) /\ y.conn # m
    BY <1>2, <1>3, <1>5, <1>8
  <2>2. AgendaFades(m)
    BY <1>1, <1>2, <1>4, <1>5, <2>1, StartsFades
  <2>3. HeardFades(m) /\ QueueFades(m) /\ ConnectionInv(m)
    BY <1>1, <1>2, <1>4, SameHeard, TailQueues DEF Connections
  <2> QED
    BY <1>1, <2>2, <2>3, FadesKept
<1>9. Settled' = Settled
  BY <1>1, SameSettled
<1> QED
  BY <1>7, <1>8, <1>9, ReaderManagesOwn DEF Connections

(* The client takes note that a connection was established, once.          *)
LEMMA EstablishesKeeps ==
    ASSUME TypeOK, Agendas, Forms, Connections, NEW n \in Conns, Establishes(n)
    PROVE  /\ Forms' /\ Connections' /\ made' = made /\ established' = established
           /\ n \notin Settled /\ Settled' = Settled \cup {n}
<1>1. TakeEvent("CONNECTED", n) /\ "CONNECTED" \in Kinds
  BY DEF Establishes, Kinds
<1>2. /\ events # <<>> /\ Heard("CONNECTED", n) /\ events' = Tail(events)
      /\ Head(events) = Event("CONNECTED", n) /\ events \in Seq(Events)
  BY <1>1, TakesEvent, QueuesTyped
<1>3. UNCHANGED <<made, agenda, queue, managedBy, established>>
  BY DEF Establishes, owners, threads, history
<1>4. n \in established /\ OnceIn(events, Event("CONNECTED", n))
  BY <1>2 DEF Connections, ConnectionInv, ConnectedAt
<1>5. Forms'
  BY <1>3, FormStays DEF Forms
<1>6. ASSUME NEW m \in Conns
      PROVE  ConnectionInv(m)'
  <2>1. AgendaFades(m)
    BY <1>3, RestsFades
  <2>2. HeardFades(m) /\ QueueFades(m) /\ ConnectionInv(m)
    BY <1>2, <1>3, TailHeard, SameQueues DEF Connections
  <2> QED
    BY <1>3, <2>1, <2>2, FadesKept
<1>7. ~Heard("CONNECTED", n)'
  BY <1>2, <1>4, TailOrder DEF Heard
<1>8. \A m : m # n => (Heard("CONNECTED", m)' <=> Heard("CONNECTED", m))
  <2>1. ToSet(events) = {Event("CONNECTED", n)} \cup ToSet(events')
    BY <1>2, HeadTailElements
  <2>2. \A m : m # n => Event("CONNECTED", m) # Event("CONNECTED", n)
    BY DEF Event
  <2> QED
    BY <2>1, <2>2 DEF Heard
<1>9. n \notin Settled /\ Settled' = Settled \cup {n}
  BY <1>2, <1>3, <1>4, <1>7, <1>8 DEF Settled
<1> QED
  BY <1>3, <1>5, <1>6, <1>9 DEF Connections

(* The client loses its connection, and is to decide what to do.           *)
LEMMA LosesKeeps ==
    ASSUME TypeOK, Agendas, Forms, Connections, NEW n \in Conns, Loses(n)
    PROVE  Forms' /\ Connections' /\ Settled' = Settled
<1>1. TakeEvent("CLOSE", n) /\ "CLOSE" \in Kinds
  BY DEF Loses, Kinds
<1>2. events # <<>> /\ events' = Tail(events)
  BY <1>1, TakesEvent
<1>3. UNCHANGED <<made, queue, managedBy, established>>
  BY DEF Loses, owners, threads, history
<1>4. PICK y \in Steps, d \in Steps :
         /\ Starts("client", <<y, d>>) /\ <<y, d>> \in Seq(Steps) /\ ToSet(<<y, d>>) = {y, d}
         /\ Formed(y) /\ y.op \in {"release", "free"} /\ y.conn = n
         /\ Formed(d) /\ Decides(d)
  BY LosesGoes
<1>5. /\ ~Opens(y) /\ ~Manages(y) /\ ~Decides(y)
      /\ ~Opens(d) /\ ~Manages(d)
  BY <1>4 DEF Opens, Manages, Decides
<1>6. "client" \in Threads
  BY DEF Threads
<1>7. PICK steps \in Seq(Steps) : steps = <<y, d>>
  BY <1>4
<1>8. Starts("client", steps) /\ ToSet(steps) = {y, d} /\ \A x \in ToSet(steps) : Formed(x)
  BY <1>4, <1>7
<1>9. /\ agenda'["client"] = steps /\ Pending("client")' = {y, d}
      /\ \A u \in Threads \ {"client"} : agenda'[u] = agenda[u]
  BY <1>3, <1>6, <1>8, StartsGoes
<1>10. Forms'
  <2>1. FormAt("client")'
    BY <1>4, <1>5, <1>7, <1>9 DEF FormAt
  <2>2. \A u \in Threads \ {"client"} : FormAt(u)'
    BY <1>9, FormStays DEF Forms
  <2> QED
    BY <2>1, <2>2 DEF Forms
<1>11. ASSUME NEW m \in Conns
       PROVE  ConnectionInv(m)'
  <2>1. AgendaFades(m)
    BY <1>3, <1>5, <1>6, <1>8, StartsFades
  <2>2. HeardFades(m) /\ QueueFades(m) /\ ConnectionInv(m)
    BY <1>2, <1>3, TailHeard, SameQueues DEF Connections
  <2> QED
    BY <1>3, <2>1, <2>2, FadesKept
<1>12. Settled' = Settled
  BY <1>1, <1>3, TakenSettled
<1> QED
  BY <1>10, <1>11, <1>12 DEF Connections

(* Nothing is known of a connection that is not made yet.                  *)
LEMMA UnmadeUnheard ==
    ASSUME TypeOK, Agendas, NEW n \in Nat, n > made
    PROVE  /\ \A e \in Kinds : ~Heard(e, n)
           /\ \A q \in Pipe, e \in {"DATA", "CLOSE", "OUTBOUND", "EXIT"} : Event(e, n) \notin ToSet(queue[q])
           /\ \A t \in Threads : \A x \in Pending(t) : x.conn # n
           /\ n \notin established
<1>1. made \in Nat /\ n \notin 0..made /\ n \notin 1..made
  BY MadeTyped
<1>2. ASSUME NEW e \in Kinds
      PROVE  ~Heard(e, n)
  <2>1. \A i \in DOMAIN events : events[i] \in Events
    BY QueuesTyped
  <2>2. \A x \in Events : x # Event(e, n)
    BY <1>1 DEF Events, Event
  <2> QED
    BY <2>1, <2>2 DEF Heard, ToSet
<1>3. ASSUME NEW q \in Pipe, NEW e \in {"DATA", "CLOSE", "OUTBOUND", "EXIT"}
      PROVE  Event(e, n) \notin ToSet(queue[q])
  <2>1. queue[q] \in Seq(Items)
    BY QueuesTyped
  <2>2. \A i \in DOMAIN queue[q] : queue[q][i] \in Items
    BY <2>1
  <2>3. \A x \in Items : x # Event(e, n)
    BY <1>1 DEF Items, Event
  <2> QED
    BY <2>2, <2>3 DEF ToSet
<1>4. \A t \in Threads : \A x \in Pending(t) : x.conn # n
  <2>1. SUFFICES ASSUME NEW t \in Threads, NEW x \in Pending(t)
                 PROVE  x.conn # n
    OBVIOUS
  <2>2. Formed(x)
    BY DEF Agendas
  <2> QED
    BY <1>1, <2>2 DEF Formed
<1> QED
  BY <1>1, <1>2, <1>3, <1>4 DEF TypeOK

(* What the client has to do when it makes the next connection.            *)
LEMMA TriesAgendas ==
    ASSUME TypeOK, Agendas, Forms, NEW t \in Threads, TriesAgain(t)
    PROVE  /\ t = "client" /\ Forms'
           /\ \A u \in Threads \ {"client"} : agenda'[u] = agenda[u] /\ Pending(u)' = Pending(u)
           /\ \A x \in Pending("client")' : x.conn = made + 1 /\ ~Manages(x) /\ ~Decides(x)
           /\ \A m : m # made + 1 => AgendaFades(m)
<1>1. /\ agenda[t] # <<>> /\ Decides(Due(t)) /\ Due(t) \in Pending(t)
      /\ \A u \in Threads \ {t} : agenda'[u] = agenda[u]
  BY TriesGoes
<1>2. PICK steps \in Seq(Steps) :
         /\ Goes(t, ToSet(steps)) /\ agenda'[t] = steps \o Tail(agenda[t])
         /\ \/ \E x \in Steps : steps = <<x>> /\ Opens(x) /\ x.arg = "INITIALIZED" /\ x.conn = made + 1
            \/ \A x \in ToSet(steps) : Calm(x) /\ x.conn = made + 1
  BY TriesGoes
<1>3. PICK d : d = Due(t)
  OBVIOUS
<1>4. t = "client" /\ (agenda[t] = <<d>> \/ \E y \in Steps : y.op \in {"release", "free"} /\ agenda[t] = <<y, d>>)
  BY <1>1, <1>3 DEF Forms, FormAt
<1>5. agenda[t] = <<d>>
  <2>1. SUFFICES ASSUME NEW y \in Steps, y.op \in {"release", "free"}, agenda[t] = <<y, d>>
                 PROVE  FALSE
    BY <1>4
  <2>2. d = y
    BY <1>3, <2>1 DEF Due
  <2> QED
    BY <1>1, <1>3, <2>1, <2>2 DEF Decides
<1>6. Tail(agenda[t]) = <<>> /\ Rest(t) = {}
  BY <1>5 DEF Rest, ToSet
<1>7. agenda'[t] = steps /\ Pending(t)' = ToSet(steps)
  <2>1. steps \o <<>> = steps
    BY ConcatEmptySeq
  <2>2. agenda'[t] = steps
    BY <1>2, <1>6, <2>1
  <2> QED
    BY <1>2, <1>6, <2>2 DEF Goes
<1>8. \A x \in ToSet(steps) : x.conn = made + 1 /\ ~Manages(x) /\ ~Decides(x)
  <2>1. CASE \E x \in Steps : steps = <<x>> /\ Opens(x) /\ x.arg = "INITIALIZED" /\ x.conn = made + 1
    BY <2>1, ShortElements DEF Opens, Manages, Decides
  <2>2. CASE \A x \in ToSet(steps) : Calm(x) /\ x.conn = made + 1
    BY <2>2 DEF Calm
  <2> QED
    BY <1>2, <2>1, <2>2
<1>9. FormAt("client")'
  <2>1. CASE \E x \in Steps : steps = <<x>> /\ Opens(x) /\ x.arg = "INITIALIZED" /\ x.conn = made + 1
    <3>1. PICK x \in Steps : steps = <<x>> /\ Opens(x)
      BY <2>1
    <3> QED
      BY <1>4, <1>7, <3>1, OneForm
  <2>2. CASE \A x \in ToSet(steps) : Calm(x) /\ x.conn = made + 1
    <3>1. \A x \in ToSet(steps) : ~Opens(x)
      BY <2>2 DEF Calm
    <3> QED
      BY <1>4, <1>7, <1>8, <3>1, QuietForm
  <2> QED
    BY <1>2, <2>1, <2>2
<1>10. Forms'
  <2>1. \A u \in Threads \ {"client"} : FormAt(u)'
    BY <1>1, <1>4, FormStays DEF Forms
  <2> QED
    BY <1>9, <2>1 DEF Forms
<1>11. ASSUME NEW m, m # made + 1
       PROVE  AgendaFades(m)
  <2>1. \A x \in ToSet(steps) : x.conn # m
    BY <1>8, <1>11
  <2> QED
    BY <1>1, <1>2, <2>1, GoesFades
<1>12. \A u \in Threads \ {"client"} : agenda'[u] = agenda[u] /\ Pending(u)' = Pending(u)
  BY <1>1, <1>2, <1>4 DEF Goes
<1> QED
  BY <1>4, <1>7, <1>8, <1>10, <1>11, <1>12

LEMMA TriesOther ==
    ASSUME TypeOK, Agendas, Forms, Connections, NEW t \in Threads, TriesAgain(t),
           NEW m \in Conns, m # made + 1
    PROVE  ConnectionInv(m)'
<1>1. /\ made' = made + 1 /\ made \in Nat /\ m \in Nat
      /\ UNCHANGED <<events, queue, managedBy, established>>
  BY MadeTyped DEF TriesAgain, owners, threads, history, Conns
<1>2. AgendaFades(m) /\ HeardFades(m) /\ QueueFades(m)
  BY <1>1, TriesAgendas, SameHeard, SameQueues
<1>3. TraceAt(m) /\ UnsettledAt(m) /\ ConnectedAt(m) /\ UnmadeAt(m)
  BY DEF Connections, ConnectionInv
<1>4. TraceAt(m)' /\ (Unsettled(m)' => Unsettled(m))
  BY <1>1, <1>2, <1>3, TraceKept
<1>5. UnsettledAt(m)'
  BY <1>1, <1>3, <1>4 DEF UnsettledAt
<1>6. ConnectedAt(m)'
  BY <1>1, <1>3 DEF ConnectedAt, Heard, Event
<1>7. UnmadeAt(m)'
  <2>1. m > made' => m > made
    BY <1>1
  <2> QED
    BY <1>1, <1>3, <2>1 DEF UnmadeAt
<1> QED
  BY <1>4, <1>5, <1>6, <1>7 DEF ConnectionInv

LEMMA TriesOwn ==
    ASSUME TypeOK, Agendas, Forms, Connections, NEW t \in Threads, TriesAgain(t),
           NEW n \in Conns, n = made + 1
    PROVE  ConnectionInv(n)'
<1>1. made' = n /\ UNCHANGED <<events, queue, managedBy, established>>
  BY DEF TriesAgain, owners, threads, history
<1>2. /\ \A u \in Threads \ {"client"} : Pending(u)' = Pending(u)
      /\ \A x \in Pending("client")' : x.conn = n /\ ~Manages(x)
  BY TriesAgendas
<1>3. made \in Nat /\ n \in Nat /\ n > made
  BY MadeTyped DEF Conns
<1>4. /\ \A e \in Kinds : ~Heard(e, n)
      /\ \A q \in Pipe, e \in {"DATA", "CLOSE", "OUTBOUND", "EXIT"} : Event(e, n) \notin ToSet(queue[q])
      /\ \A u \in Threads : \A x \in Pending(u) : x.conn # n
      /\ n \notin established
  BY <1>3, UnmadeUnheard
<1>5. TraceAt(n) /\ ConnectedAt(n) /\ managedBy[n] = {}
  BY <1>3 DEF Connections, ConnectionInv, UnmadeAt
<1>6. \A e \in Kinds : ~Heard(e, n)'
  BY <1>1, <1>4 DEF Heard, Event
<1>7. "reader" \in Pipe /\ {"reader", "client"} \subseteq Threads
      /\ "reader" # "client" /\ {"INIT", "CONNECTING", "CONNECTED"} \subseteq Kinds
  BY DEF Pipe, Threads, Kinds
<1>8. ~Asked(n)' /\ ~Heard("INIT", n)' /\ ~Heard("CONNECTED", n)'
  BY <1>6, <1>7 DEF Asked
<1>9. ~Offered(n)'
  BY <1>1, <1>4, <1>7 DEF Offered, Event
<1>10. \A u \in Threads \ {"client"} : \A x \in Pending(u)' : x.conn # n
  BY <1>2, <1>4
<1>11. ~Signs("reader", n, "reader")' /\ ~Offers(n)' /\ \A q \in Pipe : ~Signs("client", n, q)'
  <2>1. ~Signs("reader", n, "reader")'
    BY <1>7, <1>10, DoFields DEF Signs
  <2>2. Do("offer", n, "nothing") \notin Pending("client")'
    BY <1>2, DoFields DEF Manages
  <2>3. \A q \in Pipe : Do("sign", n, q) \notin Pending("client")'
    BY <1>2, DoFields DEF Manages
  <2> QED
    BY <2>1, <2>2, <2>3 DEF Offers, Signs, Do
<1>12. ~Managing(n)'
  BY <1>2, <1>9, <1>11 DEF Managing
<1>13. TraceAt(n)'
  <2>1. \A u \in Threads : OpenedBy(u, n)' => u = "client"
    BY <1>10 DEF OpenedBy
  <2>2. /\ OnceIn(events, Event("INIT", n))' /\ OnceIn(events, Event("CONNECTING", n))'
        /\ OnceIn(queue["reader"], Event("DATA", n))'
    BY <1>1, <1>5 DEF TraceAt, OnceIn, Event
  <2> QED
    BY <1>1, <1>5, <1>8, <1>9, <1>11, <1>12, <2>1, <2>2 DEF TraceAt
<1>14. UnsettledAt(n)'
  BY <1>1, <1>4 DEF UnsettledAt
<1>15. ConnectedAt(n)'
  BY <1>1, <1>5, <1>8 DEF ConnectedAt, Event
<1>16. UnmadeAt(n)'
  BY <1>1, <1>5 DEF UnmadeAt
<1> QED
  BY <1>13, <1>14, <1>15, <1>16 DEF ConnectionInv

LEMMA TriesKeeps ==
    ASSUME TypeOK, Agendas, Forms, Connections, NEW t \in Threads, TriesAgain(t)
    PROVE  Forms' /\ Connections' /\ Settled' = Settled
<1>1. Forms' /\ Connections'
  BY TriesAgendas, TriesOther, TriesOwn DEF Connections
<1>2. UNCHANGED <<events, established>>
  BY DEF TriesAgain, history
<1> QED
  BY <1>1, <1>2, SameSettled

-----------------------------------------------------------------------------
(* 9. How many connections are made.                                        *)

(* The client has its retries anew for every connection it was told was    *)
(* established.                                                            *)
Counted == made - 1 <= retryCount + Retries * Cardinality(Settled)

LEMMA SettledFinite ==
    ASSUME TypeOK
    PROVE  /\ IsFiniteSet(Settled) /\ IsFiniteSet(established)
           /\ Cardinality(Settled) \in Nat /\ Cardinality(established) \in Nat
           /\ Cardinality(Settled) <= Cardinality(established)
<1>1. IsFiniteSet(1..made)
  BY MadeTyped, FS_Interval
<1>2. established \in SUBSET (1..made) /\ Settled \in SUBSET established
  BY DEF TypeOK, Settled
<1>3. IsFiniteSet(established)
  BY <1>1, <1>2, FS_Subset
<1>4. IsFiniteSet(Settled) /\ Cardinality(Settled) <= Cardinality(established)
  BY <1>2, <1>3, FS_Subset
<1> QED
  BY <1>3, <1>4, FS_CardinalityType

LEMMA TimesOneMore ==
    ASSUME NEW r \in Nat, NEW c \in Nat, NEW d \in Nat
    PROVE  /\ r * c \in Nat /\ r * (c + 1) = r * c + r
           /\ c <= d => r * c <= r * d
  OBVIOUS

LEMMA CountTyped ==
    ASSUME TypeOK
    PROVE  retryCount \in Nat /\ retryCount <= Retries /\ made \in Nat /\ Retries \in Nat
<1>1. retryCount \in 0..Retries
  BY DEF TypeOK
<1> QED
  BY <1>1, MadeTyped

LEMMA CountedStays ==
    ASSUME Counted, UNCHANGED <<made, retryCount>>, Settled' = Settled
    PROVE  Counted'
  BY DEF Counted

LEMMA EstablishesCounted ==
    ASSUME TypeOK, Counted, NEW n, n \notin Settled, Settled' = Settled \cup {n}, made' = made, retryCount' = 0
    PROVE  Counted'
<1>1. PICK c \in Nat : c = Cardinality(Settled)
  BY SettledFinite
<1>2. Cardinality(Settled') = c + 1
  BY <1>1, SettledFinite, FS_AddElement
<1>3. PICK p \in Nat : p = Retries * c
  BY CountTyped, TimesOneMore
<1>4. Retries * (c + 1) = p + Retries
  BY <1>3, CountTyped, TimesOneMore
<1>5. made - 1 <= retryCount + p
  BY <1>1, <1>3 DEF Counted
<1>6. made - 1 <= 0 + (p + Retries)
  BY <1>5, CountTyped
<1> QED
  BY <1>2, <1>4, <1>6 DEF Counted

LEMMA TriesCounted ==
    ASSUME TypeOK, Counted, NEW t \in Threads, TriesAgain(t)
    PROVE  Counted'
<1>1. made' = made + 1 /\ retryCount' = retryCount + 1 /\ UNCHANGED <<events, established>>
  BY DEF TriesAgain, history
<1>2. Settled' = Settled
  BY <1>1, SameSettled
<1>3. PICK c \in Nat : c = Cardinality(Settled)
  BY SettledFinite
<1>4. PICK p \in Nat : p = Retries * c
  BY CountTyped, TimesOneMore
<1>5. made - 1 <= retryCount + p
  BY <1>3, <1>4 DEF Counted
<1>6. (made + 1) - 1 <= (retryCount + 1) + p
  BY <1>5, CountTyped
<1> QED
  BY <1>1, <1>2, <1>3, <1>4, <1>6 DEF Counted

(* Which is at most once for each that was established.                    *)
LEMMA CountedEnough ==
    ASSUME TypeOK, Counted
    PROVE  RetriesCounted
<1>1. PICK c \in Nat, d \in Nat : c = Cardinality(Settled) /\ d = Cardinality(established) /\ c <= d
  BY SettledFinite
<1>2. PICK p \in Nat, q \in Nat : p = Retries * c /\ q = Retries * d /\ p <= q
  BY <1>1, CountTyped, TimesOneMore
<1>3. made - 1 <= retryCount + p
  BY <1>1, <1>2 DEF Counted
<1>4. made - 1 <= retryCount + q
  BY <1>2, <1>3, CountTyped
<1> QED
  BY <1>1, <1>2, <1>4 DEF RetriesCounted

LEMMA StillKeeps ==
    ASSUME Forms, Connections, UNCHANGED <<made, events, managedBy, queue, agenda, established>>
    PROVE  Forms' /\ Connections' /\ Settled' = Settled
<1>1. Forms'
  BY FormStays DEF Forms
<1>2. ASSUME NEW m \in Conns
      PROVE  ConnectionInv(m)'
  <2>1. AgendaFades(m) /\ HeardFades(m) /\ QueueFades(m) /\ ConnectionInv(m)
    BY RestsFades, SameHeard, SameQueues DEF Connections
  <2> QED
    BY <2>1, FadesKept
<1>3. Settled' = Settled
  BY SameSettled
<1> QED
  BY <1>1, <1>2, <1>3 DEF Connections

(* What the steps on agendas leave alone.                                  *)
LEMMA PerformCounts ==
    ASSUME NEW t \in Threads, Perform(t), ~TriesAgain(t)
    PROVE  UNCHANGED <<made, retryCount>>
  BY DEF Perform, KeepState, ChangeState, FireNext, FireLast, ManagedBy, NoMoreUsed, FreeConnection, Blame,
     Offer, AddHandler, GivesUp, EnqueueExit, Join, UseFreed, client

LEMMA PerformKeeps ==
    ASSUME TypeOK, Agendas, Forms, Connections, Counted, NEW t \in Threads, Perform(t)
    PROVE  Forms' /\ Connections' /\ Counted'
<1>1. CASE TriesAgain(t)
  BY <1>1, TriesKeeps, TriesCounted
<1>2. CASE ~TriesAgain(t)
  <2>1. Forms' /\ Connections' /\ Settled' = Settled
    <3>1. CASE ChangeState(t)
      BY <3>1, OpensKeeps, ClosesStateKeeps
    <3>2. CASE FireNext(t)
      BY <3>2, FiresKeeps
    <3>3. CASE ManagedBy(t)
      BY <3>3, SignsKeeps
    <3>4. CASE Offer(t)
      BY <3>4, OfferKeeps
    <3>5. CASE AddHandler(t)
      BY <3>5, HookKeeps
    <3>6. CASE Passes(t)
      BY <3>6, PassesKeeps, PassesSettled
    <3>7. CASE UseFreed(t)
      <4>1. UNCHANGED <<client, owners, threads, agenda, history>>
        BY <3>7 DEF UseFreed
      <4> QED
        BY <4>1, StillKeeps DEF client, owners, threads, history
    <3> QED
      BY <1>2, <3>1, <3>2, <3>3, <3>4, <3>5, <3>6, <3>7 DEF Perform, Passes
  <2>2. UNCHANGED <<made, retryCount>>
    BY <1>2, PerformCounts
  <2> QED
    BY <2>1, <2>2, CountedStays
<1> QED
  BY <1>1, <1>2

LEMMA ClientKeeps ==
    ASSUME TypeOK, Agendas, Forms, Connections, Counted, ClientStep
    PROVE  Forms' /\ Connections' /\ Counted'
<1>1. PICK n \in Conns : Connects(n) \/ FinishesConnect(n) \/ Establishes(n) \/ Loses(n) \/ Leaves(n)
  BY DEF ClientStep
<1>2. CASE Establishes(n)
  <2>1. /\ Forms' /\ Connections' /\ made' = made
        /\ n \notin Settled /\ Settled' = Settled \cup {n}
    BY <1>2, EstablishesKeeps
  <2>2. retryCount' = 0
    BY <1>2 DEF Establishes
  <2> QED
    BY <2>1, <2>2, EstablishesCounted
<1>3. CASE Connects(n) \/ FinishesConnect(n) \/ Loses(n) \/ Leaves(n)
  <2>1. UNCHANGED <<made, retryCount>>
    BY <1>3 DEF Connects, FinishesConnect, Loses, Leaves
  <2>2. Forms' /\ Connections' /\ Settled' = Settled
    BY <1>3, AskedKeeps, LosesKeeps, LeavesKeeps
  <2> QED
    BY <2>1, <2>2, CountedStays
<1> QED
  BY <1>1, <1>2, <1>3

LEMMA PipeKeeps ==
    ASSUME TypeOK, Agendas, Fresh, Forms, Connections, Counted,
           NEW q \in Pipe, NEW n \in Conns,
           \/ Exits(q) \/ Closes(q, n) \/ Reads(n) \/ UserCloses(n)
           \/ q = "reader" /\ ReaderManages(n)
           \/ q = "writer" /\ Writes(n)
    PROVE  Forms' /\ Connections' /\ Counted'
<1>1. UNCHANGED <<made, retryCount>>
  BY DEF Exits, Closes, Reads, UserCloses, ReaderManages, Writes, client
<1>2. Forms' /\ Connections' /\ Settled' = Settled
  BY PipeQuietKeeps, ReaderManagesKeeps
<1> QED
  BY <1>1, <1>2, CountedStays

LEMMA NextKeeps ==
    ASSUME TypeOK, Agendas, Fresh, Forms, Connections, Counted, [Next]_vars
    PROVE  Forms' /\ Connections' /\ Counted'
<1>1. CASE UNCHANGED vars
  <2>1. UNCHANGED <<client, owners, threads, agenda, history>>
    BY <1>1 DEF vars
  <2>2. Forms' /\ Connections' /\ Settled' = Settled
    BY <2>1, StillKeeps DEF client, owners, threads, history
  <2> QED
    BY <2>1, <2>2, CountedStays DEF client
<1>2. ASSUME NEW t \in Threads, Perform(t)
      PROVE  Forms' /\ Connections' /\ Counted'
  BY <1>2, PerformKeeps
<1>3. CASE ClientStep
  BY <1>3, ClientKeeps
<1>4. ASSUME NEW q \in Pipe, PipeStep(q)
      PROVE  Forms' /\ Connections' /\ Counted'
  <2>1. PICK n \in Conns : \/ Exits(q) \/ Closes(q, n)
                           \/ q = "reader" /\ ReaderManages(n)
                           \/ q = "writer" /\ Writes(n)
    BY <1>4, MadeTyped DEF PipeStep, TypeOK
  <2> QED
    BY <2>1, PipeKeeps
<1>5. ASSUME NEW n \in Conns, Reads(n) \/ UserCloses(n)
      PROVE  Forms' /\ Connections' /\ Counted'
  BY <1>5, PipeKeeps DEF Pipe
<1> QED
  BY <1>1, <1>2, <1>3, <1>4, <1>5 DEF Next

LEMMA InitKeeps ==
    ASSUME Init
    PROVE  Forms /\ Connections /\ Counted
<1>1. PICK e \in {"INIT", "CLOSE"} : events = <<Event(e, 1)>>
  BY DEF Init
<1>2. /\ made = 1 /\ retryCount = 0 /\ established = {}
      /\ \A n \in Conns : managedBy[n] = {}
  BY DEF Init
<1>3. /\ \A t \in Threads : Pending(t) = {}
      /\ \A q \in Pipe : queue[q] = <<>> /\ ToSet(queue[q]) = {}
  BY ShortElements DEF Init, Pending
<1>4. "client" \in Threads /\ "reader" \in Threads /\ "reader" \in Pipe
  BY DEF Threads, Pipe
<1>5. Forms
  BY <1>3 DEF Forms, FormAt
<1>6. ASSUME NEW n \in Conns
      PROVE  ConnectionInv(n)
  <2>1. ToSet(events) = {Event(e, 1)} /\ DOMAIN events = {1}
    BY <1>1, ShortElements
  <2>2. /\ \A x : OnceIn(events, x)
        /\ \A d : Heard(d, n) <=> (d = e /\ n = 1)
    BY <2>1 DEF OnceIn, Heard, Event
  <2>3. \A t \in Threads : ~OpenedBy(t, n)
    BY <1>3 DEF OpenedBy
  <2>4. ~Managing(n) /\ ~Offers(n) /\ ~Offered(n) /\ ~Signs("reader", n, "reader")
        /\ \A q \in Pipe : ~Signs("client", n, q)
    BY <1>3, <1>4 DEF Managing, Offers, Offered, Signs
  <2>5. TraceAt(n)
    <3>1. OnceIn(queue["reader"], Event("DATA", n))
      BY <1>3, <1>4 DEF OnceIn
    <3>2. Heard("INIT", n) => ~Heard("CONNECTING", n)
      BY <2>2
    <3> QED
      BY <1>2, <2>2, <2>3, <2>4, <3>1, <3>2 DEF TraceAt, Opening
  <2>6. UnsettledAt(n) /\ UnmadeAt(n)
    BY <1>2 DEF UnsettledAt, UnmadeAt
  <2>7. ConnectedAt(n)
    BY <2>2 DEF ConnectedAt
  <2> QED
    BY <2>5, <2>6, <2>7 DEF ConnectionInv
<1>7. Counted
  <2>1. Settled = {} /\ Cardinality(Settled) = 0
    BY <1>2, FS_EmptySet DEF Settled
  <2>2. Retries * 0 = 0
    BY ClientAssumption
  <2> QED
    BY <1>2, <2>1, <2>2 DEF Counted
<1> QED
  BY <1>5, <1>6, <1>7 DEF Connections

(* The invariant: one trace of a connection that is being opened, whatever *)
(* closes it meanwhile, and so one CONNECTED for each.                     *)
ClientInv == TypeOK /\ Agendas /\ Fresh /\ Forms /\ Connections /\ Counted

LEMMA ClientInvariant == Spec => []ClientInv
<1>1. Init => ClientInv
  BY InitTyped, InitKeeps DEF ClientInv
<1>2. ClientInv /\ [Next]_vars => ClientInv'
  BY NextTyped, NextKeeps DEF ClientInv
<1> QED
  BY <1>1, <1>2, PTL DEF Spec

(* Whatever the peers and the user do, and in whatever order the threads   *)
(* of the pipe and the client come to know of it, the client makes no more *)
(* connections than its retries allow, counted anew once for every         *)
(* connection that was CONNECTED (_clientRun resets the count).            *)
THEOREM ClientRetriesCounted == Spec => []RetriesCounted
<1>1. ClientInv => RetriesCounted
  BY CountedEnough DEF ClientInv
<1> QED
  BY <1>1, ClientInvariant, PTL
=============================================================================
