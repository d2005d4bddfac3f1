---------------------------- MODULE ServerProofs ----------------------------
(***************************************************************************)
(* What module Server promises, proved for any connections, any reactions  *)
(* of the user's handler and any size of the wake-up pipe.                 *)
(*                                                                         *)
(* The agendas are sequences, but the arguments are about sets: what a     *)
(* thread has pending, and which steps may come before which in its        *)
(* agenda.  Section 1 reduces the sequences to that, section 2 says what   *)
(* each action does to what is pending, and each section that follows      *)
(* proves one property from an inductive invariant of its own.             *)
(***************************************************************************)
EXTENDS Server, SequenceLemmas, FiniteSetTheorems

(* What thread t has still to do, and what it has to do after the step it  *)
(* is at.                                                                  *)
Pending(t) == ToSet(agenda[t])
Rest(t) == ToSet(Tail(agenda[t]))

(* Thread t puts EXIT in the queue of thread q, and then joins it.         *)
Ends(t, q) == <<t, q>> \in {<<"acceptor", "reader">>, <<"reader", "worker">>, <<"worker", "writer">>}

(* The steps that each thread may come to have on its agenda.              *)
AcceptorFormed(x) ==
    \/ x.op = "offer" /\ x.conn \in Conns /\ x.arg = "reader"
    \/ x.op = "hook" /\ x.conn \in Conns /\ x.arg \in Pipe \cup {"pending", "inbound", "outbound"}
    \/ x.op = "manage" /\ x.conn \in Conns /\ x.arg \in {"worker", "writer"}
    \/ x.op = "drain" /\ x.conn = NoConn
    \/ x.op = "disown" /\ x.conn \in Conns

Formed(t, x) ==
    \/ t = "acceptor" /\ AcceptorFormed(x)
    \/ t = "reader" /\ x.op = "manage" /\ x.conn \in Conns /\ x.arg = "reader"
    \/ t = "reader" /\ x.op \in {"read", "inbound", "task"} /\ x.conn \in Conns
    \/ t = "reader" /\ x.op = "load" /\ x.conn \in Conns /\ x.arg = "nothing"
    \/ t = "worker" /\ x.op = "write" /\ x.conn \in Conns
    \/ t = "writer" /\ x.op = "send" /\ x.conn \in Conns
    \/ t \in {"worker", "writer"} /\ x.op = "outbound" /\ x.conn \in Conns
    \/ t \in {"worker", "writer"} /\ x.op = "purge" /\ x.conn \in Conns /\ x.arg = t
    \/ x.op \in {"exit", "join"} /\ x.conn = NoConn /\ Ends(t, x.arg)
    \/ /\ x.op \in {"state", "lock"} /\ x.conn \in Conns
       /\ x.arg \in {"CONNECTED", "PENDING_CLOSE", "CLOSED"}
    \/ x.op \in {"fire", "unlock"} /\ x.conn \in Conns
    \/ x.op = "tell" /\ x.conn \in Conns /\ x.arg \in Pipe \cup {"pending"}
    \/ x.op = "forget" /\ x.conn \in Conns /\ x.arg = "acceptor"
    \/ x.op \in {"unhook", "release"} /\ x.conn \in Conns /\ x.arg \in Threads
    \/ x.op = "wake" /\ x.conn = NoConn /\ x.arg = "reader"

(* Step x may come before step y in an agenda.  A close is announced under *)
(* the lock, a callback and then the removal of its handler at a time.     *)
MayPrecede(x, y) ==
    /\ y.op \notin {"offer", "exit", "tell", "forget"}
    /\ y.op = "unhook" => x.op \in {"tell", "forget", "release", "wake"}
    /\ y.op = "fire" => x.op \in {"tell", "forget", "release", "wake", "unhook"}
    /\ y.op = "unlock" => x.op \in {"tell", "forget", "release", "wake", "unhook", "fire"}
    /\ x.op \notin {"join", "drain"}
    /\ x.op = "exit" => y.op \in {"wake", "join"}
    /\ x.op \in {"hook", "load"} => x # y
    /\ x.op = "manage" /\ x.arg = "writer" => y.op # "hook"

Ordered(s) == \A i, j \in DOMAIN s : i < j => MayPrecede(s[i], s[j])

Agendas ==
    /\ agenda \in [Threads -> Seq(Steps)]
    /\ \A t \in Threads : \A x \in Pending(t) : Formed(t, x)
    /\ \A t \in Threads : Ordered(agenda[t])

(* Thread t does the step it is at, and now has the steps of new to do     *)
(* before the rest.                                                        *)
Goes(t, new) ==
    /\ Pending(t)' = new \cup Rest(t)
    /\ \A u \in Threads \ {t} : Pending(u)' = Pending(u)

-----------------------------------------------------------------------------
(* 1. Agendas                                                              *)

(* The fields of a step.                                                   *)
LEMMA DoFields ==
    \A op, c, arg : Do(op, c, arg).op = op /\ Do(op, c, arg).conn = c /\ Do(op, c, arg).arg = arg
  BY DEF Do

LEMMA StepFields ==
    ASSUME NEW x \in Steps
    PROVE  x = Do(x.op, x.conn, x.arg)
  BY DEF Do, Steps

LEMMA OrderedTail ==
    ASSUME NEW s \in Seq(Steps), s # <<>>, Ordered(s)
    PROVE  /\ Ordered(Tail(s))
           /\ \A y \in ToSet(Tail(s)) : MayPrecede(Head(s), y)
<1>1. /\ Len(s) \in Nat \ {0} /\ Head(s) = s[1]
      /\ Tail(s) \in Seq(Steps) /\ Len(Tail(s)) = Len(s) - 1
      /\ \A i \in 1..(Len(s) - 1) : Tail(s)[i] = s[i + 1]
  BY TailProperties
<1>2. DOMAIN s = 1..Len(s) /\ DOMAIN Tail(s) = 1..(Len(s) - 1)
  BY <1>1, LenProperties
<1>3. ASSUME NEW i \in DOMAIN Tail(s), NEW j \in DOMAIN Tail(s), i < j
      PROVE  MayPrecede(Tail(s)[i], Tail(s)[j])
  <2>1. i + 1 \in DOMAIN s /\ j + 1 \in DOMAIN s /\ i + 1 < j + 1
    BY <1>1, <1>2, <1>3
  <2>2. MayPrecede(s[i + 1], s[j + 1])
    BY <2>1 DEF Ordered
  <2> QED
    BY <1>1, <1>2, <2>2
<1>4. ASSUME NEW y \in ToSet(Tail(s))
      PROVE  MayPrecede(Head(s), y)
  <2>1. PICK j \in 2..Len(s) : y = s[j]
    BY HeadTailElements
  <2>2. 1 \in DOMAIN s /\ j \in DOMAIN s /\ 1 < j
    BY <1>1, <1>2
  <2>3. MayPrecede(s[1], s[j])
    BY <2>2 DEF Ordered
  <2> QED
    BY <1>1, <2>1, <2>3
<1> QED
  BY <1>3, <1>4 DEF Ordered

LEMMA OrderedConcat ==
    ASSUME NEW s \in Seq(Steps), NEW t \in Seq(Steps), Ordered(s), Ordered(t),
           \A x \in ToSet(s), y \in ToSet(t) : MayPrecede(x, y)
    PROVE  Ordered(s \o t)
<1>1. /\ Len(s) \in Nat /\ DOMAIN s = 1..Len(s)
      /\ Len(t) \in Nat /\ DOMAIN t = 1..Len(t)
  BY LenProperties
<1>2. /\ s \o t \in Seq(Steps)
      /\ Len(s \o t) = Len(s) + Len(t)
      /\ \A i \in 1..(Len(s) + Len(t)) :
            (s \o t)[i] = IF i <= Len(s) THEN s[i] ELSE t[i - Len(s)]
  BY ConcatProperties
<1>3. DOMAIN (s \o t) = 1..(Len(s) + Len(t))
  BY <1>2, LenProperties
<1>4. SUFFICES ASSUME NEW i \in 1..(Len(s) + Len(t)), NEW j \in 1..(Len(s) + Len(t)), i < j
               PROVE  MayPrecede((s \o t)[i], (s \o t)[j])
  BY <1>3 DEF Ordered
<1>5. CASE j <= Len(s)
  <2>1. i \in DOMAIN s /\ j \in DOMAIN s /\ (s \o t)[i] = s[i] /\ (s \o t)[j] = s[j]
    BY <1>1, <1>2, <1>4, <1>5
  <2> QED
    BY <1>4, <2>1 DEF Ordered
<1>6. CASE i <= Len(s) /\ ~(j <= Len(s))
  <2>1. /\ i \in DOMAIN s /\ j - Len(s) \in DOMAIN t
        /\ (s \o t)[i] = s[i] /\ (s \o t)[j] = t[j - Len(s)]
    BY <1>1, <1>2, <1>4, <1>6
  <2> QED
    BY <2>1 DEF ToSet
<1>7. CASE ~(i <= Len(s))
  <2>1. /\ i - Len(s) \in DOMAIN t /\ j - Len(s) \in DOMAIN t /\ i - Len(s) < j - Len(s)
        /\ (s \o t)[i] = t[i - Len(s)] /\ (s \o t)[j] = t[j - Len(s)]
    BY <1>1, <1>2, <1>4, <1>7
  <2> QED
    BY <2>1 DEF Ordered
<1> QED
  BY <1>1, <1>4, <1>5, <1>6, <1>7

LEMMA ShortOrdered ==
    /\ Ordered(<<>>)
    /\ \A x : Ordered(<<x>>)
    /\ \A x, y : MayPrecede(x, y) => Ordered(<<x, y>>)
<1>1. Ordered(<<>>)
  BY DEF Ordered
<1>2. ASSUME NEW x PROVE Ordered(<<x>>)
  BY DEF Ordered
<1>3. ASSUME NEW x, NEW y, MayPrecede(x, y) PROVE Ordered(<<x, y>>)
  BY <1>3 DEF Ordered
<1> QED
  BY <1>1, <1>2, <1>3

LEMMA SingleStep ==
    ASSUME NEW x \in Steps
    PROVE  <<x>> \in Seq(Steps) /\ ToSet(<<x>>) = {x} /\ Ordered(<<x>>)
  BY ShortElements, ShortOrdered

LEMMA ConcatSteps ==
    ASSUME NEW s \in Seq(Steps), NEW t \in Seq(Steps), Ordered(s), Ordered(t),
           \A x \in ToSet(s), y \in ToSet(t) : MayPrecede(x, y)
    PROVE  /\ s \o t \in Seq(Steps)
           /\ ToSet(s \o t) = ToSet(s) \cup ToSet(t)
           /\ Ordered(s \o t)
<1>1. s \o t \in Seq(Steps)
  BY ConcatProperties
<1>2. ToSet(s \o t) = ToSet(s) \cup ToSet(t)
  BY ConcatElements
<1>3. Ordered(s \o t)
  BY OrderedConcat
<1> QED
  BY <1>1, <1>2, <1>3

(* What is known of the step a thread is at, and of what comes after.      *)
LEMMA DueFacts ==
    ASSUME Agendas, NEW t \in Threads, agenda[t] # <<>>
    PROVE  /\ agenda[t] \in Seq(Steps) /\ Tail(agenda[t]) \in Seq(Steps)
           /\ Due(t) \in Steps /\ Formed(t, Due(t))
           /\ Pending(t) = {Due(t)} \cup Rest(t)
           /\ \A y \in Rest(t) : y \in Steps /\ Formed(t, y) /\ MayPrecede(Due(t), y)
           /\ Ordered(Tail(agenda[t]))
<1>1. agenda[t] \in Seq(Steps) /\ Ordered(agenda[t])
  BY DEF Agendas
<1>2. /\ Tail(agenda[t]) \in Seq(Steps) /\ Due(t) \in Steps
      /\ Pending(t) = {Due(t)} \cup Rest(t)
  BY <1>1, HeadTailProperties, HeadTailElements DEF Due, Pending, Rest
<1>3. /\ Ordered(Tail(agenda[t]))
      /\ \A y \in Rest(t) : MayPrecede(Due(t), y)
  BY <1>1, OrderedTail DEF Due, Rest
<1>4. \A y \in Rest(t) : y \in Steps
  BY <1>2, LenProperties DEF Rest, ToSet
<1>5. \A y \in Pending(t) : Formed(t, y)
  BY DEF Agendas
<1> QED
  BY <1>1, <1>2, <1>3, <1>4, <1>5

(* A thread does its step and gets others, which are in order.             *)
LEMMA AgendaKept ==
    ASSUME Agendas, NEW t \in Threads, agenda[t] # <<>>,
           NEW steps \in Seq(Steps), Then(t, steps), Ordered(steps),
           \A x \in ToSet(steps) : Formed(t, x),
           \A x \in ToSet(steps), y \in Rest(t) : MayPrecede(x, y)
    PROVE  Agendas' /\ Goes(t, ToSet(steps))
<1>1. /\ agenda \in [Threads -> Seq(Steps)]
      /\ Tail(agenda[t]) \in Seq(Steps) /\ Ordered(Tail(agenda[t]))
      /\ \A y \in Rest(t) : Formed(t, y)
  <2>1. agenda \in [Threads -> Seq(Steps)]
    BY DEF Agendas
  <2>2. /\ Tail(agenda[t]) \in Seq(Steps) /\ Ordered(Tail(agenda[t]))
        /\ \A y \in Rest(t) : Formed(t, y)
    BY DueFacts
  <2> QED
    BY <2>1, <2>2
<1>2. /\ steps \o Tail(agenda[t]) \in Seq(Steps)
      /\ ToSet(steps \o Tail(agenda[t])) = ToSet(steps) \cup Rest(t)
      /\ Ordered(steps \o Tail(agenda[t]))
  <2> DEFINE rest == Tail(agenda[t])
  <2>1. rest \in Seq(Steps) /\ Ordered(rest) /\ Rest(t) = ToSet(rest)
    BY <1>1 DEF Rest
  <2>2. \A x \in ToSet(steps), y \in ToSet(rest) : MayPrecede(x, y)
    BY <2>1
  <2> HIDE DEF rest
  <2>3. steps \o rest \in Seq(Steps)
    BY <2>1, ConcatProperties
  <2>4. ToSet(steps \o rest) = ToSet(steps) \cup ToSet(rest)
    BY <2>1, ConcatElements
  <2>5. Ordered(steps \o rest)
    BY <2>1, <2>2, OrderedConcat
  <2> QED
    BY <2>1, <2>3, <2>4, <2>5 DEF rest
<1>3. /\ agenda' \in [Threads -> Seq(Steps)]
      /\ agenda'[t] = steps \o Tail(agenda[t])
      /\ \A u \in Threads \ {t} : agenda'[u] = agenda[u]
  BY <1>1, <1>2 DEF Then
<1>4. Goes(t, ToSet(steps))
  BY <1>2, <1>3 DEF Goes, Pending
<1>5. \A u \in Threads : Ordered(agenda'[u])
  BY <1>2, <1>3 DEF Agendas
<1>6. \A u \in Threads : \A x \in Pending(u)' : Formed(u, x)
  BY <1>1, <1>4 DEF Agendas, Goes
<1> QED
  BY <1>3, <1>4, <1>5, <1>6 DEF Agendas, Ordered, MayPrecede, Formed, AcceptorFormed, Ends

LEMMA NoStep ==
    ASSUME Agendas, NEW t \in Threads, agenda[t] # <<>>, Then(t, <<>>)
    PROVE  Agendas' /\ Goes(t, {})
<1>1. PICK none \in Seq(Steps) : none = <<>>
  BY EmptySeq
<1>2. Then(t, none) /\ ToSet(none) = {} /\ Ordered(none)
  BY <1>1, ShortElements, ShortOrdered
<1>3. Agendas' /\ Goes(t, ToSet(none))
  BY <1>2, AgendaKept
<1> QED
  BY <1>2, <1>3

LEMMA OneStep ==
    ASSUME Agendas, NEW t \in Threads, agenda[t] # <<>>,
           NEW x \in Steps, Then(t, <<x>>), Formed(t, x),
           \A y \in Rest(t) : MayPrecede(x, y)
    PROVE  Agendas' /\ Goes(t, {x})
<1>1. <<x>> \in Seq(Steps) /\ ToSet(<<x>>) = {x} /\ Ordered(<<x>>)
  BY ShortElements, ShortOrdered
<1> QED
  BY <1>1, AgendaKept

LEMMA TwoSteps ==
    ASSUME Agendas, NEW t \in Threads, agenda[t] # <<>>,
           NEW w \in Steps, NEW x \in Steps, Then(t, <<w, x>>),
           Formed(t, w), Formed(t, x), MayPrecede(w, x),
           \A y \in Rest(t) : MayPrecede(w, y) /\ MayPrecede(x, y)
    PROVE  Agendas' /\ Goes(t, {w, x})
<1>1. <<w, x>> \in Seq(Steps) /\ ToSet(<<w, x>>) = {w, x} /\ Ordered(<<w, x>>)
  BY ShortElements, ShortOrdered
<1> QED
  BY <1>1, AgendaKept

(* A step is done and another comes in its place: most steps may come      *)
(* before whatever the first one did.                                      *)
LEMMA MayReplace ==
    ASSUME NEW d, NEW x, NEW y, MayPrecede(d, y),
           x.op \notin {"join", "drain", "exit", "hook", "load", "manage"},
           \/ x.op \in {"tell", "forget", "release", "wake"}
           \/ d.op \notin {"tell", "forget", "release", "wake", "unhook", "fire"}
    PROVE  MayPrecede(x, y)
  BY DEF MayPrecede

(* A thread in its loop, or back from poll(2), gets something to do.       *)
LEMMA NewAgenda ==
    ASSUME Agendas, NEW t \in Threads, NEW steps \in Seq(Steps),
           agenda' = [agenda EXCEPT ![t] = steps], Ordered(steps),
           \A x \in ToSet(steps) : Formed(t, x)
    PROVE  /\ Agendas'
           /\ Pending(t)' = ToSet(steps)
           /\ \A u \in Threads \ {t} : Pending(u)' = Pending(u)
<1>1. /\ agenda \in [Threads -> Seq(Steps)]
      /\ agenda' \in [Threads -> Seq(Steps)]
      /\ agenda'[t] = steps
      /\ \A u \in Threads \ {t} : agenda'[u] = agenda[u]
  BY DEF Agendas
<1>2. /\ Pending(t)' = ToSet(steps)
      /\ \A u \in Threads \ {t} : Pending(u)' = Pending(u)
  BY <1>1 DEF Pending
<1>3. \A u \in Threads : Ordered(agenda'[u])
  BY <1>1 DEF Agendas
<1>4. \A u \in Threads : \A x \in Pending(u)' : Formed(u, x)
  BY <1>2 DEF Agendas
<1> QED
  BY <1>1, <1>2, <1>3, <1>4 DEF Agendas

-----------------------------------------------------------------------------
(* 2. What each action does to what is pending                             *)

LEMMA ChangeStateGoes ==
    ASSUME Agendas, NEW t \in Threads, ChangeState(t)
    PROVE  /\ Agendas'
           /\ \/ Goes(t, {})
              \/ Goes(t, {Do("lock", Due(t).conn, Due(t).arg)})
           /\ Due(t).conn \in Conns
<1> DEFINE x == Do("lock", Due(t).conn, Due(t).arg)
<1>1. /\ agenda[t] # <<>> /\ Due(t).op = "state"
      /\ Then(t, <<>>) \/ Then(t, <<x>>)
  BY DEF ChangeState, Does
<1>2. /\ Formed(t, Due(t))
      /\ \A y \in Rest(t) : MayPrecede(Due(t), y)
  BY <1>1, DueFacts
<1>3. /\ Due(t).conn \in Conns
      /\ Due(t).arg \in {"CONNECTED", "PENDING_CLOSE", "CLOSED"}
  BY <1>1, <1>2 DEF Formed, AcceptorFormed
<1>4. x \in Steps /\ Formed(t, x) /\ x.op = "lock"
  BY <1>3 DEF Do, Steps, States, Formed
<1>5. \A y \in Rest(t) : MayPrecede(x, y)
  BY <1>1, <1>2, <1>4, MayReplace
<1> QED
  BY <1>1, <1>3, <1>4, <1>5, NoStep, OneStep

LEMMA LockStateGoes ==
    ASSUME Agendas, NEW t \in Threads, LockState(t)
    PROVE  LET c == Due(t).conn IN
           /\ Agendas'
           /\ c \in Conns
           /\ Due(t).arg \in {"CONNECTED", "PENDING_CLOSE", "CLOSED"}
           /\ \A y \in Rest(t) : y.op \notin {"tell", "forget", "unhook", "fire", "unlock"}
           /\ \/ Due(t).arg = "CLOSED" /\ Goes(t, {Do("fire", c, "nothing"), Do("unlock", c, "nothing")})
              \/ /\ Due(t).arg = "PENDING_CLOSE"
                 /\ Goes(t, {Do("tell", c, "pending"), Do("unlock", c, "nothing")})
              \/ Due(t).arg # "CLOSED" /\ Goes(t, {Do("unlock", c, "nothing")})
<1> DEFINE c == Due(t).conn
           f == Do("fire", c, "nothing")
           p == Do("tell", c, "pending")
           u == Do("unlock", c, "nothing")
<1>1. /\ agenda[t] # <<>> /\ Due(t).op = "lock"
      /\ Then(t, Announce(c, Due(t).arg))
  BY DEF LockState, Does
<1>2. /\ Formed(t, Due(t))
      /\ \A y \in Rest(t) : MayPrecede(Due(t), y)
  BY <1>1, DueFacts
<1>3. /\ c \in Conns
      /\ Due(t).arg \in {"CONNECTED", "PENDING_CLOSE", "CLOSED"}
  BY <1>1, <1>2 DEF Formed, AcceptorFormed
<1>4. /\ f \in Steps /\ Formed(t, f) /\ f.op = "fire"
      /\ p \in Steps /\ Formed(t, p) /\ p.op = "tell"
      /\ u \in Steps /\ Formed(t, u) /\ u.op = "unlock"
  BY <1>3 DEF Do, Steps, Formed
<1>5. MayPrecede(f, u) /\ MayPrecede(p, u)
  BY <1>4 DEF MayPrecede
<1>6. \A y \in Rest(t) : MayPrecede(f, y) /\ MayPrecede(p, y) /\ MayPrecede(u, y)
  BY <1>1, <1>2, <1>4, MayReplace
<1>7. \A y \in Rest(t) : y.op \notin {"tell", "forget", "unhook", "fire", "unlock"}
  BY <1>1, <1>2 DEF MayPrecede
<1>8. CASE Due(t).arg = "CLOSED"
  <2>1. Then(t, <<f, u>>)
    BY <1>1, <1>8 DEF Announce
  <2> QED
    BY <1>1, <1>3, <1>4, <1>5, <1>6, <1>7, <1>8, <2>1, TwoSteps
<1>9. CASE Due(t).arg = "PENDING_CLOSE" /\ "pending" \in hooks[c]
  <2>1. Then(t, <<p, u>>)
    BY <1>1, <1>9 DEF Announce
  <2> QED
    BY <1>1, <1>3, <1>4, <1>5, <1>6, <1>7, <1>9, <2>1, TwoSteps
<1>10. CASE /\ Due(t).arg # "CLOSED"
            /\ ~(Due(t).arg = "PENDING_CLOSE" /\ "pending" \in hooks[c])
  <2>1. Then(t, <<u>>)
    BY <1>1, <1>10 DEF Announce
  <2> QED
    BY <1>1, <1>3, <1>4, <1>6, <1>7, <1>10, <2>1, OneStep
<1> QED
  BY <1>8, <1>9, <1>10

LEMMA ManagedByGoes ==
    ASSUME Agendas, NEW t \in Threads, ManagedBy(t)
    PROVE  LET c == Due(t).conn
               all == managedBy[c] \cup {Due(t).arg} IN
           /\ Agendas'
           /\ c \in Conns /\ Due(t).arg \in Pipe
           /\ Due(t).arg = "writer" => t = "acceptor" /\ \A y \in Rest(t) : y.op # "hook"
           /\ \/ Goes(t, {})
              \/ all = Threads /\ Goes(t, {Do("state", c, "CONNECTED")})
<1> DEFINE c == Due(t).conn
           all == managedBy[c] \cup {Due(t).arg}
           x == Do("state", c, "CONNECTED")
<1>1. /\ agenda[t] # <<>> /\ Due(t).op = "manage"
      /\ Then(t, IF all = Threads THEN <<x>> ELSE <<>>)
  BY DEF ManagedBy, Does
<1>2. /\ Formed(t, Due(t))
      /\ \A y \in Rest(t) : MayPrecede(Due(t), y)
  BY <1>1, DueFacts
<1>3. /\ c \in Conns
      /\ Due(t).arg \in Pipe
      /\ Due(t).arg = "writer" => t = "acceptor"
  BY <1>1, <1>2 DEF Formed, AcceptorFormed, Pipe
<1>4. x \in Steps /\ Formed(t, x) /\ x.op = "state"
  BY <1>3 DEF Do, Steps, States, Formed
<1>5. \A y \in Rest(t) : MayPrecede(x, y)
  BY <1>1, <1>2, <1>4, MayReplace
<1>6. Due(t).arg = "writer" => \A y \in Rest(t) : y.op # "hook"
  BY <1>1, <1>2 DEF MayPrecede
<1>7. CASE all = Threads
  BY <1>1, <1>3, <1>4, <1>5, <1>6, <1>7, OneStep
<1>8. CASE all # Threads
  BY <1>1, <1>3, <1>6, <1>8, NoStep
<1> QED
  BY <1>7, <1>8

LEMMA OfferGoes ==
    ASSUME Agendas, NEW t \in Threads, Offer(t)
    PROVE  /\ Agendas'
           /\ t = "acceptor" /\ Due(t).conn \in Conns /\ Due(t).arg = "reader"
           /\ \/ ~exiting["reader"] /\ Goes(t, {})
              \/ /\ exiting["reader"] /\ Pending(t)' = {}
                 /\ \A u \in Threads \ {t} : Pending(u)' = Pending(u)
<1>1. agenda[t] # <<>> /\ Due(t).op = "offer"
  BY DEF Offer, Does
<1>2. Formed(t, Due(t))
  BY <1>1, DueFacts
<1>3. t = "acceptor" /\ Due(t).conn \in Conns /\ Due(t).arg = "reader"
  BY <1>1, <1>2 DEF Formed, AcceptorFormed
<1>4. CASE ~exiting["reader"]
  <2>1. Then(t, <<>>)
    BY <1>4 DEF Offer
  <2> QED
    BY <1>1, <1>3, <1>4, <2>1, NoStep
<1>5. CASE exiting["reader"]
  <2>1. agenda' = [agenda EXCEPT ![t] = <<>>]
    BY <1>5 DEF Offer
  <2>2. Agendas' /\ Pending(t)' = {} /\ \A u \in Threads \ {t} : Pending(u)' = Pending(u)
    BY <2>1, EmptySeq, ShortElements, ShortOrdered, NewAgenda
  <2> QED
    BY <1>3, <1>5, <2>2
<1> QED
  BY <1>4, <1>5

LEMMA AddHandlerGoes ==
    ASSUME Agendas, NEW t \in Threads, AddHandler(t)
    PROVE  /\ Agendas'
           /\ t = "acceptor" /\ Due(t).conn \in Conns
           /\ Due(t).arg \in Pipe \cup {"pending", "inbound", "outbound"}
           /\ Goes(t, {}) \/ (agenda' = agenda /\ UNCHANGED <<handlers, hooks>>)
<1>1. agenda[t] # <<>> /\ Due(t).op = "hook"
  BY DEF AddHandler, Does
<1>2. Formed(t, Due(t))
  BY <1>1, DueFacts
<1>3. /\ t = "acceptor" /\ Due(t).conn \in Conns
      /\ Due(t).arg \in Pipe \cup {"pending", "inbound", "outbound"}
  BY <1>1, <1>2 DEF Formed, AcceptorFormed
<1>4. CASE Then(t, <<>>)
  BY <1>1, <1>3, <1>4, NoStep
<1>5. CASE UNCHANGED <<handlers, hooks, agenda>>
  BY <1>3, <1>5 DEF Agendas, Pending
<1> QED
  BY <1>4, <1>5 DEF AddHandler

LEMMA DisownGoes ==
    ASSUME Agendas, NEW t \in Threads, Disown(t)
    PROVE  /\ Agendas'
           /\ t = "acceptor" /\ Due(t).conn \in Conns
           /\ Goes(t, {}) \/ (agenda' = agenda /\ UNCHANGED handlers)
<1>1. agenda[t] # <<>> /\ Due(t).op = "disown"
  BY DEF Disown, Does
<1>2. Formed(t, Due(t))
  BY <1>1, DueFacts
<1>3. t = "acceptor" /\ Due(t).conn \in Conns
  BY <1>1, <1>2 DEF Formed, AcceptorFormed
<1>4. CASE Then(t, <<>>)
  BY <1>1, <1>3, <1>4, NoStep
<1>5. CASE UNCHANGED <<handlers, agenda>>
  BY <1>3, <1>5 DEF Agendas, Pending
<1> QED
  BY <1>4, <1>5 DEF Disown

(* ReaderEnd, WorkerEnd and WriterEnd put EXIT in a queue, wake its thread *)
(* if it is the reader, and only then join it.                             *)
LEMMA EndSteps ==
    ASSUME NEW t \in Threads, NEW q \in Pipe, Ends(t, q)
    PROVE  LET e == Do("exit", NoConn, q)
               w == Do("wake", NoConn, q)
               j == Do("join", NoConn, q) IN
           /\ End(q) \in Seq(Steps) /\ Ordered(End(q))
           /\ ToSet(End(q)) = IF q = "reader" THEN {e, w, j} ELSE {e, j}
           /\ \A x \in ToSet(End(q)) : Formed(t, x)
<1> DEFINE e == Do("exit", NoConn, q)
           w == Do("wake", NoConn, q)
           j == Do("join", NoConn, q)
<1>1. /\ e \in Steps /\ Formed(t, e) /\ e.op = "exit"
      /\ w \in Steps /\ w.op = "wake" /\ (q = "reader" => Formed(t, w))
      /\ j \in Steps /\ Formed(t, j) /\ j.op = "join"
  BY DEF Do, Steps, Formed, Threads
<1>2. MayPrecede(e, w) /\ MayPrecede(e, j) /\ MayPrecede(w, j)
  BY <1>1 DEF MayPrecede
<1> HIDE DEF e, w, j
<1>3. /\ <<e>> \in Seq(Steps) /\ ToSet(<<e>>) = {e} /\ Ordered(<<e>>)
      /\ <<w>> \in Seq(Steps) /\ ToSet(<<w>>) = {w} /\ Ordered(<<w>>)
      /\ <<j>> \in Seq(Steps) /\ ToSet(<<j>>) = {j} /\ Ordered(<<j>>)
      /\ <<>> \in Seq(Steps) /\ ToSet(<<>>) = {} /\ Ordered(<<>>)
  BY <1>1, SingleStep, EmptySeq, ShortElements, ShortOrdered
<1> DEFINE mid == IF q = "reader" THEN <<w>> ELSE <<>>
<1>4. /\ mid \in Seq(Steps) /\ Ordered(mid)
      /\ ToSet(mid) = IF q = "reader" THEN {w} ELSE {}
  BY <1>3
<1> DEFINE start == <<e>> \o mid
<1>5. End(q) = start \o <<j>>
  BY DEF End, e, w, j
<1> HIDE DEF mid
<1>6. start \in Seq(Steps) /\ ToSet(start) = {e} \cup ToSet(mid) /\ Ordered(start)
  <2>1. \A x \in ToSet(<<e>>), y \in ToSet(mid) : MayPrecede(x, y)
    BY <1>2, <1>3, <1>4
  <2>2. /\ <<e>> \in Seq(Steps) /\ Ordered(<<e>>) /\ ToSet(<<e>>) = {e}
        /\ mid \in Seq(Steps) /\ Ordered(mid)
    BY <1>3, <1>4
  <2> DEFINE one == <<e>>
  <2> HIDE DEF one
  <2>3. /\ one \in Seq(Steps) /\ Ordered(one) /\ ToSet(one) = {e}
        /\ \A x \in ToSet(one), y \in ToSet(mid) : MayPrecede(x, y)
    BY <2>1, <2>2 DEF one
  <2>4. /\ one \o mid \in Seq(Steps) /\ ToSet(one \o mid) = ToSet(one) \cup ToSet(mid)
        /\ Ordered(one \o mid)
    BY <2>2, <2>3, ConcatSteps
  <2> QED
    BY <2>3, <2>4 DEF one
<1> HIDE DEF start
<1>7. /\ start \o <<j>> \in Seq(Steps)
      /\ ToSet(start \o <<j>>) = {e} \cup ToSet(mid) \cup {j}
      /\ Ordered(start \o <<j>>)
  <2>1. \A x \in ToSet(start), y \in ToSet(<<j>>) : MayPrecede(x, y)
    BY <1>2, <1>3, <1>4, <1>6
  <2>2. ToSet(start \o <<j>>) = ToSet(start) \cup ToSet(<<j>>)
    BY <1>3, <1>6, <2>1, ConcatSteps
  <2> QED
    BY <1>3, <1>6, <2>1, <2>2, ConcatSteps
<1>8. ToSet(End(q)) = IF q = "reader" THEN {e, w, j} ELSE {e, j}
  BY <1>4, <1>5, <1>7
<1>9. \A x \in ToSet(End(q)) : Formed(t, x)
  BY <1>1, <1>8
<1> QED
  BY <1>5, <1>7, <1>8, <1>9 DEF e, w, j

LEMMA DrainGoes ==
    ASSUME Agendas, accepted \in Seq(Conns), NEW t \in Threads, Drain(t)
    PROVE  LET c == Head(accepted) IN
           /\ Agendas'
           /\ t = "acceptor" /\ Rest(t) = {}
           /\ \/ /\ accepted' = accepted
                 /\ Goes(t, {Do("exit", NoConn, "reader"), Do("wake", NoConn, "reader"),
                             Do("join", NoConn, "reader")})
              \/ /\ accepted # <<>> /\ accepted' = Tail(accepted) /\ c \in Conns
                 /\ Goes(t, {Do("disown", c, "nothing"), Do("state", c, "CLOSED"),
                             Do("release", c, "acceptor"), Do("drain", NoConn, "nothing")})
<1> DEFINE c == Head(accepted)
           d == Do("disown", c, "nothing")
           s == Do("state", c, "CLOSED")
           r == Do("release", c, "acceptor")
           n == Do("drain", NoConn, "nothing")
<1>1. agenda[t] # <<>> /\ Due(t).op = "drain"
  BY DEF Drain, Does
<1>2. /\ Formed(t, Due(t))
      /\ \A y \in Rest(t) : MayPrecede(Due(t), y)
  BY <1>1, DueFacts
<1>3. t = "acceptor"
  BY <1>1, <1>2 DEF Formed, AcceptorFormed
<1>4. Rest(t) = {}
  BY <1>1, <1>2 DEF MayPrecede
<1>5. CASE accepted = <<>>
  <2>1. Then(t, End("reader")) /\ accepted' = accepted
    BY <1>5 DEF Drain
  <2>2. "reader" \in Pipe /\ Ends(t, "reader")
    BY <1>3 DEF Pipe, Ends
  <2>3. /\ End("reader") \in Seq(Steps) /\ Ordered(End("reader"))
        /\ ToSet(End("reader")) = {Do("exit", NoConn, "reader"), Do("wake", NoConn, "reader"),
                                   Do("join", NoConn, "reader")}
        /\ \A x \in ToSet(End("reader")) : Formed(t, x)
    BY <2>2, EndSteps
  <2>4. Agendas' /\ Goes(t, ToSet(End("reader")))
    BY <1>1, <1>4, <2>1, <2>3, AgendaKept
  <2> QED
    BY <1>3, <1>4, <2>1, <2>3, <2>4
<1>6. CASE accepted # <<>>
  <2>1. Then(t, <<d, s, r, n>>) /\ accepted' = Tail(accepted)
    BY <1>6 DEF Drain
  <2>2. c \in Conns
    BY <1>6, HeadTailProperties
  <2>3. /\ d \in Steps /\ Formed(t, d) /\ d.op = "disown"
        /\ s \in Steps /\ Formed(t, s) /\ s.op = "state"
        /\ r \in Steps /\ Formed(t, r) /\ r.op = "release"
        /\ n \in Steps /\ Formed(t, n) /\ n.op = "drain"
    BY <1>3, <2>2 DEF Do, Steps, States, Threads, Formed, AcceptorFormed
  <2>4. /\ MayPrecede(d, s) /\ MayPrecede(d, r) /\ MayPrecede(d, n)
        /\ MayPrecede(s, r) /\ MayPrecede(s, n) /\ MayPrecede(r, n)
    BY <2>3 DEF MayPrecede
  <2> HIDE DEF d, s, r, n
  <2>5. /\ <<d, s, r, n>> \in Seq(Steps)
        /\ ToSet(<<d, s, r, n>>) = {d, s, r, n}
    BY <2>3 DEF ToSet
  <2>6. Ordered(<<d, s, r, n>>)
    BY <2>4 DEF Ordered
  <2>7. Agendas' /\ Goes(t, ToSet(<<d, s, r, n>>))
    BY <1>1, <1>4, <2>1, <2>3, <2>5, <2>6, AgendaKept
  <2> QED
    BY <1>3, <1>4, <1>6, <2>1, <2>2, <2>5, <2>7 DEF d, s, r, n
<1> QED
  BY <1>5, <1>6

LEMMA FireCloseGoes ==
    ASSUME Agendas, handlers \in [Conns -> Seq(Threads)], NEW t \in Threads, FireClose(t)
    PROVE  LET c == Due(t).conn
               o == Head(handlers[c])
               once == {Do("unhook", c, o), Do("fire", c, "nothing")} IN
           /\ Agendas'
           /\ c \in Conns
           /\ \/ Goes(t, {})
              \/ /\ o \in ToSet(handlers[c]) /\ o \in Pipe
                 /\ Goes(t, {Do("tell", c, o)} \cup once)
              \/ /\ o \in ToSet(handlers[c]) /\ o = "acceptor"
                 /\ Goes(t, {Do("forget", c, o), Do("release", c, o)} \cup once)
<1> DEFINE c == Due(t).conn
           o == Head(handlers[c])
           l == Do("tell", c, o)
           g == Do("forget", c, o)
           r == Do("release", c, o)
           u == Do("unhook", c, o)
           f == Do("fire", c, "nothing")
<1>1. /\ agenda[t] # <<>> /\ Due(t).op = "fire"
      /\ Then(t, IF handlers[c] = <<>> THEN <<>>
                 ELSE CloseHandler(c, o) \o <<u, f>>)
  BY DEF FireClose, Does
<1>2. /\ Formed(t, Due(t))
      /\ \A y \in Rest(t) : MayPrecede(Due(t), y)
  BY <1>1, DueFacts
<1>3. c \in Conns
  BY <1>1, <1>2 DEF Formed, AcceptorFormed
<1>4. CASE handlers[c] = <<>>
  BY <1>1, <1>3, <1>4, NoStep
<1>5. CASE handlers[c] # <<>>
  <2>1. o \in Threads /\ o \in ToSet(handlers[c])
    BY <1>3, <1>5, HeadTailProperties, HeadTailElements
  <2>2. /\ u \in Steps /\ Formed(t, u) /\ u.op = "unhook"
        /\ f \in Steps /\ Formed(t, f) /\ f.op = "fire"
    BY <1>3, <2>1 DEF Do, Steps, Formed
  <2>3. /\ l \in Steps /\ l.op = "tell" /\ (o \in Pipe => Formed(t, l))
        /\ g \in Steps /\ g.op = "forget" /\ (o = "acceptor" => Formed(t, g))
        /\ r \in Steps /\ Formed(t, r) /\ r.op = "release"
    BY <1>3, <2>1 DEF Do, Steps, Formed
  <2>4. /\ MayPrecede(u, f) /\ MayPrecede(g, r)
        /\ MayPrecede(l, u) /\ MayPrecede(l, f)
        /\ MayPrecede(g, u) /\ MayPrecede(g, f)
        /\ MayPrecede(r, u) /\ MayPrecede(r, f)
    BY <2>2, <2>3 DEF MayPrecede
  <2>5. \A y \in Rest(t) : /\ MayPrecede(u, y) /\ MayPrecede(f, y)
                           /\ MayPrecede(l, y) /\ MayPrecede(g, y) /\ MayPrecede(r, y)
    BY <1>1, <1>2, <2>2, <2>3 DEF MayPrecede
  <2>6. /\ Then(t, CloseHandler(c, o) \o <<u, f>>)
        /\ CloseHandler(c, o) = IF o = "acceptor" THEN <<g, r>> ELSE <<l>>
    BY <1>1, <1>5 DEF CloseHandler
  <2> HIDE DEF l, g, r, u, f, o
  <2>7. /\ <<u, f>> \in Seq(Steps) /\ ToSet(<<u, f>>) = {u, f} /\ Ordered(<<u, f>>)
        /\ <<g, r>> \in Seq(Steps) /\ ToSet(<<g, r>>) = {g, r} /\ Ordered(<<g, r>>)
        /\ <<l>> \in Seq(Steps) /\ ToSet(<<l>>) = {l} /\ Ordered(<<l>>)
    BY <2>2, <2>3, <2>4, ShortElements, ShortOrdered
  <2>8. CASE o = "acceptor"
    <3> DEFINE steps == <<g, r>> \o <<u, f>>
    <3>1. Then(t, steps)
      BY <2>6, <2>8
    <3>2. steps \in Seq(Steps) /\ ToSet(steps) = {g, r} \cup {u, f} /\ Ordered(steps)
      <4>1. \A x \in ToSet(<<g, r>>), y \in ToSet(<<u, f>>) : MayPrecede(x, y)
        BY <2>4, <2>7
      <4> QED
        BY <2>7, <4>1, ConcatSteps
    <3> HIDE DEF steps
    <3>3. Agendas' /\ Goes(t, {g, r} \cup {u, f})
      <4>1. \A x \in ToSet(steps) : Formed(t, x) /\ \A y \in Rest(t) : MayPrecede(x, y)
        BY <2>2, <2>3, <2>5, <2>8, <3>2
      <4> QED
        BY <1>1, <3>1, <3>2, <4>1, AgendaKept
    <3> QED
      BY <1>3, <2>1, <2>8, <3>3 DEF g, r, u, f, o
  <2>9. CASE o # "acceptor"
    <3> DEFINE steps == <<l>> \o <<u, f>>
    <3>1. Then(t, steps) /\ o \in Pipe
      BY <2>1, <2>6, <2>9 DEF Threads
    <3>2. steps \in Seq(Steps) /\ ToSet(steps) = {l} \cup {u, f} /\ Ordered(steps)
      <4>1. \A x \in ToSet(<<l>>), y \in ToSet(<<u, f>>) : MayPrecede(x, y)
        BY <2>4, <2>7
      <4> QED
        BY <2>7, <4>1, ConcatSteps
    <3> HIDE DEF steps
    <3>3. Agendas' /\ Goes(t, {l} \cup {u, f})
      <4>1. \A x \in ToSet(steps) : Formed(t, x) /\ \A y \in Rest(t) : MayPrecede(x, y)
        BY <2>2, <2>3, <2>5, <3>1, <3>2
      <4> QED
        BY <1>1, <3>1, <3>2, <4>1, AgendaKept
    <3> QED
      BY <1>3, <2>1, <3>1, <3>3 DEF l, u, f, o
  <2> QED
    BY <2>8, <2>9
<1> QED
  BY <1>4, <1>5

LEMMA TellGoes ==
    ASSUME Agendas, NEW t \in Threads, Tell(t)
    PROVE  LET c == Due(t).conn
               q == IF Due(t).arg = "pending" THEN "reader" ELSE Due(t).arg IN
           /\ Agendas'
           /\ c \in Conns /\ Due(t).arg \in Pipe \cup {"pending"} /\ q \in Pipe
           /\ \/ /\ ~exiting[q] /\ q = "reader"
                 /\ Goes(t, {Do("wake", NoConn, "reader")})
              \/ ~exiting[q] /\ q # "reader" /\ Goes(t, {})
              \/ exiting[q] /\ queue' = queue /\ Goes(t, {})
              \/ exiting[q] /\ queue' = queue /\ Goes(t, {Do("release", c, q)})
<1> DEFINE c == Due(t).conn
           q == IF Due(t).arg = "pending" THEN "reader" ELSE Due(t).arg
           w == Do("wake", NoConn, q)
           r == Do("release", c, q)
<1>1. /\ agenda[t] # <<>> /\ Due(t).op = "tell"
      /\ \/ /\ ~exiting[q]
            /\ Then(t, IF q = "reader" THEN <<w>> ELSE <<>>)
         \/ /\ exiting[q] /\ queue' = queue
            /\ Then(t, IF q = "writer" THEN <<>> ELSE <<r>>)
  BY DEF Tell, Does
<1>2. /\ Formed(t, Due(t))
      /\ \A y \in Rest(t) : MayPrecede(Due(t), y)
  BY <1>1, DueFacts
<1>3. c \in Conns /\ Due(t).arg \in Pipe \cup {"pending"} /\ q \in Pipe
  BY <1>1, <1>2 DEF Formed, AcceptorFormed, Pipe
<1>4. /\ w \in Steps /\ w.op = "wake" /\ (q = "reader" => Formed(t, w))
      /\ r \in Steps /\ Formed(t, r) /\ r.op = "release"
  BY <1>3 DEF Do, Steps, Threads, Formed
<1>5. \A y \in Rest(t) : MayPrecede(w, y) /\ MayPrecede(r, y)
  BY <1>1, <1>2, <1>4, MayReplace
<1>6. ASSUME Then(t, <<>>) PROVE Agendas' /\ Goes(t, {})
  BY <1>1, <1>6, NoStep
<1>7. ASSUME Then(t, <<w>>), q = "reader"
      PROVE  Agendas' /\ Goes(t, {Do("wake", NoConn, "reader")})
  BY <1>1, <1>4, <1>5, <1>7, OneStep
<1>8. ASSUME Then(t, <<r>>) PROVE Agendas' /\ Goes(t, {r})
  BY <1>1, <1>4, <1>5, <1>8, OneStep
<1> HIDE DEF w, q
<1> QED
  BY <1>1, <1>3, <1>6, <1>7, <1>8 DEF q

(* Reading, writing and what they pass on: one step leads to at most one   *)
(* more, about the same connection.                                        *)
LEMMA PassOn ==
    ASSUME Agendas, NEW t \in Threads, agenda[t] # <<>>, NEW x \in Steps,
           Due(t).op \in {"read", "inbound", "write", "send"},
           x.op \in {"inbound", "task", "outbound", "state"},
           Formed(t, x),
           Then(t, <<>>) \/ Then(t, <<x>>)
    PROVE  Agendas' /\ (Goes(t, {}) \/ Goes(t, {x}))
<1>1. \A y \in Rest(t) : MayPrecede(Due(t), y)
  BY DueFacts
<1>2. \A y \in Rest(t) : MayPrecede(x, y)
  BY <1>1, MayReplace
<1> QED
  BY <1>2, NoStep, OneStep

LEMMA ReadGoes ==
    ASSUME Agendas, NEW t \in Threads, Read(t)
    PROVE  LET c == Due(t).conn IN
           /\ Agendas'
           /\ c \in Conns
           /\ \/ Goes(t, {})
              \/ Goes(t, {Do("inbound", c, "nothing")})
              \/ Goes(t, {Do("state", c, "CLOSED")})
<1> DEFINE c == Due(t).conn
           i == Do("inbound", c, "nothing")
           s == Do("state", c, "CLOSED")
<1>1. /\ agenda[t] # <<>> /\ Due(t).op = "read"
      /\ Then(t, <<>>) \/ Then(t, <<i>>) \/ Then(t, <<s>>)
  BY DEF Read, Does
<1>2. Formed(t, Due(t))
  BY <1>1, DueFacts
<1>3. t = "reader" /\ c \in Conns
  BY <1>1, <1>2 DEF Formed, AcceptorFormed
<1>4. /\ i \in Steps /\ Formed(t, i) /\ i.op = "inbound"
      /\ s \in Steps /\ Formed(t, s) /\ s.op = "state"
  BY <1>3 DEF Do, Steps, States, Formed
<1> HIDE DEF i, s
<1>5. CASE Then(t, <<>>) \/ Then(t, <<i>>)
  BY <1>1, <1>3, <1>4, <1>5, PassOn DEF i
<1>6. CASE Then(t, <<s>>)
  BY <1>1, <1>3, <1>4, <1>6, PassOn DEF s
<1> QED
  BY <1>1, <1>5, <1>6

LEMMA InboundGoes ==
    ASSUME Agendas, NEW t \in Threads, Inbound(t)
    PROVE  /\ Agendas'
           /\ Due(t).conn \in Conns
           /\ Goes(t, {}) \/ Goes(t, {Do("task", Due(t).conn, "nothing")})
<1> DEFINE x == Do("task", Due(t).conn, "nothing")
<1>1. /\ agenda[t] # <<>> /\ Due(t).op = "inbound"
      /\ Then(t, <<>>) \/ Then(t, <<x>>)
  BY DEF Inbound, Does
<1>2. Formed(t, Due(t))
  BY <1>1, DueFacts
<1>3. t = "reader" /\ Due(t).conn \in Conns
  BY <1>1, <1>2 DEF Formed, AcceptorFormed
<1>4. x \in Steps /\ Formed(t, x) /\ x.op = "task"
  BY <1>3 DEF Do, Steps, Formed
<1> QED
  BY <1>1, <1>3, <1>4, PassOn

LEMMA WriteInterestGoes ==
    ASSUME Agendas, NEW t \in Threads, WriteInterest(t)
    PROVE  /\ Agendas'
           /\ Due(t).conn \in Conns
           /\ Goes(t, {}) \/ Goes(t, {Do("outbound", Due(t).conn, "nothing")})
<1> DEFINE x == Do("outbound", Due(t).conn, "nothing")
<1>1. /\ agenda[t] # <<>> /\ Due(t).op = "write"
      /\ Then(t, <<>>) \/ Then(t, <<x>>)
  BY DEF WriteInterest, Does
<1>2. Formed(t, Due(t))
  BY <1>1, DueFacts
<1>3. t = "worker" /\ Due(t).conn \in Conns
  BY <1>1, <1>2 DEF Formed, AcceptorFormed
<1>4. x \in Steps /\ Formed(t, x) /\ x.op = "outbound"
  BY <1>3 DEF Do, Steps, Formed
<1> QED
  BY <1>1, <1>3, <1>4, PassOn

LEMMA WriteGoes ==
    ASSUME Agendas, NEW t \in Threads, Write(t)
    PROVE  LET c == Due(t).conn IN
           /\ Agendas'
           /\ c \in Conns
           /\ \/ Goes(t, {})
              \/ Goes(t, {Do("outbound", c, "nothing")})
              \/ Goes(t, {Do("state", c, "CLOSED")})
<1> DEFINE c == Due(t).conn
           i == Do("outbound", c, "nothing")
           s == Do("state", c, "CLOSED")
<1>1. /\ agenda[t] # <<>> /\ Due(t).op = "send"
      /\ Then(t, <<>>) \/ Then(t, <<i>>) \/ Then(t, <<s>>)
  BY DEF Write, Does
<1>2. Formed(t, Due(t))
  BY <1>1, DueFacts
<1>3. t = "writer" /\ c \in Conns
  BY <1>1, <1>2 DEF Formed, AcceptorFormed
<1>4. /\ i \in Steps /\ Formed(t, i) /\ i.op = "outbound"
      /\ s \in Steps /\ Formed(t, s) /\ s.op = "state"
  BY <1>3 DEF Do, Steps, States, Formed
<1> HIDE DEF i, s
<1>5. CASE Then(t, <<>>) \/ Then(t, <<i>>)
  BY <1>1, <1>3, <1>4, <1>5, PassOn DEF i
<1>6. CASE Then(t, <<s>>)
  BY <1>1, <1>3, <1>4, <1>6, PassOn DEF s
<1> QED
  BY <1>1, <1>5, <1>6

(* Thread t, in its loop, gets the steps of new to do.                     *)
Starts(t, new) ==
    /\ Pending(t) = {}
    /\ Pending(t)' = new
    /\ \A u \in Threads \ {t} : Pending(u)' = Pending(u)

LEMMA StartSteps ==
    ASSUME Agendas, NEW t \in Threads, InLoop(t), NEW steps \in Seq(Steps),
           agenda' = [agenda EXCEPT ![t] = steps], Ordered(steps),
           \A x \in ToSet(steps) : Formed(t, x)
    PROVE  Agendas' /\ Starts(t, ToSet(steps))
<1>1. Pending(t) = {}
  BY ShortElements DEF InLoop, Pending
<1> QED
  BY <1>1, NewAgenda DEF Starts

(* What the acceptor does about a connection it has accepted.              *)
ManageSteps(c) ==
    {Do("offer", c, "reader"), Do("wake", NoConn, "reader")}
    \cup {Do("hook", c, a) : a \in {"pending", "reader", "inbound", "worker", "outbound", "writer"}}
    \cup {Do("manage", c, a) : a \in {"worker", "writer"}}

LEMMA ManageOrdered ==
    ASSUME NEW c \in Conns
    PROVE  /\ Manage(c) \in Seq(Steps) /\ ToSet(Manage(c)) = ManageSteps(c)
           /\ Ordered(Manage(c))
           /\ \A x \in ManageSteps(c) : Formed("acceptor", x)
<1> DEFINE s == Manage(c)
<1>1. /\ DOMAIN s = 1..10
      /\ s[1] = Do("offer", c, "reader")
      /\ s[2] = Do("hook", c, "pending") /\ s[3] = Do("hook", c, "reader")
      /\ s[4] = Do("hook", c, "inbound") /\ s[5] = Do("hook", c, "worker")
      /\ s[6] = Do("manage", c, "worker")
      /\ s[7] = Do("hook", c, "outbound") /\ s[8] = Do("hook", c, "writer")
      /\ s[9] = Do("manage", c, "writer")
      /\ s[10] = Do("wake", NoConn, "reader")
  BY DEF Manage
<1>2. \A x \in ManageSteps(c) : x \in Steps /\ Formed("acceptor", x)
  <2>1. \A a \in {"pending", "reader", "inbound", "worker", "outbound", "writer"} :
            Do("hook", c, a) \in Steps /\ Formed("acceptor", Do("hook", c, a))
    BY DEF Do, Steps, Pipe, Threads, Formed, AcceptorFormed
  <2>2. \A a \in {"worker", "writer"} :
            Do("manage", c, a) \in Steps /\ Formed("acceptor", Do("manage", c, a))
    BY DEF Do, Steps, Pipe, Threads, Formed, AcceptorFormed
  <2>3. /\ Do("offer", c, "reader") \in Steps /\ Formed("acceptor", Do("offer", c, "reader"))
        /\ Do("wake", NoConn, "reader") \in Steps
        /\ Formed("acceptor", Do("wake", NoConn, "reader"))
    BY DEF Do, Steps, Pipe, Threads, Formed, AcceptorFormed
  <2> QED
    BY <2>1, <2>2, <2>3 DEF ManageSteps
<1>3. s \in Seq(Steps)
  <2>1. /\ Do("offer", c, "reader") \in Steps /\ Do("wake", NoConn, "reader") \in Steps
        /\ Do("hook", c, "pending") \in Steps /\ Do("hook", c, "reader") \in Steps
        /\ Do("hook", c, "inbound") \in Steps /\ Do("hook", c, "worker") \in Steps
        /\ Do("hook", c, "outbound") \in Steps /\ Do("hook", c, "writer") \in Steps
        /\ Do("manage", c, "worker") \in Steps /\ Do("manage", c, "writer") \in Steps
    BY <1>2 DEF ManageSteps
  <2> QED
    BY <2>1 DEF Manage
<1> HIDE DEF s
<1>4. ToSet(s) = ManageSteps(c)
  <2>1. ToSet(s) = {s[1], s[2], s[3], s[4], s[5], s[6], s[7], s[8], s[9], s[10]}
    BY <1>1 DEF ToSet
  <2> QED
    BY <1>1, <2>1 DEF ManageSteps
<1>5. Ordered(s)
  <2>1. \A i \in 1..10 : s[i].op = CASE i = 1 -> "offer" [] i = 10 -> "wake"
                                     [] i \in {6, 9} -> "manage" [] OTHER -> "hook"
    BY <1>1, DoFields
  <2>2. s[6].arg = "worker" /\ s[9].arg = "writer"
    BY <1>1, DoFields
  <2>3. \A i, j \in {2, 3, 4, 5, 7, 8} : i # j => s[i].arg # s[j].arg
    BY <1>1, DoFields
  <2>4. SUFFICES ASSUME NEW i \in 1..10, NEW j \in 1..10, i < j
                 PROVE  MayPrecede(s[i], s[j])
    BY <1>1 DEF Ordered
  <2>5. s[j].op \in {"hook", "manage", "wake"} /\ s[i].op \in {"offer", "hook", "manage"}
    BY <2>1, <2>4
  <2>6. s[i].op = "manage" /\ s[i].arg = "writer" => s[j].op # "hook"
    BY <2>1, <2>2, <2>4
  <2>7. s[i].op = "hook" => s[i] # s[j]
    BY <2>1, <2>3, <2>4
  <2> QED
    BY <2>5, <2>6, <2>7 DEF MayPrecede
<1> QED
  BY <1>2, <1>3, <1>4, <1>5 DEF s

LEMMA AcceptGoes ==
    ASSUME Agendas, NEW c \in Conns, Accept(c)
    PROVE  Agendas' /\ Starts("acceptor", ManageSteps(c))
<1>1. "acceptor" \in Threads
  BY DEF Threads
<1>2. InLoop("acceptor") /\ agenda' = [agenda EXCEPT !["acceptor"] = Manage(c)]
  BY DEF Accept
<1>3. /\ Manage(c) \in Seq(Steps) /\ ToSet(Manage(c)) = ManageSteps(c) /\ Ordered(Manage(c))
      /\ \A x \in ToSet(Manage(c)) : Formed("acceptor", x)
  BY ManageOrdered
<1>4. Agendas' /\ Starts("acceptor", ToSet(Manage(c)))
  BY <1>1, <1>2, <1>3, StartSteps
<1> QED
  BY <1>3, <1>4

LEMMA StartOne ==
    ASSUME Agendas, NEW t \in Threads, InLoop(t), NEW x \in Steps,
           agenda' = [agenda EXCEPT ![t] = <<x>>], Formed(t, x)
    PROVE  Agendas' /\ Starts(t, {x})
<1>1. <<x>> \in Seq(Steps) /\ ToSet(<<x>>) = {x} /\ Ordered(<<x>>)
  BY SingleStep
<1>2. Agendas' /\ Starts(t, ToSet(<<x>>))
  BY <1>1, StartSteps
<1> QED
  BY <1>1, <1>2

LEMMA StartTwo ==
    ASSUME Agendas, NEW t \in Threads, InLoop(t), NEW w \in Steps, NEW x \in Steps,
           agenda' = [agenda EXCEPT ![t] = <<w, x>>], Formed(t, w), Formed(t, x),
           MayPrecede(w, x)
    PROVE  Agendas' /\ Starts(t, {w, x})
<1>1. <<w, x>> \in Seq(Steps) /\ ToSet(<<w, x>>) = {w, x} /\ Ordered(<<w, x>>)
  BY ShortElements, ShortOrdered
<1>2. Agendas' /\ Starts(t, ToSet(<<w, x>>))
  BY <1>1, StartSteps
<1> QED
  BY <1>1, <1>2

LEMMA AcceptorExitGoes ==
    ASSUME Agendas, AcceptorExit
    PROVE  Agendas' /\ Starts("acceptor", {Do("drain", NoConn, "nothing")})
<1>1. Do("drain", NoConn, "nothing") \in Steps /\ Formed("acceptor", Do("drain", NoConn, "nothing"))
  BY DEF Do, Steps, Formed, AcceptorFormed
<1>2. "acceptor" \in Threads
  BY DEF Threads
<1> QED
  BY <1>1, <1>2, StartOne DEF AcceptorExit

LEMMA ReaderManagesGoes ==
    ASSUME Agendas, NEW c \in Conns, ReaderManages(c)
    PROVE  Agendas' /\ Starts("reader", {Do("manage", c, "reader"), Do("load", c, "nothing")})
<1> DEFINE m == Do("manage", c, "reader")
           l == Do("load", c, "nothing")
<1>1. /\ "reader" \in Threads /\ InLoop("reader")
      /\ agenda' = [agenda EXCEPT !["reader"] = <<m, l>>]
  BY DEF Threads, Pipe, ReaderManages, ReaderTake
<1>2. /\ m \in Steps /\ Formed("reader", m) /\ m.op = "manage" /\ m.arg = "reader"
      /\ l \in Steps /\ Formed("reader", l) /\ l.op = "load"
  BY DEF Do, Steps, Threads, Pipe, Formed
<1>3. MayPrecede(m, l)
  BY <1>2 DEF MayPrecede
<1> HIDE DEF m, l
<1>4. Agendas' /\ Starts("reader", {m, l})
  BY <1>1, <1>2, <1>3, StartTwo
<1> QED
  BY <1>4 DEF m, l

LEMMA ReaderClosesGoes ==
    ASSUME Agendas, NEW c \in Conns, ReaderCloses(c)
    PROVE  Agendas' /\ Starts("reader", {Do("release", c, "reader")})
<1>1. /\ "reader" \in Threads /\ InLoop("reader")
      /\ agenda' = [agenda EXCEPT !["reader"] = <<Do("release", c, "reader")>>]
  BY DEF Threads, Pipe, ReaderCloses, ReaderTake
<1>2. /\ Do("release", c, "reader") \in Steps
      /\ Formed("reader", Do("release", c, "reader"))
  BY <1>1 DEF Do, Steps, Threads, Formed
<1> QED
  BY <1>1, <1>2, StartOne

LEMMA ClosesGoes ==
    ASSUME Agendas, NEW t \in {"worker", "writer"}, NEW c \in Conns, Closes(t, c)
    PROVE  Agendas' /\ Starts(t, {Do("purge", c, t), Do("release", c, t)})
<1> DEFINE p == Do("purge", c, t)
           r == Do("release", c, t)
<1>1. /\ t \in Threads /\ InLoop(t)
      /\ agenda' = [agenda EXCEPT ![t] = <<p, r>>]
  BY DEF Threads, Pipe, Closes, Take
<1>2. /\ p \in Steps /\ Formed(t, p) /\ p.op = "purge"
      /\ r \in Steps /\ Formed(t, r) /\ r.op = "release"
  BY <1>1 DEF Do, Steps, Threads, Pipe, Formed
<1>3. MayPrecede(p, r)
  BY <1>2 DEF MayPrecede
<1> HIDE DEF p, r
<1>4. Agendas' /\ Starts(t, {p, r})
  BY <1>1, <1>2, <1>3, StartTwo
<1> QED
  BY <1>4 DEF p, r

LEMMA ExitGoes ==
    ASSUME Agendas, NEW t \in Threads, NEW q \in {"worker", "writer"}, Ends(t, q), InLoop(t),
           agenda' = [agenda EXCEPT ![t] = End(q)]
    PROVE  Agendas' /\ Starts(t, {Do("exit", NoConn, q), Do("join", NoConn, q)})
<1>1. /\ End(q) \in Seq(Steps) /\ Ordered(End(q))
      /\ ToSet(End(q)) = {Do("exit", NoConn, q), Do("join", NoConn, q)}
      /\ \A x \in ToSet(End(q)) : Formed(t, x)
  BY EndSteps DEF Pipe
<1>2. Agendas' /\ Starts(t, ToSet(End(q)))
  BY <1>1, StartSteps
<1> QED
  BY <1>1, <1>2

LEMMA ReaderExitGoes ==
    ASSUME Agendas, ReaderExit
    PROVE  /\ Agendas'
           /\ Starts("reader", {Do("exit", NoConn, "worker"), Do("join", NoConn, "worker")})
<1>1. /\ "reader" \in Threads /\ Ends("reader", "worker") /\ InLoop("reader")
      /\ agenda' = [agenda EXCEPT !["reader"] = End("worker")]
  BY DEF Threads, Pipe, Ends, ReaderExit, ReaderTake
<1> QED
  BY <1>1, ExitGoes

LEMMA WorkerExitGoes ==
    ASSUME Agendas, WorkerExit
    PROVE  /\ Agendas'
           /\ Starts("worker", {Do("exit", NoConn, "writer"), Do("join", NoConn, "writer")})
<1>1. /\ "worker" \in Threads /\ Ends("worker", "writer") /\ InLoop("worker")
      /\ agenda' = [agenda EXCEPT !["worker"] = End("writer")]
  BY DEF Threads, Pipe, Ends, WorkerExit, Take
<1> QED
  BY <1>1, ExitGoes

LEMMA WorkerProcessesGoes ==
    ASSUME Agendas, NEW c \in Conns, NEW r \in Reactions, WorkerProcesses(c, r)
    PROVE  /\ Agendas'
           /\ \/ Starts("worker", {})
              \/ Starts("worker", {Do("write", c, "nothing")})
              \/ Starts("worker", {Do("state", c, "CLOSED")})
              \/ Starts("worker", {Do("state", c, "PENDING_CLOSE")})
<1>1. /\ "worker" \in Threads /\ InLoop("worker")
      /\ agenda' = [agenda EXCEPT !["worker"] = Reaction(r, c)]
  BY DEF Threads, Pipe, WorkerProcesses, Take
<1>2. r \in {"none", "write", "close", "finish"}
  BY ServerAssumption
<1>3. CASE r = "none"
  <2>1. agenda' = [agenda EXCEPT !["worker"] = <<>>]
    BY <1>1, <1>3 DEF Reaction
  <2>2. <<>> \in Seq(Steps) /\ ToSet(<<>>) = {} /\ Ordered(<<>>)
    BY EmptySeq, ShortElements, ShortOrdered
  <2>3. Agendas' /\ Starts("worker", ToSet(<<>>))
    BY <1>1, <2>1, <2>2, StartSteps
  <2> QED
    BY <2>2, <2>3
<1>4. CASE r = "write"
  <2>1. agenda' = [agenda EXCEPT !["worker"] = <<Do("write", c, "nothing")>>]
    BY <1>1, <1>4 DEF Reaction
  <2>2. Do("write", c, "nothing") \in Steps /\ Formed("worker", Do("write", c, "nothing"))
    BY DEF Do, Steps, Formed
  <2> QED
    BY <1>1, <2>1, <2>2, StartOne
<1>5. CASE r = "close"
  <2>1. agenda' = [agenda EXCEPT !["worker"] = <<Do("state", c, "CLOSED")>>]
    BY <1>1, <1>5 DEF Reaction
  <2>2. Do("state", c, "CLOSED") \in Steps /\ Formed("worker", Do("state", c, "CLOSED"))
    BY DEF Do, Steps, States, Formed
  <2> QED
    BY <1>1, <2>1, <2>2, StartOne
<1>6. CASE r = "finish"
  <2>1. agenda' = [agenda EXCEPT !["worker"] = <<Do("state", c, "PENDING_CLOSE")>>]
    BY <1>1, <1>6 DEF Reaction
  <2>2. /\ Do("state", c, "PENDING_CLOSE") \in Steps
        /\ Formed("worker", Do("state", c, "PENDING_CLOSE"))
    BY DEF Do, Steps, States, Formed
  <2> QED
    BY <1>1, <2>1, <2>2, StartOne
<1> QED
  BY <1>2, <1>3, <1>4, <1>5, <1>6

LEMMA WriterTakesGoes ==
    ASSUME Agendas, NEW c \in Conns, WriterTakes(c)
    PROVE  Agendas' /\ Starts("writer", {Do("send", c, "nothing")})
<1>1. /\ "writer" \in Threads /\ InLoop("writer")
      /\ agenda' = [agenda EXCEPT !["writer"] = <<Do("send", c, "nothing")>>]
  BY DEF Threads, Pipe, WriterTakes, Take
<1>2. Do("send", c, "nothing") \in Steps /\ Formed("writer", Do("send", c, "nothing"))
  BY DEF Do, Steps, Formed
<1> QED
  BY <1>1, <1>2, StartOne

LEMMA ReaderSelectGoes ==
    ASSUME Agendas, registered \in SUBSET Conns, ReaderSelect
    PROVE  /\ Agendas'
           /\ \A x \in Pending("reader")' :
                 x \in Steps /\ x.op = "read" /\ x.conn \in registered
           /\ \A u \in Threads \ {"reader"} : Pending(u)' = Pending(u)
<1> DEFINE n == Cardinality(Ready)
           steps == [i \in 1..n |-> Do("read", SetToSeq(Ready)[i], "nothing")]
           reads == {Do("read", c, "nothing") : c \in Ready}
<1>1. Ready \subseteq registered /\ Ready \subseteq Conns
  BY DEF Ready
<1>2. IsFiniteSet(Ready)
  BY <1>1, ServerAssumption, FS_Subset
<1>3. n \in Nat /\ SetToSeq(Ready) \in [1..n -> Ready]
  BY <1>2, SetToSeqProperties
<1>4. reads \subseteq Steps /\ \A x \in reads : x.op = "read" /\ x.conn \in Ready
  <2>1. \A c \in Ready : /\ Do("read", c, "nothing") \in Steps
                         /\ Do("read", c, "nothing").op = "read" /\ Do("read", c, "nothing").conn = c
    BY <1>1 DEF Do, Steps
  <2> QED
    BY <2>1
<1>5. agenda' = [agenda EXCEPT !["reader"] = steps] /\ "reader" \in Threads
  BY DEF ReaderSelect, Threads, Pipe
<1> HIDE DEF n
<1>6. steps \in [1..n -> reads]
  BY <1>3
<1> HIDE DEF steps, reads
<1>7. /\ steps \in Seq(Steps) /\ DOMAIN steps = 1..n
      /\ \A i \in 1..n : steps[i] \in reads
  BY <1>3, <1>4, <1>6, RewrittenProperties
<1>8. \A x \in ToSet(steps) : x \in reads
  BY <1>7 DEF ToSet
<1>9. Ordered(steps)
  BY <1>4, <1>7 DEF Ordered, MayPrecede
<1>10. \A x \in reads : Formed("reader", x)
  BY <1>1, <1>4 DEF Formed
<1>11. /\ Agendas' /\ Pending("reader")' = ToSet(steps)
       /\ \A u \in Threads \ {"reader"} : Pending(u)' = Pending(u)
  BY <1>5, <1>7, <1>8, <1>9, <1>10, NewAgenda
<1> QED
  BY <1>1, <1>4, <1>8, <1>11

-----------------------------------------------------------------------------
(* 3. Types                                                                *)

(* What comes of doing step d, each step x of it in front of the rest.     *)
Follows(d, x) ==
    \/ /\ x.conn = d.conn
       /\ \/ d.op = "state" /\ x.op = "lock" /\ x.arg = d.arg
          \/ d.op = "lock" /\ x.op = "unlock"
          \/ d.op = "lock" /\ d.arg = "CLOSED" /\ x.op = "fire"
          \/ d.op = "lock" /\ d.arg = "PENDING_CLOSE" /\ x.op = "tell" /\ x.arg = "pending"
          \/ d.op = "manage" /\ x.op = "state" /\ x.arg = "CONNECTED"
          \/ d.op = "fire" /\ x.op \in {"tell", "forget", "release", "unhook", "fire"}
          \/ d.op = "tell" /\ x.op = "release"
          \/ d.op \in {"read", "send"} /\ x.op = "state" /\ x.arg = "CLOSED"
          \/ d.op = "read" /\ x.op = "inbound"
          \/ d.op = "inbound" /\ x.op = "task"
          \/ d.op \in {"write", "send"} /\ x.op = "outbound"
    \/ d.op = "tell" /\ x.op = "wake" /\ x.conn = NoConn
    \/ d.op = "drain" /\ x.op \in {"disown", "release", "drain", "exit", "wake", "join"}
    \/ d.op = "drain" /\ x.op = "state" /\ x.arg = "CLOSED"

(* Thread t goes on to steps that follow the one it was at.                *)
Moves(t) ==
    /\ agenda[t] # <<>>
    /\ Rest(t) \subseteq Pending(t)'
    /\ \A x \in Pending(t)' : x \in Rest(t) \/ Follows(Due(t), x)
    /\ \A u \in Threads \ {t} : Pending(u)' = Pending(u)

LEMMA ConnectionStepMoves ==
    ASSUME TypeOK, Agendas, NEW t \in Threads,
           \/ ChangeState(t) \/ LockState(t) \/ UnlockState(t) \/ ManagedBy(t) \/ NoMoreUsed(t)
    PROVE  Moves(t)
<1>1. agenda[t] # <<>>
  BY DEF ChangeState, LockState, UnlockState, ManagedBy, NoMoreUsed, Does
<1>2. CASE ChangeState(t)
  <2>1. Due(t).op = "state"
    BY <1>2 DEF ChangeState, Does
  <2>2. \A x \in {Do("lock", Due(t).conn, Due(t).arg)} : Follows(Due(t), x)
    BY <2>1, DoFields DEF Follows
  <2> QED
    BY <1>1, <1>2, <2>2, ChangeStateGoes DEF Goes, Moves
<1>3. CASE LockState(t)
  <2>1. Due(t).op = "lock"
    BY <1>3 DEF LockState, Does
  <2>2. Follows(Due(t), Do("unlock", Due(t).conn, "nothing"))
    BY <2>1, DoFields DEF Follows
  <2>3. Due(t).arg = "CLOSED" => Follows(Due(t), Do("fire", Due(t).conn, "nothing"))
    BY <2>1, DoFields DEF Follows
  <2>4. Due(t).arg = "PENDING_CLOSE" => Follows(Due(t), Do("tell", Due(t).conn, "pending"))
    BY <2>1, DoFields DEF Follows
  <2> QED
    BY <1>1, <1>3, <2>2, <2>3, <2>4, LockStateGoes DEF Goes, Moves
<1>4. CASE UnlockState(t) \/ NoMoreUsed(t)
  BY <1>1, <1>4, NoStep DEF UnlockState, NoMoreUsed, Goes, Moves
<1>5. CASE ManagedBy(t)
  <2>1. Due(t).op = "manage"
    BY <1>5 DEF ManagedBy, Does
  <2>2. Follows(Due(t), Do("state", Due(t).conn, "CONNECTED"))
    BY <2>1, DoFields DEF Follows
  <2> QED
    BY <1>1, <1>5, <2>2, ManagedByGoes DEF Goes, Moves
<1> QED
  BY <1>2, <1>3, <1>4, <1>5

LEMMA CloseStepMoves ==
    ASSUME TypeOK, Agendas, NEW t \in Threads,
           \/ Offer(t) /\ ~exiting["reader"]
           \/ (AddHandler(t) \/ Disown(t)) /\ agenda' # agenda
           \/ WakeUp(t) \/ Drain(t)
           \/ FireClose(t) \/ RemoveHandler(t) \/ Forget(t) \/ Tell(t)
    PROVE  Moves(t)
<1>1. agenda[t] # <<>>
  BY DEF Offer, AddHandler, WakeUp, Drain, Disown, FireClose, RemoveHandler, Forget, Tell, Does
<1>2. CASE \/ Offer(t) /\ ~exiting["reader"]
           \/ (AddHandler(t) \/ Disown(t)) /\ agenda' # agenda
           \/ WakeUp(t) \/ RemoveHandler(t) \/ Forget(t)
  <2>1. Then(t, <<>>)
    BY <1>2 DEF Offer, AddHandler, WakeUp, Disown, RemoveHandler, Forget
  <2> QED
    BY <1>1, <2>1, NoStep DEF Goes, Moves
<1>3. CASE Drain(t)
  <2> DEFINE c == Head(accepted)
             d == Due(t)
  <2>1. d.op = "drain"
    BY <1>3 DEF Drain, Does
  <2>2. /\ Follows(d, Do("exit", NoConn, "reader"))
        /\ Follows(d, Do("wake", NoConn, "reader"))
        /\ Follows(d, Do("join", NoConn, "reader"))
    BY <2>1, DoFields DEF Follows
  <2>3. /\ Follows(d, Do("disown", c, "nothing"))
        /\ Follows(d, Do("state", c, "CLOSED"))
        /\ Follows(d, Do("release", c, "acceptor"))
        /\ Follows(d, Do("drain", NoConn, "nothing"))
    BY <2>1, DoFields DEF Follows
  <2>4. accepted \in Seq(Conns)
    BY DEF TypeOK
  <2> QED
    BY <1>1, <1>3, <2>2, <2>3, <2>4, DrainGoes DEF Goes, Moves
<1>4. CASE FireClose(t)
  <2> DEFINE c == Due(t).conn
             o == Head(handlers[c])
             d == Due(t)
  <2>1. d.op = "fire"
    BY <1>4 DEF FireClose, Does
  <2>2. /\ Follows(d, Do("unhook", c, o))
        /\ Follows(d, Do("fire", c, "nothing"))
        /\ Follows(d, Do("tell", c, o))
        /\ Follows(d, Do("forget", c, o))
        /\ Follows(d, Do("release", c, o))
    BY <2>1, DoFields DEF Follows
  <2>3. handlers \in [Conns -> Seq(Threads)]
    BY DEF TypeOK
  <2> QED
    BY <1>1, <1>4, <2>2, <2>3, FireCloseGoes DEF Goes, Moves
<1>5. CASE Tell(t)
  <2> DEFINE c == Due(t).conn
             q == IF Due(t).arg = "pending" THEN "reader" ELSE Due(t).arg
  <2>1. Due(t).op = "tell"
    BY <1>5 DEF Tell, Does
  <2>2. /\ Follows(Due(t), Do("wake", NoConn, "reader"))
        /\ Follows(Due(t), Do("release", c, q))
    BY <2>1, DoFields DEF Follows
  <2> QED
    BY <1>1, <1>5, <2>2, TellGoes DEF Goes, Moves
<1> QED
  BY <1>2, <1>3, <1>4, <1>5

LEMMA DataStepMoves ==
    ASSUME TypeOK, Agendas, NEW t \in Threads,
           \/ ReaderLoads(t) \/ Read(t) \/ Inbound(t) \/ EnqueueTask(t) \/ Purge(t)
           \/ WriteInterest(t) \/ EnqueueOutbound(t) \/ Write(t)
           \/ EnqueueExit(t) \/ Join(t)
    PROVE  Moves(t)
<1>1. agenda[t] # <<>>
  BY DEF ReaderLoads, Read, Inbound, EnqueueTask, Purge, WriteInterest, EnqueueOutbound, Write,
         EnqueueExit, Join, Does
<1>2. CASE \/ ReaderLoads(t) \/ EnqueueTask(t) \/ Purge(t) \/ EnqueueOutbound(t)
           \/ EnqueueExit(t) \/ Join(t)
  <2>1. Then(t, <<>>)
    BY <1>2 DEF ReaderLoads, EnqueueTask, Purge, EnqueueOutbound, EnqueueExit, Join
  <2> QED
    BY <1>1, <2>1, NoStep DEF Goes, Moves
<1>3. CASE Read(t)
  <2>1. Due(t).op = "read"
    BY <1>3 DEF Read, Does
  <2>2. /\ Follows(Due(t), Do("inbound", Due(t).conn, "nothing"))
        /\ Follows(Due(t), Do("state", Due(t).conn, "CLOSED"))
    BY <2>1, DoFields DEF Follows
  <2> QED
    BY <1>1, <1>3, <2>2, ReadGoes DEF Goes, Moves
<1>4. CASE Inbound(t)
  <2>1. Due(t).op = "inbound"
    BY <1>4 DEF Inbound, Does
  <2>2. Follows(Due(t), Do("task", Due(t).conn, "nothing"))
    BY <2>1, DoFields DEF Follows
  <2> QED
    BY <1>1, <1>4, <2>2, InboundGoes DEF Goes, Moves
<1>5. CASE WriteInterest(t)
  <2>1. Due(t).op = "write"
    BY <1>5 DEF WriteInterest, Does
  <2>2. Follows(Due(t), Do("outbound", Due(t).conn, "nothing"))
    BY <2>1, DoFields DEF Follows
  <2> QED
    BY <1>1, <1>5, <2>2, WriteInterestGoes DEF Goes, Moves
<1>6. CASE Write(t)
  <2>1. Due(t).op = "send"
    BY <1>6 DEF Write, Does
  <2>2. /\ Follows(Due(t), Do("outbound", Due(t).conn, "nothing"))
        /\ Follows(Due(t), Do("state", Due(t).conn, "CLOSED"))
    BY <2>1, DoFields DEF Follows
  <2> QED
    BY <1>1, <1>6, <2>2, WriteGoes DEF Goes, Moves
<1> QED
  BY <1>2, <1>3, <1>4, <1>5, <1>6

(* The step a thread does is the one it is at.                             *)
LEMMA Doing ==
    ASSUME NEW t \in Threads, Perform(t), ~UseFreed(t)
    PROVE  LET op == Due(t).op IN
           /\ agenda[t] # <<>> /\ Due(t).conn \notin freed /\ undefined = "no"
           /\ op = "state" <=> ChangeState(t)
           /\ op = "lock" <=> LockState(t)
           /\ op = "unlock" <=> UnlockState(t)
           /\ op = "manage" <=> ManagedBy(t)
           /\ op = "release" <=> NoMoreUsed(t)
           /\ op = "offer" <=> Offer(t)
           /\ op = "hook" <=> AddHandler(t)
           /\ op = "wake" <=> WakeUp(t)
           /\ op = "drain" <=> Drain(t)
           /\ op = "disown" <=> Disown(t)
           /\ op = "fire" <=> FireClose(t)
           /\ op = "unhook" <=> RemoveHandler(t)
           /\ op = "forget" <=> Forget(t)
           /\ op = "tell" <=> Tell(t)
           /\ op = "load" <=> ReaderLoads(t)
           /\ op = "read" <=> Read(t)
           /\ op = "inbound" <=> Inbound(t)
           /\ op = "task" <=> EnqueueTask(t)
           /\ op = "purge" <=> Purge(t)
           /\ op = "write" <=> WriteInterest(t)
           /\ op = "outbound" <=> EnqueueOutbound(t)
           /\ op = "send" <=> Write(t)
           /\ op = "exit" <=> EnqueueExit(t)
           /\ op = "join" <=> Join(t)
<1> DEFINE op == Due(t).op
<1>1. agenda[t] # <<>> /\ Due(t).conn \notin freed /\ undefined = "no"
  BY DEF Perform, ChangeState, LockState, UnlockState, ManagedBy, NoMoreUsed, Offer, AddHandler, WakeUp,
            Drain, Disown, FireClose, RemoveHandler, Forget, Tell, ReaderLoads, Read,
            Inbound, EnqueueTask, Purge, WriteInterest, EnqueueOutbound, Write, EnqueueExit, Join, Does
<1>2. /\ ChangeState(t) => op = "state"
      /\ LockState(t) => op = "lock"
      /\ UnlockState(t) => op = "unlock"
      /\ ManagedBy(t) => op = "manage"
      /\ NoMoreUsed(t) => op = "release"
      /\ Offer(t) => op = "offer"
  BY DEF ChangeState, LockState, UnlockState, ManagedBy, NoMoreUsed, Offer, Does
<1>3. /\ AddHandler(t) => op = "hook"
      /\ WakeUp(t) => op = "wake"
      /\ Drain(t) => op = "drain"
      /\ Disown(t) => op = "disown"
      /\ FireClose(t) => op = "fire"
      /\ RemoveHandler(t) => op = "unhook"
  BY DEF AddHandler, WakeUp, Drain, Disown, FireClose, RemoveHandler, Does
<1>4. /\ Forget(t) => op = "forget"
      /\ Tell(t) => op = "tell"
      /\ ReaderLoads(t) => op = "load"
      /\ Read(t) => op = "read"
      /\ Inbound(t) => op = "inbound"
      /\ EnqueueTask(t) => op = "task"
  BY DEF Forget, Tell, ReaderLoads, Read, Inbound, EnqueueTask, Does
<1>5. /\ Purge(t) => op = "purge"
      /\ WriteInterest(t) => op = "write"
      /\ EnqueueOutbound(t) => op = "outbound"
      /\ Write(t) => op = "send"
      /\ EnqueueExit(t) => op = "exit"
      /\ Join(t) => op = "join"
  BY DEF Purge, WriteInterest, EnqueueOutbound, Write, EnqueueExit, Join, Does
<1> HIDE DEF op
<1> QED
  BY <1>1, <1>2, <1>3, <1>4, <1>5 DEF Perform, op

(* Whatever a thread does, it goes on so, unless an undefined outcome      *)
(* stops everything, or the acceptor gives a connection up.                *)
LEMMA PerformMoves ==
    ASSUME TypeOK, Agendas, NEW t \in Threads, Perform(t)
    PROVE  \/ Moves(t)
           \/ UNCHANGED <<agenda, connection, phase, queues, reader, peer, told>>
           \/ Offer(t) /\ exiting["reader"]
<1>1. CASE UseFreed(t)
  BY <1>1 DEF UseFreed
<1>2. CASE (AddHandler(t) \/ Disown(t)) /\ agenda' = agenda
  <2>1. agenda \in [Threads -> Seq(Steps)] /\ agenda[t] # <<>>
    BY <1>2 DEF Agendas, AddHandler, Disown, Does
  <2>2. ~Then(t, <<>>)
    <3>1. SUFFICES ASSUME Then(t, <<>>) PROVE FALSE
      OBVIOUS
    <3>2. agenda[t] = <<>> \o Tail(agenda[t])
      BY <1>2, <2>1, <3>1 DEF Then
    <3>3. /\ agenda[t] \in Seq(Steps) /\ Tail(agenda[t]) \in Seq(Steps) /\ Len(agenda[t]) \in Nat
          /\ Len(Tail(agenda[t])) = Len(agenda[t]) - 1
      BY <2>1, TailProperties, LenProperties
    <3>4. <<>> \o Tail(agenda[t]) = Tail(agenda[t])
      BY <3>3, ConcatEmptySeq
    <3>5. Len(agenda[t]) = Len(Tail(agenda[t]))
      BY <3>2, <3>4
    <3> QED
      BY <3>3, <3>5
  <2> QED
    BY <1>2, <2>2 DEF AddHandler, Disown, connection
<1>3. CASE (AddHandler(t) \/ Disown(t)) /\ agenda' # agenda
  BY <1>3, CloseStepMoves
<1>4. CASE \/ ChangeState(t) \/ LockState(t) \/ UnlockState(t) \/ ManagedBy(t) \/ NoMoreUsed(t)
  BY <1>4, ConnectionStepMoves
<1>5. CASE \/ ReaderLoads(t) \/ Read(t) \/ Inbound(t) \/ EnqueueTask(t) \/ Purge(t)
           \/ WriteInterest(t) \/ EnqueueOutbound(t) \/ Write(t)
           \/ EnqueueExit(t) \/ Join(t)
  BY <1>5, DataStepMoves
<1>6. CASE \/ Offer(t) /\ ~exiting["reader"]
           \/ WakeUp(t) \/ Drain(t)
           \/ FireClose(t) \/ RemoveHandler(t) \/ Forget(t) \/ Tell(t)
  BY <1>6, CloseStepMoves
<1> QED
  BY <1>1, <1>2, <1>3, <1>4, <1>5, <1>6 DEF Perform

(* The agendas stay well formed and ordered, whatever is done.             *)
LEMMA AgendasStep ==
    ASSUME TypeOK, Agendas, [Next]_vars
    PROVE  Agendas'
<1>1. ASSUME UNCHANGED agenda
      PROVE  Agendas'
  BY <1>1 DEF Agendas, Pending
<1>2. CASE UNCHANGED vars
  BY <1>1, <1>2 DEF vars
<1>3. ASSUME NEW c \in Conns, PeerSends(c) \/ PeerCloses(c) \/ Accept(c)
      PROVE  Agendas'
  BY <1>1, <1>3, AcceptGoes DEF PeerSends, PeerCloses
<1>4. CASE AcceptorExit
  BY <1>4, AcceptorExitGoes
<1>5. ASSUME NEW t \in Threads, Perform(t)
      PROVE  Agendas'
  <2>1. ASSUME agenda[t] # <<>>, Then(t, <<>>)
        PROVE  Agendas'
    BY <2>1, NoStep
  <2>2. CASE ChangeState(t) \/ LockState(t) \/ ManagedBy(t) \/ Offer(t) \/ AddHandler(t)
    BY <2>2, ChangeStateGoes, LockStateGoes, ManagedByGoes, OfferGoes, AddHandlerGoes
  <2>3. CASE Drain(t) \/ Disown(t) \/ FireClose(t) \/ Tell(t)
    BY <2>3, DrainGoes, DisownGoes, FireCloseGoes, TellGoes DEF TypeOK
  <2>4. CASE Read(t) \/ Inbound(t) \/ WriteInterest(t) \/ Write(t)
    BY <2>4, ReadGoes, InboundGoes, WriteInterestGoes, WriteGoes
  <2>5. CASE UnlockState(t) \/ NoMoreUsed(t) \/ WakeUp(t) \/ RemoveHandler(t) \/ Forget(t)
    BY <2>1, <2>5 DEF UnlockState, NoMoreUsed, WakeUp, RemoveHandler, Forget, Does
  <2>6. CASE ReaderLoads(t) \/ EnqueueTask(t) \/ Purge(t) \/ EnqueueOutbound(t)
    BY <2>1, <2>6 DEF ReaderLoads, EnqueueTask, Purge, EnqueueOutbound, Does
  <2>7. CASE EnqueueExit(t) \/ Join(t)
    BY <2>1, <2>7 DEF EnqueueExit, Join, Does
  <2>8. CASE UseFreed(t)
    BY <1>1, <2>8 DEF UseFreed
  <2> QED
    BY <1>5, <2>2, <2>3, <2>4, <2>5, <2>6, <2>7, <2>8 DEF Perform
<1>6. CASE ReaderIdle
  BY <1>1, <1>6 DEF ReaderIdle
<1>7. CASE ReaderExit \/ ReaderSelect
  BY <1>7, ReaderExitGoes, ReaderSelectGoes DEF TypeOK
<1>8. ASSUME NEW c \in Conns, ReaderManages(c) \/ ReaderCloses(c) \/ ReaderNotes(c)
      PROVE  Agendas'
  BY <1>1, <1>8, ReaderManagesGoes, ReaderClosesGoes DEF ReaderNotes
<1>9. CASE WorkerStep
  BY <1>9, WorkerExitGoes, ClosesGoes, WorkerProcessesGoes DEF WorkerStep
<1>10. CASE WriterStep
  <2>1. CASE WriterExit
    BY <1>1, <2>1 DEF WriterExit
  <2> QED
    BY <1>10, <2>1, ClosesGoes, WriterTakesGoes DEF WriterStep
<1> QED
  BY <1>2, <1>3, <1>4, <1>5, <1>6, <1>7, <1>8, <1>9, <1>10 DEF Next, ReaderStep

(* What the actions need of a step: that it is about a connection, and     *)
(* what its argument is.                                                   *)
LEMMA DueArguments ==
    ASSUME Agendas, NEW t \in Threads, agenda[t] # <<>>
    PROVE  LET d == Due(t) IN
           /\ d.op \notin {"wake", "drain", "exit", "join"} => d.conn \in Conns
           /\ d.op \in {"wake", "drain", "exit", "join"} => d.conn = NoConn
           /\ d.op \in {"state", "lock"} => d.arg \in {"CONNECTED", "PENDING_CLOSE", "CLOSED"}
           /\ d.op \in {"unhook", "release"} => d.arg \in Threads
           /\ d.op = "forget" => d.arg = "acceptor"
           /\ d.op = "purge" => t \in {"worker", "writer"} /\ d.arg = t
           /\ d.op \in {"exit", "join"} => Ends(t, d.arg)
           /\ d.op = "load" => t = "reader"
           /\ d.op = "wake" => d.arg = "reader"
<1>1. Formed(t, Due(t))
  BY DueFacts
<1> QED
  BY <1>1 DEF Formed, AcceptorFormed

LEMMA ItemTyped ==
    ASSUME NEW c \in Conns \cup {NoConn},
           NEW type \in {"DATA", "TASK", "CLOSE", "PENDING_CLOSE", "OUTBOUND", "EXIT"}
    PROVE  Item(type, c) \in Items /\ Item(type, c).type = type /\ Item(type, c).conn = c
  BY DEF Item, Items

(* Putting an item in a queue, and taking one out.                         *)
LEMMA QueueTyped ==
    ASSUME queue \in [Pipe -> Seq(Items)], NEW q \in Pipe
    PROVE  /\ \A i \in Items : [queue EXCEPT ![q] = Append(@, i)] \in [Pipe -> Seq(Items)]
           /\ queue[q] # <<>> => [queue EXCEPT ![q] = Tail(@)] \in [Pipe -> Seq(Items)]
           /\ \A R : [queue EXCEPT ![q] = Without(@, R)] \in [Pipe -> Seq(Items)]
<1>1. queue[q] \in Seq(Items)
  OBVIOUS
<1>2. \A i \in Items : Append(queue[q], i) \in Seq(Items)
  BY <1>1, AppendProperties
<1>3. queue[q] # <<>> => Tail(queue[q]) \in Seq(Items)
  BY <1>1, HeadTailProperties
<1>4. \A R : Without(queue[q], R) \in Seq(Items)
  BY <1>1, WithoutProperties
<1> QED
  BY <1>2, <1>3, <1>4

LEMMA ConnectionStepTyped ==
    ASSUME TypeOK, Agendas, Agendas', NEW t \in Threads,
           \/ ChangeState(t) \/ LockState(t) \/ UnlockState(t) \/ ManagedBy(t) \/ NoMoreUsed(t)
    PROVE  TypeOK'
<1>1. agenda' \in [Threads -> Seq(Steps)]
  BY DEF Agendas
<1>2. agenda[t] # <<>>
  BY DEF ChangeState, LockState, UnlockState, ManagedBy, NoMoreUsed, Does
<1> DEFINE c == Due(t).conn
<1>3. CASE ChangeState(t)
  BY <1>1, <1>3 DEF ChangeState, TypeOK, connection, ownership, queues, reader, peer
<1>4. CASE LockState(t)
  <2>1. c \in Conns /\ Due(t).arg \in States
    BY <1>2, <1>4, DueArguments DEF LockState, Does, States
  <2>2. state' \in [Conns -> States] /\ holder' \in [Conns -> Threads \cup {NoThread}]
    BY <1>4, <2>1 DEF LockState, TypeOK
  <2> QED
    BY <1>1, <1>4, <2>2 DEF LockState, TypeOK, ownership, queues, reader, peer
<1>5. CASE UnlockState(t)
  <2>1. holder' \in [Conns -> Threads \cup {NoThread}]
    BY <1>5 DEF UnlockState, TypeOK
  <2> QED
    BY <1>1, <1>5, <2>1 DEF UnlockState, TypeOK, ownership, queues, reader, peer
<1>6. CASE ManagedBy(t)
  <2>1. c \in Conns /\ Due(t).arg \in Threads
    BY <1>6, ManagedByGoes DEF Threads
  <2>2. managedBy' \in [Conns -> SUBSET Threads]
    BY <1>6, <2>1 DEF ManagedBy, TypeOK
  <2> QED
    BY <1>1, <1>6, <2>2 DEF ManagedBy, TypeOK, queues, reader, peer
<1>7. CASE NoMoreUsed(t)
  <2>1. c \in Conns /\ Due(t).arg \in Threads
    BY <1>2, <1>7, DueArguments DEF NoMoreUsed, Does
  <2>2. closedBy' \in [Conns -> SUBSET Threads] /\ freed' \in SUBSET Conns
    <3>1. /\ closedBy \in [Conns -> SUBSET Threads] /\ freed \in SUBSET Conns
          /\ {} \in SUBSET Threads
      BY DEF TypeOK
    <3>2. closedBy[c] \cup {Due(t).arg} \in SUBSET Threads
      BY <2>1, <3>1
    <3>3. \E all \in SUBSET Threads : closedBy' = [closedBy EXCEPT ![c] = all]
      BY <1>7, <3>1, <3>2 DEF NoMoreUsed
    <3>4. freed' = freed \/ freed' = freed \cup {c}
      BY <1>7 DEF NoMoreUsed
    <3> QED
      BY <2>1, <3>1, <3>3, <3>4
  <2> QED
    BY <1>1, <1>7, <2>2 DEF NoMoreUsed, TypeOK, queues, reader, peer
<1> QED
  BY <1>3, <1>4, <1>5, <1>6, <1>7

LEMMA CloseStepTyped ==
    ASSUME TypeOK, Agendas, Agendas', NEW t \in Threads,
           \/ Offer(t) \/ AddHandler(t) \/ WakeUp(t) \/ Drain(t) \/ Disown(t)
           \/ FireClose(t) \/ RemoveHandler(t) \/ Forget(t) \/ Tell(t)
    PROVE  TypeOK'
<1>1. /\ agenda' \in [Threads -> Seq(Steps)]
      /\ handlers \in [Conns -> Seq(Threads)]
      /\ queue \in [Pipe -> Seq(Items)]
      /\ accepted \in Seq(Conns)
      /\ told \in [Conns -> [Threads -> Nat]]
  BY DEF Agendas, TypeOK
<1>2. agenda[t] # <<>>
  BY DEF Offer, AddHandler, WakeUp, Drain, Disown, FireClose, RemoveHandler, Forget, Tell, Does
<1> DEFINE c == Due(t).conn
<1>3. CASE Offer(t)
  <2>1. Item("DATA", c) \in Items /\ "reader" \in Pipe
    BY <1>3, OfferGoes, ItemTyped DEF Pipe
  <2>2. queue' \in [Pipe -> Seq(Items)]
    <3>1. [queue EXCEPT !["reader"] = Append(@, Item("DATA", c))] \in [Pipe -> Seq(Items)]
      BY <1>1, <2>1, QueueTyped
    <3> QED
      BY <1>1, <1>3, <3>1 DEF Offer
  <2> QED
    BY <1>1, <1>3, <2>2 DEF Offer, TypeOK, connection, ownership, reader, peer
<1>4. CASE AddHandler(t)
  <2>1. c \in Conns /\ Due(t).arg \in Pipe \cup {"pending", "inbound", "outbound"}
    BY <1>4, AddHandlerGoes
  <2>2. hooks' \in [Conns -> SUBSET {"pending", "inbound", "outbound"}]
    <3>1. /\ hooks \in [Conns -> SUBSET {"pending", "inbound", "outbound"}]
          /\ \/ hooks' = hooks
             \/ /\ Due(t).arg \notin Threads
                /\ hooks' = [hooks EXCEPT ![c] = @ \cup {Due(t).arg}]
      BY <1>4 DEF AddHandler, TypeOK
    <3>2. Due(t).arg \notin Threads => Due(t).arg \in {"pending", "inbound", "outbound"}
      BY <2>1 DEF Threads
    <3> QED
      BY <2>1, <3>1, <3>2
  <2>3. ASSUME Due(t).arg \in Threads
        PROVE  Append(handlers[c], Due(t).arg) \in Seq(Threads)
    BY <1>1, <2>1, <2>3, AppendProperties
  <2>4. handlers' \in [Conns -> Seq(Threads)]
    BY <1>1, <1>4, <2>1, <2>3 DEF AddHandler
  <2> QED
    BY <1>1, <1>4, <2>2, <2>4 DEF AddHandler, TypeOK, ownership, queues, reader, peer
<1>5. CASE WakeUp(t)
  BY <1>1, <1>5, ServerAssumption
  DEF WakeUp, TypeOK, connection, ownership, queues, reader, peer
<1>6. CASE Drain(t)
  <2>1. accepted' \in Seq(Conns)
    <3>1. accepted # <<>> => Tail(accepted) \in Seq(Conns)
      BY <1>1, HeadTailProperties
    <3> QED
      BY <1>1, <1>6, <3>1 DEF Drain
  <2> QED
    BY <1>1, <1>6, <2>1 DEF Drain, TypeOK, connection, ownership, reader, peer
<1>7. CASE Disown(t)
  <2>1. c \in Conns
    BY <1>7, DisownGoes
  <2>2. Without(handlers[c], {"acceptor"}) \in Seq(Threads)
    BY <1>1, <2>1, WithoutProperties
  <2>3. handlers' \in [Conns -> Seq(Threads)]
    BY <1>1, <1>7, <2>1, <2>2 DEF Disown
  <2> QED
    BY <1>1, <1>7, <2>3 DEF Disown, TypeOK, ownership, queues, reader, peer
<1>8. CASE FireClose(t)
  BY <1>1, <1>8 DEF FireClose, TypeOK, connection, ownership, queues, reader, peer
<1>9. CASE RemoveHandler(t)
  <2>1. c \in Conns
    BY <1>2, <1>9, DueArguments DEF RemoveHandler, Does
  <2>2. Without(handlers[c], {Due(t).arg}) \in Seq(Threads)
    BY <1>1, <2>1, WithoutProperties
  <2>3. handlers' \in [Conns -> Seq(Threads)]
    BY <1>1, <1>9, <2>1, <2>2 DEF RemoveHandler
  <2> QED
    BY <1>1, <1>9, <2>3 DEF RemoveHandler, TypeOK, ownership, queues, reader, peer
<1>10. CASE Forget(t)
  <2>1. c \in Conns /\ "acceptor" \in Threads
    BY <1>2, <1>10, DueArguments DEF Forget, Does, Threads
  <2>2. accepted' \in Seq(Conns)
    BY <1>1, <1>10, WithoutProperties DEF Forget
  <2>3. told' \in [Conns -> [Threads -> Nat]]
    BY <1>1, <1>10, <2>1 DEF Forget
  <2> QED
    BY <1>1, <1>10, <2>2, <2>3 DEF Forget, TypeOK, connection, ownership, reader, peer
<1>11. CASE Tell(t)
  <2> DEFINE q == IF Due(t).arg = "pending" THEN "reader" ELSE Due(t).arg
             type == IF Due(t).arg = "pending" THEN "PENDING_CLOSE" ELSE "CLOSE"
  <2>1. c \in Conns /\ q \in Pipe /\ q \in Threads
    BY <1>11, TellGoes DEF Threads
  <2>2. Item(type, c) \in Items
    BY <2>1, ItemTyped
  <2>3. queue' \in [Pipe -> Seq(Items)]
    <3>1. [queue EXCEPT ![q] = Append(@, Item(type, c))] \in [Pipe -> Seq(Items)]
      BY <1>1, <2>1, <2>2, QueueTyped
    <3> QED
      BY <1>1, <1>11, <3>1 DEF Tell
  <2>4. told' \in [Conns -> [Threads -> Nat]]
    <3>1. told' = told \/ told' = [told EXCEPT ![c] = [told[c] EXCEPT ![q] = told[c][q] + 1]]
      BY <1>11 DEF Tell
    <3>2. told \in [Conns -> [Threads -> Nat]] /\ told[c] \in [Threads -> Nat]
      BY <1>1, <2>1
    <3> HIDE DEF q
    <3>3. [told[c] EXCEPT ![q] = told[c][q] + 1] \in [Threads -> Nat]
      BY <2>1, <3>2
    <3> QED
      BY <2>1, <3>1, <3>2, <3>3
  <2>5. hooks' \in [Conns -> SUBSET {"pending", "inbound", "outbound"}]
    BY <1>11, <2>1 DEF Tell, TypeOK
  <2> QED
    BY <1>1, <1>11, <2>3, <2>4, <2>5 DEF Tell, TypeOK, ownership, reader, peer
<1> QED
  BY <1>3, <1>4, <1>5, <1>6, <1>7, <1>8, <1>9, <1>10, <1>11

LEMMA DataStepTyped ==
    ASSUME TypeOK, Agendas, Agendas', NEW t \in Threads,
           \/ ReaderLoads(t) \/ Read(t) \/ Inbound(t) \/ EnqueueTask(t) \/ Purge(t)
           \/ WriteInterest(t) \/ EnqueueOutbound(t) \/ Write(t)
           \/ EnqueueExit(t) \/ Join(t) \/ UseFreed(t)
    PROVE  TypeOK'
<1>1. /\ agenda' \in [Threads -> Seq(Steps)]
      /\ queue \in [Pipe -> Seq(Items)]
  BY DEF Agendas, TypeOK
<1> DEFINE c == Due(t).conn
<1>2. CASE ReaderLoads(t)
  BY <1>1, <1>2 DEF ReaderLoads, TypeOK, connection, ownership, queues, reader, peer
<1>3. CASE Read(t)
  <2>1. c \in Conns
    BY <1>3, ReadGoes
  <2>2. inbox' \in [Conns -> 0..MaxData]
    <3>1. /\ inbox \in [Conns -> 0..MaxData] /\ MaxData \in Nat
          /\ \/ inbox' = inbox
             \/ inbox[c] > 0 /\ inbox' = [inbox EXCEPT ![c] = @ - 1]
      BY <1>3, ServerAssumption DEF Read, TypeOK
    <3>2. inbox[c] > 0 => inbox[c] - 1 \in 0..MaxData
      BY <2>1, <3>1
    <3> QED
      BY <2>1, <3>1, <3>2
  <2> QED
    BY <1>1, <1>3, <2>2 DEF Read, TypeOK, connection, ownership, queues, reader
<1>4. CASE Inbound(t) \/ WriteInterest(t) \/ Write(t)
  BY <1>1, <1>4
  DEF Inbound, WriteInterest, Write, TypeOK, connection, ownership, queues, reader, peer
<1>5. CASE EnqueueTask(t)
  <2>1. c \in Conns
    BY <1>5, DueArguments DEF EnqueueTask, Does
  <2>2. Item("TASK", c) \in Items /\ "worker" \in Pipe
    BY <2>1, ItemTyped DEF Pipe
  <2>3. queue' \in [Pipe -> Seq(Items)]
    BY <1>1, <1>5, <2>2, QueueTyped DEF EnqueueTask
  <2> QED
    BY <1>1, <1>5, <2>3 DEF EnqueueTask, TypeOK, connection, ownership, reader, peer
<1>6. CASE Purge(t)
  <2>1. Due(t).arg \in Pipe
    BY <1>6, DueArguments DEF Purge, Does, Pipe
  <2>2. queue' \in [Pipe -> Seq(Items)]
    BY <1>1, <1>6, <2>1, QueueTyped DEF Purge
  <2> QED
    BY <1>1, <1>6, <2>2 DEF Purge, TypeOK, connection, ownership, reader, peer
<1>7. CASE EnqueueOutbound(t)
  <2>1. c \in Conns
    BY <1>7, DueArguments DEF EnqueueOutbound, Does
  <2>2. Item("OUTBOUND", c) \in Items /\ "writer" \in Pipe
    BY <2>1, ItemTyped DEF Pipe
  <2>3. queue' \in [Pipe -> Seq(Items)]
    BY <1>1, <1>7, <2>2, QueueTyped DEF EnqueueOutbound
  <2> QED
    BY <1>1, <1>7, <2>3 DEF EnqueueOutbound, TypeOK, connection, ownership, reader, peer
<1>8. CASE EnqueueExit(t)
  <2>1. Due(t).arg \in Pipe
    BY <1>8, DueArguments DEF EnqueueExit, Does, Pipe, Ends
  <2>2. Item("EXIT", NoConn) \in Items
    BY ItemTyped
  <2>3. queue' \in [Pipe -> Seq(Items)] /\ exiting' \in [Pipe -> BOOLEAN]
    BY <1>1, <1>8, <2>1, <2>2, QueueTyped DEF EnqueueExit, TypeOK
  <2> QED
    BY <1>1, <1>8, <2>3 DEF EnqueueExit, TypeOK, connection, ownership, reader, peer
<1>9. CASE Join(t)
  BY <1>1, <1>9 DEF Join, TypeOK, connection, ownership, queues, reader, peer
<1>10. CASE UseFreed(t)
  BY <1>1, <1>10 DEF UseFreed, TypeOK, connection, ownership, queues, reader, peer
<1> QED
  BY <1>2, <1>3, <1>4, <1>5, <1>6, <1>7, <1>8, <1>9, <1>10

(* The reader reads no more than was sent.                                 *)
InboxFits == \A c \in Conns : inbox[c] <= sent[c]

LEMMA OtherStepTyped ==
    ASSUME TypeOK, Agendas, Agendas', InboxFits,
           \/ UNCHANGED vars \/ AcceptorExit \/ ReaderIdle \/ ReaderExit \/ ReaderSelect
           \/ WorkerExit \/ WriterExit
           \/ \E c \in Conns :
                 \/ PeerSends(c) \/ PeerCloses(c) \/ Accept(c)
                 \/ ReaderManages(c) \/ ReaderCloses(c) \/ ReaderNotes(c)
                 \/ Closes("worker", c) \/ Closes("writer", c) \/ WriterTakes(c)
                 \/ \E r \in Reactions : WorkerProcesses(c, r)
    PROVE  TypeOK'
<1>1. /\ agenda' \in [Threads -> Seq(Steps)]
      /\ queue \in [Pipe -> Seq(Items)]
      /\ phase \in [Threads -> {"run", "poll", "exit", "gone"}]
  BY DEF Agendas, TypeOK
<1>2. ASSUME NEW q \in Pipe, queue[q] # <<>>
      PROVE  [queue EXCEPT ![q] = Tail(@)] \in [Pipe -> Seq(Items)]
  BY <1>1, <1>2, QueueTyped
<1>3. CASE UNCHANGED vars
  BY <1>3 DEF vars, TypeOK, connection, ownership, queues, reader, peer
<1>4. CASE AcceptorExit \/ ReaderIdle
  <2>1. phase' \in [Threads -> {"run", "poll", "exit", "gone"}] /\ emptied' \in BOOLEAN
    BY <1>1, <1>4 DEF AcceptorExit, ReaderIdle, TypeOK, queues
  <2>2. CASE AcceptorExit
    BY <1>1, <2>1, <2>2 DEF AcceptorExit, TypeOK, connection, ownership, queues, reader, peer
  <2>3. CASE ReaderIdle
    BY <1>1, <2>1, <2>3 DEF ReaderIdle, TypeOK, connection, ownership, reader, peer
  <2> QED
    BY <1>4, <2>2, <2>3
<1>5. CASE ReaderExit
  <2>1. queue' \in [Pipe -> Seq(Items)] /\ emptied' \in BOOLEAN
    <3>1. /\ "reader" \in Pipe /\ queue["reader"] # <<>>
          /\ queue' = [queue EXCEPT !["reader"] = Tail(@)]
          /\ emptied' = (Tail(queue["reader"]) = <<>>)
      BY <1>5 DEF ReaderExit, ReaderTake, Pipe
    <3> QED
      BY <1>2, <3>1
  <2> QED
    BY <1>1, <1>5, <2>1
    DEF ReaderExit, TypeOK, connection, ownership, reader, peer
<1>6. CASE ReaderSelect
  <2>1. pipe' \in 0..PipeSize
    <3>1. /\ pipe \in 0..PipeSize /\ PipeSize \in Nat
          /\ pipe' = IF pipe > 0 THEN pipe - 1 ELSE 0
      BY <1>6, ServerAssumption DEF ReaderSelect, TypeOK
    <3> QED
      BY <3>1
  <2> QED
    BY <1>1, <1>6, <2>1 DEF ReaderSelect, TypeOK, connection, ownership, queues, peer
<1>7. CASE WorkerExit \/ WriterExit
  <2>1. ASSUME NEW q \in Pipe, NEW item, Take(q, item)
        PROVE  queue' \in [Pipe -> Seq(Items)]
    <3>1. queue[q] # <<>> /\ queue' = [queue EXCEPT ![q] = Tail(@)]
      BY <2>1 DEF Take
    <3> QED
      BY <1>2, <3>1
  <2>2. queue' \in [Pipe -> Seq(Items)]
    BY <1>7, <2>1 DEF WorkerExit, WriterExit, Pipe
  <2>3. phase' \in [Threads -> {"run", "poll", "exit", "gone"}]
    BY <1>7 DEF WorkerExit, WriterExit, TypeOK
  <2>4. UNCHANGED <<connection, exiting, emptied, accepted, reader, peer, told, undefined>>
    BY <1>7 DEF WorkerExit, WriterExit
  <2> QED
    BY <1>1, <2>2, <2>3, <2>4 DEF TypeOK, connection, ownership, reader, peer
<1>8. ASSUME NEW c \in Conns, PeerSends(c)
      PROVE  TypeOK'
  <2>1. inbox' \in [Conns -> 0..MaxData] /\ sent' \in [Conns -> 0..MaxData]
    <3>1. /\ inbox \in [Conns -> 0..MaxData] /\ sent \in [Conns -> 0..MaxData]
          /\ MaxData \in Nat /\ inbox[c] <= sent[c] /\ sent[c] < MaxData
          /\ inbox' = [inbox EXCEPT ![c] = @ + 1] /\ sent' = [sent EXCEPT ![c] = @ + 1]
      BY <1>8, ServerAssumption DEF PeerSends, TypeOK, InboxFits
    <3>2. inbox[c] + 1 \in 0..MaxData /\ sent[c] + 1 \in 0..MaxData
      BY <3>1
    <3> QED
      BY <3>1, <3>2
  <2> QED
    BY <1>1, <1>8, <2>1 DEF PeerSends, TypeOK, connection, ownership, queues, reader
<1>9. ASSUME NEW c \in Conns, PeerCloses(c)
      PROVE  TypeOK'
  BY <1>1, <1>9 DEF PeerCloses, TypeOK, connection, ownership, queues, reader
<1>10. ASSUME NEW c \in Conns, Accept(c)
       PROVE  TypeOK'
  <2>1. accepted' \in Seq(Conns)
    BY <1>10, AppendProperties DEF Accept, TypeOK
  <2>2. <<"acceptor">> \in Seq(Threads)
    BY DEF Threads
  <2>3. handlers' \in [Conns -> Seq(Threads)] /\ state' \in [Conns -> States]
    BY <1>10, <2>2 DEF Accept, TypeOK, States
  <2> QED
    BY <1>1, <1>10, <2>1, <2>3 DEF Accept, TypeOK, ownership, reader, peer
<1>11. ASSUME NEW c \in Conns, ReaderManages(c) \/ ReaderCloses(c) \/ ReaderNotes(c)
       PROVE  TypeOK'
  <2>1. queue' \in [Pipe -> Seq(Items)] /\ emptied' \in BOOLEAN
    BY <1>2, <1>11 DEF ReaderManages, ReaderCloses, ReaderNotes, ReaderTake, Pipe
  <2>2. registered' \in SUBSET Conns /\ load' \in Int
    <3>1. registered \in SUBSET Conns /\ load \in Int
      BY DEF TypeOK
    <3>2. /\ registered' \in {registered, registered \cup {c}, registered \ {c}}
          /\ load' \in {load, load - 1}
      BY <1>11 DEF ReaderManages, ReaderCloses, ReaderNotes, reader
    <3> QED
      BY <3>1, <3>2
  <2> QED
    BY <1>1, <1>11, <2>1, <2>2
    DEF ReaderManages, ReaderCloses, ReaderNotes, TypeOK, connection, ownership, reader, peer
<1>12. ASSUME NEW c \in Conns, NEW t \in {"worker", "writer"}, Closes(t, c)
       PROVE  TypeOK'
  <2>1. queue' \in [Pipe -> Seq(Items)]
    BY <1>2, <1>12 DEF Closes, Take, Pipe
  <2> QED
    BY <1>1, <1>12, <2>1 DEF Closes, TypeOK, connection, ownership, reader, peer
<1>13. ASSUME NEW c \in Conns, NEW r \in Reactions, WorkerProcesses(c, r)
       PROVE  TypeOK'
  <2>1. queue' \in [Pipe -> Seq(Items)]
    BY <1>2, <1>13 DEF WorkerProcesses, Take, Pipe
  <2> QED
    BY <1>1, <1>13, <2>1
    DEF WorkerProcesses, TypeOK, connection, ownership, reader, peer
<1>14. ASSUME NEW c \in Conns, WriterTakes(c)
       PROVE  TypeOK'
  <2>1. queue' \in [Pipe -> Seq(Items)]
    BY <1>2, <1>14 DEF WriterTakes, Take, Pipe
  <2> QED
    BY <1>1, <1>14, <2>1 DEF WriterTakes, TypeOK, connection, ownership, reader, peer
<1> QED
  BY <1>3, <1>4, <1>5, <1>6, <1>7, <1>8, <1>9, <1>10, <1>11, <1>12, <1>13, <1>14

LEMMA TypedStep ==
    ASSUME TypeOK, Agendas, InboxFits, [Next]_vars
    PROVE  TypeOK' /\ Agendas' /\ InboxFits'
<1>1. Agendas'
  BY AgendasStep
<1>2. TypeOK'
  <2>1. ASSUME NEW t \in Threads, Perform(t)
        PROVE  TypeOK'
    BY <1>1, <2>1, ConnectionStepTyped, CloseStepTyped, DataStepTyped DEF Perform
  <2>2. CASE ~ \E t \in Threads : Perform(t)
    BY <1>1, <2>2, OtherStepTyped DEF Next, ReaderStep, WorkerStep, WriterStep
  <2> QED
    BY <2>1, <2>2
<1>3. InboxFits'
  <2>1. ASSUME NEW c \in Conns, PeerSends(c)
        PROVE  InboxFits'
    <3>1. /\ inbox \in [Conns -> 0..MaxData] /\ sent \in [Conns -> 0..MaxData]
          /\ MaxData \in Nat
          /\ inbox' = [inbox EXCEPT ![c] = @ + 1] /\ sent' = [sent EXCEPT ![c] = @ + 1]
      BY <2>1, ServerAssumption DEF PeerSends, TypeOK
    <3>2. \A d \in Conns : inbox[d] \in Int /\ sent[d] \in Int /\ inbox[d] <= sent[d]
      BY <3>1 DEF InboxFits
    <3> QED
      BY <3>1, <3>2 DEF InboxFits
  <2>2. ASSUME NEW t \in Threads, Read(t)
        PROVE  InboxFits'
    <3>1. /\ inbox \in [Conns -> 0..MaxData] /\ sent \in [Conns -> 0..MaxData]
          /\ MaxData \in Nat /\ sent' = sent
          /\ \/ inbox' = inbox
             \/ inbox' = [inbox EXCEPT ![Due(t).conn] = @ - 1]
      BY <2>2, ServerAssumption DEF Read, TypeOK
    <3>2. \A d \in Conns : inbox[d] \in Int /\ sent[d] \in Int /\ inbox[d] <= sent[d]
      BY <3>1 DEF InboxFits
    <3> QED
      BY <3>1, <3>2 DEF InboxFits
  <2>3. CASE UNCHANGED <<inbox, sent>>
    BY <2>3 DEF InboxFits
  <2>4. ASSUME NEW t \in Threads, Perform(t), ~Read(t)
        PROVE  UNCHANGED <<inbox, sent>>
    BY <2>4 DEF Perform, ChangeState, LockState, UnlockState, ManagedBy, NoMoreUsed, Offer,
                AddHandler, WakeUp, Drain, Disown, FireClose, RemoveHandler, Forget, Tell,
                ReaderLoads, Inbound, EnqueueTask, Purge, WriteInterest, EnqueueOutbound,
                Write, EnqueueExit, Join, UseFreed, peer
  <2>5. ASSUME ReaderStep \/ WorkerStep \/ WriterStep \/ ReaderSelect \/ AcceptorExit
        PROVE  UNCHANGED <<inbox, sent>>
    BY <2>5 DEF ReaderStep, WorkerStep, WriterStep, ReaderSelect, AcceptorExit, ReaderIdle,
                ReaderExit, ReaderManages, ReaderCloses, ReaderNotes, WorkerExit, Closes,
                WorkerProcesses, WriterExit, WriterTakes, peer
  <2>6. ASSUME NEW c \in Conns, PeerCloses(c) \/ Accept(c)
        PROVE  UNCHANGED <<inbox, sent>>
    BY <2>6 DEF PeerCloses, Accept, peer
  <2>7. ASSUME UNCHANGED vars
        PROVE  UNCHANGED <<inbox, sent>>
    BY <2>7 DEF vars, peer
  <2> QED
    BY <2>1, <2>2, <2>3, <2>4, <2>5, <2>6, <2>7 DEF Next
<1> QED
  BY <1>1, <1>2, <1>3

LEMMA TypedInit ==
    ASSUME Init
    PROVE  TypeOK /\ Agendas /\ InboxFits
<1>1. Agendas
  <2>1. agenda = [t \in Threads |-> <<>>]
    BY DEF Init
  <2>2. \A t \in Threads : agenda[t] = <<>> /\ Pending(t) = {}
    BY <2>1, ShortElements DEF Pending
  <2>3. agenda \in [Threads -> Seq(Steps)]
    BY <2>1, EmptySeq
  <2> QED
    BY <2>2, <2>3, ShortOrdered DEF Agendas
<1>2. TypeOK
  <2>1. /\ agenda \in [Threads -> Seq(Steps)]
        /\ handlers \in [Conns -> Seq(Threads)]
        /\ queue \in [Pipe -> Seq(Items)]
        /\ accepted \in Seq(Conns)
    BY EmptySeq DEF Init
  <2>2. /\ state \in [Conns -> States]
        /\ holder \in [Conns -> Threads \cup {NoThread}]
        /\ hooks \in [Conns -> SUBSET {"pending", "inbound", "outbound"}]
        /\ managedBy \in [Conns -> SUBSET Threads]
        /\ closedBy \in [Conns -> SUBSET Threads]
        /\ freed \in SUBSET Conns
    BY DEF Init, States, Threads
  <2>3. /\ phase \in [Threads -> {"run", "poll", "exit", "gone"}]
        /\ exiting \in [Pipe -> BOOLEAN]
        /\ emptied \in BOOLEAN
        /\ registered \in SUBSET Conns
        /\ undefined \in {"no", "freed", "race"}
    BY DEF Init
  <2>4. /\ pipe \in 0..PipeSize
        /\ load \in Int
        /\ inbox \in [Conns -> 0..MaxData]
        /\ sent \in [Conns -> 0..MaxData]
    BY ServerAssumption DEF Init
  <2>5. /\ eof \in [Conns -> BOOLEAN]
        /\ told \in [Conns -> [Threads -> Nat]]
    BY DEF Init
  <2> QED
    BY <2>1, <2>2, <2>3, <2>4, <2>5 DEF TypeOK
<1>3. InboxFits
  BY DEF Init, InboxFits
<1> QED
  BY <1>1, <1>2, <1>3

LEMMA AlwaysTyped == Spec => [](TypeOK /\ Agendas)
<1>1. Init => TypeOK /\ Agendas /\ InboxFits
  BY TypedInit
<1>2. TypeOK /\ Agendas /\ InboxFits /\ [Next]_vars => (TypeOK /\ Agendas /\ InboxFits)'
  BY TypedStep
<1> QED
  BY <1>1, <1>2, PTL DEF Spec

(* Every variable keeps its type, and so do the steps and the items that   *)
(* are queued, however the threads are scheduled: in particular the pipe   *)
(* of the reader never holds more bytes than it can (SelectorWakeUp).      *)
THEOREM ServerTyped == Spec => []TypeOK
  BY AlwaysTyped, PTL

-----------------------------------------------------------------------------
(* 4. Threads end in order                                                 *)

(* What is in the queue of thread q.                                       *)
Inside(q) == ToSet(queue[q])

LEMMA Enqueued ==
    ASSUME queue \in [Pipe -> Seq(Items)], NEW q \in Pipe, NEW i \in Items,
           queue' = [queue EXCEPT ![q] = Append(@, i)]
    PROVE  /\ Inside(q)' = Inside(q) \cup {i}
           /\ \A p \in Pipe \ {q} : queue'[p] = queue[p] /\ Inside(p)' = Inside(p)
<1>1. ToSet(Append(queue[q], i)) = ToSet(queue[q]) \cup {i}
  BY AppendElements
<1> QED
  BY <1>1 DEF Inside

LEMMA Dequeued ==
    ASSUME queue \in [Pipe -> Seq(Items)], NEW q \in Pipe, queue[q] # <<>>,
           queue' = [queue EXCEPT ![q] = Tail(@)]
    PROVE  /\ Inside(q) = Inside(q)' \cup {Head(queue[q])}
           /\ \A p \in Pipe \ {q} : queue'[p] = queue[p] /\ Inside(p)' = Inside(p)
<1>1. ToSet(queue[q]) = {Head(queue[q])} \cup ToSet(Tail(queue[q]))
  BY HeadTailElements
<1> QED
  BY <1>1 DEF Inside

LEMMA HeadInside ==
    ASSUME queue \in [Pipe -> Seq(Items)], NEW q \in Pipe, queue[q] # <<>>
    PROVE  Head(queue[q]) \in Inside(q) /\ Head(queue[q]) \in Items
<1>1. /\ ToSet(queue[q]) = {Head(queue[q])} \cup ToSet(Tail(queue[q]))
      /\ queue[q] \in Seq(Items)
  BY HeadTailElements
<1> QED
  BY <1>1, HeadTailProperties DEF Inside

LEMMA Purged ==
    ASSUME queue \in [Pipe -> Seq(Items)], NEW q \in Pipe, NEW R,
           queue' = [queue EXCEPT ![q] = Without(@, R)]
    PROVE  /\ Inside(q)' \subseteq Inside(q)
           /\ \A p \in Pipe \ {q} : queue'[p] = queue[p] /\ Inside(p)' = Inside(p)
<1>1. ToSet(Without(queue[q], R)) \subseteq ToSet(queue[q])
  BY WithoutProperties
<1> QED
  BY <1>1 DEF Inside

HasExit(q) == \E i \in Inside(q) : i.type = "EXIT"

(* A thread's queue takes nothing more only once its predecessor has put   *)
(* EXIT in it, which then has nothing left to do but wake and join; EXIT   *)
(* and the end of the thread come after that; and a thread that is gone    *)
(* has joined its successor.                                               *)
ChainAt(t, q) ==
    /\ exiting[q] => /\ phase[t] \in {"exit", "gone"}
                     /\ \A x \in Pending(t) : x.op \in {"wake", "join"}
    /\ HasExit(q) \/ phase[q] \in {"exit", "gone"} => exiting[q]
    /\ phase[t] = "gone" => phase[q] = "gone"

Ended(t) ==
    /\ phase[t] \in {"gone", "poll"} => Pending(t) = {}
    /\ \A x \in Pending(t) : x.op \in {"exit", "join", "drain"} => phase[t] = "exit"

Chain ==
    /\ ChainAt("acceptor", "reader") /\ ChainAt("reader", "worker") /\ ChainAt("worker", "writer")
    /\ \A t \in Threads : Ended(t)


(* A step that is not about the end of the threads.                        *)
LEMMA ChainMoves ==
    ASSUME Chain, Agendas, NEW t \in Threads, Moves(t), Due(t).op \notin {"exit", "join"},
           UNCHANGED <<phase, exiting>>,
           \A q \in Pipe : HasExit(q)' => HasExit(q)
    PROVE  Chain'
<1>1. /\ Due(t) \in Pending(t) /\ Rest(t) \subseteq Pending(t)
      /\ \A y \in Rest(t) : MayPrecede(Due(t), y)
  BY DueFacts DEF Moves
<1>2. /\ \A x \in Pending(t)' : x \in Rest(t) \/ Follows(Due(t), x)
      /\ \A u \in Threads \ {t} : Pending(u)' = Pending(u)
  BY DEF Moves
<1>3. /\ \A x : Follows(Due(t), x) => Due(t).op # "wake"
      /\ \A x : Follows(Due(t), x) /\ x.op \in {"exit", "join", "drain"} => Due(t).op = "drain"
  BY DEF Follows
<1>4. ASSUME NEW u \in Threads, NEW q \in Pipe, ChainAt(u, q)
      PROVE  ChainAt(u, q)'
  <2>1. exiting[q] => \A x \in Pending(u)' : x.op \in {"wake", "join"}
    BY <1>1, <1>2, <1>3, <1>4 DEF ChainAt
  <2> QED
    BY <1>4, <2>1 DEF ChainAt
<1>5. ASSUME NEW u \in Threads
      PROVE  Ended(u)'
  <2>1. phase[u] \in {"gone", "poll"} => Pending(u)' = {}
    BY <1>1, <1>2 DEF Chain, Ended
  <2>2. \A x \in Pending(u)' : x.op \in {"exit", "join", "drain"} => phase[u] = "exit"
    BY <1>1, <1>2, <1>3 DEF Chain, Ended
  <2> QED
    BY <2>1, <2>2 DEF Ended
<1> QED
  BY <1>4, <1>5 DEF Chain, Pipe, Threads

LEMMA ChainUnchanged ==
    ASSUME Chain, Agendas, UNCHANGED <<agenda, phase, exiting>>,
           \A q \in Pipe : HasExit(q)' => HasExit(q)
    PROVE  Chain'
<1>1. \A u \in Threads : Pending(u)' = Pending(u)
  BY DEF Pending
<1>2. ASSUME NEW u \in Threads, NEW q \in Pipe, ChainAt(u, q)
      PROVE  ChainAt(u, q)'
  BY <1>1, <1>2 DEF ChainAt
<1> QED
  BY <1>1, <1>2 DEF Chain, Ended, Pipe, Threads

(* A thread takes what it does next from its queue.                        *)
LEMMA ChainTurns ==
    ASSUME TypeOK, Chain, NEW t \in Threads, phase[t] \in {"run", "poll"},
           NEW p \in {"run", "poll", "exit", "gone"}, phase' = [phase EXCEPT ![t] = p],
           UNCHANGED exiting, \A q \in Pipe : HasExit(q)' => HasExit(q),
           \A u \in Threads \ {t} : Pending(u)' = Pending(u),
           \A x \in Pending(t)' : x.op \in {"exit", "join", "drain"} => p = "exit",
           p \in {"exit", "gone"} => t = "acceptor" \/ HasExit(t),
           p = "gone" => t = "writer", p \in {"gone", "poll"} => Pending(t)' = {}
    PROVE  Chain'
<1>1. phase'[t] = p /\ \A u \in Threads \ {t} : phase'[u] = phase[u]
  BY DEF TypeOK
<1>2. ASSUME NEW u \in Threads, NEW q \in Pipe, ChainAt(u, q), Ends(u, q)
      PROVE  ChainAt(u, q)'
  <2>1. exiting[q] => /\ phase'[u] \in {"exit", "gone"}
                      /\ \A x \in Pending(u)' : x.op \in {"wake", "join"}
    BY <1>1, <1>2 DEF ChainAt
  <2>2. HasExit(q)' \/ phase'[q] \in {"exit", "gone"} => exiting[q]
    BY <1>1, <1>2 DEF ChainAt, Pipe, Threads
  <2>3. phase'[u] = "gone" => phase'[q] = "gone"
    BY <1>1, <1>2 DEF ChainAt, Ends, Pipe, Threads
  <2> QED
    BY <2>1, <2>2, <2>3 DEF ChainAt
<1>3. ASSUME NEW u \in Threads
      PROVE  Ended(u)'
  BY <1>1 DEF Chain, Ended
<1>4. \A u \in Threads : Ended(u)'
  BY <1>3
<1>5. ChainAt("acceptor", "reader")'
  BY <1>2 DEF Chain, Pipe, Threads, Ends
<1>6. ChainAt("reader", "worker")'
  BY <1>2 DEF Chain, Pipe, Threads, Ends
<1>7. ChainAt("worker", "writer")'
  BY <1>2 DEF Chain, Pipe, Threads, Ends
<1> QED
  BY <1>4, <1>5, <1>6, <1>7 DEF Chain

(* Only EnqueueExitItem puts EXIT in a queue.                              *)
LEMMA ExitsPerform ==
    ASSUME TypeOK, Agendas, NEW t \in Threads, Perform(t), Due(t).op # "exit"
    PROVE  \A q \in Pipe : HasExit(q)' => HasExit(q)
<1>0. queue \in [Pipe -> Seq(Items)]
  BY DEF TypeOK
<1>1. ASSUME UNCHANGED queue
      PROVE  \A q \in Pipe : HasExit(q)' => HasExit(q)
  BY <1>1 DEF HasExit, Inside
<1>2. ASSUME NEW q \in Pipe, NEW i \in Items, i.type # "EXIT",
             queue' = [queue EXCEPT ![q] = Append(@, i)]
      PROVE  \A p \in Pipe : HasExit(p)' => HasExit(p)
  <2>1. Inside(q)' = Inside(q) \cup {i} /\ \A p \in Pipe \ {q} : Inside(p)' = Inside(p)
    BY <1>0, <1>2, Enqueued
  <2>2. HasExit(q)' => HasExit(q)
    BY <1>2, <2>1 DEF HasExit
  <2>3. \A p \in Pipe \ {q} : HasExit(p)' => HasExit(p)
    BY <2>1 DEF HasExit
  <2> QED
    BY <2>2, <2>3
<1>3. CASE Offer(t)
  <2>1. /\ Item("DATA", Due(t).conn) \in Items /\ Item("DATA", Due(t).conn).type # "EXIT"
        /\ "reader" \in Pipe
    BY <1>3, OfferGoes, ItemTyped DEF Pipe
  <2>2. \/ UNCHANGED queue
        \/ queue' = [queue EXCEPT !["reader"] = Append(@, Item("DATA", Due(t).conn))]
    BY <1>3 DEF Offer
  <2> QED
    BY <1>1, <1>2, <2>1, <2>2
<1>4. CASE Tell(t)
  <2> DEFINE q == IF Due(t).arg = "pending" THEN "reader" ELSE Due(t).arg
             type == IF Due(t).arg = "pending" THEN "PENDING_CLOSE" ELSE "CLOSE"
             i == Item(type, Due(t).conn)
  <2>1. q \in Pipe /\ i \in Items /\ i.type # "EXIT"
    <3>1. Due(t).conn \in Conns /\ q \in Pipe
      BY <1>4, TellGoes
    <3>2. type \in {"PENDING_CLOSE", "CLOSE"}
      OBVIOUS
    <3> HIDE DEF type
    <3>3. i \in Items /\ i.type = type
      BY <3>1, <3>2, ItemTyped
    <3> QED
      BY <3>1, <3>2, <3>3
  <2>2. queue' = queue \/ queue' = [queue EXCEPT ![q] = Append(@, i)]
    BY <1>4 DEF Tell
  <2> QED
    BY <1>1, <1>2, <2>1, <2>2
<1>5. CASE EnqueueTask(t) \/ EnqueueOutbound(t)
  <2>1. Due(t).conn \in Conns
    BY <1>5, DueArguments DEF EnqueueTask, EnqueueOutbound, Does
  <2>2. /\ Item("TASK", Due(t).conn) \in Items /\ Item("TASK", Due(t).conn).type # "EXIT"
        /\ Item("OUTBOUND", Due(t).conn) \in Items
        /\ Item("OUTBOUND", Due(t).conn).type # "EXIT"
        /\ "worker" \in Pipe /\ "writer" \in Pipe
    BY <2>1, ItemTyped DEF Pipe
  <2> QED
    BY <1>1, <1>2, <1>5, <2>2 DEF EnqueueTask, EnqueueOutbound
<1>6. CASE Purge(t)
  <2> DEFINE q == Due(t).arg
             R == [type : IF q = "worker" THEN {"TASK"} ELSE {"OUTBOUND", "CLOSE"}, conn : {Due(t).conn}]
  <2>1. q \in Pipe /\ queue' = [queue EXCEPT ![q] = Without(@, R)]
    BY <1>6, DueArguments DEF Purge, Does, Pipe
  <2> HIDE DEF q, R
  <2> QED
    BY <1>0, <2>1, Purged DEF HasExit
<1>7. CASE ~Offer(t) /\ ~Tell(t) /\ ~EnqueueTask(t) /\ ~EnqueueOutbound(t) /\ ~Purge(t)
  <2>1. UNCHANGED queue
    BY <1>7 DEF Perform, ChangeState, LockState, UnlockState, ManagedBy, NoMoreUsed,
                AddHandler, WakeUp, Drain, Disown, FireClose, RemoveHandler, Forget,
                ReaderLoads, Read, Inbound, WriteInterest, Write, EnqueueExit, Does, Join,
                UseFreed, queues
  <2> QED
    BY <1>1, <2>1
<1> QED
  BY <1>3, <1>4, <1>5, <1>6, <1>7

(* The loops only take items out of the queues.                            *)
LEMMA InsideOther ==
    ASSUME TypeOK, [Next]_vars, ~ \E t \in Threads : Perform(t)
    PROVE  \A q \in Pipe : Inside(q)' \subseteq Inside(q)
<1>1. ASSUME UNCHANGED queue
      PROVE  \A q \in Pipe : Inside(q)' \subseteq Inside(q)
  BY <1>1 DEF Inside
<1>2. ASSUME NEW q \in Pipe, queue[q] # <<>>, queue' = [queue EXCEPT ![q] = Tail(@)]
      PROVE  \A p \in Pipe : Inside(p)' \subseteq Inside(p)
  <2>1. queue \in [Pipe -> Seq(Items)]
    BY DEF TypeOK
  <2>2. /\ Inside(q) = Inside(q)' \cup {Head(queue[q])}
        /\ \A p \in Pipe \ {q} : Inside(p)' = Inside(p)
    BY <1>2, <2>1, Dequeued
  <2> QED
    BY <2>2
<1>3. ASSUME ReaderIdle \/ ReaderSelect \/ AcceptorExit \/ UNCHANGED vars
       PROVE  UNCHANGED queue
  BY <1>3 DEF ReaderIdle, ReaderSelect, AcceptorExit, queues, vars
<1>4. ASSUME NEW c \in Conns, PeerSends(c) \/ PeerCloses(c) \/ Accept(c)
       PROVE  UNCHANGED queue
  BY <1>4 DEF PeerSends, PeerCloses, Accept, queues
<1>5. ASSUME \/ ReaderExit
              \/ \E c \in Conns : ReaderManages(c) \/ ReaderCloses(c) \/ ReaderNotes(c)
       PROVE  \A q \in Pipe : Inside(q)' \subseteq Inside(q)
  BY <1>2, <1>5 DEF ReaderExit, ReaderManages, ReaderCloses, ReaderNotes, ReaderTake, Pipe
<1>6. ASSUME WorkerStep \/ WriterStep
       PROVE  \A q \in Pipe : Inside(q)' \subseteq Inside(q)
  BY <1>2, <1>6 DEF WorkerStep, WriterStep, WorkerExit, WriterExit, Closes, WorkerProcesses,
                     WriterTakes, Take, Pipe
<1> QED
  BY <1>1, <1>3, <1>4, <1>5, <1>6 DEF Next, ReaderStep

LEMMA ExitsOther ==
    ASSUME TypeOK, [Next]_vars, ~ \E t \in Threads : Perform(t)
    PROVE  \A q \in Pipe : HasExit(q)' => HasExit(q)
  BY InsideOther DEF HasExit

LEMMA ChainPerform ==
    ASSUME TypeOK, Agendas, Chain, NEW t \in Threads, Perform(t)
    PROVE  Chain'
<1>2. CASE EnqueueExit(t)
  <2> DEFINE q == Due(t).arg
             i == Item("EXIT", NoConn)
  <2>1. /\ agenda[t] # <<>> /\ Due(t).op = "exit"
        /\ exiting' = [exiting EXCEPT ![q] = TRUE]
        /\ queue' = [queue EXCEPT ![q] = Append(@, i)]
        /\ Then(t, <<>>) /\ phase' = phase
    BY <1>2 DEF EnqueueExit, Does
  <2>2. Ends(t, q) /\ q \in Pipe
    BY <2>1, DueArguments DEF Ends, Pipe
  <2>3. /\ Due(t) \in Pending(t) /\ Rest(t) \subseteq Pending(t)
        /\ \A y \in Rest(t) : y.op \in {"wake", "join"}
    BY <2>1, DueFacts DEF MayPrecede
  <2>4. phase[t] = "exit"
    BY <2>1, <2>3 DEF Chain, Ended
  <2>5. /\ Pending(t)' = Rest(t)
        /\ \A u \in Threads \ {t} : Pending(u)' = Pending(u)
    BY <2>1, NoStep DEF Goes
  <2>6. \A p \in Pipe \ {q} : HasExit(p)' = HasExit(p)
    <3>1. i \in Items
      BY ItemTyped
    <3>2. queue \in [Pipe -> Seq(Items)]
      BY DEF TypeOK
    <3> QED
      BY <2>1, <2>2, <3>1, <3>2, Enqueued DEF HasExit
  <2>7. /\ exiting'[q] = TRUE
        /\ \A p \in Pipe \ {q} : exiting'[p] = exiting[p]
    BY <2>1, <2>2 DEF TypeOK
  <2>8. ASSUME NEW u \in Threads, NEW p \in Pipe, Ends(u, p), ChainAt(u, p)
        PROVE  ChainAt(u, p)'
    <3>1. CASE p = q
      <4>1. u = t
        BY <2>2, <2>8, <3>1 DEF Ends
      <4> QED
        BY <2>1, <2>3, <2>4, <2>5, <2>7, <2>8, <3>1, <4>1 DEF ChainAt
    <3>2. CASE p # q
      <4>1. \A x \in Pending(u)' : x \in Pending(u)
        BY <2>3, <2>5
      <4> QED
        BY <2>1, <2>6, <2>7, <2>8, <3>2, <4>1 DEF ChainAt
    <3> QED
      BY <3>1, <3>2
  <2>9. ASSUME NEW u \in Threads
        PROVE  Ended(u)'
    BY <2>1, <2>3, <2>5 DEF Chain, Ended
  <2> QED
    BY <2>8, <2>9 DEF Chain, Pipe, Threads, Ends
<1>3. CASE Join(t)
  <2>1. /\ agenda[t] # <<>> /\ Due(t).op = "join" /\ phase[Due(t).arg] = "gone"
        /\ phase' = [phase EXCEPT ![t] = "gone"]
        /\ Then(t, <<>>) /\ UNCHANGED <<exiting, queue>>
    BY <1>3 DEF Join, Does, queues
  <2>2. Ends(t, Due(t).arg)
    BY <2>1, DueArguments
  <2>3. Due(t) \in Pending(t) /\ Rest(t) = {}
    BY <2>1, DueFacts DEF MayPrecede
  <2>4. phase[t] = "exit"
    BY <2>1, <2>3 DEF Chain, Ended
  <2>5. /\ Pending(t)' = {}
        /\ \A u \in Threads \ {t} : Pending(u)' = Pending(u)
    BY <2>1, <2>3, NoStep DEF Goes
  <2>6. \A p \in Pipe : HasExit(p)' = HasExit(p)
    BY <2>1 DEF HasExit, Inside
  <2>7. phase'[t] = "gone" /\ \A u \in Threads \ {t} : phase'[u] = phase[u]
    BY <2>1 DEF TypeOK
  <2>8. ASSUME NEW u \in Threads, NEW p \in Pipe, Ends(u, p), ChainAt(u, p)
        PROVE  ChainAt(u, p)'
    <3>1. exiting'[p] => phase'[u] \in {"exit", "gone"}
      BY <2>1, <2>7, <2>8 DEF ChainAt
    <3>2. exiting'[p] => \A x \in Pending(u)' : x.op \in {"wake", "join"}
      BY <2>1, <2>5, <2>8 DEF ChainAt
    <3>3. HasExit(p)' \/ phase'[p] \in {"exit", "gone"} => exiting'[p]
      BY <2>1, <2>4, <2>6, <2>7, <2>8 DEF ChainAt, Threads
    <3>4. phase'[u] = "gone" => phase'[p] = "gone"
      BY <2>1, <2>2, <2>7, <2>8 DEF ChainAt, Ends, Threads
    <3> QED
      BY <3>1, <3>2, <3>3, <3>4 DEF ChainAt
  <2>9. ASSUME NEW u \in Threads
        PROVE  Ended(u)'
    BY <2>5, <2>7 DEF Chain, Ended
  <2> QED
    BY <2>8, <2>9 DEF Chain, Pipe, Threads, Ends
<1>4. CASE Offer(t) /\ exiting["reader"]
  <2>1. agenda[t] # <<>> /\ Due(t).op = "offer" /\ t = "acceptor"
    BY <1>4, OfferGoes DEF Offer, Does
  <2> QED
    BY <1>4, <2>1, DueFacts DEF Chain, ChainAt
<1>5. CASE ~EnqueueExit(t) /\ ~Join(t) /\ ~UseFreed(t) /\ Moves(t)
  <2>1. Due(t).op \notin {"exit", "join"} /\ UNCHANGED <<phase, exiting>>
    BY <1>5 DEF Perform, ChangeState, LockState, UnlockState, ManagedBy, NoMoreUsed, Offer,
                AddHandler, WakeUp, Drain, Disown, FireClose, RemoveHandler, Forget, Tell,
                ReaderLoads, Read, Inbound, EnqueueTask, Purge, WriteInterest,
                EnqueueOutbound, Write, Does, queues
  <2>2. \A q \in Pipe : HasExit(q)' => HasExit(q)
    BY <2>1, ExitsPerform
  <2> QED
    BY <1>5, <2>1, <2>2, ChainMoves
<1>6. CASE UNCHANGED <<agenda, phase, queues>> \/ UseFreed(t)
  <2>1. \A q \in Pipe : HasExit(q)' => HasExit(q)
    BY <1>6 DEF UseFreed, HasExit, Inside, queues
  <2> QED
    BY <1>6, <2>1, ChainUnchanged DEF UseFreed, queues
<1> QED
  BY <1>2, <1>3, <1>4, <1>5, <1>6, PerformMoves

LEMMA ChainOther ==
    ASSUME TypeOK, Agendas, Chain, [Next]_vars, ~ \E t \in Threads : Perform(t)
    PROVE  Chain'
<1>1. \A q \in Pipe : HasExit(q)' => HasExit(q)
  BY ExitsOther
<1>2. /\ phase \in [Threads -> {"run", "poll", "exit", "gone"}]
      /\ Threads = {"reader", "worker", "writer", "acceptor"}
      /\ Pipe = {"reader", "worker", "writer"}
      /\ queue \in [Pipe -> Seq(Items)]
      /\ registered \in SUBSET Conns
  BY DEF TypeOK, Threads, Pipe
<1>3. ASSUME NEW t \in Threads, phase[t] = "run", UNCHANGED <<phase, exiting>>,
             \A u \in Threads \ {t} : Pending(u)' = Pending(u),
             \A x \in Pending(t)' : x.op \notin {"exit", "join", "drain"}
      PROVE  Chain'
  <2>1. phase' = [phase EXCEPT ![t] = "run"]
    BY <1>2, <1>3
  <2> QED
    BY <1>1, <1>3, <2>1, ChainTurns
<1>4. CASE UNCHANGED vars \/ \E c \in Conns : PeerSends(c) \/ PeerCloses(c) \/ ReaderNotes(c)
  <2>1. UNCHANGED <<agenda, phase, exiting>>
    BY <1>4 DEF vars, queues, PeerSends, PeerCloses, ReaderNotes
  <2> QED
    BY <1>1, <2>1, ChainUnchanged
<1>5. ASSUME NEW c \in Conns, Accept(c)
      PROVE  Chain'
  <2>1. phase["acceptor"] = "run" /\ UNCHANGED <<phase, exiting>> /\ Starts("acceptor", ManageSteps(c))
    BY <1>5, AcceptGoes DEF Accept, InLoop
  <2>2. \A x \in ManageSteps(c) : x.op \notin {"exit", "join", "drain"}
    BY DoFields DEF ManageSteps
  <2> QED
    BY <1>2, <1>3, <2>1, <2>2 DEF Starts
<1>6. CASE AcceptorExit
  <2>1. /\ phase["acceptor"] = "run" /\ UNCHANGED <<queues, exiting>>
        /\ phase' = [phase EXCEPT !["acceptor"] = "exit"]
        /\ Starts("acceptor", {Do("drain", NoConn, "nothing")})
    BY <1>6, AcceptorExitGoes DEF AcceptorExit, InLoop, queues
  <2> QED
    BY <1>1, <1>2, <2>1, ChainTurns DEF Starts
<1>7. CASE ReaderIdle
  <2>1. /\ phase["reader"] = "run" /\ UNCHANGED <<agenda, exiting>> /\ Pending("reader") = {}
        /\ phase' = [phase EXCEPT !["reader"] = "poll"]
    BY <1>7, ShortElements DEF ReaderIdle, InLoop, Pending
  <2>2. \A u \in Threads : Pending(u)' = Pending(u)
    BY <2>1 DEF Pending
  <2> QED
    BY <1>1, <1>2, <2>1, <2>2, ChainTurns
<1>8. CASE ReaderSelect
  <2>1. /\ phase["reader"] = "poll" /\ UNCHANGED exiting
        /\ phase' = [phase EXCEPT !["reader"] = "run"]
    BY <1>8 DEF ReaderSelect, queues
  <2>2. /\ \A x \in Pending("reader")' : x.op = "read"
        /\ \A u \in Threads \ {"reader"} : Pending(u)' = Pending(u)
    BY <1>2, <1>8, ReaderSelectGoes
  <2> QED
    BY <1>1, <1>2, <2>1, <2>2, ChainTurns
<1>9. ASSUME NEW c \in Conns, ReaderManages(c) \/ ReaderCloses(c)
      PROVE  Chain'
  <2>1. phase["reader"] = "run" /\ UNCHANGED <<phase, exiting>>
    BY <1>9 DEF ReaderManages, ReaderCloses, ReaderTake, InLoop
  <2>2. \/ Starts("reader", {Do("manage", c, "reader"), Do("load", c, "nothing")})
        \/ Starts("reader", {Do("release", c, "reader")})
    BY <1>9, ReaderManagesGoes, ReaderClosesGoes
  <2>3. /\ \A u \in Threads \ {"reader"} : Pending(u)' = Pending(u)
        /\ \A x \in Pending("reader")' : x.op \in {"manage", "load", "release"}
    BY <2>2, DoFields DEF Starts
  <2> QED
    BY <1>2, <1>3, <2>1, <2>3
<1>10. CASE ReaderExit
  <2>1. /\ phase["reader"] = "run" /\ UNCHANGED exiting
        /\ phase' = [phase EXCEPT !["reader"] = "exit"]
        /\ queue["reader"] # <<>> /\ Head(queue["reader"]).type = "EXIT"
    BY <1>10 DEF ReaderExit, ReaderTake, InLoop, Item
  <2>2. HasExit("reader")
    BY <1>2, <2>1, HeadInside DEF HasExit
  <2>3. \A u \in Threads \ {"reader"} : Pending(u)' = Pending(u)
    BY <1>10, ReaderExitGoes DEF Starts
  <2> QED
    BY <1>1, <1>2, <2>1, <2>2, <2>3, ChainTurns
<1>11. CASE WorkerExit
  <2>1. /\ phase["worker"] = "run" /\ UNCHANGED exiting
        /\ phase' = [phase EXCEPT !["worker"] = "exit"]
        /\ queue["worker"] # <<>> /\ Head(queue["worker"]).type = "EXIT"
    BY <1>11 DEF WorkerExit, Take, InLoop, Item
  <2>2. HasExit("worker")
    BY <1>2, <2>1, HeadInside DEF HasExit
  <2>3. \A u \in Threads \ {"worker"} : Pending(u)' = Pending(u)
    BY <1>11, WorkerExitGoes DEF Starts
  <2> QED
    BY <1>1, <1>2, <2>1, <2>2, <2>3, ChainTurns
<1>12. CASE WriterExit
  <2>1. /\ phase["writer"] = "run" /\ UNCHANGED <<agenda, exiting>> /\ Pending("writer") = {}
        /\ phase' = [phase EXCEPT !["writer"] = "gone"]
        /\ queue["writer"] # <<>> /\ Head(queue["writer"]).type = "EXIT"
    BY <1>12, ShortElements DEF WriterExit, Take, InLoop, Pending, Item
  <2>2. HasExit("writer")
    BY <1>2, <2>1, HeadInside DEF HasExit
  <2>3. \A u \in Threads : Pending(u)' = Pending(u)
    BY <2>1 DEF Pending
  <2> QED
    BY <1>1, <1>2, <2>1, <2>2, <2>3, ChainTurns
<1>13. ASSUME NEW t \in {"worker", "writer"}, NEW c \in Conns, Closes(t, c)
       PROVE  Chain'
  <2>1. phase[t] = "run" /\ UNCHANGED <<phase, exiting>>
    BY <1>13 DEF Closes, Take, InLoop
  <2>2. /\ \A u \in Threads \ {t} : Pending(u)' = Pending(u)
        /\ \A x \in Pending(t)' : x.op \in {"purge", "release"}
    BY <1>13, ClosesGoes, DoFields DEF Starts
  <2> QED
    BY <1>2, <1>3, <2>1, <2>2
<1>14. ASSUME NEW c \in Conns, NEW r \in Reactions, WorkerProcesses(c, r)
       PROVE  Chain'
  <2>1. phase["worker"] = "run" /\ UNCHANGED <<phase, exiting>>
    BY <1>14 DEF WorkerProcesses, Take, InLoop
  <2>2. /\ \A u \in Threads \ {"worker"} : Pending(u)' = Pending(u)
        /\ \A x \in Pending("worker")' : x.op \in {"write", "state"}
    BY <1>14, WorkerProcessesGoes, DoFields DEF Starts
  <2> QED
    BY <1>2, <1>3, <2>1, <2>2
<1>15. ASSUME NEW c \in Conns, WriterTakes(c)
       PROVE  Chain'
  <2>1. phase["writer"] = "run" /\ UNCHANGED <<phase, exiting>>
    BY <1>15 DEF WriterTakes, Take, InLoop
  <2>2. /\ \A u \in Threads \ {"writer"} : Pending(u)' = Pending(u)
        /\ \A x \in Pending("writer")' : x.op = "send"
    BY <1>15, WriterTakesGoes, DoFields DEF Starts
  <2> QED
    BY <1>2, <1>3, <2>1, <2>2
<1> QED
  BY <1>4, <1>5, <1>6, <1>7, <1>8, <1>9, <1>10, <1>11, <1>12, <1>13, <1>14, <1>15
  DEF Next, ReaderStep, WorkerStep, WriterStep

LEMMA ChainInit ==
    ASSUME Init
    PROVE  Chain
<1>1. \A t \in Threads : Pending(t) = {}
  BY ShortElements DEF Init, Pending
<1>2. \A q \in Pipe : ~HasExit(q)
  BY ShortElements DEF Init, HasExit, Inside
<1> QED
  BY <1>1, <1>2 DEF Init, Chain, ChainAt, Ended, Pipe, Threads

(* When a thread of the pipe is gone, all that its predecessors still have *)
(* to do is to wake and to join.                                           *)
LEMMA ChainDelivers ==
    ASSUME Agendas, Chain
    PROVE  GoneLast
<1>1. ASSUME NEW q \in Pipe, NEW t \in Threads, phase[q] = "gone", NEW x \in Pending(t)
      PROVE  x.op \in {"wake", "join"}
  BY <1>1 DEF Chain, ChainAt, Ended, Pipe, Threads
<1> QED
  BY <1>1 DEF GoneLast, Delivers, Pending, ToSet

LEMMA AlwaysChained == Spec => [](TypeOK /\ Agendas /\ Chain)
<1>1. Init => Chain
  BY ChainInit
<1>2. TypeOK /\ Agendas /\ Chain /\ [Next]_vars => Chain'
  BY ChainPerform, ChainOther
<1> QED
  BY <1>1, <1>2, AlwaysTyped, PTL DEF Spec

(* Threads end in the reverse order of who calls whom: no thread still has *)
(* something to put in the queue of a thread that is gone, or handlers of  *)
(* CLOSE to run that would (ReaderEnd, WorkerEnd and WriterEnd put EXIT in *)
(* the queue first, and join last).                                        *)
THEOREM ServerEndsInOrder == Spec => []GoneLast
<1>1. Agendas /\ Chain => GoneLast
  BY ChainDelivers
<1> QED
  BY <1>1, AlwaysChained, PTL

-----------------------------------------------------------------------------
(* 5. The reader is woken up                                               *)

(* What a step that is on an agenda does to the reader's queue.            *)
ReaderGets(i) == queue' = [queue EXCEPT !["reader"] = Append(@, i)]

LEMMA ReaderQueue ==
    ASSUME TypeOK, Agendas, NEW t \in Threads, Perform(t)
    PROVE  /\ emptied' = emptied
           /\ \/ queue'["reader"] = queue["reader"]
              \/ Offer(t) /\ ~exiting["reader"] /\ ReaderGets(Item("DATA", Due(t).conn))
              \/ /\ Tell(t) /\ ~exiting["reader"] /\ Due(t).arg = "pending"
                 /\ ReaderGets(Item("PENDING_CLOSE", Due(t).conn))
              \/ /\ Tell(t) /\ ~exiting["reader"] /\ Due(t).arg = "reader"
                 /\ ReaderGets(Item("CLOSE", Due(t).conn))
              \/ EnqueueExit(t) /\ Due(t).arg = "reader" /\ ReaderGets(Item("EXIT", NoConn))
<1>1. queue \in [Pipe -> Seq(Items)] /\ "reader" \in Pipe
  BY DEF TypeOK, Pipe
<1>2. CASE Offer(t)
  BY <1>2 DEF Offer, ReaderGets
<1>3. CASE Tell(t)
  <2>1. Due(t).arg \in Pipe \cup {"pending"}
    BY <1>3, TellGoes
  <2>2. CASE Due(t).arg \in {"worker", "writer"}
    BY <1>1, <1>3, <2>2 DEF Tell
  <2>3. CASE Due(t).arg = "pending"
    BY <1>3, <2>3 DEF Tell, ReaderGets
  <2>4. CASE Due(t).arg = "reader"
    BY <1>3, <2>4 DEF Tell, ReaderGets
  <2> QED
    BY <2>1, <2>2, <2>3, <2>4 DEF Pipe
<1>4. CASE EnqueueTask(t) \/ EnqueueOutbound(t)
  BY <1>1, <1>4 DEF EnqueueTask, EnqueueOutbound
<1>5. CASE Purge(t)
  <2>1. Due(t).arg \in {"worker", "writer"}
    BY <1>5, DueArguments DEF Purge, Does
  <2> QED
    BY <1>1, <1>5, <2>1 DEF Purge
<1>6. CASE EnqueueExit(t)
  BY <1>1, <1>6 DEF EnqueueExit, ReaderGets
<1>7. CASE \/ ChangeState(t) \/ LockState(t) \/ UnlockState(t) \/ ManagedBy(t) \/ NoMoreUsed(t)
           \/ AddHandler(t) \/ WakeUp(t) \/ Drain(t) \/ Disown(t)
           \/ FireClose(t) \/ RemoveHandler(t) \/ Forget(t)
           \/ ReaderLoads(t) \/ Read(t) \/ Inbound(t) \/ WriteInterest(t) \/ Write(t)
           \/ Join(t) \/ UseFreed(t)
  BY <1>7 DEF ChangeState, LockState, UnlockState, ManagedBy, NoMoreUsed, AddHandler, WakeUp,
              Drain, Disown, FireClose, RemoveHandler, Forget, ReaderLoads, Read, Inbound,
              WriteInterest, Write, Join, UseFreed, queues
<1> QED
  BY <1>2, <1>3, <1>4, <1>5, <1>6, <1>7 DEF Perform

(* Somebody will write a byte in the reader's pipe.                        *)
Waking(t) == Do("wake", NoConn, "reader") \in Pending(t)
WakePending == \E t \in Threads : Waking(t)

(* After the reader was told that its queue is empty, whoever puts         *)
(* something in it is about to wake it.  The acceptor does so last.        *)
Wakes ==
    /\ phase["reader"] = "poll" => ~emptied
    /\ (phase["reader"] = "poll" \/ emptied) /\ queue["reader"] # <<>> => pipe > 0 \/ WakePending
    /\ \A x \in Pending("acceptor") : x.op \in {"offer", "exit"} => Waking("acceptor")

LEMMA WakePerform ==
    ASSUME TypeOK, Agendas, Chain, Wakes, NEW t \in Threads, Perform(t)
    PROVE  Wakes'
<1>0. /\ phase \in [Threads -> {"run", "poll", "exit", "gone"}] /\ emptied \in BOOLEAN
      /\ pipe \in 0..PipeSize /\ PipeSize \in Nat \ {0}
      /\ "acceptor" \in Threads /\ "reader" \in Threads
  BY ServerAssumption DEF TypeOK, Threads, Pipe
<1>1. CASE UNCHANGED <<agenda, phase, queues, reader>> \/ UseFreed(t)
  BY <1>1 DEF UseFreed, Wakes, WakePending, Waking, Pending, queues, reader
<1>2. CASE Moves(t) /\ ~UseFreed(t)
  <2>1. /\ agenda[t] # <<>> /\ Rest(t) \subseteq Pending(t)'
        /\ \A x \in Pending(t)' : x \in Rest(t) \/ Follows(Due(t), x)
        /\ \A u \in Threads \ {t} : Pending(u)' = Pending(u)
    BY <1>2 DEF Moves
  <2>2. /\ Pending(t) = {Due(t)} \cup Rest(t)
        /\ \A y \in Rest(t) : y.op \notin {"offer", "exit"}
    BY <2>1, DueFacts DEF MayPrecede
  <2>3. phase'["reader"] # "poll" \/ phase'["reader"] = phase["reader"]
    BY <1>0 DEF Perform, ChangeState, LockState, UnlockState, ManagedBy, NoMoreUsed, Offer,
                AddHandler, WakeUp, Drain, Disown, FireClose, RemoveHandler, Forget, Tell,
                ReaderLoads, Read, Inbound, EnqueueTask, Purge, WriteInterest,
                EnqueueOutbound, Write, EnqueueExit, Join, UseFreed
  <2>4. WakeUp(t) \/ pipe' = pipe
    BY DEF Perform, ChangeState, LockState, UnlockState, ManagedBy, NoMoreUsed, Offer,
           AddHandler, Drain, Disown, FireClose, RemoveHandler, Forget, Tell,
           ReaderLoads, Read, Inbound, EnqueueTask, Purge, WriteInterest,
           EnqueueOutbound, Write, EnqueueExit, Join, UseFreed, reader
  <2>5. emptied' = emptied
    BY ReaderQueue
  <2>6. (\A x \in Pending("acceptor") : x.op \in {"offer", "exit"} => Waking("acceptor"))'
    <3>1. CASE Drain(t)
      <4>1. /\ t = "acceptor" /\ Rest(t) = {}
            /\ \/ Goes(t, {Do("exit", NoConn, "reader"), Do("wake", NoConn, "reader"),
                           Do("join", NoConn, "reader")})
               \/ Goes(t, {Do("disown", Head(accepted), "nothing"),
                           Do("state", Head(accepted), "CLOSED"),
                           Do("release", Head(accepted), "acceptor"),
                           Do("drain", NoConn, "nothing")})
        BY <3>1, DrainGoes DEF TypeOK
      <4> QED
        BY <4>1, DoFields DEF Goes, Waking
    <3>2. CASE ~Drain(t)
      <4>1. Due(t).op # "drain"
        BY <1>2, <3>2, Doing
      <4>2. \A x : Follows(Due(t), x) => x.op \notin {"offer", "exit"}
        BY <4>1 DEF Follows
      <4> QED
        BY <1>0, <2>1, <2>2, <4>2 DEF Wakes, Waking
    <3> QED
      BY <3>1, <3>2
  <2>7. CASE WakeUp(t)
    <3>1. pipe' > 0
      BY <1>0, <2>7 DEF WakeUp
    <3> QED
      BY <2>3, <2>5, <2>6, <3>1 DEF Wakes
  <2>8. CASE ~WakeUp(t)
    <3>1. Due(t).op # "wake"
      BY <1>2, <2>8, Doing
    <3>2. WakePending => WakePending'
      BY <2>1, <2>2, <3>1, DoFields DEF WakePending, Waking
    <3>3. CASE queue'["reader"] = queue["reader"]
      BY <2>3, <2>4, <2>5, <2>6, <2>8, <3>2, <3>3 DEF Wakes
    <3>4. CASE Offer(t) \/ (EnqueueExit(t) /\ Due(t).arg = "reader")
      <4>1. t = "acceptor" /\ Due(t).op \in {"offer", "exit"}
        BY <2>1, <3>4, OfferGoes, DueArguments DEF Offer, EnqueueExit, Does, Ends
      <4>2. Waking("acceptor")
        BY <2>2, <4>1 DEF Wakes
      <4>3. WakePending'
        BY <1>0, <3>2, <4>2 DEF WakePending
      <4> QED
        BY <2>3, <2>5, <2>6, <4>3 DEF Wakes
    <3>5. CASE Tell(t) /\ ~exiting["reader"] /\ Due(t).arg \in {"pending", "reader"}
      <4>1. Goes(t, {Do("wake", NoConn, "reader")})
        BY <3>5, TellGoes
      <4>2. WakePending'
        BY <4>1 DEF Goes, WakePending, Waking
      <4> QED
        BY <2>3, <2>5, <2>6, <4>2 DEF Wakes
    <3> QED
      BY <3>3, <3>4, <3>5, ReaderQueue
  <2> QED
    BY <2>7, <2>8
<1>3. CASE Offer(t) /\ exiting["reader"]
  <2>1. agenda[t] # <<>> /\ Due(t).op = "offer" /\ t = "acceptor"
    BY <1>3, OfferGoes DEF Offer, Does
  <2> QED
    BY <1>3, <2>1, DueFacts DEF Chain, ChainAt
<1> QED
  BY <1>1, <1>2, <1>3, PerformMoves

LEMMA WakeOther ==
    ASSUME TypeOK, Agendas, Wakes, [Next]_vars, ~ \E t \in Threads : Perform(t)
    PROVE  Wakes'
<1>0. /\ phase \in [Threads -> {"run", "poll", "exit", "gone"}] /\ emptied \in BOOLEAN
      /\ queue \in [Pipe -> Seq(Items)]
      /\ Threads = {"reader", "worker", "writer", "acceptor"}
      /\ Pipe = {"reader", "worker", "writer"}
  BY DEF TypeOK, Threads, Pipe
<1>1. CASE UNCHANGED vars \/ \E c \in Conns : PeerSends(c) \/ PeerCloses(c)
  BY <1>1 DEF vars, PeerSends, PeerCloses, Wakes, WakePending, Waking, Pending, queues, reader
<1>2. ASSUME NEW t \in Threads, Pending(t) = {}, \A u \in Threads \ {t} : Pending(u)' = Pending(u)
      PROVE  WakePending => WakePending'
  BY <1>2 DEF WakePending, Waking
<1>3. ASSUME NEW t \in Threads, Pending(t) = {}, \A u \in Threads \ {t} : Pending(u)' = Pending(u),
             UNCHANGED <<emptied, pipe>>, queue'["reader"] = queue["reader"],
             phase'["reader"] = phase["reader"],
             t = "acceptor" => \A x \in Pending(t)' : x.op \in {"offer", "exit"} => Waking("acceptor")'
      PROVE  Wakes'
  <2>1. WakePending => WakePending'
    BY <1>2, <1>3
  <2>2. (\A x \in Pending("acceptor") : x.op \in {"offer", "exit"} => Waking("acceptor"))'
    BY <1>0, <1>3 DEF Wakes, Waking
  <2> QED
    BY <1>3, <2>1, <2>2 DEF Wakes
<1>4. ASSUME NEW c \in Conns, Accept(c)
      PROVE  Wakes'
  <2>1. Starts("acceptor", ManageSteps(c)) /\ UNCHANGED <<emptied, pipe, queue, phase>>
    BY <1>4, AcceptGoes DEF Accept, reader
  <2>2. Waking("acceptor")'
    BY <2>1 DEF Starts, ManageSteps, Waking
  <2> QED
    BY <1>0, <1>3, <2>1, <2>2 DEF Starts
<1>5. CASE AcceptorExit
  <2>1. /\ Starts("acceptor", {Do("drain", NoConn, "nothing")})
        /\ UNCHANGED <<emptied, pipe, queue>> /\ phase'["reader"] = phase["reader"]
    BY <1>0, <1>5, AcceptorExitGoes DEF AcceptorExit, queues, reader
  <2>2. \A x \in Pending("acceptor")' : x.op = "drain"
    BY <2>1, DoFields DEF Starts
  <2> QED
    BY <1>0, <1>3, <2>1, <2>2 DEF Starts
<1>6. CASE ReaderIdle
  <2>1. /\ UNCHANGED <<agenda, queue, pipe>> /\ emptied' = FALSE
        /\ emptied \/ queue["reader"] = <<>>
    BY <1>6 DEF ReaderIdle, reader
  <2>2. \A u \in Threads : Pending(u)' = Pending(u)
    BY <2>1 DEF Pending
  <2> QED
    BY <1>0, <2>1, <2>2 DEF Wakes, WakePending, Waking
<1>7. CASE ReaderSelect
  <2>1. /\ phase["reader"] = "poll" /\ phase'["reader"] = "run" /\ emptied' = emptied
        /\ \A u \in Threads \ {"reader"} : Pending(u)' = Pending(u)
    BY <1>0, <1>7, ReaderSelectGoes DEF ReaderSelect, queues, TypeOK
  <2> QED
    BY <1>0, <2>1 DEF Wakes, Waking
<1>8. ASSUME \/ ReaderExit
             \/ \E c \in Conns : ReaderManages(c) \/ ReaderCloses(c) \/ ReaderNotes(c)
      PROVE  Wakes'
  <2>1. \A u \in Threads \ {"reader"} : Pending(u)' = Pending(u)
    <3>1. CASE ReaderExit \/ \E c \in Conns : ReaderManages(c) \/ ReaderCloses(c)
      BY <3>1, ReaderExitGoes, ReaderManagesGoes, ReaderClosesGoes DEF Starts
    <3>2. CASE \E c \in Conns : ReaderNotes(c)
      BY <3>2 DEF ReaderNotes, Pending
    <3> QED
      BY <1>8, <3>1, <3>2
  <2>2. /\ phase["reader"] = "run" /\ phase'["reader"] \in {"run", "exit"}
        /\ queue'["reader"] = Tail(queue["reader"]) /\ emptied' = (Tail(queue["reader"]) = <<>>)
    BY <1>0, <1>8 DEF ReaderExit, ReaderManages, ReaderCloses, ReaderNotes, ReaderTake, InLoop
  <2> QED
    BY <1>0, <2>1, <2>2 DEF Wakes, Waking
<1>9. ASSUME NEW t \in {"worker", "writer"}, NEW c \in Conns, Closes(t, c)
      PROVE  Wakes'
  <2>1. /\ UNCHANGED <<emptied, pipe, phase>> /\ queue'["reader"] = queue["reader"]
    BY <1>0, <1>9 DEF Closes, Take, reader
  <2>2. Pending(t) = {} /\ \A u \in Threads \ {t} : Pending(u)' = Pending(u)
    BY <1>9, ClosesGoes DEF Starts
  <2> QED
    BY <1>0, <1>3, <2>1, <2>2
<1>10. ASSUME \/ WorkerExit
              \/ \E c \in Conns, r \in Reactions : WorkerProcesses(c, r)
       PROVE  Wakes'
  <2>1. /\ UNCHANGED <<emptied, pipe>> /\ queue'["reader"] = queue["reader"]
        /\ phase'["reader"] = phase["reader"]
    BY <1>0, <1>10 DEF WorkerExit, WorkerProcesses, Take, reader
  <2>2. Pending("worker") = {} /\ \A u \in Threads \ {"worker"} : Pending(u)' = Pending(u)
    BY <1>10, WorkerExitGoes, WorkerProcessesGoes DEF Starts
  <2> QED
    BY <1>0, <1>3, <2>1, <2>2
<1>11. ASSUME WriterExit \/ \E c \in Conns : WriterTakes(c)
       PROVE  Wakes'
  <2>1. /\ UNCHANGED <<emptied, pipe>> /\ queue'["reader"] = queue["reader"]
        /\ phase'["reader"] = phase["reader"]
    BY <1>0, <1>11 DEF WriterExit, WriterTakes, Take, reader
  <2>2. Pending("writer") = {} /\ \A u \in Threads \ {"writer"} : Pending(u)' = Pending(u)
    <3>1. CASE WriterExit
      BY <3>1, ShortElements DEF WriterExit, Take, InLoop, Pending
    <3>2. CASE \E c \in Conns : WriterTakes(c)
      BY <3>2, WriterTakesGoes DEF Starts
    <3> QED
      BY <1>11, <3>1, <3>2
  <2> QED
    BY <1>0, <1>3, <2>1, <2>2
<1> QED
  BY <1>1, <1>4, <1>5, <1>6, <1>7, <1>8, <1>9, <1>10, <1>11
  DEF Next, ReaderStep, WorkerStep, WriterStep

LEMMA WakeInit ==
    ASSUME Init
    PROVE  Wakes
<1>1. Pending("acceptor") = {} /\ queue["reader"] = <<>> /\ ~emptied
  BY ShortElements DEF Init, Pending, Threads, Pipe
<1> QED
  BY <1>1 DEF Wakes

(* No lost wake-up of the reader, however many threads put something in    *)
(* its queue: it never sleeps in poll(2) on a queue that is not empty      *)
(* unless a byte is in its pipe or a thread is about to write one          *)
(* (EnqueueDataItem or EnqueueEventItem, then SelectorWakeUp).             *)
THEOREM ServerWakesReader == Spec => []NoLostReaderWakeUp
<1>1. Init => Wakes
  BY WakeInit
<1>2. TypeOK /\ Agendas /\ Chain /\ Wakes /\ [Next]_vars => Wakes'
  BY WakePerform, WakeOther
<1>3. Wakes => NoLostReaderWakeUp
  BY DEF Wakes, WakePending, Waking, Pending, NoLostReaderWakeUp
<1> QED
  BY <1>1, <1>2, <1>3, AlwaysChained, PTL DEF Spec

-----------------------------------------------------------------------------
(* 6. Nothing is known of a connection that was not accepted               *)

(* A step on an agenda leaves alone the connections it is not about.       *)
LEMMA ElsewhereKept ==
    ASSUME TypeOK, Agendas, NEW t \in Threads, Perform(t), NEW c \in Conns, c # Due(t).conn
    PROVE  /\ state'[c] = state[c] /\ holder'[c] = holder[c]
           /\ handlers'[c] = handlers[c] /\ hooks'[c] = hooks[c]
           /\ managedBy'[c] = managedBy[c] /\ told'[c] = told[c]
<1>0. /\ state \in [Conns -> States] /\ holder \in [Conns -> Threads \cup {NoThread}]
      /\ handlers \in [Conns -> Seq(Threads)]
      /\ hooks \in [Conns -> SUBSET {"pending", "inbound", "outbound"}]
      /\ managedBy \in [Conns -> SUBSET Threads]
      /\ told \in [Conns -> [Threads -> Nat]]
  BY DEF TypeOK
<1>1. CASE \/ ChangeState(t) \/ WakeUp(t) \/ Offer(t) \/ Drain(t) \/ FireClose(t)
           \/ ReaderLoads(t) \/ Read(t) \/ Inbound(t) \/ EnqueueTask(t) \/ Purge(t)
           \/ WriteInterest(t) \/ EnqueueOutbound(t) \/ Write(t) \/ EnqueueExit(t)
           \/ Join(t) \/ UseFreed(t)
  BY <1>1 DEF ChangeState, WakeUp, Offer, Drain, FireClose, ReaderLoads, Read, Inbound, EnqueueTask,
              Purge, WriteInterest, EnqueueOutbound, Write, EnqueueExit, Join, UseFreed,
              connection, ownership
<1>2. CASE LockState(t) \/ UnlockState(t)
  BY <1>0, <1>2 DEF LockState, UnlockState, ownership
<1>3. CASE ManagedBy(t) \/ NoMoreUsed(t)
  BY <1>0, <1>3 DEF ManagedBy, NoMoreUsed
<1>4. CASE AddHandler(t) \/ Disown(t)
  BY <1>0, <1>4 DEF AddHandler, Disown, ownership
<1>5. CASE RemoveHandler(t) \/ Forget(t)
  BY <1>0, <1>5 DEF RemoveHandler, Forget, connection, ownership
<1>6. CASE Tell(t)
  BY <1>0, <1>6 DEF Tell, ownership
<1> QED
  BY <1>1, <1>2, <1>3, <1>4, <1>5, <1>6 DEF Perform

(* What it puts in a queue is about the connection it is about.            *)
LEMMA QueuedByStep ==
    ASSUME TypeOK, Agendas, NEW t \in Threads, Perform(t), NEW q \in Pipe
    PROVE  \A i \in Inside(q)' : i \in Inside(q) \/ i.conn = Due(t).conn
<1>0. queue \in [Pipe -> Seq(Items)]
  BY DEF TypeOK
<1>1. ASSUME NEW p \in Pipe, NEW i \in Items, i.conn = Due(t).conn,
             queue' = [queue EXCEPT ![p] = Append(@, i)]
      PROVE  \A j \in Inside(q)' : j \in Inside(q) \/ j.conn = Due(t).conn
  <2>1. /\ Inside(p)' = Inside(p) \cup {i}
        /\ \A r \in Pipe \ {p} : Inside(r)' = Inside(r)
    BY <1>0, <1>1, Enqueued
  <2> QED
    BY <1>1, <2>1
<1>2. ASSUME UNCHANGED queue
      PROVE  \A i \in Inside(q)' : i \in Inside(q)
  BY <1>2 DEF Inside
<1>3. ASSUME NEW type \in {"DATA", "TASK", "CLOSE", "PENDING_CLOSE", "OUTBOUND", "EXIT"},
             Due(t).conn \in Conns \cup {NoConn}
      PROVE  Item(type, Due(t).conn) \in Items /\ Item(type, Due(t).conn).conn = Due(t).conn
  BY <1>3, ItemTyped
<1>4. CASE Offer(t)
  <2>1. Item("DATA", Due(t).conn) \in Items /\ Item("DATA", Due(t).conn).conn = Due(t).conn
    BY <1>3, <1>4, OfferGoes
  <2> QED
    BY <1>1, <1>2, <1>4, <2>1 DEF Offer, Pipe
<1>5. CASE Tell(t)
  <2> DEFINE p == IF Due(t).arg = "pending" THEN "reader" ELSE Due(t).arg
             i == Item(IF Due(t).arg = "pending" THEN "PENDING_CLOSE" ELSE "CLOSE", Due(t).conn)
  <2>1. p \in Pipe /\ i \in Items /\ i.conn = Due(t).conn
    BY <1>3, <1>5, TellGoes
  <2>2. queue' = queue \/ queue' = [queue EXCEPT ![p] = Append(@, i)]
    BY <1>5 DEF Tell
  <2> QED
    BY <1>1, <1>2, <2>1, <2>2
<1>6. CASE EnqueueTask(t) \/ EnqueueOutbound(t)
  <2>1. Due(t).conn \in Conns
    BY <1>6, DueArguments DEF EnqueueTask, EnqueueOutbound, Does
  <2>2. /\ Item("TASK", Due(t).conn) \in Items /\ Item("TASK", Due(t).conn).conn = Due(t).conn
        /\ Item("OUTBOUND", Due(t).conn) \in Items /\ Item("OUTBOUND", Due(t).conn).conn = Due(t).conn
    BY <1>3, <2>1
  <2> QED
    BY <1>1, <1>2, <1>6, <2>2 DEF EnqueueTask, EnqueueOutbound, Pipe
<1>7. CASE Purge(t)
  <2> DEFINE p == Due(t).arg
             R == [type : IF p = "worker" THEN {"TASK"} ELSE {"OUTBOUND", "CLOSE"}, conn : {Due(t).conn}]
  <2>1. p \in Pipe /\ queue' = [queue EXCEPT ![p] = Without(@, R)]
    BY <1>7, DueArguments DEF Purge, Does, Pipe
  <2> HIDE DEF p, R
  <2> QED
    BY <1>0, <2>1, Purged
<1>8. CASE EnqueueExit(t)
  <2>1. Due(t).conn = NoConn /\ Due(t).arg \in Pipe
    BY <1>8, DueArguments DEF EnqueueExit, Does, Ends, Pipe
  <2>2. Item("EXIT", NoConn) \in Items /\ Item("EXIT", NoConn).conn = Due(t).conn
    BY <1>3, <2>1
  <2> QED
    BY <1>1, <1>8, <2>1, <2>2 DEF EnqueueExit
<1>9. CASE \/ ChangeState(t) \/ LockState(t) \/ UnlockState(t) \/ ManagedBy(t) \/ NoMoreUsed(t)
           \/ AddHandler(t) \/ WakeUp(t) \/ Drain(t) \/ Disown(t)
           \/ FireClose(t) \/ RemoveHandler(t) \/ Forget(t)
           \/ ReaderLoads(t) \/ Read(t) \/ Inbound(t) \/ WriteInterest(t) \/ Write(t)
           \/ Join(t) \/ UseFreed(t)
  <2>1. UNCHANGED queue
    BY <1>9 DEF ChangeState, LockState, UnlockState, ManagedBy, NoMoreUsed, AddHandler, WakeUp,
                Drain, Disown, FireClose, RemoveHandler, Forget, ReaderLoads, Read, Inbound,
                WriteInterest, Write, Join, UseFreed, queues
  <2> QED
    BY <1>2, <2>1
<1> QED
  BY <1>4, <1>5, <1>6, <1>7, <1>8, <1>9 DEF Perform

(* Only ConnectionState changes the state, and only AddHandler, the end of *)
(* a callback, the acceptor and the events change the handlers.            *)
LEMMA StateStep ==
    ASSUME NEW t \in Threads, Perform(t)
    PROVE  /\ LockState(t) \/ state' = state
           /\ LockState(t) \/ UnlockState(t) \/ holder' = holder
           /\ ManagedBy(t) \/ managedBy' = managedBy
           /\ AddHandler(t) \/ RemoveHandler(t) \/ Disown(t) \/ handlers' = handlers
           /\ AddHandler(t) \/ Tell(t) \/ hooks' = hooks
           /\ Tell(t) \/ Forget(t) \/ told' = told
           /\ ReaderLoads(t) \/ load' = load
           /\ registered' = registered
<1>1. CASE \/ ChangeState(t) \/ WakeUp(t) \/ Offer(t) \/ Drain(t) \/ FireClose(t)
           \/ ReaderLoads(t) \/ Read(t) \/ Inbound(t) \/ EnqueueTask(t) \/ Purge(t)
           \/ WriteInterest(t) \/ EnqueueOutbound(t) \/ Write(t) \/ EnqueueExit(t)
           \/ Join(t) \/ UseFreed(t)
  BY <1>1 DEF ChangeState, WakeUp, Offer, Drain, FireClose, ReaderLoads, Read, Inbound, EnqueueTask,
              Purge, WriteInterest, EnqueueOutbound, Write, EnqueueExit, Join, UseFreed,
              connection, ownership, reader
<1>2. CASE LockState(t) \/ UnlockState(t) \/ ManagedBy(t) \/ NoMoreUsed(t)
  BY <1>2 DEF LockState, UnlockState, ManagedBy, NoMoreUsed, ownership, reader
<1>3. CASE AddHandler(t) \/ Disown(t) \/ RemoveHandler(t) \/ Forget(t) \/ Tell(t)
  BY <1>3 DEF AddHandler, Disown, RemoveHandler, Forget, Tell, connection, ownership, reader
<1> QED
  BY <1>1, <1>2, <1>3 DEF Perform

LEMMA NoneStays ==
    ASSUME TypeOK, Agendas, NEW t \in Threads, Perform(t), NEW c \in Conns, state'[c] = "NONE"
    PROVE  state[c] = "NONE"
<1>1. CASE LockState(t)
  <2>1. /\ state' = [state EXCEPT ![Due(t).conn] = Due(t).arg]
        /\ state \in [Conns -> States]
    BY <1>1 DEF LockState, TypeOK
  <2>2. Due(t).arg # "NONE"
    BY <1>1, LockStateGoes
  <2> QED
    BY <2>1, <2>2
<1>2. CASE state' = state
  BY <1>2
<1> QED
  BY <1>1, <1>2, StateStep

(* Nobody has anything to do with a connection that was not accepted yet.  *)
Untouched(c) ==
    /\ \A t \in Threads : \A x \in Pending(t) : x.conn # c
    /\ \A q \in Pipe : \A i \in Inside(q) : i.conn # c
    /\ c \notin ToSet(accepted)
    /\ c \notin registered
    /\ \A t \in Threads : told[c][t] = 0
    /\ managedBy[c] = {"acceptor"}

Fresh == \A c \in Conns : state[c] = "NONE" => Untouched(c)

LEMMA FreshPerform ==
    ASSUME TypeOK, Agendas, Fresh, NEW t \in Threads, Perform(t)
    PROVE  Fresh'
<1>1. SUFFICES ASSUME NEW c \in Conns, state'[c] = "NONE"
               PROVE  Untouched(c)'
  BY DEF Fresh
<1>2. Untouched(c)
  BY <1>1, NoneStays DEF Fresh
<1>3. CASE UNCHANGED <<agenda, connection, phase, queues, reader, peer, told>>
  BY <1>2, <1>3 DEF Untouched, Pending, Inside, connection, ownership, queues, reader
<1>4. c # NoConn
  BY <1>1, ServerAssumption
<1>5. ASSUME agenda[t] # <<>>, c # Due(t).conn
      PROVE  /\ \A q \in Pipe : \A i \in Inside(q)' : i.conn # c
             /\ c \notin ToSet(accepted')
             /\ c \notin registered'
             /\ \A u \in Threads : told'[c][u] = 0
             /\ managedBy'[c] = {"acceptor"}
  <2>1. \A q \in Pipe : \A i \in Inside(q)' : i.conn # c
    BY <1>2, <1>5, QueuedByStep DEF Untouched
  <2>2. c \notin ToSet(accepted')
    <3>1. CASE accepted' = accepted
      BY <1>2, <3>1 DEF Untouched
    <3>2. CASE Drain(t)
      <4>1. \/ accepted' = accepted
            \/ accepted # <<>> /\ accepted' = Tail(accepted)
        BY <3>2 DEF Drain
      <4>2. ASSUME accepted # <<>>
            PROVE  ToSet(Tail(accepted)) \subseteq ToSet(accepted)
        BY <4>2, HeadTailElements DEF TypeOK
      <4> QED
        BY <1>2, <4>1, <4>2 DEF Untouched
    <3>3. CASE Forget(t)
      <4>1. accepted' = Without(accepted, {Due(t).conn}) /\ accepted \in Seq(Conns)
        BY <3>3 DEF Forget, TypeOK
      <4> QED
        BY <1>2, <4>1, WithoutProperties DEF Untouched
    <3>4. Drain(t) \/ Forget(t) \/ accepted' = accepted
      BY DEF Perform, ChangeState, LockState, UnlockState, ManagedBy, NoMoreUsed, Offer, AddHandler,
             WakeUp, Disown, FireClose, RemoveHandler, Tell, ReaderLoads, Read, Inbound,
             EnqueueTask, Purge, WriteInterest, EnqueueOutbound, Write, EnqueueExit, Join,
             UseFreed, queues
    <3> QED
      BY <3>1, <3>2, <3>3, <3>4
  <2>3. c \notin registered'
    BY <1>2, StateStep DEF Untouched
  <2>4. managedBy'[c] = managedBy[c] /\ told'[c] = told[c]
    BY <1>5, ElsewhereKept
  <2> QED
    BY <1>2, <2>1, <2>2, <2>3, <2>4 DEF Untouched
<1>6. CASE Moves(t)
  <2>1. /\ agenda[t] # <<>>
        /\ \A x \in Pending(t)' : x \in Rest(t) \/ Follows(Due(t), x)
        /\ \A u \in Threads \ {t} : Pending(u)' = Pending(u)
    BY <1>6 DEF Moves
  <2>2. Pending(t) = {Due(t)} \cup Rest(t)
    BY <2>1, DueFacts
  <2>3. c # Due(t).conn
    BY <1>2, <2>2 DEF Untouched
  <2>4. ASSUME NEW x \in Pending(t)'
        PROVE  x.conn # c
    <3>1. CASE Drain(t)
      <4>1. \/ Goes(t, {Do("exit", NoConn, "reader"), Do("wake", NoConn, "reader"),
                        Do("join", NoConn, "reader")})
            \/ accepted # <<>> /\ Goes(t, {Do("disown", Head(accepted), "nothing"),
                        Do("state", Head(accepted), "CLOSED"),
                        Do("release", Head(accepted), "acceptor"),
                        Do("drain", NoConn, "nothing")})
        BY <3>1, DrainGoes DEF TypeOK
      <4>2. accepted # <<>> => Head(accepted) \in ToSet(accepted)
        BY HeadTailElements DEF TypeOK
      <4> QED
        BY <1>2, <1>4, <2>2, <2>4, <4>1, <4>2, DoFields DEF Goes, Untouched
    <3>2. CASE Due(t).op # "drain"
      <4>1. \A y : Follows(Due(t), y) => y.conn \in {Due(t).conn, NoConn}
        BY <3>2 DEF Follows
      <4> QED
        BY <1>2, <1>4, <2>1, <2>2, <2>3, <2>4, <4>1 DEF Untouched
    <3>3. CASE UseFreed(t)
      <4>1. Pending(t)' = Pending(t)
        BY <3>3 DEF UseFreed, Pending
      <4> QED
        BY <1>2, <2>4, <4>1 DEF Untouched
    <3> QED
      BY <3>1, <3>2, <3>3, Doing
  <2>5. \A u \in Threads : \A x \in Pending(u)' : x.conn # c
    BY <1>2, <2>1, <2>4 DEF Untouched
  <2> QED
    BY <1>5, <2>1, <2>3, <2>5 DEF Untouched
<1>7. CASE Offer(t) /\ exiting["reader"]
  <2>1. /\ agenda[t] # <<>> /\ Pending(t)' = {}
        /\ \A u \in Threads \ {t} : Pending(u)' = Pending(u)
    BY <1>7, OfferGoes DEF Offer, Does
  <2>2. c # Due(t).conn
    BY <1>2, <2>1, DueFacts DEF Untouched
  <2> QED
    BY <1>2, <1>5, <2>1, <2>2 DEF Untouched
<1> QED
  BY <1>3, <1>6, <1>7, PerformMoves

LEMMA FreshOther ==
    ASSUME TypeOK, Agendas, Fresh, [Next]_vars, ~ \E t \in Threads : Perform(t)
    PROVE  Fresh'
<1>0. /\ state \in [Conns -> States]
      /\ queue \in [Pipe -> Seq(Items)]
      /\ accepted \in Seq(Conns)
      /\ registered \in SUBSET Conns
      /\ Threads = {"reader", "worker", "writer", "acceptor"}
      /\ Pipe = {"reader", "worker", "writer"}
  BY DEF TypeOK, Threads, Pipe
<1>1. SUFFICES ASSUME NEW c \in Conns, state'[c] = "NONE"
               PROVE  Untouched(c)'
  BY DEF Fresh
<1>2. c # NoConn
  BY ServerAssumption
<1>3. ASSUME state' = state
      PROVE  Untouched(c)
  BY <1>1, <1>3 DEF Fresh
<1>4. \A q \in Pipe : Inside(q)' \subseteq Inside(q)
  BY InsideOther
<1>5. ASSUME Untouched(c), UNCHANGED <<told, managedBy>>, c \notin ToSet(accepted'), c \notin registered',
             \A t \in Threads : \A x \in Pending(t)' : x.conn # c
      PROVE  Untouched(c)'
  BY <1>4, <1>5 DEF Untouched
<1>6. ASSUME NEW q \in Pipe, queue[q] # <<>>, Untouched(c)
      PROVE  Head(queue[q]).conn # c
  BY <1>0, <1>6, HeadInside DEF Untouched
<1>7. ASSUME UNCHANGED agenda, Untouched(c)
      PROVE  \A t \in Threads : \A x \in Pending(t)' : x.conn # c
  BY <1>7 DEF Untouched, Pending
<1>8. CASE UNCHANGED vars \/ ReaderIdle \/ WriterExit
           \/ \E d \in Conns : PeerSends(d) \/ PeerCloses(d) \/ ReaderNotes(d)
  <2>1. UNCHANGED <<state, agenda, told, managedBy, accepted, registered>>
    BY <1>8 DEF vars, PeerSends, PeerCloses, ReaderIdle, ReaderNotes, WriterExit, connection,
                ownership, queues, reader
  <2> QED
    BY <1>3, <1>5, <1>7, <2>1 DEF Untouched
<1>9. ASSUME NEW d \in Conns, Accept(d)
      PROVE  Untouched(c)'
  <2>1. /\ state' = [state EXCEPT ![d] = "INITIALIZED"] /\ accepted' = Append(accepted, d)
        /\ UNCHANGED <<told, managedBy, registered>>
        /\ Starts("acceptor", ManageSteps(d))
    BY <1>9, AcceptGoes DEF Accept, ownership, reader
  <2>2. c # d /\ state[c] = "NONE"
    BY <1>0, <1>1, <2>1
  <2>3. Untouched(c)
    BY <2>2 DEF Fresh
  <2>4. c \notin ToSet(accepted')
    BY <1>0, <2>1, <2>2, <2>3, AppendElements DEF Untouched
  <2>5. \A x \in ManageSteps(d) : x.conn \in {d, NoConn}
    BY DoFields DEF ManageSteps
  <2>6. \A t \in Threads : \A x \in Pending(t)' : x.conn # c
    BY <1>0, <1>2, <2>1, <2>2, <2>3, <2>5 DEF Starts, Untouched
  <2> QED
    BY <1>5, <2>1, <2>3, <2>4, <2>6 DEF Untouched
<1>10. ASSUME NEW t \in Threads, \A u \in Threads \ {t} : Pending(u)' = Pending(u),
              \A x \in Pending(t)' : x.conn # c,
              UNCHANGED <<state, told, managedBy, accepted>>, c \notin registered'
       PROVE  Untouched(c)'
  BY <1>3, <1>5, <1>10 DEF Untouched
<1>11. CASE AcceptorExit
  <2>1. /\ Starts("acceptor", {Do("drain", NoConn, "nothing")})
        /\ UNCHANGED <<state, told, managedBy, accepted, registered>>
    BY <1>11, AcceptorExitGoes DEF AcceptorExit, connection, ownership, queues, reader
  <2>2. \A x \in Pending("acceptor")' : x.conn = NoConn
    BY <2>1, DoFields DEF Starts
  <2> QED
    BY <1>0, <1>2, <1>3, <1>10, <2>1, <2>2 DEF Starts, Untouched
<1>12. CASE ReaderSelect
  <2>1. /\ UNCHANGED <<state, told, managedBy, accepted, registered>>
        /\ \A x \in Pending("reader")' : x.conn \in registered
        /\ \A u \in Threads \ {"reader"} : Pending(u)' = Pending(u)
    BY <1>0, <1>12, ReaderSelectGoes DEF ReaderSelect, connection, ownership, queues
  <2> QED
    BY <1>0, <1>3, <1>10, <2>1 DEF Untouched
<1>13. ASSUME NEW d \in Conns, ReaderManages(d) \/ ReaderCloses(d)
       PROVE  Untouched(c)'
  <2>1. /\ UNCHANGED <<state, told, managedBy, accepted>> /\ registered' \subseteq registered \cup {d}
        /\ queue["reader"] # <<>> /\ Head(queue["reader"]).conn = d
    BY <1>13 DEF ReaderManages, ReaderCloses, ReaderTake, connection, ownership, Item
  <2>2. c # d
    BY <1>0, <1>3, <1>6, <2>1
  <2>3. /\ \A x \in Pending("reader")' : x.conn = d
        /\ \A u \in Threads \ {"reader"} : Pending(u)' = Pending(u)
    BY <1>13, ReaderManagesGoes, ReaderClosesGoes, DoFields DEF Starts
  <2> QED
    BY <1>0, <1>3, <1>10, <2>1, <2>2, <2>3 DEF Untouched
<1>14. CASE ReaderExit
  <2>1. /\ UNCHANGED <<state, told, managedBy, accepted, registered>>
        /\ Starts("reader", {Do("exit", NoConn, "worker"), Do("join", NoConn, "worker")})
    BY <1>14, ReaderExitGoes DEF ReaderExit, connection, ownership, reader
  <2>2. \A x \in Pending("reader")' : x.conn = NoConn
    BY <2>1, DoFields DEF Starts
  <2> QED
    BY <1>0, <1>2, <1>3, <1>10, <2>1, <2>2 DEF Starts, Untouched
<1>15. CASE WorkerExit
  <2>1. /\ UNCHANGED <<state, told, managedBy, accepted, registered>>
        /\ Starts("worker", {Do("exit", NoConn, "writer"), Do("join", NoConn, "writer")})
    BY <1>15, WorkerExitGoes DEF WorkerExit, connection, ownership, reader
  <2>2. \A x \in Pending("worker")' : x.conn = NoConn
    BY <2>1, DoFields DEF Starts
  <2> QED
    BY <1>0, <1>2, <1>3, <1>10, <2>1, <2>2 DEF Starts, Untouched
<1>16. ASSUME NEW t \in {"worker", "writer"}, NEW d \in Conns, Closes(t, d)
       PROVE  Untouched(c)'
  <2>1. /\ UNCHANGED <<state, told, managedBy, accepted, registered>>
        /\ queue[t] # <<>> /\ Head(queue[t]).conn = d
    BY <1>16 DEF Closes, Take, connection, ownership, reader, Item
  <2>2. c # d
    BY <1>0, <1>3, <1>6, <2>1
  <2>3. /\ \A x \in Pending(t)' : x.conn = d
        /\ \A u \in Threads \ {t} : Pending(u)' = Pending(u)
    BY <1>16, ClosesGoes, DoFields DEF Starts
  <2> QED
    BY <1>0, <1>3, <1>10, <2>1, <2>2, <2>3 DEF Untouched
<1>17. ASSUME NEW d \in Conns, NEW r \in Reactions, WorkerProcesses(d, r)
       PROVE  Untouched(c)'
  <2>1. /\ UNCHANGED <<state, told, managedBy, accepted, registered>>
        /\ queue["worker"] # <<>> /\ Head(queue["worker"]).conn = d
    BY <1>17 DEF WorkerProcesses, Take, connection, ownership, reader, Item
  <2>2. c # d
    BY <1>0, <1>3, <1>6, <2>1
  <2>3. /\ \A x \in Pending("worker")' : x.conn = d
        /\ \A u \in Threads \ {"worker"} : Pending(u)' = Pending(u)
    BY <1>17, WorkerProcessesGoes, DoFields DEF Starts
  <2> QED
    BY <1>0, <1>3, <1>10, <2>1, <2>2, <2>3 DEF Untouched
<1>18. ASSUME NEW d \in Conns, WriterTakes(d)
       PROVE  Untouched(c)'
  <2>1. /\ UNCHANGED <<state, told, managedBy, accepted, registered>>
        /\ queue["writer"] # <<>> /\ Head(queue["writer"]).conn = d
    BY <1>18 DEF WriterTakes, Take, connection, ownership, reader, Item
  <2>2. c # d
    BY <1>0, <1>3, <1>6, <2>1
  <2>3. /\ \A x \in Pending("writer")' : x.conn = d
        /\ \A u \in Threads \ {"writer"} : Pending(u)' = Pending(u)
    BY <1>18, WriterTakesGoes, DoFields DEF Starts
  <2> QED
    BY <1>0, <1>3, <1>10, <2>1, <2>2, <2>3 DEF Untouched
<1> QED
  BY <1>8, <1>9, <1>11, <1>12, <1>13, <1>14, <1>15, <1>16, <1>17, <1>18
  DEF Next, ReaderStep, WorkerStep, WriterStep

LEMMA FreshInit ==
    ASSUME Init
    PROVE  Fresh
<1>1. /\ \A t \in Threads : Pending(t) = {}
      /\ \A q \in Pipe : Inside(q) = {}
      /\ ToSet(accepted) = {} /\ registered = {}
  BY ShortElements DEF Init, Pending, Inside
<1>2. \A c \in Conns : /\ \A t \in Threads : told[c][t] = 0
                       /\ managedBy[c] = {"acceptor"}
  BY DEF Init
<1> QED
  BY <1>1, <1>2 DEF Fresh, Untouched

LEMMA AlwaysFresh == Spec => [](TypeOK /\ Agendas /\ Chain /\ Fresh)
<1>1. Init => Fresh
  BY FreshInit
<1>2. TypeOK /\ Agendas /\ Fresh /\ [Next]_vars => Fresh'
  BY FreshPerform, FreshOther
<1> QED
  BY <1>1, <1>2, AlwaysChained, PTL DEF Spec

-----------------------------------------------------------------------------
(* 7. What the loops do to the connections                                 *)

(* Thread t, back in its loop, begins something that is not about making   *)
(* a connection known.                                                     *)
Turns(t) ==
    /\ Pending(t) = {}
    /\ \A u \in Threads \ {t} : Pending(u)' = Pending(u)
    /\ \A x \in Pending(t)' :
          /\ x.op \in {"drain", "exit", "join", "read", "purge", "release", "write", "state", "send"}
          /\ x.op = "state" => x.arg # "CONNECTED"

ReaderDrops(type) ==
    /\ queue["reader"] # <<>>
    /\ queue' = [queue EXCEPT !["reader"] = Tail(@)]
    /\ Head(queue["reader"]).type = type

(* Apart from accepting, managing and closing a connection.                *)
Keeps ==
    /\ UNCHANGED <<state, holder, handlers, hooks, managedBy, told, registered, load>>
    /\ (\A t \in Threads : Pending(t)' = Pending(t)) \/ \E t \in Threads : Turns(t)
    /\ queue'["reader"] = queue["reader"] \/ ReaderDrops("PENDING_CLOSE") \/ ReaderDrops("EXIT")

LEMMA LoopStep ==
    ASSUME TypeOK, Agendas, Chain, [Next]_vars, ~ \E t \in Threads : Perform(t)
    PROVE  Keeps \/ \E c \in Conns : Accept(c) \/ ReaderManages(c) \/ ReaderCloses(c)
<1>0. /\ queue \in [Pipe -> Seq(Items)]
      /\ registered \in SUBSET Conns
      /\ Threads = {"reader", "worker", "writer", "acceptor"}
      /\ Pipe = {"reader", "worker", "writer"}
  BY DEF TypeOK, Threads, Pipe
<1> DEFINE same == UNCHANGED <<state, holder, handlers, hooks, managedBy, told, registered, load>>
<1>1. ASSUME UNCHANGED agenda
      PROVE  \A t \in Threads : Pending(t)' = Pending(t)
  BY <1>1 DEF Pending
<1>2. CASE UNCHANGED vars \/ ReaderIdle \/ \E c \in Conns : PeerSends(c) \/ PeerCloses(c)
  <2>1. UNCHANGED <<agenda, queue>> /\ same
    BY <1>2 DEF vars, ReaderIdle, PeerSends, PeerCloses, connection, ownership, queues, reader
  <2> QED
    BY <1>1, <2>1 DEF Keeps
<1>3. CASE \E c \in Conns : ReaderNotes(c)
  <2>1. UNCHANGED agenda /\ same /\ ReaderDrops("PENDING_CLOSE")
    BY <1>3 DEF ReaderNotes, ReaderTake, ReaderDrops, Item, connection, ownership, reader
  <2> QED
    BY <1>1, <2>1 DEF Keeps
<1>4. CASE WriterExit
  <2>1. UNCHANGED agenda /\ same /\ queue'["reader"] = queue["reader"]
    BY <1>0, <1>4 DEF WriterExit, Take, connection, ownership, reader
  <2> QED
    BY <1>1, <2>1 DEF Keeps
<1>5. CASE AcceptorExit
  <2>1. UNCHANGED queue /\ same
    BY <1>5 DEF AcceptorExit, connection, ownership, reader, queues
  <2>2. Turns("acceptor")
    BY <1>5, AcceptorExitGoes, DoFields DEF Starts, Turns
  <2> QED
    BY <1>0, <2>1, <2>2 DEF Keeps
<1>6. CASE ReaderSelect
  <2>1. UNCHANGED queue /\ same
    BY <1>6 DEF ReaderSelect, connection, ownership, queues
  <2>2. Pending("reader") = {}
    BY <1>0, <1>6 DEF ReaderSelect, Chain, Ended
  <2>3. Turns("reader")
    BY <1>0, <1>6, <2>2, ReaderSelectGoes DEF Turns
  <2> QED
    BY <1>0, <2>1, <2>3 DEF Keeps
<1>7. CASE ReaderExit
  <2>1. same /\ ReaderDrops("EXIT")
    BY <1>7 DEF ReaderExit, ReaderTake, ReaderDrops, Item, connection, ownership, reader
  <2>2. Turns("reader")
    BY <1>7, ReaderExitGoes, DoFields DEF Starts, Turns
  <2> QED
    BY <1>0, <2>1, <2>2 DEF Keeps
<1>8. CASE WorkerExit
  <2>1. same /\ queue'["reader"] = queue["reader"]
    BY <1>0, <1>8 DEF WorkerExit, Take, connection, ownership, reader
  <2>2. Turns("worker")
    BY <1>8, WorkerExitGoes, DoFields DEF Starts, Turns
  <2> QED
    BY <1>0, <2>1, <2>2 DEF Keeps
<1>9. ASSUME NEW t \in {"worker", "writer"}, NEW c \in Conns, Closes(t, c)
      PROVE  Keeps
  <2>1. same /\ queue'["reader"] = queue["reader"]
    BY <1>0, <1>9 DEF Closes, Take, connection, ownership, reader
  <2>2. Turns(t)
    BY <1>9, ClosesGoes, DoFields DEF Starts, Turns
  <2> QED
    BY <1>0, <2>1, <2>2 DEF Keeps
<1>10. ASSUME NEW c \in Conns, NEW r \in Reactions, WorkerProcesses(c, r)
       PROVE  Keeps
  <2>1. same /\ queue'["reader"] = queue["reader"]
    BY <1>0, <1>10 DEF WorkerProcesses, Take, connection, ownership, reader
  <2>2. Turns("worker")
    BY <1>10, WorkerProcessesGoes, DoFields DEF Starts, Turns
  <2> QED
    BY <1>0, <2>1, <2>2 DEF Keeps
<1>11. ASSUME NEW c \in Conns, WriterTakes(c)
       PROVE  Keeps
  <2>1. same /\ queue'["reader"] = queue["reader"]
    BY <1>0, <1>11 DEF WriterTakes, Take, connection, ownership, reader
  <2>2. Turns("writer")
    BY <1>11, WriterTakesGoes, DoFields DEF Starts, Turns
  <2> QED
    BY <1>0, <2>1, <2>2 DEF Keeps
<1> QED
  BY <1>2, <1>3, <1>4, <1>5, <1>6, <1>7, <1>8, <1>9, <1>10, <1>11
  DEF Next, ReaderStep, WorkerStep, WriterStep

-----------------------------------------------------------------------------
(* 8. A connection is CONNECTED once every thread has its handlers         *)

(* The connection is CONNECTED, or somebody is about to make it so.        *)
Connecting(c) ==
    \/ state[c] = "CONNECTED"
    \/ \E t \in Threads : \E x \in Pending(t) :
          x.op \in {"state", "lock"} /\ x.conn = c /\ x.arg = "CONNECTED"

Hooking(c, o) == Do("hook", c, o) \in Pending("acceptor")

(* The writer, whose handlers come last, is the last to call ManagedBy, so *)
(* the set is complete when all the handlers are in place.                 *)
HandledAt(c) ==
    /\ Connecting(c) => managedBy[c] = Threads
    /\ "writer" \in managedBy[c] =>
          /\ {"inbound", "outbound"} \subseteq hooks[c]
          /\ \A x \in Pending("acceptor") : x.op = "hook" => x.conn # c
    /\ Do("manage", c, "writer") \in Pending("acceptor") =>
          \A o \in {"inbound", "outbound"} : o \in hooks[c] \/ Hooking(c, o)

Handled == \A c \in Conns : HandledAt(c)

LEMMA HandledPerform ==
    ASSUME TypeOK, Agendas, Chain, Handled, NEW t \in Threads, Perform(t)
    PROVE  Handled'
<1>0. /\ state \in [Conns -> States]
      /\ hooks \in [Conns -> SUBSET {"pending", "inbound", "outbound"}]
      /\ managedBy \in [Conns -> SUBSET Threads]
      /\ "acceptor" \in Threads
  BY DEF TypeOK, Threads
<1>1. SUFFICES ASSUME NEW c \in Conns
               PROVE  HandledAt(c)'
  BY DEF Handled
<1>2. HandledAt(c)
  BY DEF Handled
<1>3. CASE UNCHANGED <<agenda, connection, phase, queues, reader, peer, told>> \/ UseFreed(t)
  BY <1>2, <1>3 DEF UseFreed, HandledAt, Connecting, Hooking, Pending, connection, ownership
<1>4. CASE Offer(t) /\ exiting["reader"]
  <2>1. agenda[t] # <<>> /\ Due(t).op = "offer" /\ t = "acceptor"
    BY <1>4, OfferGoes DEF Offer, Does
  <2> QED
    BY <1>4, <2>1, DueFacts DEF Chain, ChainAt
<1>5. CASE Moves(t) /\ ~UseFreed(t)
  <2>1. /\ agenda[t] # <<>> /\ Rest(t) \subseteq Pending(t)'
        /\ \A x \in Pending(t)' : x \in Rest(t) \/ Follows(Due(t), x)
        /\ \A u \in Threads \ {t} : Pending(u)' = Pending(u)
    BY <1>5 DEF Moves
  <2>2. /\ Pending(t) = {Due(t)} \cup Rest(t)
        /\ Due(t) \in Steps /\ Formed(t, Due(t))
        /\ \A y \in Rest(t) : MayPrecede(Due(t), y)
    BY <2>1, DueFacts
  <2>3. \A x : Follows(Due(t), x) => x.op \notin {"hook", "manage"}
    BY DEF Follows
  <2>4. \A x \in Pending("acceptor")' : x.op \in {"hook", "manage"} => x \in Pending("acceptor")
    BY <1>0, <2>1, <2>2, <2>3
  <2>5. managedBy[c] \subseteq managedBy'[c] /\ managedBy'[c] \subseteq Threads
    <3>1. CASE ManagedBy(t)
      <4>1. /\ Due(t).arg \in Threads
            /\ managedBy' = [managedBy EXCEPT ![Due(t).conn] = @ \cup {Due(t).arg}]
        BY <3>1, ManagedByGoes DEF ManagedBy, Threads
      <4> QED
        BY <1>0, <4>1
    <3> QED
      BY <1>0, <3>1, StateStep
  <2>6. \A o \in {"inbound", "outbound"} : o \in hooks[c] => o \in hooks'[c]
    <3>1. CASE AddHandler(t)
      BY <1>0, <3>1 DEF AddHandler
    <3>2. CASE Tell(t)
      <4>1. /\ Due(t).arg \in Pipe \cup {"pending"}
            /\ hooks' = [hooks EXCEPT ![Due(t).conn] = @ \ {Due(t).arg}]
        BY <3>2, TellGoes DEF Tell
      <4> QED
        BY <1>0, <4>1 DEF Pipe
    <3> QED
      BY <3>1, <3>2, StateStep
  <2>7. Connecting(c)' => managedBy'[c] = Threads
    <3>1. CASE Connecting(c)
      BY <1>2, <2>5, <3>1 DEF HandledAt
    <3>2. CASE ~Connecting(c)
      <4>1. SUFFICES ASSUME Connecting(c)' PROVE managedBy'[c] = Threads
        OBVIOUS
      <4>2. state'[c] # "CONNECTED"
        <5>1. CASE LockState(t)
          <6>1. /\ state' = [state EXCEPT ![Due(t).conn] = Due(t).arg] /\ Due(t).op = "lock"
            BY <5>1 DEF LockState, Does
          <6>2. Due(t).conn = c => Due(t).arg # "CONNECTED"
            BY <2>2, <3>2, <6>1 DEF Connecting
          <6> QED
            BY <1>0, <3>2, <6>1, <6>2 DEF Connecting
        <5> QED
          BY <3>2, <5>1, StateStep DEF Connecting
      <4> DEFINE Connects(x) == x.op \in {"state", "lock"} /\ x.conn = c /\ x.arg = "CONNECTED"
      <4>3a. PICK u \in Threads : \E x \in Pending(u)' : Connects(x)
        BY <4>1, <4>2 DEF Connecting
      <4>3. PICK x \in Pending(u)' : Connects(x)
        BY <4>3a
      <4>4. x \notin Pending(u)
        BY <3>2, <4>3 DEF Connecting
      <4>5. u = t /\ Follows(Due(t), x)
        BY <2>1, <2>2, <4>4
      <4>6. Due(t).op = "manage"
        BY <2>2, <3>2, <4>3, <4>5 DEF Follows, Connecting
      <4>7. ManagedBy(t)
        BY <1>5, <4>6, Doing
      <4>8. CASE managedBy[Due(t).conn] \cup {Due(t).arg} = Threads
        <5>1. managedBy' = [managedBy EXCEPT ![Due(t).conn] = Threads]
          BY <4>7, <4>8 DEF ManagedBy
        <5>2. Due(t).conn = c
          BY <4>3, <4>5, <4>6 DEF Follows
        <5> QED
          BY <1>0, <5>1, <5>2
      <4>9. CASE managedBy[Due(t).conn] \cup {Due(t).arg} # Threads
        <5>1. Goes(t, {})
          BY <4>7, <4>9, ManagedByGoes
        <5> QED
          BY <2>2, <4>3, <4>4, <4>5, <5>1 DEF Goes
      <4> QED
        BY <4>8, <4>9
    <3> QED
      BY <3>1, <3>2
  <2>8. CASE "writer" \in managedBy[c]
    <3>1. {"inbound", "outbound"} \subseteq hooks'[c]
      BY <1>2, <2>6, <2>8 DEF HandledAt
    <3>2. \A x \in Pending("acceptor")' : x.op = "hook" => x.conn # c
      BY <1>2, <2>4, <2>8 DEF HandledAt
    <3> QED
      BY <2>7, <3>1, <3>2 DEF HandledAt
  <2>9. CASE "writer" \notin managedBy[c] /\ "writer" \in managedBy'[c]
    <3>1. ManagedBy(t)
      BY <2>9, StateStep
    <3>2. Due(t).conn = c /\ Due(t).arg = "writer" /\ Due(t).op = "manage"
      BY <1>0, <2>9, <3>1 DEF ManagedBy, Does
    <3>3. t = "acceptor" /\ \A y \in Rest(t) : y.op # "hook"
      BY <3>1, <3>2, ManagedByGoes
    <3>4. Due(t) = Do("manage", c, "writer")
      BY <2>2, <3>2, StepFields
    <3>5. \A o \in {"inbound", "outbound"} : o \in hooks[c] \/ Hooking(c, o)
      BY <1>2, <2>2, <3>3, <3>4 DEF HandledAt
    <3>6. \A o : ~Hooking(c, o)
      BY <2>2, <3>2, <3>3, DoFields DEF Hooking
    <3>7. {"inbound", "outbound"} \subseteq hooks'[c]
      BY <2>6, <3>5, <3>6
    <3>8. \A x \in Pending("acceptor")' : x.op # "hook"
      BY <2>1, <2>3, <3>3
    <3> QED
      BY <2>7, <3>7, <3>8 DEF HandledAt
  <2>10. CASE "writer" \notin managedBy'[c]
    <3>1. SUFFICES ASSUME Do("manage", c, "writer") \in Pending("acceptor")',
                          NEW o \in {"inbound", "outbound"}
                   PROVE  o \in hooks'[c] \/ Hooking(c, o)'
      BY <2>7, <2>10 DEF HandledAt
    <3>2. o \in hooks[c] \/ Hooking(c, o)
      BY <1>2, <2>4, <3>1, DoFields DEF HandledAt
    <3>3. CASE Hooking(c, o)
      <4>1. CASE t = "acceptor" /\ Due(t) = Do("hook", c, o)
        <5>1. Due(t).op = "hook" /\ Due(t).conn = c /\ Due(t).arg = o
          BY <4>1, DoFields
        <5>2. AddHandler(t)
          BY <1>5, <5>1, Doing
        <5>3. Due(t).arg \notin Threads
          BY <5>1 DEF Threads, Pipe
        <5>4. hooks' = [hooks EXCEPT ![c] = @ \cup {o}]
          BY <5>1, <5>2, <5>3 DEF AddHandler
        <5> QED
          BY <1>0, <5>4
      <4>2. CASE ~(t = "acceptor" /\ Due(t) = Do("hook", c, o))
        BY <1>0, <2>1, <2>2, <3>3, <4>2 DEF Hooking
      <4> QED
        BY <4>1, <4>2
    <3> QED
      BY <2>6, <3>2, <3>3
  <2> QED
    BY <2>8, <2>9, <2>10
<1> QED
  BY <1>3, <1>4, <1>5, PerformMoves

LEMMA HandledOther ==
    ASSUME TypeOK, Agendas, Chain, Fresh, Handled, [Next]_vars, ~ \E t \in Threads : Perform(t)
    PROVE  Handled'
<1>0. /\ state \in [Conns -> States]
      /\ managedBy \in [Conns -> SUBSET Threads]
      /\ Threads = {"reader", "worker", "writer", "acceptor"}
  BY DEF TypeOK, Threads, Pipe
<1>1. SUFFICES ASSUME NEW c \in Conns
               PROVE  HandledAt(c)'
  BY DEF Handled
<1>2. HandledAt(c)
  BY DEF Handled
<1>3. ASSUME UNCHANGED <<hooks, managedBy>>,
             Connecting(c)' => Connecting(c),
             \/ Pending("acceptor")' = Pending("acceptor")
             \/ \A x \in Pending("acceptor")' :
                   x.op \in {"hook", "manage"} => x.conn # c
      PROVE  HandledAt(c)'
  BY <1>2, <1>3, DoFields DEF HandledAt, Hooking
<1>4. CASE Keeps
  <2>1. CASE \A t \in Threads : Pending(t)' = Pending(t)
    <3>1. Connecting(c)' = Connecting(c)
      BY <1>4, <2>1 DEF Keeps, Connecting
    <3> QED
      BY <1>0, <1>3, <1>4, <2>1, <3>1 DEF Keeps
  <2>2. ASSUME NEW t \in Threads, Turns(t)
        PROVE  HandledAt(c)'
    <3>1. Connecting(c)' => Connecting(c)
      BY <1>4, <2>2 DEF Keeps, Connecting, Turns
    <3>2. \/ Pending("acceptor")' = Pending("acceptor")
          \/ \A x \in Pending("acceptor")' : x.op \notin {"hook", "manage"}
      BY <1>0, <2>2 DEF Turns
    <3> QED
      BY <1>3, <1>4, <3>1, <3>2 DEF Keeps
  <2> QED
    BY <1>4, <2>1, <2>2 DEF Keeps
<1>5. ASSUME NEW d \in Conns, ReaderManages(d) \/ ReaderCloses(d)
      PROVE  HandledAt(c)'
  <2>1. /\ UNCHANGED <<state, hooks, managedBy>>
        /\ \A u \in Threads \ {"reader"} : Pending(u)' = Pending(u)
        /\ \A x \in Pending("reader")' : x.op \in {"manage", "load", "release"}
    BY <1>5, ReaderManagesGoes, ReaderClosesGoes, DoFields
    DEF ReaderManages, ReaderCloses, connection, ownership, Starts
  <2>2. Connecting(c)' => Connecting(c)
    BY <1>0, <2>1 DEF Connecting
  <2> QED
    BY <1>0, <1>3, <2>1, <2>2
<1>6. ASSUME NEW d \in Conns, Accept(d)
      PROVE  HandledAt(c)'
  <2>1. /\ state[d] = "NONE" /\ state' = [state EXCEPT ![d] = "INITIALIZED"]
        /\ UNCHANGED <<hooks, managedBy>>
        /\ Starts("acceptor", ManageSteps(d))
    BY <1>6, AcceptGoes DEF Accept, ownership
  <2>2. /\ \A x \in ManageSteps(d) : x.op \notin {"state", "lock"}
        /\ \A x \in ManageSteps(d) : x.op \in {"hook", "manage"} => x.conn = d
    BY DoFields DEF ManageSteps
  <2>3. Connecting(c)' => Connecting(c)
    BY <1>0, <2>1, <2>2 DEF Connecting, Starts
  <2>4. CASE c # d
    BY <1>3, <2>1, <2>2, <2>3, <2>4 DEF Starts
  <2>5. CASE c = d
    <3>1. managedBy[c] = {"acceptor"}
      BY <2>1, <2>5 DEF Fresh, Untouched
    <3>2. ~Connecting(c)'
      BY <1>0, <1>2, <2>3, <3>1 DEF HandledAt
    <3>3. \A o \in {"inbound", "outbound"} : Hooking(c, o)'
      BY <2>1, <2>5 DEF Starts, ManageSteps, Hooking
    <3> QED
      BY <2>1, <3>1, <3>2, <3>3 DEF HandledAt
  <2> QED
    BY <2>4, <2>5
<1> QED
  BY <1>4, <1>5, <1>6, LoopStep

LEMMA HandledInit ==
    ASSUME Init
    PROVE  Handled
<1>1. \A t \in Threads : Pending(t) = {}
  BY ShortElements DEF Init, Pending
<1>2. \A c \in Conns : state[c] = "NONE" /\ managedBy[c] = {"acceptor"}
  BY DEF Init
<1>3. "acceptor" \in Threads
  BY DEF Threads
<1> QED
  BY <1>1, <1>2, <1>3 DEF Handled, HandledAt, Connecting

(* A connection is CONNECTED, so read from and written to, only once the   *)
(* handlers of all the threads are in place: each one's ManagedBy comes    *)
(* after its ConnectionAddSystemHandler (ReaderManageConnection,           *)
(* WorkerManageConnection, WriterManageConnection).                        *)
THEOREM ServerHandlesConnected == Spec => []ConnectedWhenHandled
<1>1. Init => Handled
  BY HandledInit
<1>2. TypeOK /\ Agendas /\ Chain /\ Fresh /\ Handled /\ [Next]_vars => Handled'
  BY HandledPerform, HandledOther
<1>3. Handled => ConnectedWhenHandled
  <2>1. SUFFICES ASSUME Handled, NEW c \in Conns, state[c] = "CONNECTED"
                 PROVE  /\ {"inbound", "outbound"} \subseteq hooks[c]
                        /\ \A i \in DOMAIN agenda["acceptor"] :
                              agenda["acceptor"][i].op = "hook" => agenda["acceptor"][i].conn # c
    BY DEF ConnectedWhenHandled
  <2>2. "writer" \in managedBy[c]
    BY <2>1 DEF Handled, HandledAt, Connecting, Threads, Pipe
  <2> QED
    BY <2>1, <2>2 DEF Handled, HandledAt, Pending, ToSet
<1> QED
  BY <1>1, <1>2, <1>3, AlwaysFresh, PTL DEF Spec

-----------------------------------------------------------------------------
(* 9. A close is announced under the lock                                  *)

UnderLock == {"tell", "forget", "unhook", "fire", "unlock"}

(* While a thread announces a close, it holds the lock of the connection   *)
(* and will release it, nothing changes the state, and each callback is    *)
(* followed by the removal of its handler.                                 *)
HeldBy(t) == \A x \in Pending(t) :
    /\ x.op \in UnderLock => /\ holder[x.conn] = t
                             /\ Do("unlock", x.conn, "nothing") \in Pending(t)
    /\ x.op \in {"fire", "unhook"} => state[x.conn] = "CLOSED"
    /\ (x.op = "tell" /\ x.arg \in Pipe) \/ x.op = "forget" =>
           Do("unhook", x.conn, x.arg) \in Pending(t)

Held == \A t \in Threads : HeldBy(t)

(* Of the steps done under the lock, which may come after which.           *)
LEMMA AfterStep ==
    ASSUME Agendas, NEW t \in Threads, agenda[t] # <<>>, NEW y \in Rest(t)
    PROVE  /\ y.op \notin {"tell", "forget"}
           /\ Due(t).op \in {"unlock", "lock"} => y.op \notin UnderLock
           /\ Due(t).op = "fire" => y.op # "unhook"
  BY DueFacts DEF MayPrecede, UnderLock

LEMMA HeldPerform ==
    ASSUME TypeOK, Agendas, Chain, Held, NEW t \in Threads, Perform(t)
    PROVE  Held'
<1>0. /\ state \in [Conns -> States]
      /\ holder \in [Conns -> Threads \cup {NoThread}]
      /\ NoThread \notin Threads
  BY NoThreadAssumption DEF TypeOK
<1>1. CASE UNCHANGED <<agenda, connection, phase, queues, reader, peer, told>> \/ UseFreed(t)
  BY <1>1 DEF UseFreed, Held, HeldBy, Pending, connection, ownership
<1>2. CASE Offer(t) /\ exiting["reader"]
  <2>1. agenda[t] # <<>> /\ Due(t).op = "offer" /\ t = "acceptor"
    BY <1>2, OfferGoes DEF Offer, Does
  <2> QED
    BY <1>2, <2>1, DueFacts DEF Chain, ChainAt
<1>3. CASE Moves(t) /\ ~UseFreed(t)
  <2> DEFINE d == Due(t)
             c == Due(t).conn
  <2>1. /\ agenda[t] # <<>> /\ Rest(t) \subseteq Pending(t)'
        /\ \A x \in Pending(t)' : x \in Rest(t) \/ Follows(d, x)
        /\ \A u \in Threads \ {t} : Pending(u)' = Pending(u)
    BY <1>3 DEF Moves
  <2>2. /\ Pending(t) = {d} \cup Rest(t)
        /\ \A y \in Rest(t) : y \in Steps /\ Formed(t, y)
        /\ d \in Steps
    BY <2>1, DueFacts
  <2>3. /\ \A y \in Rest(t) : y.op \notin {"tell", "forget"}
        /\ \A y \in Rest(t) : d.op \in {"unlock", "lock"} => y.op \notin UnderLock
    BY <2>1, AfterStep
  <2>4. \A u \in Threads : \A x \in Pending(u) : x.op \in UnderLock =>
           holder[x.conn] = u /\ x.conn \in Conns
    <3>1. \A u \in Threads : \A x \in Pending(u) : x.op \in UnderLock => x.conn \in Conns
      BY DEF Agendas, Formed, AcceptorFormed, UnderLock
    <3> QED
      BY <3>1 DEF Held, HeldBy
  <2>5. CASE LockState(t)
    <3>1. /\ holder[c] = NoThread /\ c \in Conns
          /\ holder' = [holder EXCEPT ![c] = t] /\ state' = [state EXCEPT ![c] = d.arg]
          /\ d.op = "lock"
      BY <2>5, LockStateGoes DEF LockState, Does
    <3>2. ASSUME NEW u \in Threads \ {t}
          PROVE  HeldBy(u)'
      <4>1. ASSUME NEW x \in Pending(u), x.op \in UnderLock
            PROVE  holder'[x.conn] = holder[x.conn] /\ state'[x.conn] = state[x.conn]
        BY <1>0, <2>4, <3>1, <4>1
      <4> QED
        BY <2>1, <3>2, <4>1 DEF Held, HeldBy, UnderLock
    <3>3. HeldBy(t)'
      <4>1. \A y \in Rest(t) : y.op \notin UnderLock
        BY <2>3, <3>1
      <4>2. holder'[c] = t /\ state'[c] = d.arg
        BY <1>0, <3>1
      <4>3. \/ d.arg = "CLOSED" /\ Goes(t, {Do("fire", c, "nothing"), Do("unlock", c, "nothing")})
            \/ Goes(t, {Do("tell", c, "pending"), Do("unlock", c, "nothing")})
            \/ Goes(t, {Do("unlock", c, "nothing")})
        BY <2>5, LockStateGoes
      <4>4. Do("unlock", c, "nothing") \in Pending(t)'
        BY <4>3 DEF Goes
      <4>5. ASSUME NEW x \in Pending(t)', x.op \in UnderLock
            PROVE  /\ x.conn = c
                   /\ x.op \in {"fire", "unlock"} \/ x = Do("tell", c, "pending")
                   /\ x.op = "fire" => d.arg = "CLOSED"
        BY <4>1, <4>3, <4>5, DoFields DEF Goes
      <4> QED
        BY <4>2, <4>4, <4>5, DoFields DEF HeldBy, UnderLock, Pipe
    <3> QED
      BY <3>2, <3>3 DEF Held
  <2>6. CASE UnlockState(t)
    <3>1. /\ holder' = [holder EXCEPT ![c] = NoThread] /\ state' = state
          /\ d.op = "unlock"
      BY <2>6 DEF UnlockState, Does
    <3>2. ASSUME NEW u \in Threads \ {t}
          PROVE  HeldBy(u)'
      <4>1. holder[c] = t
        BY <2>2, <2>4, <3>1 DEF UnderLock
      <4>2. ASSUME NEW x \in Pending(u), x.op \in UnderLock
            PROVE  holder'[x.conn] = holder[x.conn]
        BY <1>0, <2>4, <3>1, <4>1, <4>2
      <4> QED
        BY <2>1, <3>1, <3>2, <4>2 DEF Held, HeldBy, UnderLock
    <3>3. HeldBy(t)'
      <4>1. \A x \in Pending(t)' : x.op \notin UnderLock
        BY <2>1, <2>3, <3>1 DEF Follows
      <4> QED
        BY <4>1 DEF HeldBy, UnderLock
    <3> QED
      BY <3>2, <3>3 DEF Held
  <2>7. CASE d.op \notin {"lock", "unlock"}
    <3>1. UNCHANGED <<state, holder>>
      BY <1>3, <2>7, Doing, StateStep
    <3>2. ASSUME NEW u \in Threads \ {t}
          PROVE  HeldBy(u)'
      BY <2>1, <3>1, <3>2 DEF Held, HeldBy
    <3>3. ASSUME NEW x \in Rest(t), x.op \in UnderLock
          PROVE  /\ holder[x.conn] = t /\ Do("unlock", x.conn, "nothing") \in Pending(t)'
                 /\ x.op \in {"fire", "unhook"} => state[x.conn] = "CLOSED"
      <4>1. x \in Pending(t) /\ HeldBy(t)
        BY <2>2, <3>3 DEF Held
      <4>2. Do("unlock", x.conn, "nothing") # d
        BY <2>7, DoFields
      <4> QED
        BY <2>1, <2>2, <3>3, <4>1, <4>2 DEF HeldBy
    <3>4. CASE d.op # "fire"
      <4>1. \A x \in Pending(t)' : x.op \in UnderLock => x \in Rest(t)
        BY <2>1, <2>7, <3>4 DEF Follows, UnderLock
      <4> QED
        BY <2>3, <3>1, <3>2, <3>3, <4>1 DEF Held, HeldBy, UnderLock
    <3>5. CASE d.op = "fire"
      <4> DEFINE o == Head(handlers[c])
                 once == {Do("unhook", c, o), Do("fire", c, "nothing")}
      <4>1. FireClose(t) /\ handlers \in [Conns -> Seq(Threads)]
        BY <1>3, <3>5, Doing DEF TypeOK
      <4>2. /\ holder[c] = t /\ state[c] = "CLOSED"
            /\ Do("unlock", c, "nothing") \in Pending(t)'
        <5>1. HeldBy(t) /\ d \in Pending(t)
          BY <2>2 DEF Held
        <5>2. Do("unlock", c, "nothing") # d
          BY <3>5, DoFields
        <5> QED
          BY <2>1, <2>2, <3>5, <5>1, <5>2 DEF HeldBy, UnderLock
      <4>3. \/ Goes(t, {})
            \/ Goes(t, {Do("tell", c, o)} \cup once)
            \/ o = "acceptor" /\ Goes(t, {Do("forget", c, o), Do("release", c, o)} \cup once)
        BY <4>1, FireCloseGoes
      <4>4. ASSUME NEW x \in Pending(t)'
            PROVE  /\ x.op \in UnderLock => /\ holder'[x.conn] = t
                                            /\ Do("unlock", x.conn, "nothing") \in Pending(t)'
                   /\ x.op \in {"fire", "unhook"} => state'[x.conn] = "CLOSED"
        <5>1. CASE x \in Rest(t)
          BY <3>1, <3>3, <5>1 DEF UnderLock
        <5>2. CASE Follows(d, x)
          <6>1. x.conn = c
            BY <3>5, <5>2 DEF Follows
          <6> QED
            BY <3>1, <4>2, <6>1
        <5> QED
          BY <2>1, <4>4, <5>1, <5>2
      <4>5. ASSUME NEW x \in Pending(t)', x.op \in {"tell", "forget"}
            PROVE  Do("unhook", x.conn, x.arg) \in Pending(t)'
        <5>1. x \notin Rest(t)
          BY <2>3, <4>5
        <5>2. x \in {Do("tell", c, o), Do("forget", c, o)}
          BY <4>3, <4>5, <5>1, DoFields DEF Goes
        <5>3. x.conn = c /\ x.arg = o /\ Do("unhook", c, o) \in Pending(t)'
          BY <4>3, <5>1, <5>2, <4>5, DoFields DEF Goes
        <5> QED
          BY <5>3
      <4>6. HeldBy(t)'
        BY <4>4, <4>5 DEF HeldBy
      <4> QED
        BY <3>2, <4>6 DEF Held
    <3> QED
      BY <3>4, <3>5
  <2> QED
    BY <1>3, <2>5, <2>6, <2>7, Doing
<1> QED
  BY <1>1, <1>2, <1>3, PerformMoves

LEMMA HeldOther ==
    ASSUME TypeOK, Agendas, Chain, Held, [Next]_vars, ~ \E t \in Threads : Perform(t)
    PROVE  Held'
<1>0. state \in [Conns -> States]
  BY DEF TypeOK
<1>1. CASE Keeps
  <2>1. UNCHANGED <<state, holder>>
    BY <1>1 DEF Keeps
  <2>2. CASE \A t \in Threads : Pending(t)' = Pending(t)
    BY <2>1, <2>2 DEF Held, HeldBy
  <2>3. ASSUME NEW t \in Threads, Turns(t)
        PROVE  Held'
    BY <2>1, <2>3 DEF Held, HeldBy, Turns, UnderLock
  <2> QED
    BY <1>1, <2>2, <2>3 DEF Keeps
<1>2. ASSUME NEW c \in Conns, ReaderManages(c) \/ ReaderCloses(c)
      PROVE  Held'
  <2>1. /\ UNCHANGED <<state, holder>>
        /\ \A u \in Threads \ {"reader"} : Pending(u)' = Pending(u)
        /\ \A x \in Pending("reader")' : x.op \in {"manage", "load", "release"}
    BY <1>2, ReaderManagesGoes, ReaderClosesGoes, DoFields
    DEF ReaderManages, ReaderCloses, connection, Starts
  <2> QED
    BY <2>1 DEF Held, HeldBy, UnderLock
<1>3. ASSUME NEW c \in Conns, Accept(c)
      PROVE  Held'
  <2>1. /\ state[c] = "NONE" /\ state' = [state EXCEPT ![c] = "INITIALIZED"]
        /\ UNCHANGED holder /\ Starts("acceptor", ManageSteps(c))
    BY <1>3, AcceptGoes DEF Accept
  <2>2. \A x \in ManageSteps(c) : x.op \notin UnderLock
    BY DoFields DEF ManageSteps, UnderLock
  <2>3. ASSUME NEW u \in Threads, NEW x \in Pending(u), x.op \in {"fire", "unhook"}
        PROVE  state'[x.conn] = "CLOSED"
    <3>1. state[x.conn] = "CLOSED" /\ x.conn \in Conns
      BY <2>3 DEF Held, HeldBy, Agendas, Formed, AcceptorFormed
    <3> QED
      BY <1>0, <2>1, <3>1
  <2> QED
    BY <2>1, <2>2, <2>3 DEF Held, HeldBy, Starts, UnderLock
<1> QED
  BY <1>1, <1>2, <1>3, LoopStep

LEMMA HeldInit ==
    ASSUME Init
    PROVE  Held
<1>1. \A t \in Threads : Pending(t) = {}
  BY ShortElements DEF Init, Pending
<1> QED
  BY <1>1 DEF Held, HeldBy

LEMMA AlwaysHeld == Spec => [](TypeOK /\ Agendas /\ Chain /\ Fresh /\ Held)
<1>1. Init => Held
  BY HeldInit
<1>2. TypeOK /\ Agendas /\ Chain /\ Held /\ [Next]_vars => Held'
  BY HeldPerform, HeldOther
<1> QED
  BY <1>1, <1>2, AlwaysFresh, PTL DEF Spec

-----------------------------------------------------------------------------
(* 10. Each owner is told once                                             *)

Handles(c, o) == o \in ToSet(handlers[c])
Telling(c, o) == \E t \in Threads : Do("tell", c, o) \in Pending(t) \/ Do("forget", c, o) \in Pending(t)
Unhooking(c, o) == \E t \in Threads : Do("unhook", c, o) \in Pending(t)

(* An owner has its handler of CLOSE added once, has it called once, and   *)
(* has it removed before the lock is released.                             *)
OnceAt(c, o) ==
    /\ told[c][o] <= 1
    /\ Hooking(c, o) => ~Handles(c, o) /\ ~Telling(c, o)
    /\ Hooking(c, o) \/ (Handles(c, o) /\ ~Unhooking(c, o)) \/ Telling(c, o) => told[c][o] = 0

Once == \A c \in Conns, o \in Threads : OnceAt(c, o)

LEMMA OnceKept ==
    ASSUME NEW c \in Conns, NEW o \in Threads, OnceAt(c, o), told'[c][o] = told[c][o],
           Hooking(c, o)' => Hooking(c, o), Telling(c, o)' => Telling(c, o),
           Handles(c, o)' => Handles(c, o), Unhooking(c, o) => Unhooking(c, o)' \/ ~Handles(c, o)'
    PROVE  OnceAt(c, o)'
  BY DEF OnceAt

LEMMA OncePerform ==
    ASSUME TypeOK, Agendas, Chain, Held, Once, NEW t \in Threads, Perform(t)
    PROVE  Once'
<1>0. /\ handlers \in [Conns -> Seq(Threads)]
      /\ told \in [Conns -> [Threads -> Nat]]
      /\ "acceptor" \in Threads /\ Threads = Pipe \cup {"acceptor"}
      /\ "pending" \notin Threads /\ "acceptor" \notin Pipe /\ "reader" \in Pipe
  BY DEF TypeOK, Threads, Pipe
<1>1. CASE UNCHANGED <<agenda, connection, phase, queues, reader, peer, told>> \/ UseFreed(t)
  BY <1>1 DEF UseFreed, Once, OnceAt, Hooking, Handles, Telling, Unhooking, Pending, connection,
              ownership
<1>2. CASE Offer(t) /\ exiting["reader"]
  <2>1. agenda[t] # <<>> /\ Due(t).op = "offer" /\ t = "acceptor"
    BY <1>2, OfferGoes DEF Offer, Does
  <2> QED
    BY <1>2, <2>1, DueFacts DEF Chain, ChainAt
<1>3. CASE Moves(t) /\ ~UseFreed(t)
  <2> DEFINE d == Due(t)
  <2>1. /\ agenda[t] # <<>> /\ Rest(t) \subseteq Pending(t)'
        /\ \A x \in Pending(t)' : x \in Rest(t) \/ Follows(d, x)
        /\ \A u \in Threads \ {t} : Pending(u)' = Pending(u)
    BY <1>3 DEF Moves
  <2>2. /\ Pending(t) = {d} \cup Rest(t)
        /\ d \in Steps /\ d = Do(d.op, d.conn, d.arg)
        /\ \A y \in Rest(t) : MayPrecede(d, y)
    BY <2>1, DueFacts, StepFields
  <2>3. /\ \A y \in Rest(t) : y.op \notin {"tell", "forget"}
        /\ d.op = "fire" => \A y \in Rest(t) : y.op # "unhook"
    BY <2>1, AfterStep
  <2>4. SUFFICES ASSUME NEW c \in Conns, NEW o \in Threads
                 PROVE  OnceAt(c, o)'
    BY DEF Once
  <2>5. OnceAt(c, o) /\ Held
    BY DEF Once
  <2>6. Hooking(c, o)' => Hooking(c, o)
    <3>1. \A x : Follows(d, x) => x.op # "hook"
      BY DEF Follows
    <3>2. ASSUME NEW x \in Pending("acceptor")', x.op = "hook"
          PROVE  x \in Pending("acceptor")
      BY <1>0, <2>1, <2>2, <3>1, <3>2
    <3> QED
      BY <3>2, DoFields DEF Hooking
  <2>7. d # Do("unhook", c, o) => (Unhooking(c, o) => Unhooking(c, o)')
    BY <2>1, <2>2 DEF Unhooking
  <2>8. d.op # "fire" \/ d.conn # c => (Telling(c, o)' => Telling(c, o))
    <3>1. ASSUME d.op # "fire" \/ d.conn # c, NEW x, Follows(d, x), x.op \in {"tell", "forget"},
                 x.conn = c, x.arg = o
          PROVE  FALSE
      BY <1>0, <3>1 DEF Follows
    <3>2. ASSUME d.op # "fire" \/ d.conn # c, NEW u \in Threads, NEW x \in Pending(u)',
                 x.op \in {"tell", "forget"}, x.conn = c, x.arg = o
          PROVE  x \in Pending(u)
      BY <2>1, <2>2, <3>1, <3>2
    <3> QED
      BY <3>2, DoFields DEF Telling
  <2>9. CASE d.conn # c \/ d.op \notin {"fire", "unhook", "tell", "forget", "hook", "disown"}
    <3>1. told'[c] = told[c] /\ handlers'[c] = handlers[c]
      <4>1. CASE d.conn # c
        BY <4>1, ElsewhereKept
      <4>2. CASE d.op \notin {"unhook", "tell", "forget", "hook", "disown"}
        BY <1>3, <4>2, Doing, StateStep
      <4> QED
        BY <2>9, <4>1, <4>2
    <3>2. d # Do("unhook", c, o) /\ (d.op # "fire" \/ d.conn # c)
      BY <2>9, DoFields
    <3> QED
      BY <2>5, <2>6, <2>7, <2>8, <3>1, <3>2, OnceKept DEF Handles
  <2>10. CASE d.conn = c /\ d.op = "hook"
    <3>1. AddHandler(t) /\ told' = told
      BY <1>3, <2>10, Doing, StateStep
    <3>2. d # Do("unhook", c, o) /\ d.op # "fire"
      BY <2>10, DoFields
    <3>3. CASE handlers' = handlers
      BY <2>5, <2>6, <2>7, <2>8, <3>1, <3>2, <3>3, OnceKept DEF Handles
    <3>4. CASE d.arg \in Threads /\ handlers' = [handlers EXCEPT ![c] = Append(@, d.arg)] /\ Then(t, <<>>)
      <4>1. ToSet(handlers'[c]) = ToSet(handlers[c]) \cup {d.arg}
        BY <1>0, <3>4, AppendElements
      <4>2. CASE d.arg # o
        <5>1. Handles(c, o)' => Handles(c, o)
          BY <4>1, <4>2 DEF Handles
        <5> QED
          BY <2>5, <2>6, <2>7, <2>8, <3>1, <3>2, <5>1, OnceKept
      <4>3. CASE d.arg = o
        <5>1. t = "acceptor" /\ d = Do("hook", c, o)
          BY <2>2, <2>10, <3>1, <4>3, AddHandlerGoes
        <5>2. Hooking(c, o)
          BY <2>2, <5>1 DEF Hooking
        <5>3. d \notin Rest(t)
          BY <2>2, <2>10 DEF MayPrecede
        <5>4. ~Hooking(c, o)'
          <6>1. Pending(t)' = Rest(t)
            BY <2>1, <3>4, NoStep DEF Goes
          <6> QED
            BY <5>1, <5>3, <6>1 DEF Hooking
        <5>5. told[c][o] = 0
          BY <2>5, <5>2 DEF OnceAt
        <5> QED
          BY <3>1, <5>4, <5>5 DEF OnceAt
      <4> QED
        BY <4>2, <4>3
    <3> QED
      BY <2>10, <3>1, <3>3, <3>4 DEF AddHandler
  <2>11. CASE d.conn = c /\ d.op = "disown"
    <3>1. Disown(t) /\ told' = told
      BY <1>3, <2>11, Doing, StateStep
    <3>2. Handles(c, o)' => Handles(c, o)
      <4>1. handlers' = handlers \/ handlers' = [handlers EXCEPT ![c] = Without(@, {"acceptor"})]
        BY <2>11, <3>1 DEF Disown
      <4>2. ToSet(Without(handlers[c], {"acceptor"})) \subseteq ToSet(handlers[c])
        BY <1>0, WithoutProperties
      <4> QED
        BY <1>0, <4>1, <4>2 DEF Handles
    <3>3. d # Do("unhook", c, o) /\ d.op # "fire"
      BY <2>11, DoFields
    <3> QED
      BY <2>5, <2>6, <2>7, <2>8, <3>1, <3>2, <3>3, OnceKept
  <2>12. CASE d.conn = c /\ d.op = "unhook"
    <3>1. RemoveHandler(t) /\ told' = told
      BY <1>3, <2>12, Doing, StateStep
    <3>2. /\ ToSet(handlers'[c]) \subseteq ToSet(handlers[c]) \ {d.arg}
      <4>1. handlers'[c] = Without(handlers[c], {d.arg})
        BY <1>0, <2>12, <3>1 DEF RemoveHandler
      <4>2. ToSet(Without(handlers[c], {d.arg})) \subseteq ToSet(handlers[c]) \ {d.arg}
        BY <1>0, WithoutProperties
      <4> QED
        BY <4>1, <4>2
    <3>3. d = Do("unhook", c, o) => d.arg = o
      BY DoFields
    <3>4. Handles(c, o)' => Handles(c, o) /\ d.arg # o
      BY <3>2 DEF Handles
    <3>5. d.op # "fire"
      BY <2>12
    <3> QED
      BY <2>5, <2>6, <2>7, <2>8, <3>1, <3>3, <3>4, <3>5, OnceKept
  <2>13. CASE d.conn = c /\ d.op = "fire"
    <3> DEFINE h == Head(handlers[c])
               once == {Do("unhook", c, h), Do("fire", c, "nothing")}
    <3>1. FireClose(t) /\ told' = told /\ handlers' = handlers
      BY <1>3, <2>13, Doing, StateStep
    <3>2. \/ Goes(t, {})
          \/ h \in ToSet(handlers[c]) /\ Goes(t, {Do("tell", c, h)} \cup once)
          \/ h \in ToSet(handlers[c]) /\ Goes(t, {Do("forget", c, h), Do("release", c, h)} \cup once)
      BY <1>0, <2>13, <3>1, FireCloseGoes
    <3>3. d # Do("unhook", c, o)
      BY <2>13, DoFields
    <3>4. CASE Telling(c, o)' /\ ~Telling(c, o)
      <4>1. o = h /\ h \in ToSet(handlers[c])
        <5>1. PICK x : x \in {Do("tell", c, o), Do("forget", c, o)} /\ x \in Pending(t)' /\ x \notin Rest(t)
          BY <2>1, <2>2, <3>4 DEF Telling
        <5>2. x.op \in {"tell", "forget"} /\ x.arg = o
          BY <5>1, DoFields
        <5> QED
          BY <3>2, <5>1, <5>2, DoFields DEF Goes
      <4>2. ~Unhooking(c, o)
        <5>1. SUFFICES ASSUME NEW u \in Threads, Do("unhook", c, o) \in Pending(u) PROVE FALSE
          BY DEF Unhooking
        <5>2. holder[c] = u
          BY <2>5, <5>1, DoFields DEF Held, HeldBy, UnderLock
        <5>3. holder[c] = t
          BY <2>2, <2>5, <2>13 DEF Held, HeldBy, UnderLock
        <5>4. Do("unhook", c, o) \in Rest(t)
          BY <2>2, <3>3, <5>1, <5>2, <5>3
        <5> QED
          BY <2>3, <2>13, <5>4, DoFields
      <4>3. told[c][o] = 0 /\ ~Hooking(c, o)
        BY <2>5, <4>1, <4>2 DEF OnceAt, Handles
      <4> QED
        BY <2>6, <3>1, <4>3 DEF OnceAt
    <3>5. CASE Telling(c, o)' => Telling(c, o)
      BY <2>5, <2>6, <2>7, <3>1, <3>3, <3>5, OnceKept DEF Handles
    <3> QED
      BY <3>4, <3>5
  <2>14. CASE d.conn = c /\ d.op \in {"tell", "forget"}
    <3>1. handlers' = handlers /\ (Tell(t) \/ Forget(t))
      BY <1>3, <2>14, Doing, StateStep
    <3>2. d # Do("unhook", c, o) /\ d.op # "fire"
      BY <2>14, DoFields
    <3>3. /\ d.arg \in Threads \cup {"pending"}
          /\ \/ told' = told
             \/ d.arg \in Threads /\ told' = [told EXCEPT ![c][d.arg] = @ + 1]
      <4>1. CASE Tell(t)
        BY <1>0, <2>14, <4>1, TellGoes DEF Tell
      <4>2. CASE Forget(t)
        <5>1. d.arg = "acceptor"
          BY <2>1, <4>2, DueArguments DEF Forget, Does
        <5> QED
          BY <1>0, <2>14, <4>2, <5>1 DEF Forget
      <4> QED
        BY <3>1, <4>1, <4>2
    <3>4. CASE d.arg # o
      <4>1. told'[c][o] = told[c][o]
        BY <1>0, <3>3, <3>4
      <4> QED
        BY <2>5, <2>6, <2>7, <2>8, <3>1, <3>2, <4>1, OnceKept DEF Handles
    <3>5. CASE d.arg = o
      <4>1. d \in {Do("tell", c, o), Do("forget", c, o)} /\ d \in Pending(t)
        BY <2>2, <2>14, <3>5
      <4>2. Telling(c, o)
        BY <4>1 DEF Telling
      <4>3. told[c][o] = 0 /\ ~Hooking(c, o)
        BY <2>5, <4>2 DEF OnceAt
      <4>4. told'[c][o] \in {0, 1}
        BY <1>0, <3>3, <3>5, <4>3
      <4>5. Do("unhook", c, o) \in Pending(t)
        <5>1. (d.op = "tell" /\ d.arg \in Pipe) \/ d.op = "forget"
          <6>1. Tell(t) => d.arg \in Pipe
            BY <1>0, <3>5, TellGoes
          <6>2. Forget(t) => d.op = "forget"
            BY DEF Forget, Does
          <6> QED
            BY <2>14, <3>1, <6>1, <6>2
        <5> QED
          BY <2>2, <2>5, <2>14, <3>5, <5>1 DEF Held, HeldBy
      <4>6. Unhooking(c, o)'
        BY <2>7, <3>2, <4>5 DEF Unhooking
      <4>7. ~Telling(c, o)'
        <5>1. SUFFICES ASSUME NEW u \in Threads, NEW x \in Pending(u)',
                              x.op \in {"tell", "forget"}, x.conn = c, x.arg = o
                       PROVE  FALSE
          BY DoFields DEF Telling
        <5>2. CASE u = t
          <6>1. x \notin Rest(t)
            BY <2>3, <5>1
          <6>2. Follows(d, x)
            BY <2>1, <5>1, <5>2, <6>1
          <6> QED
            BY <2>14, <5>1, <6>2 DEF Follows
        <5>3. CASE u # t
          <6>1. holder[c] = u
            BY <2>1, <2>5, <5>1, <5>3 DEF Held, HeldBy, UnderLock
          <6>2. holder[c] = t
            BY <2>2, <2>5, <2>14 DEF Held, HeldBy, UnderLock
          <6> QED
            BY <5>3, <6>1, <6>2
        <5> QED
          BY <5>2, <5>3
      <4> QED
        BY <2>6, <4>3, <4>4, <4>6, <4>7 DEF OnceAt
    <3> QED
      BY <3>4, <3>5
  <2> QED
    BY <2>9, <2>10, <2>11, <2>12, <2>13, <2>14
<1> QED
  BY <1>1, <1>2, <1>3, PerformMoves

LEMMA OnceOther ==
    ASSUME TypeOK, Agendas, Chain, Fresh, Once, [Next]_vars, ~ \E t \in Threads : Perform(t)
    PROVE  Once'
<1>0. /\ handlers \in [Conns -> Seq(Threads)]
      /\ Threads = Pipe \cup {"acceptor"} /\ Pipe = {"reader", "worker", "writer"}
  BY DEF TypeOK, Threads, Pipe
<1>1. SUFFICES ASSUME NEW c \in Conns, NEW o \in Threads
               PROVE  OnceAt(c, o)'
  BY DEF Once
<1>2. OnceAt(c, o)
  BY DEF Once
<1>3. ASSUME UNCHANGED told, handlers'[c] = handlers[c], NEW t \in Threads, Pending(t) = {},
             \A u \in Threads \ {t} : Pending(u)' = Pending(u),
             \A x \in Pending(t)' : x.op \notin {"tell", "forget"} /\ (x.op = "hook" => x.conn # c)
      PROVE  OnceAt(c, o)'
  <2>1. Hooking(c, o)' => Hooking(c, o)
    BY <1>0, <1>3, DoFields DEF Hooking
  <2>2. Telling(c, o)' => Telling(c, o)
    BY <1>3, DoFields DEF Telling
  <2>3. Unhooking(c, o) => Unhooking(c, o)'
    BY <1>3 DEF Unhooking
  <2> QED
    BY <1>2, <1>3, <2>1, <2>2, <2>3, OnceKept DEF Handles
<1>4. CASE Keeps
  <2>1. UNCHANGED <<told, handlers>>
    BY <1>4 DEF Keeps
  <2>2. CASE \A t \in Threads : Pending(t)' = Pending(t)
    BY <1>0, <1>2, <2>1, <2>2 DEF OnceAt, Hooking, Handles, Telling, Unhooking
  <2>3. ASSUME NEW t \in Threads, Turns(t)
        PROVE  OnceAt(c, o)'
    <3>1. \A x \in Pending(t)' : x.op \notin {"tell", "forget", "hook"}
      BY <2>3 DEF Turns
    <3> QED
      BY <1>3, <2>1, <2>3, <3>1 DEF Turns
  <2> QED
    BY <1>4, <2>2, <2>3 DEF Keeps
<1>5. ASSUME NEW e \in Conns, ReaderManages(e) \/ ReaderCloses(e)
      PROVE  OnceAt(c, o)'
  <2>1. /\ UNCHANGED <<told, handlers>> /\ Pending("reader") = {}
        /\ \A u \in Threads \ {"reader"} : Pending(u)' = Pending(u)
        /\ \A x \in Pending("reader")' : x.op \in {"manage", "load", "release"}
    BY <1>5, ReaderManagesGoes, ReaderClosesGoes, DoFields
    DEF ReaderManages, ReaderCloses, connection, Starts
  <2> QED
    BY <1>0, <1>3, <2>1
<1>6. ASSUME NEW e \in Conns, Accept(e)
      PROVE  OnceAt(c, o)'
  <2>1. /\ state[e] = "NONE" /\ handlers' = [handlers EXCEPT ![e] = <<"acceptor">>]
        /\ UNCHANGED told /\ Starts("acceptor", ManageSteps(e))
    BY <1>6, AcceptGoes DEF Accept
  <2>2. \A x \in ManageSteps(e) :
           /\ x.op \notin {"tell", "forget"}
           /\ x.op = "hook" => x.conn = e /\ x.arg # "acceptor"
    BY DoFields DEF ManageSteps
  <2>3. CASE c # e
    BY <1>0, <1>3, <2>1, <2>2, <2>3 DEF Starts
  <2>4. CASE c = e
    <3>1. told[c][o] = 0 /\ \A u \in Threads : \A x \in Pending(u) : x.conn # c
      BY <2>1, <2>4 DEF Fresh, Untouched
    <3>2. ~Telling(c, o)'
      <4>1. \A u \in Threads : \A x \in Pending(u)' : x.conn # c \/ x.op \notin {"tell", "forget"}
        BY <2>1, <2>2, <3>1 DEF Starts
      <4> QED
        BY <4>1, DoFields DEF Telling
    <3>3. Handles(c, o)' => o = "acceptor"
      BY <1>0, <2>1, <2>4, ShortElements DEF Handles
    <3>4. Hooking(c, o)' => o # "acceptor"
      BY <2>1, <2>2, DoFields DEF Hooking, Starts
    <3> QED
      BY <2>1, <3>1, <3>2, <3>3, <3>4 DEF OnceAt
  <2> QED
    BY <2>3, <2>4
<1> QED
  BY <1>4, <1>5, <1>6, LoopStep

LEMMA OnceInit ==
    ASSUME Init
    PROVE  Once
<1>1. /\ \A t \in Threads : Pending(t) = {}
      /\ \A c \in Conns : ToSet(handlers[c]) = {}
  BY ShortElements DEF Init, Pending
<1>2. \A c \in Conns, o \in Threads : told[c][o] = 0
  BY DEF Init
<1>3. "acceptor" \in Threads
  BY DEF Threads
<1> QED
  BY <1>1, <1>2, <1>3 DEF Once, OnceAt, Hooking, Handles, Telling, Unhooking

LEMMA AlwaysOnce == Spec => [](TypeOK /\ Agendas /\ Chain /\ Fresh /\ Held /\ Once)
<1>1. Init => Once
  BY OnceInit
<1>2. TypeOK /\ Agendas /\ Chain /\ Fresh /\ Held /\ Once /\ [Next]_vars => Once'
  BY OncePerform, OnceOther
<1> QED
  BY <1>1, <1>2, AlwaysHeld, PTL DEF Spec

(* Each owner of a connection is told of its close at most once, however   *)
(* many threads close it at once, and though a late CONNECTED may bring it *)
(* back: its handler is added once, is called under the lock, and is       *)
(* removed before the lock is released (ConnectionState, EventHandle).     *)
THEOREM ServerTellsOnce == Spec => []ToldOnce
<1>1. Once => ToldOnce
  BY DEF Once, OnceAt, ToldOnce
<1> QED
  BY <1>1, AlwaysOnce, PTL

-----------------------------------------------------------------------------
(* 11. The reader's load                                                   *)

Offering(c) == Do("offer", c, "reader") \in Pending("acceptor")
Loading(c) == Do("load", c, "nothing") \in Pending("reader")
HasData(c) == Item("DATA", c) \in Inside("reader")
HasClose(c) == Item("CLOSE", c) \in Inside("reader")

(* The reader's handler of the close of c is called, or may be.            *)
Attached(c) ==
    \/ Hooking(c, "reader") /\ ~Offering(c)
    \/ Handles(c, "reader") \/ Telling(c, "reader")

(* The DATA item of a connection is put in the reader's queue before its   *)
(* handler of CLOSE is added, so until the CLOSE event is there the        *)
(* connection is in the queue or registered, and never both.               *)
ExactAt(c) ==
    /\ \A type \in {"DATA", "CLOSE"} : OnceIn(queue["reader"], Item(type, c))
    /\ Offering(c) \/ HasData(c) => c \notin registered
    /\ Offering(c) => ~HasData(c)
    /\ HasClose(c) => told[c]["reader"] > 0
    /\ c \in registered \/ Before(queue["reader"], Item("DATA", c), Item("CLOSE", c))
    /\ told[c]["reader"] = 0 /\ Attached(c) => c \in registered \/ HasData(c)
    /\ Loading(c) => c \in registered

Exact ==
    /\ load = Cardinality({c \in registered : ~Loading(c)})
    /\ \A c \in Conns : ExactAt(c)

(* What is put in the reader's queue or taken from it, and is not a DATA   *)
(* or a CLOSE of c, makes no difference for c.                             *)
LEMMA OrderKept ==
    ASSUME queue \in [Pipe -> Seq(Items)], NEW c \in Conns, NEW i \in Items,
           i \notin {Item("DATA", c), Item("CLOSE", c)},
           \/ queue'["reader"] = queue["reader"]
           \/ ReaderGets(i)
           \/ queue["reader"] # <<>> /\ queue' = [queue EXCEPT !["reader"] = Tail(@)] /\ i = Head(queue["reader"])
    PROVE  /\ \A type \in {"DATA", "CLOSE"} : OnceIn(queue["reader"], Item(type, c)) =>
                                               OnceIn(queue["reader"], Item(type, c))'
           /\ HasData(c)' <=> HasData(c)
           /\ HasClose(c)' <=> HasClose(c)
           /\ Before(queue["reader"], Item("DATA", c), Item("CLOSE", c)) =>
                Before(queue["reader"], Item("DATA", c), Item("CLOSE", c))'
<1>0. "reader" \in Pipe
  BY DEF Pipe
<1>1. CASE queue'["reader"] = queue["reader"]
  BY <1>1 DEF HasData, HasClose, Inside, Item
<1>2. CASE ReaderGets(i)
  <2>1. /\ queue["reader"] \in Seq(Items)
        /\ queue'["reader"] = Append(queue["reader"], i)
        /\ Inside("reader")' = Inside("reader") \cup {i}
    BY <1>0, <1>2, Enqueued DEF ReaderGets
  <2>2. \A x, y : /\ OnceIn(queue["reader"], x) /\ i # x => OnceIn(queue'["reader"], x)
                  /\ Before(queue["reader"], x, y) /\ i # y => Before(queue'["reader"], x, y)
    BY <2>1, AppendOrder
  <2> QED
    BY <2>1, <2>2 DEF HasData, HasClose
<1>3. CASE /\ queue["reader"] # <<>> /\ queue' = [queue EXCEPT !["reader"] = Tail(@)]
           /\ i = Head(queue["reader"])
  <2>1. /\ queue["reader"] \in Seq(Items)
        /\ queue'["reader"] = Tail(queue["reader"])
        /\ Inside("reader") = Inside("reader")' \cup {i}
    BY <1>0, <1>3, Dequeued
  <2>2. \A x, y : /\ OnceIn(queue["reader"], x) => OnceIn(queue'["reader"], x)
                  /\ Before(queue["reader"], x, y) /\ i # x => Before(queue'["reader"], x, y)
    BY <1>3, <2>1, TailOrder
  <2> QED
    BY <2>1, <2>2 DEF HasData, HasClose
<1> QED
  BY <1>1, <1>2, <1>3

(* A step that brings c no nearer to the reader.                           *)
LEMMA ExactKept ==
    ASSUME queue \in [Pipe -> Seq(Items)], NEW c \in Conns, ExactAt(c), NEW i \in Items,
           i \notin {Item("DATA", c), Item("CLOSE", c)},
           \/ queue'["reader"] = queue["reader"]
           \/ ReaderGets(i)
           \/ queue["reader"] # <<>> /\ queue' = [queue EXCEPT !["reader"] = Tail(@)] /\ i = Head(queue["reader"]),
           c \in registered' <=> c \in registered,
           told[c]["reader"] \in Nat, told'[c]["reader"] \in Nat,
           told'[c]["reader"] >= told[c]["reader"],
           Offering(c)' => Offering(c), Attached(c)' => Attached(c), Loading(c)' => Loading(c)
    PROVE  ExactAt(c)'
<1>1. /\ \A type \in {"DATA", "CLOSE"} : OnceIn(queue["reader"], Item(type, c)) =>
                                          OnceIn(queue["reader"], Item(type, c))'
      /\ HasData(c)' <=> HasData(c)
      /\ HasClose(c)' <=> HasClose(c)
      /\ Before(queue["reader"], Item("DATA", c), Item("CLOSE", c)) =>
           Before(queue["reader"], Item("DATA", c), Item("CLOSE", c))'
  BY OrderKept
<1> QED
  BY <1>1 DEF ExactAt

(* Nothing brings c to the reader but the acceptor, that offers it before  *)
(* it adds the reader's handler, and the dispatch of its own handlers.     *)
LEMMA AttachedStep ==
    ASSUME TypeOK, Agendas, NEW t \in Threads, Perform(t), Moves(t), ~UseFreed(t), NEW c \in Conns
    PROVE  /\ Offering(c)' => Offering(c) /\ Due(t) # Do("offer", c, "reader")
           /\ Loading(c)' => Loading(c) /\ Due(t) # Do("load", c, "nothing")
           /\ Attached(c)' => Attached(c) \/ Due(t) = Do("offer", c, "reader")
<1> DEFINE d == Due(t)
<1>0. /\ handlers \in [Conns -> Seq(Threads)]
      /\ Threads = Pipe \cup {"acceptor"} /\ "acceptor" \notin Pipe /\ "reader" \in Pipe
  BY DEF TypeOK, Threads, Pipe
<1>1. /\ agenda[t] # <<>> /\ Rest(t) \subseteq Pending(t)'
      /\ \A x \in Pending(t)' : x \in Rest(t) \/ Follows(d, x)
      /\ \A u \in Threads \ {t} : Pending(u)' = Pending(u)
  BY DEF Moves
<1>2. /\ Pending(t) = {d} \cup Rest(t)
      /\ d \in Steps /\ d = Do(d.op, d.conn, d.arg)
      /\ Formed(t, d)
      /\ \A y \in Rest(t) : MayPrecede(d, y)
  BY <1>1, DueFacts, StepFields
<1>3. /\ \A x : Follows(d, x) => x.op \notin {"offer", "hook", "load"}
      /\ \A y \in Rest(t) : /\ y.op # "offer"
                            /\ d.op = "load" => y # d
  BY <1>2 DEF Follows, MayPrecede
<1>4. d.op = "offer" => t = "acceptor" /\ d.arg = "reader"
  BY <1>2 DEF Formed, AcceptorFormed, Pipe
<1>5. d.op \in {"load", "hook"} => t = IF d.op = "load" THEN "reader" ELSE "acceptor"
  BY <1>2 DEF Formed, AcceptorFormed
<1>6. ASSUME NEW x \in Pending("acceptor")', x.op \in {"offer", "hook"}
      PROVE  x \in Pending("acceptor") /\ (x.op = "offer" => x # d \/ t # "acceptor")
  BY <1>0, <1>1, <1>2, <1>3, <1>6
<1>7. ASSUME NEW x \in Pending("reader")', x.op = "load"
      PROVE  x \in Pending("reader") /\ x # d
  BY <1>0, <1>1, <1>2, <1>3, <1>5, <1>7
<1>8. Offering(c)' => Offering(c) /\ d # Do("offer", c, "reader")
  BY <1>4, <1>6, DoFields DEF Offering
<1>9. Loading(c)' => Loading(c) /\ d # Do("load", c, "nothing")
  BY <1>7, DoFields DEF Loading
<1>10. ASSUME d # Do("offer", c, "reader"), Attached(c)'
       PROVE  Attached(c)
  <2>1. Offering(c) => Offering(c)'
    BY <1>0, <1>1, <1>2, <1>10 DEF Offering
  <2>2. Hooking(c, "reader")' => Hooking(c, "reader")
    BY <1>6, DoFields DEF Hooking
  <2>3. CASE Hooking(c, "reader")' /\ ~Offering(c)'
    BY <2>1, <2>2, <2>3 DEF Attached
  <2>4. CASE Handles(c, "reader")' /\ ~Handles(c, "reader")
    <3>1. AddHandler(t)
      <4>1. handlers' # handlers
        BY <2>4 DEF Handles
      <4>2. ASSUME NEW e \in Conns, NEW R, handlers' = [handlers EXCEPT ![e] = Without(@, R)]
            PROVE  FALSE
        <5>1. ToSet(Without(handlers[e], R)) \subseteq ToSet(handlers[e])
          BY <1>0, WithoutProperties
        <5> QED
          BY <1>0, <2>4, <4>2, <5>1 DEF Handles
      <4>3. d.op \in {"unhook", "disown"} => d.conn \in Conns
        BY <1>1, DueArguments
      <4>4. CASE RemoveHandler(t)
        BY <4>2, <4>3, <4>4 DEF RemoveHandler, Does
      <4>5. CASE Disown(t)
        BY <4>1, <4>2, <4>3, <4>5 DEF Disown, Does
      <4> QED
        BY <4>1, <4>4, <4>5, StateStep
    <3>2. t = "acceptor" /\ d.op = "hook" /\ d.conn \in Conns
      BY <3>1, AddHandlerGoes DEF AddHandler, Does
    <3>3. handlers' = [handlers EXCEPT ![d.conn] = Append(@, d.arg)] /\ d.arg \in Threads
      BY <2>4, <3>1 DEF AddHandler, Handles
    <3>4. d.conn = c /\ d.arg = "reader"
      <4>1. ToSet(Append(handlers[d.conn], d.arg)) = ToSet(handlers[d.conn]) \cup {d.arg}
        BY <1>0, <3>2, <3>3, AppendElements
      <4> QED
        BY <1>0, <2>4, <3>2, <3>3, <4>1 DEF Handles
    <3>5. Hooking(c, "reader") /\ ~Offering(c)
      BY <1>2, <1>3, <3>2, <3>4, DoFields DEF Hooking, Offering
    <3> QED
      BY <3>5 DEF Attached
  <2>5. CASE Telling(c, "reader")' /\ ~Telling(c, "reader")
    <3>1. PICK u \in Threads : \/ Do("tell", c, "reader") \in Pending(u)'
                               \/ Do("forget", c, "reader") \in Pending(u)'
      BY <2>5 DEF Telling
    <3>2. PICK x \in Pending(u)' : /\ x.op \in {"tell", "forget"} /\ x.conn = c /\ x.arg = "reader"
                                   /\ x = Do(x.op, c, "reader")
      BY <3>1, DoFields
    <3>3. x \notin Pending(u)
      BY <2>5, <3>2 DEF Telling
    <3>4. u = t /\ Follows(d, x)
      BY <1>1, <1>2, <3>2, <3>3
    <3>5. d.op = "fire" /\ d.conn = c
      BY <3>2, <3>4 DEF Follows
    <3>6. FireClose(t)
      BY <3>5, Doing
    <3>7. Handles(c, "reader")
      <4> DEFINE o == Head(handlers[c])
      <4>1. \/ Goes(t, {})
            \/ /\ o \in ToSet(handlers[c])
               /\ Goes(t, {Do("tell", c, o)} \cup {Do("unhook", c, o), Do("fire", c, "nothing")})
            \/ /\ o \in ToSet(handlers[c]) /\ o = "acceptor"
               /\ Goes(t, {Do("forget", c, o), Do("release", c, o)}
                            \cup {Do("unhook", c, o), Do("fire", c, "nothing")})
        BY <1>0, <3>5, <3>6, FireCloseGoes
      <4>2. x \notin Rest(t)
        BY <1>2, <3>3, <3>4
      <4>3. x \notin {Do("unhook", c, o), Do("fire", c, "nothing"), Do("release", c, o)}
        BY <3>2, DoFields
      <4>4. x = Do("tell", c, o) \/ x = Do("forget", c, o) => o = "reader"
        BY <3>2, DoFields
      <4> HIDE DEF o
      <4> QED
        BY <1>0, <3>2, <3>4, <4>1, <4>2, <4>3, <4>4 DEF Goes, Handles
    <3> QED
      BY <3>7 DEF Attached
  <2> QED
    BY <1>10, <2>3, <2>4, <2>5 DEF Attached
<1> QED
  BY <1>8, <1>9, <1>10

LEMMA ExactPerform ==
    ASSUME TypeOK, Agendas, Chain, Once, Exact, NEW t \in Threads, Perform(t), NEW c \in Conns
    PROVE  ExactAt(c)'
<1> DEFINE d == Due(t)
           exit == Item("EXIT", NoConn)
<1>0. /\ queue \in [Pipe -> Seq(Items)] /\ told \in [Conns -> [Threads -> Nat]]
      /\ registered \in SUBSET Conns
      /\ "reader" \in Pipe /\ Threads = Pipe \cup {"acceptor"} /\ "acceptor" \notin Pipe
  BY DEF TypeOK, Threads, Pipe
<1>1. ExactAt(c) /\ OnceAt(c, "reader") /\ told[c]["reader"] \in Nat
  BY <1>0 DEF Exact, Once
<1>2. /\ \A type \in {"EXIT", "PENDING_CLOSE"}, e \in Conns \cup {NoConn} :
            Item(type, e) \in Items \ {Item("DATA", c), Item("CLOSE", c)}
      /\ \A type \in {"DATA", "CLOSE"}, e \in Conns :
            e # c => Item(type, e) \in Items \ {Item("DATA", c), Item("CLOSE", c)}
      /\ Item("DATA", c) \in Items /\ Item("CLOSE", c) \in Items
      /\ Item("DATA", c) # Item("CLOSE", c)
  BY DEF Item, Items
<1>3. CASE UNCHANGED <<agenda, connection, phase, queues, reader, peer, told>> \/ UseFreed(t)
  <2>1. UNCHANGED <<agenda, handlers, queue, registered, told>>
    BY <1>3 DEF UseFreed, connection, queues, reader
  <2>2. /\ Offering(c)' => Offering(c)
        /\ Attached(c)' => Attached(c)
        /\ Loading(c)' => Loading(c)
    BY <2>1 DEF Offering, Attached, Loading, Hooking, Handles, Telling, Pending
  <2> QED
    BY <1>0, <1>1, <1>2, <2>1, <2>2, ExactKept
<1>4. ASSUME Offer(t), exiting["reader"]
      PROVE  FALSE
  <2>1. agenda[t] # <<>> /\ Due(t).op = "offer" /\ t = "acceptor"
    BY <1>4, OfferGoes DEF Offer, Does
  <2> QED
    BY <1>4, <2>1, DueFacts DEF Chain, ChainAt
<1>5. CASE Moves(t) /\ ~UseFreed(t)
  <2>1. /\ Offering(c)' => Offering(c) /\ d # Do("offer", c, "reader")
        /\ Loading(c)' => Loading(c) /\ d # Do("load", c, "nothing")
        /\ Attached(c)' => Attached(c) \/ d = Do("offer", c, "reader")
    BY <1>5, AttachedStep
  <2>2. /\ d = Do(d.op, d.conn, d.arg) /\ d \in Pending(t)
    BY <1>5, DueFacts, StepFields DEF Moves
  <2>3. /\ registered' = registered
        /\ d.op = "offer" <=> Offer(t)
        /\ d.op = "tell" <=> Tell(t)
        /\ d.op = "forget" <=> Forget(t)
        /\ d.op = "exit" <=> EnqueueExit(t)
    BY <1>5, StateStep, Doing
  <2>4. \/ queue'["reader"] = queue["reader"]
        \/ Offer(t) /\ ~exiting["reader"] /\ ReaderGets(Item("DATA", d.conn))
        \/ Tell(t) /\ ~exiting["reader"] /\ d.arg = "pending" /\ ReaderGets(Item("PENDING_CLOSE", d.conn))
        \/ Tell(t) /\ ~exiting["reader"] /\ d.arg = "reader" /\ ReaderGets(Item("CLOSE", d.conn))
        \/ EnqueueExit(t) /\ d.arg = "reader" /\ ReaderGets(exit)
    BY ReaderQueue
  <2>5. d.op \in {"offer", "tell", "forget"} => d.conn \in Conns
    BY <1>5, DueArguments DEF Moves
  <2>6. /\ told'[c]["reader"] = told[c]["reader"] \/ told'[c]["reader"] = told[c]["reader"] + 1
        /\ d.op # "tell" \/ d.arg # "reader" \/ d.conn # c => told'[c]["reader"] = told[c]["reader"]
    <3>1. CASE Tell(t)
      <4>1. Due(t).arg \in Pipe \cup {"pending"} /\ Due(t).conn \in Conns
        BY <3>1, TellGoes
      <4> QED
        BY <1>0, <2>3, <3>1, <4>1 DEF Tell, Pipe
    <3>2. CASE Forget(t)
      BY <1>0, <2>3, <2>5, <3>2 DEF Forget
    <3> QED
      BY <1>1, <3>1, <3>2, StateStep
  <2> HIDE DEF d
  <2>7. CASE d # Do("offer", c, "reader") /\ ~(Tell(t) /\ d.conn = c /\ d.arg = "reader")
    <3>1. told'[c]["reader"] = told[c]["reader"]
      BY <2>3, <2>6, <2>7
    <3>2. Offer(t) => d.conn # c
      <4>1. Offer(t) => d.op = "offer" /\ d.arg = "reader"
        BY <2>3, OfferGoes DEF d
      <4> QED
        BY <2>2, <2>7, <4>1
    <3> DEFINE Indifferent == \E i \in Items \ {Item("DATA", c), Item("CLOSE", c)} :
                                 queue'["reader"] = queue["reader"] \/ ReaderGets(i)
    <3>3. Indifferent
      <4>1. CASE queue'["reader"] = queue["reader"] \/ (EnqueueExit(t) /\ ReaderGets(exit))
        BY <1>2, <4>1
      <4>2. CASE Offer(t) /\ ReaderGets(Item("DATA", d.conn))
        BY <1>2, <2>3, <2>5, <3>2, <4>2
      <4>3. CASE Tell(t) /\ d.arg = "pending" /\ ReaderGets(Item("PENDING_CLOSE", d.conn))
        BY <1>2, <2>3, <2>5, <4>3
      <4>4. CASE Tell(t) /\ d.arg = "reader" /\ ReaderGets(Item("CLOSE", d.conn))
        BY <1>2, <2>3, <2>5, <2>7, <4>4
      <4> HIDE DEF Indifferent, exit
      <4> QED
        BY <2>4, <4>1, <4>2, <4>3, <4>4
    <3>4. PICK i \in Items : /\ i \notin {Item("DATA", c), Item("CLOSE", c)}
                             /\ queue'["reader"] = queue["reader"] \/ ReaderGets(i)
      BY <3>3
    <3>5. /\ Offering(c)' => Offering(c)
          /\ Attached(c)' => Attached(c)
          /\ Loading(c)' => Loading(c)
      BY <2>1, <2>7
    <3> QED
      BY <1>0, <1>1, <2>3, <3>1, <3>4, <3>5, ExactKept
  <2>8. CASE d = Do("offer", c, "reader")
    <3>1. Offer(t) /\ t = "acceptor" /\ d.op = "offer" /\ d.conn = c
      BY <2>3, <2>8, OfferGoes, DoFields
    <3>2. Offering(c) /\ ~HasData(c) /\ c \notin registered
      BY <1>1, <2>2, <2>8, <3>1 DEF Offering, ExactAt
    <3>3. ReaderGets(Item("DATA", c))
      BY <1>4, <3>1 DEF Offer, ReaderGets, d
    <3>4. /\ queue["reader"] \in Seq(Items)
          /\ queue'["reader"] = Append(queue["reader"], Item("DATA", c))
          /\ Inside("reader")' = Inside("reader") \cup {Item("DATA", c)}
      BY <1>0, <1>2, <3>3, Enqueued DEF ReaderGets
    <3>5. /\ OnceIn(queue'["reader"], Item("DATA", c))
          /\ OnceIn(queue'["reader"], Item("CLOSE", c))
          /\ Before(queue'["reader"], Item("DATA", c), Item("CLOSE", c))
          /\ HasData(c)' /\ (HasClose(c)' <=> HasClose(c))
      <4>1. /\ OnceIn(queue["reader"], Item("DATA", c))
            /\ OnceIn(queue["reader"], Item("CLOSE", c))
            /\ Before(queue["reader"], Item("DATA", c), Item("CLOSE", c))
            /\ Item("DATA", c) \notin ToSet(queue["reader"])
        BY <1>1, <3>2 DEF ExactAt, HasData, Inside
      <4>2. /\ OnceIn(queue'["reader"], Item("DATA", c))
            /\ OnceIn(queue'["reader"], Item("CLOSE", c))
            /\ Before(queue'["reader"], Item("DATA", c), Item("CLOSE", c))
        <5>1. \A x, y :
             /\ OnceIn(queue["reader"], x) /\ (Item("DATA", c) = x => x \notin ToSet(queue["reader"])) =>
                  OnceIn(queue'["reader"], x)
             /\ Before(queue["reader"], x, y) /\ (Item("DATA", c) = y => x \in ToSet(queue["reader"])) =>
                  Before(queue'["reader"], x, y)
          BY <1>2, <3>4, AppendOrder
        <5> QED
          BY <1>2, <4>1, <5>1
      <4> QED
        BY <1>2, <3>4, <4>2 DEF HasData, HasClose
    <3>6. told'[c]["reader"] = told[c]["reader"] /\ ~Offering(c)'
      BY <2>1, <2>6, <2>8, DoFields
    <3> QED
      BY <1>1, <2>1, <2>3, <3>2, <3>5, <3>6 DEF ExactAt
  <2>9. CASE Tell(t) /\ d.conn = c /\ d.arg = "reader"
    <3>1. Telling(c, "reader")
      BY <2>2, <2>3, <2>9 DEF Telling
    <3>2. told[c]["reader"] = 0 /\ Attached(c)
      BY <1>1, <3>1 DEF OnceAt, Attached
    <3>3. (c \in registered \/ HasData(c)) /\ ~HasClose(c)
      BY <1>1, <3>2 DEF ExactAt
    <3>4. d # Do("offer", c, "reader") /\ d # Do("load", c, "nothing")
      BY <2>3, <2>9, DoFields
    <3>5. CASE ~exiting["reader"]
      <4>1. ReaderGets(Item("CLOSE", c)) /\ told'[c]["reader"] > 0
        BY <1>0, <2>9, <3>2, <3>5 DEF Tell, ReaderGets, d, Pipe
      <4>2. /\ queue["reader"] \in Seq(Items)
            /\ queue'["reader"] = Append(queue["reader"], Item("CLOSE", c))
            /\ Inside("reader")' = Inside("reader") \cup {Item("CLOSE", c)}
        BY <1>0, <1>2, <4>1, Enqueued DEF ReaderGets
      <4>3. /\ OnceIn(queue'["reader"], Item("DATA", c))
            /\ OnceIn(queue'["reader"], Item("CLOSE", c))
            /\ c \in registered \/ Before(queue'["reader"], Item("DATA", c), Item("CLOSE", c))
            /\ HasData(c)' <=> HasData(c)
        <5>1. /\ OnceIn(queue["reader"], Item("DATA", c))
              /\ OnceIn(queue["reader"], Item("CLOSE", c))
              /\ c \in registered \/ Before(queue["reader"], Item("DATA", c), Item("CLOSE", c))
              /\ Item("CLOSE", c) \notin ToSet(queue["reader"])
              /\ c \in registered \/ Item("DATA", c) \in ToSet(queue["reader"])
          BY <1>1, <3>3 DEF ExactAt, HasData, HasClose, Inside
        <5>2. /\ OnceIn(queue'["reader"], Item("DATA", c))
              /\ OnceIn(queue'["reader"], Item("CLOSE", c))
              /\ c \in registered \/ Before(queue'["reader"], Item("DATA", c), Item("CLOSE", c))
          <6>1. \A x, y :
               /\ OnceIn(queue["reader"], x) /\ (Item("CLOSE", c) = x => x \notin ToSet(queue["reader"])) =>
                    OnceIn(queue'["reader"], x)
               /\ Before(queue["reader"], x, y) /\ (Item("CLOSE", c) = y => x \in ToSet(queue["reader"])) =>
                    Before(queue'["reader"], x, y)
            BY <1>2, <4>2, AppendOrder
          <6> QED
            BY <1>2, <5>1, <6>1
        <5> QED
          BY <1>2, <4>2, <5>2 DEF HasData
      <4> QED
        BY <1>1, <2>1, <2>3, <4>1, <4>3 DEF ExactAt
    <3>6. CASE exiting["reader"]
      <4>1. queue' = queue /\ told'[c]["reader"] > 0
        BY <1>0, <2>9, <3>2, <3>6 DEF Tell, d, Pipe
      <4>2. HasData(c)' <=> HasData(c)
        BY <4>1 DEF HasData, Inside
      <4> QED
        BY <1>1, <2>1, <2>3, <4>1, <4>2 DEF ExactAt
    <3> QED
      BY <3>5, <3>6
  <2> QED
    BY <2>7, <2>8, <2>9
<1> QED
  BY <1>3, <1>4, <1>5, PerformMoves

(* The connections that count in the load.                                 *)
Loaded == {c \in registered : ~Loading(c)}

LEMMA LoadPerform ==
    ASSUME TypeOK, Agendas, Chain, Exact, NEW t \in Threads, Perform(t)
    PROVE  load' = Cardinality(Loaded)'
<1>0. registered \in SUBSET Conns /\ load \in Int /\ "reader" \in Threads /\ load = Cardinality(Loaded)
  BY DEF TypeOK, Threads, Pipe, Exact, Loaded
<1>1. CASE ReaderLoads(t)
  <2> DEFINE c == Due(t).conn
  <2>1. agenda[t] # <<>> /\ Due(t).op = "load" /\ load' = load + 1 /\ registered' = registered
    BY <1>1 DEF ReaderLoads, Does
  <2>2. /\ t = "reader" /\ c \in Conns /\ Due(t) = Do("load", c, "nothing")
        /\ Pending(t) = {Due(t)} \cup Rest(t)
        /\ \A y \in Rest(t) : y # Due(t)
    <3>1. /\ Due(t) \in Steps /\ Formed(t, Due(t))
          /\ Pending(t) = {Due(t)} \cup Rest(t)
          /\ \A y \in Rest(t) : MayPrecede(Due(t), y)
      BY <2>1, DueFacts
    <3>2. t = "reader" /\ c \in Conns /\ Due(t).arg = "nothing"
      BY <2>1, <3>1 DEF Formed, AcceptorFormed
    <3> QED
      BY <2>1, <3>1, <3>2, StepFields DEF MayPrecede
  <2>3. Goes(t, {})
    BY <1>1, <2>1, NoStep DEF ReaderLoads
  <2>4. c \in registered /\ Loading(c)
    BY <2>2 DEF Exact, ExactAt, Loading
  <2>5. \A e \in Conns : Loading(e)' <=> Loading(e) /\ e # c
    BY <1>0, <2>2, <2>3, DoFields DEF Loading, Goes
  <2>6. Loaded' = Loaded \cup {c} /\ c \notin Loaded
    <3>1. \A e : e \in Loaded' <=> e \in Loaded \/ e = c
      BY <1>0, <2>1, <2>4, <2>5 DEF Loaded
    <3> QED
      BY <2>4, <3>1 DEF Loaded
  <2>7. IsFiniteSet(Loaded)
    BY <1>0, ServerAssumption, FS_Subset DEF Loaded
  <2>8. Cardinality(Loaded \cup {c}) = Cardinality(Loaded) + 1
    BY <2>6, <2>7, FS_AddElement
  <2> QED
    BY <1>0, <2>1, <2>6, <2>8
<1>2. CASE ~ReaderLoads(t)
  <2>1. UNCHANGED <<load, registered>>
    BY <1>2, StateStep
  <2>2. \A c \in Conns : Loading(c)' <=> Loading(c)
    <3>1. CASE UNCHANGED <<agenda, connection, phase, queues, reader, peer, told>> \/ UseFreed(t)
      BY <3>1 DEF UseFreed, Loading, Pending
    <3>2. CASE Offer(t) /\ exiting["reader"]
      <4>1. agenda[t] # <<>> /\ Due(t).op = "offer" /\ t = "acceptor"
        BY <3>2, OfferGoes DEF Offer, Does
      <4> QED
        BY <3>2, <4>1, DueFacts DEF Chain, ChainAt
    <3>3. CASE Moves(t) /\ ~UseFreed(t)
      <4>1. Due(t).op # "load"
        BY <1>2, <3>3, Doing
      <4>2. \A c \in Conns : Loading(c) => Loading(c)'
        BY <1>0, <3>3, <4>1, DueFacts, DoFields DEF Moves, Loading
      <4>3. \A c \in Conns : Loading(c)' => Loading(c)
        BY <3>3, AttachedStep
      <4> QED
        BY <4>2, <4>3
    <3> QED
      BY <3>1, <3>2, <3>3, PerformMoves
  <2>3. Loaded' = Loaded
    BY <1>0, <2>1, <2>2 DEF Loaded
  <2> QED
    BY <1>0, <2>1, <2>3
<1> QED
  BY <1>1, <1>2

LEMMA ExactLoop ==
    ASSUME TypeOK, Agendas, Chain, Exact, Keeps
    PROVE  Exact'
<1>0. /\ queue \in [Pipe -> Seq(Items)] /\ told \in [Conns -> [Threads -> Nat]]
      /\ registered \in SUBSET Conns
      /\ "reader" \in Pipe /\ "reader" \in Threads /\ "acceptor" \in Threads
  BY DEF TypeOK, Threads, Pipe
<1>1. UNCHANGED <<handlers, told, registered, load>>
  BY DEF Keeps
<1>2. ASSUME NEW c \in Conns
      PROVE  /\ Offering(c)' => Offering(c)
             /\ Loading(c)' <=> Loading(c)
             /\ Attached(c)' => Attached(c)
  <2>1. CASE \A t \in Threads : Pending(t)' = Pending(t)
    BY <1>0, <1>1, <2>1 DEF Offering, Loading, Attached, Hooking, Handles, Telling
  <2>2. ASSUME NEW t \in Threads, Turns(t)
        PROVE  /\ Offering(c)' => Offering(c)
               /\ Loading(c)' <=> Loading(c)
               /\ Attached(c)' => Attached(c)
    <3>1. /\ Pending(t) = {}
          /\ \A u \in Threads \ {t} : Pending(u)' = Pending(u)
          /\ \A x \in Pending(t)' : x.op \notin {"offer", "load", "hook", "tell", "forget"}
      BY <2>2 DEF Turns
    <3>2. ASSUME NEW u \in Threads, NEW op \in {"offer", "load", "hook", "tell", "forget"}, NEW arg
          PROVE  Do(op, c, arg) \in Pending(u)' <=> Do(op, c, arg) \in Pending(u)
      BY <3>1, DoFields
    <3>3. UNCHANGED <<Offering(c), Loading(c), Hooking(c, "reader"), Telling(c, "reader")>>
      BY <1>0, <3>2 DEF Offering, Loading, Hooking, Telling
    <3> QED
      BY <1>1, <3>3 DEF Attached, Handles
  <2> QED
    BY <2>1, <2>2 DEF Keeps
<1>3. ASSUME NEW c \in Conns
      PROVE  ExactAt(c)'
  <2>1. ExactAt(c) /\ told[c]["reader"] \in Nat
    BY <1>0 DEF Exact
  <2>2. CASE queue'["reader"] = queue["reader"]
    <3>1. Item("EXIT", NoConn) \in Items \ {Item("DATA", c), Item("CLOSE", c)}
      BY DEF Item, Items
    <3> QED
      BY <1>0, <1>1, <1>2, <2>1, <2>2, <3>1, ExactKept
  <2>3. CASE ReaderDrops("PENDING_CLOSE") \/ ReaderDrops("EXIT")
    <3>1. /\ queue["reader"] # <<>> /\ queue' = [queue EXCEPT !["reader"] = Tail(@)]
          /\ Head(queue["reader"]) \in Items
          /\ Head(queue["reader"]) \notin {Item("DATA", c), Item("CLOSE", c)}
      BY <1>0, <2>3, HeadInside DEF ReaderDrops, Item
    <3> QED
      BY <1>0, <1>1, <1>2, <2>1, <3>1, ExactKept
  <2> QED
    BY <2>2, <2>3 DEF Keeps
<1>4. Loaded' = Loaded
  BY <1>0, <1>1, <1>2 DEF Loaded
<1> QED
  BY <1>1, <1>3, <1>4 DEF Exact, Loaded

LEMMA ExactAccept ==
    ASSUME TypeOK, Agendas, Fresh, Exact, NEW e \in Conns, Accept(e)
    PROVE  Exact'
<1>0. /\ queue \in [Pipe -> Seq(Items)] /\ told \in [Conns -> [Threads -> Nat]]
      /\ registered \in SUBSET Conns /\ handlers \in [Conns -> Seq(Threads)]
      /\ "reader" \in Pipe /\ "reader" \in Threads /\ "acceptor" \in Threads
      /\ Threads = Pipe \cup {"acceptor"} /\ "acceptor" \notin Pipe
  BY DEF TypeOK, Threads, Pipe
<1>1. /\ UNCHANGED <<queue, told, registered, load>> /\ state[e] = "NONE"
      /\ handlers' = [handlers EXCEPT ![e] = <<"acceptor">>]
      /\ Starts("acceptor", ManageSteps(e))
  BY AcceptGoes DEF Accept, reader
<1>2. /\ \A x \in ManageSteps(e) : /\ x.op \in {"offer", "hook"} => x.conn = e
                                   /\ x.op \notin {"tell", "forget"}
      /\ Do("offer", e, "reader") \in ManageSteps(e)
  BY DoFields DEF ManageSteps
<1>3. /\ Pending("acceptor") = {} /\ Pending("acceptor")' = ManageSteps(e)
      /\ \A u \in Pipe : Pending(u)' = Pending(u)
  BY <1>0, <1>1 DEF Starts
<1>4. \A c \in Conns : Loading(c)' <=> Loading(c)
  BY <1>0, <1>3 DEF Loading
<1>5. ASSUME NEW c \in Conns, NEW u \in Threads
      PROVE  /\ Do("tell", c, "reader") \in Pending(u)' => Do("tell", c, "reader") \in Pending(u)
             /\ Do("forget", c, "reader") \in Pending(u)' => Do("forget", c, "reader") \in Pending(u)
  <2>1. CASE u = "acceptor"
    <3>1. \A x \in Pending(u)' : x.op \notin {"tell", "forget"}
      BY <1>2, <1>3, <2>1
    <3> QED
      BY <3>1, DoFields
  <2> QED
    BY <1>0, <1>3, <2>1
<1>6. ASSUME NEW c \in Conns, Telling(c, "reader")'
      PROVE  Telling(c, "reader")
  <2>1. PICK u \in Threads : \/ Do("tell", c, "reader") \in Pending(u)'
                             \/ Do("forget", c, "reader") \in Pending(u)'
    BY <1>6 DEF Telling
  <2> QED
    BY <1>5, <2>1 DEF Telling
<1>7. ASSUME NEW c \in Conns, c # e
      PROVE  ExactAt(c)'
  <2>1. ExactAt(c) /\ told[c]["reader"] \in Nat
    BY <1>0 DEF Exact
  <2>2. Item("EXIT", NoConn) \in Items \ {Item("DATA", c), Item("CLOSE", c)}
    BY DEF Item, Items
  <2>3. ~Offering(c)' /\ ~Hooking(c, "reader")'
    BY <1>2, <1>3, <1>7, DoFields DEF Offering, Hooking
  <2>4. Handles(c, "reader")' => Handles(c, "reader")
    BY <1>0, <1>1, <1>7 DEF Handles
  <2>5. /\ Attached(c)' => Attached(c)
        /\ Loading(c)' => Loading(c)
        /\ Offering(c)' => Offering(c)
    BY <1>4, <1>6, <2>3, <2>4 DEF Attached
  <2> QED
    BY <1>0, <1>1, <2>1, <2>2, <2>5, ExactKept
<1>8. ExactAt(e)'
  <2>1. ExactAt(e) /\ Untouched(e)
    BY <1>1 DEF Exact, Fresh
  <2>2. ~HasData(e) /\ ~HasClose(e)
    BY <1>0, <2>1 DEF Untouched, HasData, HasClose, Item
  <2>3. ~Loading(e)'
    <3>1. \A x \in Pending("reader") : x.conn # e
      BY <1>0, <2>1 DEF Untouched
    <3> QED
      BY <1>4, <3>1, DoFields DEF Loading
  <2>4. Offering(e)'
    BY <1>2, <1>3 DEF Offering
  <2>5. ~Telling(e, "reader")'
    <3>1. \A u \in Threads : \A x \in Pending(u) : x.conn # e
      BY <2>1 DEF Untouched
    <3> QED
      BY <1>6, <3>1, DoFields DEF Telling
  <2>6. ~Handles(e, "reader")'
    BY <1>0, <1>1, ShortElements DEF Handles
  <2>7. UNCHANGED <<HasData(e), HasClose(e)>>
    BY <1>1 DEF HasData, HasClose, Inside
  <2>8. e \notin registered'
    BY <1>1, <2>1 DEF Untouched
  <2>9. Before(queue["reader"], Item("DATA", e), Item("CLOSE", e))
    BY <2>1 DEF ExactAt, Untouched
  <2> QED
    BY <1>1, <2>1, <2>2, <2>3, <2>4, <2>5, <2>6, <2>7, <2>8, <2>9 DEF ExactAt, Attached
<1>9. Loaded' = Loaded
  BY <1>0, <1>1, <1>4 DEF Loaded
<1> QED
  BY <1>1, <1>7, <1>8, <1>9 DEF Exact, Loaded

LEMMA ExactReader ==
    ASSUME TypeOK, Agendas, Exact, NEW e \in Conns, ReaderManages(e) \/ ReaderCloses(e)
    PROVE  Exact'
<1> DEFINE d == Item("DATA", e)
           k == Item("CLOSE", e)
           i == Head(queue["reader"])
<1>0. /\ queue \in [Pipe -> Seq(Items)] /\ told \in [Conns -> [Threads -> Nat]]
      /\ registered \in SUBSET Conns /\ load \in Int
      /\ "reader" \in Pipe /\ "reader" \in Threads /\ "acceptor" \in Threads
      /\ "acceptor" # "reader"
  BY DEF TypeOK, Threads, Pipe
<1>1. /\ queue["reader"] # <<>> /\ queue' = [queue EXCEPT !["reader"] = Tail(@)]
      /\ UNCHANGED <<told, handlers>>
      /\ \/ i = d /\ registered' = registered \cup {e} /\ load' = load
         \/ i = k /\ registered' = registered \ {e} /\ load' = load - 1
  BY DEF ReaderManages, ReaderCloses, ReaderTake, connection
<1>2. /\ Pending("reader") = {}
      /\ \A u \in Threads \ {"reader"} : Pending(u)' = Pending(u)
      /\ \A x \in Pending("reader")' : /\ x.op \in {"manage", "load", "release"}
                                       /\ x.op = "load" => x.conn = e
      /\ i = d => Do("load", e, "nothing") \in Pending("reader")'
      /\ i = k => \A x \in Pending("reader")' : x.op # "load"
  <2>1. CASE ReaderManages(e)
    <3>1. i # k
      BY <2>1 DEF ReaderManages, ReaderTake, Item
    <3> QED
      BY <2>1, <3>1, ReaderManagesGoes, DoFields DEF Starts
  <2>2. CASE ReaderCloses(e)
    <3>1. i # d
      BY <2>2 DEF ReaderCloses, ReaderTake, Item
    <3> QED
      BY <2>2, <3>1, ReaderClosesGoes, DoFields DEF Starts
  <2> QED
    BY <2>1, <2>2
<1>3. ASSUME NEW c \in Conns
      PROVE  /\ UNCHANGED <<Offering(c), Attached(c)>>
             /\ ~Loading(c)
             /\ Loading(c)' <=> c = e /\ i = d
  <2>1. ASSUME NEW u \in Threads, NEW op \in {"hook", "tell", "forget"}, NEW arg
        PROVE  Do(op, c, arg) \in Pending(u)' <=> Do(op, c, arg) \in Pending(u)
    BY <1>2, DoFields
  <2>2. UNCHANGED <<Offering(c), Hooking(c, "reader"), Telling(c, "reader")>>
    BY <1>0, <1>2, <2>1 DEF Offering, Hooking, Telling
  <2> QED
    BY <1>1, <1>2, <2>2, DoFields DEF Loading, Attached, Handles
<1>4. /\ queue["reader"] \in Seq(Items)
      /\ queue'["reader"] = Tail(queue["reader"])
      /\ Inside("reader") = Inside("reader")' \cup {i}
      /\ i \in Inside("reader") /\ i \in Items
  BY <1>0, <1>1, Dequeued, HeadInside
<1>5. /\ ExactAt(e) /\ d # k
      /\ OnceIn(queue["reader"], d) /\ OnceIn(queue["reader"], k)
      /\ Before(queue["reader"], d, k) \/ e \in registered
  <2>1. ExactAt(e)
    BY DEF Exact
  <2> QED
    BY <2>1 DEF ExactAt, Item
<1>6. /\ OnceIn(queue'["reader"], d) /\ OnceIn(queue'["reader"], k)
      /\ i = d => d \notin Inside("reader")'
      /\ i = k => k \notin Inside("reader")' /\ ~Before(queue["reader"], d, k)
  <2>1. \A x, y :
           /\ OnceIn(queue["reader"], x) =>
                OnceIn(queue'["reader"], x) /\ (i = x => x \notin ToSet(queue'["reader"]))
           /\ Before(queue["reader"], x, y) => i # y
    BY <1>1, <1>4, TailOrder
  <2> HIDE DEF d, k, i
  <2> QED
    BY <1>5, <2>1 DEF Inside
<1>7. ASSUME NEW c \in Conns, c # e
      PROVE  ExactAt(c)'
  <2>1. ExactAt(c) /\ told[c]["reader"] \in Nat
    BY <1>0 DEF Exact
  <2>2. i \notin {Item("DATA", c), Item("CLOSE", c)}
    BY <1>1, <1>7 DEF Item
  <2>3. /\ Attached(c)' => Attached(c)
        /\ Loading(c)' => Loading(c)
        /\ Offering(c)' => Offering(c)
        /\ c \in registered' <=> c \in registered
    BY <1>1, <1>3, <1>7
  <2> QED
    BY <1>0, <1>1, <1>4, <2>1, <2>2, <2>3, ExactKept
<1>8. CASE i = d
  <2>1. HasData(e) /\ ~Offering(e) /\ e \notin registered
    BY <1>4, <1>5, <1>8 DEF ExactAt, HasData
  <2>2. ~HasData(e)' /\ ~Offering(e)' /\ e \in registered' /\ (HasClose(e)' => HasClose(e))
    BY <1>1, <1>3, <1>4, <1>5, <1>6, <1>8, <2>1 DEF HasData, HasClose
  <2>3. ExactAt(e)'
    BY <1>1, <1>5, <1>6, <2>2 DEF ExactAt
  <2>4. Loaded = registered /\ Loaded' = registered /\ load' = load
    BY <1>0, <1>1, <1>3, <1>5, <1>8, <2>1 DEF Loaded
  <2> QED
    BY <1>7, <2>3, <2>4 DEF Exact, Loaded
<1>9. CASE i = k
  <2>1. e \in registered /\ HasClose(e)
    BY <1>4, <1>5, <1>6, <1>9 DEF HasClose
  <2>2. ~HasData(e) /\ ~Offering(e) /\ told[e]["reader"] > 0
    BY <1>5, <2>1 DEF ExactAt
  <2>3. ~HasData(e)' /\ ~HasClose(e)' /\ ~Offering(e)' /\ ~Loading(e)'
    BY <1>3, <1>4, <1>5, <1>6, <1>9, <2>2 DEF HasData, HasClose
  <2>4. Before(queue'["reader"], d, k)
    BY <1>6, <1>9 DEF Before, Inside, ToSet
  <2>5. ExactAt(e)'
    BY <1>1, <1>6, <2>2, <2>3, <2>4 DEF ExactAt
  <2>6. Loaded = registered /\ Loaded' = registered \ {e} /\ load' = load - 1
    BY <1>0, <1>1, <1>3, <1>5, <1>9, <2>1 DEF Loaded
  <2>7. IsFiniteSet(registered)
    BY <1>0, ServerAssumption, FS_Subset
  <2>8. Cardinality(registered \ {e}) = Cardinality(registered) - 1
    BY <2>1, <2>7, FS_RemoveElement
  <2> QED
    BY <1>7, <2>5, <2>6, <2>8 DEF Exact, Loaded
<1> QED
  BY <1>1, <1>8, <1>9

LEMMA ExactInit ==
    ASSUME Init
    PROVE  Exact
<1>1. /\ queue["reader"] = <<>> /\ registered = {} /\ load = 0
      /\ \A t \in Threads : Pending(t) = {}
      /\ \A c \in Conns : ToSet(handlers[c]) = {}
      /\ "reader" \in Threads /\ "acceptor" \in Threads
  BY ShortElements DEF Init, Pending, Threads, Pipe
<1>2. DOMAIN <<>> = {} /\ Inside("reader") = {}
  BY <1>1, ShortElements DEF Inside
<1>3. ASSUME NEW c \in Conns
      PROVE  ExactAt(c)
  <2>1. ~Offering(c) /\ ~Loading(c) /\ ~HasData(c) /\ ~HasClose(c)
    BY <1>1, <1>2 DEF Offering, Loading, HasData, HasClose
  <2>2. ~Attached(c)
    BY <1>1 DEF Attached, Hooking, Handles, Telling
  <2>3. \A x, y : OnceIn(queue["reader"], x) /\ Before(queue["reader"], x, y)
    BY <1>1, <1>2 DEF OnceIn, Before
  <2> QED
    BY <2>1, <2>2, <2>3 DEF ExactAt
<1>4. Loaded = {}
  BY <1>1 DEF Loaded
<1> QED
  BY <1>1, <1>3, <1>4, FS_EmptySet DEF Exact, Loaded

LEMMA ExactStep ==
    ASSUME TypeOK, Agendas, Chain, Fresh, Once, Exact, [Next]_vars
    PROVE  Exact'
<1>1. CASE \E t \in Threads : Perform(t)
  BY <1>1, ExactPerform, LoadPerform DEF Exact, Loaded
<1>2. CASE ~ \E t \in Threads : Perform(t)
  BY <1>2, LoopStep, ExactLoop, ExactAccept, ExactReader
<1> QED
  BY <1>1, <1>2

(* The reader's load, by which the acceptor chooses a reader for the next  *)
(* connection (_ChooseReader), is the number of the sockets it has         *)
(* registered, for any number of connections: ReaderManageConnection puts  *)
(* the DATA item in the queue before it adds the handler that will put the *)
(* CLOSE event there, so each connection is counted once and discounted    *)
(* once.                                                                   *)
THEOREM ServerLoadExact == Spec => []LoadExact
<1>1. Init => Exact
  BY ExactInit
<1>2. TypeOK /\ Agendas /\ Chain /\ Fresh /\ Once /\ Exact /\ [Next]_vars => Exact'
  BY ExactStep
<1>3. Exact => LoadExact
  BY DEF Exact, LoadExact, Loading, Pending
<1> QED
  BY <1>1, <1>2, <1>3, AlwaysOnce, PTL DEF Spec
=============================================================================
