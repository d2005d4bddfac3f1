------------------------------ MODULE Binding -------------------------------
(***************************************************************************)
(* The Java binding of src/src/jni/client.c, server.c and connection.c:    *)
(* which global references it holds, and to which Java object the events   *)
(* of a native connection go.                                              *)
(*                                                                         *)
(* The Java Client or Server is bound to a structure (JavaClient,          *)
(* JavaServer) that holds references to it, to the user's factory and to   *)
(* the Java Connection made by the factory.  The server copies the         *)
(* structure for each connection it accepts; the client has one for all    *)
(* the connections it makes.                                               *)
(*                                                                         *)
(* Of the native library only the order of a connection's events is kept,  *)
(* as modules Server and Client have it: INIT or, when ConnectionInit      *)
(* fails, CLOSE at once; the others from any thread, CLOSE once, FREE      *)
(* last; and a client retries as soon as the system handlers of CLOSE have *)
(* told it, when those of the user are still to be called.  The Java       *)
(* Connection of native connection n is called n.                          *)
(***************************************************************************)
EXTENDS Naturals

CONSTANTS
    Kinds,      \* what is bound: "client", "server" or either
    MaxConns,   \* bound: connections the server accepts
    Retries     \* connections the client makes after the first

ASSUME BindingAssumption ==
    /\ Kinds \subseteq {"client", "server"}
    /\ MaxConns \in Nat \ {0}
    /\ Retries \in Nat

VARIABLES
    kind,       \* which of the two this is
    phase,      \* where the Java Client or Server is in its life
    held,       \* global references of the structure: "owner", "factory"
    refs,       \* Java Connections there is a global reference to
    copied,     \* connections with a JavaServer of their own, not yet freed
    target,     \* jConnection of each structure; 0 is NULL
    life,       \* where each native connection is in its life
    pointer,    \* Java Connections that hold the address of theirs
    calls,      \* history: callbacks made, whose event, on which object
    undefined   \* "no", or what made the rest undefined

bindingVars == <<kind, phase, held, refs, copied, target, life, pointer, calls, undefined>>

Conns == 1..(MaxConns + Retries + 1)
Owners == {"owner", "factory"}
Exists(n) == life[n] \notin {"none", "freed"}

BindingTypeOK ==
    /\ kind \in Kinds
    /\ phase \in {"new", "thrown", "hollow", "ready", "running", "stopping", "joined"}
    /\ held \subseteq Owners
    /\ refs \subseteq Conns
    /\ copied \subseteq Conns
    /\ target \in [{0} \cup Conns -> {0} \cup Conns]
    /\ life \in [Conns -> {"none", "made", "open", "closing", "closed", "freed"}]
    /\ pointer \subseteq Conns
    /\ calls \subseteq [event : {"INIT", "DATA", "CLOSE"}, of : Conns, on : Conns]
    /\ undefined \in {"no", "null", "deleted", "freed"}

BindingInit ==
    /\ kind \in Kinds
    /\ phase = "new"
    /\ held = {}
    /\ refs = {}
    /\ copied = {}
    /\ target = [w \in {0} \cup Conns |-> 0]
    /\ life = [n \in Conns |-> "none"]
    /\ pointer = {}
    /\ calls = {}
    /\ undefined = "no"

\* The structure the handlers of connection n are given.
SharedWrapper(n) == 0
Wrapper(n) == IF kind = "server" THEN n ELSE 0

-----------------------------------------------------------------------------
(* The Java Client or Server, in the user's thread *)

\* initialize: the structure, the address as a C string and the two
\* references, any of which there may be no memory for; what was got is given
\* back and an exception is thrown.  A NewClient or NewServer that fails is
\* not noticed.
InitializeKeepingOwner ==
    /\ undefined = "no"
    /\ phase = "new"
    /\ \E got \in SUBSET Owners :
          /\ phase' \in IF got = Owners THEN {"ready", "hollow"} ELSE {"thrown"}
          /\ held' = got
    /\ UNCHANGED <<kind, refs, copied, target, life, pointer, calls, undefined>>

Initialize ==
    /\ undefined = "no"
    /\ phase = "new"
    /\ \/ /\ phase' = "thrown"
          /\ UNCHANGED held
       \/ /\ phase' \in {"ready", "hollow"}
          /\ held' = Owners
    /\ UNCHANGED <<kind, refs, copied, target, life, pointer, calls, undefined>>

JavaStart ==
    /\ undefined = "no"
    /\ \/ /\ phase = "ready"
          /\ phase' = "running"
          /\ UNCHANGED undefined
       \/ /\ phase = "hollow"
          /\ undefined' = "null"
          /\ UNCHANGED phase
    /\ UNCHANGED <<kind, held, refs, copied, target, life, pointer, calls>>

JavaStop ==
    /\ undefined = "no"
    /\ kind = "server" /\ phase = "running"
    /\ phase' = "stopping"
    /\ UNCHANGED <<kind, held, refs, copied, target, life, pointer, calls, undefined>>

\* A client ends when its last connection is freed; a server that is stopped
\* ends too, and may leave connections nobody frees.
Ended ==
    IF kind = "server" THEN phase = "stopping"
    ELSE phase = "running" /\ life[1] # "none" /\ ~\E n \in Conns : Exists(n)

Join ==
    /\ undefined = "no"
    /\ Ended
    /\ phase' = "joined"
    /\ held' = {}
    /\ UNCHANGED <<kind, refs, copied, target, life, pointer, calls, undefined>>

-----------------------------------------------------------------------------
(* The handlers, in whichever thread dispatches the event *)
Native == undefined = "no" /\ phase \in {"running", "stopping"}

\* The event of n finds its structure and a Java Connection to call.
Callable(n) == (kind = "server" => n \in copied) /\ target[Wrapper(n)] \in refs

Call(event, n) ==
    /\ Callable(n)
    /\ calls' = calls \cup {[event |-> event, of |-> n, on |-> target[Wrapper(n)]]}
    /\ UNCHANGED undefined

\* CheckJNICall ends the virtual machine when an object is NULL; a reference
\* that was deleted is not to be used.
CannotCall(n) ==
    /\ ~Callable(n)
    /\ undefined' = IF (kind = "server" => n \in copied) /\ target[Wrapper(n)] # 0
                    THEN "deleted" ELSE "null"
    /\ UNCHANGED calls

Handle(event, n) == Call(event, n) \/ CannotCall(n)

\* The Java Connection made by the user's factory, bound to native n
CreateFor(n) ==
    /\ refs' = refs \cup {n}
    /\ target' = [target EXCEPT ![Wrapper(n)] = n]
    /\ pointer' = pointer \cup {n}

\* _jniServerFactory, when a connection is accepted; without memory the
\* connection is given a NULL structure.
Accepts(n) ==
    /\ Native
    /\ kind = "server" /\ n <= MaxConns
    /\ life[n] = "none" /\ \A m \in 1..(n - 1) : life[m] # "none"
    /\ life' = [life EXCEPT ![n] = "made"]
    /\ \/ /\ copied' = copied \cup {n}
          /\ CreateFor(n)
       \/ UNCHANGED <<copied, refs, target, pointer>>
    /\ UNCHANGED <<kind, phase, held, calls, undefined>>

ServerInit(n) ==
    /\ Native
    /\ life[n] = "made"
    /\ life' = [life EXCEPT ![n] = "open"]
    /\ Handle("INIT", n)
    /\ UNCHANGED <<kind, phase, held, refs, copied, target, pointer>>

\* The client makes a connection, when the last has told it of its close.
MakesNext(n) ==
    /\ Native
    /\ kind = "client" /\ n <= Retries + 1
    /\ life[n] = "none"
    /\ \A m \in 1..(n - 1) : life[m] \in {"closing", "closed", "freed"}

ClientInit(n) ==
    /\ MakesNext(n)
    /\ life' = [life EXCEPT ![n] = "open"]
    /\ CreateFor(n)
    /\ calls' = calls \cup {[event |-> "INIT", of |-> n, on |-> n]}
    /\ UNCHANGED <<kind, phase, held, copied, undefined>>

\* ConnectionInit failed: all handlers of CLOSE are called at once.
ClientInitFails(n) ==
    /\ MakesNext(n)
    /\ life' = [life EXCEPT ![n] = "closed"]
    /\ Handle("CLOSE", n)
    /\ UNCHANGED <<kind, phase, held, refs, copied, target, pointer>>

\* CONNECTED, READ and WRITE; the last two while the connection is closing,
\* too.
Data(n) ==
    /\ Native
    /\ life[n] \in {"open", "closing", "closed"} /\ n \in pointer
    /\ Handle("DATA", n)
    /\ UNCHANGED <<kind, phase, held, refs, copied, target, life, pointer>>

\* The system handlers of CLOSE are called, then the user's.
CloseBegins(n) ==
    /\ Native
    /\ life[n] = "open"
    /\ life' = [life EXCEPT ![n] = "closing"]
    /\ UNCHANGED <<kind, phase, held, refs, copied, target, pointer, calls, undefined>>

CloseEnds(n) ==
    /\ Native
    /\ life[n] = "closing"
    /\ life' = [life EXCEPT ![n] = "closed"]
    /\ Handle("CLOSE", n)
    /\ UNCHANGED <<kind, phase, held, refs, copied, target, pointer>>

\* FREE: the reference to the Java Connection is deleted, and the server's
\* copy freed; the object keeps the address of the connection.
FreeEvent(n) ==
    /\ Native
    /\ life[n] = "closed"
    /\ life' = [life EXCEPT ![n] = "freed"]
    /\ \/ /\ Callable(n)
          /\ refs' = refs \ {target[Wrapper(n)]}
          /\ copied' = copied \ {n}
          /\ UNCHANGED <<calls, undefined>>
       \/ /\ CannotCall(n)
          /\ UNCHANGED <<refs, copied>>
    /\ UNCHANGED <<kind, phase, held, target, pointer>>

\* A method of the Java Connection: close may begin the close at once, the
\* others do nothing here.  There is no telling that the native one is gone.
UserCalls(n) ==
    /\ Native
    /\ n \in pointer
    /\ \/ /\ life[n] = "freed"
          /\ undefined' = "freed"
          /\ UNCHANGED life
       \/ /\ life[n] = "open"
          /\ life' = [life EXCEPT ![n] = "closing"]
          /\ UNCHANGED undefined
    /\ UNCHANGED <<kind, phase, held, refs, copied, target, pointer, calls>>

BindingNext ==
    \/ Initialize \/ JavaStart \/ JavaStop \/ Join
    \/ \E n \in Conns :
          \/ Accepts(n) \/ ServerInit(n)
          \/ ClientInit(n) \/ ClientInitFails(n)
          \/ Data(n) \/ CloseBegins(n) \/ CloseEnds(n) \/ FreeEvent(n)
          \/ UserCalls(n)

BindingSpec == BindingInit /\ [][BindingNext]_bindingVars

-----------------------------------------------------------------------------
(* Properties *)

(* Connection.java: each callback is "called when this Connection" is      *)
(* initialized, closed and so on: an event of a native connection is told  *)
(* to the Java Connection that was made for it, and to no other.           *)
OwnObject == \A c \in calls : c.on = c.of

(* Every global reference is given back exactly once: those of the         *)
(* structure by the failing path of initialize or by join, that of a Java  *)
(* Connection by the FREE event of its own native connection, and no       *)
(* handler ever finds its own deleted.                                     *)
ReferencesExact ==
    /\ BindingTypeOK
    /\ undefined # "deleted"
    /\ held = IF phase \in {"new", "thrown", "joined"} THEN {} ELSE Owners
    /\ refs = {n \in pointer : Exists(n)}
=============================================================================
