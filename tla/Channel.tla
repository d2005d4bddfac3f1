------------------------------ MODULE Channel ------------------------------
(***************************************************************************)
(* What the queue of src/src/queue.c promises its users, without its       *)
(* lists, nodes, locks, conditions and sleeping threads: each operation    *)
(* happens at once.  Items leave in the order they came, RemoveAll takes   *)
(* every item it is asked for and nothing else in one go, nothing is       *)
(* accepted after EXIT, and nothing is lost, FreeQueue included.           *)
(***************************************************************************)
EXTENDS Integers

CONSTANTS
    Conns,        \* connections items are about
    NoConn,       \* the connection of the EXIT item
    Types,        \* types of the other items
    RemovedType   \* the type of item RemoveAll's callback selects

VARIABLES
    sent,      \* number of items accepted
    pending,   \* items accepted, neither received nor withdrawn
    received,  \* tickets of the items handed to a consumer
    open       \* items are still accepted

vars == <<sent, pending, received, open>>

Init ==
    /\ sent = 0
    /\ pending = {}
    /\ received = {}
    /\ open = TRUE

(* EnqueueDataItem, EnqueueEventItem, EnqueueTaskItem, EnqueueExitItem *)
Send(type, c) ==
    /\ open
    /\ sent' = sent + 1
    /\ pending' = pending \cup {[type |-> type, conn |-> c, ticket |-> sent + 1]}
    /\ open' = (type # "EXIT")
    /\ UNCHANGED received

(* Dequeue, when it returns true *)
Receive(item) ==
    /\ \A other \in pending : item.ticket <= other.ticket
    /\ pending' = pending \ {item}
    /\ received' = received \cup {item.ticket}
    /\ UNCHANGED <<sent, open>>

(* RemoveAll *)
About(c) == {item \in pending : item.type = RemovedType /\ item.conn = c}

Withdraw(c) ==
    /\ pending' = pending \ About(c)
    /\ UNCHANGED <<sent, received, open>>

Next ==
    \/ \E type \in Types, c \in Conns : Send(type, c)
    \/ Send("EXIT", NoConn)
    \/ \E item \in pending : Receive(item)
    \/ \E c \in Conns : Withdraw(c)

Spec == Init /\ [][Next]_vars
============================================================================
