------------------------------ MODULE Removal ------------------------------
(* What is left of a list or a queue from which elements were removed:     *)
(* RemoveAll of queue.c, ListRemove of the handlers in event.c.            *)
EXTENDS Integers, FiniteSets

\* What is left of s, in order, when the elements of R are removed: the i-th
\* of the places kept is the one that has i - 1 of them before it.
Without(s, R) ==
    LET kept == {k \in DOMAIN s : s[k] \notin R}
        place(i) == CHOOSE k \in kept : Cardinality({j \in kept : j < k}) = i - 1
    IN  [i \in 1..Cardinality(kept) |-> s[place(i)]]
=============================================================================
