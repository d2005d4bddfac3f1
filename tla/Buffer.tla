------------------------------- MODULE Buffer -------------------------------
(***************************************************************************)
(* The byte buffers of src/src/buffer.c: a position, a limit and the bytes *)
(* themselves, and the operations the connections use them with.  A byte   *)
(* that memset cleared is 0.                                               *)
(***************************************************************************)
EXTENDS Integers, Sequences, SequencesExt

CONSTANT BufferSize   \* buffer->size

ASSUME BufferAssumption == BufferSize \in Nat \ {0}

Buffers(bytes) ==
    [position : 0 .. BufferSize, limit : 0 .. BufferSize,
     data : [1 .. BufferSize -> bytes \cup {0}]]

NewBuffer ==
    [position |-> 0, limit |-> BufferSize, data |-> [i \in 1 .. BufferSize |-> 0]]

BufferReset(b) == NewBuffer

BufferFlip(b) == [b EXCEPT !.limit = b.position, !.position = 0]

\* The buffer is left as it is when the position is refused.
BufferPosition(b, position) ==
    IF position > b.limit THEN b ELSE [b EXCEPT !.position = position]

\* The position may end up beyond the limit.
BufferLimit(b, limit) ==
    IF limit > BufferSize THEN b ELSE [b EXCEPT !.limit = limit]

BufferRemaining(b) == b.limit - b.position

BufferHasRemaining(b) == b.position < b.limit

\* The bytes between the position and the limit.
Rest(b) == SubSeq(b.data, b.position + 1, b.limit)

\* memcpy of bytes at the position, which stays.
Written(b, bytes) ==
    [b EXCEPT !.data = [i \in 1 .. BufferSize |->
        IF i - b.position \in 1 .. Len(bytes) THEN bytes[i - b.position] ELSE b.data[i]]]

\* Refused, with an error raised, when there is no room for all of them.
BufferPut(b, bytes) ==
    IF b.position + Len(bytes) > b.limit
    THEN b
    ELSE [Written(b, bytes) EXCEPT !.position = @ + Len(bytes)]

\* memcpy of what remains of the source, which becomes the limit.
BufferCopy(src) ==
    BufferLimit(Written(NewBuffer, Rest(src)), BufferRemaining(src))
=============================================================================
