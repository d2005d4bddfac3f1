--------------------------- MODULE SequenceLemmas ---------------------------
(* What the sequence operators of the specifications return. *)
EXTENDS Integers, Sequences, SequencesExt, Removal, SequenceTheorems, FiniteSetTheorems,
        WellFoundedInduction, TLAPS

(* Taking a node out of the middle of a list (ListRemove in list.c, and    *)
(* Unregister's loop over the poll array): the nodes before it stay where  *)
(* they are and those after it move down by one.                           *)
LEMMA RemoveAtProperties ==
    ASSUME NEW S, NEW s \in Seq(S), NEW n \in 1..Len(s)
    PROVE  /\ RemoveAt(s, n) \in Seq(S)
           /\ Len(RemoveAt(s, n)) = Len(s) - 1
           /\ \A i \in 1..(n - 1) : RemoveAt(s, n)[i] = s[i]
           /\ \A i \in n..(Len(s) - 1) : RemoveAt(s, n)[i] = s[i + 1]
<1> DEFINE before == SubSeq(s, 1, n - 1)
           after  == SubSeq(s, n + 1, Len(s))
<1>0. /\ Len(s) \in Nat
      /\ n \in Int
      /\ \A i \in 1..Len(s) : s[i] \in S
  BY LenProperties, ElementOfSeq
<1>1. /\ before \in Seq(S)
      /\ Len(before) = n - 1
      /\ \A i \in 1..(n - 1) : before[i] = s[i]
  <2>1. \A i \in 1..(n - 1) : s[i] \in S
    BY <1>0
  <2>2. /\ before \in Seq(S)
        /\ Len(before) = IF 1 <= n - 1 THEN (n - 1) - 1 + 1 ELSE 0
        /\ \A i \in 1..((n - 1) - 1 + 1) : before[i] = s[1 + i - 1]
    BY <1>0, <2>1, SubSeqProperties
  <2> QED
    BY <1>0, <2>2
<1>2. /\ after \in Seq(S)
      /\ Len(after) = Len(s) - n
      /\ \A i \in 1..(Len(s) - n) : after[i] = s[n + i]
  <2>1. \A i \in (n + 1)..Len(s) : s[i] \in S
    BY <1>0
  <2>2. /\ after \in Seq(S)
        /\ Len(after) = IF n + 1 <= Len(s) THEN Len(s) - (n + 1) + 1 ELSE 0
        /\ \A i \in 1..(Len(s) - (n + 1) + 1) : after[i] = s[(n + 1) + i - 1]
    BY <1>0, <2>1, SubSeqProperties
  <2> QED
    BY <1>0, <2>2
<1> HIDE DEF before, after
<1>3. /\ before \o after \in Seq(S)
      /\ Len(before \o after) = Len(s) - 1
      /\ \A i \in 1..(Len(s) - 1) :
            (before \o after)[i] = IF i <= n - 1 THEN before[i] ELSE after[i - (n - 1)]
  <2>1. /\ before \o after \in Seq(S)
        /\ Len(before \o after) = Len(before) + Len(after)
        /\ \A i \in 1..(Len(before) + Len(after)) :
              (before \o after)[i] = IF i <= Len(before) THEN before[i]
                                     ELSE after[i - Len(before)]
    BY <1>1, <1>2, ConcatProperties
  <2>2. Len(before) = n - 1 /\ Len(before) + Len(after) = Len(s) - 1
    BY <1>0, <1>1, <1>2
  <2> QED
    BY <2>1, <2>2
<1>4. RemoveAt(s, n) = before \o after
  BY DEF RemoveAt, before, after
<1>5. ASSUME NEW i \in 1..(n - 1)
      PROVE  (before \o after)[i] = s[i]
  <2>1. i \in 1..(Len(s) - 1) /\ i <= n - 1
    BY <1>0
  <2> QED
    BY <1>1, <1>3, <2>1
<1>6. ASSUME NEW i \in n..(Len(s) - 1)
      PROVE  (before \o after)[i] = s[i + 1]
  <2>1. i \in 1..(Len(s) - 1) /\ ~(i <= n - 1)
    BY <1>0
  <2>2. (before \o after)[i] = after[i - (n - 1)]
    BY <1>3, <2>1
  <2>3. i - (n - 1) \in 1..(Len(s) - n) /\ n + (i - (n - 1)) = i + 1
    BY <1>0, <2>1
  <2>4. after[i - (n - 1)] = s[n + (i - (n - 1))]
    BY <1>2, <2>3
  <2> QED
    BY <2>2, <2>3, <2>4
<1> QED
  BY <1>0, <1>3, <1>4, <1>5, <1>6

(* Unlinking the first node of a list (ListPop in list.c).                 *)
LEMMA TailProperties ==
    ASSUME NEW S, NEW s \in Seq(S), s # <<>>
    PROVE  /\ Len(s) \in Nat \ {0}
           /\ Head(s) = s[1] /\ s[1] \in S
           /\ Tail(s) \in Seq(S)
           /\ Len(Tail(s)) = Len(s) - 1
           /\ \A i \in 1..(Len(s) - 1) : Tail(s)[i] = s[i + 1]
<1>1. Len(s) \in Nat /\ (Len(s) = 0 <=> s = <<>>)
  BY EmptySeq, LenProperties
<1>2. Head(s) = s[1]
  OBVIOUS
<1> QED
  BY <1>1, <1>2, HeadTailProperties

(* An array whose entries are all rewritten in place is still a sequence   *)
(* of the same length (Select's loop over the revents).                    *)
LEMMA RewrittenProperties ==
    ASSUME NEW S, NEW n \in Nat, NEW f \in [1..n -> S]
    PROVE  f \in Seq(S) /\ Len(f) = n
<1>1. f \in Seq(S)
  BY SeqDef
<1>2. DOMAIN f = 1..n /\ DOMAIN f = 1..Len(f) /\ Len(f) \in Nat
  BY <1>1, LenProperties
<1> QED
  BY <1>1, <1>2
-----------------------------------------------------------------------------
(* The elements of a sequence, when it is built or taken to pieces.        *)
LEMMA ConcatElements ==
    ASSUME NEW S, NEW s \in Seq(S), NEW t \in Seq(S)
    PROVE  ToSet(s \o t) = ToSet(s) \cup ToSet(t)
<1>1. /\ Len(s) \in Nat /\ DOMAIN s = 1..Len(s)
      /\ Len(t) \in Nat /\ DOMAIN t = 1..Len(t)
  BY LenProperties
<1>2. /\ s \o t \in Seq(S)
      /\ Len(s \o t) = Len(s) + Len(t)
      /\ \A i \in 1..(Len(s) + Len(t)) :
            (s \o t)[i] = IF i <= Len(s) THEN s[i] ELSE t[i - Len(s)]
  BY ConcatProperties
<1>3. DOMAIN (s \o t) = 1..(Len(s) + Len(t))
  BY <1>2, LenProperties
<1>4. ASSUME NEW x \in ToSet(s \o t)
      PROVE  x \in ToSet(s) \cup ToSet(t)
  <2>1. PICK i \in 1..(Len(s) + Len(t)) : x = (s \o t)[i]
    BY <1>3, <1>4 DEF ToSet
  <2>2. CASE i <= Len(s)
    BY <1>1, <1>2, <2>1, <2>2 DEF ToSet
  <2>3. CASE ~(i <= Len(s))
    <3>1. i - Len(s) \in 1..Len(t) /\ x = t[i - Len(s)]
      BY <1>1, <1>2, <2>1, <2>3
    <3> QED
      BY <1>1, <3>1 DEF ToSet
  <2> QED
    BY <2>2, <2>3
<1>5. ASSUME NEW i \in 1..Len(s)
      PROVE  s[i] \in ToSet(s \o t)
  <2>1. i \in 1..(Len(s) + Len(t)) /\ (s \o t)[i] = s[i]
    BY <1>1, <1>2
  <2> QED
    BY <1>3, <2>1 DEF ToSet
<1>6. ASSUME NEW i \in 1..Len(t)
      PROVE  t[i] \in ToSet(s \o t)
  <2>1. Len(s) + i \in 1..(Len(s) + Len(t)) /\ (s \o t)[Len(s) + i] = t[i]
    BY <1>1, <1>2
  <2> QED
    BY <1>3, <2>1 DEF ToSet
<1> QED
  BY <1>1, <1>4, <1>5, <1>6 DEF ToSet

LEMMA HeadTailElements ==
    ASSUME NEW S, NEW s \in Seq(S), s # <<>>
    PROVE  /\ ToSet(s) = {Head(s)} \cup ToSet(Tail(s))
           /\ ToSet(Tail(s)) = {s[i] : i \in 2..Len(s)}
<1>1. /\ Len(s) \in Nat \ {0} /\ Head(s) = s[1]
      /\ Tail(s) \in Seq(S) /\ Len(Tail(s)) = Len(s) - 1
      /\ \A i \in 1..(Len(s) - 1) : Tail(s)[i] = s[i + 1]
  BY TailProperties
<1>2. DOMAIN s = 1..Len(s) /\ DOMAIN Tail(s) = 1..(Len(s) - 1)
  BY <1>1, LenProperties
<1>3. ASSUME NEW x \in ToSet(Tail(s))
      PROVE  x \in {s[i] : i \in 2..Len(s)}
  <2>1. PICK i \in 1..(Len(s) - 1) : x = Tail(s)[i]
    BY <1>2, <1>3 DEF ToSet
  <2>2. i + 1 \in 2..Len(s) /\ x = s[i + 1]
    BY <1>1, <2>1
  <2> QED
    BY <2>2
<1>4. ASSUME NEW i \in 2..Len(s)
      PROVE  s[i] \in ToSet(Tail(s))
  <2>1. i - 1 \in 1..(Len(s) - 1) /\ s[i] = Tail(s)[i - 1]
    BY <1>1
  <2> QED
    BY <1>2, <2>1 DEF ToSet
<1>5. ToSet(Tail(s)) = {s[i] : i \in 2..Len(s)}
  BY <1>3, <1>4
<1>6. ToSet(s) = {s[1]} \cup {s[i] : i \in 2..Len(s)}
  <2>1. 1..Len(s) = {1} \cup 2..Len(s)
    BY <1>1
  <2> QED
    BY <1>2, <2>1 DEF ToSet
<1> QED
  BY <1>1, <1>5, <1>6

LEMMA AppendElements ==
    ASSUME NEW S, NEW s \in Seq(S), NEW e \in S
    PROVE  ToSet(Append(s, e)) = ToSet(s) \cup {e}
<1>1. /\ Len(s) \in Nat /\ DOMAIN s = 1..Len(s)
      /\ Append(s, e) \in Seq(S) /\ Len(Append(s, e)) = Len(s) + 1
      /\ \A i \in 1..Len(s) : Append(s, e)[i] = s[i]
      /\ Append(s, e)[Len(s) + 1] = e
  BY LenProperties, AppendProperties
<1>2. DOMAIN Append(s, e) = 1..Len(s) \cup {Len(s) + 1}
  <2>1. DOMAIN Append(s, e) = 1..(Len(s) + 1)
    BY <1>1, LenProperties
  <2> QED
    BY <1>1, <2>1
<1> QED
  BY <1>1, <1>2 DEF ToSet

LEMMA ShortElements ==
    /\ ToSet(<<>>) = {}
    /\ \A x : ToSet(<<x>>) = {x}
    /\ \A x, y : ToSet(<<x, y>>) = {x, y}
<1>1. ToSet(<<>>) = {}
  BY DEF ToSet
<1>2. \A x : ToSet(<<x>>) = {x}
  BY DEF ToSet
<1>3. \A x, y : ToSet(<<x, y>>) = {x, y}
  BY DEF ToSet
<1> QED
  BY <1>1, <1>2, <1>3
-----------------------------------------------------------------------------
(* Counting places.                                                        *)

(* The least element of a set of numbers, by which what follows is proved  *)
(* by induction.                                                           *)
LEMMA LeastNatural ==
    ASSUME NEW T, T \subseteq Nat, T # {}
    PROVE  \E x \in T : \A y \in T : x <= y
<1>1. PICK x \in T : \A y \in T : ~(<<y, x>> \in OpToRel(<, Nat))
  BY NatLessThanWellFounded, WFMin
<1>2. ASSUME NEW y \in T
      PROVE  x <= y
  <2>1. x \in Nat /\ y \in Nat
    BY <1>1, <1>2
  <2>2. ~(y < x)
    BY <1>1, <2>1 DEF OpToRel
  <2> QED
    BY <2>1, <2>2
<1> QED
  BY <1>1, <1>2

(* Of the places that are kept, one has as many before it as one likes.    *)
LEMMA PlaceOfRank ==
    ASSUME NEW n \in Nat, NEW kept \in SUBSET (1..n), NEW i \in 1..Cardinality(kept)
    PROVE  \E k \in kept : Cardinality({j \in kept : j < k}) = i - 1
<1> DEFINE Ranked(r) == \E k \in kept : Cardinality({j \in kept : j < k}) = r - 1
           missing == {r \in 1..Cardinality(kept) : ~Ranked(r)}
<1>1. /\ IsFiniteSet(kept) /\ Cardinality(kept) \in Nat
      /\ kept \subseteq Nat
  <2>1. IsFiniteSet(1..n)
    BY FS_Interval
  <2>2. IsFiniteSet(kept)
    BY <2>1, FS_Subset
  <2>3. Cardinality(kept) \in Nat
    BY <2>2, FS_CardinalityType
  <2> QED
    BY <2>2, <2>3
<1>2. SUFFICES ASSUME missing # {} PROVE FALSE
  BY DEF missing
<1>3. PICK b \in missing : \A r \in missing : b <= r
  <2>1. missing \subseteq Nat
    BY <1>1
  <2> HIDE DEF missing
  <2> QED
    BY <1>2, <2>1, LeastNatural
<1>4. b \in 1..Cardinality(kept) /\ ~Ranked(b)
  BY <1>3
<1>5. CASE b = 1
  <2>1. kept # {}
    BY <1>1, <1>4, FS_EmptySet
  <2>2. PICK k \in kept : \A j \in kept : k <= j
    BY <1>1, <2>1, LeastNatural
  <2>3. {j \in kept : j < k} = {}
    <3>1. \A j \in kept : j \in Nat /\ k \in Nat /\ k <= j
      BY <1>1, <2>2
    <3>2. \A j \in kept : ~(j < k)
      BY <3>1
    <3> QED
      BY <3>2
  <2>4. Cardinality({j \in kept : j < k}) = b - 1
    BY <1>5, <2>3, FS_EmptySet
  <2> QED
    BY <1>4, <2>2, <2>4
<1>6. CASE b # 1
  <2>1. b - 1 \in 1..Cardinality(kept) /\ ~(b <= b - 1)
    BY <1>1, <1>4, <1>6
  <2>2. PICK k \in kept : Cardinality({j \in kept : j < k}) = (b - 1) - 1
    BY <1>3, <2>1
  <2> DEFINE before == {j \in kept : j < k}
             upTo == before \cup {k}
             after == kept \ upTo
  <2>3. /\ IsFiniteSet(before)
        /\ k \notin before
    BY <1>1, FS_Subset
  <2>4. IsFiniteSet(upTo) /\ Cardinality(upTo) = b - 1
    <3>1. /\ IsFiniteSet(upTo)
          /\ Cardinality(upTo) = Cardinality(before) + 1
      BY <2>3, FS_AddElement
    <3>2. Cardinality(before) = (b - 1) - 1
      BY <2>2
    <3> QED
      BY <1>4, <3>1, <3>2
  <2>5. after # {}
    <3>1. upTo # kept
      <4>1. b - 1 # Cardinality(kept)
        BY <1>1, <1>4
      <4> HIDE DEF upTo
      <4> QED
        BY <2>4, <4>1
    <3> QED
      BY <2>2, <3>1
  <2>6. PICK m \in after : \A j \in after : m <= j
    <3>1. after \subseteq Nat
      BY <1>1
    <3> HIDE DEF after
    <3> QED
      BY <2>5, <3>1, LeastNatural
  <2>7. {j \in kept : j < m} = upTo
    <3>1. m \in kept /\ m \in Nat /\ k \in Nat /\ k < m
      BY <1>1, <2>2, <2>6
    <3>2. ASSUME NEW j \in kept, j < m
          PROVE  j \in upTo
      BY <1>1, <2>6, <3>1, <3>2
    <3>3. ASSUME NEW j \in upTo
          PROVE  j \in kept /\ j < m
      BY <1>1, <2>2, <3>1, <3>3
    <3> QED
      BY <3>2, <3>3
  <2>8. Ranked(b)
    BY <2>4, <2>6, <2>7
  <2> QED
    BY <1>4, <2>8
<1> QED
  BY <1>5, <1>6

(* What is left of a sequence is some of what was in it.                   *)
LEMMA WithoutProperties ==
    ASSUME NEW S, NEW s \in Seq(S), NEW R
    PROVE  /\ Without(s, R) \in Seq(S)
           /\ ToSet(Without(s, R)) \subseteq ToSet(s) \ R
<1> DEFINE kept == {k \in DOMAIN s : s[k] \notin R}
           place(i) == CHOOSE k \in kept : Cardinality({j \in kept : j < k}) = i - 1
           n == Cardinality(kept)
           left == [i \in 1..n |-> s[place(i)]]
<1>1. Len(s) \in Nat /\ DOMAIN s = 1..Len(s) /\ kept \in SUBSET (1..Len(s))
  BY LenProperties
<1>2. n \in Nat
  <2>1. IsFiniteSet(1..Len(s))
    BY <1>1, FS_Interval
  <2>2. IsFiniteSet(kept)
    BY <1>1, <2>1, FS_Subset
  <2> QED
    BY <2>2, FS_CardinalityType
<1>3. ASSUME NEW i \in 1..n
      PROVE  s[place(i)] \in S /\ s[place(i)] \in ToSet(s) \ R
  <2>1. \E k \in kept : Cardinality({j \in kept : j < k}) = i - 1
    <3> HIDE DEF kept
    <3> QED
      BY <1>1, PlaceOfRank
  <2>2. place(i) \in kept
    BY <2>1
  <2> QED
    BY <1>1, <2>2, ElementOfSeq DEF ToSet
<1> HIDE DEF place
<1>4. left \in [1..n -> S]
  BY <1>3
<1>5. left \in Seq(S) /\ DOMAIN left = 1..n
  <2> HIDE DEF left, n
  <2> QED
    BY <1>2, <1>4, RewrittenProperties
<1>6. ToSet(left) \subseteq ToSet(s) \ R
  BY <1>3, <1>5 DEF ToSet
<1>7. Without(s, R) = left
  BY DEF Without, place
<1> QED
  BY <1>5, <1>6, <1>7

(* A finite set, listed.                                                   *)
LEMMA SetToSeqProperties ==
    ASSUME NEW S, IsFiniteSet(S)
    PROVE  /\ Cardinality(S) \in Nat
           /\ SetToSeq(S) \in [1..Cardinality(S) -> S]
<1>1. /\ Cardinality(S) \in Nat
      /\ ExistsBijection(1..Cardinality(S), S)
  BY FS_CardinalityType
<1>2. PICK f \in [1..Cardinality(S) -> S] : IsInjective(f)
  BY <1>1 DEF ExistsBijection, Bijection, Injection, IsInjective
<1> QED
  BY <1>1, <1>2 DEF SetToSeq

(* An element that occurs once, and one that does not come before another. *)
OnceIn(s, x) == \A i, j \in DOMAIN s : s[i] = x /\ s[j] = x => i = j
Before(s, x, y) == \A j \in DOMAIN s : s[j] = y => \E i \in 1..(j - 1) : s[i] = x

(* What is put at the end.                                                 *)
LEMMA AppendOrder ==
    ASSUME NEW S, NEW s \in Seq(S), NEW e \in S, NEW x, NEW y
    PROVE  /\ OnceIn(s, x) /\ (e = x => x \notin ToSet(s)) => OnceIn(Append(s, e), x)
           /\ Before(s, x, y) /\ (e = y => x \in ToSet(s)) => Before(Append(s, e), x, y)
<1>1. /\ Len(s) \in Nat /\ DOMAIN s = 1..Len(s)
      /\ Append(s, e) \in Seq(S) /\ Len(Append(s, e)) = Len(s) + 1
      /\ \A i \in 1..Len(s) : Append(s, e)[i] = s[i]
      /\ Append(s, e)[Len(s) + 1] = e
  BY LenProperties, AppendProperties
<1>2. DOMAIN Append(s, e) = 1..(Len(s) + 1)
  BY <1>1, LenProperties
<1> DEFINE a == Append(s, e)
           n == Len(s)
<1> HIDE DEF a, n
<1>3. /\ n \in Nat /\ DOMAIN s = 1..n /\ DOMAIN a = 1..(n + 1)
      /\ \A i \in 1..n : a[i] = s[i]
      /\ a[n + 1] = e
  BY <1>1, <1>2 DEF a, n
<1>4. ASSUME OnceIn(s, x), e = x => x \notin ToSet(s)
      PROVE  OnceIn(a, x)
  <2>1. SUFFICES ASSUME NEW i \in 1..(n + 1), NEW j \in 1..(n + 1), a[i] = x, a[j] = x
                 PROVE  i = j
    BY <1>3 DEF OnceIn
  <2>2. \A k \in 1..n : a[k] = x => e # x
    BY <1>3, <1>4 DEF ToSet
  <2>3. CASE i \in 1..n /\ j \in 1..n
    BY <1>3, <1>4, <2>1, <2>3 DEF OnceIn
  <2> QED
    BY <1>3, <2>1, <2>2, <2>3
<1>5. ASSUME Before(s, x, y), e = y => x \in ToSet(s)
      PROVE  Before(a, x, y)
  <2>1. SUFFICES ASSUME NEW j \in 1..(n + 1), a[j] = y
                 PROVE  \E i \in 1..(j - 1) : a[i] = x
    BY <1>3 DEF Before
  <2>2. CASE j \in 1..n
    <3>1. s[j] = y
      BY <1>3, <2>1, <2>2
    <3>2. PICK i \in 1..(j - 1) : s[i] = x
      BY <1>3, <1>5, <2>2, <3>1 DEF Before
    <3> QED
      BY <1>3, <2>2, <3>2
  <2>3. CASE j = n + 1
    <3>1. e = y
      BY <1>3, <2>1, <2>3
    <3>2. PICK i \in 1..n : s[i] = x
      BY <1>3, <1>5, <3>1 DEF ToSet
    <3> QED
      BY <1>3, <2>3, <3>2
  <2> QED
    BY <1>3, <2>2, <2>3
<1> QED
  BY <1>4, <1>5 DEF a

(* What is taken from the front.                                           *)
LEMMA TailOrder ==
    ASSUME NEW S, NEW s \in Seq(S), s # <<>>, NEW x, NEW y
    PROVE  /\ OnceIn(s, x) => OnceIn(Tail(s), x) /\ (Head(s) = x => x \notin ToSet(Tail(s)))
           /\ Before(s, x, y) => Head(s) # y /\ (Head(s) # x => Before(Tail(s), x, y))
<1>1. /\ Len(s) \in Nat \ {0} /\ DOMAIN s = 1..Len(s)
      /\ Head(s) = s[1] /\ Tail(s) \in Seq(S) /\ Len(Tail(s)) = Len(s) - 1
      /\ \A i \in 1..(Len(s) - 1) : Tail(s)[i] = s[i + 1]
  BY TailProperties, LenProperties
<1>2. DOMAIN Tail(s) = 1..(Len(s) - 1)
  BY <1>1, LenProperties
<1> DEFINE a == Tail(s)
           n == Len(s)
<1> HIDE DEF a, n
<1>3. /\ n \in Nat \ {0} /\ DOMAIN s = 1..n /\ DOMAIN a = 1..(n - 1)
      /\ \A i \in 1..(n - 1) : a[i] = s[i + 1]
      /\ Head(s) = s[1]
  BY <1>1, <1>2 DEF a, n
<1>4. ASSUME OnceIn(s, x)
      PROVE  OnceIn(a, x) /\ (Head(s) = x => x \notin ToSet(a))
  <2>1. \A i, j \in 1..n : s[i] = x /\ s[j] = x => i = j
    BY <1>3, <1>4 DEF OnceIn
  <2>2. OnceIn(a, x)
    <3>1. SUFFICES ASSUME NEW i \in 1..(n - 1), NEW j \in 1..(n - 1), a[i] = x, a[j] = x
                   PROVE  i = j
      BY <1>3 DEF OnceIn
    <3>2. i + 1 \in 1..n /\ j + 1 \in 1..n /\ s[i + 1] = x /\ s[j + 1] = x
      BY <1>3, <3>1
    <3> QED
      BY <2>1, <3>2
  <2>3. ASSUME s[1] = x, NEW i \in 1..(n - 1), a[i] = x
        PROVE  FALSE
    <3>1. i + 1 \in 1..n /\ s[i + 1] = x /\ 1 \in 1..n
      BY <1>3, <2>3
    <3> QED
      BY <2>1, <2>3, <3>1
  <2> QED
    BY <1>3, <2>2, <2>3 DEF ToSet
<1>5. ASSUME Before(s, x, y)
      PROVE  Head(s) # y /\ (Head(s) # x => Before(a, x, y))
  <2>1. \A j \in 1..n : s[j] = y => \E i \in 1..(j - 1) : s[i] = x
    BY <1>3, <1>5 DEF Before
  <2>2. s[1] # y
    BY <1>3, <2>1
  <2>3. ASSUME s[1] # x, NEW j \in 1..(n - 1), a[j] = y
        PROVE  \E i \in 1..(j - 1) : a[i] = x
    <3>1. j + 1 \in 1..n /\ s[j + 1] = y
      BY <1>3, <2>3
    <3>2. PICK i \in 1..((j + 1) - 1) : s[i] = x
      BY <2>1, <3>1
    <3>3. i - 1 \in 1..(j - 1) /\ a[i - 1] = x
      BY <1>3, <2>3, <3>2
    <3> QED
      BY <3>3
  <2> QED
    BY <1>3, <2>2, <2>3 DEF Before
<1> QED
  BY <1>4, <1>5 DEF a

(* Sequences without repetition: what is put at the end, what is left when *)
(* the first is taken, and one after the other.                            *)
LEMMA AppendDistinct ==
    ASSUME NEW S, NEW s \in Seq(S), NEW e \in S, IsInjective(s), e \notin ToSet(s)
    PROVE  IsInjective(Append(s, e))
<1>1. /\ Len(s) \in Nat /\ DOMAIN s = 1..Len(s)
      /\ Append(s, e) \in Seq(S) /\ Len(Append(s, e)) = Len(s) + 1
      /\ DOMAIN Append(s, e) = 1..(Len(s) + 1)
      /\ \A i \in 1..Len(s) : Append(s, e)[i] = s[i]
      /\ Append(s, e)[Len(s) + 1] = e
  BY AppendProperties, LenProperties
<1>2. \A i \in 1..Len(s) : s[i] # e
  BY <1>1 DEF ToSet
<1>3. \A i, j \in 1..Len(s) : s[i] = s[j] => i = j
  BY <1>1 DEF IsInjective
<1>4. ASSUME NEW i \in 1..(Len(s) + 1), NEW j \in 1..(Len(s) + 1),
             Append(s, e)[i] = Append(s, e)[j]
      PROVE  i = j
  <2>1. /\ i \in 1..Len(s) \/ i = Len(s) + 1
        /\ j \in 1..Len(s) \/ j = Len(s) + 1
    BY <1>1
  <2> QED
    BY <1>1, <1>2, <1>3, <1>4, <2>1
<1> QED
  BY <1>1, <1>4 DEF IsInjective

LEMMA TailDistinct ==
    ASSUME NEW S, NEW s \in Seq(S), s # <<>>, IsInjective(s)
    PROVE  IsInjective(Tail(s)) /\ Head(s) \notin ToSet(Tail(s))
<1>1. /\ Len(s) \in Nat \ {0} /\ DOMAIN s = 1..Len(s) /\ Head(s) = s[1]
      /\ Tail(s) \in Seq(S) /\ Len(Tail(s)) = Len(s) - 1
      /\ \A i \in 1..(Len(s) - 1) : Tail(s)[i] = s[i + 1]
  BY TailProperties, LenProperties
<1>2. DOMAIN Tail(s) = 1..(Len(s) - 1)
  BY <1>1, LenProperties
<1>3. \A i, j \in 1..Len(s) : s[i] = s[j] => i = j
  BY <1>1 DEF IsInjective
<1>4. ASSUME NEW i \in 1..(Len(s) - 1), NEW j \in 1..(Len(s) - 1), Tail(s)[i] = Tail(s)[j]
      PROVE  i = j
  <2>1. i + 1 \in 1..Len(s) /\ j + 1 \in 1..Len(s)
    BY <1>1
  <2>2. i + 1 = j + 1
    BY <1>1, <1>3, <1>4, <2>1
  <2> QED
    BY <2>2
<1>5. ASSUME NEW i \in 1..(Len(s) - 1)
      PROVE  Tail(s)[i] # Head(s)
  <2>1. i + 1 \in 1..Len(s) /\ 1 \in 1..Len(s) /\ i + 1 # 1
    BY <1>1
  <2> QED
    BY <1>1, <1>3, <2>1
<1> QED
  BY <1>2, <1>4, <1>5 DEF IsInjective, ToSet

LEMMA ConcatDistinct ==
    ASSUME NEW S, NEW s \in Seq(S), NEW t \in Seq(S), IsInjective(s), IsInjective(t),
           ToSet(s) \cap ToSet(t) = {}
    PROVE  IsInjective(s \o t)
<1>1. /\ Len(s) \in Nat /\ DOMAIN s = 1..Len(s)
      /\ Len(t) \in Nat /\ DOMAIN t = 1..Len(t)
      /\ s \o t \in Seq(S) /\ Len(s \o t) = Len(s) + Len(t)
      /\ \A i \in 1..(Len(s) + Len(t)) :
            (s \o t)[i] = IF i <= Len(s) THEN s[i] ELSE t[i - Len(s)]
  BY ConcatProperties, LenProperties
<1>2. DOMAIN (s \o t) = 1..(Len(s) + Len(t))
  BY <1>1, LenProperties
<1>3. /\ \A i, j \in 1..Len(s) : s[i] = s[j] => i = j
      /\ \A i, j \in 1..Len(t) : t[i] = t[j] => i = j
  BY <1>1 DEF IsInjective
<1>4. \A i \in 1..Len(s), j \in 1..Len(t) : s[i] # t[j]
  BY <1>1 DEF ToSet
<1>5. ASSUME NEW i \in 1..(Len(s) + Len(t)), NEW j \in 1..(Len(s) + Len(t)),
             (s \o t)[i] = (s \o t)[j]
      PROVE  i = j
  <2>1. CASE i <= Len(s) /\ j <= Len(s)
    BY <1>1, <1>3, <1>5, <2>1
  <2>2. CASE i <= Len(s) /\ j > Len(s)
    <3>1. i \in 1..Len(s) /\ j - Len(s) \in 1..Len(t)
      BY <1>1, <2>2
    <3> QED
      BY <1>1, <1>4, <1>5, <2>2, <3>1
  <2>3. CASE i > Len(s) /\ j <= Len(s)
    <3>1. j \in 1..Len(s) /\ i - Len(s) \in 1..Len(t)
      BY <1>1, <2>3
    <3> QED
      BY <1>1, <1>4, <1>5, <2>3, <3>1
  <2>4. CASE i > Len(s) /\ j > Len(s)
    <3>1. i - Len(s) \in 1..Len(t) /\ j - Len(s) \in 1..Len(t)
      BY <1>1, <2>4
    <3>2. i - Len(s) = j - Len(s)
      BY <1>1, <1>3, <1>5, <2>4, <3>1
    <3> QED
      BY <1>1, <3>2
  <2> QED
    BY <1>1, <2>1, <2>2, <2>3, <2>4
<1> QED
  BY <1>2, <1>5 DEF IsInjective

-----------------------------------------------------------------------------
(* The places of an element in a queue, and how many they are.             *)
PlacesOf(s, e) == {i \in DOMAIN s : s[i] = e}

LEMMA PlacesFinite ==
    ASSUME NEW S, NEW s \in Seq(S), NEW e
    PROVE  /\ IsFiniteSet(PlacesOf(s, e)) /\ Cardinality(PlacesOf(s, e)) \in Nat
           /\ PlacesOf(s, e) \subseteq 1..Len(s)
           /\ Len(s) = 0 => Cardinality(PlacesOf(s, e)) = 0
<1>1. Len(s) \in Nat /\ DOMAIN s = 1..Len(s)
  BY LenProperties
<1>2. PlacesOf(s, e) \in SUBSET (1..Len(s))
  BY <1>1 DEF PlacesOf
<1>3. IsFiniteSet(1..Len(s))
  BY <1>1, FS_Interval
<1>4. IsFiniteSet(PlacesOf(s, e))
  BY <1>2, <1>3, FS_Subset
<1>5. Cardinality(PlacesOf(s, e)) \in Nat
  BY <1>4, FS_CardinalityType
<1>6. ASSUME Len(s) = 0
      PROVE  Cardinality(PlacesOf(s, e)) = 0
  <2>1. PlacesOf(s, e) = {}
    BY <1>1, <1>2, <1>6
  <2> QED
    BY <2>1, FS_EmptySet
<1> QED
  BY <1>2, <1>4, <1>5, <1>6

LEMMA PlacesAppended ==
    ASSUME NEW S, NEW s \in Seq(S), NEW x \in S, NEW e
    PROVE  Cardinality(PlacesOf(Append(s, x), e)) =
               Cardinality(PlacesOf(s, e)) + (IF x = e THEN 1 ELSE 0)
<1> DEFINE P == PlacesOf(s, e)
           Q == PlacesOf(Append(s, x), e)
           n == Len(s)
<1>1. /\ n \in Nat /\ DOMAIN s = 1..n
      /\ Append(s, x) \in Seq(S) /\ Len(Append(s, x)) = n + 1
      /\ \A i \in 1..n : Append(s, x)[i] = s[i]
      /\ Append(s, x)[n + 1] = x
  BY LenProperties, AppendProperties
<1>2. DOMAIN Append(s, x) = 1..n \cup {n + 1}
  <2>1. DOMAIN Append(s, x) = 1..(n + 1)
    BY <1>1, LenProperties
  <2> QED
    BY <1>1, <2>1
<1>3. Q = IF x = e THEN P \cup {n + 1} ELSE P
  BY <1>1, <1>2 DEF PlacesOf
<1>4. n + 1 \notin P
  BY <1>1 DEF PlacesOf
<1>5. IsFiniteSet(P) /\ Cardinality(P) \in Nat
  BY PlacesFinite
<1> HIDE DEF P, Q, n
<1>6. Cardinality(P \cup {n + 1}) = Cardinality(P) + 1
  BY <1>4, <1>5, FS_AddElement
<1>7. Cardinality(Q) = Cardinality(P) + (IF x = e THEN 1 ELSE 0)
  <2>1. CASE x = e
    BY <1>3, <1>6, <2>1
  <2>2. CASE x # e
    BY <1>3, <1>5, <2>2
  <2> QED
    BY <2>1, <2>2
<1> QED
  BY <1>7 DEF P, Q

LEMMA PlacesOfTail ==
    ASSUME NEW S, NEW s \in Seq(S), s # <<>>, NEW e
    PROVE  Cardinality(PlacesOf(s, e)) =
               Cardinality(PlacesOf(Tail(s), e)) + (IF Head(s) = e THEN 1 ELSE 0)
<1> DEFINE P == PlacesOf(s, e)
           Q == PlacesOf(Tail(s), e)
           n == Len(s)
           moved == [i \in Q |-> i + 1]
<1>1. /\ n \in Nat \ {0} /\ Head(s) = s[1]
      /\ Tail(s) \in Seq(S) /\ Len(Tail(s)) = n - 1
      /\ \A i \in 1..(n - 1) : Tail(s)[i] = s[i + 1]
  BY TailProperties
<1>2. DOMAIN s = 1..n /\ DOMAIN Tail(s) = 1..(n - 1)
  BY <1>1, LenProperties
<1>3. /\ IsFiniteSet(P) /\ Cardinality(P) \in Nat /\ IsFiniteSet(Q) /\ Cardinality(Q) \in Nat
  BY <1>1, PlacesFinite
<1>4. \A i : i \in Q <=> i \in 1..(n - 1) /\ s[i + 1] = e
  BY <1>1, <1>2 DEF PlacesOf
<1>5. \A i : i \in P <=> i \in 1..n /\ s[i] = e
  BY <1>2 DEF PlacesOf
<1> HIDE DEF P, Q, n
<1>6. moved \in Bijection(Q, P \ {1})
  <2>1. ASSUME NEW i \in Q
        PROVE  i + 1 \in P \ {1} /\ i \in Nat
    <3>1. i \in 1..(n - 1) /\ s[i + 1] = e
      BY <1>4
    <3>2. i + 1 \in 1..n /\ i + 1 # 1 /\ i \in Nat
      BY <1>1, <3>1
    <3> QED
      BY <1>5, <3>1, <3>2
  <2>2. moved \in [Q -> P \ {1}]
    BY <2>1
  <2>3. ASSUME NEW i \in Q, NEW j \in Q, moved[i] = moved[j]
        PROVE  i = j
    <3>1. i + 1 = j + 1 /\ i \in Nat /\ j \in Nat
      BY <2>1, <2>3
    <3> QED
      BY <3>1
  <2>4. ASSUME NEW k \in P \ {1}
        PROVE  \E i \in Q : moved[i] = k
    <3>1. k \in 1..n /\ s[k] = e /\ k # 1
      BY <1>5, <2>4
    <3>2. k - 1 \in 1..(n - 1) /\ (k - 1) + 1 = k
      BY <1>1, <3>1
    <3>3. k - 1 \in Q
      BY <1>4, <3>1, <3>2
    <3> QED
      BY <3>2, <3>3
  <2> HIDE DEF moved
  <2> QED
    BY <2>2, <2>3, <2>4 DEF Bijection, Injection, Surjection, IsInjective
<1>7. ExistsBijection(Q, P \ {1})
  BY <1>6 DEF ExistsBijection
<1>8. Cardinality(P \ {1}) = Cardinality(Q)
  BY <1>3, <1>7, FS_Bijection
<1>9. Cardinality(P \ {1}) = IF 1 \in P THEN Cardinality(P) - 1 ELSE Cardinality(P)
  BY <1>3, FS_RemoveElement
<1>10. 1 \in P <=> Head(s) = e
  <2>1. 1 \in 1..n
    BY <1>1
  <2> QED
    BY <1>1, <1>5, <2>1
<1>11. Cardinality(P) = Cardinality(Q) + (IF Head(s) = e THEN 1 ELSE 0)
  <2>1. CASE Head(s) = e
    BY <1>3, <1>8, <1>9, <1>10, <2>1
  <2>2. CASE Head(s) # e
    BY <1>3, <1>8, <1>9, <1>10, <2>2
  <2> QED
    BY <2>1, <2>2
<1> QED
  BY <1>11 DEF P, Q

=============================================================================
