------------------------------- MODULE LeftFold -------------------------------
(***************************************************************************)
(* Induction over data, as far as the proofs of this project need it: over *)
(* naturals, given by the set where a predicate holds (the theorems of the *)
(* library are about operators), and what follows from it for FoldLeft     *)
(* with an operator Op, for which an operator of a model is instantiated.   *)
(***************************************************************************)
EXTENDS Integers, Sequences, FiniteSetsExt, SequencesExt, WellFoundedInduction, TLAPS

CONSTANTS
  Op(_, _),   \* the step: an accumulator and a member of the sequence
  Keeps(_, _) \* what is to be shown of the accumulators, given some context

\* A set of naturals with 0 and the successor of each member has all of them.
LEMMA SetInduction ==
    ASSUME NEW S \in SUBSET Nat, 0 \in S, \A n \in S : n + 1 \in S
    PROVE  S = Nat
<1> DEFINE T == Nat \ S
<1> SUFFICES ASSUME T # {} PROVE FALSE
    OBVIOUS
<1>1. T \subseteq Nat
      OBVIOUS
<1> DEFINE R == OpToRel(<, Nat)
<1>2. IsWellFoundedOn(R, Nat)
      BY NatLessThanWellFounded
<1>3. \A x, y \in Nat : x < y => <<x, y>> \in R
      BY DEF OpToRel
<1> HIDE DEF T, R
<1>4. PICK x \in T : \A y \in T : ~ (<<y, x>> \in R)
      BY <1>1, <1>2, WFMin
<1>5. x \in Nat /\ x # 0 /\ x \notin S
      BY <1>1 DEF T
<1>6. x - 1 \in Nat /\ x - 1 < x /\ x = (x - 1) + 1
      BY <1>5
<1>7. <<x - 1, x>> \in R
      BY <1>3, <1>5, <1>6
<1>8. x - 1 \in S
      BY <1>4, <1>6, <1>7 DEF T
<1> QED BY <1>5, <1>6, <1>8

\* The same up to a bound.
LEMMA BoundedInduction ==
    ASSUME NEW n \in Nat, NEW S, 0 \in S, \A i \in 0 .. n : i \in S /\ i < n => i + 1 \in S
    PROVE  0 .. n \subseteq S
<1> DEFINE T == {i \in Nat : i <= n => i \in S}
<1>1. \A i \in T : i + 1 \in T
      OBVIOUS
<1>2. 0 \in T /\ T \in SUBSET Nat
      OBVIOUS
<1>3. T = Nat
  <2> HIDE DEF T
  <2> QED BY <1>1, <1>2, SetInduction
<1> QED BY <1>3

\* Places up to n that are not all above n have a last one.
LEMMA LastPlace ==
    ASSUME NEW n \in Nat, NEW s \in SUBSET (1 .. n), s # {}
    PROVE  Max(s) \in s /\ \A i \in s : i <= Max(s)
<1> DEFINE S == {k \in 0 .. n : \A t \in SUBSET (1 .. k) :
                    t # {} => \E m \in t : \A i \in t : m >= i}
<1>1. 0 \in S
  <2>1. \A t \in SUBSET (1 .. 0) : t = {}
        OBVIOUS
  <2>2. \A t \in SUBSET (1 .. 0) : t # {} => \E m \in t : \A i \in t : m >= i
        BY <2>1, Zenon
  <2>3. 0 \in 0 .. n
        OBVIOUS
  <2> QED BY <2>2, <2>3
<1>2. ASSUME NEW k \in 0 .. n, k \in S, k < n
      PROVE  k + 1 \in S
  <2> SUFFICES ASSUME NEW t \in SUBSET (1 .. k + 1), t # {}
               PROVE  \E m \in t : \A i \in t : m >= i
      BY <1>2
  <2>1. CASE k + 1 \in t
        BY <2>1
  <2>2. CASE k + 1 \notin t
    <3>1. t \in SUBSET (1 .. k)
          BY <2>2
    <3> QED BY <1>2, <3>1
  <2> QED BY <2>1, <2>2
<1>3. n \in S
  <2> HIDE DEF S
  <2> QED BY <1>1, <1>2, BoundedInduction
<1>4. \E m \in s : \A i \in s : m >= i
      BY <1>3
<1> QED BY <1>4 DEF Max

\* FoldLeft is defined by a function on the sets of places.
Iterates(it, start, seq) ==
    it = [s \in SUBSET DOMAIN seq |->
             IF s = {} THEN start ELSE Op(it[s \ {Max(s)}], seq[Max(s)])]

\* There is such a function.
LEMMA IteratesExists ==
    ASSUME NEW n \in Nat, NEW start, NEW seq, DOMAIN seq = 1 .. n
    PROVE  \E it : Iterates(it, start, seq)
<1> DEFINE Upto(k, it) ==
        it = [s \in SUBSET (1 .. k) |->
                IF s = {} THEN start ELSE Op(it[s \ {Max(s)}], seq[Max(s)])]
           S == {k \in 0 .. n : \E it : Upto(k, it)}
<1>1. 0 \in S
  <2> DEFINE it == [s \in SUBSET (1 .. 0) |-> start]
  <2>1. \A s \in SUBSET (1 .. 0) : s = {}
        OBVIOUS
  <2>2. Upto(0, it)
        BY <2>1
  <2>3. 0 \in 0 .. n
        OBVIOUS
  <2> HIDE DEF it, Upto
  <2> QED BY <2>2, <2>3
<1>2. ASSUME NEW k \in 0 .. n, k \in S, k < n
      PROVE  k + 1 \in S
  <2>1. PICK it : Upto(k, it)
        BY <1>2
  <2> DEFINE new == [s \in SUBSET (1 .. k + 1) |->
                        IF k + 1 \in s THEN Op(it[s \ {k + 1}], seq[k + 1]) ELSE it[s]]
  <2>2. k \in Nat /\ k + 1 \in 1 .. n
        BY <1>2
  <2>3. ASSUME NEW s \in SUBSET (1 .. k + 1)
        PROVE  new[s] = IF s = {} THEN start ELSE Op(new[s \ {Max(s)}], seq[Max(s)])
    <3>1. CASE k + 1 \in s
      <4> DEFINE l == k + 1
      <4>0. l \in Nat /\ s \in SUBSET (1 .. l) /\ s # {}
            BY <3>1, <2>2
      <4> HIDE DEF l
      <4>1. Max(s) \in s /\ \A i \in s : i <= Max(s)
            BY <4>0, LastPlace
      <4> DEFINE m == Max(s)
      <4>2. m \in 1 .. k + 1 /\ k + 1 <= m
            BY <3>1, <4>1
      <4> HIDE DEF m
      <4>3. m = k + 1
            BY <4>2, <2>2
      <4>4. Max(s) = k + 1
            BY <4>3 DEF m
      <4>5. s \ {k + 1} \in SUBSET (1 .. k + 1) /\ k + 1 \notin s \ {k + 1}
            OBVIOUS
      <4>6. new[s \ {k + 1}] = it[s \ {k + 1}]
            BY <4>5
      <4> QED BY <3>1, <4>4, <4>6
    <3>2. CASE k + 1 \notin s
      <4>1. s \in SUBSET (1 .. k)
            BY <3>2, <2>2
      <4>2. new[s] = it[s]
            BY <3>2
      <4>3. s \ {Max(s)} \in SUBSET (1 .. k + 1) /\ k + 1 \notin s \ {Max(s)}
            BY <3>2
      <4>4. new[s \ {Max(s)}] = it[s \ {Max(s)}]
            BY <4>3
      <4>5. it[s] = IF s = {} THEN start ELSE Op(it[s \ {Max(s)}], seq[Max(s)])
            BY <2>1, <4>1
      <4> QED BY <4>2, <4>4, <4>5
    <3> QED BY <3>1, <3>2
  <2>4. new = [s \in SUBSET (1 .. k + 1) |-> new[s]]
        OBVIOUS
  <2> HIDE DEF new
  <2>5. Upto(k + 1, new)
        BY <2>3, <2>4
  <2>6. k + 1 \in 0 .. n
        BY <1>2
  <2> HIDE DEF Upto
  <2> QED BY <2>5, <2>6
<1>3. n \in S
  <2> HIDE DEF S
  <2> QED BY <1>1, <1>2, BoundedInduction
<1>4. \E it : Upto(n, it)
      BY <1>3
<1> QED BY <1>4 DEF Iterates

\* The result of a fold, by a name that takes no operator.
Result(start, seq) == FoldLeft(Op, start, seq)

\* The accumulators of a fold, place by place: acc[i] is what the first i
\* members of the sequence make of the start.
Accumulates(acc, start, seq) ==
    /\ acc = [i \in 0 .. Len(seq) |-> acc[i]]
    /\ acc[0] = start
    /\ \A i \in 1 .. Len(seq) : acc[i] = Op(acc[i - 1], seq[i])
    /\ acc[Len(seq)] = Result(start, seq)

LEMMA Fold ==
    ASSUME NEW start, NEW seq, Len(seq) \in Nat, DOMAIN seq = 1 .. Len(seq)
    PROVE  \E acc : Accumulates(acc, start, seq)
<1> DEFINE n == Len(seq)
           h == CHOOSE it : Iterates(it, start, seq)
<1>1. n \in Nat /\ DOMAIN seq = 1 .. n
      OBVIOUS
<1> HIDE DEF n
<1>2. Result(start, seq) = h[DOMAIN seq]
      BY DEF Result, FoldLeft, MapThenFoldSet, Iterates
<1>3. Iterates(h, start, seq)
      BY <1>1, IteratesExists
<1> HIDE DEF h
<1>4. \A s \in SUBSET (1 .. n) :
          h[s] = IF s = {} THEN start ELSE Op(h[s \ {Max(s)}], seq[Max(s)])
      BY <1>1, <1>3 DEF Iterates
<1> DEFINE acc == [i \in 0 .. n |-> h[1 .. i]]
<1>5. acc[0] = start
  <2>1. 1 .. 0 = {} /\ 0 \in 0 .. n
        BY <1>1
  <2>2. h[{}] = start
        BY <1>4
  <2> QED BY <2>1, <2>2
<1>6. ASSUME NEW i \in 1 .. n
      PROVE  acc[i] = Op(acc[i - 1], seq[i])
  <2>1. 1 .. i \in SUBSET (1 .. n) /\ i \in 1 .. i /\ i \in 0 .. n /\ i - 1 \in 0 .. n
        BY <1>1
  <2>2. Max(1 .. i) \in 1 .. i /\ \A j \in 1 .. i : j <= Max(1 .. i)
        BY <1>1, <2>1, LastPlace
  <2>3. Max(1 .. i) = i
        BY <2>1, <2>2
  <2>4. (1 .. i) \ {i} = 1 .. i - 1
        BY <1>1
  <2>5. h[1 .. i] = Op(h[1 .. i - 1], seq[i])
        BY <1>4, <2>1, <2>3, <2>4
  <2> QED BY <2>1, <2>5
<1>7. acc[n] = Result(start, seq)
      BY <1>1, <1>2
<1> QED BY <1>5, <1>6, <1>7 DEF Accumulates, n

\* What holds at the start of a fold and, with a context for each place, is kept
\* from place to place holds of its result.
LEMMA FoldTracks ==
    ASSUME NEW start, NEW seq, Len(seq) \in Nat, DOMAIN seq = 1 .. Len(seq),
           NEW context, Keeps(context[0], start),
           \A acc, i : i \in DOMAIN seq /\ Keeps(context[i - 1], acc)
                         => Keeps(context[i], Op(acc, seq[i]))
    PROVE  Keeps(context[Len(seq)], Result(start, seq))
<1> DEFINE n == Len(seq)
<1>1. PICK acc : Accumulates(acc, start, seq)
      BY Fold
<1> DEFINE S == {i \in 0 .. n : Keeps(context[i], acc[i])}
<1>2. n \in Nat /\ DOMAIN seq = 1 .. n
      OBVIOUS
<1>3. acc[0] = start /\ acc[n] = Result(start, seq)
      BY <1>1 DEF Accumulates
<1>4. 0 \in S
      BY <1>2, <1>3
<1>5. ASSUME NEW k \in 0 .. n, k \in S, k < n
      PROVE  k + 1 \in S
  <2>1. k + 1 \in 1 .. n /\ (k + 1) - 1 = k /\ k + 1 \in 0 .. n /\ Keeps(context[k], acc[k])
        BY <1>5
  <2>2. acc[k + 1] = Op(acc[(k + 1) - 1], seq[k + 1])
        BY <1>1, <2>1 DEF Accumulates
  <2>3. Keeps(context[k + 1], acc[k + 1])
        BY <1>2, <2>1, <2>2
  <2> QED BY <2>1, <2>3
<1>6. n \in S
  <2> HIDE DEF S, n
  <2> QED BY <1>2, <1>4, <1>5, BoundedInduction
<1>7. Keeps(context[n], acc[n])
      BY <1>6
<1> QED BY <1>3, <1>7

\* What holds at the start of a fold and is kept by each step holds of its result.
LEMMA FoldKeeps ==
    ASSUME NEW context, NEW start, NEW seq, Len(seq) \in Nat, DOMAIN seq = 1 .. Len(seq),
           Keeps(context, start),
           \A acc, i : i \in DOMAIN seq /\ Keeps(context, acc) => Keeps(context, Op(acc, seq[i]))
    PROVE  Keeps(context, Result(start, seq))
<1> DEFINE n == Len(seq)
           always == [i \in 0 .. n |-> context]
<1>1. /\ n \in 0 .. n /\ 0 \in 0 .. n
      /\ \A i \in DOMAIN seq : i \in 0 .. n /\ i - 1 \in 0 .. n
      OBVIOUS
<1>2. \A i \in 0 .. n : always[i] = context
      OBVIOUS
<1> HIDE DEF always
<1>3. Keeps(always[n], Result(start, seq))
      BY <1>1, <1>2, FoldTracks
<1> QED BY <1>1, <1>2, <1>3

\* What the step of one member of a sequence establishes, in a context that
\* holds before it, and every step keeps holds of the result.
LEMMA FoldReaches ==
    ASSUME NEW before, NEW after,
           NEW start, NEW seq, Len(seq) \in Nat, DOMAIN seq = 1 .. Len(seq),
           Keeps(before, start),
           \A acc, i : i \in DOMAIN seq /\ Keeps(before, acc) => Keeps(before, Op(acc, seq[i])),
           NEW p \in DOMAIN seq, \A acc : Keeps(before, acc) => Keeps(after, Op(acc, seq[p])),
           \A acc, i : i \in DOMAIN seq /\ Keeps(after, acc) => Keeps(after, Op(acc, seq[i]))
    PROVE  Keeps(after, Result(start, seq))
<1> DEFINE n == Len(seq)
           context == [i \in 0 .. n |-> IF i < p THEN before ELSE after]
<1>1. context[0] = before /\ context[n] = after
      OBVIOUS
<1>2. ASSUME NEW i \in DOMAIN seq
      PROVE  \/ context[i - 1] = after /\ context[i] = after
             \/ context[i - 1] = before /\ context[i] = before
             \/ context[i - 1] = before /\ context[i] = after /\ i = p
      OBVIOUS
<1> HIDE DEF context
<1>3. ASSUME NEW acc, NEW i \in DOMAIN seq, Keeps(context[i - 1], acc)
      PROVE  Keeps(context[i], Op(acc, seq[i]))
      BY <1>2, <1>3
<1>4. Keeps(context[n], Result(start, seq))
      BY <1>1, <1>3, FoldTracks
<1> QED BY <1>1, <1>4
=============================================================================
