------------------------------ MODULE Prefixes ------------------------------
(***************************************************************************)
(* Induction over the elements that a loop has gone through.  The loops of *)
(* the code are recursive functions here, whose argument is the number of  *)
(* elements done; these lemmas say that such a function exists and that    *)
(* what is preserved by one round holds after every one.                   *)
(*                                                                         *)
(* A property is given by the set of the numbers that have it: a lemma     *)
(* about a set needs no operator to be put in its place.                   *)
(***************************************************************************)
EXTENDS Integers, TLAPS, WellFoundedInduction

\* A set of natural numbers has a smallest one.
LEMMA Smallest ==
  ASSUME NEW S \in SUBSET Nat, S # {}
  PROVE  \E n \in S : \A m \in S : n <= m
<1> DEFINE Less == {p \in Nat \X Nat : p[1] < p[2]}
<1>1. IsWellFoundedOn(Less, Nat)
  BY NatLessThanWellFounded DEF OpToRel
<1> HIDE DEF Less
<1>2. PICK n \in S : \A m \in S : <<m, n>> \notin Less
  BY <1>1, WFMin
<1>3. \A m \in S : ~(m < n)
  BY <1>2 DEF Less
<1> QED
  BY <1>3

\* What is so before the first round, and after a round when it was so before, is so
\* after every round.
LEMMA Rounds ==
  ASSUME NEW n \in Nat, NEW Good, 0 \in Good,
         \A i \in 1 .. n : i - 1 \in Good => i \in Good
  PROVE  \A i \in 0 .. n : i \in Good
<1> DEFINE Bad == {i \in 0 .. n : i \notin Good}
<1> SUFFICES ASSUME Bad # {} PROVE FALSE
  OBVIOUS
<1>1. PICK b \in Bad : \A m \in Bad : b <= m
  <2>1. Bad \in SUBSET Nat
    OBVIOUS
  <2> HIDE DEF Bad
  <2> QED
    BY <2>1, Smallest
<1>2. b \in 1 .. n /\ b - 1 \in 0 .. n
  OBVIOUS
<1>3. b - 1 \in Good
  BY <1>1, <1>2
<1> QED
  BY <1>2, <1>3

\* The values that a loop takes: the first is given, and each round makes the next one
\* of the last.
IsLoop(g, n, S, first, Round) ==
  /\ g \in [0 .. n -> S]
  /\ g[0] = first
  /\ \A i \in 1 .. n : g[i] = Round[<<g[i - 1], i>>]

\* There are such values.
LEMMA LoopExists ==
  ASSUME NEW n \in Nat, NEW S, NEW first \in S, NEW Round \in [S \X (1 .. n) -> S]
  PROVE  \E g : IsLoop(g, n, S, first, Round)
<1> DEFINE Good == {i \in 0 .. n : \E g : IsLoop(g, i, S, first, Round)}
<1>1. 0 \in Good
  <2>1. IsLoop([i \in 0 .. 0 |-> first], 0, S, first, Round)
    BY DEF IsLoop
  <2> QED
    BY <2>1
<1>2. ASSUME NEW i \in 1 .. n, i - 1 \in Good
      PROVE  i \in Good
  <2>1. PICK g : IsLoop(g, i - 1, S, first, Round)
    BY <1>2
  <2> DEFINE h == [k \in 0 .. i |-> IF k = i THEN Round[<<g[i - 1], i>>] ELSE g[k]]
  <2>2. \A k \in 0 .. i - 1 : h[k] = g[k] /\ g[k] \in S
    BY <2>1 DEF IsLoop
  <2>3. h[i] = Round[<<g[i - 1], i>>] /\ Round[<<g[i - 1], i>>] \in S
    BY <2>2
  <2>4. h \in [0 .. i -> S]
    <3>1. \A k \in 0 .. i : k = i \/ k \in 0 .. i - 1
      OBVIOUS
    <3>2. \A k \in 0 .. i : h[k] \in S
      <4> HIDE DEF h
      <4> QED
        BY <2>2, <2>3, <3>1
    <3> QED
      BY <3>2
  <2>5. h[0] = first
    BY <2>1 DEF IsLoop
  <2>6. ASSUME NEW k \in 1 .. i PROVE h[k] = Round[<<h[k - 1], k>>]
    <3>1. h[k - 1] = g[k - 1]
      BY <2>2
    <3>2. CASE k = i
      BY <2>3, <3>1, <3>2
    <3>3. CASE k \in 1 .. i - 1
      BY <2>1, <2>2, <3>1, <3>3 DEF IsLoop
    <3> QED
      BY <3>2, <3>3
  <2> HIDE DEF h
  <2>7. IsLoop(h, i, S, first, Round)
    BY <2>4, <2>5, <2>6 DEF IsLoop
  <2> QED
    BY <2>7
<1>3. n \in Good
  <2> HIDE DEF Good
  <2> QED
    BY <1>1, <1>2, Rounds
<1> QED
  BY <1>3

\* ... and they are the only ones: a function that starts like a loop and goes on like
\* one as long as its values are what they should be has such values only.
LEMMA LoopTyped ==
  ASSUME NEW n \in Nat, NEW S, NEW first \in S, NEW Round \in [S \X (1 .. n) -> S],
         NEW f, f = [i \in 0 .. n |-> f[i]], f[0] = first,
         \A i \in 1 .. n : f[i - 1] \in S => f[i] = Round[<<f[i - 1], i>>]
  PROVE  IsLoop(f, n, S, first, Round)
<1> DEFINE Good == {i \in 0 .. n : f[i] \in S}
<1>1. 0 \in Good
  OBVIOUS
<1>2. ASSUME NEW i \in 1 .. n, i - 1 \in Good
      PROVE  i \in Good
  <2>1. f[i] = Round[<<f[i - 1], i>>] /\ <<f[i - 1], i>> \in S \X (1 .. n)
    BY <1>2
  <2>2. f[i] \in S
    BY <2>1
  <2> QED
    BY <2>2
<1>3. \A i \in 0 .. n : i \in Good
  <2> HIDE DEF Good
  <2> QED
    BY <1>1, <1>2, Rounds
<1>4. f \in [0 .. n -> S]
  BY <1>3
<1>5. \A i \in 1 .. n : i - 1 \in 0 .. n
  OBVIOUS
<1> QED
  BY <1>3, <1>4, <1>5 DEF IsLoop
=============================================================================
