-------------------------------- MODULE Loops --------------------------------
(***************************************************************************)
(* Invariants of loops.  Iterate and Select of Resolver and FoldLeft of    *)
(* SequencesExt take operators as arguments, so what they keep is stated   *)
(* of their recursion, for a Step(state, turn, x) and an invariant         *)
(* Keeps(state, turns done, x) that a module fills in with INSTANCE; x     *)
(* stands for whatever else the loop mentions.                             *)
(***************************************************************************)
EXTENDS Integers, NaturalsInduction, WellFoundedInduction, TLAPS

CONSTANTS Step(_, _, _), Keeps(_, _, _)

(* A set of numbers that is not empty has a least one.                     *)
LEMMA LeastNumber ==
  ASSUME NEW S \in SUBSET Nat, S # {}
  PROVE  \E n \in S : \A i \in S : n <= i
<1> DEFINE less == OpToRel(<, Nat)
<1>1. IsWellFoundedOn(less, Nat)
  BY NatLessThanWellFounded
<1>2. \A i, n \in Nat : <<i, n>> \notin less => n <= i
  BY DEF OpToRel
<1> HIDE DEF less
<1>3. PICK n \in S : \A i \in S : <<i, n>> \notin less
  BY <1>1, WFMin
<1> QED BY <1>2, <1>3

(* What holds at first and is passed on from one number to the next holds  *)
(* of all: truth[k] says whether it holds of k.                            *)
LEMMA AllNumbers ==
  ASSUME NEW n \in Nat, NEW truth, 0 \in truth,
         \A k \in 1 .. n : k - 1 \in truth => k \in truth
  PROVE  n \in truth
<1> SUFFICES ASSUME n \notin truth PROVE FALSE
  OBVIOUS
<1> DEFINE Bad == {k \in 0 .. n : k \notin truth}
<1>1. Bad \in SUBSET Nat /\ Bad # {}
  OBVIOUS
<1>2. PICK k \in Bad : \A i \in Bad : k <= i
  BY <1>1, LeastNumber
<1>3. k \in 1 .. n /\ k - 1 \in 0 .. n
  BY <1>2
<1>4. k - 1 \in truth
  BY <1>2, <1>3
<1> QED BY <1>2, <1>3, <1>4

-----------------------------------------------------------------------------
(* A loop over the numbers: Iterate, and Select, which is one.             *)

Turns(s, n, x) ==
  LET after[k \in 0 .. n] == IF k = 0 THEN s ELSE Step(after[k - 1], k, x) IN after

(* There is a function with the loop's recursion.                          *)
LEMMA TurnsDefined ==
  ASSUME NEW s, NEW n \in Nat, NEW x
  PROVE  \E g : g = [k \in 0 .. n |-> IF k = 0 THEN s ELSE Step(g[k - 1], k, x)]
<1> DEFINE Starts(m) == \E g : g = [k \in 0 .. m |-> IF k = 0 THEN s ELSE Step(g[k - 1], k, x)]
           truth == {m \in 0 .. n : Starts(m)}
<1>1. Starts(0)
  <2> DEFINE g == [k \in 0 .. 0 |-> s]
  <2>1. g = [k \in 0 .. 0 |-> IF k = 0 THEN s ELSE Step(g[k - 1], k, x)]
    OBVIOUS
  <2> QED BY <2>1
<1>2. ASSUME NEW m \in 1 .. n, Starts(m - 1) PROVE Starts(m)
  <2>1. PICK g : g = [k \in 0 .. m - 1 |-> IF k = 0 THEN s ELSE Step(g[k - 1], k, x)]
    BY <1>2
  <2> DEFINE h == [k \in 0 .. m |-> IF k = m THEN Step(g[m - 1], m, x) ELSE g[k]]
  <2>2. \A k \in 0 .. m - 1 : h[k] = g[k]
    OBVIOUS
  <2>3. \A k \in 0 .. m : h[k] = IF k = 0 THEN s ELSE Step(h[k - 1], k, x)
    <3> TAKE k \in 0 .. m
    <3>1. CASE k = m
      <4>1. h[k] = Step(g[m - 1], m, x) /\ k # 0 /\ k - 1 \in 0 .. m - 1
        BY <3>1
      <4> QED BY <4>1, <3>1, <2>2
    <3>2. CASE k # m
      <4>1. k \in 0 .. m - 1 /\ (k # 0 => k - 1 \in 0 .. m - 1)
        BY <3>2
      <4>2. g[k] = IF k = 0 THEN s ELSE Step(g[k - 1], k, x)
        BY <4>1, <2>1
      <4> QED BY <4>1, <4>2, <2>2
    <3> QED BY <3>1, <3>2
  <2>4. h = [k \in 0 .. m |-> IF k = 0 THEN s ELSE Step(h[k - 1], k, x)]
    BY <2>3
  <2> HIDE DEF h
  <2> QED BY <2>4
<1> HIDE DEF Starts
<1>3. 0 \in truth /\ \A k \in 1 .. n : k - 1 \in truth => k \in truth
  BY <1>1, <1>2
<1>4. n \in truth
  BY <1>3, AllNumbers
<1> QED BY <1>4 DEF Starts

(* What every turn keeps, the loop keeps.                                  *)
LEMMA LoopKeeps ==
  \A x, s, n :
    /\ n \in Nat /\ Keeps(s, 0, x)
    /\ \A k \in 1 .. n : \A t : Keeps(t, k - 1, x) => Keeps(Step(t, k, x), k, x)
    => Keeps(LET after[k \in 0 .. n] == IF k = 0 THEN s ELSE Step(after[k - 1], k, x)
             IN after[n], n, x)
<1> SUFFICES ASSUME NEW x, NEW s, NEW n \in Nat, Keeps(s, 0, x),
                    \A k \in 1 .. n : \A t : Keeps(t, k - 1, x) => Keeps(Step(t, k, x), k, x)
             PROVE  Keeps(Turns(s, n, x)[n], n, x)
  BY DEF Turns
<1> DEFINE after == Turns(s, n, x)
           truth == {k \in 0 .. n : Keeps(after[k], k, x)}
<1>1. after = [k \in 0 .. n |-> IF k = 0 THEN s ELSE Step(after[k - 1], k, x)]
  BY TurnsDefined DEF Turns
<1> HIDE DEF after
<1>2. 0 \in truth
  BY <1>1
<1>3. ASSUME NEW k \in 1 .. n, k - 1 \in truth PROVE k \in truth
  <2>1. after[k] = Step(after[k - 1], k, x)
    BY <1>1
  <2> QED BY <2>1, <1>3
<1> HIDE DEF truth
<1>4. n \in truth
  BY <1>2, <1>3, AllNumbers
<1> QED BY <1>4 DEF truth, after

-----------------------------------------------------------------------------
(* A fold: FoldLeft takes the elements of 1..n from the least to the       *)
(* greatest, and is defined by the sets they make up.                      *)
Greatest(S) == CHOOSE i \in S : \A j \in S : i >= j

Folded(s, n, x) ==
  LET iter[S \in SUBSET (1 .. n)] ==
        IF S = {} THEN s ELSE LET i == Greatest(S) IN Step(iter[S \ {i}], i, x)
  IN iter

(* m is the greatest of the numbers up to m.                               *)
LEMMA GreatestOf ==
  ASSUME NEW m \in Nat, NEW S \in SUBSET (1 .. m), m \in S
  PROVE  Greatest(S) = m
<1>1. \A j \in S : m >= j
  OBVIOUS
<1>2. \A i \in S : (\A j \in S : i >= j) <=> i = m
  BY <1>1
<1>3. Greatest(S) \in S /\ \A j \in S : Greatest(S) >= j
  BY <1>1 DEF Greatest
<1> QED BY <1>2, <1>3

(* There is a function with the fold's recursion.                          *)
LEMMA FoldDefined ==
  ASSUME NEW s, NEW n \in Nat, NEW x
  PROVE  LET iter == Folded(s, n, x) IN
         \A S \in SUBSET (1 .. n) : iter[S] =
           IF S = {} THEN s ELSE Step(iter[S \ {Greatest(S)}], Greatest(S), x)
<1> DEFINE Turn(g, S) == IF S = {} THEN s ELSE Step(g[S \ {Greatest(S)}], Greatest(S), x)
           Starts(m) == \E g : g = [S \in SUBSET (1 .. m) |-> Turn(g, S)]
           truth == {m \in 0 .. n : Starts(m)}
<1>1. Starts(0)
  <2> DEFINE g == [S \in SUBSET (1 .. 0) |-> s]
  <2>1. \A S \in SUBSET (1 .. 0) : S = {}
    OBVIOUS
  <2>2. g = [S \in SUBSET (1 .. 0) |-> Turn(g, S)]
    BY <2>1
  <2> QED BY <2>2
<1>2. ASSUME NEW m \in 1 .. n, Starts(m - 1) PROVE Starts(m)
  <2>1. PICK g : g = [S \in SUBSET (1 .. m - 1) |-> Turn(g, S)]
    BY <1>2
  <2> DEFINE h == [S \in SUBSET (1 .. m) |-> IF m \in S THEN Step(g[S \ {m}], m, x) ELSE g[S]]
  <2>2. \A S \in SUBSET (1 .. m - 1) : h[S] = g[S]
    <3> TAKE S \in SUBSET (1 .. m - 1)
    <3>1. S \in SUBSET (1 .. m) /\ m \notin S
      OBVIOUS
    <3> QED BY <3>1
  <2>3. ASSUME NEW S \in SUBSET (1 .. m) PROVE h[S] = Turn(h, S)
    <3>1. CASE m \in S
      <4>1. h[S] = Step(g[S \ {m}], m, x)
        BY <3>1
      <4>2. S \ {m} \in SUBSET (1 .. m - 1)
        OBVIOUS
      <4>3. Greatest(S) = m
        BY <3>1, GreatestOf
      <4> HIDE DEF h
      <4> QED BY <4>1, <4>2, <4>3, <3>1, <2>2
    <3>2. CASE m \notin S
      <4>1. S \in SUBSET (1 .. m - 1) /\ S \ {Greatest(S)} \in SUBSET (1 .. m - 1)
        <5>1. \A j \in S : j \in 1 .. m - 1
          BY <3>2
        <5> QED BY <5>1, Zenon
      <4>2. g[S] = Turn(g, S)
        BY <4>1, <2>1
      <4>3. h[S] = g[S] /\ h[S \ {Greatest(S)}] = g[S \ {Greatest(S)}]
        BY <4>1, <2>2
      <4> HIDE DEF h
      <4> QED BY <4>2, <4>3
    <3> QED BY <3>1, <3>2
  <2>4. h = [S \in SUBSET (1 .. m) |-> h[S]]
    OBVIOUS
  <2> HIDE DEF h
  <2>5. h = [S \in SUBSET (1 .. m) |-> Turn(h, S)]
    BY <2>3, <2>4
  <2> QED BY <2>5
<1> HIDE DEF Starts
<1>3. 0 \in truth /\ \A m \in 1 .. n : m - 1 \in truth => m \in truth
  BY <1>1, <1>2
<1> HIDE DEF truth
<1>4. n \in truth
  BY <1>3, AllNumbers
<1>5. \E g : g = [S \in SUBSET (1 .. n) |-> Turn(g, S)]
  BY <1>4 DEF Starts, truth
<1> DEFINE iter == Folded(s, n, x)
<1>6. iter = [S \in SUBSET (1 .. n) |-> Turn(iter, S)]
  BY <1>5, Zenon DEF Folded
<1> HIDE DEF iter
<1>7. \A S \in SUBSET (1 .. n) : iter[S] = Turn(iter, S)
  BY <1>6
<1> QED BY <1>7 DEF iter

(* What every element keeps, the fold keeps.                               *)
LEMMA FoldKeeps ==
  \A x, s, n :
    /\ n \in Nat /\ Keeps(s, 0, x)
    /\ \A k \in 1 .. n : \A t : Keeps(t, k - 1, x) => Keeps(Step(t, k, x), k, x)
    => Keeps(LET iter[S \in SUBSET (1 .. n)] ==
                   IF S = {} THEN s
                   ELSE LET i == CHOOSE i \in S : \A j \in S : i >= j
                        IN Step(iter[S \ {i}], i, x)
             IN iter[1 .. n], n, x)
<1> SUFFICES ASSUME NEW x, NEW s, NEW n \in Nat, Keeps(s, 0, x),
                    \A k \in 1 .. n : \A t : Keeps(t, k - 1, x) => Keeps(Step(t, k, x), k, x)
             PROVE  Keeps(Folded(s, n, x)[1 .. n], n, x)
  BY DEF Folded, Greatest
<1> DEFINE iter == Folded(s, n, x)
           truth == {k \in 0 .. n : Keeps(iter[1 .. k], k, x)}
<1>1. \A S \in SUBSET (1 .. n) : iter[S] =
        IF S = {} THEN s ELSE Step(iter[S \ {Greatest(S)}], Greatest(S), x)
  BY FoldDefined
<1> HIDE DEF iter
<1>2. 0 \in truth
  <2>1. 1 .. 0 = {} /\ 1 .. 0 \in SUBSET (1 .. n)
    OBVIOUS
  <2>2. iter[1 .. 0] = s
    BY <2>1, <1>1
  <2> QED BY <2>2
<1>3. ASSUME NEW k \in 1 .. n, k - 1 \in truth PROVE k \in truth
  <2>1. 1 .. k \in SUBSET (1 .. n) /\ 1 .. k # {} /\ (1 .. k) \ {k} = 1 .. k - 1
    OBVIOUS
  <2>2. Greatest(1 .. k) = k
    <3>1. k \in 1 .. k /\ k \in Nat /\ 1 .. k \in SUBSET (1 .. k)
      OBVIOUS
    <3> QED BY <3>1, GreatestOf
  <2>3. iter[1 .. k] = Step(iter[1 .. k - 1], k, x)
    BY <2>1, <2>2, <1>1
  <2> QED BY <2>3, <1>3
<1> HIDE DEF truth
<1>4. n \in truth
  BY <1>2, <1>3, AllNumbers
<1> QED BY <1>4 DEF truth, iter
=============================================================================
