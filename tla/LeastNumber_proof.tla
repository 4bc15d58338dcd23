------------------------- MODULE LeastNumber_proof -------------------------
(***************************************************************************)
(* What well-founded induction gives, in a form the provers can use: a set *)
(* of numbers has a least element (GROUP BY with MIN rests on it), numbers *)
(* are reached by induction, and a loop over 1 .. n computes something.    *)
(***************************************************************************)
EXTENDS Integers, WellFoundedInduction, TLAPS

\* Any non-empty set of naturals, such as the row ids of one key, has a least one.
LEMMA LeastNumber ==
  ASSUME NEW T \in SUBSET Nat, T # {}
  PROVE  \E x \in T : \A y \in T : x <= y
<1> DEFINE below == OpToRel(<, Nat)
<1>1. PICK x \in T : \A y \in T : ~ (<<y, x>> \in below)
  BY NatLessThanWellFounded, WFMin
<1>2. \A y \in Nat : y < x => <<y, x>> \in below
  BY DEF OpToRel
<1>3. ASSUME NEW y \in T PROVE ~ (y < x)
  <2>1. ~ (<<y, x>> \in below)
    BY <1>1
  <2> HIDE DEF below
  <2> QED
    BY <2>1, <1>2
<1> QED
  BY <1>3

\* Induction, for a property given as the set of the numbers that have it.
LEMMA SetInduction ==
  ASSUME NEW n \in Nat, NEW T, 0 \in T, \A i \in 1 .. n : i - 1 \in T => i \in T
  PROVE  \A i \in 0 .. n : i \in T
<1> DEFINE fails == {i \in 0 .. n : i \notin T}
<1> SUFFICES ASSUME fails # {} PROVE FALSE
  OBVIOUS
<1>1. fails \in SUBSET Nat
  OBVIOUS
<1>2. PICK i \in fails : \A j \in fails : i <= j
  <2> HIDE DEF fails
  <2> QED
    BY <1>1, LeastNumber
<1>3. i \in 1 .. n /\ i - 1 \in 0 .. n /\ i - 1 \notin fails
  BY <1>2
<1> QED
  BY <1>2, <1>3

\* Induction from all the numbers before.
LEMMA StrongInduction ==
  ASSUME NEW n \in Nat, NEW T, \A m \in 0 .. n : (\A k \in 0 .. m - 1 : k \in T) => m \in T
  PROVE  \A m \in 0 .. n : m \in T
<1> DEFINE B == {m \in 0 .. n : \A k \in 0 .. m : k \in T}
<1>1. 0 \in B
  <2>1. 0 \in T
    OBVIOUS
  <2> QED
    BY <2>1
<1>2. ASSUME NEW i \in 1 .. n, i - 1 \in B PROVE i \in B
  <2>1. \A k \in 0 .. i - 1 : k \in T
    BY <1>2
  <2>2. i \in T
    BY <2>1
  <2>3. \A k \in 0 .. i : k \in 0 .. i - 1 \/ k = i
    OBVIOUS
  <2> QED
    BY <2>1, <2>2, <2>3
<1>3. \A i \in 0 .. n : i \in B
  <2> HIDE DEF B
  <2> QED
    BY <1>1, <1>2, SetInduction
<1> QED
  BY <1>3

\* f holds the values of a loop over 1 .. n that starts with a.
LoopRuns(f, n, S, a, round) ==
  f \in [0 .. n -> S] /\ f[0] = a /\ \A i \in 1 .. n : f[i] = round[i][f[i - 1]]

\* What a loop over 1 .. n computes exists: after each round the value the round
\* makes of the one before.
LEMMA Loop ==
  ASSUME NEW n \in Nat, NEW S, NEW a \in S, NEW round \in [1 .. n -> [S -> S]]
  PROVE  \E f : LoopRuns(f, n, S, a, round)
<1> DEFINE Runs(f, m) == f \in [0 .. m -> S] /\ f[0] = a /\ \A i \in 1 .. m : f[i] = round[i][f[i - 1]]
           T == {m \in 0 .. n : \E f : Runs(f, m)}
<1>1. 0 \in T
  <2>1. Runs([k \in 0 .. 0 |-> a], 0)
    OBVIOUS
  <2>2. 0 \in 0 .. n
    OBVIOUS
  <2> HIDE DEF Runs
  <2> QED
    BY <2>1, <2>2
<1>2. ASSUME NEW m \in 1 .. n, m - 1 \in T PROVE m \in T
  <2>1. PICK f : Runs(f, m - 1)
    BY <1>2
  <2> DEFINE g == [k \in 0 .. m |-> IF k = m THEN round[m][f[m - 1]] ELSE f[k]]
  <2>2. m - 1 \in 0 .. m - 1 /\ f[m - 1] \in S /\ round[m] \in [S -> S]
    BY <2>1
  <2>3. g \in [0 .. m -> S]
    BY <2>1, <2>2
  <2>4. g[0] = a
    BY <2>1
  <2>5. ASSUME NEW i \in 1 .. m PROVE g[i] = round[i][g[i - 1]]
    BY <2>1
  <2>6. Runs(g, m)
    BY <2>3, <2>4, <2>5
  <2>7. m \in 0 .. n
    OBVIOUS
  <2> HIDE DEF Runs, g
  <2> QED
    BY <2>6, <2>7
<1> HIDE DEF T
<1>3. \A i \in 0 .. n : i \in T
  BY <1>1, <1>2, SetInduction
<1> QED
  BY <1>3 DEF T, LoopRuns

=============================================================================
