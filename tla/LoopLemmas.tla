----------------------------- MODULE LoopLemmas -----------------------------
(***************************************************************************)
(* What the proofs say of loops: a set of numbers has a least one and, when *)
(* it is bounded, a greatest one; what each pass of a loop keeps holds at  *)
(* its end; and a loop whose passes map a set to itself computes a member  *)
(* of that set.                                                            *)
(***************************************************************************)
EXTENDS Naturals, WellFoundedInduction, TLAPS

(* A set of numbers has a least one.                                       *)
LEMMA LeastIn ==
  ASSUME NEW S \in SUBSET Nat, S # {}
  PROVE  \E k \in S : \A m \in S : k <= m
<1>1. PICK k \in S : \A m \in S : ~ (<<m, k>> \in OpToRel(<, Nat))
  BY NatLessThanWellFounded, WFMin, Zenon
<1>2. ASSUME NEW m \in S PROVE k <= m
  <2>1. ~(m < k) BY <1>1 DEF OpToRel
  <2>2. QED BY <2>1
<1>3. QED BY <1>2

(* A set of numbers up to n has a greatest one.                            *)
LEMMA GreatestIn ==
  ASSUME NEW n \in Nat, NEW S \in SUBSET (1 .. n), S # {}
  PROVE  \E k \in S : \A m \in S : m <= k
<1> DEFINE over == {m \in 0 .. n : \A s \in S : s <= m}
<1>1. over \in SUBSET Nat /\ n \in over OBVIOUS
<1>2. PICK k \in over : \A m \in over : k <= m
  <2> HIDE DEF over
  <2>1. QED BY <1>1, LeastIn
<1>3. k \in S
  <2>1. SUFFICES ASSUME k \notin S PROVE FALSE OBVIOUS
  <2>2. PICK s \in S : TRUE OBVIOUS
  <2>3. k >= 1 /\ k \in 0 .. n BY <2>2
  <2>4. \A t \in S : t <= k - 1 BY <2>1, <2>3
  <2>5. k - 1 \in over BY <2>3, <2>4
  <2>6. QED BY <1>2, <2>3, <2>5
<1>4. QED BY <1>3

(* What holds before a loop, and after a pass if before it, holds after    *)
(* every pass.                                                             *)
LEMMA LoopKeeps ==
  ASSUME NEW n \in Nat, NEW good, 0 \in good,
         \A i \in 1 .. n : i - 1 \in good => i \in good
  PROVE  \A i \in 0 .. n : i \in good
<1> DEFINE bad == (0 .. n) \ good
<1>1. SUFFICES ASSUME bad # {} PROVE FALSE OBVIOUS
<1>2. PICK k \in bad : \A m \in bad : k <= m
  <2>1. bad \in SUBSET Nat OBVIOUS
  <2> HIDE DEF bad
  <2>2. QED BY <1>1, <2>1, LeastIn
<1>3. k \in 1 .. n /\ k - 1 \in 0 .. n /\ ~(k <= k - 1) BY <1>2
<1>4. k - 1 \in good BY <1>2, <1>3
<1>5. QED BY <1>2, <1>3, <1>4

(* A loop of n passes, each of which maps S to S, computes a state of S.   *)
LoopStates(f, n, S, base, pass) ==
  /\ f \in [0 .. n -> S] /\ f[0] = base
  /\ \A i \in 1 .. n : f[i] = pass[i][f[i - 1]]

LEMMA LoopComputes ==
  ASSUME NEW n \in Nat, NEW S, NEW base \in S, NEW pass \in [1 .. n -> [S -> S]]
  PROVE  \E f : LoopStates(f, n, S, base, pass)
<1> DEFINE runs(f, m) == LoopStates(f, m, S, base, pass)
           good == {m \in 0 .. n : \E f : runs(f, m)}
<1>1. 0 \in good
  <2>1. runs([i \in 0 .. 0 |-> base], 0) BY DEF LoopStates
  <2> HIDE DEF runs
  <2>2. QED BY <2>1
<1>2. ASSUME NEW m \in 1 .. n, m - 1 \in good PROVE m \in good
  <2>0. PICK f : runs(f, m - 1) BY <1>2
  <2>1. /\ f \in [0 .. m - 1 -> S] /\ f[0] = base
        /\ \A i \in 1 .. m - 1 : f[i] = pass[i][f[i - 1]]
    BY <2>0 DEF LoopStates
  <2> DEFINE longer == [i \in 0 .. m |-> IF i = m THEN pass[m][f[m - 1]] ELSE f[i]]
  <2>2. f[m - 1] \in S /\ pass[m] \in [S -> S] /\ m - 1 \in 0 .. m - 1 BY <2>1
  <2>3. \A i \in 0 .. m - 1 : longer[i] = f[i] /\ f[i] \in S BY <2>1
  <2>4. longer[m] = pass[m][f[m - 1]] /\ pass[m][f[m - 1]] \in S BY <2>2
  <2>5. longer \in [0 .. m -> S]
    <3>1. \A i \in 0 .. m : longer[i] \in S
      <4> HIDE DEF longer
      <4>1. QED BY <2>3, <2>4
    <3>2. QED BY <3>1
  <2>6. longer[0] = base BY <2>1, <2>3
  <2> HIDE DEF longer
  <2>7. ASSUME NEW i \in 1 .. m PROVE longer[i] = pass[i][longer[i - 1]]
    <3>1. CASE i = m BY <2>2, <2>3, <2>4, <3>1
    <3>2. CASE i # m
      <4>1. i \in 1 .. m - 1 /\ i \in 0 .. m - 1 /\ i - 1 \in 0 .. m - 1 BY <3>2
      <4>2. QED BY <2>1, <2>3, <4>1
    <3>3. QED BY <3>1, <3>2
  <2>8. runs(longer, m) BY <2>5, <2>6, <2>7 DEF LoopStates
  <2> HIDE DEF runs
  <2>9. QED BY <2>8
<1>3. n \in good
  <2> HIDE DEF good
  <2>1. \A i \in 0 .. n : i \in good BY <1>1, <1>2, LoopKeeps
  <2>2. QED BY <2>1
<1>4. QED BY <1>3
=============================================================================
