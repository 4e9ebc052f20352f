------------------------------- MODULE Folding -------------------------------
(***************************************************************************)
(* What folding an operation over a sequence does, step by step.  FoldLeft *)
(* is defined by a recursion over the sets of positions that are still to  *)
(* be taken; here it is shown to take the elements one after the other, so *)
(* that what each step keeps, the whole keeps.  The operation is a         *)
(* parameter of the module, which is instantiated for each operation that  *)
(* the code repeats.  The definitions are those that FoldLeft unfolds to:  *)
(* the module extends nothing but the integers, since a proof carries all  *)
(* that every instance of it brings along.                                 *)
(***************************************************************************)
EXTENDS Integers

CONSTANT Op(_, _)

(* The greatest of a set of numbers.                                       *)
Max(S) == CHOOSE x \in S : \A y \in S : x >= y

(* What the recursion in FoldLeft makes of each set of positions, and so   *)
(* of the first i elements and of all.                                     *)
Folded(base, seq) ==
    CHOOSE u : u = [t \in SUBSET (DOMAIN seq) |->
                       IF t = {} THEN base ELSE Op(u[t \ {Max(t)}], seq[Max(t)])]
FoldTo(base, seq, i) == Folded(base, seq)[1 .. i]
Fold(base, seq) == Folded(base, seq)[DOMAIN seq]

(* Induction over the positions, which a user of the theorems shows.       *)
Counting ==
    \A T \in SUBSET Nat : 0 \in T /\ (\A i \in T : i + 1 \in T) => T = Nat

-----------------------------------------------------------------------------
(* The greatest of a set of positions is the one that FoldLeft takes last. *)
LEMMA GreatestIsLast ==
    ASSUME NEW k \in Nat, NEW s \in SUBSET (1 .. k + 1), k + 1 \in s
    PROVE  Max(s) = k + 1 /\ s \ {k + 1} \in SUBSET (1 .. k)
<1>1. \A y \in s : k + 1 >= y
  OBVIOUS
<1>2. \A x \in s : (\A y \in s : x >= y) => x = k + 1
  OBVIOUS
<1>3. Max(s) = k + 1
  BY <1>1, <1>2 DEF Max
<1> QED
  BY <1>3

LEMMA LastOfAll ==
    ASSUME NEW i \in Nat
    PROVE  1 .. i + 1 # {} /\ Max(1 .. i + 1) = i + 1 /\ (1 .. i + 1) \ {i + 1} = 1 .. i
<1> DEFINE s == 1 .. i + 1
<1>1. s \in SUBSET (1 .. i + 1) /\ i + 1 \in s /\ s \ {i + 1} = 1 .. i
  OBVIOUS
<1>2. Max(s) = i + 1
  BY <1>1, GreatestIsLast
<1> QED
  BY <1>1, <1>2

(* What is folded so far, from the first element to the last.              *)
THEOREM FoldSteps ==
    ASSUME Counting, NEW base, NEW seq, NEW n \in Nat, DOMAIN seq = 1 .. n
    PROVE  /\ FoldTo(base, seq, 0) = base
           /\ \A i \in 1 .. n : FoldTo(base, seq, i) = Op(FoldTo(base, seq, i - 1), seq[i])
           /\ Fold(base, seq) = FoldTo(base, seq, n)
<1> DEFINE Step(u, t) == IF t = {} THEN base ELSE Op(u[t \ {Max(t)}], seq[Max(t)])
           Is(u, k) == u = [t \in SUBSET (1 .. k) |-> Step(u, t)]
           T == {k \in Nat : \E u : Is(u, k)}
<1>1. 0 \in T
  <2> DEFINE u == [t \in SUBSET (1 .. 0) |-> base]
  <2>1. \A t \in SUBSET (1 .. 0) : Step(u, t) = base
    OBVIOUS
  <2> HIDE DEF Step
  <2>2. Is(u, 0)
    BY <2>1
  <2> QED
    BY <2>2
<1>2. ASSUME NEW k \in T PROVE k + 1 \in T
  <2>1. k \in Nat
    OBVIOUS
  <2>2. PICK u : Is(u, k)
    OBVIOUS
  <2> DEFINE v == [t \in SUBSET (1 .. k + 1) |->
                      IF k + 1 \in t THEN Op(u[t \ {k + 1}], seq[k + 1]) ELSE u[t]]
  <2>3. ASSUME NEW t \in SUBSET (1 .. k + 1) PROVE v[t] = Step(v, t)
    <3>1. CASE k + 1 \in t
      <4>1. Max(t) = k + 1 /\ t \ {k + 1} \in SUBSET (1 .. k) /\ t # {}
        BY <2>1, <3>1, GreatestIsLast
      <4>2. t \ {k + 1} \in SUBSET (1 .. k + 1) /\ k + 1 \notin t \ {k + 1}
        OBVIOUS
      <4>3. v[t \ {k + 1}] = u[t \ {k + 1}]
        BY <4>2
      <4>4. v[t] = Op(u[t \ {k + 1}], seq[k + 1])
        BY <3>1
      <4> HIDE DEF v
      <4> QED
        BY <4>1, <4>3, <4>4
    <3>2. CASE k + 1 \notin t
      <4>1. t \in SUBSET (1 .. k)
        BY <2>1, <3>2
      <4>2. v[t] = u[t]
        BY <3>2
      <4>3. u[t] = Step(u, t)
        BY <2>2, <4>1
      <4>4. v[t \ {Max(t)}] = u[t \ {Max(t)}]
        BY <3>2
      <4> HIDE DEF v
      <4> QED
        BY <4>2, <4>3, <4>4
    <3> QED
      BY <3>1, <3>2
  <2>4. Is(v, k + 1)
    <3> DEFINE w == [t \in SUBSET (1 .. k + 1) |-> Step(v, t)]
    <3>1. \A t \in SUBSET (1 .. k + 1) : v[t] = w[t]
      BY <2>3
    <3>2. DOMAIN v = DOMAIN w
      OBVIOUS
    <3>3. v = w
      BY <3>1, <3>2
    <3> QED
      BY <3>3
  <2> HIDE DEF Is
  <2> QED
    BY <2>1, <2>4
<1> HIDE DEF T
<1>3. T = Nat
  <2>1. T \in SUBSET Nat
    BY DEF T
  <2> QED
    BY <1>1, <1>2, <2>1 DEF Counting
<1> DEFINE u == CHOOSE x : Is(x, n)
<1>4. Is(u, n)
  <2> HIDE DEF Is
  <2>1. \E x : Is(x, n)
    BY <1>3 DEF T
  <2> QED
    BY <2>1
<1>5. Folded(base, seq) = u
  BY DEF Folded
<1>6. Fold(base, seq) = u[1 .. n]
  <2>1. Fold(base, seq) = Folded(base, seq)[DOMAIN seq]
    BY DEF Fold
  <2> HIDE DEF u
  <2> QED
    BY <1>5, <2>1
<1> HIDE DEF u
<1>7. FoldTo(base, seq, 0) = base
  <2>1. 1 .. 0 = {} /\ {} \in SUBSET (1 .. n)
    OBVIOUS
  <2>2. u[{}] = base
    BY <1>4, <2>1
  <2> QED
    BY <1>5, <2>1, <2>2 DEF FoldTo
<1>8. ASSUME NEW i \in 1 .. n
      PROVE  FoldTo(base, seq, i) = Op(FoldTo(base, seq, i - 1), seq[i])
  <2>1. i - 1 \in Nat /\ (i - 1) + 1 = i
    OBVIOUS
  <2>2. 1 .. i # {} /\ Max(1 .. i) = i /\ (1 .. i) \ {i} = 1 .. i - 1
    BY <2>1, LastOfAll
  <2>3. 1 .. i \in SUBSET (1 .. n)
    OBVIOUS
  <2>4. u[1 .. i] = Step(u, 1 .. i)
    BY <1>4, <2>3
  <2>5. u[1 .. i] = Op(u[1 .. i - 1], seq[i])
    BY <2>2, <2>4
  <2> QED
    BY <1>5, <2>5 DEF FoldTo
<1>9. Fold(base, seq) = FoldTo(base, seq, n)
  BY <1>5, <1>6 DEF FoldTo
<1> QED
  BY <1>7, <1>8, <1>9

(* What the base is and every step keeps, the whole is.                    *)
THEOREM FoldKeeps ==
    ASSUME Counting, NEW base, NEW seq, NEW n \in Nat, DOMAIN seq = 1 .. n,
           NEW D, base \in D, \A x \in D : \A i \in 1 .. n : Op(x, seq[i]) \in D
    PROVE  Fold(base, seq) \in D
<1> DEFINE m(i) == FoldTo(base, seq, i)
           T == {i \in Nat : i <= n => m(i) \in D}
<1>1. /\ m(0) = base /\ \A i \in 1 .. n : m(i) = Op(m(i - 1), seq[i])
      /\ Fold(base, seq) = m(n)
  BY FoldSteps
<1> HIDE DEF m
<1>2. T \in SUBSET Nat /\ 0 \in T
  BY <1>1
<1>3. ASSUME NEW i \in T PROVE i + 1 \in T
  <2> SUFFICES ASSUME i + 1 <= n PROVE m(i + 1) \in D
    OBVIOUS
  <2>1. i + 1 \in 1 .. n /\ (i + 1) - 1 = i /\ m(i) \in D
    OBVIOUS
  <2> QED
    BY <1>1, <2>1
<1>4. n \in T
  <2> HIDE DEF T
  <2> QED
    BY <1>2, <1>3 DEF Counting
<1> QED
  BY <1>1, <1>4
=============================================================================
