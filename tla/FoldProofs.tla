------------------------------ MODULE FoldProofs ------------------------------
(***************************************************************************)
(* Folds over sequences by induction.  The provers cannot instantiate an   *)
(* induction rule with an operator, so the operator of the fold is a       *)
(* parameter of this module: a module that needs the rule for its operator *)
(* takes an instance.  c stands for the context of a fold, which does not  *)
(* change while it runs.                                                   *)
(***************************************************************************)
EXTENDS Integers, SequencesExt, WellFoundedInduction, TLAPS

CONSTANT Op(_, _, _)

Fold(c, base, seq) == FoldLeft(LAMBDA x, e : Op(c, x, e), base, seq)

\* A nonempty set of natural numbers has a least element.
LEMMA LeastElement ==
    ASSUME NEW S, S \subseteq Nat, S # {}
    PROVE  \E x \in S : \A y \in S : x <= y
<1> DEFINE R == OpToRel(<, Nat)
<1>1. IsWellFoundedOn(R, Nat)
  BY NatLessThanWellFounded
<1> HIDE DEF R
<1>2. PICK x \in S : \A y \in S : ~(<<y, x>> \in R)
  BY <1>1, WFMin
<1>3. \A y \in S : x <= y
  <2> TAKE y \in S
  <2>1. x \in Nat /\ y \in Nat
    OBVIOUS
  <2>2. y < x => <<y, x>> \in R
    <3>1. R = {ss \in Nat \X Nat : ss[1] < ss[2]}
      BY DEF R, OpToRel
    <3> QED BY <2>1, <3>1
  <2> QED BY <1>2, <2>1, <2>2
<1> QED BY <1>3

\* A set that is closed under successor up to n holds every number up to n.
LEMMA Induction ==
    ASSUME NEW n \in Nat, NEW A, 0 \in A, \A k \in 1 .. n : k - 1 \in A => k \in A
    PROVE  \A k \in 0 .. n : k \in A
<1> DEFINE B == {k \in 0 .. n : k \notin A}
<1> SUFFICES ASSUME B # {} PROVE FALSE
  OBVIOUS
<1>1. B \subseteq Nat
  OBVIOUS
<1>2. PICK x \in B : \A y \in B : x <= y
  BY <1>1, LeastElement
<1>3. x \in 1 .. n /\ x \notin A
  BY <1>2
<1>4. x - 1 \in 0 .. n /\ x - 1 \notin B
  BY <1>2, <1>3
<1> QED BY <1>3, <1>4

\* The set of the first j numbers, by its last one.
LEMMA LastOfSubset ==
    ASSUME NEW j \in Nat \ {0}, NEW s, s \subseteq 1 .. j
    PROVE  /\ j \in s => Max(s) = j /\ s \ {j} \subseteq 1 .. j - 1
           /\ j \notin s => s \subseteq 1 .. j - 1
<1>1. ASSUME j \in s PROVE Max(s) = j
  <2>1. \A x \in s : x \in Nat /\ x <= j
    OBVIOUS
  <2>2. \A x \in s : (\A y \in s : x >= y) => x = j
    BY <1>1, <2>1
  <2>3. \A y \in s : j >= y
    BY <2>1
  <2> QED BY <1>1, <2>2, <2>3 DEF Max
<1> QED BY <1>1

\* f is the function that FoldLeft defines by recursion, for the subsets of the
\* first j places.
Folds(f, c, base, seq, j) ==
    f = [s \in SUBSET (1 .. j) |->
            IF s = {} THEN base ELSE Op(c, f[s \ {Max(s)}], seq[Max(s)])]

\* The fold of the community modules exists, by induction over the length.
LEMMA FoldExists ==
    ASSUME NEW c, NEW base, NEW seq, NEW n \in Nat
    PROVE  \E f : Folds(f, c, base, seq, n)
<1> DEFINE A == {j \in 0 .. n : \E f : Folds(f, c, base, seq, j)}
<1>1. 0 \in A
  <2> DEFINE f == [s \in SUBSET (1 .. 0) |-> base]
  <2>1. SUBSET (1 .. 0) = {{}}
    OBVIOUS
  <2>2. f = [s \in SUBSET (1 .. 0) |->
                IF s = {} THEN base ELSE Op(c, f[s \ {Max(s)}], seq[Max(s)])]
    BY <2>1
  <2> HIDE DEF f
  <2>3. Folds(f, c, base, seq, 0)
    BY <2>2 DEF Folds
  <2> QED BY <2>3
<1>2. ASSUME NEW j \in 1 .. n, j - 1 \in A PROVE j \in A
  <2>1. PICK g : Folds(g, c, base, seq, j - 1)
    BY <1>2
  <2>2. ASSUME NEW s \in SUBSET (1 .. j - 1), s # {}
        PROVE  g[s] = Op(c, g[s \ {Max(s)}], seq[Max(s)])
    BY <2>1, <2>2 DEF Folds
  <2>3. g[{}] = base
    BY <2>1 DEF Folds
  <2> DEFINE f == [s \in SUBSET (1 .. j) |->
                      IF j \in s THEN Op(c, g[s \ {j}], seq[j]) ELSE g[s]]
  <2>4. ASSUME NEW s \in SUBSET (1 .. j)
        PROVE  f[s] = IF s = {} THEN base ELSE Op(c, f[s \ {Max(s)}], seq[Max(s)])
    <3>1. CASE j \in s
      <4>1. Max(s) = j /\ s \ {j} \in SUBSET (1 .. j)
        <5>1. j \in Nat \ {0} /\ s \subseteq 1 .. j
          OBVIOUS
        <5> HIDE DEF f
        <5> QED BY <3>1, <5>1, LastOfSubset
      <4>2. f[s \ {j}] = g[s \ {j}]
        BY <4>1
      <4>3. f[s] = Op(c, g[s \ {j}], seq[j]) /\ s # {}
        BY <3>1
      <4> HIDE DEF f
      <4> QED BY <4>1, <4>2, <4>3
    <3>2. CASE j \notin s /\ s # {}
      <4>1. s \in SUBSET (1 .. j - 1)
        BY <3>2, LastOfSubset
      <4>2. s \ {Max(s)} \in SUBSET (1 .. j) /\ j \notin s \ {Max(s)}
        BY <3>2
      <4>3. f[s] = g[s] /\ f[s \ {Max(s)}] = g[s \ {Max(s)}]
        BY <3>2, <4>2
      <4> HIDE DEF f
      <4> QED BY <2>2, <3>2, <4>1, <4>3
    <3>3. CASE s = {}
      BY <2>3, <3>3
    <3> QED BY <3>1, <3>2, <3>3
  <2>5. f = [s \in SUBSET (1 .. j) |-> f[s]]
    OBVIOUS
  <2> HIDE DEF f
  <2>6. Folds(f, c, base, seq, j)
    BY <2>4, <2>5 DEF Folds
  <2> QED BY <2>6
<1> HIDE DEF A
<1>3. n \in A
  BY <1>1, <1>2, Induction
<1> QED BY <1>3 DEF A

\* The rule: if base is in S[0], and element k of seq leads from S[k - 1] to S[k],
\* the fold ends in the last one.
LEMMA FoldRule ==
    ASSUME NEW c, NEW base, NEW n \in Nat, NEW seq, DOMAIN seq = 1 .. n,
           NEW S, base \in S[0],
           \A k \in 1 .. n : \A x \in S[k - 1] : Op(c, x, seq[k]) \in S[k]
    PROVE  Fold(c, base, seq) \in S[n]
<1> DEFINE iter == CHOOSE f : Folds(f, c, base, seq, n)
<1>1. Folds(iter, c, base, seq, n)
  BY FoldExists
<1>2. Fold(c, base, seq) = iter[1 .. n]
  BY DEF Fold, FoldLeft, MapThenFoldSet, Folds
<1> HIDE DEF iter
<1> DEFINE A == {k \in 0 .. n : iter[1 .. k] \in S[k]}
<1>3. 0 \in A
  <2>1. 1 .. 0 = {} /\ {} \in SUBSET (1 .. n)
    OBVIOUS
  <2>2. iter[1 .. 0] = base
    BY <1>1, <2>1 DEF Folds
  <2> QED BY <2>2
<1>4. ASSUME NEW k \in 1 .. n, k - 1 \in A PROVE k \in A
  <2>1. 1 .. k \in SUBSET (1 .. n) /\ 1 .. k # {} /\ (1 .. k) \ {k} = 1 .. k - 1
    OBVIOUS
  <2>2. Max(1 .. k) = k
    BY LastOfSubset
  <2>3. iter[1 .. k] = Op(c, iter[1 .. k - 1], seq[k])
    BY <1>1, <2>1, <2>2 DEF Folds
  <2> QED BY <1>4, <2>3
<1> HIDE DEF A
<1>5. n \in A
  BY <1>3, <1>4, Induction
<1> QED BY <1>2, <1>5 DEF A
=============================================================================
