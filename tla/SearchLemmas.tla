----------------------------- MODULE SearchLemmas -----------------------------
(***************************************************************************)
(* What the searches of SequencesExt find.  Their test is an operator,     *)
(* which the provers cannot instantiate, so the facts are stated of the    *)
(* set of places where the test holds.                                     *)
(***************************************************************************)
EXTENDS SequencesExt, Integers, WellFoundedInduction, TLAPS

\* Every nonempty set of natural numbers has a least element.
LEMMA LeastNumber ==
    ASSUME NEW T \in SUBSET Nat, T # {}
    PROVE  \E x \in T : \A y \in T : x <= y
<1>1. IsWellFoundedOn(OpToRel(<, Nat), Nat)
  BY NatLessThanWellFounded
<1>2. PICK x \in T : \A y \in T : <<y, x>> \notin OpToRel(<, Nat)
  BY <1>1, WFMin
<1>3. ASSUME NEW y \in T PROVE x <= y
  <2>1. <<y, x>> \notin {ss \in Nat \X Nat : ss[1] < ss[2]}
    BY <1>2 DEF OpToRel
  <2> QED
    BY <2>1
<1> QED
  BY <1>3

\* What holds of the first place and is passed on from each place to the next
\* holds of all: P is the set of the places it holds of.
LEMMA Upwards ==
    ASSUME NEW N \in Nat, NEW P, 0 \in P, \A k \in 1..N : k - 1 \in P => k \in P
    PROVE  0..N \subseteq P
<1> DEFINE Rest == (0..N) \ P
<1>1. SUFFICES ASSUME Rest # {} PROVE FALSE
  OBVIOUS
<1>2. Rest \in SUBSET Nat
  OBVIOUS
<1> HIDE DEF Rest
<1>3. PICK k \in Rest : \A j \in Rest : k <= j
  BY <1>1, <1>2, LeastNumber
<1>4. k \in 0..N /\ k \notin P
  BY DEF Rest
<1>5. k \in 1..N /\ k - 1 \in 0..N /\ ~(k <= k - 1)
  BY <1>4
<1>6. k - 1 \in P
  BY <1>3, <1>5 DEF Rest
<1> QED
  BY <1>4, <1>5, <1>6

\* Min of a nonempty set of places is the first.
LEMMA FirstPlace ==
    ASSUME NEW n \in Nat, NEW I \in SUBSET (1..n), I # {}
    PROVE  Min(I) \in I /\ \A i \in I : Min(I) <= i
<1>1. I \in SUBSET Nat
  OBVIOUS
<1> QED
  BY <1>1, LeastNumber DEF Min

\* Max of a nonempty set of places is the last.
LEMMA LastPlace ==
    ASSUME NEW n \in Nat, NEW I \in SUBSET (1..n), I # {}
    PROVE  Max(I) \in I /\ \A i \in I : i <= Max(I)
<1> DEFINE FromEnd == {n - i : i \in I}
<1>1. FromEnd \in SUBSET Nat /\ FromEnd # {}
  <2>1. \A i \in I : n - i \in Nat
    OBVIOUS
  <2>2. PICK i \in I : TRUE
    OBVIOUS
  <2> QED
    BY <2>1, <2>2
<1>2. PICK d \in FromEnd : \A e \in FromEnd : d <= e
  BY <1>1, LeastNumber
<1>3. PICK x \in I : d = n - x
  OBVIOUS
<1>4. \A i \in I : n - x <= n - i
  BY <1>2, <1>3
<1>5. \A i \in I : i <= x
  BY <1>4
<1> QED
  BY <1>5 DEF Max
===============================================================================
