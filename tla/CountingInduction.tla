------------------------- MODULE CountingInduction -------------------------
(***************************************************************************)
(* Induction on a natural number, stated of sets: the theorems of          *)
(* NaturalsInduction take a predicate as a parameter.  A set of            *)
(* counterexamples has a least element.                                    *)
(***************************************************************************)
EXTENDS Integers, WellFoundedInduction, TLAPS

\* A set of naturals that is not empty has a least element.
LEMMA Least ==
  ASSUME NEW S, S \subseteq Nat, S # {}
  PROVE  \E x \in S : \A y \in S : x <= y
<1>1. PICK R : R = OpToRel(<, Nat)
  OBVIOUS
<1>2. IsWellFoundedOn(R, Nat)
  BY <1>1, NatLessThanWellFounded
<1>3. PICK x \in S : \A y \in S : <<y, x>> \notin R
  BY <1>2, WFMin
<1>4. \A y \in Nat, z \in Nat : <<y, z>> \in R <=> y < z
  BY <1>1 DEF OpToRel
<1>5. \A y \in S : ~(y < x)
  BY <1>3, <1>4
<1>6. \A y \in S : x <= y
  BY <1>3, <1>5
<1> QED BY <1>3, <1>6

\* A set of naturals that has with each element but zero the one before it, and
\* not zero, is empty.
LEMMA NoCounterexample ==
  ASSUME NEW S, S \subseteq Nat, 0 \notin S, \A n \in Nat : n + 1 \in S => n \in S
  PROVE  S = {}
<1> SUFFICES ASSUME S # {} PROVE FALSE
  OBVIOUS
<1>1. PICK x \in S : \A y \in S : x <= y
  BY Least
<1>2. x \in Nat /\ x # 0
  BY <1>1
<1>3. x - 1 \in Nat /\ (x - 1) + 1 = x /\ ~(x <= x - 1)
  BY <1>2
<1>4. x - 1 \in S
  BY <1>1, <1>3
<1> QED BY <1>1, <1>3, <1>4

\* A set that has zero and with each number below m the next one has all up to m.
LEMMA UpTo ==
  ASSUME NEW S, NEW m \in Nat, 0 \in S, \A n \in 0..(m - 1) : n \in S => n + 1 \in S
  PROVE  \A n \in 0..m : n \in S
<1>1. PICK T : T = {n \in Nat : n <= m /\ n \notin S}
  OBVIOUS
<1>2. T \subseteq Nat /\ 0 \notin T
  BY <1>1
<1>3. \A n \in Nat : n + 1 \in T => n \in T
  BY <1>1
<1>4. T = {}
  BY <1>2, <1>3, NoCounterexample
<1> QED BY <1>1, <1>4
=============================================================================
