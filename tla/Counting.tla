------------------------------- MODULE Counting -------------------------------
(***************************************************************************)
(* What the proofs use of finite sets and of the naturals, as formulas     *)
(* that their lemmas assume.  Each proof module shows them once, at its    *)
(* end, from the theorem modules of the library: everything those modules  *)
(* state would otherwise be before the provers in every step.              *)
(***************************************************************************)
EXTENDS Integers, FiniteSets

\* The sizes of finite sets: of the empty set, of a subset, with one element
\* more and with one element less.
CountingLaws ==
    /\ IsFiniteSet({}) /\ Cardinality({}) = 0
    /\ \A S : IsFiniteSet(S) =>
         /\ Cardinality(S) \in Nat
         /\ Cardinality(S) = 0 <=> S = {}
         /\ \A T \in SUBSET S : IsFiniteSet(T) /\ Cardinality(T) <= Cardinality(S)
         /\ \A x : x \notin S =>
              IsFiniteSet(S \cup {x}) /\ Cardinality(S \cup {x}) = Cardinality(S) + 1
         /\ \A x \in S : Cardinality(S \ {x}) = Cardinality(S) - 1

\* A set of naturals has a least element.
LeastLaw == \A T \in SUBSET Nat : T # {} => \E m \in T : \A n \in T : m <= n
==============================================================================
