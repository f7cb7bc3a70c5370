---------------------------- MODULE MCKnowledge ----------------------------
(* An instance of Knowledge for TLC. *)
EXTENDS Knowledge

CONSTANTS p1, p2, p3, k1, k2

ThreeCalls == {p1, p2, p3}
TwoKeys    == {k1, k2}

(* k1 has a wildcard in it, and as a pattern matches k2, too.              *)
OneWildcard == [k \in TwoKeys |-> IF k = k1 THEN {k1, k2} ELSE {k2}]

(* A text with a list of sortable fields, and the same without.            *)
OneSortable == [t \in {"plain", "sortable"} |-> "plain"]

(* Files of one line, and some of two.                                     *)
SomeFiles ==
  UNION {[{k} -> {"plain", "sortable", SkipAI}] : k \in TwoKeys}
    \union {[k \in TwoKeys |-> IF k = k1 THEN t ELSE "plain"] : t \in {"sortable", SkipAI}}

Symmetry    == Permutations(ThreeCalls)
=============================================================================
