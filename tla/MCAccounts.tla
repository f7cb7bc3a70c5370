----------------------------- MODULE MCAccounts -----------------------------
(* An instance of Accounts for TLC: two users with a token each, and a     *)
(* browser that may have both, one of them in its cookie.                  *)
EXTENDS Accounts, TLC

CONSTANTS r1, r2, r3

ThreeRequests == {r1, r2, r3}
OneEach       == [t \in {"t1", "t2"} |-> IF t = "t1" THEN "a" ELSE "b"]
Symmetry      == Permutations(ThreeRequests)
=============================================================================
