------------------------------ MODULE MCWecomWS ------------------------------
(* Instances of WecomWS for TLC. *)
EXTENDS WecomWS, TLC

(* Senders and connections are interchangeable (for runs without liveness). *)
Alike == Permutations(Senders) \union Permutations(Conns)
=============================================================================
