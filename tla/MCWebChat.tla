----------------------------- MODULE MCWebChat -----------------------------
(* An instance of WebChat for TLC: a stream, and a request of another kind.  *)
EXTENDS WebChat

AnyBesideAStream ==
  [p \in Requests |-> IF p = "r1" THEN {"stream"}
                      ELSE {"whole", "channel", "title", "delete"}]

TwoThenOne == [p \in Requests |-> IF p = "r1" THEN 2 ELSE 1]
=============================================================================
