----------------------------- MODULE MCDelivery -----------------------------
(* An instance of Delivery for TLC: the platform tries three times with a  *)
(* message, so that two attempts wait for the mutex the third one holds.   *)
EXTENDS Delivery

ThreeTimes == [m \in Messages |-> 3]
=============================================================================
