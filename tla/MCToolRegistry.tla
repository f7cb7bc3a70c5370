--------------------------- MODULE MCToolRegistry ---------------------------
(* An instance of ToolRegistry for TLC. *)
EXTENDS ToolRegistry

CONSTANTS s1, s2, t, fetch, k1, k2, kf

TwoServers  == {s1, s2}
OfSettings  == {s2}
SomeTools   == {t, fetch}
OneBuiltIn  == {fetch}

(* Every server's tools have keys of their own. *)
OwnKeys == {k1, k2, kf}
OwnKeyOf ==
  [st \in TwoServers \X SomeTools |->
     IF st[2] = fetch THEN kf ELSE IF st[1] = s1 THEN k1 ELSE k2]

(* One server may come to give its tool the name of a built-in one.        *)
Varying == [s \in TwoServers |-> IF s = s1 THEN {{t}, {fetch}} ELSE {{t}}]
=============================================================================
