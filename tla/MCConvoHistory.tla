--------------------------- MODULE MCConvoHistory ---------------------------
(* Instances of ConvoHistory for TLC. *)
EXTENDS ConvoHistory, TLC

CONSTANTS k1, a, b

OneKey == {k1}
OnePrompt == {a}
TwoPrompts == {a, b}

(* Session keys and prompts are only compared for equality. *)
KeysAndPrompts == Permutations(Keys) \union Permutations(Prompts)
=============================================================================
