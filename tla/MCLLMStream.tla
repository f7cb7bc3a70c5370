----------------------------- MODULE MCLLMStream -----------------------------
(* Instances of LLMStream for TLC: two pieces of each kind, two calls of two *)
(* fragments, and a channel of two places, which fills and empties.          *)
EXTENDS LLMStream

SmallCap       == 2
SmallPieces    == 2
SmallCalls     == 2
SmallFragments == 2
=============================================================================
