------------------------------ MODULE ReplyLife ------------------------------
(***************************************************************************)
(* What a platform with streaming replies is promised for one message: one *)
(* reply bubble, opened once, rewritten only while it is open, closed once *)
(* with its final text; the history may keep the final text afterwards,    *)
(* never anything else.  A bubble whose closing fails is lost: nobody      *)
(* knows what it shows.                                                    *)
(***************************************************************************)
CONSTANTS
  Texts,     (* what the model may have said                               *)
  Thinking,  (* the text a bubble is opened with                           *)
  Apology,   (* the text that reports an error                             *)
  NoText     (* the empty text                                             *)

VARIABLES
  bubble,    (* "none", "open", "closed" or "lost"                         *)
  shown,     (* the text in the bubble                                     *)
  saved      (* the answer in the history, NoText before it is saved       *)

Init == bubble = "none" /\ shown = NoText /\ saved = NoText

Open ==
  /\ bubble = "none"
  /\ bubble' = "open" /\ shown' = Thinking
  /\ UNCHANGED saved

Rewrite(t) ==
  /\ bubble = "open"
  /\ shown' = t
  /\ UNCHANGED <<bubble, saved>>

Close(t) ==
  /\ bubble = "open"
  /\ bubble' = "closed" /\ shown' = t
  /\ UNCHANGED saved

Lose ==
  /\ bubble = "open"
  /\ bubble' = "lost"
  /\ UNCHANGED <<shown, saved>>

Remember(t) ==
  /\ bubble \in {"closed", "lost"}
  /\ bubble = "closed" => t = shown
  /\ saved = NoText
  /\ saved' = t
  /\ UNCHANGED <<bubble, shown>>

Next ==
  \/ Open
  \/ Lose
  \/ \E t \in Texts : Rewrite(t) \/ Remember(t)
  \/ \E t \in Texts \union {NoText, Apology} : Close(t)

Spec == Init /\ [][Next]_<<bubble, shown, saved>>
=============================================================================
