----------------------------- MODULE HistoryLog -----------------------------
(***************************************************************************)
(* What a conversation's history promises to the chat code: one log per    *)
(* conversation, to which an answered prompt is added in a single step.    *)
(* The newest entry replaces the last one when both answer the same        *)
(* prompt, only the MaxLen newest entries are kept, and a log may be       *)
(* forgotten as a whole once its life time is over.                        *)
(***************************************************************************)
EXTENDS Naturals, Sequences, SequencesExt

CONSTANTS
  Convs,     (* conversation identifiers                                   *)
  Items,     (* history entries: records with a field user, the prompt     *)
  MaxLen     (* historyMaxLength                                           *)

VARIABLE log

SameUser(s, u) == s # <<>> /\ Last(s).user = u

Replaced(s, item) ==
  Append(IF SameUser(s, item.user) THEN Front(s) ELSE s, item)

Newest(s) == IF Len(s) > MaxLen THEN Tail(s) ELSE s

Init == log = [c \in Convs |-> <<>>]

Record(c, item) == log' = [log EXCEPT ![c] = Newest(Replaced(@, item))]

Forget(c) == log' = [log EXCEPT ![c] = <<>>]

Next == \E c \in Convs : Forget(c) \/ \E item \in Items : Record(c, item)

Spec == Init /\ [][Next]_log

(* No log is ever longer than the limit AddHistory enforces. *)
Bounded == \A c \in Convs : Len(log[c]) <= MaxLen

(* Two neighbouring entries never answer the same prompt: only the newest  *)
(* answer of a repeated prompt is kept.                                    *)
NewestAnswerOnly ==
  \A c \in Convs : \A i \in 1..(Len(log[c]) - 1) :
    log[c][i].user # log[c][i + 1].user
=============================================================================
