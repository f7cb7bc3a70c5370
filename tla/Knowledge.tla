----------------------------- MODULE Knowledge -----------------------------
(* The tables that models search, each with what changes and reads it, and *)
(* what is to be expected of them.                                         *)
EXTENDS Corpus, Memories, Capabilities

Next == \E p \in Calls : DocStep(p) \/ MemStep(p) \/ CapStep(p) \/ Die(p)
Spec == Init /\ [][Next]_vars

-----------------------------------------------------------------------------
(* A vector whose document or capability is gone is left only by calls     *)
(* that overlapped: the deletion takes the vectors with it, and a call     *)
(* that writes one has its row in hand.  Of a memory it always stays.      *)
Orphans == {v \in DOMAIN vecs : Of(v) \notin Live}
OrphansOnlyByRace == kind # "mem" => {Of(v) : v \in Orphans} \subseteq raced

(* A row nobody works on is found by what it says now, whatever failed     *)
(* before and was made good since: by the whole text of a capability, by   *)
(* the text of a memory or document as of the last sync, and by the title  *)
(* and heading of a document from its creation on; but for rows whose      *)
(* latest embedding failed, and those that two calls had at hand at the    *)
(* same time, or whose vector could not be read (raced).                   *)
Busy == UNION {AtHand(p) : p \in Calls}
Current(id, s) == s = rows[id] \/ s = HeadOnly
RowsAreFound ==
  \A id \in Live \ (raced \union Busy \union failed \union unsynced) :
    \E v \in VecsOf(id) : vecs[v].emb /\ Current(id, vecs[v].subject)

(* A row has one vector and a key has one row, though neither is a         *)
(* constraint of the database for capabilities; but where two calls        *)
(* overlapped or a vector could not be read.                               *)
OneOfEach ==
  /\ \A id \in Ids \ raced : Cardinality(VecsOf(id)) <= 1
  /\ \A k \in Keys \ twinned : Cardinality({id \in Live : KeyAt(id) = k}) <= 1

(* Of the places that a search has for its kind, and it has few, none is   *)
(* wasted: each vector it finds is that of a row which is there, and no    *)
(* two are of the same; but for the vectors of rows that calls had at hand *)
(* at the same time, and of memories that were forgotten, which do take    *)
(* places of memories and documents alike.                                 *)
NoPlaceWasted ==
  [][\A p \in Calls : At(p, "search", "match") /\ job'[p].at = "fetch" =>
       \A v \in job'[p].found :
         \/ Of(v) \in raced \/ (kind = "mem" /\ Of(v) \notin Live)
         \/ Of(v) \in Live /\ \A w \in job'[p].found : Of(w) = Of(v) => w = v]_vars
=============================================================================
