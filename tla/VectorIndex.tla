---------------------------- MODULE VectorIndex ----------------------------
(***************************************************************************)
(* What the three searchable tables share (pkg/services/stores): a row of  *)
(* corpus_document, convo_memory or api_capability, and beside it, not     *)
(* tied to it by the database, the vector of its subject.  Those of        *)
(* documents and memories are in one table; as ids are never given twice,  *)
(* what reads or writes it by the id of a row sees its own kind only, and  *)
(* a behaviour is about one kind.  What sees both is the search: Match.    *)
(* The text of a row is an atom; a vector is known by the text it was made *)
(* from and by whether the embedding had a value at all.                   *)
(*                                                                         *)
(* A call is one invocation of a tool or of a command line, a process or a *)
(* goroutine of its own: it does one thing to one row after the other, and *)
(* between two statements on the database others run.  Every statement and *)
(* every call of a model may fail, and a call may die at any point.        *)
(***************************************************************************)
EXTENDS Naturals, FiniteSets, TLC

CONSTANTS
  Kinds,      (* which of the tables: "doc", "mem", "cap"                   *)
  Calls,      (* the calls, each made once                                  *)
  Keys,       (* title and heading; key of a memory; method and endpoint    *)
  Texts,      (* content; what describes a capability                       *)
  Like,       (* the keys a key matches as a pattern of ILIKE               *)
  Stripped,   (* the text without what EnrichSortableFields cuts out of it  *)
  None,       (* a value of its own                                         *)
  Limit,      (* MatchSpec.Limit                                            *)
  Files,      (* what a file may hold: at most one line of a key            *)
  MaxBusy     (* bound: calls under way at a time                           *)

ASSUME IndexAssumption ==
  /\ Kinds \subseteq {"doc", "mem", "cap"}
  /\ Like \in [Keys -> SUBSET Keys] /\ \A k \in Keys : k \in Like[k]
  /\ Stripped \in [Texts -> Texts]
  /\ Limit \in Nat \ {0} /\ MaxBusy \in Nat

HeadOnly == "head"   (* the subject of a new document: title and heading    *)
SkipAI   == "skipai" (* a line tagged so is to be removed                   *)

ASSUME FilesAssumption ==
  Files \subseteq UNION {[ks -> Texts \union {SkipAI}] : ks \in SUBSET Keys}

(* A row is known by its key and by the call that created it.              *)
Ids  == Keys \X Calls
Vids == Ids \X Calls
KeyAt(id) == id[1]
Of(vid)   == vid[1]

ASSUME NoneAssumption ==
  None \notin Ids \union Vids \union {"import", "sync"}

VARIABLES
  kind,      (* the table of this behaviour                                 *)
  rows,      (* the rows: a function from their ids to their texts          *)
  vecs,      (* the vectors: from their ids to subject and embedding        *)
  job,       (* per call: where it is and what it has at hand               *)
  (* History variables, read by the properties only:                        *)
  raced,     (* ids that two calls had at hand at the same time, or whose   *)
             (* vector a call failed to read and took for missing           *)
  twinned,   (* keys that two calls looked for and both were about to make  *)
  failed,    (* ids whose latest embedding or vector was not to be had      *)
  unsynced   (* documents and memories given a new text since the last sync *)

ghosts == <<raced, twinned, failed, unsynced>>
vars   == <<kind, rows, vecs, job, ghosts>>

Live       == DOMAIN rows
VecsOf(id) == {v \in DOMAIN vecs : Of(v) = id}
Without(f, ks) == [x \in DOMAIN f \ ks |-> f[x]]
With(f, y, new) == [x \in DOMAIN f \union {y} |-> IF x = y THEN new ELSE f[x]]

Fresh == [at |-> "idle", task |-> None, lines |-> <<>>, key |-> None, text |-> None,
          id |-> None, vec |-> None, emb |-> FALSE, found |-> {}]
At(p, task, point) == job[p].task = task /\ job[p].at = point
Goto(p, r)       == job' = [job EXCEPT ![p] = r]
NextLine(p)      == Goto(p, [Fresh EXCEPT !.at = "line", !.task = job[p].task,
                                          !.lines = job[p].lines])
Done(p)          == Goto(p, [Fresh EXCEPT !.at = "done"])
UnderWay         == {p \in Calls : job[p].at \notin {"idle", "done"}}
Start(p, r)      == /\ job[p].at = "idle" /\ Cardinality(UnderWay) < MaxBusy
                    /\ Goto(p, r)

(* The next line of a file, if there is one.                               *)
Advance(p) == IF job[p].lines = <<>> THEN Done(p) ELSE NextLine(p)

(* The next row of a sync.                                                 *)
SyncNext(p) ==
  LET rest == Without(job[p].lines, {job[p].id}) IN
  IF rest = <<>> THEN Done(p)
  ELSE Goto(p, [Fresh EXCEPT !.at = "embed", !.task = "sync", !.lines = rest])

(* The rows a call has at hand: the one it works on, those it listed.      *)
Listed(p) == IF job[p].task = "sync" THEN DOMAIN job[p].lines ELSE {}
AtHand(p) == ({job[p].id} \ {None}) \union Listed(p)
Others(p) == UNION {AtHand(q) : q \in Calls \ {p}}
Takes(p, ids) == raced' = raced \union (ids \cap Others(p))
(* A call that found no row of a key, and is about to make one.            *)
Making(k) == {q \in Calls : job[q].at = "insert" /\ job[q].key = k}

Init ==
  /\ kind \in Kinds
  /\ rows = <<>> /\ vecs = <<>>
  /\ job = [p \in Calls |-> Fresh]
  /\ raced = {} /\ twinned = {} /\ failed = {} /\ unsynced = {}

(* dbInsert of the row of a call, of the key it looked for.                *)
HasKey(k) == \E id \in Live : KeyAt(id) = k
InsertRow(p, text) ==
  LET id == <<job[p].key, p>> IN
  /\ id \notin Live
  /\ rows' = With(rows, id, text)
  /\ failed' = failed \ {id}
  /\ Goto(p, [job[p] EXCEPT !.at = "embed", !.id = id, !.text = text])

(* The row of a vector found before, or a new row for it.                  *)
PutVec(v, subject, emb) ==
  /\ vecs' = With(vecs, v, [subject |-> subject, emb |-> emb])
  /\ failed' = IF emb THEN failed \ {Of(v)} ELSE failed \union {Of(v)}
NewVec(p)    == <<job[p].id, p>>
AlwaysNew(p) == NewVec(p)
Target(p)    == IF job[p].vec = None THEN NewVec(p) ELSE job[p].vec

(* A call that gives up leaves the vector of its row missing or out of     *)
(* date; a sync leaves it as it was.                                       *)
Behind(p) == IF job[p].task # "sync" /\ job[p].at \in {"embed", "vector", "find", "renew", "save"}
             THEN {job[p].id} ELSE {}
Lapse(p)  == failed' = failed \union Behind(p)

(* dbGetWithUnique of the vector of a row: one of them, or None, which is  *)
(* also what the code takes a failure for.                                 *)
FindVec(p, v, next) ==
  /\ v \in VecsOf(job[p].id) \union {None}
  /\ Goto(p, [job[p] EXCEPT !.at = next, !.vec = v])
  /\ raced' = IF v = None /\ VecsOf(job[p].id) # {} THEN raced \union {job[p].id} ELSE raced

(* vector_match_docs_4 and vector_match_capability_4: the vectors nearest  *)
(* to the query, up to the limit.  Any may be; one may be missing because  *)
(* it is beyond the threshold, because the index is not exact, or because  *)
(* vectors of memories are nearer than a document's, or the reverse.  When *)
(* there are none the call is at its end.                                  *)
Embedded == {v \in DOMAIN vecs : vecs[v].emb}
Nearest  == {vs \in SUBSET Embedded : vs # {} /\ Cardinality(vs) <= Limit}
Match(p) == \E vs \in Nearest : Goto(p, [job[p] EXCEPT !.at = "fetch", !.found = vs])

(* The process is killed, or the request it serves is cancelled.           *)
Die(p) ==
  /\ job[p].at \notin {"idle", "done"}
  /\ Lapse(p)
  /\ Done(p)
  /\ UNCHANGED <<kind, rows, vecs, raced, twinned, unsynced>>
=============================================================================
