------------------------------ MODULE Memories ------------------------------
(***************************************************************************)
(* The memory tools of one user (pkg/services/stores/convo_x.go,           *)
(* convo_gen.go): store, forget, recall, and the sync of the vectors, which *)
(* are kept in the table of the documents' vectors.  The key a memory is   *)
(* looked up by is a pattern.  A change leaves the vector as it is, and so *)
(* does forgetting.                                                        *)
(***************************************************************************)
EXTENDS VectorIndex

Mem == kind = "mem"

(* GetMyMemoryWithKey: key ILIKE the given one; any that matches.          *)
MemMatching(k) == {id \in Live : KeyAt(id) \in Like[k]}

(* InvokerForMemoryStore, with all arguments: what keeps the memory from   *)
(* being found makes the tool create it.                                   *)
MemStore(p) ==
  /\ Mem /\ \E k \in Keys, t \in Texts :
       \/ \E id \in MemMatching(k) :
            /\ Start(p, [Fresh EXCEPT !.at = "update", !.task = "store", !.key = k, !.text = t,
                                   !.id = id])
            /\ Takes(p, {id})
       \/ /\ Start(p, [Fresh EXCEPT !.at = "insert", !.task = "store", !.key = k, !.text = t])
          /\ UNCHANGED raced
  /\ UNCHANGED <<kind, rows, vecs, twinned, failed, unsynced>>

(* dbUpdate of the memory that was found: category and content change, the *)
(* key does not.                                                           *)
SetMemory(id, text) == [rows EXCEPT ![id] = text]
MemUpdate(p) ==
  /\ Mem /\ job[p].at = "update" /\ Done(p)
  /\ LET id == job[p].id IN
     \/ /\ id \in Live
        /\ rows' = SetMemory(id, job[p].text)
        /\ unsynced' = IF rows[id] # job[p].text THEN unsynced \union {id} ELSE unsynced
     \/ UNCHANGED <<rows, unsynced>>
  /\ UNCHANGED <<kind, vecs, raced, twinned, failed>>

(* CreateMemory; owner and key are unique.                                 *)
KeyTaken(k) == HasKey(k)
MemInsert(p) ==
  /\ Mem /\ job[p].at = "insert"
  /\ \/ ~KeyTaken(job[p].key) /\ InsertRow(p, job[p].text)
     \/ Done(p) /\ UNCHANGED <<rows, failed>>
  /\ UNCHANGED <<kind, vecs, raced, twinned, unsynced>>

(* afterCreatedMemory: GetEmbedding, then CreateDocVector.                 *)
MemEmbed(p) ==
  /\ Mem /\ At(p, "store", "embed")
  /\ \/ /\ \E some \in BOOLEAN : Goto(p, [job[p] EXCEPT !.at = "vector", !.emb = some])
        /\ UNCHANGED failed
     \/ Done(p) /\ Lapse(p)
  /\ UNCHANGED <<kind, rows, vecs, raced, twinned, unsynced>>

MemVector(p) ==
  /\ Mem /\ job[p].at = "vector" /\ Done(p)
  /\ \/ PutVec(NewVec(p), job[p].text, job[p].emb)
     \/ Lapse(p) /\ UNCHANGED vecs
  /\ UNCHANGED <<kind, rows, raced, twinned, unsynced>>

(* InvokerForMemoryForget: what is not found is answered at once;          *)
(* DeleteMemory deletes the memory and nothing else.                       *)
MemForget(p) ==
  /\ Mem /\ \E k \in Keys : \E id \in MemMatching(k) :
       /\ Start(p, [Fresh EXCEPT !.at = "delete", !.task = "forget", !.key = k, !.id = id])
       /\ Takes(p, {id})
  /\ UNCHANGED <<kind, rows, vecs, twinned, failed, unsynced>>

MemDelete(p) ==
  /\ Mem /\ job[p].at = "delete" /\ Done(p)
  /\ rows' \in {rows, Without(rows, {job[p].id})}
  /\ UNCHANGED <<kind, vecs, ghosts>>

(* SyncEmbeddingMemories: the first error ends it.                         *)
MemSync(p) ==
  /\ Mem /\ Start(p, [Fresh EXCEPT !.at = "embed", !.task = "sync", !.lines = rows])
  /\ Takes(p, Live)
  /\ UNCHANGED <<kind, rows, vecs, twinned, failed, unsynced>>

MemSyncEmbed(p) ==
  /\ Mem /\ At(p, "sync", "embed")
  /\ \/ \E id \in DOMAIN job[p].lines, some \in BOOLEAN :
          Goto(p, [job[p] EXCEPT !.at = "find", !.id = id, !.text = job[p].lines[id],
                                 !.emb = some])
     \/ Done(p)
  /\ UNCHANGED <<kind, rows, vecs, ghosts>>

MemSyncFind(p) ==
  /\ Mem /\ At(p, "sync", "find")
  /\ \E v \in VecsOf(job[p].id) \union {None} : FindVec(p, v, "save")
  /\ UNCHANGED <<kind, rows, vecs, twinned, failed, unsynced>>

(* Nothing ever deletes a vector of this table here, so it is still there. *)
MemSyncSave(p) ==
  /\ Mem /\ At(p, "sync", "save")
  /\ \/ /\ PutVec(Target(p), job[p].text, job[p].emb)
        /\ unsynced' = unsynced \ {job[p].id}
        /\ SyncNext(p)
     \/ Done(p) /\ UNCHANGED <<vecs, failed, unsynced>>
  /\ UNCHANGED <<kind, rows, raced, twinned>>

(* InvokerForMemoryRecall and MatchMemories.                               *)
MemRecall(p) ==
  /\ Mem /\ Start(p, [Fresh EXCEPT !.at = "match", !.task = "search"])
  /\ UNCHANGED <<kind, rows, vecs, ghosts>>

MemMatch(p) ==
  /\ Mem /\ job[p].at = "match"
  /\ Match(p) \/ Done(p)
  /\ UNCHANGED <<kind, rows, vecs, ghosts>>

MemFetch(p) ==
  /\ Mem /\ job[p].at = "fetch" /\ Done(p)
  /\ UNCHANGED <<kind, rows, vecs, ghosts>>

MemStep(p) ==
  \/ MemStore(p) \/ MemUpdate(p) \/ MemInsert(p) \/ MemEmbed(p) \/ MemVector(p)
  \/ MemForget(p) \/ MemDelete(p) \/ MemSync(p) \/ MemSyncEmbed(p) \/ MemSyncFind(p)
  \/ MemSyncSave(p) \/ MemRecall(p) \/ MemMatch(p) \/ MemFetch(p)
=============================================================================
