------------------------------- MODULE Corpus -------------------------------
(***************************************************************************)
(* Documents (pkg/services/stores/corpus_x.go, corpus_gen.go): the import  *)
(* of a CSV file, the tool kb_create, the sync of the vectors, the tool    *)
(* kb_search and the deletion.  A document is created with a vector of its *)
(* title and heading; the sync makes it anew with the key words of its     *)
(* content; a change of the content leaves the vector as it is.            *)
(***************************************************************************)
EXTENDS VectorIndex

Doc == kind = "doc"

(* ImportDocs reads line by line; lines with an empty field are skipped.   *)
DocImport(p) ==
  /\ Doc /\ \E file \in Files :
       /\ SkipAI \notin {file[k] : k \in DOMAIN file}
       /\ Start(p, [Fresh EXCEPT !.at = "line", !.task = "import", !.lines = file])
  /\ UNCHANGED <<kind, rows, vecs, ghosts>>

(* InvokerForCreate, for a keeper and with all arguments.                  *)
DocCreate(p) ==
  /\ Doc /\ \E k \in Keys, t \in Texts :
       Start(p, [Fresh EXCEPT !.at = "insert", !.task = "create", !.key = k, !.text = t])
  /\ UNCHANGED <<kind, rows, vecs, ghosts>>

(* importLine: whatever keeps the document from being found, it is to be   *)
(* created.                                                                *)
DocLine(p) ==
  /\ Doc /\ At(p, "import", "line")
  /\ \E k \in DOMAIN job[p].lines :
       LET line == [job[p] EXCEPT !.key = k, !.text = job[p].lines[k],
                                !.lines = Without(@, {k})] IN
       \/ \E id \in {i \in Live : KeyAt(i) = k} :
            Goto(p, [line EXCEPT !.at = "update", !.id = id]) /\ Takes(p, {id})
       \/ Goto(p, [line EXCEPT !.at = "insert"]) /\ UNCHANGED raced
  /\ UNCHANGED <<kind, rows, vecs, twinned, failed, unsynced>>

(* CreateDocument; title and heading are unique, and an error ends an      *)
(* import.                                                                 *)
TitleTaken(k) == HasKey(k)
DocInsert(p) ==
  /\ Doc /\ job[p].at = "insert"
  /\ \/ ~TitleTaken(job[p].key) /\ InsertRow(p, job[p].text)
     \/ Done(p) /\ UNCHANGED <<rows, failed>>
  /\ UNCHANGED <<kind, vecs, raced, twinned, unsynced>>

(* UpdateDocument, which reads the row once more; of an import only the    *)
(* content changes.                                                        *)
SetContent(id, text) == [rows EXCEPT ![id] = text]
DocUpdate(p) ==
  /\ Doc /\ job[p].at = "update"
  /\ LET id == job[p].id IN
     \/ /\ id \in Live
        /\ rows' = SetContent(id, job[p].text)
        /\ unsynced' = IF rows[id] # job[p].text THEN unsynced \union {id} ELSE unsynced
        /\ Advance(p)
     \/ Done(p) /\ UNCHANGED <<rows, unsynced>>
  /\ UNCHANGED <<kind, vecs, raced, twinned, failed>>

(* afterCreatedCobDocument: GetEmbedding, then CreateDocVector.  An        *)
(* embedding that is empty is no error.                                    *)
DocEmbed(p) ==
  /\ Doc /\ job[p].at = "embed" /\ job[p].task # "sync"
  /\ \/ /\ \E some \in BOOLEAN : Goto(p, [job[p] EXCEPT !.at = "vector", !.emb = some])
        /\ UNCHANGED failed
     \/ Done(p) /\ Lapse(p)
  /\ UNCHANGED <<kind, rows, vecs, raced, twinned, unsynced>>

DocVector(p) ==
  /\ Doc /\ job[p].at = "vector"
  /\ \/ PutVec(NewVec(p), HeadOnly, job[p].emb) /\ Advance(p)
     \/ Done(p) /\ Lapse(p) /\ UNCHANGED vecs
  /\ UNCHANGED <<kind, rows, raced, twinned, unsynced>>

(* SyncEmbeddingDocments: ListDocument, then row by row.                   *)
DocSync(p) ==
  /\ Doc /\ Start(p, [Fresh EXCEPT !.at = "embed", !.task = "sync", !.lines = rows])
  /\ Takes(p, Live)
  /\ UNCHANGED <<kind, rows, vecs, twinned, failed, unsynced>>

(* The key words of the listed content and their embedding; the first      *)
(* error ends the sync.                                                    *)
DocSyncEmbed(p) ==
  /\ Doc /\ At(p, "sync", "embed")
  /\ \/ \E id \in DOMAIN job[p].lines, some \in BOOLEAN :
          Goto(p, [job[p] EXCEPT !.at = "find", !.id = id, !.text = job[p].lines[id],
                                 !.emb = some])
     \/ Done(p)
  /\ UNCHANGED <<kind, rows, vecs, ghosts>>

DocSyncFind(p) ==
  /\ Doc /\ At(p, "sync", "find")
  /\ \E v \in VecsOf(job[p].id) \union {None} : FindVec(p, v, "save")
  /\ UNCHANGED <<kind, rows, vecs, twinned, failed, unsynced>>

(* The vector is changed, if it is still there, or inserted.               *)
DocSyncSave(p) ==
  /\ Doc /\ At(p, "sync", "save")
  /\ \/ /\ job[p].vec \in DOMAIN vecs \union {None}
        /\ PutVec(Target(p), job[p].text, job[p].emb)
        /\ unsynced' = unsynced \ {job[p].id}
        /\ SyncNext(p)
     \/ /\ job[p].vec \notin DOMAIN vecs \union {None}
        /\ SyncNext(p) /\ UNCHANGED <<vecs, failed, unsynced>>
     \/ Done(p) /\ UNCHANGED <<vecs, failed, unsynced>>
  /\ UNCHANGED <<kind, rows, raced, twinned>>

(* dbAfterDeleteCobDocument.                                               *)
NoVecs(id)        == {}
VecsOfDeleted(id) == VecsOf(id)

(* DeleteDocument: the row is read, then it and its vectors are deleted in *)
(* one transaction.                                                        *)
DocDelete(p) ==
  /\ Doc /\ \E id \in Live :
       /\ Start(p, [Fresh EXCEPT !.at = "delete", !.task = "delete", !.id = id])
       /\ Takes(p, {id})
  /\ UNCHANGED <<kind, rows, vecs, twinned, failed, unsynced>>

DocDeleteTx(p) ==
  /\ Doc /\ job[p].at = "delete"
  /\ Done(p)
  /\ \/ rows' = Without(rows, {job[p].id}) /\ vecs' = Without(vecs, VecsOfDeleted(job[p].id))
     \/ UNCHANGED <<rows, vecs>>
  /\ UNCHANGED <<kind, ghosts>>

(* InvokerForSearch and MatchDocuments: the embedding of the query, the    *)
(* vectors near it, the documents they are of.                             *)
DocSearch(p) ==
  /\ Doc /\ Start(p, [Fresh EXCEPT !.at = "match", !.task = "search"])
  /\ UNCHANGED <<kind, rows, vecs, ghosts>>

DocMatch(p) ==
  /\ Doc /\ job[p].at = "match"
  /\ Match(p) \/ Done(p)
  /\ UNCHANGED <<kind, rows, vecs, ghosts>>

DocFetch(p) ==
  /\ Doc /\ job[p].at = "fetch" /\ Done(p)
  /\ UNCHANGED <<kind, rows, vecs, ghosts>>

DocStep(p) ==
  \/ DocImport(p) \/ DocCreate(p) \/ DocLine(p) \/ DocInsert(p) \/ DocUpdate(p) \/ DocEmbed(p)
  \/ DocVector(p) \/ DocSync(p) \/ DocSyncEmbed(p) \/ DocSyncFind(p) \/ DocSyncSave(p)
  \/ DocDelete(p) \/ DocDeleteTx(p) \/ DocSearch(p) \/ DocMatch(p) \/ DocFetch(p)
=============================================================================
