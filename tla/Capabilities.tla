---------------------------- MODULE Capabilities ----------------------------
(***************************************************************************)
(* Capabilities (pkg/services/stores/capability_x.go, capability_gen.go):  *)
(* the import of a swagger file, which creates, changes and deletes them,  *)
(* the sync of the vectors and the tool that matches them.  A capability   *)
(* that is changed gets its vector renewed in the same call.  No           *)
(* constraint keeps method and endpoint unique.                            *)
(***************************************************************************)
EXTENDS VectorIndex

Cap == kind = "cap"

CapImport(p) ==
  /\ Cap /\ \E file \in Files :
       Start(p, [Fresh EXCEPT !.at = "line", !.task = "import", !.lines = file])
  /\ UNCHANGED <<kind, rows, vecs, ghosts>>

(* GetCapabilityWith.  A line whose capability could not be looked up is   *)
(* left out, as are one without a subject and one tagged skipai that has   *)
(* none.                                                                   *)
Found(p, id, line) ==
  /\ Goto(p, [line EXCEPT !.at = IF line.text = SkipAI THEN "delete" ELSE "update", !.id = id])
  /\ Takes(p, {id}) /\ UNCHANGED twinned
Missing(p, line) ==
  /\ line.text # SkipAI
  /\ Goto(p, [line EXCEPT !.at = "insert"])
  /\ twinned' = IF Making(line.key) # {} THEN twinned \union {line.key} ELSE twinned
  /\ UNCHANGED raced
LeftOut(p, rest) ==
  /\ IF rest = <<>> THEN Done(p) ELSE Goto(p, [job[p] EXCEPT !.lines = rest])
  /\ UNCHANGED <<raced, twinned>>

CapLine(p) ==
  /\ Cap /\ At(p, "import", "line")
  /\ \E k \in DOMAIN job[p].lines :
       LET rest == Without(job[p].lines, {k})
           line == [job[p] EXCEPT !.key = k, !.text = job[p].lines[k], !.lines = rest]
           same == {id \in Live : KeyAt(id) = k} IN
       \/ \E id \in same : Found(p, id, line)
       \/ same = {} /\ Missing(p, line)
       \/ LeftOut(p, rest)
  /\ UNCHANGED <<kind, rows, vecs, failed, unsynced>>

(* EnrichSortableFields moves the list of sortable fields out of the       *)
(* description; only what is created gets the result.                      *)
Enriched(text) == Stripped[text]

(* CreateCapability, of the enriched description.  What fails is logged    *)
(* and the import goes on.                                                 *)
CapInsert(p) ==
  /\ Cap /\ job[p].at = "insert"
  /\ \/ InsertRow(p, Enriched(job[p].text))
     \/ Advance(p) /\ UNCHANGED <<rows, failed>>
  /\ UNCHANGED <<kind, vecs, raced, twinned, unsynced>>

(* afterCreatedCapability; the vector may not be null.                     *)
CapEmbed(p) ==
  /\ Cap /\ At(p, "import", "embed")
  /\ \/ Goto(p, [job[p] EXCEPT !.at = "vector", !.emb = TRUE]) /\ UNCHANGED failed
     \/ Advance(p) /\ Lapse(p)
  /\ UNCHANGED <<kind, rows, vecs, raced, twinned, unsynced>>

CapVector(p) ==
  /\ Cap /\ job[p].at = "vector"
  /\ \/ PutVec(NewVec(p), job[p].text, TRUE)
     \/ Lapse(p) /\ UNCHANGED vecs
  /\ Advance(p)
  /\ UNCHANGED <<kind, rows, raced, twinned, unsynced>>

(* UpdateCapability, of the description as it is in the file.              *)
SetCapability(id, text) == [rows EXCEPT ![id] = text]
CapUpdate(p) ==
  /\ Cap /\ job[p].at = "update"
  /\ \/ /\ job[p].id \in Live
        /\ rows' = SetCapability(job[p].id, job[p].text)
        /\ Goto(p, [job[p] EXCEPT !.at = "find"])
     \/ Advance(p) /\ UNCHANGED rows
  /\ UNCHANGED <<kind, vecs, ghosts>>

(* dbBeforeDeleteCapability.                                               *)
KeepVecs(id)      == {}
VecsOfRemoved(id) == VecsOf(id)

(* DeleteCapability, which reads the row once more: its vectors and the    *)
(* row, in one transaction.                                                *)
CapDelete(p) ==
  /\ Cap /\ job[p].at = "delete"
  /\ \/ rows' = Without(rows, {job[p].id}) /\ vecs' = Without(vecs, VecsOfRemoved(job[p].id))
     \/ UNCHANGED <<rows, vecs>>
  /\ Advance(p)
  /\ UNCHANGED <<kind, ghosts>>

(* SyncEmbeddingCapabilities: the hook for every row; what fails is        *)
(* ignored.                                                                *)
CapSync(p) ==
  /\ Cap /\ Start(p, [Fresh EXCEPT !.at = "embed", !.task = "sync", !.lines = rows])
  /\ Takes(p, Live)
  /\ UNCHANGED <<kind, rows, vecs, twinned, failed, unsynced>>

CapSyncRow(p) ==
  /\ Cap /\ At(p, "sync", "embed")
  /\ \/ \E id \in DOMAIN job[p].lines :
          Goto(p, [job[p] EXCEPT !.at = "find", !.id = id, !.text = job[p].lines[id]])
     \/ job[p].lines = <<>> /\ Done(p)
  /\ UNCHANGED <<kind, rows, vecs, ghosts>>

(* afterUpdatedCapability: the vector is looked up, made anew unless its   *)
(* subject is the same, and changed or inserted.                           *)
HookEnd(p) == IF job[p].task = "sync" THEN SyncNext(p) ELSE Advance(p)
AnyVector(p, v)   == v # None
SameSubject(p, v) == v # None /\ vecs[v].subject = job[p].text
CapFind(p) ==
  /\ Cap /\ job[p].at = "find"
  /\ \E v \in VecsOf(job[p].id) \union {None} :
       IF SameSubject(p, v)
       THEN HookEnd(p) /\ UNCHANGED raced
       ELSE FindVec(p, v, "renew")
  /\ UNCHANGED <<kind, rows, vecs, twinned, failed, unsynced>>

CapRenew(p) ==
  /\ Cap /\ job[p].at = "renew"
  /\ \/ Goto(p, [job[p] EXCEPT !.at = "save"]) /\ UNCHANGED failed
     \/ HookEnd(p) /\ Lapse(p)
  /\ UNCHANGED <<kind, rows, vecs, raced, twinned, unsynced>>

CapSave(p) ==
  /\ Cap /\ job[p].at = "save"
  /\ \/ /\ job[p].vec \in DOMAIN vecs \union {None}
        /\ PutVec(Target(p), job[p].text, TRUE)
     \/ Lapse(p) /\ UNCHANGED vecs
  /\ HookEnd(p)
  /\ UNCHANGED <<kind, rows, raced, twinned, unsynced>>

(* InvokerForMatch and MatchCapabilities.                                  *)
CapSearch(p) ==
  /\ Cap /\ Start(p, [Fresh EXCEPT !.at = "match", !.task = "search"])
  /\ UNCHANGED <<kind, rows, vecs, ghosts>>

CapMatch(p) ==
  /\ Cap /\ job[p].at = "match"
  /\ Match(p) \/ Done(p)
  /\ UNCHANGED <<kind, rows, vecs, ghosts>>

CapFetch(p) ==
  /\ Cap /\ job[p].at = "fetch" /\ Done(p)
  /\ UNCHANGED <<kind, rows, vecs, ghosts>>

CapStep(p) ==
  \/ CapImport(p) \/ CapLine(p) \/ CapInsert(p) \/ CapEmbed(p) \/ CapVector(p) \/ CapUpdate(p)
  \/ CapDelete(p) \/ CapSync(p) \/ CapSyncRow(p) \/ CapFind(p) \/ CapRenew(p) \/ CapSave(p)
  \/ CapSearch(p) \/ CapMatch(p) \/ CapFetch(p)
=============================================================================
