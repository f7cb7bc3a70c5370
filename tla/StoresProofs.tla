---------------------------- MODULE StoresProofs ----------------------------
(***************************************************************************)
(* Theorems about what pkg/services/stores keeps: the tables that models   *)
(* search, for any number of calls at a time, keys, texts and files; and   *)
(* who is logged in, for all requests, tokens and accounts.  Any statement *)
(* may fail, and any call may die.                                         *)
(***************************************************************************)
EXTENDS Knowledge, Logins, FiniteSetTheorems, TLAPS

-----------------------------------------------------------------------------
(* The inductive invariant                                                 *)

Points == {"idle", "line", "insert", "embed", "vector", "update", "delete",
           "find", "renew", "save", "match", "fetch", "done"}
Tasks  == {"import", "create", "store", "forget", "delete", "sync", "search", None}
Words  == Texts \union {SkipAI}
Tables == UNION {[S -> Words] : S \in SUBSET (Keys \union Ids)}
Records == [at : Points, task : Tasks, lines : Tables, key : Keys \union {None},
            text : Words \union {None}, id : Ids \union {None}, vec : Vids \union {None},
            emb : BOOLEAN, found : SUBSET Vids]

Typed ==
  /\ kind \in {"doc", "mem", "cap"} /\ rows \in Tables /\ Live \subseteq Ids
  /\ DOMAIN vecs \subseteq Vids
  /\ job \in [Calls -> Records]

(* What a call has at hand at which point.                                 *)
Restful == {"idle", "line", "insert", "match", "fetch", "done"}
Shape(r) ==
  /\ r.at \in Restful => r.id = None
  /\ r.at \notin Restful => r.id \in Ids \/ (r.task = "sync" /\ r.at = "embed" /\ r.id = None)
  /\ r.task = "sync" => /\ r.at \in {"embed", "find", "renew", "save"}
                        /\ DOMAIN r.lines \subseteq Ids
                        /\ r.at = "embed" => r.id = None
                        /\ r.at # "embed" => r.id \in DOMAIN r.lines /\ r.text = r.lines[r.id]
  /\ r.task = "import" /\ r.at # "line" => r.key \notin DOMAIN r.lines
  /\ r.task = "import" => DOMAIN r.lines \subseteq Keys
  /\ r.vec # None => r.at \in {"renew", "save"} /\ Of(r.vec) = r.id
  /\ r.at = "insert" => r.key \in Keys /\ (Cap => r.text \in Texts)
  /\ r.at \in {"insert", "update"} => r.text \in Words

(* A call knows what its rows say, and has what it was told of vectors     *)
(* that are not there; others who changed that had the row at hand.        *)
Writing == {"embed", "vector", "find", "renew", "save"}
SawNone(r) == \/ r.at = "vector" \/ (r.at = "embed" /\ r.task # "sync")
              \/ (r.at \in {"renew", "save"} /\ r.vec = None)
CallOK(p) ==
  LET r == job[p] IN
  /\ Shape(r)
  /\ AtHand(p) \subseteq Live \union raced
  /\ r.task = "sync" => \A id \in DOMAIN r.lines \ raced : r.lines[id] = rows[id]
  /\ r.task # "sync" /\ r.at \in Writing => r.id \in raced \/ r.text = rows[r.id]
  /\ SawNone(r) => r.id \in raced \/ VecsOf(r.id) = {}
  /\ Mem /\ r.vec # None => r.vec \in DOMAIN vecs

(* A row and its vectors.                                                  *)
FoundNow(id) == \E v \in VecsOf(id) : vecs[v].emb /\ Current(id, vecs[v].subject)
IdOK(id) ==
  /\ ~Mem /\ VecsOf(id) # {} => id \in Live \union raced
  /\ id \in raced \/ \A v, w \in VecsOf(id) : v = w
  /\ Cap => \A v \in VecsOf(id) : vecs[v].emb
  /\ id \in Live => \/ id \in raced \union failed \union unsynced
                    \/ \E p \in Calls : id \in Behind(p)
                    \/ FoundNow(id)

(* Who shares a row with another is known to have raced.                   *)
PairsOK == \A p, q \in Calls : p # q => AtHand(p) \cap AtHand(q) \subseteq raced

(* A call that may yet create a row of some key has not yet done so.       *)
MayCreate(p, k) ==
  \/ job[p].at = "idle" \/ (job[p].at = "insert" /\ job[p].key = k)
  \/ (job[p].task = "import" /\ k \in DOMAIN job[p].lines)
UnbornOK ==
  \A p \in Calls, k \in Keys : MayCreate(p, k) =>
    /\ <<k, p>> \notin Live /\ VecsOf(<<k, p>>) = {}
    /\ \A q \in Calls : <<k, p>> \notin AtHand(q)

(* Capabilities are unique because who inserts one has found none.         *)
TwinsOK ==
  /\ \A i, j \in Live : KeyAt(i) = KeyAt(j) => i = j \/ KeyAt(i) \in twinned
  /\ Cap => \A p \in Calls : job[p].at = "insert" /\ job[p].key \notin twinned =>
       /\ \A i \in Live : KeyAt(i) # job[p].key
       /\ \A q \in Calls : job[q].at = "insert" /\ job[q].key = job[p].key => q = p

IInv == /\ Typed /\ (\A p \in Calls : CallOK(p)) /\ (\A id \in Ids : IdOK(id))
        /\ PairsOK /\ UnbornOK /\ TwinsOK

-----------------------------------------------------------------------------
(* Types                                                                   *)

LEMMA EmptyTable == <<>> \in Tables /\ DOMAIN <<>> = {}
<1>1. <<>> \in [{} -> Words] /\ DOMAIN <<>> = {}
  OBVIOUS
<1>2. QED
  BY <1>1 DEF Tables

(* What a table with a row less looks like, one with a row more and one    *)
(* with a row changed.                                                     *)
LEMMA TableEntries ==
  ASSUME NEW f \in Tables
  PROVE  DOMAIN f \subseteq Keys \union Ids /\ \A x \in DOMAIN f : f[x] \in Words
BY DEF Tables

LEMMA TableLess ==
  ASSUME NEW f \in Tables, NEW ks
  PROVE  /\ Without(f, ks) \in Tables /\ DOMAIN Without(f, ks) = DOMAIN f \ ks
         /\ \A x \in DOMAIN f \ ks : Without(f, ks)[x] = f[x]
<1>1. /\ Without(f, ks) \in [DOMAIN f \ ks -> Words] /\ DOMAIN Without(f, ks) = DOMAIN f \ ks
      /\ \A x \in DOMAIN f \ ks : Without(f, ks)[x] = f[x]
  BY TableEntries DEF Without
<1>2. DOMAIN f \ ks \in SUBSET (Keys \union Ids)
  BY TableEntries
<1>3. QED
  BY <1>1, <1>2 DEF Tables

LEMMA TableMore ==
  ASSUME NEW f \in Tables, NEW y \in Keys \union Ids, NEW w \in Words
  PROVE  /\ With(f, y, w) \in Tables /\ DOMAIN With(f, y, w) = DOMAIN f \union {y}
         /\ With(f, y, w)[y] = w /\ \A x \in DOMAIN f \ {y} : With(f, y, w)[x] = f[x]
<1>1. /\ With(f, y, w) \in [DOMAIN f \union {y} -> Words]
      /\ DOMAIN With(f, y, w) = DOMAIN f \union {y}
      /\ With(f, y, w)[y] = w /\ \A x \in DOMAIN f \ {y} : With(f, y, w)[x] = f[x]
  BY TableEntries DEF With
<1>2. DOMAIN f \union {y} \in SUBSET (Keys \union Ids)
  BY TableEntries
<1>3. QED
  BY <1>1, <1>2 DEF Tables

LEMMA TableSet ==
  ASSUME NEW f \in Tables, NEW y \in DOMAIN f, NEW w \in Words
  PROVE  /\ [f EXCEPT ![y] = w] \in Tables /\ DOMAIN [f EXCEPT ![y] = w] = DOMAIN f
         /\ [f EXCEPT ![y] = w][y] = w
         /\ \A x \in DOMAIN f \ {y} : [f EXCEPT ![y] = w][x] = f[x]
BY DEF Tables

LEMMA FreshRecord == Fresh \in Records
<1>1. None \in Tasks
  BY DEF Tasks
<1>2. QED
  BY <1>1, EmptyTable DEF Fresh, Records, Points

LEMMA Went ==
  ASSUME Typed, NEW p \in Calls, NEW r \in Records, Goto(p, r)
  PROVE  /\ job' \in [Calls -> Records] /\ job'[p] = r
         /\ \A q \in Calls \ {p} : job'[q] = job[q]
BY DEF Goto, Typed

(* A call that puts aside what it has at hand.                             *)
LEMMA Ended ==
  ASSUME Typed, NEW p \in Calls, Done(p)
  PROVE  /\ job' \in [Calls -> Records] /\ \A q \in Calls \ {p} : job'[q] = job[q]
         /\ job'[p] = [Fresh EXCEPT !.at = "done"]
<1>1. [Fresh EXCEPT !.at = "done"] \in Records
  BY FreshRecord DEF Records, Points
<1>2. QED
  BY <1>1, Went DEF Done

LEMMA Advanced ==
  ASSUME Typed, NEW p \in Calls, Advance(p)
  PROVE  /\ job' \in [Calls -> Records] /\ \A q \in Calls \ {p} : job'[q] = job[q]
         /\ \/ job'[p] = [Fresh EXCEPT !.at = "done"]
            \/ job'[p] = [Fresh EXCEPT !.at = "line", !.task = job[p].task, !.lines = job[p].lines]
<1>1. CASE Done(p)
  BY <1>1, Ended
<1>2. CASE NextLine(p)
  <2>1. [Fresh EXCEPT !.at = "line", !.task = job[p].task, !.lines = job[p].lines] \in Records
    BY FreshRecord DEF Records, Points, Typed
  <2>2. QED
    BY <1>2, <2>1, Went DEF NextLine
<1>3. QED
  BY <1>1, <1>2 DEF Advance
-----------------------------------------------------------------------------
(* What a step of one call has to do for the invariant to last             *)

(* The row that a step may change.                                         *)
Subject(p) == IF job[p].at = "insert" THEN <<job[p].key, p>> ELSE job[p].id

(* The others stay as they are.                                            *)
Elsewhere(p) ==
  /\ \A id \in Ids : id # Subject(p) =>
       /\ (id \in Live' <=> id \in Live) /\ (id \in Live => rows'[id] = rows[id])
       /\ VecsOf(id)' = VecsOf(id) /\ \A v \in VecsOf(id) : vecs'[v] = vecs[v]
       /\ (id \in failed' <=> id \in failed) /\ (id \in unsynced' <=> id \in unsynced)
       /\ id \notin Behind(p)'
  /\ Mem => DOMAIN vecs \subseteq DOMAIN vecs'

(* What comes to hand is a row that is there, and if others have it at     *)
(* hand, too, it has raced; or it is the row the call has just created.    *)
Handling(p) ==
  \A id \in AtHand(p)' \ AtHand(p) :
    \/ id = Subject(p) /\ job[p].at = "insert"
    \/ id \in Live /\ (id \in Others(p) => id \in raced')

Unique(p) ==
  /\ \A id \in Live' \ Live :
       /\ id = Subject(p) /\ job[p].at = "insert" /\ job'[p].at # "insert"
       /\ Cap \/ ~HasKey(job[p].key)
  /\ Cap /\ job'[p].at = "insert" =>
       \/ job'[p].key \in twinned'
       \/ /\ \A i \in Live' : KeyAt(i) # job'[p].key
          /\ \A q \in Calls \ {p} : ~(job[q].at = "insert" /\ job[q].key = job'[p].key)

StepOK(p) ==
  /\ Typed' /\ kind' = kind /\ raced \subseteq raced' /\ twinned \subseteq twinned'
  /\ \A q \in Calls \ {p} : job'[q] = job[q]
  /\ Elsewhere(p) /\ Handling(p) /\ Unique(p)
  /\ \A id \in Ids : id = Subject(p) => IdOK(id)'
  /\ CallOK(p)'
  /\ \A k \in Keys : MayCreate(p, k)' =>
       MayCreate(p, k) /\ ~(job[p].at = "insert" /\ job[p].key = k)

LEMMA Subjects ==
  ASSUME IInv, NEW p \in Calls
  PROVE  /\ job[p].at = "insert" => Subject(p) = <<job[p].key, p>> /\ Subject(p) \in Ids
         /\ job[p].at # "insert" => Subject(p) = job[p].id
         /\ Subject(p) # None => Subject(p) \in Ids
         /\ Behind(p) \subseteq {Subject(p)} /\ AtHand(p) \subseteq Ids
         /\ Subject(p) # None /\ job[p].at # "insert" => Subject(p) \in AtHand(p)
         /\ \A q \in Calls \ {p} : Subject(p) # None /\ Subject(p) \in AtHand(q) => Subject(p) \in raced
<1>1. job[p] \in Records /\ Shape(job[p])
  BY DEF IInv, Typed, CallOK
<1>2. job[p].at = "insert" => Subject(p) = <<job[p].key, p>> /\ Subject(p) \in Ids
  BY <1>1 DEF Shape, Subject, Ids
<1>3. job[p].at # "insert" => Subject(p) = job[p].id
  BY DEF Subject
<1>4. Subject(p) # None => Subject(p) \in Ids
  BY <1>1, <1>2, <1>3 DEF Records
<1>5. Behind(p) \subseteq {Subject(p)}
  BY <1>3 DEF Behind
<1>6. AtHand(p) \subseteq Ids
  BY <1>1 DEF AtHand, Listed, Records, Shape
<1>7. Subject(p) # None /\ job[p].at # "insert" => Subject(p) \in AtHand(p)
  BY <1>3 DEF AtHand
<1>8. ASSUME NEW q \in Calls \ {p}, Subject(p) # None, Subject(p) \in AtHand(q)
      PROVE  Subject(p) \in raced
  <2>1. CASE job[p].at = "insert"
    <3>1. job[p].key \in Keys /\ MayCreate(p, job[p].key)
      BY <1>1, <2>1 DEF Shape, MayCreate
    <3>2. QED
      BY <1>2, <1>8, <2>1, <3>1 DEF IInv, UnbornOK
  <2>2. CASE job[p].at # "insert"
    BY <1>7, <1>8, <2>2 DEF IInv, PairsOK
  <2>3. QED
    BY <2>1, <2>2
<1>9. QED
  BY <1>2, <1>3, <1>4, <1>5, <1>6, <1>7, <1>8

(* What the others know stays true.                                        *)
LEMMA OthersKeep ==
  ASSUME IInv, NEW p \in Calls, StepOK(p), NEW q \in Calls \ {p}
  PROVE  CallOK(q)'
<1>1. job'[q] = job[q] /\ kind' = kind /\ raced \subseteq raced'
  BY DEF StepOK
<1>2. AtHand(q)' = AtHand(q) /\ AtHand(q) \subseteq Ids
  BY <1>1, Subjects DEF AtHand, Listed
<1>3. ASSUME NEW id \in AtHand(q), id \notin raced'
      PROVE  /\ id # Subject(p) /\ id \in Live' /\ rows'[id] = rows[id]
             /\ VecsOf(id)' = VecsOf(id)
  <2>1. id \in Ids /\ id \notin raced /\ id \in Live
    BY <1>1, <1>2, <1>3 DEF IInv, CallOK
  <2>2. id # Subject(p)
    BY <1>3, <2>1, Subjects, NoneAssumption
  <2>3. QED
    BY <2>1, <2>2 DEF StepOK, Elsewhere
<1>4. CallOK(q) /\ Shape(job[q])' /\ (Mem' <=> Mem)
  BY <1>1 DEF IInv, CallOK, Shape, Cap, Mem
<1>5. job[q].task = "sync" => \A id \in DOMAIN job[q].lines \ raced' : job[q].lines[id] = rows'[id]
  <2>1. job[q].task = "sync" => DOMAIN job[q].lines \subseteq AtHand(q)
    BY DEF AtHand, Listed
  <2>2. QED
    BY <1>1, <1>3, <1>4, <2>1 DEF CallOK
<1>6. job[q].id = None \/ job[q].id \in AtHand(q)
  BY DEF AtHand
<1>7. job[q].at \in Writing /\ job[q].task # "sync" => job[q].id # None
  BY <1>4, NoneAssumption DEF CallOK, Shape, Writing, Restful
<1>8. SawNone(job[q]) => job[q].id # None
  BY <1>4, NoneAssumption DEF CallOK, Shape, Restful, SawNone
<1>9. job[q].task # "sync" /\ job[q].at \in Writing => job[q].id \in raced' \/ job[q].text = rows'[job[q].id]
  BY <1>1, <1>3, <1>4, <1>6, <1>7 DEF CallOK
<1>10. SawNone(job[q]) => job[q].id \in raced' \/ VecsOf(job[q].id)' = {}
  <2>1. SUFFICES ASSUME SawNone(job[q]), job[q].id \notin raced'
                 PROVE  VecsOf(job[q].id)' = {}
    OBVIOUS
  <2>2. job[q].id \in AtHand(q) /\ job[q].id \notin raced
    BY <1>1, <1>6, <1>8, <2>1
  <2>3. PICK id \in AtHand(q) : id = job[q].id
    BY <2>2
  <2>4. VecsOf(id)' = VecsOf(id)
    BY <1>3, <2>1, <2>3
  <2>5. VecsOf(id) = {}
    BY <1>4, <2>1, <2>2, <2>3 DEF CallOK
  <2>6. VecsOf(job[q].id)' = VecsOf(id)'
    BY <1>1, <2>3 DEF VecsOf
  <2>7. QED
    BY <2>4, <2>5, <2>6
<1>11. Mem /\ job[q].vec # None => job[q].vec \in DOMAIN vecs'
  BY <1>4 DEF CallOK, StepOK, Elsewhere
<1>12. AtHand(q)' \subseteq Live' \union raced'
  BY <1>2, <1>3
<1>13. VecsOf(job[q].id)' = {v \in DOMAIN vecs' : Of(v) = job[q].id}
  BY <1>1 DEF VecsOf
<1>14. QED
  BY <1>1, <1>4, <1>5, <1>9, <1>10, <1>11, <1>12 DEF CallOK, SawNone

(* So do the other rows.                                                   *)
LEMMA RowsKeep ==
  ASSUME IInv, NEW p \in Calls, StepOK(p), NEW id \in Ids
  PROVE  IdOK(id)'
<1>1. CASE id = Subject(p)
  BY <1>1 DEF StepOK
<1>2. CASE id # Subject(p)
  <2>1. /\ (id \in Live' <=> id \in Live) /\ (id \in Live => rows'[id] = rows[id])
        /\ VecsOf(id)' = VecsOf(id) /\ \A v \in VecsOf(id) : vecs'[v] = vecs[v]
        /\ (id \in failed' <=> id \in failed) /\ (id \in unsynced' <=> id \in unsynced)
        /\ kind' = kind /\ raced \subseteq raced'
    BY <1>2 DEF StepOK, Elsewhere
  <2>2. IdOK(id)
    BY DEF IInv
  <2>3. ASSUME NEW q \in Calls, id \in Behind(q) PROVE id \in Behind(q)'
    <3>1. q # p
      BY <1>2, <2>3, Subjects
    <3>2. job'[q] = job[q]
      BY <3>1 DEF StepOK
    <3>3. QED
      BY <2>3, <3>2 DEF Behind
  <2>4. id \in Live /\ FoundNow(id) => FoundNow(id)'
    BY <2>1 DEF FoundNow, Current
  <2>5. (Mem' <=> Mem) /\ (Cap' <=> Cap)
    BY <2>1 DEF Mem, Cap
  <2>6. ~Mem' /\ VecsOf(id)' # {} => id \in Live' \union raced'
    BY <2>1, <2>2, <2>5 DEF IdOK
  <2>7. id \in raced' \/ \A v, w \in VecsOf(id)' : v = w
    BY <2>1, <2>2 DEF IdOK
  <2>8. Cap' => \A v \in VecsOf(id)' : vecs'[v].emb
    BY <2>1, <2>2, <2>5 DEF IdOK
  <2>9. id \in Live' => \/ id \in raced' \union failed' \union unsynced'
                        \/ \E q \in Calls : id \in Behind(q)'
                        \/ FoundNow(id)'
    BY <2>1, <2>2, <2>3, <2>4 DEF IdOK
  <2>10. QED
    BY <2>6, <2>7, <2>8, <2>9 DEF IdOK
<1>3. QED
  BY <1>1, <1>2

LEMMA PairsKeep ==
  ASSUME IInv, NEW p \in Calls, StepOK(p)
  PROVE  PairsOK'
<1>1. \A q \in Calls \ {p} : AtHand(q)' = AtHand(q)
  BY DEF StepOK, AtHand, Listed
<1>2. raced \subseteq raced'
  BY DEF StepOK
<1>3. ASSUME NEW q \in Calls \ {p}, NEW id \in AtHand(p)', id \in AtHand(q) PROVE id \in raced'
  <2>1. CASE id \in AtHand(p)
    BY <1>2, <1>3, <2>1 DEF IInv, PairsOK
  <2>2. CASE id \notin AtHand(p)
    <3>1. CASE id = Subject(p) /\ job[p].at = "insert"
      BY <1>2, <1>3, <3>1, Subjects, NoneAssumption
    <3>2. CASE id \in Others(p) => id \in raced'
      BY <1>3, <3>2 DEF Others
    <3>3. QED
      BY <1>3, <2>2, <3>1, <3>2 DEF StepOK, Handling
  <2>3. QED
    BY <2>1, <2>2
<1>4. ASSUME NEW q \in Calls, NEW r \in Calls, q # r, NEW id \in AtHand(q)', id \in AtHand(r)'
      PROVE  id \in raced'
  <2>1. CASE q = p
    BY <1>1, <1>3, <1>4, <2>1
  <2>2. CASE r = p
    BY <1>1, <1>3, <1>4, <2>2
  <2>3. CASE q # p /\ r # p
    BY <1>1, <1>2, <1>4, <2>3 DEF IInv, PairsOK
  <2>4. QED
    BY <2>1, <2>2, <2>3
<1>5. QED
  BY <1>4 DEF PairsOK

LEMMA UnbornKeep ==
  ASSUME IInv, NEW p \in Calls, StepOK(p)
  PROVE  UnbornOK'
<1>1. SUFFICES ASSUME NEW q \in Calls, NEW k \in Keys, MayCreate(q, k)'
               PROVE  /\ <<k, q>> \notin Live' /\ VecsOf(<<k, q>>)' = {}
                      /\ \A r \in Calls : <<k, q>> \notin AtHand(r)'
  BY DEF UnbornOK
<1>2. PICK id \in Ids : id = <<k, q>>
  BY DEF Ids
<1>3. MayCreate(q, k) /\ (q = p => ~(job[p].at = "insert" /\ job[p].key = k))
  <2>1. CASE q = p
    BY <1>1, <2>1 DEF StepOK
  <2>2. CASE q # p
    BY <1>1, <2>2 DEF StepOK, MayCreate
  <2>3. QED
    BY <2>1, <2>2
<1>4. id \notin Live /\ VecsOf(id) = {} /\ \A r \in Calls : id \notin AtHand(r)
  BY <1>2, <1>3 DEF IInv, UnbornOK
<1>5. id # Subject(p)
  <2>1. CASE job[p].at = "insert"
    BY <1>2, <1>3, <2>1, Subjects
  <2>2. CASE job[p].at # "insert"
    BY <1>4, <2>2, Subjects, NoneAssumption
  <2>3. QED
    BY <2>1, <2>2
<1>6. id \notin Live' /\ VecsOf(id)' = {}
  BY <1>4, <1>5 DEF StepOK, Elsewhere
<1>7. id \notin AtHand(p)'
  BY <1>4, <1>5 DEF StepOK, Handling
<1>8. \A r \in Calls \ {p} : AtHand(r)' = AtHand(r)
  BY DEF StepOK, AtHand, Listed
<1>9. QED
  BY <1>2, <1>4, <1>6, <1>7, <1>8

LEMMA TwinsKeep ==
  ASSUME IInv, NEW p \in Calls, StepOK(p)
  PROVE  TwinsOK'
<1>1. /\ twinned \subseteq twinned' /\ (Cap' <=> Cap)
      /\ \A q \in Calls \ {p} : job'[q] = job[q]
  BY DEF StepOK, Cap
<1>2. ASSUME NEW i \in Live' \ Live
      PROVE  /\ job[p].at = "insert" /\ job'[p].at # "insert" /\ KeyAt(i) = job[p].key
             /\ i = Subject(p) /\ (Cap \/ ~HasKey(job[p].key))
  BY Subjects DEF StepOK, Unique, KeyAt
<1>3. ASSUME NEW i \in Live' \ Live, NEW j \in Live, KeyAt(j) = job[p].key PROVE KeyAt(j) \in twinned
  BY <1>2, <1>3 DEF IInv, TwinsOK, HasKey
<1>4. ASSUME NEW i \in Live', NEW j \in Live', KeyAt(i) = KeyAt(j) PROVE i = j \/ KeyAt(i) \in twinned'
  <2>1. CASE i \in Live /\ j \in Live
    BY <1>1, <1>4, <2>1 DEF IInv, TwinsOK
  <2>2. CASE i \notin Live /\ j \notin Live
    BY <1>2, <1>4, <2>2
  <2>3. CASE i \notin Live /\ j \in Live
    BY <1>1, <1>2, <1>3, <1>4, <2>3
  <2>4. CASE i \in Live /\ j \notin Live
    BY <1>1, <1>2, <1>3, <1>4, <2>4
  <2>5. QED
    BY <2>1, <2>2, <2>3, <2>4
<1>5. ASSUME Cap, NEW q \in Calls, job'[q].at = "insert", job'[q].key \notin twinned'
      PROVE  /\ \A i \in Live' : KeyAt(i) # job'[q].key
             /\ \A r \in Calls : job'[r].at = "insert" /\ job'[r].key = job'[q].key => r = q
  <2>1. CASE q = p
    BY <1>1, <1>5, <2>1 DEF StepOK, Unique
  <2>2. CASE q # p
    <3>1. job'[q] = job[q] /\ job[q].key \notin twinned
      BY <1>1, <1>5, <2>2
    <3>2. /\ \A i \in Live : KeyAt(i) # job[q].key
          /\ \A r \in Calls : job[r].at = "insert" /\ job[r].key = job[q].key => r = q
      BY <1>5, <3>1 DEF IInv, TwinsOK
    <3>3. ASSUME NEW i \in Live' PROVE KeyAt(i) # job[q].key
      BY <1>2, <2>2, <3>2
    <3>4. ~(job'[p].at = "insert" /\ job'[p].key = job[q].key)
      BY <1>1, <1>5, <2>2, <3>1 DEF StepOK, Unique
    <3>5. QED
      BY <1>1, <3>1, <3>2, <3>3, <3>4
  <2>3. QED
    BY <2>1, <2>2
<1>6. QED
  BY <1>1, <1>4, <1>5 DEF TwinsOK

LEMMA StepKeeps ==
  ASSUME IInv, NEW p \in Calls, StepOK(p)
  PROVE  IInv'
<1>1. \A q \in Calls : CallOK(q)'
  BY OthersKeep DEF StepOK
<1>2. \A id \in Ids : IdOK(id)'
  BY RowsKeep
<1>3. QED
  BY <1>1, <1>2, PairsKeep, UnbornKeep, TwinsKeep DEF StepOK, IInv

-----------------------------------------------------------------------------
(* Steps that change neither rows nor vectors                              *)

(* The tables stay, but a call that gives up may say that a row has not    *)
(* got its vector.                                                         *)
Still(p) ==
  /\ UNCHANGED <<kind, rows, vecs, unsynced>>
  /\ raced \subseteq raced' /\ twinned \subseteq twinned'
  /\ failed \subseteq failed' /\ failed' \subseteq failed \union Behind(p)
  /\ Behind(p) \subseteq Behind(p)' \union failed'
  /\ \A q \in Calls \ {p} : job'[q] = job[q]

LEMMA StillKeeps ==
  ASSUME IInv, NEW p \in Calls, Still(p), Behind(p)' \subseteq {Subject(p)}
  PROVE  /\ Elsewhere(p) /\ Live' = Live
         /\ \A id \in Ids : IdOK(id)'
<1>1. Live' = Live /\ (Mem' <=> Mem) /\ (Cap' <=> Cap) /\ \A id \in Ids : VecsOf(id)' = VecsOf(id)
  BY DEF Still, Mem, Cap, VecsOf, Live
<1>2. Elsewhere(p)
  <2>1. \A id \in Ids : id # Subject(p) => id \notin Behind(p) /\ id \notin Behind(p)'
    BY Subjects
  <2>2. QED
    BY <1>1, <2>1 DEF Elsewhere, Still
<1>3. ASSUME NEW id \in Ids PROVE IdOK(id)'
  <2>1. IdOK(id)
    BY DEF IInv
  <2>2. FoundNow(id)' <=> FoundNow(id)
    BY <1>1 DEF FoundNow, Current, Still
  <2>3. ASSUME NEW q \in Calls, id \in Behind(q) PROVE id \in failed' \/ id \in Behind(q)'
    <3>1. CASE q = p
      BY <2>3, <3>1 DEF Still
    <3>2. CASE q # p
      BY <2>3, <3>2 DEF Still, Behind
    <3>3. QED
      BY <3>1, <3>2
  <2>4. id \in Live' => \/ id \in raced' \union failed' \union unsynced'
                        \/ \E q \in Calls : id \in Behind(q)'
                        \/ FoundNow(id)'
    BY <1>1, <2>1, <2>2, <2>3 DEF IdOK, Still
  <2>5. /\ ~Mem' /\ VecsOf(id)' # {} => id \in Live' \union raced'
        /\ id \in raced' \/ \A v, w \in VecsOf(id)' : v = w
        /\ Cap' => \A v \in VecsOf(id)' : vecs'[v].emb
    BY <1>1, <2>1 DEF IdOK, Still
  <2>6. QED
    BY <2>4, <2>5 DEF IdOK
<1>4. QED
  BY <1>1, <1>2, <1>3

(* A call that has nothing at hand.                                        *)
Rests(p) ==
  LET r == job'[p] IN
  /\ job' \in [Calls -> Records] /\ \A q \in Calls \ {p} : job'[q] = job[q]
  /\ r.at \in Restful /\ r.id = None /\ r.vec = None /\ r.task # "sync"
  /\ r.task = "import" => DOMAIN r.lines \subseteq Keys
                          /\ (r.at # "line" => r.key \notin DOMAIN r.lines)
  /\ r.at = "insert" => r.key \in Keys /\ (Cap => r.text \in Texts)
  /\ r.at \in {"insert", "update"} => r.text \in Words
  /\ \A k \in Keys : MayCreate(p, k)' =>
       MayCreate(p, k) /\ ~(job[p].at = "insert" /\ job[p].key = k)

LEMMA RestsOK ==
  ASSUME IInv, NEW p \in Calls, Rests(p), kind' = kind
  PROVE  CallOK(p)' /\ AtHand(p)' = {} /\ Behind(p)' = {}
<1>1. AtHand(p)' = {} /\ Behind(p)' = {}
  BY DEF Rests, AtHand, Listed, Behind, Restful
<1>2. Shape(job[p])' /\ ~SawNone(job[p])'
  BY DEF Rests, Shape, SawNone, Restful, Cap
<1>3. ~(job'[p].at \in Writing) /\ job'[p].task # "sync" /\ job'[p].vec = None
  BY DEF Rests, Restful, Writing
<1>4. QED
  BY <1>1, <1>2, <1>3 DEF CallOK

LEMMA StillRests ==
  ASSUME IInv, NEW p \in Calls, Rests(p), UNCHANGED <<kind, rows, vecs, unsynced>>,
         raced \subseteq raced', twinned \subseteq twinned',
         failed \union Behind(p) = failed',
         job'[p].at # "insert" \/ Unique(p)
  PROVE  StepOK(p)
<1>1. CallOK(p)' /\ AtHand(p)' = {} /\ Behind(p)' = {}
  BY RestsOK
<1>2. Still(p)
  BY <1>1 DEF Still, Rests
<1>3. /\ Elsewhere(p) /\ Live' = Live
      /\ \A id \in Ids : IdOK(id)'
  BY <1>1, <1>2, StillKeeps
<1>4. Handling(p)
  BY <1>1 DEF Handling
<1>5. Unique(p)
  BY <1>3 DEF Unique
<1>6. Typed'
  BY DEF IInv, Typed, Rests, Live
<1>7. QED
  BY <1>1, <1>3, <1>4, <1>5, <1>6 DEF StepOK, Rests

LEMMA EndedRests ==
  ASSUME IInv, NEW p \in Calls, Done(p)
  PROVE  Rests(p) /\ job'[p].at = "done"
<1>1. /\ job' \in [Calls -> Records] /\ \A q \in Calls \ {p} : job'[q] = job[q]
      /\ job'[p] = [Fresh EXCEPT !.at = "done"]
  BY Ended DEF IInv
<1>2. /\ job'[p].at = "done" /\ job'[p].id = None /\ job'[p].vec = None /\ job'[p].task = None
  BY <1>1 DEF Fresh
<1>3. QED
  BY <1>1, <1>2, NoneAssumption DEF Rests, Restful, MayCreate

LEMMA AdvancedRests ==
  ASSUME IInv, NEW p \in Calls, Advance(p), job[p].task # "sync", job[p].at # "idle"
  PROVE  Rests(p) /\ job'[p].at \in {"done", "line"}
<1>1. /\ job' \in [Calls -> Records] /\ \A q \in Calls \ {p} : job'[q] = job[q]
      /\ \/ job'[p] = [Fresh EXCEPT !.at = "done"]
         \/ job'[p] = [Fresh EXCEPT !.at = "line", !.task = job[p].task, !.lines = job[p].lines]
  BY Advanced DEF IInv
<1>2. CASE job'[p] = [Fresh EXCEPT !.at = "done"]
  <2>1. /\ job'[p].at = "done" /\ job'[p].id = None /\ job'[p].vec = None /\ job'[p].task = None
    BY <1>2 DEF Fresh
  <2>2. QED
    BY <1>1, <2>1, NoneAssumption DEF Rests, Restful, MayCreate
<1>3. CASE job'[p] = [Fresh EXCEPT !.at = "line", !.task = job[p].task, !.lines = job[p].lines]
  <2>1. /\ job'[p].at = "line" /\ job'[p].id = None /\ job'[p].vec = None
        /\ job'[p].task = job[p].task /\ job'[p].lines = job[p].lines
    BY <1>3 DEF Fresh
  <2>2. job[p].task = "import" => /\ DOMAIN job[p].lines \subseteq Keys
                                  /\ job[p].at = "insert" => job[p].key \notin DOMAIN job[p].lines
    BY DEF IInv, CallOK, Shape
  <2>3. QED
    BY <1>1, <2>1, <2>2 DEF Rests, Restful, MayCreate
<1>4. QED
  BY <1>1, <1>2, <1>3

(* Calls that give up, that die or that have done what they had to do.     *)
LEMMA GivesUp ==
  ASSUME IInv, NEW p \in Calls, Done(p) \/ (Advance(p) /\ job[p].task # "sync" /\ job[p].at # "idle"),
         UNCHANGED <<kind, rows, vecs, raced, twinned, unsynced>>,
         failed' = failed \union Behind(p)
  PROVE  StepOK(p)
<1>1. Rests(p) /\ job'[p].at # "insert"
  BY EndedRests, AdvancedRests
<1>2. QED
  BY <1>1, StillRests

(* Calls that begin, of which nothing is to be done yet.                   *)
LEMMA Begun ==
  ASSUME IInv, NEW p \in Calls, NEW r \in Records, Start(p, r)
  PROVE  /\ job' \in [Calls -> Records] /\ job'[p] = r
         /\ \A q \in Calls \ {p} : job'[q] = job[q]
         /\ job[p].at = "idle" /\ AtHand(p) = {} /\ Behind(p) = {} /\ Subject(p) = None
         /\ \A k \in Keys : MayCreate(p, k) /\ ~(job[p].at = "insert" /\ job[p].key = k)
<1>1. job[p].at = "idle" /\ Shape(job[p])
  BY DEF IInv, CallOK, Start
<1>2. job[p].id = None /\ job[p].task # "sync"
  BY <1>1 DEF Shape, Restful
<1>3. QED
  BY <1>1, <1>2, Went DEF IInv, Start, AtHand, Listed, Behind, Subject, MayCreate

-----------------------------------------------------------------------------
(* What calls of all three tables do                                       *)

(* A call that puts its row aside, and goes on or ends.                    *)
Leaves(p) ==
  /\ job' \in [Calls -> Records] /\ \A q \in Calls \ {p} : job'[q] = job[q]
  /\ AtHand(p)' \subseteq AtHand(p) /\ Behind(p)' = {} /\ job'[p].at # "insert"
  /\ CallOK(p)'
  /\ \A k \in Keys : MayCreate(p, k)' =>
       MayCreate(p, k) /\ ~(job[p].at = "insert" /\ job[p].key = k)

LEMMA RestsLeaves ==
  ASSUME IInv, NEW p \in Calls, kind' = kind,
         Done(p) \/ (Advance(p) /\ job[p].task # "sync" /\ job[p].at # "idle")
  PROVE  Leaves(p)
<1>1. Rests(p) /\ job'[p].at # "insert"
  BY EndedRests, AdvancedRests
<1>2. CallOK(p)' /\ AtHand(p)' = {} /\ Behind(p)' = {}
  BY <1>1, RestsOK
<1>3. QED
  BY <1>1, <1>2 DEF Leaves, Rests

LEMMA SyncLeaves ==
  ASSUME IInv, NEW p \in Calls, UNCHANGED <<kind, rows>>, raced \subseteq raced',
         job[p].task = "sync", SyncNext(p)
  PROVE  Leaves(p)
<1> DEFINE rest == Without(job[p].lines, {job[p].id})
           r    == [Fresh EXCEPT !.at = "embed", !.task = "sync", !.lines = rest]
<1>1. CASE Done(p)
  BY <1>1, RestsLeaves
<1>2. CASE Goto(p, r)
  <2>1. job[p] \in Records /\ Shape(job[p]) /\ CallOK(p)
    BY DEF IInv, Typed, CallOK
  <2>2. PICK lines \in Tables : lines = job[p].lines
    BY <2>1 DEF Records
  <2>3. DOMAIN lines \subseteq Ids /\ DOMAIN rest \subseteq DOMAIN lines /\ rest \in Tables
        /\ \A id \in DOMAIN rest : rest[id] = lines[id]
    BY <2>1, <2>2 DEF Shape, Tables, Without
  <2> HIDE DEF rest
  <2>4. r \in Records
    BY <2>3, FreshRecord DEF Records, Points, Tasks
  <2>5. job' \in [Calls -> Records] /\ job'[p] = r /\ \A q \in Calls \ {p} : job'[q] = job[q]
    BY <1>2, <2>4, Went DEF IInv
  <2>6. /\ job'[p].at = "embed" /\ job'[p].task = "sync" /\ job'[p].id = None
        /\ job'[p].vec = None /\ job'[p].lines = rest
    BY <2>5 DEF Fresh
  <2>7. AtHand(p)' \subseteq AtHand(p) /\ Behind(p)' = {}
    BY <2>1, <2>2, <2>3, <2>6 DEF AtHand, Listed, Behind
  <2>8. Shape(job[p])' /\ ~SawNone(job[p])'
    BY <2>2, <2>3, <2>6 DEF Shape, SawNone, Restful
  <2>9. \A id \in DOMAIN rest \ raced' : rest[id] = rows'[id]
    BY <2>1, <2>2, <2>3 DEF CallOK
  <2>10. AtHand(p)' \subseteq Live' \union raced'
    BY <2>1, <2>7 DEF CallOK, Live
  <2>11. CallOK(p)'
    BY <2>6, <2>8, <2>9, <2>10 DEF CallOK
  <2>12. \A k \in Keys : ~MayCreate(p, k)'
    BY <2>6 DEF MayCreate
  <2>13. QED
    BY <2>5, <2>6, <2>7, <2>11, <2>12 DEF Leaves
<1>3. QED
  BY <1>1, <1>2 DEF SyncNext

(* The tables stay as they are.                                            *)
LEMMA StillLeaves ==
  ASSUME IInv, NEW p \in Calls, Leaves(p),
         UNCHANGED <<kind, rows, vecs, raced, twinned, unsynced>>,
         failed' = failed \union Behind(p)
  PROVE  StepOK(p)
<1>1. Still(p)
  BY DEF Still, Leaves
<1>2. /\ Elsewhere(p) /\ Live' = Live
      /\ \A id \in Ids : IdOK(id)'
  BY <1>1, StillKeeps DEF Leaves
<1>3. Handling(p) /\ Unique(p)
  BY <1>2 DEF Handling, Unique, Leaves
<1>4. Typed'
  BY DEF IInv, Typed, Leaves, Live
<1>5. QED
  BY <1>2, <1>3, <1>4 DEF StepOK, Leaves

(* A call that looks at a row and keeps it at hand.                        *)
LEMMA TakesRow ==
  ASSUME IInv, NEW p \in Calls, NEW r \in Records, Goto(p, r),
         r.at \in {"update", "delete"}, r.id \in Live, r.vec = None, r.task # "sync",
         r.at = "update" => r.text \in Words,
         r.task = "import" => DOMAIN r.lines \subseteq Keys /\ r.key \notin DOMAIN r.lines,
         \A k \in Keys : r.task = "import" /\ k \in DOMAIN r.lines => MayCreate(p, k),
         job[p].at \in {"idle", "line"}, Takes(p, {r.id}),
         UNCHANGED <<kind, rows, vecs, twinned, failed, unsynced>>
  PROVE  StepOK(p)
<1>1. job' \in [Calls -> Records] /\ job'[p] = r /\ \A q \in Calls \ {p} : job'[q] = job[q]
  BY Went DEF IInv
<1>2. Behind(p) = {} /\ Behind(p)' = {} /\ raced' = raced \union ({r.id} \cap Others(p))
  BY <1>1 DEF Behind, Takes
<1>3. Still(p)
  BY <1>1, <1>2 DEF Still
<1>4. /\ Elsewhere(p) /\ Live' = Live
      /\ \A id \in Ids : IdOK(id)'
  BY <1>2, <1>3, StillKeeps
<1>5. AtHand(p)' \subseteq {r.id}
  BY <1>1 DEF AtHand, Listed
<1>6. Handling(p) /\ Unique(p)
  BY <1>1, <1>2, <1>4, <1>5 DEF Handling, Unique
<1>7. r.id \in Ids
  BY DEF IInv, Typed
<1>8. CallOK(p)'
  <2>1. Shape(r)' /\ ~SawNone(r)
    BY <1>7 DEF Shape, SawNone, Restful
  <2>2. QED
    BY <1>1, <1>4, <1>5, <2>1 DEF CallOK, Writing, Shape, SawNone
<1>9. Typed'
  BY <1>1 DEF IInv, Typed, Live
<1>10. \A k \in Keys : MayCreate(p, k)' => MayCreate(p, k) /\ ~(job[p].at = "insert" /\ job[p].key = k)
  BY <1>1 DEF MayCreate
<1>11. QED
  BY <1>1, <1>2, <1>4, <1>6, <1>8, <1>9, <1>10 DEF StepOK

(* A sync begins: all rows come to hand.                                   *)
LEMMA SyncBegins ==
  ASSUME IInv, NEW p \in Calls,
         Start(p, [Fresh EXCEPT !.at = "embed", !.task = "sync", !.lines = rows]), Takes(p, Live),
         UNCHANGED <<kind, rows, vecs, twinned, failed, unsynced>>
  PROVE  StepOK(p)
<1>1. PICK r \in Records : r = [Fresh EXCEPT !.at = "embed", !.task = "sync", !.lines = rows]
  BY FreshRecord DEF Records, Points, Tasks, IInv, Typed
<1>2. /\ r.at = "embed" /\ r.task = "sync" /\ r.id = None /\ r.vec = None /\ r.lines = rows
  BY <1>1 DEF Fresh
<1>3. /\ job' \in [Calls -> Records] /\ job'[p] = r
      /\ \A q \in Calls \ {p} : job'[q] = job[q]
      /\ job[p].at = "idle" /\ AtHand(p) = {} /\ Behind(p) = {} /\ Subject(p) = None
      /\ \A k \in Keys : MayCreate(p, k) /\ ~(job[p].at = "insert" /\ job[p].key = k)
  BY <1>1, Begun
<1>4. Behind(p)' = {} /\ raced' = raced \union (Live \cap Others(p))
  BY <1>2, <1>3 DEF Behind, Takes
<1>5. Still(p)
  BY <1>3, <1>4 DEF Still
<1>6. /\ Elsewhere(p) /\ Live' = Live
      /\ \A id \in Ids : IdOK(id)'
  BY <1>4, <1>5, StillKeeps
<1>7. AtHand(p)' = Live
  BY <1>2, <1>3 DEF AtHand, Listed, Live
<1>8. Handling(p) /\ Unique(p)
  BY <1>2, <1>3, <1>4, <1>6, <1>7 DEF Handling, Unique
<1>9. CallOK(p)'
  <2>1. Shape(r)' /\ ~SawNone(r)
    BY <1>2 DEF Shape, SawNone, Restful, Live, IInv, Typed
  <2>2. QED
    BY <1>2, <1>3, <1>6, <1>7, <2>1 DEF CallOK, Shape, SawNone, Live
<1>10. Typed'
  BY <1>3 DEF IInv, Typed, Live
<1>11. QED
  BY <1>3, <1>4, <1>6, <1>8, <1>9, <1>10 DEF StepOK

(* A call that goes on with what it has at hand.                           *)
LEMMA MovesOn ==
  ASSUME IInv, NEW p \in Calls, job' \in [Calls -> Records],
         \A q \in Calls \ {p} : job'[q] = job[q],
         AtHand(p)' \subseteq AtHand(p), Behind(p)' \subseteq {Subject(p)},
         Behind(p) \subseteq Behind(p)', CallOK(p)', job'[p].at \notin {"insert", "idle"},
         job'[p].task = job[p].task, job'[p].lines = job[p].lines, job[p].at # "insert",
         UNCHANGED <<kind, rows, vecs, twinned, failed, unsynced>>, raced \subseteq raced'
  PROVE  StepOK(p)
<1>1. Still(p)
  BY DEF Still
<1>2. /\ Elsewhere(p) /\ Live' = Live
      /\ \A id \in Ids : IdOK(id)'
  BY <1>1, StillKeeps
<1>3. Handling(p) /\ Unique(p)
  BY <1>2 DEF Handling, Unique
<1>4. Typed'
  BY DEF IInv, Typed, Live
<1>5. \A k \in Keys : MayCreate(p, k)' => MayCreate(p, k) /\ ~(job[p].at = "insert" /\ job[p].key = k)
  BY DEF MayCreate
<1>6. QED
  BY <1>2, <1>3, <1>4, <1>5 DEF StepOK

(* A sync turns to one of its rows.                                        *)
LEMMA SyncPicks ==
  ASSUME IInv, NEW p \in Calls, At(p, "sync", "embed"), NEW id \in DOMAIN job[p].lines,
         NEW some \in BOOLEAN,
         \/ Goto(p, [job[p] EXCEPT !.at = "find", !.id = id, !.text = job[p].lines[id],
                                   !.emb = some])
         \/ Goto(p, [job[p] EXCEPT !.at = "find", !.id = id, !.text = job[p].lines[id]]),
         UNCHANGED <<kind, rows, vecs, ghosts>>
  PROVE  StepOK(p)
<1>1. job[p] \in Records /\ Shape(job[p]) /\ CallOK(p) /\ job[p].at = "embed" /\ job[p].task = "sync"
  BY DEF IInv, Typed, CallOK, At
<1>2. PICK lines \in Tables : lines = job[p].lines
  BY <1>1 DEF Records
<1>3. DOMAIN lines \subseteq Ids /\ id \in Ids /\ lines[id] \in Words
  BY <1>1, <1>2 DEF Shape, Tables
<1>4. PICK w \in Words : w = job[p].lines[id]
  BY <1>2, <1>3
<1>5. PICK r \in Records :
        /\ Goto(p, r)
        /\ \/ r = [job[p] EXCEPT !.at = "find", !.id = id, !.text = w, !.emb = some]
           \/ r = [job[p] EXCEPT !.at = "find", !.id = id, !.text = w]
  <2>1. /\ [job[p] EXCEPT !.at = "find", !.id = id, !.text = w, !.emb = some] \in Records
        /\ [job[p] EXCEPT !.at = "find", !.id = id, !.text = w] \in Records
    BY <1>1, <1>3 DEF Records, Points
  <2>2. QED
    BY <1>4, <2>1
<1>6. /\ r.at = "find" /\ r.task = "sync" /\ r.id = id /\ r.text = w /\ r.lines = job[p].lines
      /\ r.vec = None
  BY <1>1, <1>5 DEF Records, Shape
<1>7. job' \in [Calls -> Records] /\ job'[p] = r /\ \A q \in Calls \ {p} : job'[q] = job[q]
  BY <1>5, Went DEF IInv
<1>8. AtHand(p)' = AtHand(p) /\ Behind(p)' = {} /\ Behind(p) = {}
  <2>1. job[p].id = None
    BY <1>1 DEF Shape
  <2>2. QED
    BY <1>1, <1>3, <1>6, <1>7, <2>1, NoneAssumption DEF AtHand, Listed, Behind
<1>9. CallOK(p)'
  <2>1. Shape(r)' /\ ~SawNone(r)
    BY <1>2, <1>3, <1>4, <1>6 DEF Shape, SawNone, Restful
  <2>2. QED
    BY <1>1, <1>6, <1>7, <1>8, <2>1 DEF CallOK, Shape, SawNone, Live, ghosts
<1>10. QED
  BY <1>1, <1>6, <1>7, <1>8, <1>9, MovesOn DEF ghosts

(* The vector of the row is looked for.                                    *)
LEMMA FindsVec ==
  ASSUME IInv, NEW p \in Calls, job[p].at = "find", NEW next \in {"renew", "save"},
         NEW v \in VecsOf(job[p].id) \union {None}, FindVec(p, v, next),
         UNCHANGED <<kind, rows, vecs, twinned, failed, unsynced>>
  PROVE  StepOK(p)
<1>1. job[p] \in Records /\ Shape(job[p]) /\ CallOK(p)
  BY DEF IInv, Typed, CallOK
<1>2. (v \in DOMAIN vecs /\ v \in Vids /\ Of(v) = job[p].id) \/ v = None
  BY DEF VecsOf, IInv, Typed
<1>3. PICK r \in Records : r = [job[p] EXCEPT !.at = next, !.vec = v]
  BY <1>1, <1>2 DEF Records, Points
<1>4. /\ r.at = next /\ r.vec = v /\ r.id = job[p].id /\ r.task = job[p].task
      /\ r.lines = job[p].lines /\ r.text = job[p].text /\ r.key = job[p].key
  BY <1>1, <1>3 DEF Records
<1>5. job' \in [Calls -> Records] /\ job'[p] = r /\ \A q \in Calls \ {p} : job'[q] = job[q]
  BY <1>3, Went DEF IInv, FindVec
<1>6. AtHand(p)' = AtHand(p) /\ Behind(p)' = Behind(p)
  BY <1>4, <1>5 DEF AtHand, Listed, Behind
<1>7. raced \subseteq raced' /\ (v = None => VecsOf(job[p].id) = {} \/ job[p].id \in raced')
  BY DEF FindVec
<1>8. VecsOf(r.id)' = VecsOf(job[p].id)
  BY <1>4 DEF VecsOf
<1>9. CallOK(p)'
  <2>1. Shape(r)'
    BY <1>1, <1>2, <1>4 DEF Shape, Restful, Cap
  <2>2. SawNone(r) => v = None
    BY <1>4 DEF SawNone
  <2>3. SawNone(r) => r.id \in raced' \/ VecsOf(r.id)' = {}
    BY <1>4, <1>7, <1>8, <2>2
  <2>4. r.task # "sync" => r.id \in raced' \/ r.text = rows'[r.id]
    BY <1>1, <1>4, <1>7 DEF CallOK, Writing
  <2>5. r.task = "sync" => \A id \in DOMAIN r.lines \ raced' : r.lines[id] = rows'[id]
    BY <1>1, <1>4, <1>7 DEF CallOK
  <2>6. Mem' /\ r.vec # None => r.vec \in DOMAIN vecs'
    BY <1>2, <1>4
  <2>7. AtHand(p)' \subseteq Live' \union raced'
    BY <1>1, <1>6, <1>7 DEF CallOK, Live
  <2>8. Shape(job[p])' /\ (SawNone(job[p])' <=> SawNone(r)) /\ VecsOf(job[p].id)' = VecsOf(r.id)'
    BY <1>5, <2>1 DEF Shape, SawNone, VecsOf, Cap
  <2>9. QED
    BY <1>5, <2>3, <2>4, <2>5, <2>6, <2>7, <2>8 DEF CallOK
<1>10. QED
  BY <1>4, <1>5, <1>6, <1>7, <1>9, Subjects, MovesOn

(* An embedding was made, for a row that has just been created or a vector *)
(* that is to be renewed.                                                  *)
LEMMA Embeds ==
  ASSUME IInv, NEW p \in Calls, NEW next \in {"vector", "save"}, NEW some \in BOOLEAN,
         \/ next = "vector" /\ job[p].at = "embed" /\ job[p].task # "sync"
         \/ next = "save" /\ job[p].at = "renew",
         \/ Goto(p, [job[p] EXCEPT !.at = next, !.emb = some])
         \/ Goto(p, [job[p] EXCEPT !.at = next]),
         UNCHANGED <<kind, rows, vecs, ghosts>>
  PROVE  StepOK(p)
<1>1. job[p] \in Records /\ Shape(job[p]) /\ CallOK(p)
  BY DEF IInv, Typed, CallOK
<1>2. PICK r \in Records :
        /\ Goto(p, r)
        /\ r = [job[p] EXCEPT !.at = next, !.emb = some] \/ r = [job[p] EXCEPT !.at = next]
  <2>1. /\ [job[p] EXCEPT !.at = next, !.emb = some] \in Records
        /\ [job[p] EXCEPT !.at = next] \in Records
    BY <1>1 DEF Records, Points
  <2>2. QED
    BY <2>1
<1>3. /\ r.at = next /\ r.vec = job[p].vec /\ r.id = job[p].id /\ r.task = job[p].task
      /\ r.lines = job[p].lines /\ r.text = job[p].text /\ r.key = job[p].key
  BY <1>1, <1>2 DEF Records
<1>4. job' \in [Calls -> Records] /\ job'[p] = r /\ \A q \in Calls \ {p} : job'[q] = job[q]
  BY <1>2, Went DEF IInv
<1>5. AtHand(p)' = AtHand(p) /\ Behind(p)' = Behind(p)
  BY <1>3, <1>4 DEF AtHand, Listed, Behind
<1>6. CallOK(p)'
  <2>1. Shape(r)' /\ (SawNone(r) => SawNone(job[p]))
    BY <1>1, <1>3 DEF Shape, Restful, Cap, SawNone
  <2>2. r.at \in Writing /\ job[p].at \in Writing
    BY <1>3 DEF Writing
  <2>3. Shape(job[p])' /\ (SawNone(job[p])' <=> SawNone(r)) /\ VecsOf(job[p].id)' = VecsOf(job[p].id)
    BY <1>3, <1>4, <2>1 DEF Shape, SawNone, VecsOf, Cap
  <2>4. QED
    BY <1>1, <1>3, <1>4, <1>5, <2>1, <2>2, <2>3 DEF CallOK, ghosts, Live, Mem
<1>7. QED
  BY <1>3, <1>4, <1>5, <1>6, Subjects, MovesOn DEF ghosts

(* Every row but one, and what hangs on it, is left alone.                 *)
LEMMA OneRow ==
  ASSUME IInv, NEW p \in Calls, NEW id \in Ids, Subject(p) = id, Leaves(p),
         rows' \in Tables, Live' \subseteq Live,
         \A i \in Live \ {id} : i \in Live' /\ rows'[i] = rows[i],
         DOMAIN vecs' \subseteq Vids,
         \A i \in Ids \ {id} : VecsOf(i)' = VecsOf(i) /\ \A v \in VecsOf(i) : vecs'[v] = vecs[v],
         \A i \in Ids \ {id} : (i \in failed' <=> i \in failed) /\ (i \in unsynced' <=> i \in unsynced),
         Mem => DOMAIN vecs \subseteq DOMAIN vecs',
         UNCHANGED <<kind, raced, twinned>>, IdOK(id)'
  PROVE  StepOK(p)
<1>1. Elsewhere(p)
  BY DEF Elsewhere, Leaves
<1>2. Handling(p) /\ Unique(p)
  BY DEF Handling, Unique, Leaves
<1>3. Typed'
  BY DEF IInv, Typed, Leaves
<1>4. QED
  BY <1>1, <1>2, <1>3 DEF StepOK, Leaves

(* The vector of a row is written: a new one if none was seen, or the one  *)
(* that was.                                                               *)
LEMMA Puts ==
  ASSUME IInv, NEW p \in Calls, job[p].at \in {"vector", "save"}, NEW v, NEW s, NEW emb \in BOOLEAN,
         \/ v = NewVec(p) /\ SawNone(job[p])
         \/ v = job[p].vec /\ v \in DOMAIN vecs,
         s = job[p].text \/ s = HeadOnly, Cap => emb,
         PutVec(v, s, emb), Leaves(p), UNCHANGED <<kind, rows, raced, twinned>>,
         unsynced' \in {unsynced, unsynced \ {job[p].id}}
  PROVE  StepOK(p)
<1>1. job[p] \in Records /\ Shape(job[p]) /\ CallOK(p)
  BY DEF IInv, Typed, CallOK
<1>2. PICK id \in Ids : id = job[p].id /\ Subject(p) = id /\ id \in AtHand(p)
  BY <1>1, NoneAssumption DEF Shape, Restful, Subject, AtHand
<1>3. v \in Vids /\ Of(v) = id
  <2>1. CASE v = NewVec(p)
    BY <1>2, <2>1 DEF NewVec, Vids, Of
  <2>2. CASE v = job[p].vec /\ v \in DOMAIN vecs
    BY <1>1, <1>2, <2>2, NoneAssumption DEF Shape, IInv, Typed
  <2>3. QED
    BY <2>1, <2>2
<1>4. /\ DOMAIN vecs' = DOMAIN vecs \union {v}
      /\ vecs'[v] = [subject |-> s, emb |-> emb]
      /\ \A w \in DOMAIN vecs \ {v} : vecs'[w] = vecs[w]
  BY DEF PutVec, With
<1>5. VecsOf(id)' = VecsOf(id) \union {v} /\ \A i \in Ids \ {id} : VecsOf(i)' = VecsOf(i)
  BY <1>3, <1>4 DEF VecsOf
<1>6. (Mem' <=> Mem) /\ (Cap' <=> Cap) /\ Live' = Live
  BY DEF Mem, Cap, Live
<1>7. IdOK(id)'
  <2>1. id \in Live' \union raced'
    BY <1>1, <1>2, <1>6 DEF CallOK
  <2>2. id \in raced' \/ \A w, x \in VecsOf(id)' : w = x
    <3>1. CASE id \in raced
      BY <3>1
    <3>2. CASE id \notin raced /\ v = NewVec(p) /\ SawNone(job[p])
      <4>1. VecsOf(id) = {}
        BY <1>1, <1>2, <3>2 DEF CallOK
      <4>2. QED
        BY <1>5, <4>1
    <3>3. CASE id \notin raced /\ v \in DOMAIN vecs
      <4>1. v \in VecsOf(id)
        BY <1>3, <3>3 DEF VecsOf
      <4>2. QED
        BY <1>5, <3>3, <4>1 DEF IInv, IdOK
    <3>4. QED
      BY <3>1, <3>2, <3>3
  <2>3. Cap' => \A w \in VecsOf(id)' : vecs'[w].emb
    <3>1. Cap => \A w \in VecsOf(id) : vecs[w].emb
      BY DEF IInv, IdOK
    <3>2. QED
      BY <1>4, <1>5, <1>6, <3>1 DEF VecsOf
  <2>4. id \in Live' => id \in raced' \union failed' \/ FoundNow(id)'
    <3>1. CASE id \in raced
      BY <3>1
    <3>2. CASE ~emb
      BY <1>3, <3>2 DEF PutVec
    <3>3. CASE emb /\ id \notin raced
      <4>1. job[p].text = rows[id]
        BY <1>1, <1>2, <3>3 DEF CallOK, Shape, Writing
      <4>2. Current(id, s)'
        BY <4>1 DEF Current
      <4>3. QED
        BY <1>4, <1>5, <3>3, <4>2 DEF FoundNow, Current
    <3>4. QED
      BY <3>1, <3>2, <3>3
  <2>5. QED
    BY <2>1, <2>2, <2>3, <2>4 DEF IdOK
<1>8. \A i \in Ids \ {id} : \A w \in VecsOf(i) : vecs'[w] = vecs[w]
  BY <1>3, <1>4 DEF VecsOf
<1>9. \A i \in Ids \ {id} : (i \in failed' <=> i \in failed) /\ (i \in unsynced' <=> i \in unsynced)
  BY <1>2, <1>3 DEF PutVec
<1>10. DOMAIN vecs' \subseteq Vids
  BY <1>3, <1>4 DEF IInv, Typed
<1>11. QED
  BY <1>2, <1>4, <1>5, <1>6, <1>7, <1>8, <1>9, <1>10, OneRow DEF IInv, Typed

(* A row is deleted, and with it its vectors; but those of memories stay.  *)
LEMMA Removes ==
  ASSUME IInv, NEW p \in Calls, job[p].at = "delete", Leaves(p),
         rows' = Without(rows, {job[p].id}),
         IF Mem THEN vecs' = vecs ELSE vecs' = Without(vecs, VecsOf(job[p].id)),
         UNCHANGED <<kind, ghosts>>
  PROVE  StepOK(p)
<1>1. Shape(job[p])
  BY DEF IInv, CallOK
<1>2. PICK id \in Ids : id = job[p].id /\ Subject(p) = id
  BY <1>1 DEF Shape, Restful, Subject
<1>3. rows' \in Tables /\ Live' = Live \ {id} /\ \A i \in Live \ {id} : rows'[i] = rows[i]
  <2>1. SkipAI \in Words /\ rows \in Tables /\ id \in Keys \union Ids
    BY DEF Words, IInv, Typed
  <2>2. /\ Without(rows, {id}) \in Tables /\ DOMAIN Without(rows, {id}) = DOMAIN rows \ {id}
        /\ \A i \in DOMAIN rows \ {id} : Without(rows, {id})[i] = rows[i]
    BY <2>1, TableLess
  <2>3. QED
    BY <1>2, <2>2 DEF Live
<1>4. /\ DOMAIN vecs' \subseteq DOMAIN vecs
      /\ \A i \in Ids \ {id} : VecsOf(i)' = VecsOf(i) /\ \A v \in VecsOf(i) : vecs'[v] = vecs[v]
      /\ Mem \/ VecsOf(id)' = {}
  BY <1>2 DEF VecsOf, Without
<1>5. IdOK(id)'
  <2>1. id \in raced' \/ \A v, w \in VecsOf(id)' : v = w
    BY <1>4 DEF IInv, IdOK, VecsOf, ghosts
  <2>2. (Mem' <=> Mem) /\ (Cap' => VecsOf(id)' = {})
    BY <1>4 DEF Mem, Cap
  <2>3. QED
    BY <1>3, <1>4, <2>1, <2>2 DEF IdOK
<1>6. DOMAIN vecs' \subseteq Vids
  BY <1>4 DEF IInv, Typed
<1>7. Mem => DOMAIN vecs \subseteq DOMAIN vecs'
  OBVIOUS
<1>8. QED
  BY <1>2, <1>3, <1>4, <1>5, <1>6, <1>7, OneRow DEF ghosts

(* A row is created: its vector is yet to be made.                         *)
LEMMA InsertsRow ==
  ASSUME IInv, NEW p \in Calls, job[p].at = "insert", NEW w \in Words, InsertRow(p, w),
         Cap \/ ~HasKey(job[p].key),
         UNCHANGED <<kind, vecs, raced, twinned, unsynced>>
  PROVE  StepOK(p)
<1>1. job[p] \in Records /\ Shape(job[p]) /\ CallOK(p)
  BY DEF IInv, Typed, CallOK
<1>2. PICK id \in Ids : id = <<job[p].key, p>> /\ Subject(p) = id
  BY <1>1 DEF Shape, Subject, Ids
<1>3. PICK r \in Records : r = [job[p] EXCEPT !.at = "embed", !.id = id, !.text = w]
  BY <1>1 DEF Records, Points
<1>4. /\ r.at = "embed" /\ r.id = id /\ r.text = w /\ r.key = job[p].key
      /\ r.task = job[p].task /\ r.lines = job[p].lines /\ r.vec = job[p].vec
  BY <1>1, <1>3 DEF Records
<1>5. job' \in [Calls -> Records] /\ job'[p] = r /\ \A q \in Calls \ {p} : job'[q] = job[q]
  BY <1>2, <1>3, Went DEF IInv, InsertRow
<1>6. r.vec = None /\ r.task # "sync" /\ job[p].key \in Keys
  BY <1>1, <1>4 DEF Shape
<1>7. /\ id \notin Live /\ rows' \in Tables /\ Live' = Live \union {id} /\ rows'[id] = w
      /\ \A i \in Live : i # id /\ rows'[i] = rows[i]
  <2>1. rows \in Tables /\ id \in Keys \union Ids
    BY DEF IInv, Typed
  <2>2. /\ With(rows, id, w) \in Tables /\ DOMAIN With(rows, id, w) = DOMAIN rows \union {id}
        /\ With(rows, id, w)[id] = w
        /\ \A i \in DOMAIN rows \ {id} : With(rows, id, w)[i] = rows[i]
    BY <2>1, TableMore
  <2>3. id \notin Live /\ rows' = With(rows, id, w)
    BY <1>2 DEF InsertRow
  <2>4. QED
    BY <2>2, <2>3 DEF Live
<1>8. VecsOf(id) = {} /\ \A i \in Ids : VecsOf(i)' = VecsOf(i)
  <2>1. MayCreate(p, job[p].key)
    BY DEF MayCreate
  <2>2. VecsOf(id) = {}
    BY <1>2, <1>6, <2>1 DEF IInv, UnbornOK
  <2>3. QED
    BY <2>2 DEF VecsOf
<1>9. AtHand(p)' = {id} /\ Behind(p)' = {id}
  BY <1>4, <1>5, <1>6, NoneAssumption DEF AtHand, Listed, Behind
<1>10. (Mem' <=> Mem) /\ (Cap' <=> Cap)
  BY DEF Mem, Cap
<1>11. Elsewhere(p)
  BY <1>2, <1>7, <1>8, <1>9 DEF Elsewhere, InsertRow
<1>12. Handling(p)
  BY <1>2, <1>9 DEF Handling
<1>13. Unique(p)
  BY <1>2, <1>4, <1>5, <1>7 DEF Unique
<1>14. IdOK(id)'
  BY <1>5, <1>7, <1>8, <1>9 DEF IdOK
<1>15. CallOK(p)'
  <2>1. Shape(r)' /\ SawNone(r)
    BY <1>1, <1>4, <1>6 DEF Shape, SawNone, Restful
  <2>2. VecsOf(job[p].id)' = {v \in DOMAIN vecs' : Of(v) = job'[p].id}
    BY DEF VecsOf
  <2>3. VecsOf(job[p].id)' = {}
    BY <1>4, <1>5, <1>8, <2>2 DEF VecsOf
  <2>4. Shape(job[p])'
    BY <1>5, <2>1 DEF Shape, Cap
  <2>5. QED
    BY <1>4, <1>5, <1>6, <1>7, <1>9, <2>3, <2>4 DEF CallOK
<1>16. Typed'
  BY <1>5, <1>7 DEF IInv, Typed
<1>17. \A k \in Keys : MayCreate(p, k)' => MayCreate(p, k) /\ ~(job[p].at = "insert" /\ job[p].key = k)
  BY <1>1, <1>4, <1>5 DEF MayCreate, Shape
<1>18. QED
  BY <1>2, <1>5, <1>11, <1>12, <1>13, <1>14, <1>15, <1>16, <1>17 DEF StepOK

(* A row is given another text.                                            *)
LEMMA Rewritten ==
  ASSUME IInv, NEW p \in Calls, job[p].at = "update", job[p].id \in Live,
         rows' = [rows EXCEPT ![job[p].id] = job[p].text]
  PROVE  \E id \in Live : /\ id \in Ids /\ id = job[p].id /\ Subject(p) = id
                          /\ rows' \in Tables /\ Live' = Live /\ rows'[id] = job[p].text
                          /\ \A i \in Live \ {id} : rows'[i] = rows[i]
<1>1. Shape(job[p]) /\ job[p].text \in Words
  BY DEF IInv, CallOK, Shape
<1>2. PICK id \in Live : id = job[p].id /\ id \in Ids
  BY DEF IInv, Typed
<1>3. PICK w \in Words : w = job[p].text
  BY <1>1
<1>4. rows \in Tables /\ id \in Keys \union Ids /\ id \in DOMAIN rows
  BY <1>2 DEF IInv, Typed, Live
<1>5. /\ [rows EXCEPT ![id] = w] \in Tables /\ DOMAIN [rows EXCEPT ![id] = w] = DOMAIN rows
      /\ [rows EXCEPT ![id] = w][id] = w
      /\ \A i \in DOMAIN rows \ {id} : [rows EXCEPT ![id] = w][i] = rows[i]
  BY <1>4, TableSet
<1>6. QED
  BY <1>2, <1>3, <1>5 DEF Subject, Live

(* Of documents and memories only the next sync makes the vector follow.   *)
LEMMA UpdatesRow ==
  ASSUME IInv, NEW p \in Calls, job[p].at = "update", job[p].id \in Live,
         rows' = [rows EXCEPT ![job[p].id] = job[p].text], Leaves(p),
         unsynced' = IF rows[job[p].id] # job[p].text THEN unsynced \union {job[p].id} ELSE unsynced,
         UNCHANGED <<kind, vecs, raced, twinned, failed>>
  PROVE  StepOK(p)
<1>1. PICK id \in Live : /\ id \in Ids /\ id = job[p].id /\ Subject(p) = id
                         /\ rows' \in Tables /\ Live' = Live /\ rows'[id] = job[p].text
                         /\ \A i \in Live \ {id} : rows'[i] = rows[i]
  BY Rewritten
<1>2. (Mem' <=> Mem) /\ (Cap' <=> Cap) /\ \A i \in Ids : VecsOf(i)' = VecsOf(i)
  BY DEF Mem, Cap, VecsOf
<1>3. IdOK(id)'
  <2>1. IdOK(id)
    BY <1>1 DEF IInv
  <2>2. /\ ~Mem' /\ VecsOf(id)' # {} => id \in Live' \union raced'
        /\ id \in raced' \/ \A v, w \in VecsOf(id)' : v = w
        /\ Cap' => \A v \in VecsOf(id)' : vecs'[v].emb
    BY <1>1, <1>2, <2>1 DEF IdOK
  <2>3. \/ id \in raced' \union failed' \union unsynced'
        \/ \E q \in Calls : id \in Behind(q)'
        \/ FoundNow(id)'
    <3>1. CASE rows[id] # job[p].text
      BY <1>1, <3>1
    <3>2. CASE rows[id] = job[p].text
      <4>1. FoundNow(id) => FoundNow(id)'
        BY <1>1, <1>2, <3>2 DEF FoundNow, Current
      <4>2. ASSUME NEW q \in Calls, id \in Behind(q) PROVE id \in Behind(q)'
        <5>1. q # p
          BY <4>2 DEF Behind
        <5>2. QED
          BY <4>2, <5>1 DEF Leaves, Behind
      <4>3. unsynced' = unsynced
        BY <1>1, <3>2
      <4>4. QED
        BY <2>1, <4>1, <4>2, <4>3 DEF IdOK
    <3>3. QED
      BY <3>1, <3>2
  <2>4. QED
    BY <2>2, <2>3 DEF IdOK
<1>4. QED
  BY <1>1, <1>2, <1>3, OneRow DEF IInv, Typed

(* Of capabilities the call itself goes on to see to it.                   *)
LEMMA Renews ==
  ASSUME IInv, NEW p \in Calls, job[p].at = "update", job[p].id \in Live, job[p].task # "sync",
         rows' = [rows EXCEPT ![job[p].id] = job[p].text],
         Goto(p, [job[p] EXCEPT !.at = "find"]),
         UNCHANGED <<kind, vecs, ghosts>>
  PROVE  StepOK(p)
<1>1. PICK id \in Live : /\ id \in Ids /\ id = job[p].id /\ Subject(p) = id
                         /\ rows' \in Tables /\ Live' = Live /\ rows'[id] = job[p].text
                         /\ \A i \in Live \ {id} : rows'[i] = rows[i]
  BY Rewritten
<1>2. job[p] \in Records /\ Shape(job[p]) /\ CallOK(p)
  BY DEF IInv, Typed, CallOK
<1>3. PICK r \in Records : r = [job[p] EXCEPT !.at = "find"]
  BY <1>2 DEF Records, Points
<1>4. /\ r.at = "find" /\ r.id = id /\ r.text = job[p].text /\ r.key = job[p].key
      /\ r.task = job[p].task /\ r.lines = job[p].lines /\ r.vec = job[p].vec
  BY <1>1, <1>2, <1>3 DEF Records
<1>5. job' \in [Calls -> Records] /\ job'[p] = r /\ \A q \in Calls \ {p} : job'[q] = job[q]
  BY <1>3, Went DEF IInv
<1>6. (Mem' <=> Mem) /\ (Cap' <=> Cap) /\ \A i \in Ids : VecsOf(i)' = VecsOf(i)
  BY DEF Mem, Cap, VecsOf
<1>7. AtHand(p)' = {id} /\ Behind(p)' = {id} /\ AtHand(p) = {id}
  BY <1>1, <1>4, <1>5, NoneAssumption DEF AtHand, Listed, Behind
<1>8. Elsewhere(p)
  BY <1>1, <1>6, <1>7 DEF Elsewhere, ghosts
<1>9. Handling(p) /\ Unique(p)
  BY <1>1, <1>4, <1>5, <1>7 DEF Handling, Unique
<1>10. IdOK(id)'
  <2>1. IdOK(id)
    BY <1>1 DEF IInv
  <2>2. QED
    BY <1>1, <1>6, <1>7, <2>1 DEF IdOK, ghosts
<1>11. CallOK(p)'
  <2>1. r.vec = None /\ ~SawNone(r)
    BY <1>2, <1>4 DEF Shape, SawNone
  <2>2. Shape(r)'
    BY <1>1, <1>2, <1>4, <2>1 DEF Shape, Restful
  <2>3. Shape(job[p])' /\ ~SawNone(job[p])'
    BY <1>5, <2>1, <2>2 DEF Shape, SawNone, Cap
  <2>4. QED
    BY <1>1, <1>4, <1>5, <1>7, <2>1, <2>3 DEF CallOK
<1>12. Typed'
  BY <1>1, <1>5 DEF IInv, Typed
<1>13. \A k \in Keys : MayCreate(p, k)' => MayCreate(p, k) /\ ~(job[p].at = "insert" /\ job[p].key = k)
  BY <1>4, <1>5 DEF MayCreate
<1>14. QED
  BY <1>1, <1>5, <1>8, <1>9, <1>10, <1>11, <1>12, <1>13 DEF StepOK, ghosts

(* What a call knows when it sets out: no row.                             *)
LEMMA SetsOut ==
  ASSUME IInv, NEW p \in Calls, NEW r \in Records, Start(p, r),
         r.at \in Restful, r.id = None, r.vec = None, r.task # "sync",
         r.task = "import" => r.at = "line" /\ DOMAIN r.lines \subseteq Keys,
         r.at = "insert" => r.key \in Keys /\ r.text \in Words /\ ~Cap,
         r.at # "update", UNCHANGED <<kind, rows, vecs, ghosts>>
  PROVE  StepOK(p)
<1>1. /\ job' \in [Calls -> Records] /\ job'[p] = r
      /\ \A q \in Calls \ {p} : job'[q] = job[q]
      /\ Behind(p) = {}
      /\ \A k \in Keys : MayCreate(p, k) /\ ~(job[p].at = "insert" /\ job[p].key = k)
  BY Begun
<1>2. Rests(p)
  BY <1>1 DEF Rests
<1>3. r.at = "insert" => Unique(p)
  BY <1>1 DEF Unique, Live, Cap
<1>4. QED
  BY <1>1, <1>2, <1>3, StillRests DEF ghosts

LEMMA ImportBegins ==
  ASSUME IInv, NEW p \in Calls, NEW file \in Files,
         Start(p, [Fresh EXCEPT !.at = "line", !.task = "import", !.lines = file]),
         UNCHANGED <<kind, rows, vecs, ghosts>>
  PROVE  StepOK(p)
<1>1. PICK ks \in SUBSET Keys : file \in [ks -> Texts \union {SkipAI}]
  BY FilesAssumption
<1>2. DOMAIN file = ks /\ file \in [ks -> Words]
  BY <1>1 DEF Words
<1>3. file \in Tables
  BY <1>2 DEF Tables
<1>4. PICK r \in Records : r = [Fresh EXCEPT !.at = "line", !.task = "import", !.lines = file]
  BY <1>3, FreshRecord DEF Records, Points, Tasks
<1>5. /\ r.at = "line" /\ r.task = "import" /\ r.lines = file /\ r.id = None /\ r.vec = None
  BY <1>4 DEF Fresh
<1>6. QED
  BY <1>2, <1>4, <1>5, SetsOut DEF Restful

(* A search begins, finds its rows and ends.                               *)
LEMMA SearchBegins ==
  ASSUME IInv, NEW p \in Calls, Start(p, [Fresh EXCEPT !.at = "match", !.task = "search"]),
         UNCHANGED <<kind, rows, vecs, ghosts>>
  PROVE  StepOK(p)
<1>1. PICK r \in Records : r = [Fresh EXCEPT !.at = "match", !.task = "search"]
  BY FreshRecord DEF Records, Points, Tasks
<1>2. r.at = "match" /\ r.task = "search" /\ r.id = None /\ r.vec = None
  BY <1>1 DEF Fresh
<1>3. QED
  BY <1>1, <1>2, SetsOut DEF Restful

LEMMA Matches ==
  ASSUME IInv, NEW p \in Calls, job[p].at = "match", Match(p),
         UNCHANGED <<kind, rows, vecs, ghosts>>
  PROVE  StepOK(p)
<1>1. PICK found \in SUBSET Vids : Goto(p, [job[p] EXCEPT !.at = "fetch", !.found = found])
  BY DEF Match, Nearest, Embedded, IInv, Typed
<1>2. job[p] \in Records /\ Shape(job[p])
  BY DEF IInv, Typed, CallOK
<1>3. PICK r \in Records : r = [job[p] EXCEPT !.at = "fetch", !.found = found]
  BY <1>2 DEF Records, Points
<1>4. /\ r.at = "fetch" /\ r.id = job[p].id /\ r.task = job[p].task /\ r.vec = job[p].vec
      /\ r.lines = job[p].lines /\ r.key = job[p].key
  BY <1>2, <1>3 DEF Records
<1>5. job' \in [Calls -> Records] /\ job'[p] = r /\ \A q \in Calls \ {p} : job'[q] = job[q]
  BY <1>1, <1>3, Went DEF IInv
<1>6. Rests(p) /\ Behind(p) = {}
  BY <1>2, <1>4, <1>5 DEF Rests, Shape, Restful, MayCreate, Behind
<1>7. QED
  BY <1>4, <1>5, <1>6, StillRests DEF ghosts

(* The next line of a file: its row is there, or it is to be made.         *)
LineOf(p, k) == [job[p] EXCEPT !.key = k, !.text = job[p].lines[k],
                              !.lines = Without(job[p].lines, {k})]

LEMMA ReadsLine ==
  ASSUME IInv, NEW p \in Calls, At(p, "import", "line"), NEW k \in DOMAIN job[p].lines,
         NEW line, line = LineOf(p, k)
  PROVE  /\ line \in Records /\ line.at = "line" /\ line.task = "import" /\ line.key = k
         /\ line.id = None /\ line.vec = None /\ k \in Keys /\ line.text \in Words
         /\ DOMAIN line.lines = DOMAIN job[p].lines \ {k} /\ DOMAIN job[p].lines \subseteq Keys
         /\ \A j \in DOMAIN job[p].lines : MayCreate(p, j)
<1>1. job[p] \in Records /\ Shape(job[p]) /\ job[p].at = "line" /\ job[p].task = "import"
  BY DEF IInv, Typed, CallOK, At
<1>2. DOMAIN job[p].lines \subseteq Keys /\ job[p].id = None /\ job[p].vec = None
  BY <1>1 DEF Shape, Restful
<1>3. PICK lines \in Tables : lines = job[p].lines
  BY <1>1 DEF Records
<1>4. /\ Without(lines, {k}) \in Tables /\ DOMAIN Without(lines, {k}) = DOMAIN lines \ {k}
      /\ lines[k] \in Words
  BY <1>3, TableLess, TableEntries
<1>5. PICK rest \in Tables : rest = Without(lines, {k})
  BY <1>4
<1>6. line = [job[p] EXCEPT !.key = k, !.text = lines[k], !.lines = rest]
  BY <1>3, <1>5 DEF LineOf
<1>7. /\ line \in Records /\ line.key = k /\ line.text = lines[k] /\ line.lines = rest
      /\ line.at = job[p].at /\ line.task = job[p].task /\ line.id = job[p].id /\ line.vec = job[p].vec
  BY <1>1, <1>2, <1>4, <1>6 DEF Records
<1>8. \A j \in DOMAIN job[p].lines : MayCreate(p, j)
  BY <1>1 DEF MayCreate
<1>9. QED
  BY <1>1, <1>2, <1>3, <1>4, <1>5, <1>7, <1>8

LEMMA LineFound ==
  ASSUME IInv, NEW p \in Calls, At(p, "import", "line"), NEW k \in DOMAIN job[p].lines,
         NEW line, line = LineOf(p, k),
         NEW id \in Live, NEW then \in {"update", "delete"},
         Goto(p, [line EXCEPT !.at = then, !.id = id]), Takes(p, {id}),
         UNCHANGED <<kind, rows, vecs, twinned, failed, unsynced>>
  PROVE  StepOK(p)
<1>1. /\ line \in Records /\ line.at = "line" /\ line.task = "import" /\ line.key = k
      /\ line.id = None /\ line.vec = None /\ k \in Keys /\ line.text \in Words
      /\ DOMAIN line.lines = DOMAIN job[p].lines \ {k} /\ DOMAIN job[p].lines \subseteq Keys
      /\ \A j \in DOMAIN job[p].lines : MayCreate(p, j)
  BY ReadsLine
<1>2. id \in Ids
  BY DEF IInv, Typed
<1>3. PICK r \in Records : r = [line EXCEPT !.at = then, !.id = id]
  BY <1>1, <1>2 DEF Records, Points
<1>4. /\ r.at = then /\ r.id = id /\ r.task = "import" /\ r.key = k /\ r.vec = None
      /\ r.lines = line.lines /\ r.text = line.text
  BY <1>1, <1>3 DEF Records
<1>5. Takes(p, {r.id}) /\ Goto(p, r)
  BY <1>3, <1>4
<1>6. \A j \in Keys : r.task = "import" /\ j \in DOMAIN r.lines => MayCreate(p, j)
  BY <1>1, <1>4
<1>7. QED
  BY <1>1, <1>4, <1>5, <1>6, TakesRow DEF At

LEMMA LineMissing ==
  ASSUME IInv, NEW p \in Calls, At(p, "import", "line"), NEW k \in DOMAIN job[p].lines,
         NEW line, line = LineOf(p, k),
         Goto(p, [line EXCEPT !.at = "insert"]),
         Cap => /\ \A id \in Live : KeyAt(id) # k
                /\ line.text # SkipAI
                /\ Making(k) # {} => k \in twinned',
         UNCHANGED <<kind, rows, vecs, raced, failed, unsynced>>, twinned \subseteq twinned'
  PROVE  StepOK(p)
<1>1. /\ line \in Records /\ line.at = "line" /\ line.task = "import" /\ line.key = k
      /\ line.id = None /\ line.vec = None /\ k \in Keys /\ line.text \in Words
      /\ DOMAIN line.lines = DOMAIN job[p].lines \ {k} /\ DOMAIN job[p].lines \subseteq Keys
      /\ \A j \in DOMAIN job[p].lines : MayCreate(p, j)
  BY ReadsLine
<1>2. PICK r \in Records : r = [line EXCEPT !.at = "insert"]
  BY <1>1 DEF Records, Points
<1>3. /\ r.at = "insert" /\ r.id = None /\ r.task = "import" /\ r.key = k /\ r.vec = None
      /\ r.lines = line.lines /\ r.text = line.text
  BY <1>1, <1>2 DEF Records
<1>4. job' \in [Calls -> Records] /\ job'[p] = r /\ \A q \in Calls \ {p} : job'[q] = job[q]
  BY <1>2, Went DEF IInv
<1>5. Rests(p)
  <2>1. \A j \in Keys : MayCreate(p, j)' => MayCreate(p, j)
    BY <1>1, <1>3, <1>4 DEF MayCreate
  <2>2. Cap => r.text \in Texts
    BY <1>1, <1>3 DEF Words
  <2>3. job[p].at # "insert"
    BY DEF At
  <2>4. QED
    BY <1>1, <1>3, <1>4, <2>1, <2>2, <2>3 DEF Rests, Restful
<1>6. Unique(p)
  BY <1>3, <1>4 DEF Unique, Cap, Live, Making
<1>7. Behind(p) = {}
  BY DEF Behind, At
<1>8. QED
  BY <1>5, <1>6, <1>7, StillRests

LEMMA LineLeftOut ==
  ASSUME IInv, NEW p \in Calls, At(p, "import", "line"), NEW k \in DOMAIN job[p].lines,
         LeftOut(p, Without(job[p].lines, {k})),
         UNCHANGED <<kind, rows, vecs, failed, unsynced>>
  PROVE  StepOK(p)
<1>1. Behind(p) = {}
  BY DEF Behind, At
<1>2. CASE Done(p)
  BY <1>1, <1>2, GivesUp DEF LeftOut
<1>3. CASE Goto(p, [job[p] EXCEPT !.lines = Without(job[p].lines, {k})])
  <2>1. job[p] \in Records /\ Shape(job[p]) /\ job[p].at = "line" /\ job[p].task = "import"
    BY DEF IInv, Typed, CallOK, At
  <2>2. PICK lines \in Tables : lines = job[p].lines
    BY <2>1 DEF Records
  <2>3. Without(lines, {k}) \in Tables /\ DOMAIN Without(lines, {k}) = DOMAIN lines \ {k}
    BY TableLess
  <2>4. PICK rest \in Tables : rest = Without(job[p].lines, {k}) /\ DOMAIN rest \subseteq DOMAIN lines
    BY <2>2, <2>3
  <2>5. PICK r \in Records : r = [job[p] EXCEPT !.lines = rest]
    BY <2>1 DEF Records
  <2>6. /\ r.at = "line" /\ r.task = "import" /\ r.id = job[p].id /\ r.vec = job[p].vec
        /\ r.lines = rest
    BY <2>1, <2>5 DEF Records
  <2>7. job' \in [Calls -> Records] /\ job'[p] = r /\ \A q \in Calls \ {p} : job'[q] = job[q]
    BY <1>3, <2>4, <2>5, Went DEF IInv
  <2>8. Rests(p)
    BY <2>1, <2>2, <2>4, <2>6, <2>7 DEF Rests, Shape, Restful, MayCreate
  <2>9. QED
    BY <1>1, <2>6, <2>7, <2>8, StillRests DEF LeftOut
<1>4. QED
  BY <1>2, <1>3 DEF LeftOut

-----------------------------------------------------------------------------
(* Every action is such a step                                             *)

LEMMA DocStepOK ==
  ASSUME IInv, NEW p \in Calls, DocStep(p)
  PROVE  StepOK(p)
<1>1. job[p] \in Records /\ Shape(job[p]) /\ ~Mem /\ ~Cap
  <2>1. Doc
    BY DEF DocStep, DocImport, DocCreate, DocLine, DocInsert, DocUpdate, DocEmbed, DocVector,
       DocSync, DocSyncEmbed, DocSyncFind, DocSyncSave, DocDelete, DocDeleteTx, DocSearch,
       DocMatch, DocFetch
  <2>2. QED
    BY <2>1 DEF IInv, Typed, CallOK, Doc, Mem, Cap
<1>2. ASSUME Done(p), UNCHANGED <<kind, rows, vecs, ghosts>>, Behind(p) = {} PROVE StepOK(p)
  BY <1>2, GivesUp DEF ghosts
<1>3. ASSUME DocImport(p) PROVE StepOK(p)
  BY <1>3, ImportBegins DEF DocImport
<1>4. ASSUME DocCreate(p) PROVE StepOK(p)
  <2>1. PICK k \in Keys, t \in Texts :
          Start(p, [Fresh EXCEPT !.at = "insert", !.task = "create", !.key = k, !.text = t])
    BY <1>4 DEF DocCreate
  <2>2. PICK r \in Records :
          r = [Fresh EXCEPT !.at = "insert", !.task = "create", !.key = k, !.text = t]
    BY FreshRecord DEF Records, Points, Tasks, Words
  <2>3. /\ r.at = "insert" /\ r.task = "create" /\ r.key = k /\ r.text = t /\ r.id = None
        /\ r.vec = None
    BY <2>2 DEF Fresh
  <2>4. UNCHANGED <<kind, rows, vecs, ghosts>>
    BY <1>4 DEF DocCreate
  <2>5. QED
    BY <1>1, <2>1, <2>2, <2>3, <2>4, SetsOut DEF Restful, Words
<1>5. ASSUME DocLine(p) PROVE StepOK(p)
  <2>1. PICK k \in DOMAIN job[p].lines :
          \/ /\ \E id \in Live : Goto(p, [LineOf(p, k) EXCEPT !.at = "update", !.id = id]) /\ Takes(p, {id})
          \/ Goto(p, [LineOf(p, k) EXCEPT !.at = "insert"]) /\ UNCHANGED raced
    BY <1>5 DEF DocLine, LineOf
  <2>2. At(p, "import", "line") /\ UNCHANGED <<kind, rows, vecs, twinned, failed, unsynced>>
    BY <1>5 DEF DocLine
  <2>3. CASE \E id \in Live : Goto(p, [LineOf(p, k) EXCEPT !.at = "update", !.id = id]) /\ Takes(p, {id})
    BY <2>2, <2>3, LineFound
  <2>4. CASE Goto(p, [LineOf(p, k) EXCEPT !.at = "insert"]) /\ UNCHANGED raced
    BY <1>1, <2>2, <2>4, LineMissing
  <2>5. QED
    BY <2>1, <2>3, <2>4
<1>6. ASSUME DocInsert(p) PROVE StepOK(p)
  <2>1. CASE ~HasKey(job[p].key) /\ InsertRow(p, job[p].text)
    BY <1>1, <1>6, <2>1, InsertsRow DEF DocInsert, Shape
  <2>2. CASE Done(p) /\ UNCHANGED <<rows, failed>>
    BY <1>2, <1>6, <2>2 DEF DocInsert, Behind, ghosts
  <2>3. QED
    BY <1>6, <2>1, <2>2 DEF DocInsert, TitleTaken
<1>7. ASSUME DocUpdate(p) PROVE StepOK(p)
  <2>1. job[p].at = "update" /\ job[p].task # "sync"
    BY <1>1, <1>7 DEF DocUpdate, Shape
  <2>2. CASE Done(p) /\ UNCHANGED <<rows, unsynced>>
    BY <1>2, <1>7, <2>1, <2>2 DEF DocUpdate, Behind, ghosts
  <2>3. CASE /\ job[p].id \in Live
             /\ rows' = SetContent(job[p].id, job[p].text)
             /\ unsynced' = IF rows[job[p].id] # job[p].text THEN unsynced \union {job[p].id} ELSE unsynced
             /\ Advance(p)
    <3>1. Leaves(p)
      BY <1>7, <2>1, <2>3, RestsLeaves DEF DocUpdate
    <3>2. QED
      BY <1>7, <2>1, <2>3, <3>1, UpdatesRow DEF DocUpdate, SetContent
  <2>4. QED
    BY <1>7, <2>2, <2>3 DEF DocUpdate
<1>8. ASSUME DocEmbed(p) PROVE StepOK(p)
  <2>1. CASE \E some \in BOOLEAN : Goto(p, [job[p] EXCEPT !.at = "vector", !.emb = some]) /\ UNCHANGED failed
    BY <1>8, <2>1, Embeds DEF DocEmbed, ghosts
  <2>2. CASE Done(p) /\ Lapse(p)
    BY <1>8, <2>2, GivesUp DEF DocEmbed, Lapse
  <2>3. QED
    BY <1>8, <2>1, <2>2 DEF DocEmbed
<1>9. ASSUME DocVector(p) PROVE StepOK(p)
  <2>1. job[p].at = "vector" /\ job[p].task # "sync"
    BY <1>1, <1>9 DEF DocVector, Shape
  <2>2. CASE PutVec(NewVec(p), HeadOnly, job[p].emb) /\ Advance(p)
    <3>1. Leaves(p)
      BY <1>9, <2>1, <2>2, RestsLeaves DEF DocVector
    <3>2. job[p].emb \in BOOLEAN /\ SawNone(job[p])
      BY <1>1, <2>1 DEF Records, SawNone
    <3>3. QED
      BY <1>1, <1>9, <2>1, <2>2, <3>1, <3>2, Puts DEF DocVector
  <2>3. CASE Done(p) /\ Lapse(p) /\ UNCHANGED vecs
    BY <1>9, <2>3, GivesUp DEF DocVector, Lapse
  <2>4. QED
    BY <1>9, <2>2, <2>3 DEF DocVector
<1>10. ASSUME DocSync(p) PROVE StepOK(p)
  BY <1>10, SyncBegins DEF DocSync
<1>11. ASSUME DocSyncEmbed(p) PROVE StepOK(p)
  <2>1. CASE \E id \in DOMAIN job[p].lines, some \in BOOLEAN :
               Goto(p, [job[p] EXCEPT !.at = "find", !.id = id, !.text = job[p].lines[id],
                                      !.emb = some])
    BY <1>11, <2>1, SyncPicks DEF DocSyncEmbed
  <2>2. CASE Done(p)
    BY <1>2, <1>11, <2>2 DEF DocSyncEmbed, Behind, At
  <2>3. QED
    BY <1>11, <2>1, <2>2 DEF DocSyncEmbed
<1>12. ASSUME DocSyncFind(p) PROVE StepOK(p)
  BY <1>12, FindsVec DEF DocSyncFind, At
<1>13. ASSUME DocSyncSave(p) PROVE StepOK(p)
  <2>1. job[p].at = "save" /\ job[p].task = "sync" /\ Behind(p) = {}
    BY <1>13 DEF DocSyncSave, At, Behind
  <2>2. CASE /\ job[p].vec \in DOMAIN vecs \union {None}
             /\ PutVec(Target(p), job[p].text, job[p].emb)
             /\ unsynced' = unsynced \ {job[p].id}
             /\ SyncNext(p)
    <3>1. Leaves(p)
      BY <1>13, <2>1, <2>2, SyncLeaves DEF DocSyncSave
    <3>2. /\ job[p].emb \in BOOLEAN
          /\ \/ Target(p) = NewVec(p) /\ SawNone(job[p])
             \/ Target(p) = job[p].vec /\ Target(p) \in DOMAIN vecs
      BY <1>1, <2>1, <2>2 DEF Records, SawNone, Target
    <3>3. QED
      BY <1>1, <1>13, <2>1, <2>2, <3>1, <3>2, Puts DEF DocSyncSave
  <2>3. CASE SyncNext(p) /\ UNCHANGED <<vecs, failed, unsynced>>
    <3>1. Leaves(p)
      BY <1>13, <2>1, <2>3, SyncLeaves DEF DocSyncSave
    <3>2. QED
      BY <1>13, <2>1, <2>3, <3>1, StillLeaves DEF DocSyncSave
  <2>4. CASE Done(p) /\ UNCHANGED <<vecs, failed, unsynced>>
    BY <1>2, <1>13, <2>1, <2>4 DEF DocSyncSave, ghosts
  <2>5. QED
    BY <1>13, <2>2, <2>3, <2>4 DEF DocSyncSave
<1>14. ASSUME DocDelete(p) PROVE StepOK(p)
  <2>1. PICK id \in Live :
          /\ Start(p, [Fresh EXCEPT !.at = "delete", !.task = "delete", !.id = id])
          /\ Takes(p, {id})
    BY <1>14 DEF DocDelete
  <2>2. PICK r \in Records : r = [Fresh EXCEPT !.at = "delete", !.task = "delete", !.id = id]
    BY FreshRecord DEF Records, Points, Tasks, IInv, Typed
  <2>3. r.at = "delete" /\ r.task = "delete" /\ r.id = id /\ r.vec = None
    BY <2>2 DEF Fresh
  <2>4. Goto(p, r) /\ Takes(p, {r.id}) /\ job[p].at = "idle"
    BY <2>1, <2>2, <2>3 DEF Start
  <2>5. UNCHANGED <<kind, rows, vecs, twinned, failed, unsynced>>
    BY <1>14 DEF DocDelete
  <2>6. QED
    BY <2>3, <2>4, <2>5, TakesRow
<1>15. ASSUME DocDeleteTx(p) PROVE StepOK(p)
  <2>1. job[p].at = "delete" /\ Done(p) /\ Leaves(p) /\ Behind(p) = {}
    BY <1>15, RestsLeaves DEF DocDeleteTx, Behind
  <2>2. CASE rows' = Without(rows, {job[p].id}) /\ vecs' = Without(vecs, VecsOfDeleted(job[p].id))
    BY <1>1, <1>15, <2>1, <2>2, Removes DEF DocDeleteTx, VecsOfDeleted
  <2>3. CASE UNCHANGED <<rows, vecs>>
    BY <1>2, <1>15, <2>1, <2>3 DEF DocDeleteTx
  <2>4. QED
    BY <1>15, <2>2, <2>3 DEF DocDeleteTx
<1>16. ASSUME DocSearch(p) PROVE StepOK(p)
  BY <1>16, SearchBegins DEF DocSearch
<1>17. ASSUME DocMatch(p) PROVE StepOK(p)
  BY <1>2, <1>17, Matches DEF DocMatch, Behind
<1>18. ASSUME DocFetch(p) PROVE StepOK(p)
  BY <1>2, <1>18 DEF DocFetch, Behind
<1>19. QED
  BY <1>3, <1>4, <1>5, <1>6, <1>7, <1>8, <1>9, <1>10, <1>11, <1>12, <1>13, <1>14, <1>15, <1>16,
     <1>17, <1>18 DEF DocStep

LEMMA MemStepOK ==
  ASSUME IInv, NEW p \in Calls, MemStep(p)
  PROVE  StepOK(p)
<1>1. job[p] \in Records /\ Shape(job[p]) /\ CallOK(p) /\ Mem /\ ~Cap
  <2>1. Mem
    BY DEF MemStep, MemStore, MemUpdate, MemInsert, MemEmbed, MemVector, MemForget, MemDelete,
       MemSync, MemSyncEmbed, MemSyncFind, MemSyncSave, MemRecall, MemMatch, MemFetch
  <2>2. QED
    BY <2>1 DEF IInv, Typed, CallOK, Mem, Cap
<1>2. ASSUME Done(p), UNCHANGED <<kind, rows, vecs, ghosts>>, Behind(p) = {} PROVE StepOK(p)
  BY <1>2, GivesUp DEF ghosts
<1>3. ASSUME MemStore(p) PROVE StepOK(p)
  <2>1. PICK k \in Keys, t \in Texts :
       \/ \E id \in MemMatching(k) :
            /\ Start(p, [Fresh EXCEPT !.at = "update", !.task = "store", !.key = k, !.text = t,
                                   !.id = id])
            /\ Takes(p, {id})
       \/ /\ Start(p, [Fresh EXCEPT !.at = "insert", !.task = "store", !.key = k, !.text = t])
          /\ UNCHANGED raced
    BY <1>3 DEF MemStore
  <2>2. UNCHANGED <<kind, rows, vecs, twinned, failed, unsynced>>
    BY <1>3 DEF MemStore
  <2>3. ASSUME NEW id \in Live, Takes(p, {id}),
               Start(p, [Fresh EXCEPT !.at = "update", !.task = "store", !.key = k, !.text = t,
                                      !.id = id])
        PROVE  StepOK(p)
    <3>1. PICK r \in Records :
            r = [Fresh EXCEPT !.at = "update", !.task = "store", !.key = k, !.text = t, !.id = id]
      BY FreshRecord DEF Records, Points, Tasks, Words, IInv, Typed
    <3>2. r.at = "update" /\ r.task = "store" /\ r.id = id /\ r.vec = None /\ r.text \in Words
      BY <3>1 DEF Fresh, Words
    <3>3. Goto(p, r) /\ Takes(p, {r.id}) /\ job[p].at = "idle"
      BY <2>3, <3>1, <3>2 DEF Start
    <3>4. QED
      BY <2>2, <3>2, <3>3, TakesRow
  <2>4. ASSUME UNCHANGED raced,
               Start(p, [Fresh EXCEPT !.at = "insert", !.task = "store", !.key = k, !.text = t])
        PROVE  StepOK(p)
    <3>1. PICK r \in Records :
            r = [Fresh EXCEPT !.at = "insert", !.task = "store", !.key = k, !.text = t]
      BY FreshRecord DEF Records, Points, Tasks, Words
    <3>2. /\ r.at = "insert" /\ r.task = "store" /\ r.key = k /\ r.text \in Words /\ r.id = None
          /\ r.vec = None
      BY <3>1 DEF Fresh, Words
    <3>3. QED
      BY <1>1, <2>2, <2>4, <3>1, <3>2, SetsOut DEF Restful, ghosts
  <2>5. QED
    BY <2>1, <2>3, <2>4 DEF MemMatching
<1>4. ASSUME MemUpdate(p) PROVE StepOK(p)
  <2>1. job[p].at = "update" /\ Done(p) /\ Leaves(p)
    BY <1>4, RestsLeaves DEF MemUpdate
  <2>2. CASE UNCHANGED <<rows, unsynced>>
    BY <1>2, <1>4, <2>1, <2>2 DEF MemUpdate, Behind, ghosts
  <2>3. CASE /\ job[p].id \in Live
             /\ rows' = SetMemory(job[p].id, job[p].text)
             /\ unsynced' = IF rows[job[p].id] # job[p].text THEN unsynced \union {job[p].id} ELSE unsynced
    BY <1>4, <2>1, <2>3, UpdatesRow DEF MemUpdate, SetMemory
  <2>4. QED
    BY <1>4, <2>2, <2>3 DEF MemUpdate
<1>5. ASSUME MemInsert(p) PROVE StepOK(p)
  <2>1. CASE ~HasKey(job[p].key) /\ InsertRow(p, job[p].text)
    BY <1>1, <1>5, <2>1, InsertsRow DEF MemInsert, Shape
  <2>2. CASE Done(p) /\ UNCHANGED <<rows, failed>>
    BY <1>2, <1>5, <2>2 DEF MemInsert, Behind, ghosts
  <2>3. QED
    BY <1>5, <2>1, <2>2 DEF MemInsert, KeyTaken
<1>6. ASSUME MemEmbed(p) PROVE StepOK(p)
  <2>1. job[p].at = "embed" /\ job[p].task # "sync"
    BY <1>6 DEF MemEmbed, At
  <2>2. CASE \E some \in BOOLEAN : Goto(p, [job[p] EXCEPT !.at = "vector", !.emb = some]) /\ UNCHANGED failed
    BY <1>6, <2>1, <2>2, Embeds DEF MemEmbed, ghosts
  <2>3. CASE Done(p) /\ Lapse(p)
    BY <1>6, <2>3, GivesUp DEF MemEmbed, Lapse
  <2>4. QED
    BY <1>6, <2>2, <2>3 DEF MemEmbed
<1>7. ASSUME MemVector(p) PROVE StepOK(p)
  <2>1. job[p].at = "vector" /\ Done(p) /\ Leaves(p)
    BY <1>7, RestsLeaves DEF MemVector
  <2>2. CASE PutVec(NewVec(p), job[p].text, job[p].emb)
    <3>1. job[p].emb \in BOOLEAN /\ SawNone(job[p])
      BY <1>1, <2>1 DEF Records, SawNone
    <3>2. QED
      BY <1>1, <1>7, <2>1, <2>2, <3>1, Puts DEF MemVector
  <2>3. CASE Lapse(p) /\ UNCHANGED vecs
    BY <1>7, <2>1, <2>3, GivesUp DEF MemVector, Lapse
  <2>4. QED
    BY <1>7, <2>2, <2>3 DEF MemVector
<1>8. ASSUME MemForget(p) PROVE StepOK(p)
  <2>1. PICK k \in Keys, id \in Live :
          /\ Start(p, [Fresh EXCEPT !.at = "delete", !.task = "forget", !.key = k, !.id = id])
          /\ Takes(p, {id})
    BY <1>8 DEF MemForget, MemMatching
  <2>2. PICK r \in Records :
          r = [Fresh EXCEPT !.at = "delete", !.task = "forget", !.key = k, !.id = id]
    BY FreshRecord DEF Records, Points, Tasks, IInv, Typed
  <2>3. r.at = "delete" /\ r.task = "forget" /\ r.id = id /\ r.vec = None
    BY <2>2 DEF Fresh
  <2>4. Goto(p, r) /\ Takes(p, {r.id}) /\ job[p].at = "idle"
    BY <2>1, <2>2, <2>3 DEF Start
  <2>5. UNCHANGED <<kind, rows, vecs, twinned, failed, unsynced>>
    BY <1>8 DEF MemForget
  <2>6. QED
    BY <2>3, <2>4, <2>5, TakesRow
<1>9. ASSUME MemDelete(p) PROVE StepOK(p)
  <2>1. job[p].at = "delete" /\ Done(p) /\ Leaves(p) /\ Behind(p) = {}
    BY <1>9, RestsLeaves DEF MemDelete, Behind
  <2>2. CASE rows' = Without(rows, {job[p].id})
    BY <1>1, <1>9, <2>1, <2>2, Removes DEF MemDelete
  <2>3. CASE UNCHANGED rows
    BY <1>2, <1>9, <2>1, <2>3 DEF MemDelete
  <2>4. QED
    BY <1>9, <2>2, <2>3 DEF MemDelete
<1>10. ASSUME MemSync(p) PROVE StepOK(p)
  BY <1>10, SyncBegins DEF MemSync
<1>11. ASSUME MemSyncEmbed(p) PROVE StepOK(p)
  <2>1. CASE \E id \in DOMAIN job[p].lines, some \in BOOLEAN :
               Goto(p, [job[p] EXCEPT !.at = "find", !.id = id, !.text = job[p].lines[id],
                                      !.emb = some])
    BY <1>11, <2>1, SyncPicks DEF MemSyncEmbed
  <2>2. CASE Done(p)
    BY <1>2, <1>11, <2>2 DEF MemSyncEmbed, Behind, At
  <2>3. QED
    BY <1>11, <2>1, <2>2 DEF MemSyncEmbed
<1>12. ASSUME MemSyncFind(p) PROVE StepOK(p)
  BY <1>12, FindsVec DEF MemSyncFind, At
<1>13. ASSUME MemSyncSave(p) PROVE StepOK(p)
  <2>1. job[p].at = "save" /\ job[p].task = "sync" /\ Behind(p) = {}
    BY <1>13 DEF MemSyncSave, At, Behind
  <2>2. CASE /\ PutVec(Target(p), job[p].text, job[p].emb)
             /\ unsynced' = unsynced \ {job[p].id}
             /\ SyncNext(p)
    <3>1. Leaves(p)
      BY <1>13, <2>1, <2>2, SyncLeaves DEF MemSyncSave
    <3>2. /\ job[p].emb \in BOOLEAN
          /\ \/ Target(p) = NewVec(p) /\ SawNone(job[p])
             \/ Target(p) = job[p].vec /\ Target(p) \in DOMAIN vecs
      BY <1>1, <2>1 DEF Records, SawNone, Target, CallOK
    <3>3. QED
      BY <1>1, <1>13, <2>1, <2>2, <3>1, <3>2, Puts DEF MemSyncSave
  <2>3. CASE Done(p) /\ UNCHANGED <<vecs, failed, unsynced>>
    BY <1>2, <1>13, <2>1, <2>3 DEF MemSyncSave, ghosts
  <2>4. QED
    BY <1>13, <2>2, <2>3 DEF MemSyncSave
<1>14. ASSUME MemRecall(p) PROVE StepOK(p)
  BY <1>14, SearchBegins DEF MemRecall
<1>15. ASSUME MemMatch(p) PROVE StepOK(p)
  BY <1>2, <1>15, Matches DEF MemMatch, Behind
<1>16. ASSUME MemFetch(p) PROVE StepOK(p)
  BY <1>2, <1>16 DEF MemFetch, Behind
<1>17. QED
  BY <1>3, <1>4, <1>5, <1>6, <1>7, <1>8, <1>9, <1>10, <1>11, <1>12, <1>13, <1>14, <1>15, <1>16
  DEF MemStep

(* The end of the hook, for a line of a file or a row of a sync.           *)
LEMMA HookLeaves ==
  ASSUME IInv, NEW p \in Calls, job[p].at # "idle", HookEnd(p), UNCHANGED <<kind, rows>>,
         raced \subseteq raced'
  PROVE  Leaves(p)
BY RestsLeaves, SyncLeaves DEF HookEnd

(* A vector that is of the subject already need not be renewed.            *)
LEMMA IsSame ==
  ASSUME IInv, NEW p \in Calls, Cap, job[p].at = "find", NEW v \in VecsOf(job[p].id),
         vecs[v].subject = job[p].text, Leaves(p),
         UNCHANGED <<kind, rows, vecs, ghosts>>
  PROVE  StepOK(p)
<1>1. job[p] \in Records /\ Shape(job[p]) /\ CallOK(p)
  BY DEF IInv, Typed, CallOK
<1>2. PICK id \in Ids : id = job[p].id /\ Subject(p) = id
  BY <1>1, NoneAssumption DEF Shape, Restful, Subject
<1>3. (Mem' <=> Mem) /\ (Cap' <=> Cap) /\ Live' = Live /\ \A i \in Ids : VecsOf(i)' = VecsOf(i)
  BY DEF Mem, Cap, Live, VecsOf
<1>4. IdOK(id)'
  <2>1. IdOK(id)
    BY DEF IInv
  <2>2. id \in raced \/ job[p].text = rows[id]
    BY <1>1, <1>2 DEF CallOK, Shape, Writing
  <2>3. id \in raced' \/ FoundNow(id)'
    BY <1>2, <1>3, <2>1, <2>2 DEF IdOK, FoundNow, Current, ghosts
  <2>4. QED
    BY <1>3, <2>1, <2>3 DEF IdOK, ghosts
<1>5. QED
  BY <1>2, <1>3, <1>4, OneRow DEF IInv, Typed, Live, ghosts

LEMMA CapStepOK ==
  ASSUME IInv, NEW p \in Calls, CapStep(p)
  PROVE  StepOK(p)
<1>1. job[p] \in Records /\ Shape(job[p]) /\ CallOK(p) /\ Cap /\ ~Mem
  <2>1. Cap
    BY DEF CapStep, CapImport, CapLine, CapInsert, CapEmbed, CapVector, CapUpdate, CapDelete,
       CapSync, CapSyncRow, CapFind, CapRenew, CapSave, CapSearch, CapMatch, CapFetch
  <2>2. QED
    BY <2>1 DEF IInv, Typed, CallOK, Mem, Cap
<1>2. ASSUME UNCHANGED <<kind, rows, vecs, ghosts>>, Behind(p) = {},
             Done(p) \/ (Advance(p) /\ job[p].task # "sync" /\ job[p].at # "idle")
      PROVE  StepOK(p)
  BY <1>2, GivesUp DEF ghosts
<1>3. ASSUME CapImport(p) PROVE StepOK(p)
  BY <1>3, ImportBegins DEF CapImport
<1>4. ASSUME CapLine(p) PROVE StepOK(p)
  <2>1. At(p, "import", "line") /\ UNCHANGED <<kind, rows, vecs, failed, unsynced>>
    BY <1>4 DEF CapLine
  <2>2. PICK k \in DOMAIN job[p].lines :
          \/ \E id \in Live : Found(p, id, LineOf(p, k))
          \/ (\A id \in Live : KeyAt(id) # k) /\ Missing(p, LineOf(p, k))
          \/ LeftOut(p, Without(job[p].lines, {k}))
    BY <1>4 DEF CapLine, LineOf
  <2>3. CASE \E id \in Live : Found(p, id, LineOf(p, k))
    <3>1. PICK id \in Live, then \in {"update", "delete"} :
            /\ Goto(p, [LineOf(p, k) EXCEPT !.at = then, !.id = id])
            /\ Takes(p, {id}) /\ UNCHANGED twinned
      BY <2>3 DEF Found
    <3>2. QED
      BY <2>1, <3>1, LineFound
  <2>4. CASE (\A id \in Live : KeyAt(id) # k) /\ Missing(p, LineOf(p, k))
    <3>1. LineOf(p, k).key = k
      BY <2>1, ReadsLine
    <3>2. Making(k) # {} => k \in twinned'
      BY <2>4, <3>1 DEF Missing
    <3>3. twinned \subseteq twinned'
      BY <2>4 DEF Missing
    <3>4. QED
      BY <2>1, <2>4, <3>2, <3>3, LineMissing DEF Missing
  <2>5. CASE LeftOut(p, Without(job[p].lines, {k}))
    BY <2>1, <2>5, LineLeftOut
  <2>6. QED
    BY <2>2, <2>3, <2>4, <2>5
<1>5. ASSUME CapInsert(p) PROVE StepOK(p)
  <2>1. job[p].at = "insert" /\ job[p].task # "sync" /\ Behind(p) = {}
    BY <1>1, <1>5 DEF CapInsert, Shape, Behind
  <2>2. CASE InsertRow(p, Enriched(job[p].text))
    <3>1. Enriched(job[p].text) \in Words
      BY <1>1, <2>1, IndexAssumption DEF Shape, Enriched, Words
    <3>2. QED
      BY <1>1, <1>5, <2>1, <2>2, <3>1, InsertsRow DEF CapInsert
  <2>3. CASE Advance(p) /\ UNCHANGED <<rows, failed>>
    BY <1>2, <1>5, <2>1, <2>3 DEF CapInsert, ghosts
  <2>4. QED
    BY <1>5, <2>2, <2>3 DEF CapInsert
<1>6. ASSUME CapEmbed(p) PROVE StepOK(p)
  <2>1. job[p].at = "embed" /\ job[p].task # "sync"
    BY <1>6 DEF CapEmbed, At
  <2>2. CASE Goto(p, [job[p] EXCEPT !.at = "vector", !.emb = TRUE]) /\ UNCHANGED failed
    BY <1>6, <2>1, <2>2, Embeds DEF CapEmbed, ghosts
  <2>3. CASE Advance(p) /\ Lapse(p)
    BY <1>6, <2>1, <2>3, GivesUp DEF CapEmbed, Lapse
  <2>4. QED
    BY <1>6, <2>2, <2>3 DEF CapEmbed
<1>7. ASSUME CapVector(p) PROVE StepOK(p)
  <2>1. job[p].at = "vector" /\ job[p].task # "sync" /\ Advance(p)
    BY <1>1, <1>7 DEF CapVector, Shape
  <2>2. Leaves(p)
    BY <1>7, <2>1, RestsLeaves DEF CapVector
  <2>3. CASE PutVec(NewVec(p), job[p].text, TRUE)
    <3>1. SawNone(job[p])
      BY <2>1 DEF SawNone
    <3>2. QED
      BY <1>7, <2>1, <2>2, <2>3, <3>1, Puts DEF CapVector
  <2>4. CASE Lapse(p) /\ UNCHANGED vecs
    BY <1>7, <2>1, <2>4, GivesUp DEF CapVector, Lapse
  <2>5. QED
    BY <1>7, <2>3, <2>4 DEF CapVector
<1>8. ASSUME CapUpdate(p) PROVE StepOK(p)
  <2>1. job[p].at = "update" /\ job[p].task # "sync" /\ Behind(p) = {}
    BY <1>1, <1>8 DEF CapUpdate, Shape, Behind
  <2>2. CASE /\ job[p].id \in Live
             /\ rows' = SetCapability(job[p].id, job[p].text)
             /\ Goto(p, [job[p] EXCEPT !.at = "find"])
    BY <1>8, <2>1, <2>2, Renews DEF CapUpdate, SetCapability
  <2>3. CASE Advance(p) /\ UNCHANGED rows
    BY <1>2, <1>8, <2>1, <2>3 DEF CapUpdate
  <2>4. QED
    BY <1>8, <2>2, <2>3 DEF CapUpdate
<1>9. ASSUME CapDelete(p) PROVE StepOK(p)
  <2>1. job[p].at = "delete" /\ job[p].task # "sync" /\ Advance(p) /\ Behind(p) = {}
    BY <1>1, <1>9 DEF CapDelete, Shape, Behind
  <2>2. Leaves(p)
    BY <1>9, <2>1, RestsLeaves DEF CapDelete
  <2>3. CASE rows' = Without(rows, {job[p].id}) /\ vecs' = Without(vecs, VecsOfRemoved(job[p].id))
    BY <1>1, <1>9, <2>1, <2>2, <2>3, Removes DEF CapDelete, VecsOfRemoved
  <2>4. CASE UNCHANGED <<rows, vecs>>
    BY <1>2, <1>9, <2>1, <2>4 DEF CapDelete
  <2>5. QED
    BY <1>9, <2>3, <2>4 DEF CapDelete
<1>10. ASSUME CapSync(p) PROVE StepOK(p)
  BY <1>10, SyncBegins DEF CapSync
<1>11. ASSUME CapSyncRow(p) PROVE StepOK(p)
  <2>1. CASE \E id \in DOMAIN job[p].lines :
               Goto(p, [job[p] EXCEPT !.at = "find", !.id = id, !.text = job[p].lines[id]])
    BY <1>11, <2>1, SyncPicks DEF CapSyncRow
  <2>2. CASE Done(p)
    BY <1>2, <1>11, <2>2 DEF CapSyncRow, Behind, At
  <2>3. QED
    BY <1>11, <2>1, <2>2 DEF CapSyncRow
<1>12. ASSUME CapFind(p) PROVE StepOK(p)
  <2>1. job[p].at = "find" /\ UNCHANGED <<kind, rows, vecs, twinned, failed, unsynced>>
    BY <1>12 DEF CapFind
  <2>2. PICK v \in VecsOf(job[p].id) \union {None} :
          IF SameSubject(p, v) THEN HookEnd(p) /\ UNCHANGED raced ELSE FindVec(p, v, "renew")
    BY <1>12 DEF CapFind
  <2>3. CASE SameSubject(p, v)
    <3>1. Leaves(p)
      BY <2>1, <2>2, <2>3, HookLeaves
    <3>2. v \in VecsOf(job[p].id) /\ vecs[v].subject = job[p].text
      BY <2>2, <2>3 DEF SameSubject
    <3>3. QED
      BY <1>1, <2>1, <2>2, <2>3, <3>1, <3>2, IsSame DEF ghosts
  <2>4. CASE ~SameSubject(p, v)
    BY <2>1, <2>2, <2>4, FindsVec
  <2>5. QED
    BY <2>3, <2>4
<1>13. ASSUME CapRenew(p) PROVE StepOK(p)
  <2>1. CASE Goto(p, [job[p] EXCEPT !.at = "save"]) /\ UNCHANGED failed
    BY <1>13, <2>1, Embeds DEF CapRenew, ghosts
  <2>2. CASE HookEnd(p) /\ Lapse(p)
    <3>1. Leaves(p)
      BY <1>13, <2>2, HookLeaves DEF CapRenew
    <3>2. QED
      BY <1>13, <2>2, <3>1, StillLeaves DEF CapRenew, Lapse
  <2>3. QED
    BY <1>13, <2>1, <2>2 DEF CapRenew
<1>14. ASSUME CapSave(p) PROVE StepOK(p)
  <2>1. job[p].at = "save" /\ HookEnd(p)
    BY <1>14 DEF CapSave
  <2>2. Leaves(p)
    BY <1>14, <2>1, HookLeaves DEF CapSave
  <2>3. CASE /\ job[p].vec \in DOMAIN vecs \union {None}
             /\ PutVec(Target(p), job[p].text, TRUE)
    <3>1. \/ Target(p) = NewVec(p) /\ SawNone(job[p])
          \/ Target(p) = job[p].vec /\ Target(p) \in DOMAIN vecs
      BY <2>1, <2>3 DEF SawNone, Target
    <3>2. QED
      BY <1>14, <2>1, <2>2, <2>3, <3>1, Puts DEF CapSave
  <2>4. CASE Lapse(p) /\ UNCHANGED vecs
    BY <1>14, <2>2, <2>4, StillLeaves DEF CapSave, Lapse
  <2>5. QED
    BY <1>14, <2>3, <2>4 DEF CapSave
<1>15. ASSUME CapSearch(p) PROVE StepOK(p)
  BY <1>15, SearchBegins DEF CapSearch
<1>16. ASSUME CapMatch(p) PROVE StepOK(p)
  BY <1>2, <1>16, Matches DEF CapMatch, Behind
<1>17. ASSUME CapFetch(p) PROVE StepOK(p)
  BY <1>2, <1>17 DEF CapFetch, Behind
<1>18. QED
  BY <1>3, <1>4, <1>5, <1>6, <1>7, <1>8, <1>9, <1>10, <1>11, <1>12, <1>13, <1>14, <1>15, <1>16,
     <1>17 DEF CapStep

-----------------------------------------------------------------------------
(* The theorems                                                            *)

LEMMA Begins == Init => IInv
<1>1. SUFFICES ASSUME Init PROVE IInv
  OBVIOUS
<1>2. \A p \in Calls : job[p] = Fresh
  BY <1>1 DEF Init
<1>3. Typed
  BY <1>1, FreshRecord, EmptyTable, IndexAssumption DEF Init, Typed, Live
<1>4. \A id \in Ids : VecsOf(id) = {} /\ id \notin Live
  BY <1>1, EmptyTable DEF Init, VecsOf, Live
<1>5. \A p \in Calls : AtHand(p) = {} /\ job[p].at = "idle" /\ CallOK(p)
  BY <1>1, <1>2, NoneAssumption
  DEF Fresh, AtHand, Listed, CallOK, Shape, Restful, SawNone, Writing
<1>6. \A id \in Ids : IdOK(id)
  BY <1>4 DEF IdOK
<1>7. PairsOK /\ UnbornOK /\ TwinsOK
  <2>1. \A p \in Calls, k \in Keys : <<k, p>> \in Ids
    BY DEF Ids
  <2>2. \A i \in Live : FALSE
    BY <1>1, EmptyTable DEF Init, Live
  <2>3. QED
    BY <1>4, <1>5, <2>1, <2>2 DEF PairsOK, UnbornOK, TwinsOK
<1>8. QED
  BY <1>3, <1>5, <1>6, <1>7 DEF IInv

LEMMA StepIsOK ==
  ASSUME IInv, NEW p \in Calls, DocStep(p) \/ MemStep(p) \/ CapStep(p) \/ Die(p)
  PROVE  StepOK(p)
<1>1. CASE Die(p)
  BY <1>1, GivesUp DEF Die, Lapse
<1>2. QED
  BY <1>1, DocStepOK, MemStepOK, CapStepOK

LEMMA Goes == IInv /\ [Next]_vars => IInv'
<1>1. SUFFICES ASSUME IInv, [Next]_vars PROVE IInv'
  OBVIOUS
<1>2. CASE Next
  BY <1>1, <1>2, StepIsOK, StepKeeps DEF Next
<1>3. CASE UNCHANGED vars
  <2>1. /\ kind' = kind /\ rows' = rows /\ vecs' = vecs /\ job' = job /\ raced' = raced
        /\ twinned' = twinned /\ failed' = failed /\ unsynced' = unsynced
    BY <1>3 DEF vars, ghosts
  <2>2. Typed' /\ PairsOK' /\ UnbornOK' /\ TwinsOK'
    BY <1>1, <2>1 DEF IInv, Typed, PairsOK, UnbornOK, TwinsOK, AtHand, Listed, VecsOf, MayCreate, Cap, Live
  <2>3. \A p \in Calls : CallOK(p)'
    BY <1>1, <2>1 DEF IInv, CallOK, Shape, AtHand, Listed, VecsOf, SawNone, Cap, Mem, Live
  <2>4. \A id \in Ids : IdOK(id)'
    BY <1>1, <2>1 DEF IInv, IdOK, FoundNow, Current, VecsOf, Behind, Cap, Mem, Live
  <2>5. QED
    BY <2>2, <2>3, <2>4 DEF IInv
<1>4. QED
  BY <1>1, <1>2, <1>3

THEOREM Inductive == Spec => []IInv
BY Begins, Goes, PTL DEF Spec

(* A vector whose document or capability is gone was left by calls that    *)
(* overlapped: DeleteDocument and DeleteCapability take the vectors along, *)
(* and whoever writes a vector has its row in hand.                        *)
THEOREM OrphansAreRaces == Spec => []OrphansOnlyByRace
<1>1. IInv => OrphansOnlyByRace
  <2>1. SUFFICES ASSUME IInv, kind # "mem", NEW v \in Orphans PROVE Of(v) \in raced
    BY DEF OrphansOnlyByRace
  <2>2. v \in DOMAIN vecs /\ v \in Vids /\ Of(v) \notin Live
    BY <2>1 DEF IInv, Typed, Orphans
  <2>3. PICK id \in Ids : id = Of(v)
    BY <2>2 DEF Vids, Of
  <2>4. v \in VecsOf(id) /\ ~Mem
    BY <2>1, <2>2, <2>3 DEF VecsOf, Mem
  <2>5. QED
    BY <2>1, <2>2, <2>3, <2>4 DEF IInv, IdOK
<1>2. QED
  BY <1>1, Inductive, PTL

(* A row nobody works on, whose embedding was to be had and that was       *)
(* synced since its text changed, has a vector of what it says now: a      *)
(* search can find it.                                                     *)
THEOREM RowsCanBeFound == Spec => []RowsAreFound
<1>1. IInv => RowsAreFound
  <2>1. SUFFICES ASSUME IInv, NEW id \in Live \ (raced \union Busy \union failed \union unsynced)
                 PROVE  FoundNow(id)
    BY DEF RowsAreFound, FoundNow
  <2>2. id \in Ids
    BY <2>1 DEF IInv, Typed
  <2>3. ASSUME NEW p \in Calls, id \in Behind(p) PROVE FALSE
    BY <2>1, <2>2, <2>3, NoneAssumption DEF Busy, Behind, AtHand
  <2>4. QED
    BY <2>1, <2>2, <2>3 DEF IInv, IdOK
<1>2. QED
  BY <1>1, Inductive, PTL

LEMMA AtMostOne ==
  ASSUME NEW S, \A x, y \in S : x = y
  PROVE  Cardinality(S) <= 1
<1>1. CASE S = {}
  BY <1>1, FS_EmptySet
<1>2. CASE S # {}
  <2>1. PICK x \in S : S = {x}
    BY <1>2
  <2>2. QED
    BY <2>1, FS_Singleton
<1>3. QED
  BY <1>1, <1>2

(* Neither a second vector of a row nor a second row of a key: what the    *)
(* database does not see to, the calls do, but where they overlapped.      *)
THEOREM EachHasOne == Spec => []OneOfEach
<1>1. IInv => OneOfEach
  <2>1. SUFFICES ASSUME IInv PROVE OneOfEach
    OBVIOUS
  <2>2. ASSUME NEW id \in Ids \ raced PROVE Cardinality(VecsOf(id)) <= 1
    BY <2>1, AtMostOne DEF IInv, IdOK
  <2>3. ASSUME NEW k \in Keys \ twinned PROVE Cardinality({id \in Live : KeyAt(id) = k}) <= 1
    <3>1. \A i, j \in {id \in Live : KeyAt(id) = k} : i = j
      BY <2>1 DEF IInv, TwinsOK
    <3>2. QED
      BY <3>1, AtMostOne
  <2>4. QED
    BY <2>2, <2>3 DEF OneOfEach
<1>2. QED
  BY <1>1, Inductive, PTL

(* Only the match itself takes a search from its query to its results.     *)
LEMMA OnlyMatch ==
  ASSUME NEW p \in Calls, At(p, "search", "match"), job'[p].at = "fetch",
         IInv, DocStep(p) \/ MemStep(p) \/ CapStep(p) \/ Die(p)
  PROVE  Match(p)
<1>1. job[p].at = "match" /\ job[p].task = "search"
  BY DEF At
<1>2. ~Done(p)
  BY EndedRests, Ended DEF IInv, Fresh
<1>3. CASE DocStep(p)
  BY <1>1, <1>2, <1>3 DEF DocStep, DocImport, DocCreate, DocLine, DocInsert, DocUpdate, DocEmbed,
     DocVector, DocSync, DocSyncEmbed, DocSyncFind, DocSyncSave, DocDelete, DocDeleteTx, DocSearch,
     DocMatch, DocFetch, Start, At
<1>4. CASE MemStep(p)
  BY <1>1, <1>2, <1>4 DEF MemStep, MemStore, MemUpdate, MemInsert, MemEmbed, MemVector, MemForget,
     MemDelete, MemSync, MemSyncEmbed, MemSyncFind, MemSyncSave, MemRecall, MemMatch, MemFetch,
     Start, At
<1>5. CASE CapStep(p)
  BY <1>1, <1>2, <1>5 DEF CapStep, CapImport, CapLine, CapInsert, CapEmbed, CapVector, CapUpdate,
     CapDelete, CapSync, CapSyncRow, CapFind, CapRenew, CapSave, CapSearch, CapMatch, CapFetch,
     Start, At
<1>6. CASE Die(p)
  BY <1>2, <1>6 DEF Die
<1>7. QED
  BY <1>3, <1>4, <1>5, <1>6

(* Each vector a search finds is that of a row of its own, but for rows    *)
(* that raced and memories that were forgotten: no place goes to a vector  *)
(* of a row that is gone, or to a second one of a row.                     *)
THEOREM PlacesGoToRows == Spec => NoPlaceWasted
<1> DEFINE Earned(p) ==
      \A v \in job'[p].found :
        \/ Of(v) \in raced \/ (kind = "mem" /\ Of(v) \notin Live)
        \/ Of(v) \in Live /\ \A w \in job'[p].found : Of(w) = Of(v) => w = v
<1>1. ASSUME IInv, NEW p \in Calls, Match(p) PROVE Earned(p)
  <2>1. PICK vs \in Nearest : Goto(p, [job[p] EXCEPT !.at = "fetch", !.found = vs])
    BY <1>1 DEF Match
  <2>2. job'[p].found = vs
    BY <1>1, <2>1 DEF Goto, IInv, Typed, Records
  <2>3. vs \subseteq DOMAIN vecs
    BY DEF Embedded, Nearest
  <2>4. \A v \in DOMAIN vecs : Of(v) \in Ids /\ v \in VecsOf(Of(v))
    BY <1>1 DEF IInv, Typed, Vids, Of, VecsOf
  <2>5. \A v \in DOMAIN vecs : Of(v) \in Live \union raced \/ kind = "mem"
    BY <1>1, <2>4 DEF IInv, IdOK, Mem
  <2>6. \A v, w \in DOMAIN vecs : Of(v) = Of(w) => v = w \/ Of(v) \in raced
    BY <1>1, <2>4 DEF IInv, IdOK
  <2>7. QED
    BY <2>2, <2>3, <2>5, <2>6
<1>2. IInv /\ [Next]_vars
        => [\A p \in Calls : At(p, "search", "match") /\ job'[p].at = "fetch" => Earned(p)]_vars
  <2>1. SUFFICES ASSUME IInv, Next, NEW p \in Calls, At(p, "search", "match"),
                        job'[p].at = "fetch"
                 PROVE  Earned(p)
    OBVIOUS
  <2>2. PICK q \in Calls : DocStep(q) \/ MemStep(q) \/ CapStep(q) \/ Die(q)
    BY <2>1 DEF Next
  <2>3. q = p
    <3>1. q # p => job'[p] = job[p]
      BY <2>1, <2>2, StepIsOK DEF StepOK
    <3>2. QED
      BY <2>1, <3>1 DEF At
  <2>4. Match(p)
    BY <2>1, <2>2, <2>3, OnlyMatch
  <2>5. QED
    BY <1>1, <2>1, <2>4
<1>3. QED
  BY <1>2, Inductive, PTL DEF Spec, NoPlaceWasted

-----------------------------------------------------------------------------
(* Who is logged in                                                        *)

(* The requests that change what Logins keeps, beside the tables.          *)
Acc == INSTANCE Accounts

SessionPoints == {"idle", "login", "session", "logout", "find", "update", "create", "bind",
                  "cache", "token", "done"}
SessionRecord == [at : SessionPoints, kind : {"none", "login", "session", "logout", "message"},
            token : Tokens \union {Absent}, cookie : Tokens \union {Absent},
            user : Accounts \union {Absent}]

SessionsTyped ==
  /\ honoured \subseteq Tokens /\ renewed \subseteq Tokens
  /\ cached \in [Tokens -> Accounts \union {Absent}]
  /\ tokenOf \in [Accounts -> Tokens \union {Absent}]
  /\ users \subseteq Accounts /\ third \subseteq Accounts /\ unknown \subseteq Accounts
  /\ req \in [Requests -> SessionRecord]
  /\ \A p \in Requests : req[p].at \in {"session", "login", "logout"} \union Acc!Written
                           => req[p].token \in Tokens
  /\ \A p \in Requests : req[p].at \in Acc!Written \union {"token"} => req[p].user \in Accounts

(* A request that is about to write holds a token that was confirmed: the  *)
(* last of its steps caches the user of that very token.                   *)
WritersRenewed == \A p \in Requests : req[p].at \in Acc!Written => req[p].token \in renewed

(* What the steps between a confirmation and the cache have done so far.   *)
Known(a) == a \in unknown \/ (a \in users /\ tokenOf[a] # Absent)
WritersKnown ==
  /\ users \cap AtWecom \subseteq third
  /\ \A p \in Requests :
       /\ req[p].at \in Acc!Written =>
            /\ req[p].cookie \in Tokens /\ req[p].user = OwnerOf[req[p].cookie]
       /\ req[p].at \in {"login", "session"} \union Acc!Written => req[p].kind # "message"
       /\ req[p].at = "bind" => req[p].user \in users \union unknown
       /\ req[p].at = "cache" => Known(req[p].user)
       /\ req[p].at = "token" => req[p].token = Absent
  /\ \A t \in Tokens : cached[t] # Absent => Known(cached[t])
  /\ \A a \in Accounts : tokenOf[a] # Absent => OwnerOf[tokenOf[a]] = a
  /\ \A p \in Requests : req[p].kind = "message" /\ req[p].token # Absent
       => OwnerOf[req[p].token] = req[p].user

SessionsInv == SessionsTyped /\ WritersRenewed /\ LogoutHolds /\ WritersKnown

-----------------------------------------------------------------------------

(* What one request goes through keeps the types of all of them.           *)
NeedsToken == {"session", "login", "logout"} \union Acc!Written
NeedsUser  == Acc!Written \union {"token"}
Whole(r) == /\ r.at \in NeedsToken => r.token \in Tokens
            /\ r.at \in NeedsUser => r.user \in Accounts
ReqOK == req \in [Requests -> SessionRecord] /\ \A p \in Requests : Whole(req[p])

LEMMA TypeReq == ASSUME SessionsTyped PROVE ReqOK
BY DEF SessionsTyped, ReqOK, Whole, NeedsToken, NeedsUser

LEMMA OneMoves ==
  ASSUME ReqOK, NEW p \in Requests, NEW r \in SessionRecord, req' = [req EXCEPT ![p] = r], Whole(r)
  PROVE  ReqOK'
<1>1. \A q \in Requests : req'[q] \in SessionRecord /\ Whole(req'[q])
  BY DEF ReqOK
<1> QED BY <1>1 DEF ReqOK, Whole

LEMMA OneGoes ==
  ASSUME ReqOK, NEW p \in Requests, NEW x \in SessionPoints, Acc!Goto(p, x),
         x \in NeedsToken => req[p].at \in NeedsToken,
         x \in NeedsUser => req[p].at \in NeedsUser
  PROVE  ReqOK'
<1> DEFINE r == [req[p] EXCEPT !.at = x]
<1>1. req[p] \in SessionRecord /\ Whole(req[p])
  BY DEF ReqOK
<1>2. r \in SessionRecord /\ r.at = x /\ r.token = req[p].token /\ r.user = req[p].user
  BY <1>1 DEF SessionRecord
<1>3. req' = [req EXCEPT ![p] = r]
  BY DEF Acc!Goto, ReqOK
<1>4. Whole(r)
  BY <1>1, <1>2 DEF Whole
<1> HIDE DEF r
<1> QED BY <1>2, <1>3, <1>4, OneMoves

LEMMA OneEnds ==
  ASSUME ReqOK, NEW p \in Requests, Acc!Done(p)
  PROVE  ReqOK'
<1> DEFINE r == [Acc!Fresh EXCEPT !.at = "done"]
<1>1. r \in SessionRecord /\ Whole(r)
  BY DEF Acc!Fresh, SessionRecord, SessionPoints, Whole, NeedsToken, NeedsUser, Acc!Written
<1>2. req' = [req EXCEPT ![p] = r]
  BY DEF Acc!Done
<1> HIDE DEF r
<1> QED BY <1>1, <1>2, OneMoves

(* The types of what the requests share.                                   *)
StoreOK ==
  /\ honoured \subseteq Tokens /\ renewed \subseteq Tokens
  /\ cached \in [Tokens -> Accounts \union {Absent}]
  /\ tokenOf \in [Accounts -> Tokens \union {Absent}]
  /\ users \subseteq Accounts /\ third \subseteq Accounts /\ unknown \subseteq Accounts

LEMMA TypeParts == SessionsTyped <=> StoreOK /\ ReqOK
BY DEF SessionsTyped, StoreOK, ReqOK, Whole, NeedsToken, NeedsUser

(* Every step of a request keeps the types of the requests.                *)
LEMMA ReqStep ==
  ASSUME ReqOK, StoreOK, NEW p \in Requests, Acc!Step(p)
  PROVE  ReqOK'
<1> USE AccountsAssumption
<1>1. CASE Acc!Begin(p)
  <2>1. PICK t \in Tokens, k \in {"login", "session", "logout"}, c \in Tokens \union {Absent} :
          req' = [req EXCEPT ![p] = [Acc!Fresh EXCEPT !.at = k, !.kind = k, !.token = t, !.cookie = c]]
    BY <1>1 DEF Acc!Begin
  <2> DEFINE r == [Acc!Fresh EXCEPT !.at = k, !.kind = k, !.token = t, !.cookie = c]
  <2>2. r \in SessionRecord /\ Whole(r)
    BY DEF Acc!Fresh, SessionRecord, SessionPoints, Whole, NeedsToken, NeedsUser, Acc!Written
  <2>3. req' = [req EXCEPT ![p] = r]
    BY <2>1
  <2> HIDE DEF r
  <2> QED BY <2>2, <2>3, OneMoves
<1>2. CASE Acc!Session(p)
  <2>1. Acc!Done(p) \/ (Acc!At(p, "session") /\ Acc!Goto(p, "login"))
    BY <1>2 DEF Acc!Session
  <2> QED BY <2>1, OneEnds, OneGoes DEF Acc!At, SessionPoints, NeedsToken, NeedsUser, Acc!Written
<1>3. CASE Acc!Confirm(p)
  <2>1. CASE Acc!Done(p)
    BY <2>1, OneEnds
  <2>2. CASE /\ Acc!At(p, "login") /\ Acc!Confirmed(p) # {}
             /\ req' = [req EXCEPT ![p].at = "find", ![p].cookie = Acc!Asked(p),
                                   ![p].user = OwnerOf[Acc!Asked(p)]]
    <3> DEFINE r == [req[p] EXCEPT !.at = "find", !.cookie = Acc!Asked(p), !.user = OwnerOf[Acc!Asked(p)]]
    <3>1. req[p] \in SessionRecord /\ req[p].token \in Tokens
      BY <2>2 DEF ReqOK, Whole, Acc!At, NeedsToken
    <3>2. Acc!Asked(p) \in Tokens
      BY <3>1 DEF Acc!Asked, Acc!Confirmed, StoreOK
    <3>3. OwnerOf[Acc!Asked(p)] \in Accounts
      BY <3>2
    <3>4. r \in SessionRecord /\ r.token \in Tokens /\ r.user \in Accounts
      BY <3>1, <3>2, <3>3 DEF SessionRecord, SessionPoints
    <3>5. req' = [req EXCEPT ![p] = r]
      BY <2>2 DEF ReqOK
    <3> HIDE DEF r
    <3> QED BY <3>4, <3>5, OneMoves DEF Whole
  <2> QED BY <1>3, <2>1, <2>2 DEF Acc!Confirm
<1>4. CASE Acc!Find(p)
  <2>1. Acc!At(p, "find") /\ (Acc!Goto(p, "update") \/ Acc!Goto(p, "create") \/ Acc!Goto(p, "bind"))
    BY <1>4 DEF Acc!Find, Acc!SkipRow
  <2> QED BY <2>1, OneGoes DEF Acc!At, SessionPoints, NeedsToken, NeedsUser, Acc!Written
<1>5. CASE Acc!Save(p)
  <2>1. (Acc!At(p, "update") \/ Acc!At(p, "create")) /\ Acc!Goto(p, "bind")
    BY <1>5 DEF Acc!Save, Acc!SkipRow
  <2> QED BY <2>1, OneGoes DEF Acc!At, SessionPoints, NeedsToken, NeedsUser, Acc!Written
<1>6. CASE Acc!Bind(p)
  <2>1. Acc!At(p, "bind") /\ Acc!Goto(p, "cache")
    BY <1>6 DEF Acc!Bind
  <2> QED BY <2>1, OneGoes DEF Acc!At, SessionPoints, NeedsToken, NeedsUser, Acc!Written
<1>7. CASE Acc!Cache(p) \/ Acc!Logout(p) \/ Acc!Remove(p)
  BY <1>7, OneEnds DEF Acc!Cache, Acc!Logout, Acc!Remove
<1>8. CASE Acc!Message(p)
  <2>1. PICK a \in users :
          req' = [req EXCEPT ![p] = [Acc!Fresh EXCEPT !.at = "token", !.kind = "message", !.user = a]]
    BY <1>8 DEF Acc!Message
  <2> DEFINE r == [Acc!Fresh EXCEPT !.at = "token", !.kind = "message", !.user = a]
  <2>2. r \in SessionRecord /\ Whole(r)
    BY DEF Acc!Fresh, SessionRecord, SessionPoints, Whole, NeedsToken, NeedsUser, Acc!Written, StoreOK
  <2>3. req' = [req EXCEPT ![p] = r]
    BY <2>1
  <2> HIDE DEF r
  <2> QED BY <2>2, <2>3, OneMoves
<1>9. CASE Acc!Load(p)
  <2> DEFINE r == [req[p] EXCEPT !.at = "done", !.token = tokenOf[req[p].user]]
  <2>1. req[p] \in SessionRecord /\ req[p].user \in Accounts
    BY <1>9 DEF Acc!Load, ReqOK, Whole, Acc!At, NeedsUser
  <2>2. tokenOf[req[p].user] \in Tokens \union {Absent}
    BY <2>1 DEF StoreOK
  <2>3. r \in SessionRecord /\ r.at = "done"
    BY <2>1, <2>2 DEF SessionRecord, SessionPoints
  <2>4. req' = [req EXCEPT ![p] = r]
    BY <1>9 DEF Acc!Load, ReqOK
  <2>5. Whole(r)
    BY <2>3 DEF Whole, NeedsToken, NeedsUser, Acc!Written
  <2> HIDE DEF r
  <2> QED BY <2>3, <2>4, <2>5, OneMoves
<1> QED
  BY <1>1, <1>2, <1>3, <1>4, <1>5, <1>6, <1>7, <1>8, <1>9 DEF Acc!Step

(* And the types of what is shared, too.                                   *)
LEMMA StoreStep ==
  ASSUME ReqOK, StoreOK, NEW p \in Requests, Acc!Step(p)
  PROVE  StoreOK'
<1> USE AccountsAssumption DEF StoreOK, Acc!ghosts
<1>1. CASE Acc!Begin(p) \/ Acc!Session(p) \/ Acc!Message(p) \/ Acc!Load(p)
  BY <1>1 DEF Acc!Begin, Acc!Session, Acc!Message, Acc!Load
<1>2. CASE Acc!Confirm(p)
  BY <1>2 DEF Acc!Confirm, ReqOK, Whole, NeedsToken, Acc!At
<1>3. CASE Acc!Find(p)
  BY <1>3 DEF Acc!Find, Acc!SkipRow, ReqOK, Whole, NeedsUser, Acc!Written, Acc!At
<1>4. CASE Acc!Save(p)
  <2>1. req[p].user \in Accounts
    BY <1>4 DEF Acc!Save, ReqOK, Whole, NeedsUser, Acc!Written, Acc!At
  <2> QED BY <1>4, <2>1 DEF Acc!Save, Acc!SkipRow, Acc!OwnedThird
<1>5. CASE Acc!Bind(p)
  <2>1. req[p].user \in Accounts /\ req[p].cookie \in Tokens \union {Absent}
    BY <1>5 DEF Acc!Bind, ReqOK, SessionRecord, Whole, NeedsUser, Acc!Written, Acc!At
  <2> QED BY <1>5, <2>1 DEF Acc!Bind, Acc!Bound
<1>6. CASE Acc!Cache(p)
  <2>1. req[p].token \in Tokens /\ req[p].user \in Accounts
    BY <1>6 DEF Acc!Cache, ReqOK, Whole, NeedsUser, NeedsToken, Acc!Written, Acc!At
  <2> QED BY <1>6, <2>1 DEF Acc!Cache
<1>7. CASE Acc!Logout(p)
  <2>1. req[p].token \in Tokens
    BY <1>7 DEF Acc!Logout, ReqOK, Whole, NeedsToken, Acc!At
  <2> QED BY <1>7, <2>1 DEF Acc!Logout, Acc!Forgotten
<1>8. CASE Acc!Remove(p)
  BY <1>8 DEF Acc!Remove
<1> QED
  BY <1>1, <1>2, <1>3, <1>4, <1>5, <1>6, <1>7, <1>8 DEF Acc!Step

(* Types are kept by every step.                                           *)
LEMMA TypeStep ==
  ASSUME SessionsTyped, [Acc!Next]_(Acc!vars)
  PROVE  SessionsTyped'
<1>1. StoreOK /\ ReqOK
  BY TypeParts
<1>2. ASSUME NEW p \in Requests, Acc!Step(p) PROVE StoreOK' /\ ReqOK'
  BY <1>1, <1>2, ReqStep, StoreStep
<1>3. ASSUME req' = req PROVE ReqOK'
  BY <1>1, <1>3 DEF ReqOK, Whole
<1>4. ASSUME Acc!Expire PROVE StoreOK' /\ ReqOK'
  <2>1. StoreOK' /\ req' = req
    BY <1>1, <1>4 DEF Acc!Expire, StoreOK
  <2> QED BY <2>1, <1>3
<1>5. ASSUME \E t \in Tokens : Acc!Revoke(t) PROVE StoreOK' /\ ReqOK'
  <2>1. StoreOK' /\ req' = req
    BY <1>1, <1>5 DEF Acc!Revoke, Acc!ghosts, StoreOK
  <2> QED BY <2>1, <1>3
<1>6. ASSUME UNCHANGED Acc!vars PROVE StoreOK' /\ ReqOK'
  <2>1. StoreOK' /\ req' = req
    BY <1>1, <1>6 DEF Acc!vars, Acc!ghosts, StoreOK
  <2> QED BY <2>1, <1>3
<1>7. StoreOK' /\ ReqOK'
  BY <1>2, <1>4, <1>5, <1>6 DEF Acc!Next
<1> QED
  BY <1>7 DEF SessionsTyped, StoreOK, ReqOK, Whole, NeedsToken, NeedsUser

(* Only a confirmation lets a request write, and a logout that finds one   *)
(* about to write leaves its token renewed.                                *)
LEMMA RenewedStep ==
  ASSUME SessionsTyped, SessionsTyped', WritersRenewed, LogoutHolds, [Acc!Next]_(Acc!vars)
  PROVE  WritersRenewed' /\ LogoutHolds'
<1> USE AccountsAssumption DEF SessionsTyped, SessionRecord, SessionPoints, Acc!Written,
            WritersRenewed, LogoutHolds, Acc!ghosts
<1>1. CASE Acc!Expire
  BY <1>1 DEF Acc!Expire
<1>2. ASSUME NEW t \in Tokens, Acc!Revoke(t) PROVE WritersRenewed' /\ LogoutHolds'
  BY <1>2 DEF Acc!Revoke
<1>3. ASSUME NEW p \in Requests, Acc!Begin(p) PROVE WritersRenewed' /\ LogoutHolds'
  BY <1>3 DEF Acc!Begin, Acc!At, Acc!Fresh
<1>4. ASSUME NEW p \in Requests, Acc!Session(p) PROVE WritersRenewed' /\ LogoutHolds'
  BY <1>4 DEF Acc!Session, Acc!At, Acc!Goto, Acc!Done, Acc!Fresh, Acc!Works, Acc!Fault
<1>5. ASSUME NEW p \in Requests, Acc!Confirm(p) PROVE WritersRenewed' /\ LogoutHolds'
  BY <1>5 DEF Acc!Confirm, Acc!Confirmed, Acc!Asked, Acc!At, Acc!Done, Acc!Fresh
<1>6. ASSUME NEW p \in Requests, Acc!Find(p) PROVE WritersRenewed' /\ LogoutHolds'
  BY <1>6 DEF Acc!Find, Acc!SkipRow, Acc!At, Acc!Goto, Acc!Works, Acc!Fault
<1>7. ASSUME NEW p \in Requests, Acc!Save(p) PROVE WritersRenewed' /\ LogoutHolds'
  BY <1>7 DEF Acc!Save, Acc!SkipRow, Acc!OwnedThird, Acc!At, Acc!Goto, Acc!Works, Acc!Fault
<1>8. ASSUME NEW p \in Requests, Acc!Bind(p) PROVE WritersRenewed' /\ LogoutHolds'
  BY <1>8 DEF Acc!Bind, Acc!Bound, Acc!At, Acc!Goto, Acc!Works, Acc!Fault
<1>9. ASSUME NEW p \in Requests, Acc!Cache(p) PROVE WritersRenewed' /\ LogoutHolds'
  BY <1>9 DEF Acc!Cache, Acc!At, Acc!Done, Acc!Fresh, Acc!Works, Acc!Fault
<1>10. ASSUME NEW p \in Requests, Acc!Logout(p) PROVE WritersRenewed' /\ LogoutHolds'
  BY <1>10 DEF Acc!Logout, Acc!Forgotten, Acc!Writing, Acc!At, Acc!Done, Acc!Fresh, Acc!Works, Acc!Fault
<1>11. ASSUME NEW p \in Requests, Acc!Remove(p) PROVE WritersRenewed' /\ LogoutHolds'
  BY <1>11 DEF Acc!Remove, Acc!At, Acc!Done, Acc!Fresh
<1>12. ASSUME NEW p \in Requests, Acc!Message(p) PROVE WritersRenewed' /\ LogoutHolds'
  BY <1>12 DEF Acc!Message, Acc!At, Acc!Fresh
<1>13. ASSUME NEW p \in Requests, Acc!Load(p) PROVE WritersRenewed' /\ LogoutHolds'
  BY <1>13 DEF Acc!Load, Acc!At
<1>14. CASE UNCHANGED Acc!vars
  BY <1>14 DEF Acc!vars
<1>15. QED
  BY <1>1, <1>2, <1>3, <1>4, <1>5, <1>6, <1>7, <1>8, <1>9, <1>10, <1>11, <1>12,
     <1>13, <1>14 DEF Acc!Next, Acc!Step

(* Row, third-party user and token are written, or known not to be, before *)
(* the user is cached.                                                     *)
LEMMA KnownStep ==
  ASSUME SessionsTyped, SessionsTyped', WritersKnown, [Acc!Next]_(Acc!vars)
  PROVE  WritersKnown'
<1> USE AccountsAssumption DEF SessionsTyped, SessionRecord, SessionPoints, Acc!Written,
            WritersKnown, Known, Acc!ghosts
<1>1. CASE Acc!Expire
  BY <1>1 DEF Acc!Expire
<1>2. ASSUME NEW t \in Tokens, Acc!Revoke(t) PROVE WritersKnown'
  BY <1>2 DEF Acc!Revoke
<1>3. ASSUME NEW p \in Requests, Acc!Begin(p) PROVE WritersKnown'
  BY <1>3 DEF Acc!Begin, Acc!At, Acc!Fresh
<1>4. ASSUME NEW p \in Requests, Acc!Session(p) PROVE WritersKnown'
  BY <1>4 DEF Acc!Session, Acc!At, Acc!Goto, Acc!Done, Acc!Fresh, Acc!Works, Acc!Fault
<1>5. ASSUME NEW p \in Requests, Acc!Confirm(p) PROVE WritersKnown'
  <2>1. CASE Acc!Done(p)
    BY <1>5, <2>1 DEF Acc!Confirm, Acc!Done, Acc!Fresh
  <2>2. CASE /\ Acc!At(p, "login") /\ Acc!Confirmed(p) # {}
             /\ req' = [req EXCEPT ![p].at = "find", ![p].cookie = Acc!Asked(p),
                                   ![p].user = OwnerOf[Acc!Asked(p)]]
    <3>1. Acc!Asked(p) \in Tokens
      BY <2>2 DEF Acc!Asked, Acc!Confirmed, Acc!At
    <3>2. /\ req'[p].at = "find" /\ req'[p].cookie = Acc!Asked(p) /\ req'[p].kind = req[p].kind
          /\ req'[p].user = OwnerOf[Acc!Asked(p)]
          /\ \A q \in Requests : q # p => req'[q] = req[q]
          /\ req'[p].token = req[p].token
      BY <2>2
    <3>3. req[p].kind # "message"
      BY <2>2 DEF Acc!At
    <3> HIDE DEF SessionsTyped
    <3> QED BY <1>5, <3>1, <3>2, <3>3 DEF Acc!Confirm
  <2> QED BY <1>5, <2>1, <2>2 DEF Acc!Confirm
<1>6. ASSUME NEW p \in Requests, Acc!Find(p) PROVE WritersKnown'
  <2>1. /\ req[p].at = "find" /\ req[p].user \in Accounts /\ UNCHANGED <<cached, tokenOf, users, third>>
        /\ \/ req' = [req EXCEPT ![p].at = "update"] /\ unknown' = unknown
           \/ req' = [req EXCEPT ![p].at = "create"] /\ unknown' = unknown
           \/ req' = [req EXCEPT ![p].at = "bind"] /\ unknown' = unknown \union {req[p].user}
    BY <1>6 DEF Acc!Find, Acc!SkipRow, Acc!At, Acc!Goto
  <2>2. PICK x \in {"update", "create", "bind"} :
          /\ req'[p].at = x
          /\ req'[p].user = req[p].user /\ req'[p].cookie = req[p].cookie
          /\ req'[p].kind = req[p].kind /\ req'[p].token = req[p].token
          /\ \A q \in Requests : q # p => req'[q] = req[q]
          /\ unknown \subseteq unknown'
          /\ x = "bind" => req[p].user \in unknown'
    BY <2>1
  <2> HIDE DEF SessionsTyped
  <2> QED BY <2>1, <2>2
<1>7. ASSUME NEW p \in Requests, Acc!Save(p) PROVE WritersKnown'
  BY <1>7 DEF Acc!Save, Acc!SkipRow, Acc!OwnedThird, Acc!At, Acc!Goto, Acc!Works, Acc!Fault
<1>8. ASSUME NEW p \in Requests, Acc!Bind(p) PROVE WritersKnown'
  BY <1>8 DEF Acc!Bind, Acc!Bound, Acc!At, Acc!Goto, Acc!Works, Acc!Fault
<1>9. ASSUME NEW p \in Requests, Acc!Cache(p) PROVE WritersKnown'
  BY <1>9 DEF Acc!Cache, Acc!At, Acc!Done, Acc!Fresh, Acc!Works, Acc!Fault
<1>10. ASSUME NEW p \in Requests, Acc!Logout(p) PROVE WritersKnown'
  BY <1>10 DEF Acc!Logout, Acc!Forgotten, Acc!Writing, Acc!At, Acc!Done, Acc!Fresh, Acc!Works, Acc!Fault
<1>11. ASSUME NEW p \in Requests, Acc!Remove(p) PROVE WritersKnown'
  BY <1>11 DEF Acc!Remove, Acc!At, Acc!Done, Acc!Fresh
<1>12. ASSUME NEW p \in Requests, Acc!Message(p) PROVE WritersKnown'
  BY <1>12 DEF Acc!Message, Acc!At, Acc!Fresh
<1>13. ASSUME NEW p \in Requests, Acc!Load(p) PROVE WritersKnown'
  <2>1. /\ req[p].user \in Accounts /\ UNCHANGED <<cached, tokenOf, users, third, unknown>>
        /\ req'[p].at = "done" /\ req'[p].user = req[p].user
        /\ req'[p].token = tokenOf[req[p].user]
        /\ \A q \in Requests : q # p => req'[q] = req[q]
    BY <1>13 DEF Acc!Load, Acc!At
  <2> HIDE DEF SessionsTyped
  <2> QED BY <2>1
<1>14. CASE UNCHANGED Acc!vars
  BY <1>14 DEF Acc!vars
<1>15. QED
  BY <1>1, <1>2, <1>3, <1>4, <1>5, <1>6, <1>7, <1>8, <1>9, <1>10, <1>11, <1>12,
     <1>13, <1>14 DEF Acc!Next, Acc!Step

(* The conjuncts of IInv hold from the start and each step keeps them.     *)
THEOREM SessionsInductive ==
  Acc!Spec => []SessionsInv
<1>1. Acc!Init => SessionsInv
  BY AccountsAssumption DEF Acc!Init, SessionsInv, SessionsTyped, SessionRecord, SessionPoints,
     Acc!Written, Acc!Fresh, WritersRenewed,
     LogoutHolds, WritersKnown, Known
<1>2. SessionsInv /\ [Acc!Next]_(Acc!vars) => SessionsInv'
  BY TypeStep, RenewedStep, KnownStep DEF SessionsInv
<1>3. QED
  BY <1>1, <1>2, PTL DEF Acc!Spec

(* Who logged out stays so, for any number of users, tokens and requests   *)
(* and however many commands fail (handleLogout and handleSession).        *)
THEOREM LogoutKept ==
  Acc!Spec => []LogoutHolds
<1>1. SessionsInv => LogoutHolds
  BY DEF SessionsInv
<1>2. QED
  BY <1>1, SessionsInductive, PTL

(* Who is logged in is found from a channel, with a token of their own     *)
(* (storeUserWith writes the row and the token before it caches the user). *)
THEOREM ChannelsKnow ==
  Acc!Spec => []KnownFromChannels
<1>1. SessionsInv => KnownFromChannels
  BY AccountsAssumption DEF SessionsInv, SessionsTyped, WritersKnown, Known, KnownFromChannels
<1>2. QED
  BY <1>1, SessionsInductive, PTL
=============================================================================
