------------------------- MODULE ToolRegistryProofs -------------------------
(***************************************************************************)
(* Proofs about ToolRegistry, for all servers, tools and keys, every       *)
(* number of requests at a time and every outcome of a call: what the run  *)
(* checks for two servers and two requests.                                *)
(***************************************************************************)
EXTENDS ToolRegistry, FiniteSetTheorems, TLAPS

Points == {"idle", "mark", "check", "connect", "verify", "lock", "register",
           "added", "remove", "removed", "ok", "failed"}
Statuses == {"disconnected", "connecting", "connected"}
AddPoints == {"connect", "verify", "lock", "register"}

(* A row that exists has a status of its own.                              *)
RealRows == [active : BOOLEAN, status : Statuses]
RowsOK   == row \in [Servers -> RealRows \union {NoRow}]

(* Who does nothing has no server, and everybody else has one.             *)
BootPoints == {"idle", "check", "added", "ok", "failed"} \union AddPoints
JobsOK ==
  /\ pc \in [Procs -> Points]
  /\ job \in [Procs -> [op : {None, "activate", "deactivate", "load"},
                        server : Servers \union {None}, was : Statuses \union {None}]]
  /\ \A p \in Procs : pc[p] = "idle" <=> job[p].server = None
  /\ pc[Boot] \in BootPoints
  /\ pc[Boot] # "idle" => job[Boot].op = "load"

(* While servers are loaded no request is served, and what is yet to be    *)
(* loaded is active.                                                       *)
LoadOK ==
  /\ preset \subseteq Configured /\ toLoad \subseteq Servers
  /\ Loading => \A p \in Admins : pc[p] = "idle"
  /\ \A s \in toLoad : row[s].active

RegistryOK ==
  /\ conns \in [Servers -> [registered : BOOLEAN, names : SUBSET Keys]]
  /\ \A s \in Servers : ~Registered(s) => conns[s].names = {}
  /\ listed \in [Keys -> Nat]
  /\ invokers \in [Keys -> SUBSET (Servers \X Tools)]
  /\ offer \in [Procs -> SUBSET Tools] /\ todo \in [Procs -> SUBSET Tools]

(* The mutex is with the one who registers tools.                          *)
MutexOK ==
  /\ mu \in Procs \union {Nobody}
  /\ \A p \in Procs : mu = p <=> pc[p] = "register"

(* Two who are about the same server are known to have crossed.            *)
CrossedOK ==
  /\ crossed \subseteq Servers
  /\ \A p, q \in Procs : p # q /\ job[p].server = job[q].server /\ job[p].server # None
       => job[p].server \in crossed

(* Of a server one request at most is past the first check, and it is not  *)
(* registered then.                                                        *)
DoubledOK ==
  /\ doubled \subseteq crossed
  /\ \A s \in Servers \ doubled :
       /\ \A p, q \in Adding(s) : p = q
       /\ Adding(s) # {} => ~Registered(s)

(* A key a server has a claim to: one of the names it is registered with,  *)
(* or of those it has been given in the course of its registration.        *)
Claims(s, k) ==
  \/ k \in conns[s].names
  \/ \E p \in Procs : /\ pc[p] = "register" /\ job[p].server = s
                      /\ k \in KeysOf(s, offer[p] \ todo[p])
Apart == Keys \ (Shared \union UNION {KeysOf(s, Tools) : s \in doubled})

(* RegistryWhole, also for the time between two tools of a registration.   *)
ContentOK ==
  /\ \A s \in Servers : conns[s].names \subseteq KeysOf(s, Tools)
  /\ \A p \in Procs : pc[p] = "register" => todo[p] \subseteq offer[p]
  /\ \A k \in Keys : /\ listed[k] > 0 <=> invokers[k] # {}
                     /\ \A st \in invokers[k] : KeyOf[st] = k
  /\ \A k \in Apart : /\ listed[k] > 0 <=> \E s \in Servers : Claims(s, k)
                      /\ \A st \in invokers[k] : Claims(st[1], k)

(* ClientsOwned with a lower bound for the other servers: what is closed   *)
(* is open.                                                                *)
Holding(s) == {p \in Adding(s) : pc[p] # "connect"}
Owed(s)    == Cardinality(Holding(s)) + (IF Registered(s) THEN 1 ELSE 0)
OpenOK ==
  /\ open \in [Servers -> Nat]
  /\ \A s \in Servers : open[s] >= Owed(s) /\ (s \notin doubled => open[s] = Owed(s))

(* RegisteredIsActive, also for a server on its way to be registered; and  *)
(* who is about to write that a server is inactive has removed it.         *)
Bringing(p, s) == job[p].server = s /\ pc[p] \in {"check"} \union AddPoints
ActiveOK ==
  \A s \in Servers \ crossed :
    /\ s \notin Configured /\ (Registered(s) \/ \E p \in Procs : Bringing(p, s)) => row[s].active
    /\ (\E p \in Procs : job[p].server = s /\ pc[p] = "removed") => ~Registered(s)

-----------------------------------------------------------------------------
(* Types                                                                   *)

LEMMA Constants ==
  /\ Boot \in Procs /\ Nobody \notin Procs /\ Admins \subseteq Procs
  /\ \A p \in Procs : p # Boot => p \in Admins
  /\ Boot \notin Admins /\ None \notin Servers /\ Boot # Nobody
BY NamesAssumption DEF Procs, Boot, Nobody

LEMMA RowsReal == Rows \subseteq RealRows
<1>1. [active |-> FALSE, status |-> "disconnected"] \in RealRows
  BY DEF RealRows, Statuses
<1>2. [active : {TRUE}, status : {"connecting", "connected"}] \subseteq RealRows
  BY DEF RealRows, Statuses
<1>3. QED
  BY <1>1, <1>2 DEF Rows

LEMMA StatusSet ==
  ASSUME NEW r \in RealRows \union {NoRow}, NEW t \in Statuses
  PROVE  [r EXCEPT !.status = t] \in RealRows
<1>1. CASE r \in RealRows
  BY <1>1 DEF RealRows
<1>2. CASE r = NoRow
  BY <1>2 DEF RealRows, NoRow
<1>3. QED
  BY <1>1, <1>2

LEMMA KeysTyped ==
  ASSUME NEW s \in Servers, NEW ts \in SUBSET Tools
  PROVE  KeysOf(s, ts) \subseteq KeysOf(s, Tools) /\ KeysOf(s, Tools) \subseteq Keys
<1>1. \A t \in Tools : KeyOf[<<s, t>>] \in Keys
  BY RegistryAssumption
<1>2. QED
  BY <1>1 DEF KeysOf

LEMMA InitRows == Init => RowsOK
<1>1. Rows \subseteq RealRows
  BY RowsReal
<1>2. QED
  BY <1>1 DEF Init, RowsOK

LEMMA StepRows == RowsOK /\ JobsOK /\ [Next]_vars => RowsOK'
<1> SUFFICES ASSUME RowsOK, JobsOK, [Next]_vars PROVE RowsOK'
  OBVIOUS
<1>0. ASSUME NEW s \in Servers, NEW r \in RealRows \union {NoRow},
             row' = [row EXCEPT ![s] = r]
      PROVE  RowsOK'
  BY <1>0 DEF RowsOK
<1>1. ASSUME NEW p \in Procs, NEW s \in Servers, NEW new \in RealRows \union {NoRow},
             Edit(p, s, new)
      PROVE  RowsOK'
  BY <1>0, <1>1 DEF Edit
<1>2. ASSUME NEW p \in Procs, NEW next, job[p].server \in Servers,
             NEW r \in RealRows, Update(p, r, next)
      PROVE  RowsOK'
  BY <1>0, <1>2 DEF Update
<1>3. ASSUME NEW p \in Procs, pc[p] # "idle" PROVE job[p].server \in Servers
  BY <1>3 DEF JobsOK
<1>4. ASSUME NEW p \in Procs, Request(p) PROVE RowsOK'
  <2>1. CASE Begin(p)
    BY <2>1 DEF Begin, RowsOK
  <2>2. CASE Create(p)
    BY <1>1, <2>2, RowsReal DEF Create
  <2>3. CASE Change(p)
    <3>1. PICK s \in Servers, active \in BOOLEAN : row[s] # NoRow /\ Edit(p, s, SetActive(row[s], active))
      BY <2>3 DEF Change
    <3>2. SetActive(row[s], active) \in RealRows
      BY <3>1 DEF SetActive, RowsOK, RealRows
    <3>3. QED
      BY <1>1, <3>1, <3>2
  <2>4. CASE DeleteRow(p)
    BY <1>1, <2>4 DEF DeleteRow
  <2>5. QED
    BY <1>4, <2>1, <2>2, <2>3, <2>4 DEF Request
<1>5. ASSUME NEW p \in Procs, Mark(p) \/ SetConnected(p) \/ SetDisconnected(p) PROVE RowsOK'
  <2>1. job[p].server \in Servers
    BY <1>3, <1>5 DEF Mark, SetConnected, SetDisconnected
  <2>2. CASE UNCHANGED row
    BY <2>2 DEF RowsOK
  <2>3. CASE Update(p, Activated(row[job[p].server]), "check")
    BY <1>2, <2>1, <2>3 DEF Activated, RealRows, Statuses
  <2>4. CASE Update(p, [row[job[p].server] EXCEPT !.status = "connected"], "ok")
    <3>1. [row[job[p].server] EXCEPT !.status = "connected"] \in RealRows
      BY <2>1, StatusSet DEF RowsOK, Statuses
    <3>2. QED
      BY <1>2, <2>1, <2>4, <3>1
  <2>5. CASE Update(p, [active |-> FALSE, status |-> "disconnected"], "ok")
    BY <1>2, <2>1, <2>5 DEF RealRows, Statuses
  <2>6. QED
    BY <1>5, <2>2, <2>3, <2>4, <2>5 DEF Mark, SetConnected, SetDisconnected
<1>6. ASSUME NEW p \in Procs, Step(p), ~(Mark(p) \/ SetConnected(p) \/ SetDisconnected(p)) PROVE RowsOK'
  BY <1>6 DEF RowsOK, Step, OnItsOwn, LoadNext, End, CheckName, Connect, Verify, Lock, RegisterTool, Publish, Remove
<1>7. CASE UNCHANGED vars
  BY <1>7 DEF RowsOK, vars
<1>8. QED
  BY <1>4, <1>5, <1>6, <1>7 DEF Next

LEMMA InitJobs == Init => JobsOK /\ LoadOK
<1> SUFFICES ASSUME Init PROVE JobsOK /\ LoadOK
  OBVIOUS
<1>1. JobsOK
  BY Constants DEF Init, JobsOK, Idle, Points, BootPoints
<1>2. toLoad \subseteq {s \in Servers : row[s].active}
  BY DEF Init, Loadable
<1>3. QED
  BY <1>1, <1>2, Constants DEF Init, LoadOK

(* A process that goes on with what it does.                               *)
LEMMA OneGoes ==
  ASSUME JobsOK, NEW p \in Procs, NEW x \in Points \ {"idle"}, Goto(p, x), UNCHANGED job,
         pc[p] # "idle", p = Boot => x \in BootPoints
  PROVE  JobsOK'
BY Constants DEF JobsOK, Goto

LEMMA StepJobs == JobsOK /\ RowsOK /\ LoadOK /\ [Next]_vars => JobsOK'
<1> SUFFICES ASSUME JobsOK, RowsOK, LoadOK, [Next]_vars PROVE JobsOK'
  OBVIOUS
<1> USE Constants
<1>1. ASSUME NEW s \in Servers, row[s] # NoRow PROVE row[s].status \in Statuses
  BY <1>1 DEF RowsOK, RealRows
<1>2. ASSUME NEW p \in Procs, NEW s \in Servers, NEW op \in {"activate", "deactivate", "load"},
             NEW x \in Points \ {"idle"}, row[s] # NoRow, Goto(p, x),
             job' = [job EXCEPT ![p] = [op |-> op, server |-> s, was |-> row[s].status]],
             p = Boot => x \in BootPoints /\ op = "load"
      PROVE  JobsOK'
  <2>1. row[s].status \in Statuses
    BY <1>1, <1>2
  <2>2. QED
    BY <1>2, <2>1 DEF JobsOK, Goto
<1>3. ASSUME NEW p \in Procs, Begin(p) PROVE JobsOK'
  <2>1. PICK s \in Servers, op \in {"activate", "deactivate"} :
          /\ row[s] # NoRow
          /\ job' = [job EXCEPT ![p] = [op |-> op, server |-> s, was |-> row[s].status]]
          /\ Goto(p, IF op = "activate" THEN "mark" ELSE "remove")
    BY <1>3 DEF Begin
  <2>2. p # Boot
    BY <1>3 DEF Begin
  <2>3. QED
    BY <1>2, <2>1, <2>2 DEF Points
<1>4. ASSUME NEW p \in Procs, LoadNext(p) PROVE JobsOK'
  <2>1. PICK s \in Servers : job' = [job EXCEPT ![p] = [op |-> "load", server |-> s, was |-> None]]
    BY <1>4 DEF LoadNext
  <2>2. p = Boot /\ Goto(p, "check")
    BY <1>4 DEF LoadNext
  <2>3. QED
    BY <2>1, <2>2 DEF JobsOK, Goto, Points, BootPoints
<1>5. ASSUME NEW p \in Procs, End(p) PROVE JobsOK'
  BY <1>5 DEF End, Goto, JobsOK, Idle, Points, BootPoints
<1>6. ASSUME NEW p \in Procs, Create(p) \/ Change(p) \/ DeleteRow(p) PROVE JobsOK'
  BY <1>6 DEF Create, Change, DeleteRow, Edit, procs, JobsOK
<1>7. ASSUME NEW p \in Procs,
             Mark(p) \/ SetConnected(p) \/ SetDisconnected(p) \/ CheckName(p) \/ Connect(p)
               \/ Verify(p) \/ Lock(p) \/ Publish(p) \/ Remove(p)
      PROVE  JobsOK'
  <2>1. UNCHANGED job /\ pc[p] # "idle"
    BY <1>7 DEF Mark, SetConnected, SetDisconnected, CheckName, Connect, Verify, Lock, Publish, Remove
  <2>2. CASE Mark(p) \/ SetDisconnected(p) \/ Remove(p)
    <3>1. p # Boot
      BY <2>2 DEF Mark, SetDisconnected, Remove, JobsOK, BootPoints, AddPoints
    <3>2. \E x \in {"check", "failed", "ok", "removed"} : Goto(p, x)
      BY <2>2 DEF Mark, SetDisconnected, Remove, Update
    <3>3. QED
      BY <2>1, <3>1, <3>2, OneGoes DEF Points
  <2>3. CASE SetConnected(p) \/ CheckName(p) \/ Connect(p) \/ Verify(p) \/ Lock(p) \/ Publish(p)
    <3>1. \E x \in {"connect", "verify", "lock", "register", "added", "ok", "failed"} : Goto(p, x)
      BY <2>3 DEF SetConnected, CheckName, Connect, Verify, Lock, Publish, Update
    <3>2. QED
      BY <2>1, <3>1, OneGoes DEF Points, BootPoints, AddPoints
  <2>4. QED
    BY <1>7, <2>2, <2>3
<1>8. ASSUME NEW p \in Procs, RegisterTool(p) PROVE JobsOK'
  BY <1>8 DEF RegisterTool, JobsOK
<1>9. CASE UNCHANGED vars
  BY <1>9 DEF vars, procs, JobsOK
<1>10. QED
  BY <1>3, <1>4, <1>5, <1>6, <1>7, <1>8, <1>9 DEF Next, Request, Step, OnItsOwn

(* A step of one process leaves the others where they are.                 *)
LEMMA OthersStay ==
  ASSUME JobsOK, offer \in [Procs -> SUBSET Tools], todo \in [Procs -> SUBSET Tools],
         NEW p \in Procs, Request(p) \/ Step(p), NEW q \in Procs, q # p
  PROVE  /\ pc'[q] = pc[q] /\ job'[q] = job[q]
         /\ offer'[q] = offer[q] /\ todo'[q] = todo[q]
<1>1. CASE Request(p)
  BY <1>1 DEF JobsOK, Request, Begin, Create, Change, DeleteRow, Edit, procs, Goto
<1>2. CASE LoadNext(p) \/ End(p)
  BY <1>2 DEF JobsOK, LoadNext, End, Goto
<1>3. CASE Mark(p) \/ SetConnected(p) \/ SetDisconnected(p)
  BY <1>3 DEF JobsOK, Mark, SetConnected, SetDisconnected, Update, Goto
<1>4. CASE CheckName(p) \/ Connect(p) \/ Verify(p) \/ Lock(p)
  BY <1>4 DEF JobsOK, CheckName, Connect, Verify, Lock, Goto
<1>5. CASE RegisterTool(p) \/ Publish(p) \/ Remove(p)
  BY <1>5 DEF JobsOK, RegisterTool, Publish, Remove, Goto
<1>6. QED
  BY <1>1, <1>2, <1>3, <1>4, <1>5 DEF Step, OnItsOwn

(* While servers are loaded nothing but the start goes on, and it leaves   *)
(* the rows alone.                                                         *)
LEMMA OnlyBoot ==
  ASSUME JobsOK, LoadOK, Loading, NEW p \in Procs, Request(p) \/ Step(p)
  PROVE  p = Boot /\ UNCHANGED row
<1>1. p = Boot
  <2>1. ~Request(p)
    BY DEF Request, Begin, Create, Change, DeleteRow, Edit
  <2>2. p # Boot => pc[p] = "idle"
    BY Constants DEF LoadOK
  <2>3. Step(p) /\ p # Boot => pc[p] # "idle"
    BY DEF Step, OnItsOwn, LoadNext, End, Mark, SetConnected, SetDisconnected, CheckName, Connect, Verify,
           Lock, RegisterTool, Publish, Remove
  <2>4. QED
    BY <2>1, <2>2, <2>3
<1>2. Step(p) /\ pc[p] \notin {"mark", "remove", "removed"} /\ (pc[p] # "idle" => job[p].op = "load")
  BY <1>1, Constants DEF JobsOK, BootPoints, AddPoints, Request, Begin, Create, Change, DeleteRow, Edit
<1>3. UNCHANGED row
  BY <1>2 DEF Step, OnItsOwn, LoadNext, End, Mark, SetConnected, SetDisconnected, CheckName, Connect, Verify,
           Lock, RegisterTool, Publish, Remove
<1>4. QED
  BY <1>1, <1>3

LEMMA StepLoad == LoadOK /\ JobsOK /\ RegistryOK /\ [Next]_vars => LoadOK'
<1> SUFFICES ASSUME LoadOK, JobsOK, RegistryOK, [Next]_vars PROVE LoadOK'
  OBVIOUS
<1> USE Constants
<1>1. ASSUME NEW p \in Procs, Request(p) \/ Step(p) PROVE LoadOK'
  <2>1. /\ toLoad' \subseteq toLoad /\ preset' \subseteq preset
        /\ p # Boot => toLoad' = toLoad /\ preset' = preset
    BY <1>1 DEF loads, Request, Begin, Create, Change, DeleteRow, Edit, Step, OnItsOwn, LoadNext, End, Mark,
         SetConnected, SetDisconnected, CheckName, Connect, Verify, Lock, RegisterTool, Publish, Remove
  <2>2. ASSUME NEW q \in Procs, q # p PROVE pc'[q] = pc[q]
    BY <1>1, <2>2, OthersStay DEF RegistryOK
  <2>3. CASE Loading
    <3>1. p = Boot /\ UNCHANGED row
      BY <1>1, <2>3, OnlyBoot
    <3>2. \A q \in Admins : pc'[q] = "idle"
      BY <2>2, <2>3, <3>1 DEF LoadOK
    <3>3. QED
      BY <2>1, <3>1, <3>2 DEF LoadOK
  <2>4. CASE ~Loading
    <3>1. p # Boot
      BY <1>1, <2>4 DEF Loading, Request, Begin, Create, Change, DeleteRow, Edit, Step, OnItsOwn, LoadNext, End,
         Mark, SetConnected, SetDisconnected, CheckName, Connect, Verify, Lock, RegisterTool, Publish,
         Remove
    <3>2. toLoad' = {} /\ preset' = {} /\ pc'[Boot] = "idle"
      BY <2>1, <2>2, <2>4, <3>1 DEF Loading
    <3>3. QED
      BY <3>2 DEF LoadOK, Loading
  <2>5. QED
    BY <2>3, <2>4
<1>2. CASE UNCHANGED vars
  BY <1>2 DEF vars, procs, loads, LoadOK, Loading
<1>3. QED
  BY <1>1, <1>2 DEF Next

(* Lock takes the mutex and Publish gives it back, nothing else does.      *)
LEMMA StepMutex == MutexOK /\ JobsOK /\ RegistryOK /\ [Next]_vars => MutexOK'
<1> SUFFICES ASSUME MutexOK, JobsOK, RegistryOK, [Next]_vars PROVE MutexOK'
  OBVIOUS
<1> USE Constants
<1>1. ASSUME NEW p \in Procs, Request(p) \/ Step(p) PROVE MutexOK'
  <2>1. ASSUME NEW q \in Procs, q # p PROVE pc'[q] = pc[q]
    BY <1>1, <2>1, OthersStay DEF RegistryOK
  <2>2. CASE Lock(p)
    <3>1. mu' = p /\ pc'[p] = "register" /\ mu = Nobody
      BY <2>2 DEF Lock, Goto, JobsOK, Unlocked
    <3>2. QED
      BY <2>1, <3>1 DEF MutexOK
  <2>3. CASE Publish(p)
    <3>1. mu' = Nobody /\ pc'[p] = "added" /\ pc[p] = "register"
      BY <2>3 DEF Publish, Goto, JobsOK
    <3>2. QED
      BY <2>1, <3>1 DEF MutexOK
  <2>4. CASE RegisterTool(p)
    BY <2>4 DEF RegisterTool, MutexOK
  <2>5. CASE Request(p) \/ (Step(p) /\ ~(Lock(p) \/ Publish(p) \/ RegisterTool(p)))
    <3>1. mu' = mu /\ pc[p] # "register"
      BY <2>5 DEF Request, Begin, Create, Change, DeleteRow, Edit, registry, Step, OnItsOwn, LoadNext, End,
         Mark, SetConnected, SetDisconnected, CheckName, Connect, Verify, Remove
    <3>2. pc'[p] # "register"
      BY <2>5 DEF JobsOK, Request, Begin, Create, Change, DeleteRow, Edit, procs, Step, OnItsOwn, LoadNext, End,
         Mark, SetConnected, SetDisconnected, CheckName, Connect, Verify, Remove, Update, Goto
    <3>3. QED
      BY <2>1, <3>1, <3>2 DEF MutexOK
  <2>6. QED
    BY <1>1, <2>2, <2>3, <2>4, <2>5
<1>2. CASE UNCHANGED vars
  BY <1>2 DEF vars, registry, procs, MutexOK
<1>3. QED
  BY <1>1, <1>2 DEF Next

LEMMA InitRegistry == Init => RegistryOK /\ MutexOK
BY Constants DEF Init, RegistryOK, MutexOK, NoNames, Registered

(* A registration adds a key, a removal takes keys away.                   *)
LEMMA StepRegistry == RegistryOK /\ JobsOK /\ [Next]_vars => RegistryOK'
<1> SUFFICES ASSUME RegistryOK, JobsOK, [Next]_vars PROVE RegistryOK'
  OBVIOUS
<1> USE Constants, RegistryAssumption
<1>0. ASSUME NEW p \in Procs, pc[p] # "idle" PROVE job[p].server \in Servers
  BY <1>0 DEF JobsOK
<1>1. ASSUME NEW p \in Procs, Connect(p) PROVE RegistryOK'
  <2>1. job[p].server \in Servers /\ Offers[job[p].server] \subseteq SUBSET Tools
    BY <1>0, <1>1 DEF Connect
  <2>2. QED
    BY <1>1, <2>1 DEF Connect, RegistryOK, Registered
<1>2. ASSUME NEW p \in Procs, Verify(p) \/ Lock(p) PROVE RegistryOK'
  BY <1>2 DEF Verify, Lock, RegistryOK, Registered
<1>3. ASSUME NEW p \in Procs, RegisterTool(p) PROVE RegistryOK'
  <2> DEFINE s == job[p].server
  <2>1. PICK t \in todo[p] :
          /\ listed' = [listed EXCEPT ![KeyOf[<<s, t>>]] = @ + 1]
          /\ invokers' = [invokers EXCEPT ![KeyOf[<<s, t>>]] = {<<s, t>>}]
          /\ todo' = [todo EXCEPT ![p] = @ \ {t}]
    BY <1>3 DEF RegisterTool
  <2>2. s \in Servers /\ t \in Tools
    BY <1>0, <1>3 DEF RegisterTool, RegistryOK
  <2>3. KeyOf[<<s, t>>] \in Keys
    BY <2>2
  <2>4. listed' \in [Keys -> Nat]
    BY <2>1, <2>3 DEF RegistryOK
  <2>5. invokers' \in [Keys -> SUBSET (Servers \X Tools)]
    BY <2>1, <2>2, <2>3 DEF RegistryOK
  <2>6. todo' \in [Procs -> SUBSET Tools]
    BY <2>1 DEF RegistryOK
  <2>7. QED
    BY <1>3, <2>4, <2>5, <2>6 DEF RegisterTool, RegistryOK, Registered
<1>4. ASSUME NEW p \in Procs, Publish(p) PROVE RegistryOK'
  <2>1. job[p].server \in Servers
    BY <1>0, <1>4 DEF Publish
  <2>2. KeysOf(job[p].server, offer[p]) \subseteq Keys
    BY <2>1, KeysTyped DEF RegistryOK
  <2>3. QED
    BY <1>4, <2>1, <2>2 DEF Publish, RegistryOK, Registered
<1>5. ASSUME NEW p \in Procs, Remove(p) PROVE RegistryOK'
  <2>1. job[p].server \in Servers
    BY <1>0, <1>5 DEF Remove
  <2>2. CASE Registered(job[p].server)
    <3>1. conns' = [conns EXCEPT ![job[p].server] = NoNames] /\ Dropped(conns[job[p].server].names)
          /\ UNCHANGED <<offer, todo>>
      BY <1>5, <2>2 DEF Remove
    <3>2. listed' \in [Keys -> Nat] /\ invokers' \in [Keys -> SUBSET (Servers \X Tools)]
      BY <3>1 DEF Dropped, RegistryOK
    <3>3. QED
      BY <2>1, <3>1, <3>2 DEF RegistryOK, Registered, NoNames
  <2>3. CASE ~Registered(job[p].server)
    BY <1>5, <2>3 DEF Remove, RegistryOK, Registered
  <2>4. QED
    BY <2>2, <2>3
<1>6. ASSUME UNCHANGED <<conns, listed, invokers, offer, todo>> PROVE RegistryOK'
  BY <1>6 DEF RegistryOK, Registered
<1>7. ASSUME NEW p \in Procs,
             Request(p) \/ LoadNext(p) \/ End(p) \/ Mark(p) \/ SetConnected(p) \/ SetDisconnected(p)
               \/ CheckName(p)
      PROVE  RegistryOK'
  BY <1>6, <1>7 DEF Request, Begin, Create, Change, DeleteRow, Edit, LoadNext, End, Mark, SetConnected,
                    SetDisconnected, CheckName, registry, procs
<1>8. CASE UNCHANGED vars
  BY <1>6, <1>8 DEF vars, registry, procs
<1>9. QED
  BY <1>1, <1>2, <1>3, <1>4, <1>5, <1>7, <1>8 DEF Next, Step, OnItsOwn

-----------------------------------------------------------------------------
(* Requests that overlap                                                   *)

LEMMA InitOverlaps == Init => CrossedOK /\ DoubledOK
BY Constants DEF Init, CrossedOK, DoubledOK, Idle, Adding

LEMMA StepCrossed == CrossedOK /\ JobsOK /\ LoadOK /\ RegistryOK /\ [Next]_vars => CrossedOK'
<1> SUFFICES ASSUME CrossedOK, JobsOK, LoadOK, RegistryOK, [Next]_vars PROVE CrossedOK'
  OBVIOUS
<1> USE Constants
<1>1. ASSUME NEW p \in Procs, NEW s \in Servers,
             job'[p].server = s, \A q \in Procs \ {p} : job'[q] = job[q],
             \A q \in Procs \ {p} : job[q].server = s => s \in crossed',
             crossed \subseteq crossed', crossed' \subseteq Servers
      PROVE  CrossedOK'
  BY <1>1 DEF CrossedOK
<1>2. ASSUME NEW p \in Procs, Begin(p) PROVE CrossedOK'
  <2>1. PICK s \in Servers, op \in {"activate", "deactivate"} :
          /\ job' = [job EXCEPT ![p] = [op |-> op, server |-> s, was |-> row[s].status]]
          /\ crossed' = IF \E q \in Procs : job[q].server = s THEN crossed \union {s} ELSE crossed
    BY <1>2 DEF Begin
  <2>2. QED
    BY <1>1, <2>1 DEF JobsOK, CrossedOK
<1>3. ASSUME NEW p \in Procs, LoadNext(p) PROVE CrossedOK'
  <2>1. PICK s \in Servers : job' = [job EXCEPT ![p] = [op |-> "load", server |-> s, was |-> None]]
    BY <1>3 DEF LoadNext
  <2>2. p = Boot /\ s \in Servers /\ crossed' = crossed /\ \A q \in Admins : pc[q] = "idle"
    BY <1>3 DEF LoadNext, LoadOK, Loading, ghosts
  <2>3. \A q \in Procs \ {p} : job[q].server = None
    BY <2>2 DEF JobsOK
  <2>4. QED
    BY <1>1, <2>1, <2>2, <2>3 DEF JobsOK, CrossedOK
<1>4. ASSUME NEW p \in Procs, End(p) PROVE CrossedOK'
  <2>1. job' = [job EXCEPT ![p] = Idle] /\ crossed' = crossed
    BY <1>4 DEF End, ghosts
  <2>2. QED
    BY <2>1 DEF CrossedOK, JobsOK, Idle
<1>5. ASSUME UNCHANGED job, crossed \subseteq crossed', crossed' \subseteq Servers PROVE CrossedOK'
  BY <1>5 DEF CrossedOK
<1>6. ASSUME NEW p \in Procs, Create(p) \/ Change(p) \/ DeleteRow(p) PROVE CrossedOK'
  BY <1>5, <1>6 DEF Create, Change, DeleteRow, Edit, procs, CrossedOK
<1>7. ASSUME NEW p \in Procs, Step(p), ~LoadNext(p), ~End(p) PROVE CrossedOK'
  BY <1>5, <1>7 DEF Step, OnItsOwn, Mark, SetConnected, SetDisconnected, CheckName, Connect, Verify, Lock,
                    RegisterTool, Publish, Remove, ghosts, CrossedOK
<1>8. CASE UNCHANGED vars
  BY <1>5, <1>8 DEF vars, procs, ghosts, CrossedOK
<1>9. QED
  BY <1>2, <1>3, <1>4, <1>6, <1>7, <1>8 DEF Next, Request

(* Who is adding a server after a step of p.                               *)
LEMMA AddingAfter ==
  ASSUME JobsOK, RegistryOK, NEW p \in Procs, Request(p) \/ Step(p), NEW s
  PROVE  Adding(s)' \ {p} = Adding(s) \ {p}
BY OthersStay DEF Adding, RegistryOK

LEMMA StepDoubled ==
  DoubledOK /\ CrossedOK /\ JobsOK /\ LoadOK /\ RegistryOK /\ [Next]_vars => DoubledOK'
<1> SUFFICES ASSUME DoubledOK, CrossedOK, JobsOK, LoadOK, RegistryOK, [Next]_vars PROVE DoubledOK'
  OBVIOUS
<1> USE Constants
<1> DEFINE Single(s) == /\ \A p, q \in Adding(s) : p = q
                        /\ Adding(s) # {} => ~Registered(s)
<1>1. ASSUME NEW p \in Procs, CheckName(p) PROVE DoubledOK'
  <2> DEFINE r == job[p].server
  <2>1. r \in Servers /\ pc[p] = "check" /\ UNCHANGED <<conns, crossed>>
    BY <1>1 DEF CheckName, JobsOK, registry
  <2>2. doubled' \subseteq doubled \union {r}
    BY <1>1 DEF CheckName
  <2>3. r \in doubled' /\ r \notin doubled => r \in crossed
    <3>1. SUFFICES ASSUME Adding(r) # {} PROVE r \in crossed
      BY <1>1 DEF CheckName
    <3>2. PICK q \in Procs : q \in Adding(r)
      BY <3>1 DEF Adding
    <3>3. q # p
      BY <2>1, <3>2 DEF Adding
    <3>4. QED
      BY <2>1, <3>2, <3>3 DEF CrossedOK, Adding
  <2>4. ASSUME NEW s \in Servers \ doubled' PROVE Single(s)'
    <3>1. Single(s)
      BY <1>1, <2>4 DEF DoubledOK, CheckName
    <3>2. Adding(s)' \ {p} = Adding(s) \ {p} /\ p \notin Adding(s)
      BY <1>1, <2>1, AddingAfter DEF Step, OnItsOwn, Adding
    <3>3. CASE p \notin Adding(s)'
      BY <2>1, <3>1, <3>2, <3>3 DEF Registered
    <3>4. CASE p \in Adding(s)'
      <4>1. r = s /\ ~Taken(r)
        BY <1>1, <3>4 DEF Adding, CheckName, Goto, JobsOK
      <4>2. ~Registered(s)'
        BY <2>1, <4>1 DEF Taken, Registered
      <4>3. Adding(s) = {}
        BY <1>1, <2>4, <4>1 DEF CheckName
      <4>4. QED
        BY <3>2, <4>2, <4>3
    <3>5. QED
      BY <3>3, <3>4
  <2>5. QED
    BY <2>1, <2>2, <2>3, <2>4 DEF DoubledOK
(* All other steps leave no more at it than there were.                    *)
<1>2. ASSUME NEW p \in Procs, Request(p) \/ Step(p), doubled' = doubled, crossed \subseteq crossed',
             \A s \in Servers : p \in Adding(s)' => p \in Adding(s),
             \A s \in Servers \ doubled : Registered(s)' /\ ~Registered(s) => Adding(s)' = {}
      PROVE  DoubledOK'
  <2>1. ASSUME NEW s \in Servers \ doubled' PROVE Single(s)'
    <3>1. Adding(s)' \ {p} = Adding(s) \ {p} /\ Single(s)
      BY <1>2, <2>1, AddingAfter DEF DoubledOK
    <3>2. Adding(s)' \subseteq Adding(s)
      BY <1>2, <3>1
    <3>3. QED
      BY <1>2, <2>1, <3>1, <3>2
  <2>2. QED
    BY <1>2, <2>1 DEF DoubledOK
<1>3. ASSUME NEW p \in Procs, Publish(p) PROVE DoubledOK'
  <2> DEFINE r == job[p].server
  <2>1. /\ r \in Servers /\ pc[p] = "register" /\ pc' = [pc EXCEPT ![p] = "added"] /\ job' = job
        /\ \A s \in Servers : s # r => conns'[s] = conns[s]
        /\ doubled' = doubled /\ crossed' = crossed
    BY <1>3 DEF Publish, JobsOK, RegistryOK, Goto, ghosts
  <2>2. p \in Adding(r) /\ \A s : p \notin Adding(s)'
    BY <2>1 DEF Adding, JobsOK
  <2>3. ASSUME NEW s \in Servers \ doubled, Registered(s)', ~Registered(s) PROVE Adding(s)' = {}
    <3>1. s = r
      BY <2>1, <2>3 DEF Registered
    <3>2. Adding(s) \ {p} = {}
      BY <2>2, <2>3, <3>1 DEF DoubledOK
    <3>3. Adding(s)' \ {p} = {}
      BY <1>3, <3>2, AddingAfter DEF Step, OnItsOwn
    <3>4. QED
      BY <2>2, <3>3
  <2>4. QED
    BY <1>2, <1>3, <2>1, <2>2, <2>3 DEF Step, OnItsOwn
<1>4. ASSUME NEW p \in Procs, Remove(p) PROVE DoubledOK'
  <2>1. \A s \in Servers : Registered(s)' => Registered(s)
    BY <1>4 DEF Remove, RegistryOK, Registered, NoNames
  <2>2. /\ pc[p] = "remove" /\ pc'[p] \in {"removed", "failed"} /\ doubled' = doubled /\ crossed' = crossed
    BY <1>4 DEF Remove, JobsOK, Goto, ghosts
  <2>3. \A s \in Servers : p \notin Adding(s)'
    BY <2>2 DEF Adding
  <2>4. QED
    BY <1>2, <1>4, <2>1, <2>2, <2>3 DEF Step, OnItsOwn
<1>5. ASSUME NEW p \in Procs, Begin(p) \/ LoadNext(p) \/ End(p) \/ Mark(p) \/ SetConnected(p) \/ SetDisconnected(p)
      PROVE  DoubledOK'
  <2>1. conns' = conns /\ doubled' = doubled /\ crossed \subseteq crossed'
    BY <1>5 DEF Begin, LoadNext, End, Mark, SetConnected, SetDisconnected, registry, ghosts
  <2>2. pc'[p] \notin AddPoints
    BY <1>5 DEF Begin, LoadNext, End, Mark, SetConnected, SetDisconnected, Goto, Update, JobsOK, AddPoints
  <2>3. \A s \in Servers : p \notin Adding(s)'
    BY <2>2 DEF Adding, AddPoints
  <2>4. QED
    BY <1>2, <1>5, <2>1, <2>3 DEF Step, OnItsOwn, Request, Registered
<1>6. ASSUME NEW p \in Procs, Connect(p) \/ Verify(p) \/ Lock(p) \/ RegisterTool(p) PROVE DoubledOK'
  <2>1. /\ conns' = conns /\ doubled' = doubled /\ crossed' = crossed /\ job' = job
        /\ pc[p] \in AddPoints
    BY <1>6 DEF Connect, Verify, Lock, RegisterTool, ghosts, AddPoints
  <2>2. \A s \in Servers : p \in Adding(s)' => p \in Adding(s)
    BY <2>1 DEF Adding, AddPoints
  <2>3. QED
    BY <1>2, <1>6, <2>1, <2>2 DEF Step, OnItsOwn, Registered
<1>7. ASSUME UNCHANGED <<conns, doubled, pc, job>>, crossed \subseteq crossed' PROVE DoubledOK'
  BY <1>7 DEF DoubledOK, Adding, Registered
<1>8. ASSUME NEW p \in Procs, Create(p) \/ Change(p) \/ DeleteRow(p) PROVE DoubledOK'
  BY <1>7, <1>8 DEF Create, Change, DeleteRow, Edit, registry, procs
<1>9. CASE UNCHANGED vars
  BY <1>7, <1>9 DEF vars, registry, procs, ghosts
<1>10. QED
  BY <1>1, <1>3, <1>4, <1>5, <1>6, <1>8, <1>9 DEF Next, Request, Step, OnItsOwn

-----------------------------------------------------------------------------
(* Tools, invokers and servers                                             *)

LEMMA InitContent == Init => ContentOK
BY Constants DEF Init, ContentOK, Claims, NoNames, Apart

LEMMA ApartShrinks == doubled \subseteq doubled' => Apart' \subseteq Apart
BY DEF Apart, Shared, KeysOf

(* Nothing changes by a step that neither registers nor removes.           *)
LEMMA ContentKept ==
  ASSUME ContentOK, doubled \subseteq doubled', UNCHANGED <<conns, listed, invokers>>,
         \A p \in Procs : pc'[p] = "register" =>
            /\ job'[p] = job[p] /\ todo'[p] \subseteq offer'[p]
            /\ \/ pc[p] = "register" /\ offer'[p] = offer[p] /\ todo'[p] = todo[p]
               \/ offer'[p] \subseteq todo'[p],
         \A p \in Procs : pc[p] = "register" =>
            pc'[p] = "register" /\ job'[p] = job[p] /\ offer'[p] = offer[p] /\ todo'[p] = todo[p]
  PROVE  ContentOK'
<1>1. ASSUME NEW s, NEW k PROVE Claims(s, k)' <=> Claims(s, k)
  BY <1>1 DEF Claims, KeysOf
<1>2. Apart' \subseteq Apart
  BY ApartShrinks
<1>3. \A k \in Apart' : /\ listed'[k] > 0 <=> \E s \in Servers : Claims(s, k)'
                       /\ \A st \in invokers'[k] : Claims(st[1], k)'
  BY <1>1, <1>2 DEF ContentOK
<1>4. /\ \A s \in Servers : conns'[s].names \subseteq KeysOf(s, Tools)
      /\ \A p \in Procs : pc'[p] = "register" => todo'[p] \subseteq offer'[p]
      /\ \A k \in Keys : /\ listed'[k] > 0 <=> invokers'[k] # {}
                         /\ \A st \in invokers'[k] : KeyOf[st] = k
  BY DEF ContentOK
<1>5. QED
  BY <1>3, <1>4 DEF ContentOK, KeysOf

LEMMA StepContent ==
  ContentOK /\ DoubledOK /\ MutexOK /\ JobsOK /\ RegistryOK /\ RegistryOK' /\ [Next]_vars => ContentOK'
<1> SUFFICES ASSUME ContentOK, DoubledOK, MutexOK, JobsOK, RegistryOK, RegistryOK', [Next]_vars
             PROVE  ContentOK'
  OBVIOUS
<1> USE Constants
<1>1. ASSUME NEW p \in Procs, RegisterTool(p) PROVE ContentOK'
  <2> DEFINE s == job[p].server
  <2>1. PICK t \in todo[p] :
          /\ listed' = [listed EXCEPT ![KeyOf[<<s, t>>]] = @ + 1]
          /\ invokers' = [invokers EXCEPT ![KeyOf[<<s, t>>]] = {<<s, t>>}]
          /\ todo' = [todo EXCEPT ![p] = @ \ {t}]
    BY <1>1 DEF RegisterTool
  <2> DEFINE key == KeyOf[<<s, t>>]
  <2>2. /\ s \in Servers /\ t \in Tools /\ t \in offer[p] /\ pc[p] = "register"
        /\ UNCHANGED <<conns, pc, job, offer, doubled>>
        /\ \A q \in Procs : pc[q] = "register" => q = p
    BY <1>1, <2>1 DEF RegisterTool, ContentOK, MutexOK, JobsOK, RegistryOK, ghosts
  <2>3. key \in Keys
    BY <2>2, RegistryAssumption
  <2>4. ASSUME NEW r, NEW k PROVE Claims(r, k)' <=> Claims(r, k) \/ (r = s /\ k = key)
    <3>1. offer'[p] \ todo'[p] = (offer[p] \ todo[p]) \union {t}
      BY <2>1, <2>2 DEF RegistryOK
    <3>2. KeysOf(s, offer'[p] \ todo'[p]) = KeysOf(s, offer[p] \ todo[p]) \union {key}
      BY <3>1 DEF KeysOf
    <3>3. Claims(r, k)' <=> k \in conns[r].names \/ (r = s /\ k \in KeysOf(s, offer'[p] \ todo'[p]))
      BY <2>2 DEF Claims
    <3>4. Claims(r, k) <=> k \in conns[r].names \/ (r = s /\ k \in KeysOf(s, offer[p] \ todo[p]))
      BY <2>2 DEF Claims
    <3>5. QED
      BY <3>2, <3>3, <3>4
  <2>5. ASSUME NEW k \in Keys, k # key PROVE listed'[k] = listed[k] /\ invokers'[k] = invokers[k]
    BY <2>1, <2>5 DEF RegistryOK
  <2>6. listed'[key] > 0 /\ invokers'[key] = {<<s, t>>}
    <3>1. listed \in [Keys -> Nat] /\ DOMAIN invokers = Keys
      BY DEF RegistryOK
    <3>2. listed'[key] = listed[key] + 1 /\ listed[key] \in Nat
      BY <2>1, <2>3, <3>1
    <3>3. invokers'[key] = {<<s, t>>}
      BY <2>1, <2>3, <3>1
    <3>4. QED
      BY <3>2, <3>3
  <2> HIDE DEF key
  <2>7. \A k \in Keys : /\ listed'[k] > 0 <=> invokers'[k] # {}
                       /\ \A st \in invokers'[k] : KeyOf[st] = k
    BY <2>5, <2>6 DEF ContentOK, key
  <2>8. \A k \in Apart : /\ listed'[k] > 0 <=> \E r \in Servers : Claims(r, k)'
                        /\ \A st \in invokers'[k] : Claims(st[1], k)'
    <3> SUFFICES ASSUME NEW k \in Apart
                 PROVE  /\ listed'[k] > 0 <=> \E r \in Servers : Claims(r, k)'
                        /\ \A st \in invokers'[k] : Claims(st[1], k)'
      OBVIOUS
    <3>1. CASE k = key
      BY <2>2, <2>4, <2>6, <3>1
    <3>2. CASE k # key
      <4>1. k \in Keys
        BY DEF Apart
      <4>2. QED
        BY <2>4, <2>5, <3>2, <4>1 DEF ContentOK
    <3>3. QED
      BY <3>1, <3>2
  <2>9. /\ \A r \in Servers : conns'[r].names \subseteq KeysOf(r, Tools)
        /\ \A q \in Procs : pc'[q] = "register" => todo'[q] \subseteq offer'[q]
    BY <2>1, <2>2 DEF ContentOK, RegistryOK
  <2>10. Apart' = Apart
    BY <2>2 DEF Apart, Shared, KeysOf
  <2>11. QED
    BY <2>7, <2>8, <2>9, <2>10 DEF ContentOK, KeysOf
<1>2. ASSUME NEW p \in Procs, Publish(p) PROVE ContentOK'
  <2> DEFINE s == job[p].server
  <2>1. /\ s \in Servers /\ pc[p] = "register" /\ todo[p] = {} /\ pc'[p] = "added"
        /\ \A q \in Procs \ {p} : pc'[q] = pc[q] /\ pc[q] # "register"
        /\ conns' = [conns EXCEPT ![s] = [registered |-> TRUE, names |-> KeysOf(s, offer[p])]]
        /\ UNCHANGED <<listed, invokers, doubled, job, todo>>
    BY <1>2 DEF Publish, JobsOK, MutexOK, Goto, ghosts
  <2>2. /\ conns'[s].names = KeysOf(s, offer[p]) /\ offer[p] \subseteq Tools
        /\ \A r \in Servers \ {s} : conns'[r] = conns[r]
    BY <2>1 DEF RegistryOK
  <2>3. ASSUME NEW k \in Apart, NEW r \in Servers PROVE Claims(r, k)' <=> Claims(r, k)
    <3>1. Claims(r, k)' <=> k \in conns'[r].names
      BY <2>1 DEF Claims
    <3>2. Claims(r, k) <=> k \in conns[r].names \/ (r = s /\ k \in KeysOf(s, offer[p]))
      BY <2>1 DEF Claims
    <3>3. CASE r # s
      BY <2>2, <3>1, <3>2, <3>3
    <3>4. CASE r = s /\ s \in doubled
      <4>1. k \notin KeysOf(s, Tools)
        BY <2>1, <3>4 DEF Apart
      <4>2. k \notin KeysOf(s, offer[p]) /\ k \notin conns[s].names
        BY <2>1, <2>2, <4>1, KeysTyped DEF ContentOK
      <4>3. QED
        BY <2>2, <3>1, <3>2, <3>4, <4>2
    <3>5. CASE r = s /\ s \notin doubled
      <4>1. conns[s].names = {}
        BY <2>1, <3>5 DEF DoubledOK, Adding, RegistryOK
      <4>2. QED
        BY <2>2, <3>1, <3>2, <3>5, <4>1
    <3>6. QED
      BY <3>3, <3>4, <3>5
  <2>4. \A r \in Servers : conns'[r].names \subseteq KeysOf(r, Tools)
    BY <2>1, <2>2, KeysTyped DEF ContentOK
  <2>5. \A q \in Procs : pc'[q] # "register"
    BY <2>1
  <2>6. Apart' = Apart
    BY <2>1 DEF Apart, Shared, KeysOf
  <2>7. \A k \in Apart : /\ listed'[k] > 0 <=> \E r \in Servers : Claims(r, k)'
                        /\ \A st \in invokers'[k] : Claims(st[1], k)'
    <3>1. \A k \in Apart : \A st \in invokers[k] : st[1] \in Servers
      BY DEF RegistryOK, Apart
    <3>2. QED
      BY <2>1, <2>3, <3>1 DEF ContentOK
  <2>8. QED
    BY <2>1, <2>4, <2>5, <2>6, <2>7 DEF ContentOK, KeysOf
<1>3. ASSUME NEW p \in Procs, Remove(p), Registered(job[p].server) PROVE ContentOK'
  <2> DEFINE s == job[p].server
  <2>1. /\ s \in Servers /\ UNCHANGED <<doubled, todo, offer>>
        /\ conns' = [conns EXCEPT ![s] = NoNames]
        /\ \A q \in Procs : pc[q] # "register" /\ pc'[q] # "register"
    BY <1>3 DEF Remove, JobsOK, MutexOK, Goto, Unlocked, ghosts
  <2>2. \A k \in Keys : /\ invokers'[k] = IF k \in conns[s].names THEN {} ELSE invokers[k]
                       /\ listed'[k] = IF k \in conns[s].names THEN 0 ELSE listed[k]
    BY <1>3 DEF Remove, Dropped
  <2>3. conns'[s].names = {} /\ \A r \in Servers \ {s} : conns'[r] = conns[r]
    BY <2>1 DEF RegistryOK, NoNames
  <2>4. \A r, k : Claims(r, k) <=> k \in conns[r].names
    BY <2>1 DEF Claims
  <2>5. \A r, k : Claims(r, k)' <=> k \in conns'[r].names
    BY <2>1 DEF Claims
  <2>6. ASSUME NEW k \in Apart
        PROVE  /\ listed'[k] > 0 <=> \E r \in Servers : Claims(r, k)'
               /\ \A st \in invokers'[k] : Claims(st[1], k)'
    <3>1. k \in Keys /\ k \notin Shared
      BY DEF Apart
    <3>2. CASE k \in conns[s].names
      <4>1. ASSUME NEW r \in Servers \ {s} PROVE k \notin conns[r].names
        BY <2>1, <3>1, <3>2, <4>1 DEF Shared, ContentOK
      <4>2. QED
        BY <2>2, <2>3, <2>5, <3>1, <3>2, <4>1
    <3>3. CASE k \notin conns[s].names
      <4>1. \A r \in Servers : k \in conns'[r].names <=> k \in conns[r].names
        BY <2>3, <3>3
      <4>2. \A st \in invokers[k] : st[1] \in Servers
        BY <3>1 DEF RegistryOK
      <4>3. QED
        BY <2>2, <2>4, <2>5, <3>1, <3>3, <4>1, <4>2 DEF ContentOK
    <3>4. QED
      BY <3>2, <3>3
  <2>7. \A r \in Servers : conns'[r].names \subseteq KeysOf(r, Tools)
    BY <2>3 DEF ContentOK
  <2>8. \A k \in Keys : /\ listed'[k] > 0 <=> invokers'[k] # {}
                       /\ \A st \in invokers'[k] : KeyOf[st] = k
    BY <2>2 DEF ContentOK
  <2>9. Apart' = Apart
    BY <2>1 DEF Apart, Shared, KeysOf
  <2>10. QED
    BY <2>1, <2>6, <2>7, <2>8, <2>9 DEF ContentOK, KeysOf
<1>4. ASSUME NEW p \in Procs, Lock(p) PROVE ContentOK'
  <2>1. /\ pc[p] = "lock" /\ pc'[p] = "register" /\ todo'[p] = offer[p]
        /\ UNCHANGED <<conns, listed, invokers, doubled, offer, job>>
        /\ \A q \in Procs \ {p} : pc'[q] = pc[q] /\ todo'[q] = todo[q]
    BY <1>4 DEF Lock, JobsOK, RegistryOK, Goto, ghosts
  <2>2. QED
    BY <2>1, ContentKept DEF ContentOK
(* All other steps are of processes that are not about to register.        *)
<1>5. ASSUME NEW p \in Procs, Request(p) \/ Step(p), UNCHANGED <<conns, listed, invokers>>,
             pc[p] # "register", pc'[p] # "register", doubled \subseteq doubled'
      PROVE  ContentOK'
  <2>1. \A q \in Procs \ {p} : /\ pc'[q] = pc[q] /\ job'[q] = job[q]
                               /\ offer'[q] = offer[q] /\ todo'[q] = todo[q]
    BY <1>5, OthersStay DEF RegistryOK
  <2>2. QED
    BY <1>5, <2>1, ContentKept DEF ContentOK
<1>6. ASSUME NEW p \in Procs,
             Request(p) \/ LoadNext(p) \/ End(p) \/ Mark(p) \/ SetConnected(p) \/ SetDisconnected(p)
      PROVE  ContentOK'
  <2>1. UNCHANGED <<conns, listed, invokers, doubled>>
    BY <1>6 DEF Request, Begin, Create, Change, DeleteRow, Edit, LoadNext, End, Mark, SetConnected,
                SetDisconnected, registry, ghosts
  <2>2. pc[p] # "register" /\ pc'[p] # "register"
    BY <1>6 DEF Request, Begin, Create, Change, DeleteRow, Edit, LoadNext, End, Mark, SetConnected,
                SetDisconnected, procs, Update, Goto, JobsOK
  <2>3. QED
    BY <1>5, <1>6, <2>1, <2>2 DEF Step, OnItsOwn
<1>7. ASSUME NEW p \in Procs,
             CheckName(p) \/ Connect(p) \/ Verify(p) \/ (Remove(p) /\ ~Registered(job[p].server))
      PROVE  ContentOK'
  <2>1. UNCHANGED <<conns, listed, invokers>> /\ doubled \subseteq doubled'
    BY <1>7 DEF CheckName, Connect, Verify, Remove, registry, ghosts
  <2>2. pc[p] # "register" /\ pc'[p] # "register"
    BY <1>7 DEF CheckName, Connect, Verify, Remove, Goto, JobsOK
  <2>3. QED
    BY <1>5, <1>7, <2>1, <2>2 DEF Step, OnItsOwn
<1>8. CASE UNCHANGED vars
  BY <1>8, ContentKept DEF vars, registry, procs, ghosts, ContentOK
<1>9. QED
  BY <1>1, <1>2, <1>3, <1>4, <1>6, <1>7, <1>8 DEF Next, Step, OnItsOwn

-----------------------------------------------------------------------------
(* Clients                                                                 *)

LEMMA HoldingFinite == ASSUME NEW s PROVE IsFiniteSet(Holding(s)) /\ Cardinality(Holding(s)) \in Nat
<1>1. IsFiniteSet(Procs)
  BY NamesAssumption, FS_AddElement DEF Procs
<1>2. Holding(s) \subseteq Procs
  BY DEF Holding, Adding
<1>3. QED
  BY <1>1, <1>2, FS_Subset, FS_CardinalityType

LEMMA HoldingGrows ==
  ASSUME NEW s, NEW p, p \notin Holding(s), Holding(s)' = Holding(s) \union {p}
  PROVE  /\ Cardinality(Holding(s)') = Cardinality(Holding(s)) + 1
         /\ Cardinality(Holding(s)) \in Nat
<1>1. IsFiniteSet(Holding(s)) /\ Cardinality(Holding(s)) \in Nat
  BY HoldingFinite
<1>2. Cardinality(Holding(s) \union {p}) = Cardinality(Holding(s)) + 1
  BY <1>1, FS_AddElement
<1>3. QED
  BY <1>1, <1>2

LEMMA HoldingShrinks ==
  ASSUME NEW s, NEW p, p \in Holding(s), Holding(s)' = Holding(s) \ {p}
  PROVE  /\ Cardinality(Holding(s)') = Cardinality(Holding(s)) - 1
         /\ Cardinality(Holding(s)) \in Nat /\ Cardinality(Holding(s)') \in Nat
<1>1. IsFiniteSet(Holding(s)) /\ Cardinality(Holding(s)) \in Nat
  BY HoldingFinite
<1>2. Cardinality(Holding(s) \ {p}) = Cardinality(Holding(s)) - 1 /\ IsFiniteSet(Holding(s) \ {p})
  BY <1>1, FS_RemoveElement
<1>3. Cardinality(Holding(s) \ {p}) \in Nat
  BY <1>2, FS_CardinalityType
<1>4. QED
  BY <1>1, <1>2, <1>3

LEMMA OwedTyped == ASSUME NEW s PROVE Owed(s) \in Nat
<1>1. Cardinality(Holding(s)) \in Nat
  BY HoldingFinite
<1>2. QED
  BY <1>1 DEF Owed

LEMMA InitOpen == Init => OpenOK
<1> SUFFICES ASSUME Init PROVE OpenOK
  OBVIOUS
<1>1. open \in [Servers -> Nat] /\ \A s \in Servers : open[s] = 0 /\ ~Registered(s) /\ Holding(s) = {}
  BY DEF Init, Registered, NoNames, Holding, Adding
<1>2. Cardinality({}) = 0
  BY FS_EmptySet
<1>3. ASSUME NEW s \in Servers PROVE Owed(s) = 0
  BY <1>1, <1>2 DEF Owed
<1>4. QED
  BY <1>1, <1>3 DEF OpenOK

(* A step by which the clients of a server come to be owed as they are.    *)
LEMMA OpenKept ==
  ASSUME OpenOK, doubled \subseteq doubled', open' = open,
         \A s \in Servers : Holding(s)' = Holding(s) /\ (Registered(s)' <=> Registered(s))
  PROVE  OpenOK'
<1>1. \A s \in Servers : Owed(s)' = Owed(s)
  BY DEF Owed
<1>2. QED
  BY <1>1 DEF OpenOK

LEMMA OpenMoves ==
  ASSUME OpenOK, doubled' = doubled, NEW s \in Servers, NEW n \in Nat, open' = [open EXCEPT ![s] = n],
         \A r \in Servers \ {s} : Holding(r)' = Holding(r) /\ (Registered(r)' <=> Registered(r)),
         n >= Owed(s)' /\ (s \notin doubled => n = Owed(s)')
  PROVE  OpenOK'
<1>1. \A r \in Servers \ {s} : Owed(r)' = Owed(r)
  BY DEF Owed
<1>2. QED
  BY <1>1 DEF OpenOK

(* The clients of others than p are held as before.                        *)
LEMMA HoldingAfter ==
  ASSUME JobsOK, RegistryOK, NEW p \in Procs, Request(p) \/ Step(p), NEW s
  PROVE  Holding(s)' \ {p} = Holding(s) \ {p}
BY OthersStay DEF Holding, Adding, RegistryOK

LEMMA StepOpen == OpenOK /\ DoubledOK /\ JobsOK /\ RegistryOK /\ [Next]_vars => OpenOK'
<1> SUFFICES ASSUME OpenOK, DoubledOK, JobsOK, RegistryOK, [Next]_vars PROVE OpenOK'
  OBVIOUS
<1> USE Constants
<1>1. ASSUME NEW p \in Procs, Connect(p), Goto(p, "verify") PROVE OpenOK'
  <2>1. PICK s \in Servers :
        /\ s = job[p].server /\ pc[p] = "connect" /\ pc'[p] = "verify" /\ job' = job
        /\ open' = [open EXCEPT ![s] = open[s] + 1] /\ UNCHANGED <<conns, doubled>>
    BY <1>1 DEF Connect, JobsOK, Goto, ghosts
  <2>2. p \notin Holding(s) /\ Holding(s)' = Holding(s) \union {p}
    BY <1>1, <2>1, HoldingAfter DEF Step, OnItsOwn, Holding, Adding
  <2>3. ASSUME NEW r \in Servers \ {s} PROVE Holding(r)' = Holding(r)
    BY <1>1, <2>1, HoldingAfter DEF Step, OnItsOwn, Holding, Adding
  <2>4. Cardinality(Holding(s)') = Cardinality(Holding(s)) + 1 /\ Cardinality(Holding(s)) \in Nat
    BY <2>2, HoldingGrows
  <2>5. Registered(s)' <=> Registered(s)
    BY <2>1 DEF Registered
  <2>6. Owed(s)' = Owed(s) + 1 /\ Owed(s) \in Nat
    BY <2>4, <2>5 DEF Owed
  <2>7. /\ open[s] \in Nat /\ open[s] + 1 \in Nat /\ open[s] + 1 >= Owed(s)'
        /\ (s \notin doubled => open[s] + 1 = Owed(s)')
    BY <2>1, <2>6 DEF OpenOK
  <2>8. QED
    BY <2>1, <2>3, <2>7, OpenMoves DEF Registered
<1>2. ASSUME NEW p \in Procs, Verify(p), Goto(p, "failed") PROVE OpenOK'
  <2>1. PICK s \in Servers :
        /\ s = job[p].server /\ pc[p] = "verify" /\ pc'[p] = "failed" /\ job' = job
        /\ open' = [open EXCEPT ![s] = open[s] - 1] /\ UNCHANGED <<conns, doubled>>
    BY <1>2 DEF Verify, Closed, JobsOK, Goto, ghosts
  <2>2. p \in Holding(s) /\ Holding(s)' = Holding(s) \ {p}
    BY <1>2, <2>1, HoldingAfter DEF Step, OnItsOwn, Holding, Adding
  <2>3. ASSUME NEW r \in Servers \ {s} PROVE Holding(r)' = Holding(r)
    BY <1>2, <2>1, HoldingAfter DEF Step, OnItsOwn, Holding, Adding
  <2>4. /\ Cardinality(Holding(s)') = Cardinality(Holding(s)) - 1
        /\ Cardinality(Holding(s)) \in Nat /\ Cardinality(Holding(s)') \in Nat
    BY <2>2, HoldingShrinks
  <2>5. Registered(s)' <=> Registered(s)
    BY <2>1 DEF Registered
  <2>6. Owed(s)' = Owed(s) - 1 /\ Owed(s) \in Nat /\ Owed(s)' \in Nat
    BY <2>4, <2>5 DEF Owed
  <2>7. open[s] - 1 \in Nat /\ open[s] - 1 >= Owed(s)' /\ (s \notin doubled => open[s] - 1 = Owed(s)')
    BY <2>1, <2>6 DEF OpenOK
  <2>8. QED
    BY <2>1, <2>3, <2>7, OpenMoves DEF Registered
<1>3. ASSUME NEW p \in Procs, Publish(p) PROVE OpenOK'
  <2>1. PICK s \in Servers :
        /\ s = job[p].server /\ pc[p] = "register" /\ pc'[p] = "added" /\ job' = job
        /\ Registered(s)' /\ \A r \in Servers \ {s} : conns'[r] = conns[r]
        /\ UNCHANGED <<open, doubled>>
    BY <1>3 DEF Publish, JobsOK, RegistryOK, Goto, ghosts, Registered
  <2>2. p \in Holding(s) /\ p \in Adding(s) /\ Holding(s)' = Holding(s) \ {p}
    BY <1>3, <2>1, HoldingAfter DEF Step, OnItsOwn, Holding, Adding
  <2>3. ASSUME NEW r \in Servers \ {s} PROVE Holding(r)' = Holding(r)
    BY <1>3, <2>1, HoldingAfter DEF Step, OnItsOwn, Holding, Adding
  <2>4. /\ Cardinality(Holding(s)') = Cardinality(Holding(s)) - 1
        /\ Cardinality(Holding(s)) \in Nat /\ Cardinality(Holding(s)') \in Nat
    BY <2>2, HoldingShrinks
  <2>5. Owed(s)' = Cardinality(Holding(s))
    BY <2>1, <2>4 DEF Owed
  <2>6. Owed(s) >= Cardinality(Holding(s))
    BY <2>4 DEF Owed
  <2>7. s \notin doubled => Owed(s) = Cardinality(Holding(s))
    <3>1. s \notin doubled => ~Registered(s)
      BY <2>1, <2>2 DEF DoubledOK
    <3>2. QED
      BY <2>4, <3>1 DEF Owed
  <2>8. open[s] \in Nat /\ open[s] >= Owed(s) /\ (s \notin doubled => open[s] = Owed(s)) /\ Owed(s) \in Nat
    BY <2>1, OwedTyped DEF OpenOK
  <2>9. open[s] >= Owed(s)' /\ (s \notin doubled => open[s] = Owed(s)')
    BY <2>4, <2>5, <2>6, <2>7, <2>8
  <2>10. open' = [open EXCEPT ![s] = open[s]]
    BY <2>1 DEF OpenOK
  <2>11. \A r \in Servers \ {s} : Holding(r)' = Holding(r) /\ (Registered(r)' <=> Registered(r))
    BY <2>1, <2>3 DEF Registered
  <2>12. QED
    BY <2>1, <2>8, <2>9, <2>10, <2>11, OpenMoves
<1>4. ASSUME NEW p \in Procs, Remove(p), Registered(job[p].server) PROVE OpenOK'
  <2>1. PICK s \in Servers :
        /\ s = job[p].server /\ pc[p] = "remove" /\ pc'[p] = "removed" /\ job' = job
        /\ ~Registered(s)' /\ \A r \in Servers \ {s} : conns'[r] = conns[r]
        /\ open' = [open EXCEPT ![s] = open[s] - 1] /\ doubled' = doubled
    BY <1>4 DEF Remove, JobsOK, RegistryOK, Goto, ghosts, Registered, NoNames
  <2>2. \A r \in Servers : Holding(r)' = Holding(r)
    BY <1>4, <2>1, HoldingAfter DEF Step, OnItsOwn, Holding, Adding
  <2>3. Cardinality(Holding(s)) \in Nat /\ Cardinality(Holding(s)') = Cardinality(Holding(s))
    BY <2>1, <2>2, HoldingFinite
  <2>4. Owed(s) = Cardinality(Holding(s)) + 1 /\ Owed(s)' = Cardinality(Holding(s))
    BY <1>4, <2>1, <2>3 DEF Owed
  <2>5. open[s] - 1 \in Nat /\ open[s] - 1 >= Owed(s)' /\ (s \notin doubled => open[s] - 1 = Owed(s)')
    BY <2>1, <2>3, <2>4 DEF OpenOK
  <2>6. QED
    BY <2>1, <2>2, <2>5, OpenMoves DEF Registered
(* All other steps are of processes that hold a client before and after,   *)
(* or neither.                                                             *)
<1>5. ASSUME NEW p \in Procs, Request(p) \/ Step(p), UNCHANGED <<conns, open>>, doubled \subseteq doubled',
             \A s \in Servers : p \in Holding(s)' <=> p \in Holding(s)
      PROVE  OpenOK'
  <2>1. \A s \in Servers : Holding(s)' = Holding(s)
    BY <1>5, HoldingAfter
  <2>2. QED
    BY <1>5, <2>1, OpenKept DEF Registered
<1>6. ASSUME NEW p \in Procs,
             Request(p) \/ LoadNext(p) \/ End(p) \/ Mark(p) \/ SetConnected(p) \/ SetDisconnected(p)
      PROVE  OpenOK'
  <2>1. UNCHANGED <<conns, open, doubled>>
    BY <1>6 DEF Request, Begin, Create, Change, DeleteRow, Edit, LoadNext, End, Mark, SetConnected,
                SetDisconnected, registry, ghosts
  <2>2. pc[p] \notin {"verify", "lock", "register"} /\ pc'[p] \notin {"verify", "lock", "register"}
    BY <1>6 DEF Request, Begin, Create, Change, DeleteRow, Edit, LoadNext, End, Mark, SetConnected,
                SetDisconnected, procs, Update, Goto, JobsOK
  <2>3. \A s \in Servers : p \notin Holding(s)' /\ p \notin Holding(s)
    BY <2>2 DEF Holding, Adding
  <2>4. QED
    BY <1>5, <1>6, <2>1, <2>3 DEF Step, OnItsOwn
<1>7. ASSUME NEW p \in Procs, CheckName(p) \/ (Connect(p) /\ Goto(p, "failed"))
               \/ (Remove(p) /\ ~Registered(job[p].server))
      PROVE  OpenOK'
  <2>1. pc[p] \in {"check", "connect", "remove"} /\ pc'[p] \in {"connect", "failed"}
    BY <1>7 DEF CheckName, Connect, Remove, Goto, JobsOK
  <2>2. UNCHANGED conns /\ doubled \subseteq doubled'
    BY <1>7 DEF CheckName, Connect, Remove, registry, ghosts
  <2>3. UNCHANGED open
    BY <1>7, <2>1 DEF CheckName, Connect, Remove, Goto, JobsOK, registry
  <2>4. \A s \in Servers : p \notin Holding(s)' /\ p \notin Holding(s)
    BY <2>1 DEF Holding, Adding
  <2>5. QED
    BY <1>5, <1>7, <2>2, <2>3, <2>4 DEF Step, OnItsOwn
<1>8. ASSUME NEW p \in Procs, (Verify(p) /\ ~Goto(p, "failed")) \/ Lock(p) \/ RegisterTool(p) PROVE OpenOK'
  <2>1. UNCHANGED <<conns, open, doubled, job>>
    BY <1>8 DEF Verify, Lock, RegisterTool, ghosts
  <2>2. pc[p] \in {"verify", "lock", "register"} /\ pc'[p] \in {"verify", "lock", "register"}
    BY <1>8 DEF Verify, Lock, RegisterTool, Goto, JobsOK
  <2>3. \A s \in Servers : p \in Holding(s)' <=> p \in Holding(s)
    BY <2>1, <2>2 DEF Holding, Adding
  <2>4. QED
    BY <1>5, <1>8, <2>1, <2>3 DEF Step, OnItsOwn
<1>9. CASE UNCHANGED vars
  BY <1>9, OpenKept DEF vars, registry, procs, ghosts, Holding, Adding, Registered
<1>10. ASSUME NEW p \in Procs, Connect(p) PROVE Goto(p, "verify") \/ Goto(p, "failed")
  BY <1>10 DEF Connect
<1>11. QED
  BY <1>1, <1>2, <1>3, <1>4, <1>6, <1>7, <1>8, <1>9, <1>10 DEF Next, Step, OnItsOwn

-----------------------------------------------------------------------------
(* Rows                                                                    *)

LEMMA InitActive == Init => ActiveOK
BY DEF Init, ActiveOK, Bringing, AddPoints, Registered, NoNames

LEMMA StepActive ==
  ActiveOK /\ CrossedOK /\ LoadOK /\ JobsOK /\ RowsOK /\ RegistryOK /\ CrossedOK' /\ [Next]_vars => ActiveOK'
<1> SUFFICES ASSUME ActiveOK, CrossedOK, CrossedOK', LoadOK, JobsOK, RowsOK, RegistryOK, [Next]_vars
             PROVE  ActiveOK'
  OBVIOUS
<1> USE Constants
<1>1. ASSUME NEW p \in Procs, Request(p) \/ Step(p), crossed \subseteq crossed', UNCHANGED <<row, conns>>,
             \A s : Bringing(p, s)' => Bringing(p, s), pc'[p] # "removed"
      PROVE  ActiveOK'
  <2>1. \A q \in Procs \ {p} : pc'[q] = pc[q] /\ job'[q] = job[q]
    BY <1>1, OthersStay DEF RegistryOK
  <2>2. QED
    BY <1>1, <2>1 DEF ActiveOK, Bringing, Registered
<1>2. ASSUME NEW p \in Procs, LoadNext(p) PROVE ActiveOK'
  <2>1. PICK s \in Servers : (s \in Configured \/ row[s].active) /\ job'[p].server = s
    BY <1>2 DEF LoadNext, LoadOK, JobsOK
  <2>2. pc'[p] = "check" /\ UNCHANGED <<row, conns, crossed>>
    BY <1>2 DEF LoadNext, Goto, JobsOK, registry, ghosts
  <2>3. \A q \in Procs \ {p} : pc'[q] = pc[q] /\ job'[q] = job[q]
    BY <1>2, OthersStay DEF RegistryOK, Step, OnItsOwn
  <2>4. QED
    BY <2>1, <2>2, <2>3 DEF ActiveOK, Bringing, Registered
<1>3. ASSUME NEW p \in Procs, Create(p) \/ Change(p) \/ DeleteRow(p) PROVE ActiveOK'
  <2>1. PICK s \in Servers : \E new : Edit(p, s, new)
    BY <1>3 DEF Create, Change, DeleteRow
  <2>2. /\ UNCHANGED <<conns, pc, job>> /\ crossed \subseteq crossed'
        /\ \A r \in Servers \ {s} : row'[r] = row[r]
        /\ Concerned(s) => s \in crossed'
    BY <2>1 DEF Edit, registry, procs, RowsOK
  <2>3. s \notin crossed' => ~Registered(s) /\ \A q \in Procs : job[q].server # s
    BY <2>2 DEF Concerned
  <2>4. QED
    BY <2>2, <2>3 DEF ActiveOK, Bringing, Registered
<1>4. ASSUME NEW p \in Procs, Mark(p) PROVE ActiveOK'
  <2>1. CASE UNCHANGED row
    <3>1. pc'[p] = "failed" \/ (row'[job[p].server].active /\ job[p].server \in Servers)
      BY <1>4 DEF Mark, Update, Activated, Goto, JobsOK, RowsOK
    <3>2. UNCHANGED <<conns, crossed, job>> /\ pc'[p] # "removed"
      BY <1>4 DEF Mark, Update, Goto, JobsOK, registry, ghosts
    <3>3. CASE pc'[p] = "failed"
      BY <1>1, <1>4, <2>1, <3>2, <3>3 DEF Bringing, AddPoints, Step, OnItsOwn
    <3>4. CASE row'[job[p].server].active /\ job[p].server \in Servers
      <4>1. \A q \in Procs \ {p} : pc'[q] = pc[q] /\ job'[q] = job[q]
        BY <1>4, OthersStay DEF RegistryOK, Step, OnItsOwn
      <4>2. QED
        BY <2>1, <3>2, <3>4, <4>1 DEF ActiveOK, Bringing, Registered
    <3>5. QED
      BY <3>1, <3>3, <3>4
  <2>2. CASE Update(p, Activated(row[job[p].server]), "check")
    <3>1. PICK s \in Servers : /\ s = job[p].server /\ row'[s].active
                               /\ \A r \in Servers \ {s} : row'[r] = row[r]
      BY <1>4, <2>2 DEF Mark, Update, Activated, JobsOK, RowsOK
    <3>2. UNCHANGED <<conns, crossed, job>> /\ pc'[p] = "check"
      BY <1>4, <2>2 DEF Mark, Update, Goto, JobsOK, registry, ghosts
    <3>3. \A q \in Procs \ {p} : pc'[q] = pc[q]
      BY <1>4, OthersStay DEF RegistryOK, Step, OnItsOwn
    <3>4. QED
      BY <3>1, <3>2, <3>3 DEF ActiveOK, Bringing, Registered
  <2>3. QED
    BY <1>4, <2>1, <2>2 DEF Mark
<1>5. ASSUME NEW p \in Procs, SetConnected(p) PROVE ActiveOK'
  <2>1. /\ UNCHANGED <<conns, crossed, job>> /\ pc'[p] \in {"ok", "failed"}
    BY <1>5 DEF SetConnected, Update, Goto, JobsOK, registry, ghosts
  <2>2. \A q \in Procs \ {p} : pc'[q] = pc[q]
    BY <1>5, OthersStay DEF RegistryOK, Step, OnItsOwn
  <2>3. \A s \in Servers : row'[s].active = row[s].active
    <3>1. CASE UNCHANGED row
      BY <3>1
    <3>2. CASE Update(p, [row[job[p].server] EXCEPT !.status = "connected"], "ok")
      <4>1. job[p].server \in Servers
        BY <1>5 DEF SetConnected, JobsOK
      <4>2. row[job[p].server] \in RealRows \union {NoRow}
        BY <4>1 DEF RowsOK
      <4>3. [row[job[p].server] EXCEPT !.status = "connected"].active = row[job[p].server].active
        BY <4>2 DEF RealRows, NoRow
      <4>4. QED
        BY <3>2, <4>1, <4>3 DEF Update, RowsOK
    <3>3. QED
      BY <1>5, <3>1, <3>2 DEF SetConnected
  <2>4. QED
    BY <2>1, <2>2, <2>3 DEF ActiveOK, Bringing, Registered, AddPoints
<1>6. ASSUME NEW p \in Procs, SetDisconnected(p) PROVE ActiveOK'
  <2>1. PICK s \in Servers : s = job[p].server /\ \A r \in Servers \ {s} : row'[r] = row[r]
    BY <1>6 DEF SetDisconnected, Update, JobsOK, RowsOK
  <2>2. UNCHANGED <<conns, crossed, job>> /\ pc[p] = "removed" /\ pc'[p] \in {"ok", "failed"}
    BY <1>6 DEF SetDisconnected, Update, Goto, JobsOK, registry, ghosts
  <2>3. \A q \in Procs \ {p} : pc'[q] = pc[q]
    BY <1>6, OthersStay DEF RegistryOK, Step, OnItsOwn
  <2>4. s \notin crossed => ~Registered(s) /\ \A q \in Procs \ {p} : job[q].server # s
    BY <2>1, <2>2 DEF ActiveOK, CrossedOK
  <2>5. QED
    BY <2>1, <2>2, <2>3, <2>4 DEF ActiveOK, Bringing, Registered, AddPoints
<1>7. ASSUME NEW p \in Procs, Publish(p) PROVE ActiveOK'
  <2>1. PICK s \in Servers : s = job[p].server /\ \A r \in Servers \ {s} : conns'[r] = conns[r]
    BY <1>7 DEF Publish, JobsOK, RegistryOK
  <2>2. UNCHANGED <<row, crossed, job>> /\ pc[p] = "register" /\ pc'[p] = "added"
    BY <1>7 DEF Publish, Goto, JobsOK, ghosts
  <2>3. \A q \in Procs \ {p} : pc'[q] = pc[q]
    BY <1>7, OthersStay DEF RegistryOK, Step, OnItsOwn
  <2>4. s \notin crossed => /\ s \notin Configured => row[s].active
                            /\ \A q \in Procs \ {p} : job[q].server # s
    BY <2>1, <2>2 DEF ActiveOK, CrossedOK, Bringing, AddPoints
  <2>5. QED
    BY <2>1, <2>2, <2>3, <2>4 DEF ActiveOK, Bringing, Registered, AddPoints
<1>8. ASSUME NEW p \in Procs, Remove(p), Registered(job[p].server) PROVE ActiveOK'
  <2>1. PICK s \in Servers : /\ s = job[p].server /\ ~Registered(s)'
                             /\ \A r \in Servers \ {s} : conns'[r] = conns[r]
    BY <1>8 DEF Remove, JobsOK, RegistryOK, Registered, NoNames
  <2>2. UNCHANGED <<row, crossed, job>> /\ pc[p] = "remove" /\ pc'[p] = "removed"
    BY <1>8 DEF Remove, Goto, JobsOK, ghosts
  <2>3. \A q \in Procs \ {p} : pc'[q] = pc[q]
    BY <1>8, OthersStay DEF RegistryOK, Step, OnItsOwn
  <2>4. QED
    BY <2>1, <2>2, <2>3 DEF ActiveOK, Bringing, Registered, AddPoints
<1>9. ASSUME NEW p \in Procs, Begin(p) \/ End(p) PROVE ActiveOK'
  <2>1. /\ pc'[p] \in {"mark", "remove", "idle"} /\ UNCHANGED <<row, conns>> /\ crossed \subseteq crossed'
    BY <1>9 DEF Begin, End, Goto, JobsOK, registry, ghosts
  <2>2. QED
    BY <1>1, <1>9, <2>1 DEF Bringing, AddPoints, Step, OnItsOwn, Request
<1>10. ASSUME NEW p \in Procs,
              CheckName(p) \/ Connect(p) \/ Verify(p) \/ Lock(p) \/ RegisterTool(p)
                \/ (Remove(p) /\ ~Registered(job[p].server))
       PROVE  ActiveOK'
  <2>1. UNCHANGED <<row, conns, job, crossed>>
    BY <1>10 DEF CheckName, Connect, Verify, Lock, RegisterTool, Remove, registry, ghosts
  <2>2. \/ pc'[p] = "failed"
        \/ pc[p] \in {"check"} \union AddPoints /\ pc'[p] \in AddPoints
    BY <1>10 DEF CheckName, Connect, Verify, Lock, RegisterTool, Remove, Goto, JobsOK, AddPoints
  <2>3. QED
    BY <1>1, <1>10, <2>1, <2>2 DEF Bringing, AddPoints, Step, OnItsOwn
<1>11. CASE UNCHANGED vars
  BY <1>11 DEF vars, registry, procs, ghosts, ActiveOK, Bringing, Registered
<1>12. QED
  BY <1>2, <1>3, <1>4, <1>5, <1>6, <1>7, <1>8, <1>9, <1>10, <1>11 DEF Next, Step, OnItsOwn, Request

-----------------------------------------------------------------------------
(* The inductive invariant: RegistryWhole, ClientsOwned and                *)
(* RegisteredIsActive each speak of the moment after a registration or a   *)
(* removal, and hold then because of what holds on the way there.          *)

IInv ==
  /\ RowsOK /\ JobsOK /\ LoadOK /\ RegistryOK /\ MutexOK /\ CrossedOK /\ DoubledOK
  /\ ContentOK /\ OpenOK /\ ActiveOK
  /\ requests \in 0..MaxRequests

LEMMA InitIInv == Init => IInv
<1>1. Init => requests \in 0..MaxRequests
  BY RegistryAssumption DEF Init
<1>2. QED
  BY <1>1, InitRows, InitJobs, InitRegistry, InitOverlaps, InitContent, InitOpen, InitActive DEF IInv

LEMMA StepRequests == requests \in 0..MaxRequests /\ [Next]_vars => requests' \in 0..MaxRequests
<1> SUFFICES ASSUME requests \in 0..MaxRequests, [Next]_vars PROVE requests' \in 0..MaxRequests
  OBVIOUS
<1>1. ASSUME NEW p \in Procs, Request(p) PROVE requests < MaxRequests /\ requests' = requests + 1
  BY <1>1 DEF Request, Begin, Create, Change, DeleteRow, Edit
<1>2. ASSUME NEW p \in Procs, Step(p) PROVE requests' = requests
  BY <1>2 DEF Step, OnItsOwn, LoadNext, End, Mark, SetConnected, SetDisconnected, CheckName, Connect, Verify,
              Lock, RegisterTool, Publish, Remove
<1>3. QED
  BY <1>1, <1>2, RegistryAssumption DEF Next, vars

LEMMA StepIInv == IInv /\ [Next]_vars => IInv'
BY StepRows, StepJobs, StepLoad, StepRegistry, StepMutex, StepCrossed, StepDoubled, StepContent, StepOpen,
   StepActive, StepRequests DEF IInv

LEMMA Invariance == Spec => []IInv
BY InitIInv, StepIInv, PTL DEF Spec

(* Whatever the servers answer and the database does, the registry's and   *)
(* the handlers' variables have their types, and no client is closed that  *)
(* is not open.                                                            *)
THEOREM TypesHold == Spec => []TypeOK
<1>1. IInv => TypeOK
  <2> SUFFICES ASSUME IInv PROVE TypeOK
    OBVIOUS
  <2>1. row \in [Servers -> [active : BOOLEAN,
                             status : {"no row", "disconnected", "connecting", "connected"}]]
    <3> DEFINE All == [active : BOOLEAN, status : {"no row", "disconnected", "connecting", "connected"}]
    <3>1. RealRows \subseteq All
      BY DEF RealRows, Statuses
    <3>2. NoRow \in All
      BY DEF NoRow
    <3> HIDE DEF All
    <3>3. row \in [Servers -> All]
      BY <3>1, <3>2 DEF IInv, RowsOK
    <3>4. QED
      BY <3>3 DEF All
  <2>2. job \in [Procs -> [op : {None, "activate", "deactivate", "load"},
                           server : Servers \union {None},
                           was : {None, "disconnected", "connecting", "connected"}]]
    <3>1. Statuses \union {None} = {None, "disconnected", "connecting", "connected"}
      BY DEF Statuses
    <3>2. QED
      BY <3>1 DEF IInv, JobsOK
  <2>3. doubled \subseteq crossed /\ crossed \subseteq Servers /\ toLoad \subseteq Servers
        /\ preset \subseteq Configured
    BY DEF IInv, DoubledOK, CrossedOK, LoadOK
  <2>4. QED
    BY <2>1, <2>2, <2>3 DEF IInv, TypeOK, RegistryOK, JobsOK, Points, MutexOK, OpenOK
<1>2. QED
  BY <1>1, Invariance, PTL

(* After every registration and removal (AddServer, RemoveServer) the list *)
(* of tools, the invokers and the servers agree.                           *)
THEOREM RegistryIsWhole == Spec => []RegistryWhole
<1>1. IInv => RegistryWhole
  <2> SUFFICES ASSUME IInv, Unlocked PROVE RegistryWhole
    BY DEF RegistryWhole
  <2>1. ASSUME NEW p \in Procs PROVE pc[p] # "register"
    BY <2>1, Constants DEF IInv, MutexOK, Unlocked
  <2>2. \A s, k : Claims(s, k) <=> k \in conns[s].names
    BY <2>1 DEF Claims
  <2>3. \A s \in Servers : \A k : k \in conns[s].names => Registered(s)
    BY DEF IInv, RegistryOK
  <2>4. \A k \in Keys : listed[k] > 0 <=> invokers[k] # {}
    BY DEF IInv, ContentOK
  <2>5. ASSUME NEW k \in Keys \ (Shared \union UNION {KeysOf(s, Tools) : s \in doubled})
        PROVE  LET owners == {s \in Servers : Registered(s) /\ k \in conns[s].names} IN
               /\ listed[k] > 0 <=> owners # {}
               /\ \A st \in invokers[k] : st[1] \in owners /\ KeyOf[st] = k
    <3>1. k \in Apart /\ k \in Keys
      BY <2>5 DEF Apart
    <3>2. listed[k] > 0 <=> \E s \in Servers : k \in conns[s].names
      BY <2>2, <3>1 DEF IInv, ContentOK
    <3>3. \A st \in invokers[k] : st[1] \in Servers /\ k \in conns[st[1]].names /\ KeyOf[st] = k
      BY <2>2, <3>1 DEF IInv, ContentOK, RegistryOK
    <3>4. QED
      BY <2>3, <3>2, <3>3
  <2>6. QED
    BY <2>4, <2>5 DEF RegistryWhole
<1>2. QED
  BY <1>1, Invariance, PTL

(* Every client AddServer starts is closed again unless its server is, or  *)
(* is about to be, registered.                                             *)
THEOREM ClientsAreOwned == Spec => []ClientsOwned
<1>1. IInv => ClientsOwned
  BY DEF IInv, OpenOK, Owed, Holding, ClientsOwned
<1>2. QED
  BY <1>1, Invariance, PTL

(* A server whose tools are offered has an active row or is one of the     *)
(* settings, but for those two requests were about at a time or whose row  *)
(* was changed meanwhile.                                                  *)
THEOREM OfferedIsActive == Spec => []RegisteredIsActive
<1>1. IInv => RegisteredIsActive
  BY DEF IInv, ActiveOK, RegisteredIsActive
<1>2. QED
  BY <1>1, Invariance, PTL
=============================================================================
