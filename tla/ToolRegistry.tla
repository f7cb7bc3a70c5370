---------------------------- MODULE ToolRegistry ----------------------------
(***************************************************************************)
(* The servers of the tool registry (pkg/services/tools/registry.go) and   *)
(* the handlers that change them and their rows at run time (pkg/web/api/  *)
(* handle_mcps_x.go, handle_mcps_gen.go).  A row of the database says      *)
(* whether a server is active and connected; the registry has the clients, *)
(* the list of tools that models are shown and the invokers behind it.  At *)
(* start newapi adds the servers of the settings, which need no row, and   *)
(* LoadServers adds active ones, one after the other.  AddServer checks    *)
(* the names, talks to the server for as long as that takes, checks again  *)
(* and registers.  Only the last part holds serversMu.                     *)
(* The database and the servers are external and may fail at each call.    *)
(* The tools of the server process itself are left out but for their names.*)
(***************************************************************************)
EXTENDS Naturals, FiniteSets

CONSTANTS
  Servers,     (* names of MCP servers (unique in the database)             *)
  Configured,  (* those the settings name: the OAuth server's, and strata   *)
  Tools,       (* names of tools as the servers give them                   *)
  BuiltIn,     (* those of them that are names of built-in tools            *)
  Keys, KeyOf, (* names tools are listed under, and that of a server's tool *)
  Offers,      (* what a server may answer to ListTools                     *)
  Admins,      (* requests about servers                                    *)
  LoadLimit,   (* spec.Limit of LoadServers                                 *)
  MaxRequests, (* bound: requests in a behaviour                            *)
  MaxClients   (* bound: clients of one server that are open at a time      *)

ASSUME RegistryAssumption ==
  /\ BuiltIn \subseteq Tools /\ Configured \subseteq Servers
  /\ KeyOf \in [Servers \X Tools -> Keys]
  /\ Offers \in [Servers -> SUBSET SUBSET Tools]
  /\ IsFiniteSet(Servers) /\ LoadLimit \in Nat
  /\ MaxRequests \in Nat /\ MaxClients \in Nat

Boot  == "boot"                    (* newapi, before the server listens     *)
Nobody == "nobody"
Procs == Admins \union {Boot}
None  == "none"

ASSUME NamesAssumption ==
  /\ IsFiniteSet(Admins) /\ Boot \notin Admins /\ Nobody \notin Admins
  /\ None \notin Servers

VARIABLES
  row,       (* the database: is_active and status of a server              *)
  (* Registry: *)
  conns,     (* servers: the connection of a name, by its toolNames         *)
  listed,    (* tools: how often a key is in the list                       *)
  invokers,  (* invokers: the server and tool a key calls                   *)
  mu,        (* who holds serversMu                                         *)
  open,      (* clients that were started and not closed, per server        *)
  (* processes: *)
  pc, job,   (* program point; what it does, to which server                *)
  offer,     (* result.Tools, of which todo is yet to be registered         *)
  todo,
  preset,    (* servers of the settings newapi has yet to add               *)
  toLoad,    (* servers LoadServers has yet to add                          *)
  requests,  (* requests so far                                             *)
  (* History variables, read by the properties only:                        *)
  crossed,   (* servers that two requests were about at the same time, or   *)
             (* whose row was changed behind the back of the registry       *)
  doubled    (* servers two requests of which found the name free and       *)
             (* connected, before either was registered                     *)

registry == <<conns, listed, invokers, mu, open>>
procs    == <<pc, job, offer, todo>>
loads    == <<preset, toLoad>>
ghosts   == <<crossed, doubled>>
vars     == <<row, registry, procs, loads, requests, ghosts>>

NoNames == [registered |-> FALSE, names |-> {}]
Idle    == [op |-> None, server |-> None, was |-> None]
NoRow   == [active |-> FALSE, status |-> "no row"]
Rows    == {[active |-> FALSE, status |-> "disconnected"]}
             \union [active : {TRUE}, status : {"connecting", "connected"}]

Registered(s) == conns[s].registered
KeysOf(s, ts) == {KeyOf[<<s, t>>] : t \in ts}

(* LoadServers lists the active rows, the newest first, up to the limit;   *)
(* if that fails it loads none.                                            *)
Loadable(active) ==
  {{}} \union (IF Cardinality(active) <= LoadLimit THEN {active}
               ELSE {some \in SUBSET active : Cardinality(some) = LoadLimit})

Init ==
  /\ row \in [Servers -> Rows \union {NoRow}]
  /\ conns = [s \in Servers |-> NoNames]
  /\ listed = [k \in Keys |-> 0] /\ invokers = [k \in Keys |-> {}]
  /\ mu = Nobody /\ open = [s \in Servers |-> 0]
  /\ pc = [p \in Procs |-> "idle"] /\ job = [p \in Procs |-> Idle]
  /\ offer = [p \in Procs |-> {}] /\ todo = [p \in Procs |-> {}]
  /\ preset = Configured
  /\ toLoad \in Loadable({s \in Servers : row[s].active})
  /\ requests = 0
  /\ crossed = {} /\ doubled = {}

Goto(p, point) == pc' = [pc EXCEPT ![p] = point]
Loading        == preset # {} \/ toLoad # {} \/ pc[Boot] # "idle"

-----------------------------------------------------------------------------
(* The handlers, and LoadServers                                           *)

(* GetServer; a request it fails for changes nothing. *)
Begin(p) ==
  /\ p # Boot /\ ~Loading /\ pc[p] = "idle"
  /\ requests < MaxRequests
  /\ requests' = requests + 1
  /\ \E s \in Servers, op \in {"activate", "deactivate"} :
       /\ row[s] # NoRow
       /\ job' = [job EXCEPT ![p] = [op |-> op, server |-> s, was |-> row[s].status]]
       /\ Goto(p, IF op = "activate" THEN "mark" ELSE "remove")
       /\ crossed' = IF \E q \in Procs : job[q].server = s THEN crossed \union {s} ELSE crossed
  /\ UNCHANGED <<row, registry, offer, todo, loads, doubled>>

(* newapi adds the servers of the settings first, then LoadServers others. *)
LoadNext(p) ==
  /\ p = Boot /\ pc[p] = "idle"
  /\ \E s \in Servers :
       /\ job' = [job EXCEPT ![p] = [op |-> "load", server |-> s, was |-> None]]
       /\ \/ s \in preset /\ preset' = preset \ {s} /\ UNCHANGED toLoad
          \/ preset = {} /\ s \in toLoad /\ toLoad' = toLoad \ {s} /\ UNCHANGED preset
  /\ Goto(p, "check")
  /\ UNCHANGED <<row, registry, offer, todo, requests, ghosts>>

(* The answer to the request; LoadServers goes on whatever the outcome. *)
End(p) ==
  /\ pc[p] \in {"ok", "failed"}
  /\ Goto(p, "idle")
  /\ job' = [job EXCEPT ![p] = Idle]
  /\ UNCHANGED <<row, registry, offer, todo, loads, requests, ghosts>>

(* The requests that change the rows and nothing else: the registry does   *)
(* not hear of it, and a server whose row is gone cannot be deactivated.   *)
Concerned(s) == Registered(s) \/ \E q \in Procs : job[q].server = s
Edit(p, s, new) ==
  /\ p # Boot /\ ~Loading /\ pc[p] = "idle"
  /\ requests < MaxRequests
  /\ requests' = requests + 1
  /\ row' = [row EXCEPT ![s] = new]
  /\ crossed' = IF Concerned(s) THEN crossed \union {s} ELSE crossed
  /\ UNCHANGED <<registry, procs, loads, doubled>>

(* CreateServer, over the row of the same name if there is one.            *)
Create(p) ==
  \E s \in Servers, new \in Rows : new.status # "connecting" /\ Edit(p, s, new)

(* UpdateServer, as far as it changes is_active; names stay.               *)
SetActive(r, active) == [r EXCEPT !.active = active]
Change(p) ==
  \E s \in Servers, active \in BOOLEAN :
    row[s] # NoRow /\ Edit(p, s, SetActive(row[s], active))

DeleteRow(p) == \E s \in Servers : row[s] # NoRow /\ Edit(p, s, NoRow)

(* UpdateServer of the row, if there still is one, and on to the next      *)
(* point.                                                                  *)
Update(p, new, next) ==
  /\ row[job[p].server] # NoRow
  /\ row' = [row EXCEPT ![job[p].server] = new]
  /\ Goto(p, next)

StatusOnly(r) == [r EXCEPT !.status = "connecting"]
Activated(r) == [active |-> TRUE, status |-> "connecting"]
Mark(p) ==
  /\ pc[p] = "mark"
  /\ \/ Update(p, Activated(row[job[p].server]), "check")
     \/ Goto(p, "failed") /\ UNCHANGED row
  /\ UNCHANGED <<registry, job, offer, todo, loads, requests, ghosts>>

(* The status is written only if the row that was loaded had another one. *)
AsLoaded(p) == job[p].was
SetConnected(p) ==
  /\ pc[p] = "added"
  /\ IF job[p].op = "load" \/ AsLoaded(p) = "connected"
     THEN Goto(p, "ok") /\ UNCHANGED row
     ELSE \/ Update(p, [row[job[p].server] EXCEPT !.status = "connected"], "ok")
          \/ Goto(p, "failed") /\ UNCHANGED row
  /\ UNCHANGED <<registry, job, offer, todo, loads, requests, ghosts>>

SetDisconnected(p) ==
  /\ pc[p] = "removed"
  /\ \/ Update(p, [active |-> FALSE, status |-> "disconnected"], "ok")
     \/ Goto(p, "failed") /\ UNCHANGED row
  /\ UNCHANGED <<registry, job, offer, todo, loads, requests, ghosts>>

-----------------------------------------------------------------------------
(* AddServer                                                               *)

(* checkToolNameConflict, which reads the servers under serversMu.         *)
Unlocked == mu = Nobody
Taken(name) ==
  \/ name \in BuiltIn
  \/ name \in Keys /\ listed[name] > 0
  \/ name \in Servers /\ Registered(name)

(* Who found the name free and has not yet registered the server. *)
Adding(s) == {p \in Procs : job[p].server = s /\ pc[p] \in {"connect", "verify", "lock", "register"}}

CheckName(p) ==
  /\ pc[p] = "check" /\ Unlocked
  /\ Goto(p, IF Taken(job[p].server) THEN "failed" ELSE "connect")
  /\ doubled' = IF ~Taken(job[p].server) /\ Adding(job[p].server) # {}
                THEN doubled \union {job[p].server} ELSE doubled
  /\ UNCHANGED <<row, registry, job, offer, todo, loads, requests, crossed>>

(* The transport, Start, Initialize and ListTools; whatever fails leaves   *)
(* no client open.                                                         *)
Connect(p) ==
  /\ pc[p] = "connect"
  /\ \/ /\ open[job[p].server] < MaxClients
        /\ open' = [open EXCEPT ![job[p].server] = @ + 1]
        /\ \E ts \in Offers[job[p].server] : offer' = [offer EXCEPT ![p] = ts]
        /\ Goto(p, "verify")
     \/ /\ Goto(p, "failed")
        /\ UNCHANGED <<open, offer>>
  /\ UNCHANGED <<row, conns, listed, invokers, mu, job, todo, loads, requests, ghosts>>

(* The names are looked up as the server gives them, without its prefix,   *)
(* one by one, each under the mutex; here all at once.                     *)
LeavesOpen(s) == open
ClosedTwice(s) == [open EXCEPT ![s] = @ - 2]
Closed(s) == [open EXCEPT ![s] = @ - 1]
Verify(p) ==
  /\ pc[p] = "verify" /\ (offer[p] # {} => Unlocked)
  /\ IF \E t \in offer[p] : Taken(t)
     THEN /\ open' = Closed(job[p].server)
          /\ offer' = [offer EXCEPT ![p] = {}]
          /\ Goto(p, "failed")
     ELSE /\ Goto(p, "lock")
          /\ UNCHANGED <<open, offer>>
  /\ UNCHANGED <<row, conns, listed, invokers, mu, job, todo, loads, requests, ghosts>>

Lock(p) ==
  /\ pc[p] = "lock" /\ Unlocked
  /\ mu' = p
  /\ todo' = [todo EXCEPT ![p] = offer[p]]
  /\ Goto(p, "register")
  /\ UNCHANGED <<row, conns, listed, invokers, open, job, offer, loads, requests, ghosts>>

LocksAgain(p) == mu = Nobody
Holds(p) == mu = p
RegisterTool(p) ==
  /\ pc[p] = "register" /\ Holds(p)
  /\ \E t \in todo[p] :
       LET key == KeyOf[<<job[p].server, t>>] IN
       /\ listed' = [listed EXCEPT ![key] = @ + 1]
       /\ invokers' = [invokers EXCEPT ![key] = {<<job[p].server, t>>}]
       /\ todo' = [todo EXCEPT ![p] = @ \ {t}]
  /\ UNCHANGED <<row, conns, mu, open, pc, job, offer, loads, requests, ghosts>>

Publish(p) ==
  /\ pc[p] = "register" /\ todo[p] = {}
  /\ conns' = [conns EXCEPT ![job[p].server] =
                 [registered |-> TRUE, names |-> KeysOf(job[p].server, offer[p])]]
  /\ mu' = Nobody
  /\ offer' = [offer EXCEPT ![p] = {}]
  /\ Goto(p, "added")
  /\ UNCHANGED <<row, listed, invokers, open, job, todo, loads, requests, ghosts>>

(* RemoveServer, all of it with the mutex. *)
InvokersOnly(names) ==
  /\ invokers' = [k \in Keys |-> IF k \in names THEN {} ELSE invokers[k]]
  /\ UNCHANGED listed
Dropped(names) ==
  /\ invokers' = [k \in Keys |-> IF k \in names THEN {} ELSE invokers[k]]
  /\ listed' = [k \in Keys |-> IF k \in names THEN 0 ELSE listed[k]]

Remove(p) ==
  /\ pc[p] = "remove" /\ Unlocked
  /\ LET s == job[p].server IN
     IF Registered(s)
     THEN /\ open' = [open EXCEPT ![s] = @ - 1]
          /\ Dropped(conns[s].names)
          /\ conns' = [conns EXCEPT ![s] = NoNames]
          /\ Goto(p, "removed")
     ELSE /\ Goto(p, "failed")
          /\ UNCHANGED <<open, invokers, listed, conns>>
  /\ UNCHANGED <<row, mu, job, offer, todo, loads, requests, ghosts>>

-----------------------------------------------------------------------------
Request(p) == Begin(p) \/ Create(p) \/ Change(p) \/ DeleteRow(p)

OnItsOwn(p) ==
  \/ LoadNext(p) \/ End(p) \/ Mark(p) \/ SetConnected(p) \/ SetDisconnected(p)
  \/ CheckName(p) \/ Verify(p) \/ Lock(p) \/ RegisterTool(p) \/ Publish(p)
  \/ Remove(p)

Step(p) == OnItsOwn(p) \/ Connect(p)

Next == \E p \in Procs : Request(p) \/ Step(p)

(* Goroutines run, a mutex is handed on and the database answers.  Requests*)
(* are up to the client; and Connect has no time-out, neither at start-up  *)
(* nor in a request, so that a server need not ever answer.                *)
Fairness == \A p \in Procs : SF_vars(OnItsOwn(p))

Spec == Init /\ [][Next]_vars /\ Fairness

-----------------------------------------------------------------------------
(* Properties                                                              *)

TypeOK ==
  /\ row \in [Servers -> [active : BOOLEAN, status : {"no row", "disconnected", "connecting", "connected"}]]
  /\ conns \in [Servers -> [registered : BOOLEAN, names : SUBSET Keys]]
  /\ listed \in [Keys -> Nat]
  /\ invokers \in [Keys -> SUBSET (Servers \X Tools)]
  /\ mu \in Procs \union {Nobody}
  /\ open \in [Servers -> Nat]
  /\ pc \in [Procs -> {"idle", "mark", "check", "connect", "verify", "lock", "register",
                       "added", "remove", "removed", "ok", "failed"}]
  /\ job \in [Procs -> [op : {None, "activate", "deactivate", "load"},
                        server : Servers \union {None},
                        was : {None, "disconnected", "connecting", "connected"}]]
  /\ offer \in [Procs -> SUBSET Tools] /\ todo \in [Procs -> SUBSET Tools]
  /\ preset \subseteq Configured /\ toLoad \subseteq Servers
  /\ requests \in 0..MaxRequests
  /\ crossed \subseteq Servers /\ doubled \subseteq crossed

(* getToolKey joins the names of server and tool with a hyphen, so that    *)
(* two servers may have a key in common (a-b with c, a with b-c).          *)
Shared == {k \in Keys : \E s, r \in Servers :
                           s # r /\ k \in KeysOf(s, Tools) \cap KeysOf(r, Tools)}

(* Whenever nobody is in the middle of a registration, the list of tools,  *)
(* the invokers and the servers tell the same story: what a model is shown *)
(* can be called, what can be called is shown, and nothing is left of a    *)
(* server that was removed, nor missing of one that is registered, however *)
(* activations and removals overlap; but for the servers' share in this,   *)
(* of a server that two requests registered over each other and of keys    *)
(* that servers have in common.                                            *)
RegistryWhole ==
  Unlocked =>
    /\ \A k \in Keys : listed[k] > 0 <=> invokers[k] # {}
    /\ \A k \in Keys \ (Shared \union UNION {KeysOf(s, Tools) : s \in doubled}) :
         LET owners == {s \in Servers : Registered(s) /\ k \in conns[s].names} IN
         /\ listed[k] > 0 <=> owners # {}
         /\ \A st \in invokers[k] : st[1] \in owners /\ KeyOf[st] = k

(* A client that was started is closed again unless its server is, or is   *)
(* about to be, registered; also when its tools are refused, and when the  *)
(* server is removed while another request starts it anew.                 *)
ClientsOwned ==
  \A s \in Servers \ doubled :
    open[s] = Cardinality({p \in Adding(s) : pc[p] # "connect"})
              + (IF Registered(s) THEN 1 ELSE 0)

(* A server whose tools are offered to models has an active row, so that   *)
(* the next start loads it again, or is one of the settings; whatever      *)
(* failed, but for servers that were activated and deactivated at the same *)
(* time, or whose row somebody changed or deleted while they were          *)
(* registered.                                                             *)
RegisteredIsActive ==
  \A s \in Servers \ (crossed \union Configured) : Registered(s) => row[s].active

(* No request and no start-up waits for ever, with the mutex or for it: it *)
(* ends, or is in the hands of a server that does not answer; and those    *)
(* keep nobody else.                                                       *)
RequestsEnd ==
  \A p \in Procs : pc[p] # "idle" ~> pc[p] \in {"idle", "connect"}
=============================================================================
