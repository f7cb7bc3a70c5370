------------------------------ MODULE Accounts ------------------------------
(***************************************************************************)
(* Who is logged in (pkg/web/api/handle_user.go, pkg/services/stores/      *)
(* auth.go and convo_x.go).  Redis has the user of a token and the token   *)
(* of a user, the database a copy of the user and, by the id the user has  *)
(* at WeCom, a third-party user that belongs to it.  A login, a request    *)
(* for the session, a logout and the removal of a user are HTTP requests;  *)
(* a message of a channel looks up its user and that user's token.  They   *)
(* run at the same time, and each command or statement is a step.          *)
(* The OAuth provider is external: it confirms a token or does not.  What  *)
(* is kept, and what is promised of it, is in Logins.                      *)
(***************************************************************************)
EXTENDS Logins

ghosts == <<renewed, unknown>>
vars   == <<honoured, cached, tokenOf, users, third, req, faults, expiries, ghosts>>

Fresh == [at |-> "idle", kind |-> "none", token |-> Absent, cookie |-> Absent, user |-> Absent]
At(p, point)   == req[p].at = point
Goto(p, point) == req' = [req EXCEPT ![p].at = point]
Done(p)        == req' = [req EXCEPT ![p] = [Fresh EXCEPT !.at = "done"]]
Written        == {"find", "update", "create", "bind", "cache"}
Writing(t)     == {p \in Requests : req[p].token = t /\ req[p].at \in Written}
Fault          == faults < MaxFaults /\ faults' = faults + 1
Works          == UNCHANGED faults

Init ==
  /\ honoured = Tokens
  /\ cached = [t \in Tokens |-> Absent] /\ tokenOf = [a \in Accounts |-> Absent]
  /\ users = {} /\ third = {}
  /\ req = [p \in Requests |-> Fresh]
  /\ faults = 0 /\ expiries = 0
  /\ renewed = {} /\ unknown = {}

(* The provider revokes a token, or the token expires there.               *)
Revoke(t) ==
  /\ honoured' = honoured \ {t} /\ t \in honoured
  /\ UNCHANGED <<cached, tokenOf, users, third, req, faults, expiries, ghosts>>

(* Redis drops a key after 24 hours.                                       *)
Expire ==
  /\ expiries < MaxExpiries /\ expiries' = expiries + 1
  /\ \/ /\ \E t \in Tokens : cached' = [cached EXCEPT ![t] = Absent]
        /\ UNCHANGED <<tokenOf, unknown>>
     \/ /\ \E a \in Accounts : /\ tokenOf' = [tokenOf EXCEPT ![a] = Absent]
                               /\ unknown' = unknown \union {a}
        /\ UNCHANGED cached
  /\ UNCHANGED <<honoured, users, third, req, faults, renewed>>

(* A request comes in: with the token of its header, and a session maybe   *)
(* with another one in its cookie.                                         *)
Begin(p) ==
  /\ At(p, "idle")
  /\ \E t \in Tokens, kind \in {"login", "session", "logout"}, cookie \in Tokens \union {Absent} :
       /\ kind # "session" => cookie = Absent
       /\ req' = [req EXCEPT ![p] =
                    [Fresh EXCEPT !.at = kind, !.kind = kind, !.token = t, !.cookie = cookie]]
  /\ UNCHANGED <<honoured, cached, tokenOf, users, third, faults, expiries, ghosts>>

(* handleSession: LoadUserFromToken; what fails reads as not logged in.    *)
LoadedUser(p) == cached[req[p].token]
Session(p) ==
  /\ At(p, "session")
  /\ IF LoadedUser(p) = Absent
     THEN Goto(p, "login") /\ Works
     ELSE (Works /\ Done(p)) \/ (Fault /\ Goto(p, "login"))
  /\ UNCHANGED <<honoured, cached, tokenOf, users, third, expiries, ghosts>>

(* The callback of a login has just got its token.  A session that is not  *)
(* cached asks for the token of its cookie first, trySyncOAuthUser, and    *)
(* then for its own, which is the one its user is cached under: it ends    *)
(* when both are refused.                                                  *)
Confirmed(p) == {req[p].token, req[p].cookie} \cap honoured
Asked(p)     == IF req[p].cookie \in Confirmed(p) THEN req[p].cookie ELSE req[p].token
Confirm(p) ==
  /\ At(p, "login")
  /\ IF Confirmed(p) = {} THEN Done(p) /\ UNCHANGED renewed
     ELSE /\ req' = [req EXCEPT ![p].at = "find", ![p].cookie = Asked(p),
                               ![p].user = OwnerOf[Asked(p)]]
          /\ renewed' = IF honoured \cap {req[p].token, req[p].cookie} = {} THEN renewed
                        ELSE renewed \union {req[p].token}
  /\ UNCHANGED <<honoured, cached, tokenOf, users, third, faults, expiries, unknown>>

(* SaveUser: is there a row of this username?  When that cannot be told,   *)
(* the user is not saved; storeUserWith goes on.                           *)
SkipRow(p) == Goto(p, "bind") /\ unknown' = unknown \union {req[p].user}
Find(p) ==
  /\ At(p, "find")
  /\ \/ /\ Works /\ UNCHANGED unknown
        /\ Goto(p, IF req[p].user \in users THEN "update" ELSE "create")
     \/ Fault /\ SkipRow(p)
  /\ UNCHANGED <<honoured, cached, tokenOf, users, third, expiries, renewed>>

(* UpdateUser of the row that was found, if it still is there, or          *)
(* CreateUser, over a row of the same username if there is one by now; and *)
(* in the same transaction the third-party user.                           *)
OwnedThird(a) == third \union ({a} \cap AtWecom)
Save(p) ==
  /\ At(p, "update") \/ At(p, "create")
  /\ LET a == req[p].user IN
     \/ /\ Works /\ (At(p, "update") => a \in users)
        /\ users' = users \union {a} /\ third' = OwnedThird(a)
        /\ Goto(p, "bind")
        /\ unknown' = IF tokenOf[a] = Absent THEN unknown ELSE unknown \ {a}
     \/ /\ IF At(p, "update") /\ a \notin users THEN Works ELSE Fault
        /\ SkipRow(p) /\ UNCHANGED <<users, third>>
  /\ UNCHANGED <<honoured, cached, tokenOf, expiries, renewed>>

(* SaveTokenWithUser, of the token that was confirmed.                     *)
BindsNothing(p) == tokenOf
Bound(p)        == [tokenOf EXCEPT ![req[p].user] = req[p].cookie]
Bind(p) ==
  /\ At(p, "bind") /\ Goto(p, "cache")
  /\ \/ /\ Works /\ tokenOf' = Bound(p)
        /\ unknown' = IF req[p].user \in users THEN unknown \ {req[p].user} ELSE unknown
     \/ /\ Fault /\ UNCHANGED tokenOf
        /\ unknown' = unknown \union {req[p].user}
  /\ UNCHANGED <<honoured, cached, users, third, expiries, renewed>>

(* SaveUserWithToken, of the token in the header.                          *)
Cache(p) ==
  /\ At(p, "cache") /\ Done(p)
  /\ \/ Works /\ cached' = [cached EXCEPT ![req[p].token] = req[p].user]
     \/ Fault /\ UNCHANGED cached
  /\ UNCHANGED <<honoured, tokenOf, users, third, expiries, ghosts>>

(* handleLogout: DeleteUserToken; the token of the user is kept.           *)
LeavesUser(t) == cached
Forgotten(t)  == [cached EXCEPT ![t] = Absent]
Logout(p) ==
  /\ At(p, "logout") /\ Done(p)
  /\ LET t == req[p].token IN
     \/ /\ Works /\ cached' = Forgotten(t)
        /\ renewed' = IF Writing(t) # {} THEN renewed ELSE renewed \ {t}
     \/ Fault /\ UNCHANGED <<cached, renewed>>
  /\ UNCHANGED <<honoured, tokenOf, users, third, expiries, unknown>>

(* DeleteUser: the row goes, its third-party user and tokens stay.         *)
Remove(p) ==
  /\ At(p, "idle")
  /\ \E a \in users : users' = users \ {a} /\ unknown' = unknown \union {a}
  /\ Done(p)
  /\ UNCHANGED <<honoured, cached, tokenOf, third, faults, expiries, renewed>>

(* MessageHandler: GetUserWith, by the username or the WeCom id, and then  *)
(* LoadTokenWithUser.  A message goes on without, when either is missing.  *)
Message(p) ==
  /\ At(p, "idle")
  /\ \E a \in users :
       req' = [req EXCEPT ![p] = [Fresh EXCEPT !.at = "token", !.kind = "message", !.user = a]]
  /\ UNCHANGED <<honoured, cached, tokenOf, users, third, faults, expiries, ghosts>>

Load(p) ==
  /\ At(p, "token")
  /\ req' = [req EXCEPT ![p].at = "done", ![p].token = tokenOf[req[p].user]]
  /\ UNCHANGED <<honoured, cached, tokenOf, users, third, faults, expiries, ghosts>>

Step(p) ==
  \/ Begin(p) \/ Session(p) \/ Confirm(p) \/ Find(p) \/ Save(p) \/ Bind(p) \/ Cache(p)
  \/ Logout(p) \/ Remove(p) \/ Message(p) \/ Load(p)

Next == Expire \/ (\E t \in Tokens : Revoke(t)) \/ \E p \in Requests : Step(p)

Spec == Init /\ [][Next]_vars

=============================================================================
