------------------------------- MODULE Logins -------------------------------
(***************************************************************************)
(* What pkg/services/stores keeps of who is logged in, in Redis (auth.go)  *)
(* and in the database (convo_x.go), and what is promised of it.  Accounts *)
(* has the requests that change it.                                        *)
(***************************************************************************)
EXTENDS Naturals

CONSTANTS
  Requests,    (* requests and messages, each made once                    *)
  Accounts,    (* accounts of the provider; the id of a user's row         *)
  Tokens, OwnerOf,   (* tokens the provider has issued, and to whom        *)
  AtWecom,     (* accounts that have a WeCom id                            *)
  Absent,      (* no account, no token                                     *)
  MaxFaults,   (* bound: commands and statements that fail                 *)
  MaxExpiries  (* bound: keys removed by their TTL                         *)

ASSUME AccountsAssumption ==
  /\ OwnerOf \in [Tokens -> Accounts] /\ AtWecom \subseteq Accounts
  /\ Absent \notin Accounts \union Tokens
  /\ MaxFaults \in Nat /\ MaxExpiries \in Nat

VARIABLES
  honoured,  (* tokens the provider confirms                               *)
  cached,    (* Redis, tk-o-user-: the user of a token                     *)
  tokenOf,   (* Redis, user-o-token-: the token of a user                  *)
  users,     (* convo_user: the accounts that have a row                   *)
  third,     (* convo_third_user: WeCom ids, by the account they belong to *)
  req,       (* per request: what it is, where it is, about whom           *)
  faults, expiries,  (* what has been used up of the bounds                *)
  (* History variables, read by the properties only:                       *)
  renewed,   (* tokens a user of which was confirmed since their last      *)
             (* logout, or that a request about them was under way at      *)
  unknown    (* accounts whose row, or token, was removed or not written   *)

-----------------------------------------------------------------------------
(* Properties                                                              *)

(* Who logged out stays so: a token has a user only if the provider        *)
(* confirmed one for it after the last logout with it, however sessions,   *)
(* logins and logouts with it overlap, but for a session that was          *)
(* confirmed before the logout and is still being written.                 *)
LogoutHolds == \A t \in Tokens : cached[t] # Absent => t \in renewed

(* Who is logged in is found from a channel, too: has a row, that of WeCom *)
(* with the third-party user it belongs to, and a token of their own that  *)
(* the messages of a channel can use; unless one of them was removed since *)
(* or could not be written.                                                *)
KnownFromChannels ==
  /\ \A t \in Tokens : cached[t] # Absent =>
       \/ cached[t] \in unknown
       \/ /\ cached[t] \in users /\ (cached[t] \in AtWecom => cached[t] \in third)
          /\ tokenOf[cached[t]] # Absent
  /\ \A p \in Requests : req[p].kind = "message" /\ req[p].token # Absent
       => OwnerOf[req[p].token] = req[p].user
=============================================================================
