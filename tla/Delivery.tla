------------------------------ MODULE Delivery ------------------------------
(***************************************************************************)
(* How messages of the platforms reach the handler: over the callback of *)
(* WeCom, over WeCom's connection and over both of Feishu's channels       *)
(* (pkg/services/channels: wecom, feishu, dedup.go).  A platform that has  *)
(* no answer in time sends a message again, with the same id; each of its  *)
(* attempts is served by a goroutine of its own.  All channels but the     *)
(* callback of WeCom mark the ids they have seen in Redis.  The status 200 *)
(* is written early, but reaches the platform when the handler of the      *)
(* request returns.  The callback of WeCom gets its access token under a   *)
(* mutex that is held for the time of an HTTP request.                     *)
(* Redis and the platforms are external and may fail at each call, and the *)
(* process may be killed or restarted at any time.                         *)
(***************************************************************************)
EXTENDS Naturals, FiniteSets

CONSTANTS
  Messages,     (* their ids                                               *)
  Transports,   (* which of the channels: "callback" and "connection" are  *)
                (* those of WeCom                                          *)
  MaxSends,     (* bound: attempts of the platform at each message         *)
  MaxFaults,    (* bound: failures of Redis, downloads and requests        *)
  MaxExpiries,  (* bound: marks and tokens that expire                     *)
  MaxRestarts   (* bound: restarts                                         *)

ASSUME DeliveryAssumption ==
  /\ Transports \subseteq {"callback", "connection", "feishu"}
  /\ MaxSends \in [Messages -> Nat \ {0}] /\ MaxFaults \in Nat
  /\ MaxExpiries \in Nat /\ MaxRestarts \in Nat

Attempts == UNION {{m} \X (1..MaxSends[m]) : m \in Messages}
Nobody   == <<>>
MessageOf(d) == d[1]

VARIABLES
  transport,  (* the channel of this behaviour                             *)
  kind,       (* messages: "text", "media", or "other", which is ignored   *)
  sends,      (* attempts of the platform at a message, so far             *)
  acked,      (* messages the platform has an answer for                   *)
  at,         (* where an attempt is                                       *)
  after,      (* what it needs the access token for                        *)
  marked,     (* Redis: ids that were seen in the last 60 seconds          *)
  named,      (* userNameCache: whether the name of the sender is in it    *)
  token, mu,  (* tokenCache: whether it has one; who holds its mutex       *)
  handled,    (* how often the handler was called with a message           *)
  faults, expiries, restarts,  (* what has been used up of the bounds      *)
  (* History variables, read by the properties only:                       *)
  doubtful,   (* messages Redis failed for, or whose mark expired          *)
  excused     (* messages of which an attempt failed or was cut off        *)

request == <<at, after>>
bounds  == <<faults, expiries, restarts>>
ghosts  == <<doubtful, excused>>
vars    == <<transport, kind, sends, acked, request, marked, named, token, mu, handled,
             bounds, ghosts>>

Callback   == transport = "callback"
Connection == transport = "connection"
UnderWay   == {d \in Attempts : at[d] \notin {"none", "end"}}
Goto(d, p) ==
  at' = [at EXCEPT ![d] = p] /\ UNCHANGED after
NeedsToken(d, p) == at' = [at EXCEPT ![d] = "lock"] /\ after' = [after EXCEPT ![d] = p]
Fault      == faults < MaxFaults /\ faults' = faults + 1 /\ UNCHANGED <<expiries, restarts>>
Works      == UNCHANGED bounds
Excuse(d)  == excused' = excused \union {MessageOf(d)} /\ UNCHANGED doubtful

(* The request ends, and its answer is in time or is not.                  *)
Answers(d) == acked' \in {acked, acked \union {MessageOf(d)}}

Init ==
  /\ transport \in Transports
  /\ kind \in [Messages -> {"text", "media", "other"}]
  /\ sends = [m \in Messages |-> 0] /\ acked = {}
  /\ at = [d \in Attempts |-> "none"] /\ after = [d \in Attempts |-> "none"]
  /\ marked = {} /\ named = FALSE /\ token = FALSE /\ mu = Nobody
  /\ handled = [m \in Messages |-> 0]
  /\ faults = 0 /\ expiries = 0 /\ restarts = 0
  /\ doubtful = {} /\ excused = {}

-----------------------------------------------------------------------------
(* The platform                                                            *)

Send(m) ==
  /\ m \notin acked /\ sends[m] < MaxSends[m]
  /\ sends' = [sends EXCEPT ![m] = @ + 1]
  /\ Goto(<<m, sends[m] + 1>>, IF Callback THEN "check" ELSE "mark")
  /\ UNCHANGED <<transport, kind, acked, marked, named, token, mu, handled, bounds, ghosts>>

(* The request does not arrive, or is broken and refused.                  *)
Lose(d) ==
  /\ at[d] \in {"mark", "check"} /\ (Callback \/ at[d] = "mark")
  /\ Fault /\ Goto(d, "end") /\ Excuse(d)
  /\ UNCHANGED <<transport, kind, sends, acked, marked, named, token, mu, handled>>

Expire ==
  /\ expiries < MaxExpiries /\ expiries' = expiries + 1
  /\ \/ /\ \E m \in marked : marked' = marked \ {m} /\ doubtful' = doubtful \union {m}
        /\ UNCHANGED token
     \/ token /\ token' = FALSE /\ UNCHANGED <<marked, doubtful>>
  /\ UNCHANGED <<transport, kind, sends, acked, request, named, mu, handled, faults, restarts,
                 excused>>

(* StopChannels, or a crash, and InitChannels: Redis keeps the marks.      *)
Restart ==
  /\ restarts < MaxRestarts /\ restarts' = restarts + 1
  /\ at' = [d \in Attempts |-> IF d \in UnderWay THEN "end" ELSE at[d]]
  /\ excused' = excused \union {MessageOf(d) : d \in UnderWay}
  /\ named' = FALSE /\ token' = FALSE /\ mu' = Nobody
  /\ after' = [d \in Attempts |-> "none"]
  /\ UNCHANGED <<transport, kind, sends, acked, marked, handled, faults, expiries,
                 doubtful>>

-----------------------------------------------------------------------------
(* The request                                                             *)

(* IsDuplicate: SET NX of the id; when Redis fails the message is new.     *)
NeverNew(d)    == Goto(d, "end") /\ Answers(d)
TakenForNew(d) == Goto(d, "check") /\ UNCHANGED acked
SeenNever(d)   == FALSE
Seen(d)        == MessageOf(d) \in marked
Mark(d) ==
  /\ at[d] = "mark"
  /\ \/ /\ Works /\ UNCHANGED ghosts
        /\ marked' = marked \union {MessageOf(d)}
        /\ IF Seen(d) THEN Goto(d, "end") /\ Answers(d) ELSE Goto(d, "check") /\ UNCHANGED acked
     \/ /\ Fault /\ TakenForNew(d)
        /\ doubtful' = doubtful \union {MessageOf(d)}
        /\ UNCHANGED <<marked, excused>>
  /\ UNCHANGED <<transport, kind, sends, named, token, mu, handled>>

(* The list of senders, the type of the message and what it is made of.    *)
Ignored(m) == kind[m] = "other" \/ (Connection /\ kind[m] = "media")
Text(d)    == kind[MessageOf(d)] = "text"

(* The callback of WeCom leaves a medium to a goroutine, and answers.      *)
FromCallback(d) ==
  IF Text(d) THEN Goto(d, "name") /\ UNCHANGED acked ELSE NeedsToken(d, "fetch") /\ Answers(d)

(* WeCom's connection brings text only, also of what was said, and the id  *)
(* of a sender is the name.                                                *)
FromConnection(d) == Goto(d, "handle") /\ UNCHANGED acked

(* Both channels of Feishu load a medium before they answer.               *)
FromFeishu(d) == Goto(d, IF Text(d) THEN "name" ELSE "fetch") /\ UNCHANGED acked

Check(d) ==
  /\ at[d] = "check"
  /\ CASE Ignored(MessageOf(d)) -> Goto(d, "end") /\ Answers(d)
       [] ~Ignored(MessageOf(d)) /\ Callback -> FromCallback(d)
       [] ~Ignored(MessageOf(d)) /\ Connection -> FromConnection(d)
       [] OTHER -> FromFeishu(d)
  /\ UNCHANGED <<transport, kind, sends, marked, named, token, mu, handled, bounds, ghosts>>

(* downloadMedia, downloadImage, downloadResource.                         *)
Fetch(d) ==
  /\ at[d] = "fetch"
  /\ \/ Works /\ Goto(d, "name") /\ UNCHANGED <<acked, ghosts>>
     \/ /\ Fault /\ Goto(d, "end") /\ Excuse(d)
        /\ IF Callback THEN UNCHANGED acked ELSE Answers(d)
  /\ UNCHANGED <<transport, kind, sends, marked, named, token, mu, handled>>

(* resolveUserName: without a name the id will do.                         *)
Name(d) ==
  /\ at[d] = "name"
  /\ IF named THEN Goto(d, "handle")
     ELSE IF Callback THEN NeedsToken(d, "lookup") ELSE Goto(d, "lookup")
  /\ UNCHANGED <<transport, kind, sends, acked, marked, named, token, mu, handled, bounds, ghosts>>

Lookup(d) ==
  /\ at[d] = "lookup" /\ Goto(d, "handle")
  /\ named' \in {named, TRUE}
  /\ UNCHANGED <<transport, kind, sends, acked, marked, token, mu, handled, bounds, ghosts>>

(* The handler is called in a goroutine, the request returns.              *)
Handle(d) ==
  /\ at[d] = "handle" /\ Goto(d, "reply")
  /\ handled' = [handled EXCEPT ![MessageOf(d)] = @ + 1]
  /\ IF Callback /\ kind[MessageOf(d)] = "media" THEN UNCHANGED acked ELSE Answers(d)
  /\ UNCHANGED <<transport, kind, sends, marked, named, token, mu, bounds, ghosts>>

(* Reply, with what the handler has to say; sending it may fail.           *)
Reply(d) ==
  /\ at[d] = "reply"
  /\ IF Callback THEN NeedsToken(d, "send") ELSE Goto(d, "end")
  /\ UNCHANGED <<transport, kind, sends, acked, marked, named, token, mu, handled, bounds, ghosts>>

SendReply(d) ==
  /\ at[d] = "send" /\ Goto(d, "end")
  /\ UNCHANGED <<transport, kind, sends, acked, marked, named, token, mu, handled, bounds, ghosts>>

-----------------------------------------------------------------------------
(* getAccessToken                                                          *)

Lock(d) ==
  /\ at[d] = "lock" /\ mu = Nobody
  /\ mu' = d /\ Goto(d, "gettoken")
  /\ UNCHANGED <<transport, kind, sends, acked, marked, named, token, handled, bounds, ghosts>>

(* Without a token a medium is given up, a name not needed, a reply lost.  *)
Without(d) == IF after[d] = "lookup" THEN "handle" ELSE "end"
KeepsLock(d)   == mu' = IF token THEN Nobody ELSE mu
Unlocks(d)     == mu' = Nobody
GetToken(d) ==
  /\ at[d] = "gettoken"
  /\ Unlocks(d)
  /\ after' = [after EXCEPT ![d] = "none"]
  /\ \/ Works /\ token' = TRUE /\ at' = [at EXCEPT ![d] = after[d]] /\ UNCHANGED ghosts
     \/ /\ ~token /\ Fault /\ at' = [at EXCEPT ![d] = Without(d)] /\ UNCHANGED token
        /\ IF after[d] = "fetch" THEN Excuse(d) ELSE UNCHANGED ghosts
  /\ UNCHANGED <<transport, kind, sends, acked, marked, named, handled>>

Step(d) ==
  \/ Mark(d) \/ Check(d) \/ Fetch(d) \/ Name(d) \/ Lookup(d) \/ Handle(d) \/ Reply(d)
  \/ SendReply(d) \/ Lock(d) \/ GetToken(d)

Next ==
  \/ Expire \/ Restart
  \/ \E m \in Messages : Send(m)
  \/ \E d \in Attempts : Lose(d) \/ Step(d)

(* Goroutines run, and the requests they make come to an end: the client   *)
(* of the callback gives up after 30 seconds, and Feishu is taken to       *)
(* answer or to close.  A mutex of Go is not kept for ever from one who    *)
(* waits for it.                                                           *)
Spec ==
  /\ Init /\ [][Next]_vars
  /\ \A d \in Attempts : WF_vars(Step(d)) /\ SF_vars(Lock(d))

-----------------------------------------------------------------------------
(* Properties                                                              *)

(* Where messages are marked the handler gets each once, however often it  *)
(* is sent and however slowly the first attempt is served, and also after  *)
(* a restart; but for messages Redis failed for or whose mark expired.     *)
HandledOnce ==
  ~Callback => \A m \in Messages \ doubtful : handled[m] <= 1

(* No message is lost: one that was sent is handled, or is being served by *)
(* some attempt; none is dropped as a duplicate of an attempt that was     *)
(* dropped itself.  Excused are messages of which an attempt did not       *)
(* arrive, failed at its download, or was cut off by a restart: their mark *)
(* may keep what the platform sends again from being handled.              *)
NotLost ==
  \A m \in Messages \ excused :
    ~Ignored(m) /\ sends[m] > 0 =>
      handled[m] > 0 \/ \E d \in UnderWay : MessageOf(d) = m

(* Every attempt comes to an end: nobody waits for ever for the mutex of   *)
(* the access token.                                                       *)
AttemptsEnd == \A d \in Attempts : d \in UnderWay ~> d \notin UnderWay
=============================================================================
