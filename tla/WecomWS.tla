------------------------------ MODULE WecomWS ------------------------------
(***************************************************************************)
(* The WebSocket channel of WeCom (pkg/services/channels/wecom/            *)
(* websocket.go).  connectLoop dials, subscribes and reads until the       *)
(* connection fails, tidies up and dials again.  Beside it run a heartbeat *)
(* per connection, the goroutines that Send and wait for acknowledgements, *)
(* those that Reply, and Stop.  They share the current connection (guarded *)
(* by a mutex that a writer holds while the network takes its frame), the  *)
(* counter of missed pongs and the table of pending acknowledgements.      *)
(* Message callbacks are handed to goroutines and change nothing here.     *)
(* Time is abstract: a timer may fire whenever it is armed, the back-off   *)
(* has no length, and a frame waits in the network for as long as it likes.*)
(***************************************************************************)
EXTENDS Naturals

CONSTANTS
  Conns,     (* connections that exist at one time (bound): the current one *)
             (* and those whose heartbeat has not ended yet                 *)
  Senders,   (* goroutines in Send                                          *)
  Chunks,    (* pieces splitByBytes makes of a text (bound)                 *)
  Stoppable, (* whether Stop may be called                                  *)
  Repliers,  (* goroutines that write one frame of a streaming reply        *)
  NoConn,    (* nil                                                         *)
  Nobody     (* the owner of a free mutex                                   *)

MaxMissed == 2    (* wsMaxMissed *)

ASSUME WSAssumption ==
  /\ Chunks \in Nat \ {0}
  /\ NoConn \notin Conns
  /\ Nobody \notin Conns \union Senders \union Repliers
  /\ Conns \intersect (Senders \union Repliers) = {} /\ Senders \intersect Repliers = {}

Reqs == Senders \X (1..Chunks)

VARIABLES
  (* connectLoop and runConnection: *)
  loop, mine,   (* its program point and its local conn                     *)
  due, stale,   (* keys Range has yet to visit, and staleKeys               *)
  (* shared: *)
  conn, mu,     (* p.conn, and who is in a blocked write holding p.mu       *)
  missed,       (* p.missedPong                                             *)
  pending, box, (* p.pendingAcks: its keys, and the channel of every key    *)
  (* a heartbeat goroutine per connection: *)
  beat,
  (* Send and replies: *)
  send, chunk, result, reply,
  (* Stop: *)
  stop, held,
  (* the network: *)
  sock,         (* state of every connection                                *)
  wire,         (* frames written that the platform may still answer        *)
  (* history variable, read by the properties only: *)
  verdict       (* what the platform answered to a request                  *)

looping == <<loop, mine, due, stale>>
table   == <<pending, box>>
sending == <<send, chunk, result>>
halt    == <<stop, held>>
net     == <<sock, wire>>
vars    == <<looping, conn, mu, missed, table, beat, sending, reply, halt, net, verdict>>

Init ==
  /\ loop = "dial" /\ mine = NoConn /\ due = {} /\ stale = {}
  /\ conn = NoConn /\ mu = Nobody /\ missed = 0
  /\ pending = {} /\ box = [r \in Reqs |-> "empty"]
  /\ beat = [c \in Conns |-> "off"]
  /\ send = [s \in Senders |-> "next"] /\ chunk = [s \in Senders |-> 1]
  /\ result = [r \in Reqs |-> "none"]
  /\ reply = [w \in Repliers |-> "write"]
  /\ stop = "no" /\ held = NoConn
  /\ sock = [c \in Conns |-> "closed"] /\ wire = [c \in Conns |-> {}]
  /\ verdict = [r \in Reqs |-> "none"]

Stopped == stop # "no"

(* Nothing can be written to nil or to a connection that has failed. *)
Dead(c) == c # NoConn => sock[c] \in {"broken", "closed"}

-----------------------------------------------------------------------------
(* writeJSON: under the mutex, on whatever connection is current.  On a    *)
(* silent connection the network may take the frame, or hold the writer    *)
(* and with it the mutex until the connection is broken or closed.         *)

Ping == [id |-> <<"ping", 0>>, of |-> <<"ping", 0>>]

Written(frame) ==
  /\ mu = Nobody /\ ~Dead(conn)
  /\ wire' = IF sock[conn] = "up" THEN [wire EXCEPT ![conn] = @ \union frame] ELSE wire
  /\ UNCHANGED mu

WriteBlocks(w) ==
  /\ mu = Nobody /\ conn # NoConn /\ sock[conn] = "silent"
  /\ mu' = w
  /\ UNCHANGED wire

FailsUnlessBlocked(w) ==
  /\ mu = Nobody /\ Dead(conn)
  /\ UNCHANGED <<mu, wire>>
WriteFails(w) ==
  /\ mu \in {w, Nobody} /\ Dead(conn)
  /\ mu' = Nobody
  /\ UNCHANGED wire

-----------------------------------------------------------------------------
(* connectLoop                                                             *)

others == <<sending, reply, halt, verdict>>

Dial ==
  /\ loop = "dial"
  /\ \/ /\ Stopped
        /\ loop' = "ended"
        /\ UNCHANGED <<mine, net>>
     \/ /\ ~Stopped
        /\ \E c \in Conns :
             /\ sock[c] = "closed" /\ beat[c] = "off"
             /\ mine' = c
             /\ sock' = [sock EXCEPT ![c] = "up"]
        /\ loop' = "publish"
        /\ UNCHANGED wire
     \/ /\ ~Stopped
        /\ loop' = "backoff"
        /\ UNCHANGED <<mine, net>>
  /\ UNCHANGED <<due, stale, conn, mu, missed, table, beat, others>>

Publish ==
  /\ loop = "publish" /\ mu = Nobody
  /\ conn' = mine
  /\ loop' = "subscribe"
  /\ UNCHANGED <<mine, due, stale, mu, missed, table, beat, others, net>>

Subscribe ==
  /\ loop = "subscribe"
  /\ \/ Written({}) /\ loop' = "answer"
     \/ WriteFails("loop") /\ loop' = "unpublish"
     \/ WriteBlocks("loop") /\ UNCHANGED loop
  /\ UNCHANGED <<mine, due, stale, conn, missed, table, beat, others, sock>>

(* The answer to the subscription; then the heartbeat starts. *)
Accepted ==
  /\ loop = "answer" /\ sock[mine] = "up"
  /\ missed' = 0
  /\ beat' = [beat EXCEPT ![mine] = "wait"]
  /\ loop' = "check"
  /\ UNCHANGED <<mine, due, stale, conn, mu, table, others, net>>

Rejected ==
  /\ loop = "answer" /\ sock[mine] # "silent"
  /\ loop' = "unpublish"
  /\ UNCHANGED <<mine, due, stale, conn, mu, missed, table, beat, others, net>>

KeepsReading == "read"
AfterCheck == IF Stopped THEN "unpublish" ELSE "read"
Check ==
  /\ loop = "check"
  /\ loop' = AfterCheck
  /\ UNCHANGED <<mine, due, stale, conn, mu, missed, table, beat, others, net>>

ReadFails ==
  /\ loop = "read" /\ Dead(mine)
  /\ loop' = "unpublish"
  /\ UNCHANGED <<mine, due, stale, conn, mu, missed, table, beat, others, net>>

(* handleFrame.  A frame whose cmd is "ping" or empty is taken for a pong. *)
Pong ==
  /\ missed' = 0
  /\ UNCHANGED <<table, verdict>>

Acknowledge(id, answer) ==
  /\ pending' = pending \ {id}
  /\ box' = IF id \in pending THEN [box EXCEPT ![id] = answer] ELSE box
  /\ UNCHANGED missed

Answers == {"ok", "refused"}

ReadFrame ==
  /\ loop = "read" /\ sock[mine] # "closed"
  /\ loop' = "check"
  /\ \E f \in wire[mine] :
       /\ wire' = [wire EXCEPT ![mine] = @ \ {f}]
       /\ \/ Pong
          \/ /\ f # Ping
             /\ \E a \in Answers :
                  Acknowledge(f.id, a) /\ verdict' = [verdict EXCEPT ![f.of] = a]
  /\ UNCHANGED <<mine, due, stale, conn, mu, beat, sending, reply, halt, sock>>

(* The deferred function: no connection any more, every pending request is *)
(* told, and then the keys seen are deleted.                               *)
Unpublish ==
  /\ loop = "unpublish" /\ mu = Nobody
  /\ conn' = NoConn
  /\ sock' = [sock EXCEPT ![mine] = "closed"] /\ wire' = [wire EXCEPT ![mine] = {}]
  /\ loop' = "drain" /\ due' = pending /\ stale' = {}
  /\ UNCHANGED <<mine, mu, missed, table, beat, others>>

Drain ==
  /\ loop = "drain"
  /\ \E r \in pending \ stale :
       /\ box' = [box EXCEPT ![r] = IF @ = "empty" THEN "closed" ELSE @]
       /\ stale' = stale \union {r}
  /\ UNCHANGED <<loop, mine, due, conn, mu, missed, pending, beat, others, net>>

(* Range ends; a key stored while it ran may not have been visited. *)
DeletedNone == {}
Deleted == stale
Forget ==
  /\ loop = "drain"
  /\ due \intersect pending \subseteq stale
  /\ pending' = pending \ Deleted
  /\ loop' = IF Stopped THEN "ended" ELSE "backoff"
  /\ mine' = NoConn /\ due' = {} /\ stale' = {}
  /\ UNCHANGED <<conn, mu, missed, box, beat, others, net>>

Backoff ==
  /\ loop = "backoff"
  /\ loop' = IF Stopped THEN "ended" ELSE "dial"
  /\ UNCHANGED <<mine, due, stale, conn, mu, missed, table, beat, others, net>>

Loop ==
  \/ Dial \/ Publish \/ Subscribe \/ Accepted \/ Rejected \/ Check \/ ReadFails
  \/ Unpublish \/ Drain \/ Forget \/ Backoff

-----------------------------------------------------------------------------
(* heartbeat(ctx, c).  heartCancel is the first of the deferred calls: the *)
(* context of c lasts while the frames of c are read.                      *)

Cancelled(c) == Stopped \/ ~(mine = c /\ loop \in {"check", "read"})

Quit(c) ==
  /\ beat[c] = "wait" /\ Cancelled(c)
  /\ beat' = [beat EXCEPT ![c] = "off"]
  /\ UNCHANGED <<mu, missed, net>>

(* The ticker.  Once it has fired the goroutine no longer looks at ctx.    *)
TickLeaks(c) ==
  /\ beat[c] = "wait" /\ ~Cancelled(c)
  /\ beat' = [beat EXCEPT ![c] = IF missed >= MaxMissed THEN "off" ELSE "count"]
  /\ UNCHANGED <<mu, missed, net>>
Tick(c) ==
  /\ beat[c] = "wait" /\ ~Cancelled(c)
  /\ IF missed >= MaxMissed
     THEN /\ sock' = [sock EXCEPT ![c] = "closed"]
          /\ beat' = [beat EXCEPT ![c] = "off"]
     ELSE /\ beat' = [beat EXCEPT ![c] = "count"]
          /\ UNCHANGED sock
  /\ UNCHANGED <<mu, missed, wire>>

Count(c) ==
  /\ beat[c] = "count"
  /\ missed' = missed + 1
  /\ beat' = [beat EXCEPT ![c] = "ping"]
  /\ UNCHANGED <<mu, net>>

SendPing(c) ==
  /\ beat[c] = "ping"
  /\ \/ Written({Ping}) /\ beat' = [beat EXCEPT ![c] = "wait"]
     \/ WriteFails(c) /\ beat' = [beat EXCEPT ![c] = "off"]
     \/ WriteBlocks(c) /\ UNCHANGED beat
  /\ UNCHANGED <<missed, sock>>

Heartbeat(c) ==
  /\ Quit(c) \/ Tick(c) \/ Count(c) \/ SendPing(c)
  /\ UNCHANGED <<looping, conn, table, sending, reply, halt, verdict>>

-----------------------------------------------------------------------------
(* Send and writeAndWaitAck: every chunk gets a request id of its own.     *)

ReqIDShared(s) == CHOOSE r \in Reqs : TRUE
ReqID(s) == <<s, chunk[s]>>
Frame(s) == [id |-> ReqID(s), of |-> <<s, chunk[s]>>]

Register(s) ==
  /\ send[s] = "next"
  /\ pending' = pending \union {ReqID(s)}
  /\ box' = [box EXCEPT ![ReqID(s)] = "empty"]
  /\ send' = [send EXCEPT ![s] = "write"]
  /\ UNCHANGED <<chunk, result, mu, wire>>

MoreOrLast(s) == chunk[s] <= Chunks
More(s) == chunk[s] < Chunks

(* The outcome of a chunk: an error ends the sending, a timeout does not. *)
Outcome(s, r) ==
  /\ result' = [result EXCEPT ![<<s, chunk[s]>>] = r]
  /\ IF r \in {"ok", "late"} /\ More(s)
     THEN /\ chunk' = [chunk EXCEPT ![s] = @ + 1]
          /\ send' = [send EXCEPT ![s] = "next"]
     ELSE /\ send' = [send EXCEPT ![s] = "done"]
          /\ UNCHANGED chunk

WriteRequest(s) ==
  /\ send[s] = "write"
  /\ \/ /\ Written({Frame(s)})
        /\ send' = [send EXCEPT ![s] = "await"]
        /\ UNCHANGED <<chunk, result, pending>>
     \/ /\ WriteFails(s)
        /\ pending' = pending \ {ReqID(s)}
        /\ Outcome(s, "failed")
     \/ /\ WriteBlocks(s)
        /\ UNCHANGED <<sending, pending>>
  /\ UNCHANGED box

Collect(s) ==
  /\ send[s] = "await" /\ box[ReqID(s)] # "empty"
  /\ Outcome(s, box[ReqID(s)])
  /\ box' = [box EXCEPT ![ReqID(s)] = "empty"]
  /\ UNCHANGED <<pending, mu, wire>>

(* wsAckTimeout, which is no error, or the end of the caller's context. *)
StaysPending(s) == pending
Unregistered(s) == pending \ {ReqID(s)}
GiveUp(s) ==
  /\ send[s] = "await"
  /\ pending' = Unregistered(s)
  /\ \E r \in {"late", "cancelled"} : Outcome(s, r)
  /\ UNCHANGED <<box, mu, wire>>

Sender(s) ==
  /\ Register(s) \/ WriteRequest(s) \/ Collect(s) \/ GiveUp(s)
  /\ UNCHANGED <<looping, conn, missed, beat, reply, halt, sock, verdict>>

(* StartStream, AppendStream, FinishStream: a write nobody waits for. *)
Replier(w) ==
  /\ reply[w] = "write"
  /\ \/ Written({}) /\ reply' = [reply EXCEPT ![w] = "sent"]
     \/ WriteFails(w) /\ reply' = [reply EXCEPT ![w] = "failed"]
     \/ WriteBlocks(w) /\ UNCHANGED reply
  /\ UNCHANGED <<looping, conn, missed, table, beat, sending, halt, sock, verdict>>

-----------------------------------------------------------------------------
(* Stop: cancel the context, read p.conn under the mutex, close it.        *)

Cancel ==
  /\ Stoppable /\ stop = "no"
  /\ stop' = "cancelled"
  /\ UNCHANGED <<held, sock>>

Grab ==
  /\ stop = "cancelled" /\ mu = Nobody
  /\ held' = conn
  /\ stop' = IF conn = NoConn THEN "done" ELSE "close"
  /\ UNCHANGED sock

CloseHeld ==
  /\ stop = "close"
  /\ sock' = [sock EXCEPT ![held] = "closed"]
  /\ stop' = "done" /\ held' = NoConn

Stop ==
  /\ Cancel \/ Grab \/ CloseHeld
  /\ UNCHANGED <<looping, conn, mu, missed, table, beat, sending, reply, wire, verdict>>

-----------------------------------------------------------------------------
(* The network: the peer of a connection may fall silent, and a connection *)
(* may break.  The kernel gives up on data it cannot deliver.              *)

Degrade(c, from, to) ==
  /\ sock[c] \in from
  /\ sock' = [sock EXCEPT ![c] = to]
  /\ UNCHANGED <<looping, conn, mu, missed, table, beat, sending, reply, halt, wire, verdict>>

GoesSilent(c) == Degrade(c, {"up"}, "silent")
Breaks(c)     == Degrade(c, {"up", "silent"}, "broken")

Undelivered(c) == \/ c = conn /\ mu # Nobody
                  \/ c = mine /\ loop = "answer"
KernelGivesUp(c) == Undelivered(c) /\ Degrade(c, {"silent"}, "broken")

Next ==
  \/ Loop \/ ReadFrame \/ Stop
  \/ \E c \in Conns : Heartbeat(c) \/ GoesSilent(c) \/ Breaks(c)
  \/ \E s \in Senders : Sender(s)
  \/ \E w \in Repliers : Replier(w)

(* Goroutines run, timers fire and nobody starves at the mutex.  Nothing   *)
(* is assumed of the platform but that it answers a subscription, with an  *)
(* error if it likes; of the kernel, that it gives up on undelivered data. *)
Fairness ==
  /\ SF_vars(Loop) /\ SF_vars(Stop /\ Stopped)
  /\ \A c \in Conns : SF_vars(Heartbeat(c)) /\ WF_vars(KernelGivesUp(c))
  /\ \A s \in Senders : SF_vars(Sender(s))
  /\ \A w \in Repliers : SF_vars(Replier(w))

Spec == Init /\ [][Next]_vars /\ Fairness

-----------------------------------------------------------------------------
(* Properties                                                              *)

TypeOK ==
  /\ loop \in {"dial", "publish", "subscribe", "answer", "check", "read",
               "unpublish", "drain", "backoff", "ended"}
  /\ mine \in Conns \union {NoConn} /\ conn \in Conns \union {NoConn}
  /\ due \subseteq Reqs /\ stale \subseteq Reqs
  /\ mu \in Conns \union Senders \union Repliers \union {Nobody, "loop"}
  /\ missed \in Nat
  /\ pending \subseteq Reqs
  /\ box \in [Reqs -> Answers \union {"empty", "closed"}]
  /\ beat \in [Conns -> {"off", "wait", "count", "ping"}]
  /\ send \in [Senders -> {"next", "write", "await", "done"}]
  /\ chunk \in [Senders -> 1..Chunks]
  /\ result \in [Reqs -> Answers \union {"none", "closed", "failed", "late", "cancelled"}]
  /\ reply \in [Repliers -> {"write", "sent", "failed"}]
  /\ stop \in {"no", "cancelled", "close", "done"} /\ held \in Conns \union {NoConn}
  /\ sock \in [Conns -> {"up", "silent", "broken", "closed"}]
  /\ wire \in [Conns -> SUBSET ({Ping} \union [id : Reqs, of : Reqs])]
  /\ verdict \in [Reqs -> Answers \union {"none"}]

(* handleFrame sends into an acknowledgement channel of capacity one: the  *)
(* reader of the connection would hang on a key whose channel is full.     *)
ReaderFree ==
  loop \in {"check", "read"} => \A r \in pending : box[r] = "empty"

(* Keys do not pile up: one that is in the table belongs to a request that *)
(* is on its way, or is about to be deleted.                               *)
NoAckLeft ==
  \A r \in pending :
    \/ send[r[1]] \in {"write", "await"} /\ chunk[r[1]] = r[2]
    \/ loop = "drain" /\ r \in stale

(* Send takes a chunk for acknowledged or refused only if the platform     *)
(* said so of this very chunk, whatever was late, lost or reconnected.     *)
AnswerIsOwn ==
  \A r \in Reqs : result[r] \in Answers => result[r] = verdict[r]

(* A connection that has died, or has only fallen silent, is given up and  *)
(* dialled anew, also when a writer hangs on it with the mutex in hand.    *)
LostRedials ==
  (loop = "read" /\ sock[mine] # "up") ~> loop \in {"dial", "ended"}

(* Stop ends connectLoop, also when it finds no connection to close.       *)
StopEnds == Stopped ~> loop = "ended"

(* Everybody who sends or replies gets an outcome.                         *)
CallersReleased ==
  <>(/\ \A s \in Senders : send[s] = "done"
     /\ \A w \in Repliers : reply[w] # "write")
=============================================================================
