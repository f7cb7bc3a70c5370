--------------------------- MODULE WecomWSProofs ---------------------------
(* Theorems about acknowledgements on the WebSocket channel of WeCom, for  *)
(* every number of connections, senders, repliers and chunks.              *)
EXTENDS WecomWS, TLAPS

-----------------------------------------------------------------------------
(* Types                                                                   *)

LEMMA ReqIDTyped ==
  ASSUME TypeOK, NEW s \in Senders
  PROVE  ReqID(s) \in Reqs /\ Frame(s) = [id |-> ReqID(s), of |-> ReqID(s)]
BY WSAssumption DEF TypeOK, ReqID, Reqs, Frame

(* A write changes the mutex and the wire of the current connection only.  *)
LEMMA WriteTyped ==
  ASSUME TypeOK, NEW w \in Conns \union Senders \union Repliers \union {"loop"},
         NEW fs \in SUBSET ({Ping} \union [id : Reqs, of : Reqs]),
         Written(fs) \/ WriteFails(w) \/ WriteBlocks(w)
  PROVE  /\ mu' \in Conns \union Senders \union Repliers \union {Nobody, "loop"}
         /\ wire' \in [Conns -> SUBSET ({Ping} \union [id : Reqs, of : Reqs])]
BY WSAssumption DEF TypeOK, Written, WriteFails, WriteBlocks, Dead

LEMMA OutcomeTyped ==
  ASSUME TypeOK, NEW s \in Senders,
         NEW r \in Answers \union {"closed", "failed", "late", "cancelled"},
         Outcome(s, r)
  PROVE  /\ result' \in [Reqs -> Answers \union {"none", "closed", "failed", "late", "cancelled"}]
         /\ chunk' \in [Senders -> 1..Chunks]
         /\ send' \in [Senders -> {"next", "write", "await", "done"}]
<1>1. <<s, chunk[s]>> \in Reqs /\ chunk[s] \in 1..Chunks
  BY DEF TypeOK, Reqs
<1>2. result' \in [Reqs -> Answers \union {"none", "closed", "failed", "late", "cancelled"}]
  BY <1>1 DEF TypeOK, Outcome
<1>3. /\ chunk' \in [Senders -> 1..Chunks]
      /\ send' \in [Senders -> {"next", "write", "await", "done"}]
  BY WSAssumption, <1>1 DEF TypeOK, Outcome, More
<1>4. QED
  BY <1>2, <1>3

LEMMA LoopTyped ==
  ASSUME TypeOK, Loop \/ ReadFrame
  PROVE  TypeOK'
<1> USE WSAssumption
<1>1. CASE Dial
  BY <1>1 DEF TypeOK, Dial, others, table, sending, halt, net
<1>2. CASE Publish
  BY <1>2 DEF TypeOK, Publish, others, table, sending, halt, net
<1>3. CASE Subscribe
  <2>1. /\ mu' \in Conns \union Senders \union Repliers \union {Nobody, "loop"}
        /\ wire' \in [Conns -> SUBSET ({Ping} \union [id : Reqs, of : Reqs])]
    BY <1>3, WriteTyped DEF Subscribe
  <2>2. QED
    BY <1>3, <2>1 DEF TypeOK, Subscribe, others, table, sending, halt
<1>4. CASE Accepted \/ Rejected \/ Check \/ ReadFails \/ Backoff
  BY <1>4 DEF TypeOK, Accepted, Rejected, Check, AfterCheck, ReadFails, Backoff,
              others, table, sending, halt, net
<1>5. CASE Unpublish
  BY <1>5 DEF TypeOK, Unpublish, others, table, sending, halt, net
<1>6. CASE Drain
  BY <1>6 DEF TypeOK, Drain, others, table, sending, halt, net
<1>7. CASE Forget
  BY <1>7 DEF TypeOK, Forget, Deleted, others, table, sending, halt, net
<1>8. CASE ReadFrame
  <2>1. PICK f \in wire[mine] :
          /\ wire' = [wire EXCEPT ![mine] = @ \ {f}]
          /\ \/ Pong
             \/ /\ f # Ping
                /\ \E a \in Answers :
                     Acknowledge(f.id, a) /\ verdict' = [verdict EXCEPT ![f.of] = a]
    BY <1>8 DEF ReadFrame
  <2>2. CASE Pong
    BY <1>8, <2>1, <2>2 DEF TypeOK, ReadFrame, Pong, table, sending, halt
  <2>3. CASE /\ f # Ping
             /\ \E a \in Answers :
                  Acknowledge(f.id, a) /\ verdict' = [verdict EXCEPT ![f.of] = a]
    <3>1. PICK a \in Answers :
            Acknowledge(f.id, a) /\ verdict' = [verdict EXCEPT ![f.of] = a]
      BY <2>3
    <3>2. pending' \subseteq Reqs /\ box' \in [Reqs -> Answers \union {"empty", "closed"}]
          /\ missed' = missed /\ verdict' \in [Reqs -> Answers \union {"none"}]
      BY <3>1 DEF TypeOK, Acknowledge
    <3>3. QED
      BY <1>8, <2>1, <3>2 DEF TypeOK, ReadFrame, sending, halt
  <2>4. QED
    BY <2>1, <2>2, <2>3
<1>9. QED
  BY <1>1, <1>2, <1>3, <1>4, <1>5, <1>6, <1>7, <1>8 DEF Loop

LEMMA BesideTyped ==
  ASSUME TypeOK,
         \/ Stop
         \/ \E c \in Conns : Heartbeat(c) \/ GoesSilent(c) \/ Breaks(c)
         \/ \E s \in Senders : Sender(s)
         \/ \E w \in Repliers : Replier(w)
  PROVE  TypeOK'
<1> USE WSAssumption
<1>1. CASE Stop
  BY <1>1 DEF TypeOK, Stop, Cancel, Grab, CloseHeld, looping, table, sending
<1>2. ASSUME NEW c \in Conns, GoesSilent(c) \/ Breaks(c) PROVE TypeOK'
  BY <1>2 DEF TypeOK, GoesSilent, Breaks, Degrade, looping, table, sending, halt
<1>3. ASSUME NEW c \in Conns, Heartbeat(c) PROVE TypeOK'
  <2>1. CASE Quit(c) \/ Tick(c) \/ Count(c)
    BY <1>3, <2>1 DEF TypeOK, Heartbeat, Quit, Tick, Count, looping, table, sending, halt, net
  <2>2. CASE SendPing(c)
    <3>1. /\ mu' \in Conns \union Senders \union Repliers \union {Nobody, "loop"}
          /\ wire' \in [Conns -> SUBSET ({Ping} \union [id : Reqs, of : Reqs])]
      BY <2>2, WriteTyped DEF SendPing
    <3>2. QED
      BY <1>3, <2>2, <3>1 DEF TypeOK, Heartbeat, SendPing, looping, table, sending, halt
  <2>3. QED
    BY <1>3, <2>1, <2>2 DEF Heartbeat
<1>4. ASSUME NEW s \in Senders, Sender(s) PROVE TypeOK'
  <2>0. ReqID(s) \in Reqs /\ Frame(s) \in [id : Reqs, of : Reqs]
    BY ReqIDTyped
  <2>1. CASE Register(s)
    BY <1>4, <2>0, <2>1 DEF TypeOK, Sender, Register, looping, halt
  <2>2. CASE WriteRequest(s)
    <3>1. /\ mu' \in Conns \union Senders \union Repliers \union {Nobody, "loop"}
          /\ wire' \in [Conns -> SUBSET ({Ping} \union [id : Reqs, of : Reqs])]
      BY <2>0, <2>2, WriteTyped DEF WriteRequest
    <3>2. /\ result' \in [Reqs -> Answers \union {"none", "closed", "failed", "late", "cancelled"}]
          /\ chunk' \in [Senders -> 1..Chunks]
          /\ send' \in [Senders -> {"next", "write", "await", "done"}]
          /\ pending' \subseteq Reqs /\ UNCHANGED box
      BY <2>2, OutcomeTyped DEF TypeOK, WriteRequest, sending
    <3>3. QED
      BY <1>4, <3>1, <3>2 DEF TypeOK, Sender, looping, halt
  <2>3. CASE Collect(s)
    <3>1. box[ReqID(s)] \in Answers \union {"closed"}
      BY <2>0, <2>3 DEF TypeOK, Collect
    <3>2. /\ result' \in [Reqs -> Answers \union {"none", "closed", "failed", "late", "cancelled"}]
          /\ chunk' \in [Senders -> 1..Chunks]
          /\ send' \in [Senders -> {"next", "write", "await", "done"}]
      BY <2>3, <3>1, OutcomeTyped DEF Collect
    <3>3. QED
      BY <1>4, <2>0, <2>3, <3>2 DEF TypeOK, Sender, Collect, looping, halt
  <2>4. CASE GiveUp(s)
    <3>1. /\ result' \in [Reqs -> Answers \union {"none", "closed", "failed", "late", "cancelled"}]
          /\ chunk' \in [Senders -> 1..Chunks]
          /\ send' \in [Senders -> {"next", "write", "await", "done"}]
      BY <2>4, OutcomeTyped DEF GiveUp
    <3>2. QED
      BY <1>4, <2>4, <3>1 DEF TypeOK, Sender, GiveUp, Unregistered, looping, halt
  <2>5. QED
    BY <1>4, <2>1, <2>2, <2>3, <2>4 DEF Sender
<1>5. ASSUME NEW w \in Repliers, Replier(w) PROVE TypeOK'
  <2>1. /\ mu' \in Conns \union Senders \union Repliers \union {Nobody, "loop"}
        /\ wire' \in [Conns -> SUBSET ({Ping} \union [id : Reqs, of : Reqs])]
    BY <1>5, WriteTyped DEF Replier
  <2>2. QED
    BY <1>5, <2>1 DEF TypeOK, Replier, looping, table, sending, halt
<1>6. QED
  BY <1>1, <1>2, <1>3, <1>4, <1>5

(* What the connection, the table, the callers and the network hold.       *)
THEOREM ChannelTyped == Spec => []TypeOK
<1>1. Init => TypeOK
  BY WSAssumption DEF Init, TypeOK, Reqs
<1>2. TypeOK /\ [Next]_vars => TypeOK'
  <2> SUFFICES ASSUME TypeOK, [Next]_vars PROVE TypeOK'
    OBVIOUS
  <2>1. CASE Next
    BY <2>1, LoopTyped, BesideTyped DEF Next
  <2>2. CASE UNCHANGED vars
    BY <2>2 DEF TypeOK, vars, looping, table, sending, halt, net
  <2>3. QED
    BY <2>1, <2>2
<1>3. QED
  BY <1>1, <1>2, PTL DEF Spec

-----------------------------------------------------------------------------
(* The table of pending acknowledgements                                   *)

(* A channel in the table is empty, but for what the clean-up has just put *)
(* there before it deletes the key.                                        *)
Told == \A r \in pending : box[r] # "empty" => loop = "drain" /\ r \in stale

Table == Told /\ NoAckLeft

LEMMA OwnRequest ==
  ASSUME TypeOK, NEW s \in Senders, NEW r \in Reqs, r[1] = s, chunk[s] = r[2]
  PROVE  r = ReqID(s)
BY DEF Reqs, ReqID

LEMMA TableByLoop ==
  ASSUME TypeOK, Table, Loop \/ ReadFrame
  PROVE  Table'
<1>1. CASE Dial \/ Publish \/ Subscribe \/ Accepted \/ Rejected \/ Check \/ ReadFails \/ Backoff
  BY <1>1 DEF Table, Told, NoAckLeft, Dial, Publish, Subscribe, Accepted, Rejected, Check,
              ReadFails, Backoff, others, table, sending
<1>2. CASE ReadFrame
  <2>1. /\ pending' \subseteq pending /\ loop = "read"
        /\ \A r \in pending' : box'[r] = box[r]
        /\ UNCHANGED <<stale, sending>>
    BY <1>2 DEF TypeOK, ReadFrame, Pong, Acknowledge, table
  <2>2. QED
    BY <2>1 DEF Table, Told, NoAckLeft, sending
<1>3. CASE Unpublish
  BY <1>3 DEF Table, Told, NoAckLeft, Unpublish, others, table, sending
<1>4. CASE Drain
  BY <1>4 DEF TypeOK, Table, Told, NoAckLeft, Drain, others, sending
<1>5. CASE Forget
  BY <1>5 DEF TypeOK, Table, Told, NoAckLeft, Forget, Deleted, others, sending
<1>6. QED
  BY <1>1, <1>2, <1>3, <1>4, <1>5 DEF Loop

LEMMA TableBySender ==
  ASSUME TypeOK, Table, NEW s \in Senders, Sender(s)
  PROVE  Table'
<1> DEFINE mineOnly == \A t \in Senders : t # s => send'[t] = send[t] /\ chunk'[t] = chunk[t]
           own == ReqID(s)
<1>1. /\ own \in Reqs /\ own[1] = s /\ own[2] = chunk[s]
      /\ UNCHANGED <<loop, stale>>
  BY ReqIDTyped DEF Sender, looping, ReqID
<1>2. \A r \in pending : r # own /\ r[1] = s => loop = "drain" /\ r \in stale
  BY OwnRequest DEF TypeOK, Table, NoAckLeft
<1>3. \A r \in Reqs : r[1] \in Senders
  BY DEF Reqs
<1>4. CASE Register(s)
  <2>1. mineOnly /\ send'[s] = "write" /\ chunk'[s] = chunk[s]
    BY <1>4 DEF TypeOK, Register
  <2>2. pending' = pending \union {own} /\ box' = [box EXCEPT ![own] = "empty"]
    BY <1>4 DEF Register
  <2>3. QED
    BY <1>1, <1>2, <1>3, <2>1, <2>2 DEF TypeOK, Table, Told, NoAckLeft
<1>5. CASE WriteRequest(s)
  <2>1. CASE send' = [send EXCEPT ![s] = "await"] /\ UNCHANGED <<chunk, result, pending>>
    <3>1. mineOnly /\ send'[s] = "await" /\ chunk'[s] = chunk[s]
      BY <2>1 DEF TypeOK
    <3>2. QED
      BY <1>1, <1>2, <1>3, <1>5, <2>1, <3>1 DEF TypeOK, Table, Told, NoAckLeft, WriteRequest
  <2>2. CASE pending' = pending \ {own} /\ Outcome(s, "failed")
    <3>1. mineOnly
      BY <2>2 DEF TypeOK, Outcome
    <3>2. QED
      BY <1>1, <1>2, <1>3, <1>5, <2>2, <3>1 DEF TypeOK, Table, Told, NoAckLeft, WriteRequest
  <2>3. CASE UNCHANGED <<sending, pending>>
    BY <1>1, <1>5, <2>3 DEF Table, Told, NoAckLeft, WriteRequest, sending
  <2>4. QED
    BY <1>5, <2>1, <2>2, <2>3 DEF WriteRequest
<1>6. CASE Collect(s)
  <2>1. mineOnly
    BY <1>6 DEF TypeOK, Collect, Outcome
  <2>2. own \in pending => loop = "drain" /\ own \in stale
    BY <1>6 DEF Table, Told, Collect
  <2>3. box' = [box EXCEPT ![own] = "empty"] /\ UNCHANGED pending
    BY <1>6 DEF Collect
  <2>4. QED
    BY <1>1, <1>2, <1>3, <2>1, <2>2, <2>3 DEF TypeOK, Table, Told, NoAckLeft
<1>7. CASE GiveUp(s)
  <2>1. mineOnly
    BY <1>7 DEF TypeOK, GiveUp, Outcome
  <2>2. pending' = pending \ {own} /\ UNCHANGED box
    BY <1>7 DEF GiveUp, Unregistered
  <2>3. QED
    BY <1>1, <1>2, <1>3, <2>1, <2>2 DEF TypeOK, Table, Told, NoAckLeft
<1>8. QED
  BY <1>4, <1>5, <1>6, <1>7 DEF Sender

LEMMA TableKept == TypeOK /\ Table /\ [Next]_vars => Table'
<1> SUFFICES ASSUME TypeOK, Table, [Next]_vars PROVE Table'
  OBVIOUS
<1>1. CASE UNCHANGED <<loop, stale, table, sending>>
  BY <1>1 DEF Table, Told, NoAckLeft, table, sending
<1>2. CASE Loop \/ ReadFrame
  BY <1>2, TableByLoop
<1>3. CASE \E s \in Senders : Sender(s)
  BY <1>3, TableBySender
<1>4. CASE Stop \/ \E c \in Conns : Heartbeat(c) \/ GoesSilent(c) \/ Breaks(c)
  BY <1>1, <1>4 DEF Stop, Heartbeat, GoesSilent, Breaks, Degrade, looping
<1>5. CASE \E w \in Repliers : Replier(w)
  BY <1>1, <1>5 DEF Replier, looping
<1>6. QED
  BY <1>1, <1>2, <1>3, <1>4, <1>5 DEF Next, vars, looping

LEMMA TableInvariant == Spec => []Table
<1>1. Init => Table
  BY DEF Init, Table, Told, NoAckLeft
<1>2. QED
  BY <1>1, TableKept, ChannelTyped, PTL DEF Spec

(* The reader of a connection never finds a full channel behind a key.     *)
THEOREM ReaderNeverHangs == Spec => []ReaderFree
<1>1. Table => ReaderFree
  BY DEF Table, Told, ReaderFree
<1>2. QED
  BY <1>1, TableInvariant, PTL

(* No key stays in the table without a request that is on its way.         *)
THEOREM AcksDoNotPileUp == Spec => []NoAckLeft
<1>1. Table => NoAckLeft
  BY DEF Table
<1>2. QED
  BY <1>1, TableInvariant, PTL

-----------------------------------------------------------------------------
(* Frames and answers                                                      *)

Sent(r) == [id |-> r, of |-> r]

(* The loop reads from a connection it has dialled.                        *)
Dialled ==
  loop \in {"publish", "subscribe", "answer", "check", "read", "unpublish"} => mine \in Conns

(* A frame carries the id of the request it was written for.               *)
IdsOwn == \A c \in Conns : \A f \in wire[c] : f = Ping \/ f.id = f.of

(* A request travels once, and until it is answered.                       *)
Once ==
  \A r \in Reqs, c \in Conns : Sent(r) \in wire[c] =>
    verdict[r] = "none" /\ \A d \in Conns : Sent(r) \in wire[d] => d = c

(* A chunk whose turn has not come was not written and not answered.       *)
Pending(r) == \/ chunk[r[1]] < r[2]
              \/ chunk[r[1]] = r[2] /\ send[r[1]] \in {"next", "write"}
Unsent ==
  \A r \in Reqs : Pending(r) =>
    verdict[r] = "none" /\ \A c \in Conns : Sent(r) \notin wire[c]

(* What a channel of the table holds is the platform's word on that key.   *)
BoxOwn == \A r \in Reqs : box[r] \in Answers => box[r] = verdict[r]

Frames == Dialled /\ IdsOwn /\ Once /\ Unsent /\ BoxOwn /\ AnswerIsOwn

LEMMA PingIsNoRequest == ASSUME NEW r \in Reqs PROVE Sent(r) # Ping
<1>1. r[2] \in 1..Chunks
  BY DEF Reqs
<1>2. r # <<"ping", 0>>
  <2>1. <<"ping", 0>>[2] = 0
    OBVIOUS
  <2>2. QED
    BY <1>1, <2>1, WSAssumption
<1>3. QED
  BY <1>2 DEF Sent, Ping

(* Steps that write no request and bring no answer.                        *)
LEMMA FramesByFewer ==
  ASSUME TypeOK, Frames, Dialled',
         \A c \in Conns : wire'[c] \subseteq wire[c] \union {Ping},
         \A r \in Reqs : box'[r] \in Answers => box'[r] = box[r],
         UNCHANGED <<sending, verdict>>
  PROVE  Frames'
<1>1. \A r \in Reqs, c \in Conns : Sent(r) \in wire'[c] => Sent(r) \in wire[c]
  BY PingIsNoRequest
<1>2. IdsOwn' /\ BoxOwn' /\ AnswerIsOwn'
  BY DEF Frames, IdsOwn, BoxOwn, AnswerIsOwn, sending
<1>3. Once'
  BY <1>1 DEF Frames, Once
<1>4. Unsent'
  BY <1>1 DEF Frames, Unsent, Pending, sending
<1>5. QED
  BY <1>2, <1>3, <1>4 DEF Frames

LEMMA WritesNothing ==
  ASSUME TypeOK, NEW w, Written({}) \/ WriteFails(w) \/ WriteBlocks(w)
  PROVE  wire' = wire
BY DEF TypeOK, Written, WriteFails, WriteBlocks, Dead

LEMMA WritesPing ==
  ASSUME TypeOK, NEW w, Written({Ping}) \/ WriteFails(w) \/ WriteBlocks(w)
  PROVE  \A c \in Conns : wire'[c] \subseteq wire[c] \union {Ping}
BY DEF TypeOK, Written, WriteFails, WriteBlocks, Dead

LEMMA FramesByLoop ==
  ASSUME TypeOK, Frames, Loop
  PROVE  Frames'
<1>1. CASE Dial \/ Publish \/ Accepted \/ Rejected \/ Check \/ ReadFails \/ Backoff
  <2>1. Dialled'
    BY <1>1 DEF Frames, Dialled, Dial, Publish, Accepted, Rejected, Check, AfterCheck,
                ReadFails, Backoff
  <2>2. UNCHANGED <<wire, box, sending, verdict>>
    BY <1>1 DEF Dial, Publish, Accepted, Rejected, Check, ReadFails, Backoff, others, table, net
  <2>3. QED
    BY <2>1, <2>2, FramesByFewer
<1>2. CASE Subscribe
  <2>1. Dialled' /\ UNCHANGED <<box, sending, verdict>>
    BY <1>2 DEF Frames, Dialled, Subscribe, others, table
  <2>2. wire' = wire
    BY <1>2, WritesNothing DEF Subscribe
  <2>3. QED
    BY <2>1, <2>2, FramesByFewer
<1>3. CASE Unpublish
  <2>1. Dialled' /\ UNCHANGED <<box, sending, verdict>>
    BY <1>3 DEF Frames, Dialled, Unpublish, others, table
  <2>2. \A c \in Conns : wire'[c] \subseteq wire[c] \union {Ping}
    BY <1>3 DEF TypeOK, Unpublish
  <2>3. QED
    BY <2>1, <2>2, FramesByFewer
<1>4. CASE Drain
  <2>1. Dialled' /\ UNCHANGED <<wire, sending, verdict>>
    BY <1>4 DEF Frames, Dialled, Drain, others, net
  <2>2. \A r \in Reqs : box'[r] \in Answers => box'[r] = box[r]
    BY <1>4 DEF TypeOK, Drain, Answers
  <2>3. QED
    BY <2>1, <2>2, FramesByFewer
<1>5. CASE Forget
  <2>1. Dialled' /\ UNCHANGED <<box, wire, sending, verdict>>
    BY <1>5 DEF Frames, Dialled, Forget, others, net
  <2>2. QED
    BY <2>1, FramesByFewer
<1>6. QED
  BY <1>1, <1>2, <1>3, <1>4, <1>5 DEF Loop

(* An answer arrives: it settles a request that was on its way, and no     *)
(* other.                                                                  *)
LEMMA FramesByReader ==
  ASSUME TypeOK, Frames, ReadFrame
  PROVE  Frames'
<1>1. mine \in Conns /\ Dialled' /\ UNCHANGED sending
  BY DEF Frames, Dialled, ReadFrame
<1>2. PICK f \in wire[mine] :
        /\ wire' = [wire EXCEPT ![mine] = @ \ {f}]
        /\ \/ Pong
           \/ /\ f # Ping
              /\ \E a \in Answers :
                   Acknowledge(f.id, a) /\ verdict' = [verdict EXCEPT ![f.of] = a]
  BY DEF ReadFrame
<1>3. \A c \in Conns : wire'[c] \subseteq wire[c] /\ (c # mine => wire'[c] = wire[c])
  BY <1>1, <1>2 DEF TypeOK
<1>4. CASE Pong
  BY <1>1, <1>3, <1>4, FramesByFewer DEF Pong, table
<1>5. CASE /\ f # Ping
           /\ \E a \in Answers :
                Acknowledge(f.id, a) /\ verdict' = [verdict EXCEPT ![f.of] = a]
  <2> DEFINE r == f.of
  <2>1. r \in Reqs /\ f = Sent(r)
    BY <1>1, <1>5 DEF TypeOK, Frames, IdsOwn, Sent
  <2>2. PICK a \in Answers :
          Acknowledge(r, a) /\ verdict' = [verdict EXCEPT ![r] = a]
    <3>1. f.id = r
      BY <2>1 DEF Sent
    <3>2. PICK a \in Answers :
            Acknowledge(f.id, a) /\ verdict' = [verdict EXCEPT ![f.of] = a]
      BY <1>5
    <3>3. QED
      BY <3>1, <3>2
  <2>3. verdict[r] = "none" /\ \A c \in Conns : Sent(r) \notin wire'[c]
    BY <1>1, <1>2, <1>3, <2>1 DEF TypeOK, Frames, Once
  <2>4. \A q \in Reqs : q # r => verdict'[q] = verdict[q] /\ box'[q] = box[q]
    BY <2>1, <2>2 DEF TypeOK, Acknowledge
  <2>5. verdict'[r] = a /\ box'[r] \in {box[r], a} /\ ~Pending(r)
    BY <1>1, <2>1, <2>2 DEF TypeOK, Acknowledge, Frames, Unsent
  <2>6. box[r] \notin Answers /\ result[r] \notin Answers
    BY <2>1, <2>3 DEF Frames, BoxOwn, AnswerIsOwn, Answers
  <2>7. \A q \in Reqs, c \in Conns : Sent(q) \in wire'[c] => q # r /\ Sent(q) \in wire[c]
    BY <1>3, <2>3
  <2>8. IdsOwn'
    BY <1>3 DEF Frames, IdsOwn
  <2>9. Once'
    BY <2>4, <2>7 DEF Frames, Once
  <2>10. Unsent'
    <3>1. \A q \in Reqs : Pending(q)' = Pending(q)
      BY <1>1 DEF Pending, sending
    <3>2. QED
      BY <2>4, <2>5, <2>7, <3>1 DEF Frames, Unsent
  <2>11. BoxOwn' /\ AnswerIsOwn'
    BY <1>1, <2>4, <2>5, <2>6 DEF Frames, BoxOwn, AnswerIsOwn, sending
  <2>12. QED
    BY <1>1, <2>8, <2>9, <2>10, <2>11 DEF Frames
<1>6. QED
  BY <1>2, <1>4, <1>5

LEMMA FramesBySender ==
  ASSUME TypeOK, Frames, NEW s \in Senders, Sender(s)
  PROVE  Frames'
<1> DEFINE own == ReqID(s)
<1>1. /\ own \in Reqs /\ own[1] = s /\ own[2] = chunk[s] /\ own = <<s, chunk[s]>>
      /\ Frame(s) = Sent(own) /\ chunk[s] \in 1..Chunks
      /\ Dialled' /\ UNCHANGED verdict
  BY ReqIDTyped DEF TypeOK, Frames, Dialled, Sender, looping, ReqID, Sent
<1>2. \A r \in Reqs : r[1] = s /\ chunk[s] = r[2] => r = own
  BY OwnRequest
<1>3. \A r \in Reqs : r[1] \in Senders /\ r[2] \in 1..Chunks
  BY DEF Reqs
<1>4. CASE Register(s)
  <2>1. \A r \in Reqs : Pending(r)' => Pending(r)
    BY <1>3, <1>4 DEF TypeOK, Register, Pending
  <2>2. /\ UNCHANGED <<wire, result>>
        /\ \A r \in Reqs : box'[r] \in Answers => box'[r] = box[r]
    BY <1>1, <1>4 DEF TypeOK, Register, Answers
  <2>3. QED
    BY <1>1, <2>1, <2>2 DEF Frames, IdsOwn, Once, Unsent, BoxOwn, AnswerIsOwn
<1>5. CASE WriteRequest(s)
  <2>1. CASE Written({Frame(s)}) /\ send' = [send EXCEPT ![s] = "await"]
             /\ UNCHANGED <<chunk, result, pending>>
    <3>1. conn \in Conns
             /\ wire' \in {wire, [wire EXCEPT ![conn] = @ \union {Sent(own)}]}
      BY <1>1, <2>1 DEF TypeOK, Written, Dead
    <3>2. verdict[own] = "none" /\ \A c \in Conns : Sent(own) \notin wire[c]
      BY <1>1, <1>5 DEF Frames, Unsent, Pending, WriteRequest
    <3>3. \A r \in Reqs : Pending(r)' => Pending(r) /\ r # own
      BY <1>1, <1>3, <2>1 DEF TypeOK, Pending
    <3>4. \A c \in Conns : wire'[c] \subseteq wire[c] \union {Sent(own)}
                         /\ (c # conn => wire'[c] = wire[c])
      BY <3>1 DEF TypeOK
    <3>5. \A r \in Reqs, c \in Conns :
            r # own => (Sent(r) \in wire'[c] => Sent(r) \in wire[c])
      BY <3>4 DEF Sent
    <3>6. IdsOwn'
      BY <3>4 DEF Frames, IdsOwn, Sent
    <3>7. Once'
      BY <1>1, <3>2, <3>4, <3>5 DEF Frames, Once
    <3>8. Unsent'
      BY <1>1, <3>3, <3>5 DEF Frames, Unsent
    <3>9. BoxOwn' /\ AnswerIsOwn'
      BY <1>1, <1>5, <2>1 DEF Frames, BoxOwn, AnswerIsOwn, WriteRequest
    <3>10. QED
      BY <1>1, <3>6, <3>7, <3>8, <3>9 DEF Frames
  <2>2. CASE WriteFails(s) /\ Outcome(s, "failed")
    <3>1. \A r \in Reqs : Pending(r)' => Pending(r)
      BY <1>3, <2>2 DEF TypeOK, Outcome, Pending
    <3>2. UNCHANGED <<wire, box>>
      BY <1>5, <2>2 DEF WriteRequest, WriteFails
    <3>3. \A r \in Reqs : result'[r] \in Answers => result'[r] = result[r]
      BY <1>1, <2>2 DEF TypeOK, Outcome, Answers
    <3>4. QED
      BY <1>1, <3>1, <3>2, <3>3 DEF Frames, IdsOwn, Once, Unsent, BoxOwn, AnswerIsOwn
  <2>3. CASE WriteBlocks(s) /\ UNCHANGED <<sending, pending>>
    BY <1>1, <1>5, <2>3, FramesByFewer DEF WriteRequest, WriteBlocks
  <2>4. QED
    BY <1>5, <2>1, <2>2, <2>3 DEF WriteRequest
<1>6. ASSUME NEW r \in Answers \union {"closed", "late", "cancelled"},
             send[s] = "await", Outcome(s, r), r \in Answers => r = box[own],
             UNCHANGED wire,
             \A q \in Reqs : box'[q] \in Answers => box'[q] = box[q]
      PROVE  Frames'
  <2>1. \A q \in Reqs : Pending(q)' => Pending(q)
    BY <1>3, <1>6 DEF TypeOK, Outcome, Pending, More
  <2>2. \A q \in Reqs : result'[q] \in Answers => result'[q] = verdict[q]
    BY <1>1, <1>6 DEF TypeOK, Outcome, Frames, BoxOwn, AnswerIsOwn
  <2>3. QED
    BY <1>1, <1>6, <2>1, <2>2 DEF Frames, IdsOwn, Once, Unsent, BoxOwn, AnswerIsOwn
<1>7. CASE Collect(s)
  <2>1. box[own] \in Answers \union {"closed"}
    BY <1>1, <1>7 DEF TypeOK, Collect
  <2>2. \A q \in Reqs : box'[q] \in Answers => box'[q] = box[q]
    BY <1>1, <1>7 DEF TypeOK, Collect, Answers
  <2>3. QED
    BY <1>6, <1>7, <2>1, <2>2 DEF Collect
<1>8. CASE GiveUp(s)
  BY <1>6, <1>8 DEF GiveUp, Answers
<1>9. QED
  BY <1>4, <1>5, <1>7, <1>8 DEF Sender

LEMMA FramesKept == TypeOK /\ Frames /\ [Next]_vars => Frames'
<1> SUFFICES ASSUME TypeOK, Frames, [Next]_vars PROVE Frames'
  OBVIOUS
<1>1. ASSUME UNCHANGED <<looping, table, sending, verdict>>,
             \A c \in Conns : wire'[c] \subseteq wire[c] \union {Ping}
      PROVE  Frames'
  <2>1. Dialled'
    BY <1>1 DEF Frames, Dialled, looping
  <2>2. QED
    BY <1>1, <2>1, FramesByFewer DEF table
<1>2. CASE Loop
  BY <1>2, FramesByLoop
<1>3. CASE ReadFrame
  BY <1>3, FramesByReader
<1>4. CASE Stop \/ UNCHANGED vars
  BY <1>1, <1>4 DEF Stop, vars, net
<1>5. ASSUME NEW c \in Conns, Heartbeat(c) \/ GoesSilent(c) \/ Breaks(c) PROVE Frames'
  <2>1. UNCHANGED <<looping, table, sending, verdict>>
    BY <1>5 DEF Heartbeat, GoesSilent, Breaks, Degrade
  <2>2. \A d \in Conns : wire'[d] \subseteq wire[d] \union {Ping}
    BY <1>5, WritesPing DEF Heartbeat, Quit, Tick, Count, SendPing, GoesSilent, Breaks, Degrade, net
  <2>3. QED
    BY <1>1, <2>1, <2>2
<1>6. CASE \E s \in Senders : Sender(s)
  BY <1>6, FramesBySender
<1>7. ASSUME NEW w \in Repliers, Replier(w) PROVE Frames'
  <2>1. UNCHANGED <<looping, table, sending, verdict>> /\ wire' = wire
    BY <1>7, WritesNothing DEF Replier
  <2>2. QED
    BY <1>1, <2>1
<1>8. QED
  BY <1>2, <1>3, <1>4, <1>5, <1>6, <1>7 DEF Next

(* A chunk counts as acknowledged, or as refused, only if the platform     *)
(* answered this very chunk so.                                            *)
THEOREM AnswersAreOwn == Spec => []AnswerIsOwn
<1>1. Init => Frames
  BY DEF Init, Frames, Dialled, IdsOwn, Once, Unsent, BoxOwn, AnswerIsOwn, Answers
<1>2. Frames => AnswerIsOwn
  BY DEF Frames
<1>3. QED
  BY <1>1, <1>2, FramesKept, ChannelTyped, PTL DEF Spec
=============================================================================
