------------------------ MODULE StreamingReplyProofs ------------------------
(***************************************************************************)
(* Proofs about StreamingReply for every limit on the rounds, every length *)
(* of a round and every capacity of the channel: what the runs check on a  *)
(* small instance, liveness excepted.                                      *)
(***************************************************************************)
EXTENDS StreamingReply, SequenceTheorems, TLAPS

(* Where the handler is, against its counters and the platform's stream.   *)
Asking == {"receive", "decide", "tools", "abort"}

Rounds ==
  /\ asked <= MaxIter
  /\ pc \in {"start", "ask"} => asked + 1 = iter /\ iter <= MaxIter
  /\ pc \in Asking \union {"iterate"} => asked = iter /\ iter <= MaxIter
  /\ pc \in Asking => iter >= 1

Bubble ==
  /\ pc = "start" => stream = "none"
  /\ pc \in Asking \union {"ask"} => stream = "open"
  /\ pc \in {"iterate", "finish"} => stream \in {"none", "open"}
  /\ stream = "none" => full = NoText
  /\ pc = "save" => /\ full # NoText
                    /\ \/ stream = "closed" /\ shown = full
                       \/ stream = "lost"
  /\ saved # NoText => pc = "done" /\ saved = full

(* The channel: only its last result may be the last of the round, and a   *)
(* goroutine that has sent it sends no more.                               *)
Channel ==
  /\ \A i \in DOMAIN chan :
       /\ chan[i][1] # "delta" => i = Len(chan) /\ producer # "running"
       /\ chan[i][2] <= MaxCalls
  /\ pc # "receive" => producer # "running"

(* The pieces received and those in the channel are all that were sent.    *)
Count ==
  /\ pc = "receive" =>
       IF producer = "running" THEN deltas + Len(chan) = sent
       ELSE IF chan = <<>> THEN deltas = sent
       ELSE deltas + Len(chan) = sent + 1 /\ chan[Len(chan)][1] # "delta"
  /\ pc \in {"decide", "tools", "iterate", "start", "ask", "finish", "save"}
       => deltas = sent

(* fullAnswer is of an earlier round while a round runs or was refused,    *)
(* and complete if it is of the latest.                                    *)
Newest ==
  /\ full # NoText => full[1] <= asked
  /\ pc \in {"receive", "decide", "abort", "apologise"} /\ full # NoText
     => full[1] < asked
  /\ pc \in {"tools", "iterate", "start", "ask", "finish", "save", "done"}
     /\ full # NoText /\ full[1] = asked => full[2] = sent

Tooling ==
  pc = "tools" =>
    LET last == context[Len(context)]
    IN /\ context # <<>> /\ last[2] = iter
       /\ \/ last[1] = "calls" /\ last[3] = calls
          \/ last[1] = "tool" /\ last[3] < at

IInv ==
  TypeOK /\ Rounds /\ Bubble /\ Channel /\ Count /\ Newest /\ Tooling /\ ToolsFollowCalls

-----------------------------------------------------------------------------
(* Sequences                                                               *)

(* What Send puts into the channel fits. *)
LEMMA SendTyped ==
  ASSUME TypeOK, NEW r \in Results, Send(r)
  PROVE  /\ chan' \in Seq(Results) /\ Len(chan') <= Cap
         /\ Len(chan') = Len(chan) + 1 /\ chan'[Len(chan')] = r
         /\ \A i \in 1..Len(chan) : chan'[i] = chan[i]
<1>1. chan \in Seq(Results) /\ Len(chan) < Cap /\ chan' = Append(chan, r)
  BY DEF TypeOK, Send
<1>2. QED
  BY <1>1, ReplyAssumption, AppendProperties

(* The handler takes a result of some kind. *)
Takes(kind) ==
  Receive /\ chan # <<>> /\ chan' = Tail(chan) /\ Head(chan)[1] = kind

LEMMA TakeTyped ==
  ASSUME TypeOK, NEW kind, Takes(kind)
  PROVE  /\ Head(chan) \in Results /\ chan[1] = Head(chan)
         /\ chan' \in Seq(Results) /\ Len(chan') <= Cap
         /\ Len(chan) \in Nat \ {0} /\ Len(chan') = Len(chan) - 1
         /\ \A i \in 1..Len(chan') : chan'[i] = chan[i + 1]
<1>1. chan \in Seq(Results) /\ Len(chan) <= Cap /\ chan # <<>> /\ chan' = Tail(chan)
  BY DEF TypeOK, Takes
<1>2. QED
  BY <1>1, ReplyAssumption, HeadTailProperties

LEMMA AppendTyped ==
  ASSUME NEW msgs \in Seq(Entries), NEW e \in Entries
  PROVE  /\ Append(msgs, e) \in Seq(Entries)
         /\ Len(Append(msgs, e)) = Len(msgs) + 1
         /\ Append(msgs, e)[Len(msgs) + 1] = e
         /\ \A i \in 1..Len(msgs) : Append(msgs, e)[i] = msgs[i]
BY AppendProperties

(* A message that answers no call may follow anything. *)
LEMMA FollowAny ==
  ASSUME NEW msgs \in Seq(Entries), NEW e \in Entries, Follow(msgs), e[1] # "tool"
  PROVE  Follow(Append(msgs, e))
<1>1. \A i \in DOMAIN Append(msgs, e) :
        Append(msgs, e)[i][1] = "tool" => i \in 1..Len(msgs)
  BY AppendTyped
<1>2. QED
  BY <1>1, AppendTyped DEF Follow

(* The answer to a call may follow the calls or an earlier answer. *)
LEMMA FollowTool ==
  ASSUME NEW msgs \in Seq(Entries), NEW e \in Entries, Follow(msgs), msgs # <<>>,
         msgs[Len(msgs)][2] = e[2],
         \/ msgs[Len(msgs)][1] = "calls" /\ e[3] <= msgs[Len(msgs)][3]
         \/ msgs[Len(msgs)][1] = "tool" /\ msgs[Len(msgs)][3] < e[3]
  PROVE  Follow(Append(msgs, e))
<1> DEFINE new == Append(msgs, e)
<1>1. Len(msgs) \in Nat \ {0} /\ DOMAIN new = 1..(Len(msgs) + 1)
  BY AppendTyped
<1>2. SUFFICES ASSUME NEW i \in 1..(Len(msgs) + 1), new[i][1] = "tool"
               PROVE  /\ i > 1
                      /\ new[i - 1][2] = new[i][2]
                      /\ \/ new[i - 1][1] = "calls" /\ new[i][3] <= new[i - 1][3]
                         \/ new[i - 1][1] = "tool"  /\ new[i][3] > new[i - 1][3]
  BY <1>1 DEF Follow
<1>3. CASE i = Len(msgs) + 1
  <2>1. new[i] = e /\ new[i - 1] = msgs[Len(msgs)]
    BY <1>1, <1>3, AppendTyped
  <2>2. e[3] \in Nat /\ msgs[Len(msgs)][3] \in Nat
    BY <1>1 DEF Entries
  <2>3. QED
    BY <1>1, <1>3, <2>1, <2>2
<1>4. CASE i \in 1..Len(msgs)
  <2>1. new[i] = msgs[i] /\ i > 1
    BY <1>2, <1>4, AppendTyped DEF Follow
  <2>2. new[i - 1] = msgs[i - 1]
    BY <1>1, <1>4, <2>1, AppendTyped
  <2>3. QED
    BY <1>2, <1>4, <2>1, <2>2 DEF Follow
<1>5. QED
  BY <1>1, <1>3, <1>4

(* The messages Decide hands to the tools end in this round's calls.       *)
LEMMA CallsAppended ==
  ASSUME TypeOK, ToolsFollowCalls, Decide
  PROVE  /\ context' \in Seq(Entries) /\ Follow(context')
         /\ calls # 0 => /\ Len(context') \in Nat \ {0}
                         /\ context'[Len(context')] = <<"calls", iter, calls>>
<1>1. CASE calls = 0
  BY <1>1 DEF TypeOK, ToolsFollowCalls, Decide
<1>2. CASE calls # 0
  <2> DEFINE text == NewestText
             t == <<"text", text[1], text[2]>>
             k == <<"calls", iter, calls>>
             msgs == IF text = NoText THEN context ELSE Append(context, t)
  <2>1. text \in Nat \X Nat
    BY ReplyAssumption DEF TypeOK, NewestText, Texts, NoText
  <2>2. t \in Entries /\ k \in Entries /\ t[1] = "text" /\ k[1] = "calls"
    BY <2>1 DEF TypeOK, Entries
  <2>3. context \in Seq(Entries) /\ Follow(context)
    BY DEF TypeOK, ToolsFollowCalls
  <2>4. msgs \in Seq(Entries) /\ Follow(msgs)
    BY <2>2, <2>3, AppendTyped, FollowAny
  <2>5. context' = Append(msgs, k)
    BY <1>2 DEF Decide, WithCalls
  <2>6. Follow(Append(msgs, k))
    BY <2>2, <2>4, FollowAny
  <2>7. Append(msgs, k) \in Seq(Entries) /\ Len(Append(msgs, k)) = Len(msgs) + 1
        /\ Append(msgs, k)[Len(msgs) + 1] = k
    BY <2>2, <2>4, AppendTyped
  <2>8. QED
    BY <2>4, <2>5, <2>6, <2>7
<1>3. QED
  BY <1>1, <1>2

-----------------------------------------------------------------------------
(* The inductive invariant: one lemma per conjunct.                        *)

(* The number of pieces received stays within that of those sent.          *)
LEMMA TypeOKStep == IInv /\ Next => TypeOK'
<1> SUFFICES ASSUME IInv, Next PROVE TypeOK'
  OBVIOUS
<1>1. CASE SendDelta /\ Produce
  <2>1. chan' \in Seq(Results) /\ Len(chan') <= Cap
    BY <1>1, SendTyped DEF IInv, SendDelta, Results
  <2>2. sent' \in 0..MaxDeltas
    BY <1>1, ReplyAssumption DEF IInv, TypeOK, SendDelta
  <2>3. QED
    BY <1>1, <2>1, <2>2 DEF IInv, TypeOK, SendDelta, Send, Produce, round, tooling,
       outside, ghosts
<1>2. CASE SendLast /\ Produce
  <2>1. /\ <<"error", 0>> \in Results /\ <<"error", 0>>[2] <= MaxCalls
        /\ \A n \in 0..MaxCalls : /\ <<"done", n>> \in Results
                                  /\ <<"done", n>>[2] <= MaxCalls
    BY ReplyAssumption DEF Results
  <2>2. Send(<<"error", 0>>) \/ \E n \in 0..MaxCalls : Send(<<"done", n>>)
    BY <1>2 DEF SendLast
  <2>3. PICK r \in Results : Send(r) /\ r[2] <= MaxCalls
    BY <2>1, <2>2
  <2>4. chan' \in Seq(Results) /\ Len(chan') <= Cap
    BY <2>3, SendTyped DEF IInv
  <2>5. QED
    BY <1>2, <2>4 DEF IInv, TypeOK, SendLast, Produce, round, tooling, outside, ghosts
<1>3. CASE CloseChan /\ Produce
  BY <1>3 DEF IInv, TypeOK, Produce, CloseChan, ghosts, outside, round,
     tooling
<1>4. CASE Iterate
  BY <1>4 DEF IInv, TypeOK, Steps, Iterate, LimitReached, NextStep, client,
     ghosts, outside, round, tooling
<1>5. CASE Start
  BY <1>5 DEF IInv, TypeOK, Steps, Texts, NoText, Thinking, Apology, Start,
     client, ghosts, round, tooling
<1>6. CASE Ask
  <2>1. <<>> \in Seq(Results) /\ Len(<<>>) <= Cap
    BY ReplyAssumption
  <2>2. chan' \in {chan, <<>>} /\ producer' \in {producer, "running"}
        /\ sent' \in {sent, 0} /\ pc' \in {"receive", "abort"}
    BY <1>6 DEF Ask, client
  <2>3. /\ deltas' \in 0..MaxDeltas /\ calls' \in 0..MaxCalls
        /\ sent' \in 0..MaxDeltas
    BY <1>6, <2>2, ReplyAssumption DEF IInv, TypeOK, Ask
  <2>4. failed' \in BOOLEAN /\ told' \in BOOLEAN /\ executed' \in BOOLEAN
    BY <1>6 DEF IInv, TypeOK, Ask, tooling
  <2>5. chan' \in Seq(Results) /\ Len(chan') <= Cap
    BY <2>1, <2>2 DEF IInv, TypeOK
  <2>6. QED
    BY <1>6, <2>2, <2>3, <2>4, <2>5 DEF IInv, TypeOK, Ask, Steps, tooling, outside
<1>7. CASE Takes("delta") /\ ReceiveDelta
  <2>1. chan' \in Seq(Results) /\ Len(chan') <= Cap
    BY <1>7, TakeTyped DEF IInv
  <2>2. deltas + 1 <= sent
    <3>1. pc = "receive"
      BY <1>7 DEF Takes, Receive
    <3>2. CASE producer = "running"
      BY <1>7, <3>1, <3>2, TakeTyped DEF IInv, Count, TypeOK
    <3>3. CASE producer # "running"
      <4>1. deltas + Len(chan) = sent + 1 /\ chan[Len(chan)][1] # "delta"
        BY <1>7, <3>1, <3>3 DEF IInv, Count, Takes
      <4>2. Len(chan) # 1
        BY <1>7, <4>1, TakeTyped DEF IInv, Takes
      <4>3. Len(chan) \in Nat \ {0}
        BY <1>7, TakeTyped DEF IInv
      <4>4. deltas \in Nat /\ sent \in Nat
        BY ReplyAssumption DEF IInv, TypeOK
      <4>5. QED
        BY <4>1, <4>2, <4>3, <4>4
    <3>4. QED
      BY <3>2, <3>3
  <2>3. deltas' \in 0..MaxDeltas
    BY <1>7, <2>2, ReplyAssumption DEF IInv, TypeOK, ReceiveDelta
  <2>4. <<iter, deltas + 1>> \in Texts
    <3>1. iter \in 1..MaxIter
      BY <1>7, ReplyAssumption DEF IInv, TypeOK, Rounds, Asking, Takes, Receive
    <3>2. deltas + 1 \in 1..MaxDeltas
      BY <1>7, <2>2, ReplyAssumption DEF IInv, TypeOK
    <3>3. QED
      BY <3>1, <3>2 DEF Texts
  <2>5. shown' \in Texts \union {NoText, Thinking, Apology}
    BY <1>7, <2>4 DEF IInv, TypeOK, ReceiveDelta
  <2>6. QED
    BY <1>7, <2>1, <2>3, <2>5 DEF IInv, TypeOK, Takes, Receive, ReceiveDelta, tooling
<1>8. CASE Takes("done") /\ ReceiveDone(Head(chan)[2])
  <2>1. chan' \in Seq(Results) /\ Len(chan') <= Cap
    BY <1>8, TakeTyped DEF IInv
  <2>2. Head(chan)[2] \in Nat /\ Head(chan)[2] <= MaxCalls
    BY <1>8, TakeTyped DEF IInv, Channel, Results
  <2>3. calls' \in 0..MaxCalls
    BY <1>8, <2>2, ReplyAssumption DEF ReceiveDone
  <2>4. QED
    BY <1>8, <2>1, <2>3 DEF IInv, TypeOK, Takes, Receive, ReceiveDone, tooling
<1>9. CASE Takes("error") /\ ReceiveError
  <2>1. chan' \in Seq(Results) /\ Len(chan') <= Cap
    BY <1>9, TakeTyped DEF IInv
  <2>2. QED
    BY <1>9, <2>1 DEF IInv, TypeOK, Takes, Receive, ReceiveError, Steps, tooling
<1>10. CASE Receive /\ ReceiveEnd
  BY <1>10 DEF IInv, TypeOK, Steps, Receive, ReceiveEnd, tooling
<1>11. CASE Decide
  <2>1. full' \in Texts \union {NoText}
    <3>1. iter \in 1..MaxIter
      BY <1>11, ReplyAssumption DEF IInv, TypeOK, Rounds, Asking, Decide
    <3>2. CASE deltas > 0
      <4>1. deltas \in 1..MaxDeltas
        BY <3>2, ReplyAssumption DEF IInv, TypeOK
      <4>2. QED
        BY <1>11, <3>1, <3>2, <4>1 DEF Decide, NewestText, Texts
    <3>3. CASE ~(deltas > 0)
      BY <1>11, <3>3 DEF IInv, TypeOK, Decide, NewestText
    <3>4. QED
      BY <3>2, <3>3
  <2>2. context' \in Seq(Entries)
    BY <1>11, CallsAppended DEF Decide, IInv
  <2>3. at' \in Nat /\ pc' \in Steps
    BY <1>11 DEF IInv, TypeOK, Decide, Steps, tooling
  <2>4. executed' \in BOOLEAN
    BY <1>11 DEF IInv, TypeOK, Decide, tooling
  <2>5. QED
    BY <1>11, <2>1, <2>2, <2>3, <2>4 DEF IInv, TypeOK, Decide, client, round, outside, ghosts
<1>12. CASE Invoke
  <2>1. <<"tool", iter, at>> \in Entries
    BY DEF IInv, TypeOK, Entries
  <2>2. context' \in {context, Append(context, <<"tool", iter, at>>)} /\ at' = at + 1
    BY <1>12 DEF Invoke
  <2>3. context' \in Seq(Entries) /\ at' \in Nat
    <3>1. context \in Seq(Entries) /\ at \in Nat
      BY DEF IInv, TypeOK
    <3>2. Append(context, <<"tool", iter, at>>) \in Seq(Entries)
      BY <2>1, <3>1, AppendProperties
    <3>3. context' \in Seq(Entries)
      BY <2>2, <3>1, <3>2, Zenon
    <3>4. QED
      BY <2>2, <3>1, <3>3
  <2>4. executed' \in BOOLEAN
    BY <1>12 DEF IInv, TypeOK, Invoke
  <2>5. UNCHANGED <<pc, iter, full, client, round, outside, ghosts>>
    BY <1>12 DEF Invoke
  <2>6. QED
    BY <2>3, <2>4, <2>5 DEF IInv, TypeOK, client, round, outside, ghosts
<1>13. CASE ToolsDone
  BY <1>13 DEF IInv, TypeOK, Steps, ToolsDone, client, ghosts, outside, round,
     tooling
<1>14. CASE Finish
  BY <1>14 DEF IInv, TypeOK, Steps, Texts, NoText, Thinking, Apology, Finish,
     FinishStream, client, ghosts, round, tooling
<1>15. CASE Save
  BY <1>15 DEF IInv, TypeOK, Steps, Texts, NoText, Thinking, Apology, Save,
     SaveAnswer, client, ghosts, round, tooling
<1>16. CASE Abort
  BY <1>16 DEF IInv, TypeOK, Steps, Texts, NoText, Thinking, Apology, Abort,
     FinishStream, client, round, tooling
<1>17. CASE Apologise
  BY <1>17 DEF IInv, TypeOK, Steps, Apologise, client, outside, round, tooling
<1>18. QED
  BY <1>1, <1>2, <1>3, <1>4, <1>5, <1>6, <1>7, <1>8, <1>9, <1>10, <1>11,
     <1>12, <1>13, <1>14, <1>15, <1>16, <1>17 DEF Next, Handle, Produce,
     Takes, Receive, ReceiveResult

(* The counter of rounds runs ahead of the requests by the round begun.    *)
LEMMA RoundsStep == IInv /\ Next => Rounds'
<1> SUFFICES ASSUME IInv, Next PROVE Rounds'
  OBVIOUS
<1>1. CASE Iterate
  BY ReplyAssumption, <1>1 DEF IInv, Rounds, TypeOK, Asking, Iterate,
     LimitReached, NextStep, ghosts
<1>2. CASE Start
  BY <1>2 DEF IInv, Rounds, TypeOK, Asking, Start, ghosts
<1>3. CASE Ask
  BY <1>3 DEF IInv, Rounds, TypeOK, Asking, Ask
<1>4. CASE Takes("error") /\ ReceiveError
  BY <1>4 DEF IInv, Rounds, TypeOK, Asking, Takes, Receive, ReceiveError
<1>5. CASE Receive /\ ReceiveEnd
  BY <1>5 DEF IInv, Rounds, TypeOK, Asking, Receive, ReceiveEnd
<1>6. CASE Decide
  BY <1>6 DEF IInv, Rounds, TypeOK, Asking, Decide, NewestText, WithCalls,
     ghosts
<1>7. CASE ToolsDone
  BY <1>7 DEF IInv, Rounds, TypeOK, Asking, ToolsDone, ghosts
<1>8. CASE Finish
  BY <1>8 DEF IInv, Rounds, TypeOK, Asking, Finish, FinishStream, ghosts
<1>9. CASE Save
  BY <1>9 DEF IInv, Rounds, TypeOK, Asking, Save, SaveAnswer, ghosts
<1>10. CASE Abort
  BY <1>10 DEF IInv, Rounds, TypeOK, Asking, Abort, FinishStream
<1>11. CASE Apologise
  BY <1>11 DEF IInv, Rounds, TypeOK, Asking, Apologise
<1>12. CASE (SendDelta /\ Produce) \/ (SendLast /\ Produce) \/ (CloseChan /\
          Produce) \/ (Takes("delta") /\ ReceiveDelta) \/ (Takes("done") /\
          ReceiveDone(Head(chan)[2])) \/ Invoke
  BY <1>12 DEF IInv, Rounds, Produce, SendDelta, SendLast, CloseChan, Takes,
     Receive, ReceiveDelta, ReceiveDone, Invoke, ghosts
<1>13. QED
  BY <1>1, <1>2, <1>3, <1>4, <1>5, <1>6, <1>7, <1>8, <1>9, <1>10, <1>11, <1>12
     DEF Next, Handle, Produce, Takes, Receive, ReceiveResult

(* The stream is opened by the first round and closed by the last step.    *)
LEMMA BubbleStep == IInv /\ Next => Bubble'
<1> SUFFICES ASSUME IInv, Next PROVE Bubble'
  OBVIOUS
<1>1. CASE Iterate
  BY <1>1 DEF IInv, Bubble, Asking, Iterate, LimitReached, NextStep, outside
<1>2. CASE Start
  BY <1>2 DEF IInv, Bubble, Asking, Start
<1>3. CASE Ask
  BY <1>3 DEF IInv, Bubble, Asking, Ask, outside
<1>4. CASE Takes("delta") /\ ReceiveDelta
  BY <1>4 DEF IInv, Bubble, Asking, Takes, Receive, ReceiveDelta
<1>5. CASE Takes("error") /\ ReceiveError
  BY <1>5 DEF IInv, Bubble, Asking, Takes, Receive, ReceiveError
<1>6. CASE Receive /\ ReceiveEnd
  BY <1>6 DEF IInv, Bubble, Asking, Receive, ReceiveEnd
<1>7. CASE Decide
  BY <1>7 DEF IInv, Bubble, Asking, TypeOK, Rounds, Texts, NoText, Decide,
     NewestText, WithCalls, outside
<1>8. CASE ToolsDone
  BY <1>8 DEF IInv, Bubble, Asking, ToolsDone, outside
<1>9. CASE Finish
  BY <1>9 DEF IInv, Bubble, Asking, Finish, FinishStream
<1>10. CASE Save
  BY <1>10 DEF IInv, Bubble, Asking, Save, SaveAnswer
<1>11. CASE Abort
  BY <1>11 DEF IInv, Bubble, Asking, Abort, FinishStream
<1>12. CASE Apologise
  BY <1>12 DEF IInv, Bubble, Asking, Apologise, outside
<1>13. CASE (SendDelta /\ Produce) \/ (SendLast /\ Produce) \/ (CloseChan /\
          Produce) \/ (Takes("done") /\ ReceiveDone(Head(chan)[2])) \/ Invoke
  BY <1>13 DEF IInv, Bubble, Produce, SendDelta, SendLast, CloseChan, Takes,
     Receive, ReceiveDone, Invoke, outside
<1>14. QED
  BY <1>1, <1>2, <1>3, <1>4, <1>5, <1>6, <1>7, <1>8, <1>9, <1>10, <1>11,
     <1>12, <1>13 DEF Next, Handle, Produce, Takes, Receive, ReceiveResult

(* A goroutine sends nothing after its last result.                        *)
LEMMA ChannelStep == IInv /\ Next => Channel'
<1> SUFFICES ASSUME IInv, Next PROVE Channel'
  OBVIOUS
<1>1. CASE SendDelta /\ Produce
  <2>1. <<"delta", 0>> \in Results /\ chan \in Seq(Results)
    BY DEF IInv, TypeOK, Results
  <2>2. /\ Len(chan') = Len(chan) + 1 /\ chan'[Len(chan')] = <<"delta", 0>>
        /\ chan' \in Seq(Results)
        /\ \A i \in 1..Len(chan) : chan'[i] = chan[i]
    BY <1>1, <2>1, SendTyped DEF IInv, SendDelta
  <2>3. \A i \in 1..Len(chan) : chan[i][1] = "delta" /\ chan[i][2] <= MaxCalls
    BY <1>1, <2>1 DEF IInv, Channel, SendDelta, Send
  <2>4. \A i \in 1..Len(chan') : chan'[i][1] = "delta" /\ chan'[i][2] <= MaxCalls
    BY <2>1, <2>2, <2>3, ReplyAssumption
  <2>5. QED
    BY <1>1, <2>2, <2>4 DEF IInv, Channel, Produce, SendDelta
<1>2. CASE SendLast /\ Produce
  <2>1. /\ <<"error", 0>> \in Results /\ <<"error", 0>>[2] <= MaxCalls
        /\ \A n \in 0..MaxCalls : /\ <<"done", n>> \in Results
                                  /\ <<"done", n>>[2] <= MaxCalls
    BY ReplyAssumption DEF Results
  <2>2. Send(<<"error", 0>>) \/ \E n \in 0..MaxCalls : Send(<<"done", n>>)
    BY <1>2 DEF SendLast
  <2>3. PICK r \in Results : Send(r) /\ r[2] <= MaxCalls
    BY <2>1, <2>2
  <2>4. /\ Len(chan') = Len(chan) + 1 /\ chan'[Len(chan')] = r
        /\ chan' \in Seq(Results) /\ chan \in Seq(Results)
        /\ \A i \in 1..Len(chan) : chan'[i] = chan[i]
    BY <2>3, SendTyped DEF IInv, TypeOK
  <2>5. \A i \in 1..Len(chan) : chan[i][1] = "delta" /\ chan[i][2] <= MaxCalls
    BY <2>3, <2>4 DEF IInv, Channel, Send
  <2>6. \A i \in 1..Len(chan') : (chan'[i][1] # "delta" => i = Len(chan'))
                                /\ chan'[i][2] <= MaxCalls
    BY <2>3, <2>4, <2>5
  <2>7. QED
    BY <1>2, <2>4, <2>6 DEF IInv, Channel, Produce, SendLast
<1>3. CASE CloseChan /\ Produce
  BY <1>3 DEF IInv, Channel, Produce, CloseChan
<1>4. CASE Iterate
  BY <1>4 DEF IInv, Channel, Iterate, LimitReached, NextStep, client
<1>5. CASE Start
  BY <1>5 DEF IInv, Channel, Start, client
<1>6. CASE Ask
  BY <1>6 DEF IInv, Channel, Ask, client
<1>7. CASE Takes("delta") /\ ReceiveDelta
  <2>1. /\ chan \in Seq(Results) /\ chan' \in Seq(Results) /\ chan[1] = Head(chan)
        /\ Len(chan) \in Nat \ {0} /\ Len(chan') = Len(chan) - 1
        /\ \A i \in 1..Len(chan') : chan'[i] = chan[i + 1]
    BY <1>7, TakeTyped DEF IInv, TypeOK
  <2>2. producer' = producer /\ pc = "receive"
    BY <1>7 DEF Takes, Receive
  <2>3. pc' = pc
    BY <1>7 DEF ReceiveDelta
  <2>4. QED
    BY <2>1, <2>2, <2>3 DEF IInv, Channel
<1>8. CASE Takes("done") /\ ReceiveDone(Head(chan)[2])
  <2>1. /\ chan \in Seq(Results) /\ chan' \in Seq(Results) /\ chan[1] = Head(chan)
        /\ Len(chan) \in Nat \ {0} /\ Len(chan') = Len(chan) - 1
        /\ \A i \in 1..Len(chan') : chan'[i] = chan[i + 1]
    BY <1>8, TakeTyped DEF IInv, TypeOK
  <2>2. producer' = producer /\ pc = "receive"
    BY <1>8 DEF Takes, Receive
  <2>3. pc' = pc
    BY <1>8 DEF ReceiveDone
  <2>4. QED
    BY <2>1, <2>2, <2>3 DEF IInv, Channel
<1>9. CASE Takes("error") /\ ReceiveError
  <2>1. /\ chan \in Seq(Results) /\ chan' \in Seq(Results) /\ chan[1] = Head(chan)
        /\ Len(chan) \in Nat \ {0} /\ Len(chan') = Len(chan) - 1
        /\ \A i \in 1..Len(chan') : chan'[i] = chan[i + 1]
    BY <1>9, TakeTyped DEF IInv, TypeOK
  <2>2. producer' = producer /\ pc = "receive"
    BY <1>9 DEF Takes, Receive
  <2>3. producer # "running"
    BY <1>9, <2>1 DEF IInv, Channel, Takes
  <2>4. QED
    BY <2>1, <2>2, <2>3 DEF IInv, Channel
<1>10. CASE Receive /\ ReceiveEnd
  BY <1>10 DEF IInv, Channel, Receive, ReceiveEnd
<1>11. CASE Decide
  BY <1>11 DEF IInv, Channel, Decide, NewestText, WithCalls, client
<1>12. CASE ToolsDone
  BY <1>12 DEF IInv, Channel, ToolsDone, client
<1>13. CASE Finish
  BY <1>13 DEF IInv, Channel, Finish, FinishStream, client
<1>14. CASE Save
  BY <1>14 DEF IInv, Channel, Save, SaveAnswer, client
<1>15. CASE Abort
  BY <1>15 DEF IInv, Channel, Abort, FinishStream, client
<1>16. CASE Apologise
  BY <1>16 DEF IInv, Channel, Apologise, client
<1>17. CASE Invoke
  BY <1>17 DEF IInv, Channel, Invoke, client
<1>18. QED
  BY <1>1, <1>2, <1>3, <1>4, <1>5, <1>6, <1>7, <1>8, <1>9, <1>10, <1>11,
     <1>12, <1>13, <1>14, <1>15, <1>16, <1>17 DEF Next, Handle, Produce,
     Takes, Receive, ReceiveResult

(* Every result taken from the channel is counted.                         *)
LEMMA CountStep == IInv /\ Next => Count'
<1> SUFFICES ASSUME IInv, Next PROVE Count'
  OBVIOUS
<1>1. CASE SendDelta /\ Produce
  <2>1. /\ Len(chan') = Len(chan) + 1 /\ Len(chan) \in Nat
    BY <1>1, SendTyped DEF IInv, TypeOK, SendDelta, Results
  <2>2. pc = "receive" /\ producer = "running" /\ producer' = "running"
    BY <1>1 DEF IInv, Channel, SendDelta, Send
  <2>3. deltas + Len(chan) = sent
    BY <2>2 DEF IInv, Count
  <2>4. deltas' + Len(chan') = sent' /\ pc' = pc
    BY <1>1, <2>1, <2>3 DEF IInv, TypeOK, Produce, SendDelta, round
  <2>5. QED
    BY <2>2, <2>4 DEF Count
<1>2. CASE SendLast /\ Produce
  BY <1>2 DEF IInv, Count, TypeOK, Channel, Produce, SendLast, Send, round
<1>3. CASE CloseChan /\ Produce
  BY <1>3 DEF IInv, Count, TypeOK, Channel, Produce, CloseChan, round
<1>4. CASE Iterate
  BY <1>4 DEF IInv, Count, TypeOK, Iterate, LimitReached, NextStep, client,
     round
<1>5. CASE Start
  BY <1>5 DEF IInv, Count, TypeOK, Start, client, round
<1>6. CASE Ask
  BY <1>6 DEF IInv, Count, TypeOK, Channel, Ask, client
<1>7. CASE Takes("delta") /\ ReceiveDelta
  <2>1. /\ chan[1] = Head(chan) /\ Len(chan) \in Nat \ {0}
        /\ Len(chan') = Len(chan) - 1 /\ chan' \in Seq(Results)
        /\ \A i \in 1..Len(chan') : chan'[i] = chan[i + 1]
    BY <1>7, TakeTyped DEF IInv
  <2>2. /\ pc = "receive" /\ pc' = pc /\ producer' = producer /\ sent' = sent
        /\ deltas' = deltas + 1 /\ deltas \in Nat
    BY <1>7 DEF IInv, TypeOK, Takes, Receive, ReceiveDelta
  <2>3. CASE producer = "running"
    BY <2>1, <2>2, <2>3 DEF IInv, Count
  <2>4. CASE producer # "running"
    <3>1. deltas + Len(chan) = sent + 1 /\ chan[Len(chan)][1] # "delta"
      BY <1>7, <2>2, <2>4 DEF IInv, Count, Takes
    <3>2. Len(chan) # 1
      BY <1>7, <2>1, <3>1 DEF Takes
    <3>3. chan' # <<>> /\ chan'[Len(chan')] = chan[Len(chan)]
      BY <2>1, <3>2
    <3>4. deltas' + Len(chan') = sent + 1
      BY <2>1, <2>2, <3>1
    <3>5. QED
      BY <2>2, <2>4, <3>1, <3>3, <3>4 DEF Count
  <2>5. QED
    BY <2>3, <2>4
<1>8. CASE Takes("done") /\ ReceiveDone(Head(chan)[2])
  BY <1>8 DEF IInv, Count, TypeOK, Channel, Takes, Receive, ReceiveDone
<1>9. CASE Takes("error") /\ ReceiveError
  BY <1>9 DEF IInv, Count, TypeOK, Channel, Takes, Receive, ReceiveError
<1>10. CASE Receive /\ ReceiveEnd
  BY <1>10 DEF IInv, Count, TypeOK, Receive, ReceiveEnd
<1>11. CASE Decide
  BY <1>11 DEF IInv, Count, TypeOK, Decide, NewestText, WithCalls, client,
     round
<1>12. CASE ToolsDone
  BY <1>12 DEF IInv, Count, TypeOK, ToolsDone, client, round
<1>13. CASE Finish
  BY <1>13 DEF IInv, Count, TypeOK, Finish, FinishStream, client, round
<1>14. CASE Save
  BY <1>14 DEF IInv, Count, TypeOK, Save, SaveAnswer, client, round
<1>15. CASE Abort
  BY <1>15 DEF IInv, Count, TypeOK, Abort, FinishStream, client, round
<1>16. CASE Apologise
  BY <1>16 DEF IInv, Count, TypeOK, Apologise, client, round
<1>17. CASE Invoke
  BY <1>17 DEF IInv, Count, Invoke, client, round
<1>18. QED
  BY <1>1, <1>2, <1>3, <1>4, <1>5, <1>6, <1>7, <1>8, <1>9, <1>10, <1>11,
     <1>12, <1>13, <1>14, <1>15, <1>16, <1>17 DEF Next, Handle, Produce,
     Takes, Receive, ReceiveResult

(* The answer is replaced only when a round has ended.                     *)
LEMMA NewestStep == IInv /\ Next => Newest'
<1> SUFFICES ASSUME IInv, Next PROVE Newest'
  OBVIOUS
<1>1. CASE SendDelta /\ Produce
  BY <1>1 DEF IInv, Newest, Channel, Produce, SendDelta, Send, ghosts
<1>2. CASE Iterate
  BY <1>2 DEF IInv, Newest, Iterate, LimitReached, NextStep, client, ghosts
<1>3. CASE Start
  BY <1>3 DEF IInv, Newest, Bubble, Start, client, ghosts
<1>4. CASE Ask
  BY <1>4 DEF IInv, Newest, TypeOK, Rounds, Asking, Count, Texts, NoText,
     Channel, Ask, client
<1>5. CASE Takes("error") /\ ReceiveError
  BY <1>5 DEF IInv, Newest, Takes, Receive, ReceiveError
<1>6. CASE Receive /\ ReceiveEnd
  BY <1>6 DEF IInv, Newest, Receive, ReceiveEnd
<1>7. CASE Decide
  BY <1>7 DEF IInv, Newest, TypeOK, Rounds, Asking, Count, Texts, NoText,
     Decide, NewestText, WithCalls, client, ghosts
<1>8. CASE ToolsDone
  BY <1>8 DEF IInv, Newest, ToolsDone, client, ghosts
<1>9. CASE Finish
  BY <1>9 DEF IInv, Newest, Finish, FinishStream, client, ghosts
<1>10. CASE Save
  BY <1>10 DEF IInv, Newest, Save, SaveAnswer, client, ghosts
<1>11. CASE Abort
  BY <1>11 DEF IInv, Newest, TypeOK, Texts, NoText, Abort, FinishStream,
     client
<1>12. CASE Apologise
  BY <1>12 DEF IInv, Newest, TypeOK, Texts, NoText, Apologise, client
<1>13. CASE (SendLast /\ Produce) \/ (CloseChan /\ Produce) \/ (Takes("delta") /\
          ReceiveDelta) \/ (Takes("done") /\ ReceiveDone(Head(chan)[2])) \/
          Invoke
  BY <1>13 DEF IInv, Newest, Produce, SendLast, CloseChan, Takes, Receive,
     ReceiveDelta, ReceiveDone, Invoke, client, ghosts
<1>14. QED
  BY <1>1, <1>2, <1>3, <1>4, <1>5, <1>6, <1>7, <1>8, <1>9, <1>10, <1>11,
     <1>12, <1>13 DEF Next, Handle, Produce, Takes, Receive, ReceiveResult

(* While tools run, the messages end in the calls or in their answers.     *)
LEMMA ToolingStep == IInv /\ Next => Tooling'
<1> SUFFICES ASSUME IInv, Next PROVE Tooling'
  OBVIOUS
<1>1. CASE Iterate
  BY <1>1 DEF IInv, Tooling, Iterate, LimitReached, NextStep, round, tooling
<1>2. CASE Start
  BY <1>2 DEF IInv, Tooling, Start, round, tooling
<1>3. CASE Ask
  BY <1>3 DEF IInv, Tooling, Ask, tooling
<1>4. CASE Takes("done") /\ ReceiveDone(Head(chan)[2])
  BY <1>4 DEF IInv, Tooling, Takes, Receive, ReceiveDone, tooling
<1>5. CASE Takes("error") /\ ReceiveError
  BY <1>5 DEF IInv, Tooling, Takes, Receive, ReceiveError, tooling
<1>6. CASE Receive /\ ReceiveEnd
  BY <1>6 DEF IInv, Tooling, Receive, ReceiveEnd, tooling
<1>7. CASE Decide
  <2>1. calls # 0 => /\ Len(context') \in Nat \ {0}
                     /\ context'[Len(context')] = <<"calls", iter, calls>>
    BY <1>7, CallsAppended DEF IInv
  <2>2. iter' = iter /\ calls' = calls /\ (calls = 0 => pc' = "finish")
    BY <1>7 DEF Decide, round
  <2>3. QED
    BY <2>1, <2>2 DEF Tooling
<1>8. CASE Invoke
  <2>1. <<"tool", iter, at>> \in Entries /\ context \in Seq(Entries) /\ at \in Nat
    BY DEF IInv, TypeOK, Entries
  <2>2. pc = "tools" /\ iter' = iter /\ calls' = calls /\ at' = at + 1
    BY <1>8 DEF Invoke, round
  <2>3. CASE context' = Append(context, <<"tool", iter, at>>)
    <3>1. /\ Len(context') = Len(context) + 1 /\ context' # <<>>
          /\ context'[Len(context')] = <<"tool", iter, at>>
      BY <2>1, <2>3, AppendProperties
    <3>2. QED
      BY <2>1, <2>2, <3>1 DEF Tooling
  <2>4. CASE context' = context
    <3>1. context[Len(context)][1] = "tool" => context[Len(context)][3] \in Nat
      BY <2>1, <2>2 DEF IInv, Tooling, Entries
    <3>2. QED
      BY <2>1, <2>2, <2>4, <3>1 DEF IInv, Tooling
  <2>5. QED
    BY <1>8, <2>3, <2>4 DEF Invoke
<1>9. CASE ToolsDone
  BY <1>9 DEF IInv, Tooling, ToolsDone, round, tooling
<1>10. CASE Finish
  BY <1>10 DEF IInv, Tooling, Finish, FinishStream, round, tooling
<1>11. CASE Save
  BY <1>11 DEF IInv, Tooling, Save, SaveAnswer, round, tooling
<1>12. CASE Abort
  BY <1>12 DEF IInv, Tooling, Abort, FinishStream, round, tooling
<1>13. CASE Apologise
  BY <1>13 DEF IInv, Tooling, Apologise, round, tooling
<1>14. CASE (SendDelta /\ Produce) \/ (SendLast /\ Produce) \/ (CloseChan /\
          Produce) \/ (Takes("delta") /\ ReceiveDelta)
  BY <1>14 DEF IInv, Tooling, Produce, SendDelta, SendLast, CloseChan, Takes,
     Receive, ReceiveDelta, round, tooling
<1>15. QED
  BY <1>1, <1>2, <1>3, <1>4, <1>5, <1>6, <1>7, <1>8, <1>9, <1>10, <1>11,
     <1>12, <1>13, <1>14 DEF Next, Handle, Produce, Takes, Receive,
     ReceiveResult

(* Answers of tools are appended only behind their calls.                  *)
LEMMA ToolsFollowCallsStep == IInv /\ Next => ToolsFollowCalls'
<1> SUFFICES ASSUME IInv, Next PROVE ToolsFollowCalls'
  OBVIOUS
<1>1. CASE Decide
  BY <1>1, CallsAppended DEF IInv, ToolsFollowCalls
<1>2. CASE Invoke
  <2>1. <<"tool", iter, at>> \in Entries /\ context \in Seq(Entries) /\ at <= calls
    BY <1>2 DEF IInv, TypeOK, Entries, Invoke
  <2>2. /\ context # <<>> /\ context[Len(context)][2] = iter
        /\ \/ context[Len(context)][1] = "calls" /\ context[Len(context)][3] = calls
           \/ context[Len(context)][1] = "tool" /\ context[Len(context)][3] < at
    BY <1>2 DEF IInv, Tooling, Invoke
  <2>3. Follow(context)
    BY DEF IInv, ToolsFollowCalls
  <2>4. CASE context' = Append(context, <<"tool", iter, at>>)
    BY <2>1, <2>2, <2>3, <2>4, FollowTool DEF ToolsFollowCalls
  <2>5. CASE context' = context
    BY <2>3, <2>5 DEF ToolsFollowCalls
  <2>6. QED
    BY <1>2, <2>4, <2>5 DEF Invoke
<1>3. CASE (SendDelta /\ Produce) \/ (SendLast /\ Produce) \/ (CloseChan /\
          Produce) \/ Iterate \/ Start \/ Ask \/ (Takes("delta") /\
          ReceiveDelta) \/ (Takes("done") /\ ReceiveDone(Head(chan)[2])) \/
          (Takes("error") /\ ReceiveError) \/ (Receive /\ ReceiveEnd) \/
          ToolsDone \/ Finish \/ Save \/ Abort \/ Apologise
  BY <1>3 DEF IInv, ToolsFollowCalls, Follow, Produce, SendDelta, SendLast,
     CloseChan, Iterate, Start, Ask, Takes, Receive, ReceiveDelta,
     ReceiveDone, ReceiveError, ReceiveEnd, ToolsDone, Finish, Save, Abort,
     Apologise
<1>4. QED
  BY <1>1, <1>2, <1>3 DEF Next, Handle, Produce, Takes, Receive, ReceiveResult

-----------------------------------------------------------------------------
(* Theorems                                                                *)

LEMMA InitHolds == Init => IInv
<1> SUFFICES ASSUME Init PROVE IInv
  OBVIOUS
<1>1. context \in Seq(Entries) /\ chan \in Seq(Results) /\ Len(chan) = 0
  BY DEF Init, Entries
<1>2. TypeOK
  <2>1. executed \in BOOLEAN /\ failed \in BOOLEAN /\ told \in BOOLEAN
    BY DEF Init
  <2>2. deltas \in 0..MaxDeltas /\ calls \in 0..MaxCalls /\ sent \in 0..MaxDeltas
        /\ Len(chan) <= Cap
    BY <1>1, ReplyAssumption DEF Init
  <2>3. QED
    BY <1>1, <2>1, <2>2 DEF Init, TypeOK, Steps
<1>3. Rounds /\ Bubble /\ Channel /\ Count /\ Newest /\ Tooling
  BY ReplyAssumption DEF Init, Rounds, Bubble, Channel, Count, Newest, Tooling, Asking,
     NoText
<1>4. ToolsFollowCalls
  BY DEF Init, ToolsFollowCalls, Follow
<1>5. QED
  BY <1>2, <1>3, <1>4 DEF IInv

LEMMA StepHolds == IInv /\ [Next]_vars => IInv'
<1> SUFFICES ASSUME IInv, [Next]_vars PROVE IInv'
  OBVIOUS
<1>1. CASE Next
  BY <1>1, TypeOKStep, RoundsStep, BubbleStep, ChannelStep, CountStep, NewestStep,
     ToolingStep, ToolsFollowCallsStep DEF IInv
<1>2. CASE UNCHANGED vars
  BY <1>2 DEF IInv, TypeOK, Rounds, Bubble, Channel, Count, Newest, Tooling,
     ToolsFollowCalls, Follow, vars, client, round, tooling, outside, ghosts
<1>3. QED
  BY <1>1, <1>2

LEMMA Invariance == Spec => []IInv
BY InitHolds, StepHolds, PTL DEF Spec

(* Every reachable state is well typed; in particular a text never has     *)
(* more pieces than the model said and the channel is never overfull.      *)
THEOREM ReplyTyped == Spec => []TypeOK
BY Invariance, PTL DEF IInv

(* handleStreamingReply puts a message to the model MaxLoopIterations      *)
(* times at most, whatever the model and the tools answer.                 *)
THEOREM ReplyBounded == Spec => []RequestsBounded
<1>1. IInv => RequestsBounded
  BY DEF IInv, Rounds, RequestsBounded
<1>2. QED
  BY <1>1, Invariance, PTL

(* The messages of every request keep a tool's answer behind its calls.    *)
THEOREM ReplyInOrder == Spec => []ToolsFollowCalls
BY Invariance, PTL DEF IInv

(* doChannelStream never leaves the goroutine of StreamChat with something *)
(* to send.                                                                *)
THEOREM ReplyNoProducerLeft == Spec => []NoProducerLeft
<1>1. IInv => NoProducerLeft
  BY DEF IInv, Channel, NoProducerLeft
<1>2. QED
  BY <1>1, Invariance, PTL

(* The saved answer of the last round is all the model said in it.         *)
THEOREM ReplyWhole == Spec => []AnswerWhole
<1>1. IInv => AnswerWhole
  BY DEF IInv, Bubble, Newest, AnswerWhole
<1>2. QED
  BY <1>1, Invariance, PTL

(* handleStreamingReply gives the platform one bubble per message, which   *)
(* it closes with what the history keeps.                                  *)
THEOREM ReplyImplementsLife == Spec => ImplementsReplyLife
<1>1. Init => Life!Init
  BY DEF Init, Life!Init
<1>2. ASSUME IInv, IInv', [Next]_vars PROVE [Life!Next]_<<stream, shown, saved>>
  <2> DEFINE Same == UNCHANGED <<stream, shown, saved>>
  <2>1. CASE Produce
    BY <2>1 DEF Produce, outside
  <2>2. CASE Iterate \/ Decide \/ Invoke \/ ToolsDone \/ Apologise \/ Ask
    BY <2>2 DEF Iterate, Decide, Invoke, ToolsDone, Apologise, Ask, outside
  <2>3. CASE Start
    BY <1>2, <2>3 DEF IInv, Bubble, Start, Life!Next, Life!Open
  <2>4. CASE Receive
    <3>1. stream = "open" /\ UNCHANGED <<stream, saved>>
      BY <1>2, <2>4 DEF IInv, Bubble, Asking, Receive
    <3>2. CASE shown' = shown
      BY <3>1, <3>2
    <3>3. CASE shown' # shown
      <4>1. shown' = <<iter, deltas + 1>> /\ iter' = iter /\ deltas' = deltas + 1
            /\ pc' = "receive"
        BY <2>4, <3>3 DEF Receive, ReceiveResult, ReceiveDelta, ReceiveDone, ReceiveError,
           ReceiveEnd
      <4>2. iter' \in 1..MaxIter /\ deltas' \in 1..MaxDeltas
        BY <1>2, <4>1, ReplyAssumption DEF IInv, TypeOK, Rounds, Asking
      <4>3. shown' \in Texts
        BY <4>1, <4>2 DEF Texts
      <4>4. QED
        BY <3>1, <4>3 DEF Life!Next, Life!Rewrite
    <3>4. QED
      BY <3>2, <3>3
  <2>5. CASE Finish
    <3>1. full \in Texts \union {NoText, Apology} /\ stream \in {"none", "open"}
          /\ UNCHANGED saved
      BY <1>2, <2>5 DEF IInv, TypeOK, Bubble, Finish
    <3>2. QED
      BY <2>5, <3>1 DEF Finish, FinishStream, Life!Next, Life!Close, Life!Lose
  <2>6. CASE Abort
    <3>1. stream = "open" /\ UNCHANGED saved
      BY <1>2, <2>6 DEF IInv, Bubble, Asking, Abort
    <3>2. QED
      BY <2>6, <3>1 DEF Abort, FinishStream, Life!Next, Life!Close, Life!Lose
  <2>7. CASE Save
    <3>1. /\ full \in Texts /\ saved = NoText /\ UNCHANGED <<stream, shown>>
          /\ (stream = "closed" /\ shown = full) \/ stream = "lost"
          /\ saved' = saved \/ saved' = full
      BY <1>2, <2>7 DEF IInv, TypeOK, Bubble, Save, SaveAnswer
    <3>2. QED
      BY <3>1 DEF Life!Next, Life!Remember
  <2>8. CASE UNCHANGED vars
    BY <2>8 DEF vars, outside
  <2>9. QED
    BY <1>2, <2>1, <2>2, <2>3, <2>4, <2>5, <2>6, <2>7, <2>8 DEF Next, Handle
<1>3. QED
  BY <1>1, <1>2, Invariance, PTL DEF Spec, Life!Spec, ImplementsReplyLife
=============================================================================
