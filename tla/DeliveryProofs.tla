--------------------------- MODULE DeliveryProofs ---------------------------
(***************************************************************************)
(* Proofs about Delivery, for all messages, any number of attempts at each *)
(* of them, and every number of failures, expired marks and restarts.      *)
(***************************************************************************)
EXTENDS Delivery, TLAPS

Points == {"none", "mark", "check", "fetch", "name", "lookup", "handle", "reply", "send",
           "lock", "gettoken", "end"}
Busy   == Points \ {"none", "mark", "end"}

TypeOK ==
  /\ kind \in [Messages -> {"text", "media", "other"}]
  /\ sends \in [Messages -> Nat] /\ handled \in [Messages -> Nat]
  /\ at \in [Attempts -> Points]
  /\ after \in [Attempts -> {"none", "fetch", "lookup", "send"}]

(* What an attempt has done by the point it is at, and that the next one   *)
(* of the platform has not begun.                                          *)
Progress ==
  /\ \A d \in Attempts :
       /\ at[d] \in {"lock", "gettoken"} => after[d] # "none"
       /\ at[d] \in {"reply", "send"} => handled[MessageOf(d)] > 0
       /\ at[d] \in {"lock", "gettoken"} /\ after[d] = "send" => handled[MessageOf(d)] > 0
  /\ \A d \in Attempts : d[2] > sends[MessageOf(d)] => at[d] = "none"

(* A message that is marked is in hand: it was handled, or an attempt that *)
(* is past the mark has it.                                                *)
InHand(m) == handled[m] > 0 \/ \E d \in Attempts : MessageOf(d) = m /\ at[d] \in Busy
Matters(m) == m \in Messages \ excused /\ ~Ignored(m)
Kept ==
  \A m \in Messages : Matters(m) =>
    /\ m \in marked => InHand(m)
    /\ sends[m] > 0 => InHand(m) \/ \E d \in Attempts : MessageOf(d) = m /\ at[d] = "mark"

(* Where messages are marked, one attempt at most is between the mark and  *)
(* the handler.                                                            *)
Ahead == {"check", "fetch", "name", "lookup", "handle"}
Sure(d) == MessageOf(d) \notin doubtful /\ at[d] \in Ahead
Single ==
  /\ \A d \in Attempts : at[d] \notin {"lock", "gettoken", "send"}
  /\ \A m \in Messages \ doubtful : handled[m] <= 1 /\ (handled[m] = 1 => m \in marked)
  /\ \A d \in Attempts : Sure(d) => handled[MessageOf(d)] = 0 /\ MessageOf(d) \in marked
  /\ \A d, e \in Attempts : Sure(d) /\ Sure(e) /\ MessageOf(d) = MessageOf(e) => d = e
Once == ~Callback => Single

IInv == TypeOK /\ Progress /\ Kept /\ Once

-----------------------------------------------------------------------------

LEMMA AttemptParts ==
  /\ \A d \in Attempts : MessageOf(d) \in Messages /\ d[2] \in Nat
  /\ \A m \in Messages, k \in Nat : k \in 1..MaxSends[m] => <<m, k>> \in Attempts
  /\ \A m, k : MessageOf(<<m, k>>) = m /\ <<m, k>>[2] = k
<1>1. \A m \in Messages : MaxSends[m] \in Nat
  BY DeliveryAssumption
<1>2. ASSUME NEW d \in Attempts PROVE MessageOf(d) \in Messages /\ d[2] \in Nat
  <2>1. PICK m \in Messages : d \in {m} \X (1..MaxSends[m])
    BY DEF Attempts
  <2> QED BY <2>1, <1>1 DEF MessageOf
<1>3. ASSUME NEW m \in Messages, NEW k \in Nat, k \in 1..MaxSends[m] PROVE <<m, k>> \in Attempts
  <2>1. <<m, k>> \in {m} \X (1..MaxSends[m])
    BY <1>3
  <2> QED BY <2>1 DEF Attempts
<1> QED BY <1>2, <1>3 DEF MessageOf

LEMMA NextAttempt ==
  ASSUME TypeOK, NEW m \in Messages, Send(m)
  PROVE  /\ <<m, sends[m] + 1>> \in Attempts /\ MessageOf(<<m, sends[m] + 1>>) = m
         /\ <<m, sends[m] + 1>>[2] > sends[m]
<1>1. sends[m] \in Nat /\ MaxSends[m] \in Nat /\ sends[m] < MaxSends[m]
  BY DeliveryAssumption DEF TypeOK, Send
<1>2. sends[m] + 1 \in Nat /\ sends[m] + 1 \in 1..MaxSends[m]
  BY <1>1
<1> DEFINE k == sends[m] + 1
<1> HIDE DEF k
<1>3. <<m, k>> \in Attempts /\ MessageOf(<<m, k>>) = m /\ <<m, k>>[2] = k
  BY <1>2, AttemptParts DEF k
<1> QED BY <1>1, <1>3 DEF k

(* A step of one attempt, past the mark, that keeps its message in hand or *)
(* finds that it need not be.                                              *)
LEMMA KeptByOne ==
  ASSUME TypeOK, Kept, NEW d \in Attempts, NEW x \in Points, at[d] \in Busy,
         at' = [at EXCEPT ![d] = x],
         x \in Busy \/ handled'[MessageOf(d)] > 0 \/ ~Matters(MessageOf(d))',
         sends' = sends, kind' = kind, transport' = transport, marked' = marked,
         excused \subseteq excused', handled' \in [Messages -> Nat],
         \A m \in Messages : handled[m] > 0 => handled'[m] > 0
  PROVE  Kept'
<1>1. SUFFICES ASSUME NEW m \in Messages, Matters(m)'
               PROVE  /\ m \in marked => InHand(m)'
                      /\ sends[m] > 0 => InHand(m)' \/ \E e \in Attempts : MessageOf(e) = m /\ at'[e] = "mark"
  BY DEF Kept
<1>2. Matters(m)
  BY <1>1 DEF Matters, Ignored, Connection
<1>3. CASE InHand(m)
  BY <1>1, <1>3, AttemptParts DEF InHand, TypeOK
<1>4. CASE ~InHand(m)
  <2>1. m # MessageOf(d)
    BY <1>4 DEF InHand
  <2>2. m \notin marked
    BY <1>2, <1>4 DEF Kept
  <2>3. ASSUME sends[m] > 0 PROVE \E e \in Attempts : MessageOf(e) = m /\ at'[e] = "mark"
    <3>1. PICK e \in Attempts : MessageOf(e) = m /\ at[e] = "mark"
      BY <1>2, <1>4, <2>3 DEF Kept
    <3> QED BY <3>1, <2>1 DEF TypeOK
  <2> QED BY <2>2, <2>3
<1> QED BY <1>3, <1>4

(* An attempt that gets no nearer to the handler than it was.              *)
LEMMA OnceByOne ==
  ASSUME TypeOK, Once, NEW d \in Attempts, NEW x \in Points,
         at' = [at EXCEPT ![d] = x], transport' = transport, handled' = handled,
         marked \subseteq marked', doubtful \subseteq doubtful',
         x \in Ahead => at[d] \in Ahead \/ MessageOf(d) \in doubtful',
         ~Callback => x \notin {"lock", "gettoken", "send"}
  PROVE  Once'
<1>1. SUFFICES ASSUME ~Callback PROVE Single'
  BY DEF Once, Callback
<1>2. Single
  BY <1>1 DEF Once
<1>3. \A e \in Attempts : Sure(e)' => Sure(e)
  BY DEF TypeOK, Sure, Ahead
<1>4. \A e \in Attempts : at'[e] \notin {"lock", "gettoken", "send"}
  BY <1>1, <1>2 DEF TypeOK, Single
<1>5. \A m \in Messages \ doubtful' : handled'[m] <= 1 /\ (handled'[m] = 1 => m \in marked')
  BY <1>2 DEF Single
<1>6. \A e \in Attempts : Sure(e)' => handled'[MessageOf(e)] = 0 /\ MessageOf(e) \in marked'
  BY <1>2, <1>3 DEF Single
<1>7. \A e, g \in Attempts : Sure(e)' /\ Sure(g)' /\ MessageOf(e) = MessageOf(g) => e = g
  BY <1>2, <1>3 DEF Single
<1>8. \A e \in Attempts : MessageOf(e)' = MessageOf(e)
  BY DEF MessageOf
<1> QED BY <1>4, <1>5, <1>6, <1>7, <1>8 DEF Single

(* An attempt that marks a message nobody has marked, or of which nothing  *)
(* is certain, is the first of it.                                         *)
LEMMA OnceMarks ==
  ASSUME TypeOK, Once, NEW d \in Attempts, Mark(d)
  PROVE  Once'
<1>1. CASE Goto(d, "end") /\ marked \subseteq marked' /\ UNCHANGED doubtful
  BY <1>1, OnceByOne DEF Mark, Goto, Points, Ahead
<1>2. CASE Goto(d, "check") /\ doubtful' = doubtful \union {MessageOf(d)} /\ UNCHANGED marked
  BY <1>2, OnceByOne DEF Mark, Goto, Points, Ahead
<1>3. CASE /\ Goto(d, "check") /\ MessageOf(d) \notin marked /\ UNCHANGED doubtful
           /\ marked' = marked \union {MessageOf(d)}
  <2>1. SUFFICES ASSUME ~Callback PROVE Single'
    BY <1>3 DEF Once, Callback, Mark
  <2>2. Single
    BY <2>1 DEF Once
  <2>3. /\ at[d] = "mark" /\ at' = [at EXCEPT ![d] = "check"] /\ handled' = handled
        /\ MessageOf(d) \in Messages
    BY <1>3, AttemptParts DEF Mark, Goto
  <2>4. \A e \in Attempts : Sure(e)' => (Sure(e) /\ MessageOf(e) # MessageOf(d)) \/ e = d
    BY <1>3, <2>2, <2>3 DEF TypeOK, Sure, Single
  <2>5. MessageOf(d) \notin doubtful => handled[MessageOf(d)] = 0
    BY <1>3, <2>2, <2>3 DEF Single, TypeOK
  <2>6. \A e \in Attempts : at'[e] \notin {"lock", "gettoken", "send"}
    BY <2>2, <2>3 DEF TypeOK, Single
  <2>7. \A m \in Messages \ doubtful' : handled'[m] <= 1 /\ (handled'[m] = 1 => m \in marked')
    BY <1>3, <2>2, <2>3 DEF Single
  <2>8. \A e \in Attempts : Sure(e)' => handled'[MessageOf(e)] = 0 /\ MessageOf(e) \in marked'
    BY <1>3, <2>2, <2>3, <2>4, <2>5 DEF Single, Sure
  <2>9. \A e, g \in Attempts : Sure(e)' /\ Sure(g)' /\ MessageOf(e) = MessageOf(g) => e = g
    BY <2>2, <2>4 DEF Single
  <2>10. \A e \in Attempts : MessageOf(e)' = MessageOf(e)
    BY DEF MessageOf
  <2> QED BY <2>6, <2>7, <2>8, <2>9, <2>10 DEF Single
<1> QED BY <1>1, <1>2, <1>3 DEF Mark, Seen, TakenForNew, ghosts

(* The handler gets the message from the one attempt that is ahead.        *)
LEMMA OnceHandles ==
  ASSUME TypeOK, Once, NEW d \in Attempts, Handle(d)
  PROVE  Once'
<1>1. SUFFICES ASSUME ~Callback PROVE Single'
  BY DEF Once, Callback, Handle
<1>2. Single
  BY <1>1 DEF Once
<1>3. /\ at[d] = "handle" /\ at' = [at EXCEPT ![d] = "reply"]
      /\ handled' = [handled EXCEPT ![MessageOf(d)] = @ + 1]
      /\ MessageOf(d) \in Messages /\ UNCHANGED <<marked, doubtful>>
  BY AttemptParts DEF Handle, Goto, ghosts
<1>4. \A e \in Attempts : Sure(e)' => Sure(e) /\ MessageOf(e) # MessageOf(d)
  <2>1. ASSUME NEW e \in Attempts, Sure(e)' PROVE Sure(e) /\ e # d
    BY <1>3, <2>1 DEF Sure, Ahead, TypeOK, MessageOf
  <2>2. ASSUME NEW e \in Attempts, Sure(e), e # d PROVE MessageOf(e) # MessageOf(d)
    BY <1>2, <1>3, <2>2 DEF Single, Sure, Ahead
  <2> QED BY <2>1, <2>2
<1>5. MessageOf(d) \notin doubtful => handled[MessageOf(d)] = 0 /\ MessageOf(d) \in marked
  BY <1>2, <1>3 DEF Single, Sure, Ahead
<1>6. \A e \in Attempts : at'[e] \notin {"lock", "gettoken", "send"}
  BY <1>2, <1>3 DEF TypeOK, Single
<1>7. \A m \in Messages \ doubtful' : handled'[m] <= 1 /\ (handled'[m] = 1 => m \in marked')
  BY <1>2, <1>3, <1>5 DEF Single, TypeOK
<1>8. \A e \in Attempts : Sure(e)' => handled'[MessageOf(e)] = 0 /\ MessageOf(e) \in marked'
  BY <1>2, <1>3, <1>4, AttemptParts DEF Single, TypeOK
<1>9. \A e, g \in Attempts : Sure(e)' /\ Sure(g)' /\ MessageOf(e) = MessageOf(g) => e = g
  BY <1>2, <1>4 DEF Single
<1>10. \A e \in Attempts : MessageOf(e)' = MessageOf(e)
  BY DEF MessageOf
<1> QED BY <1>6, <1>7, <1>8, <1>9, <1>10 DEF Single

-----------------------------------------------------------------------------
(* What every step keeps                                                   *)

(* Where a check leads.                                                    *)
LEMMA CheckGoes ==
  ASSUME NEW d \in Attempts, TypeOK, Check(d)
  PROVE  /\ at[d] = "check"
         /\ \/ \E x \in {"handle", "name", "fetch"} : Goto(d, x)
            \/ Callback /\ NeedsToken(d, "fetch")
            \/ Ignored(MessageOf(d)) /\ Goto(d, "end")
         /\ UNCHANGED <<transport, kind, sends, marked, handled, ghosts>>
<1>1. CASE Ignored(MessageOf(d))
  BY <1>1 DEF Check
<1>2. CASE ~Ignored(MessageOf(d)) /\ Callback
  BY <1>2 DEF Check, FromCallback, Callback, Connection
<1>3. CASE ~Ignored(MessageOf(d)) /\ ~Callback
  BY <1>3 DEF Check, FromConnection, FromFeishu, Callback, Connection
<1> QED BY <1>1, <1>2, <1>3

LEMMA TypeStep ==
  ASSUME TypeOK, Progress, [Next]_vars
  PROVE  TypeOK'
<1> USE DeliveryAssumption, AttemptParts DEF TypeOK, Points, request
<1>1. CASE Expire \/ Restart \/ UNCHANGED vars
  BY <1>1 DEF Expire, Restart, vars
<1>2. ASSUME NEW m \in Messages, Send(m) PROVE TypeOK'
  BY <1>2 DEF Send, Goto
<1>3. ASSUME NEW d \in Attempts, Lose(d) PROVE TypeOK'
  BY <1>3 DEF Lose, Goto
<1>4. ASSUME NEW d \in Attempts, Mark(d) PROVE TypeOK'
  BY <1>4 DEF Mark, TakenForNew, Goto
<1>5. ASSUME NEW d \in Attempts, Check(d) PROVE TypeOK'
  <2>1. \/ \E x \in {"handle", "name", "fetch", "end"} : Goto(d, x)
        \/ NeedsToken(d, "fetch")
    BY <1>5, CheckGoes
  <2> QED BY <1>5, <2>1, CheckGoes DEF Goto, NeedsToken
<1>6. ASSUME NEW d \in Attempts, Fetch(d) \/ Lookup(d) \/ SendReply(d) \/ Lock(d) PROVE TypeOK'
  BY <1>6 DEF Fetch, Lookup, SendReply, Lock, Goto
<1>7. ASSUME NEW d \in Attempts, Name(d) \/ Reply(d) PROVE TypeOK'
  BY <1>7 DEF Name, Reply, Goto, NeedsToken
<1>8. ASSUME NEW d \in Attempts, Handle(d) PROVE TypeOK'
  BY <1>8 DEF Handle, Goto
<1>9. ASSUME NEW d \in Attempts, GetToken(d) PROVE TypeOK'
  <2>1. after[d] \in Points
    BY <1>9 DEF GetToken, Progress
  <2> QED BY <1>9, <2>1 DEF GetToken, Without, Goto
<1> QED
  BY <1>1, <1>2, <1>3, <1>4, <1>5, <1>6, <1>7, <1>8, <1>9 DEF Next, Step

LEMMA ProgressStep ==
  ASSUME TypeOK, Progress, TypeOK', [Next]_vars
  PROVE  Progress'
<1> USE AttemptParts DEF TypeOK, Progress, Points, request
<1>1. CASE Expire \/ UNCHANGED vars
  BY <1>1 DEF Expire, vars, MessageOf
<1>2. CASE Restart
  BY <1>2 DEF Restart, UnderWay, MessageOf
<1>3. ASSUME NEW m \in Messages, Send(m) PROVE Progress'
  BY <1>3 DEF Send, Goto, MessageOf
<1>4. ASSUME NEW d \in Attempts, Lose(d) PROVE Progress'
  BY <1>4 DEF Lose, Goto, MessageOf
<1>5. ASSUME NEW d \in Attempts, Mark(d) PROVE Progress'
  BY <1>5 DEF Mark, TakenForNew, Goto, MessageOf
<1>6. ASSUME NEW d \in Attempts, Check(d) PROVE Progress'
  <2>1. \/ \E x \in {"handle", "name", "fetch", "end"} : Goto(d, x)
        \/ NeedsToken(d, "fetch")
    BY <1>6, CheckGoes
  <2>2. /\ at[d] = "check" /\ handled' = handled /\ sends' = sends
        /\ \A e \in Attempts : MessageOf(e)' = MessageOf(e)
    BY <1>6, CheckGoes DEF MessageOf
  <2>3. CASE NeedsToken(d, "fetch")
    BY <2>2, <2>3 DEF NeedsToken
  <2>4. CASE \E x \in {"handle", "name", "fetch", "end"} : Goto(d, x)
    BY <2>2, <2>4 DEF Goto
  <2> QED BY <2>1, <2>3, <2>4
<1>7. ASSUME NEW d \in Attempts, Fetch(d) \/ Lookup(d) \/ SendReply(d) \/ Lock(d) PROVE Progress'
  <2>1. /\ handled' = handled /\ sends' = sends /\ after' = after
        /\ \A e \in Attempts : MessageOf(e)' = MessageOf(e)
    BY <1>7 DEF Fetch, Lookup, SendReply, Lock, Goto, MessageOf
  <2>2. CASE Lock(d)
    BY <2>1, <2>2 DEF Lock, Goto
  <2>3. CASE Fetch(d) \/ Lookup(d) \/ SendReply(d)
    <3>1. /\ at[d] # "none"
          /\ at' = [at EXCEPT ![d] = "end"] \/ at' = [at EXCEPT ![d] = "name"] \/ at' = [at EXCEPT ![d] = "handle"]
      BY <2>3 DEF Fetch, Lookup, SendReply, Goto
    <3> QED BY <2>1, <3>1
  <2> QED BY <1>7, <2>2, <2>3
<1>8. ASSUME NEW d \in Attempts, Name(d) \/ Reply(d) PROVE Progress'
  BY <1>8 DEF Name, Reply, Goto, NeedsToken, MessageOf
<1>9. ASSUME NEW d \in Attempts, Handle(d) PROVE Progress'
  BY <1>9 DEF Handle, Goto, MessageOf
<1>10. ASSUME NEW d \in Attempts, GetToken(d) PROVE Progress'
  BY <1>10 DEF GetToken, Without, Goto, MessageOf
<1> QED
  BY <1>1, <1>2, <1>3, <1>4, <1>5, <1>6, <1>7, <1>8, <1>9, <1>10 DEF Next, Step

LEMMA OnceStep ==
  ASSUME TypeOK, Once, [Next]_vars
  PROVE  Once'
<1> USE DEF Points, Ahead, request, ghosts
<1>1. CASE Expire \/ UNCHANGED vars
  BY <1>1, AttemptParts DEF Expire, vars, Once, Single, Sure, Callback, MessageOf
<1>2. CASE Restart
  <2>1. \A d \in Attempts : at'[d] \in Ahead \union {"lock", "gettoken", "send"} => at'[d] = at[d]
    BY <1>2 DEF Restart, TypeOK
  <2> QED BY <1>2, <2>1 DEF Restart, Once, Single, Sure, Callback, MessageOf
<1>3. ASSUME NEW m \in Messages, Send(m) PROVE Once'
  <2> DEFINE d == <<m, sends[m] + 1>>
  <2>1. d \in Attempts
    BY <1>3, NextAttempt
  <2>2. CASE Callback
    BY <1>3, <2>2 DEF Once, Send, Callback
  <2>3. CASE ~Callback
    <3>1. /\ at' = [at EXCEPT ![d] = "mark"]
          /\ UNCHANGED <<transport, handled, marked, doubtful>>
      BY <1>3, <2>3 DEF Send, Goto
    <3> HIDE DEF d
    <3> QED BY <2>1, <3>1, OnceByOne
  <2> QED BY <2>2, <2>3
<1>4. ASSUME NEW d \in Attempts, Lose(d) PROVE Once'
  BY <1>4, OnceByOne DEF Lose, Goto, Excuse
<1>5. ASSUME NEW d \in Attempts, Check(d) PROVE Once'
  <2>1. CASE Callback
    BY <1>5, <2>1 DEF Once, Check, Callback
  <2>2. CASE ~Callback
    BY <1>5, <2>2, CheckGoes, OnceByOne DEF Goto
  <2> QED BY <2>1, <2>2
<1>6. ASSUME NEW d \in Attempts, Fetch(d) PROVE Once'
  BY <1>6, OnceByOne DEF Fetch, Goto, Excuse
<1>7. ASSUME NEW d \in Attempts, Lookup(d) PROVE Once'
  BY <1>7, OnceByOne DEF Lookup, Goto
<1>8. ASSUME NEW d \in Attempts, SendReply(d) PROVE Once'
  BY <1>8, OnceByOne DEF SendReply, Goto
<1>9. ASSUME NEW d \in Attempts, Name(d) PROVE Once'
  <2>1. CASE Callback
    BY <1>9, <2>1 DEF Once, Name, Callback
  <2>2. CASE ~Callback
    BY <1>9, <2>2, OnceByOne DEF Name, Goto
  <2> QED BY <2>1, <2>2
<1>10. ASSUME NEW d \in Attempts, Reply(d) PROVE Once'
  <2>1. CASE Callback
    BY <1>10, <2>1 DEF Once, Reply, Callback
  <2>2. CASE ~Callback
    BY <1>10, <2>2, OnceByOne DEF Reply, Goto
  <2> QED BY <2>1, <2>2
<1>11. ASSUME NEW d \in Attempts, Lock(d) \/ GetToken(d) PROVE Once'
  <2>1. Callback
    BY <1>11 DEF Lock, GetToken, Once, Single
  <2> QED BY <1>11, <2>1 DEF Once, Lock, GetToken, Callback
<1> QED
  BY <1>1, <1>2, <1>3, <1>4, <1>5, <1>6, <1>7, <1>8, <1>9, <1>10, <1>11, OnceMarks, OnceHandles
  DEF Next, Step

LEMMA KeptStep ==
  ASSUME TypeOK, Progress, Kept, TypeOK', [Next]_vars
  PROVE  Kept'
<1> USE DEF Points, Busy, request, ghosts
<1>1. CASE Expire \/ UNCHANGED vars
  BY <1>1, AttemptParts DEF Expire, vars, Kept, InHand, Matters, Ignored, Connection, MessageOf
<1>2. CASE Restart
  <2>1. \A m \in Messages : Matters(m)' => Matters(m) /\ \A d \in Attempts : MessageOf(d) = m => at'[d] = at[d] /\ at[d] \in {"none", "end"}
    BY <1>2 DEF Restart, UnderWay, Matters, Ignored, Connection
  <2> QED BY <1>2, <2>1 DEF Restart, Kept, InHand, MessageOf
<1>3. ASSUME NEW m \in Messages, Send(m) PROVE Kept'
  <2> DEFINE d == <<m, sends[m] + 1>>
  <2>1. d \in Attempts /\ MessageOf(d) = m /\ at[d] = "none"
    BY <1>3, NextAttempt DEF Progress
  <2>2. /\ at' = [at EXCEPT ![d] = IF Callback THEN "check" ELSE "mark"]
        /\ UNCHANGED <<transport, kind, handled, marked, excused>>
        /\ sends' = [sends EXCEPT ![m] = @ + 1]
    BY <1>3 DEF Send, Goto
  <2> HIDE DEF d
  <2> QED BY <2>1, <2>2 DEF TypeOK, Kept, InHand, Matters, Ignored, Connection, MessageOf
<1>4. ASSUME NEW d \in Attempts, Lose(d) PROVE Kept'
  <2>1. /\ at' = [at EXCEPT ![d] = "end"] /\ excused' = excused \union {MessageOf(d)}
        /\ UNCHANGED <<transport, kind, sends, handled, marked>>
    BY <1>4 DEF Lose, Goto, Excuse
  <2> QED BY <2>1 DEF TypeOK, Kept, InHand, Matters, Ignored, Connection, MessageOf
<1>5. ASSUME NEW d \in Attempts, Mark(d) PROVE Kept'
  <2>1. at[d] = "mark" /\ UNCHANGED <<transport, kind, sends, handled, excused>>
    BY <1>5 DEF Mark, TakenForNew
  <2>2. CASE /\ at' = [at EXCEPT ![d] = "end"] /\ marked' = marked /\ MessageOf(d) \in marked
    BY <2>1, <2>2 DEF TypeOK, Kept, InHand, Matters, Ignored, Connection, MessageOf
  <2>3. CASE /\ at' = [at EXCEPT ![d] = "check"] /\ marked' \subseteq marked \union {MessageOf(d)}
    BY <2>1, <2>3 DEF TypeOK, Kept, InHand, Matters, Ignored, Connection, MessageOf
  <2>4. \/ at' = [at EXCEPT ![d] = "end"] /\ marked' = marked /\ MessageOf(d) \in marked
        \/ at' = [at EXCEPT ![d] = "check"] /\ marked' \subseteq marked \union {MessageOf(d)}
    BY <1>5 DEF Mark, Seen, TakenForNew, Goto
  <2> QED BY <2>2, <2>3, <2>4
<1>6. ASSUME NEW d \in Attempts, Check(d) PROVE Kept'
  <2>1. PICK x \in Points :
          /\ at' = [at EXCEPT ![d] = x]
          /\ x \in Busy \/ Ignored(MessageOf(d))
    BY <1>6, CheckGoes DEF Goto, NeedsToken
  <2>2. ~Matters(MessageOf(d))' \/ x \in Busy
    BY <1>6, <2>1, CheckGoes DEF Matters, Ignored, Connection, MessageOf
  <2> QED BY <1>6, <2>1, <2>2, CheckGoes, KeptByOne DEF TypeOK
<1>7. ASSUME NEW d \in Attempts, Fetch(d) PROVE Kept'
  <2>1. PICK x \in Points :
          at' = [at EXCEPT ![d] = x] /\ (x \in Busy \/ MessageOf(d) \in excused')
    BY <1>7 DEF Fetch, Goto, Excuse
  <2>2. ~Matters(MessageOf(d))' \/ x \in Busy
    BY <2>1 DEF Matters, MessageOf
  <2> QED BY <1>7, <2>1, <2>2, KeptByOne DEF TypeOK, Fetch, Excuse
<1>8. ASSUME NEW d \in Attempts, Name(d) \/ Lookup(d) PROVE Kept'
  <2>1. PICK x \in Busy : at' = [at EXCEPT ![d] = x]
    BY <1>8 DEF Name, Lookup, Goto, NeedsToken
  <2> QED BY <1>8, <2>1, KeptByOne DEF TypeOK, Name, Lookup
<1>9. ASSUME NEW d \in Attempts, Handle(d) PROVE Kept'
  <2>1. at[d] = "handle" /\ at' = [at EXCEPT ![d] = "reply"] /\ MessageOf(d) \in Messages
    BY <1>9, AttemptParts DEF Handle, Goto
  <2>2. \A m \in Messages : handled[m] > 0 => handled'[m] > 0
    BY <1>9, <2>1 DEF Handle, TypeOK
  <2> QED BY <1>9, <2>1, <2>2, KeptByOne DEF TypeOK, Handle
<1>10. ASSUME NEW d \in Attempts, Reply(d) \/ SendReply(d) PROVE Kept'
  <2>1. PICK x \in Points : at' = [at EXCEPT ![d] = x]
    BY <1>10 DEF Reply, SendReply, Goto, NeedsToken
  <2>2. handled'[MessageOf(d)] > 0
    BY <1>10 DEF Reply, SendReply, Progress, MessageOf
  <2> QED BY <1>10, <2>1, <2>2, KeptByOne DEF TypeOK, Reply, SendReply
<1>11. ASSUME NEW d \in Attempts, Lock(d) PROVE Kept'
  BY <1>11, KeptByOne DEF TypeOK, Lock, Goto
<1>12. ASSUME NEW d \in Attempts, GetToken(d) PROVE Kept'
  <2>1. at[d] = "gettoken" /\ after[d] \in {"fetch", "lookup", "send"}
    BY <1>12 DEF GetToken, Progress, TypeOK
  <2>2. PICK x \in Points :
          /\ at' = [at EXCEPT ![d] = x]
          /\ x \in Busy \/ after[d] = "send" \/ MessageOf(d) \in excused'
    BY <1>12, <2>1 DEF GetToken, Goto, Without, Excuse
  <2>3. x \in Busy \/ handled'[MessageOf(d)] > 0 \/ ~Matters(MessageOf(d))'
    BY <1>12, <2>1, <2>2 DEF GetToken, Progress, Matters, MessageOf
  <2> QED BY <1>12, <2>1, <2>2, <2>3, KeptByOne DEF TypeOK, GetToken, Excuse
<1> QED
  BY <1>1, <1>2, <1>3, <1>4, <1>5, <1>6, <1>7, <1>8, <1>9, <1>10, <1>11, <1>12 DEF Next, Step

-----------------------------------------------------------------------------

(* The conjuncts of IInv hold from the start and every step keeps them.    *)
THEOREM Inductive == Spec => []IInv
<1>1. Init => IInv
  BY AttemptParts DEF Init, IInv, TypeOK, Points, Busy, Progress, Kept, InHand, Matters, Once,
     Single, Sure, Ahead
<1>2. IInv /\ [Next]_vars => IInv'
  BY TypeStep, ProgressStep, OnceStep, KeptStep DEF IInv
<1>3. QED
  BY <1>1, <1>2, PTL DEF Spec

(* Where messages are marked the handler gets each of them once, whatever  *)
(* the number of attempts (IsDuplicate).                                   *)
THEOREM HandledAtMostOnce == Spec => []HandledOnce
<1>1. IInv => HandledOnce
  BY DEF IInv, Once, Single, HandledOnce
<1>2. QED
  BY <1>1, Inductive, PTL

(* No message is lost, neither as a duplicate nor on the way through the   *)
(* mutex of the access token.                                              *)
THEOREM NothingLost == Spec => []NotLost
<1>1. IInv => NotLost
  BY DEF IInv, TypeOK, Kept, InHand, Matters, NotLost, UnderWay, Busy
<1>2. QED
  BY <1>1, Inductive, PTL
=============================================================================
