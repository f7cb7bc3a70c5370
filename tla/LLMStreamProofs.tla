-------------------------- MODULE LLMStreamProofs --------------------------
(***************************************************************************)
(* Theorems about a streamed answer of a model, for both providers, any    *)
(* number of pieces, calls and fragments and a channel of any capacity.    *)
(***************************************************************************)
EXTENDS LLMStream, SequenceTheorems, TLAPS

(* What StreamChat sends.                                                  *)
Reasons == {"", "stop", "tool_calls", "end_turn", "max_tokens", "tool_use"}
Results == [text : Nat, think : BOOLEAN, calls : Seq(Nat), finish : Reasons,
            usage : BOOLEAN, done : BOOLEAN, error : BOOLEAN]

StreamTyped ==
  /\ text \in Nat /\ lost \in Nat /\ spoken \in Seq(Nat) /\ current \in Seq(Nat)
  /\ chan \in Seq(Results) /\ answer \in Nat
  /\ reader \in {"read", "record", "done", "gone"} /\ cut \in {"no", "left", "error", "crash"}

(* currentToolCalls is what the server has said, unless some of it was     *)
(* skipped, which the OpenAI client never does.                            *)
Collected ==
  /\ ~garbled => current = spoken
  /\ Len(current) <= Len(spoken)
  /\ provider = "openai" => ~garbled
  /\ phase = "calls" => spoken # <<>>
  /\ phase \in {"begin", "open"} => spoken = <<>>

(* The response was ended by a chunk that hands on the calls.              *)
Complete == phase \in {"mixed", "finished"}

(* The result that ends the stream is the last one sent, and it is sent;   *)
(* its calls are all that were collected, or none.                         *)
EndIsLast ==
  /\ \A i \in 1..Len(chan) : chan[i].done \/ chan[i].error =>
       /\ i = Len(chan) /\ producer # "running"
       /\ chan[i].done => chan[i].calls = <<>> \/ (Complete /\ chan[i].calls = current)
  /\ reader = "read" /\ producer # "running" =>
       chan # <<>> /\ (chan[Len(chan)].done \/ chan[Len(chan)].error)
  /\ Complete => producer # "running"
  /\ Complete /\ reader = "read" =>
       chan # <<>> /\ ~chan[Len(chan)].error /\ chan[Len(chan)].calls = current

(* Nothing is taken for the end before it is, and nothing comes after it.  *)
StopsAtEnd ==
  /\ reader = "read" => cut = "no"
  /\ reader = "read" \/ cut # "no" => tools = <<>>
  /\ reader # "read" /\ cut = "no" =>
       /\ tools = <<>> \/ (Complete /\ tools = current)
       /\ Complete => tools = current

(* The answer, the text that is still in the channel and what was skipped  *)
(* are the server's: f counts what will have been read with each result.   *)
Counts(f) ==
  /\ f[0] = answer /\ f[Len(chan)] + lost = text
  /\ \A i \in 1..Len(chan) : f[i] = f[i - 1] + chan[i].text

NoTextLost == reader = "read" => \E f \in [0..Len(chan) -> Nat] : Counts(f)

StreamInv == StreamTyped /\ Collected /\ EndIsLast /\ StopsAtEnd /\ NoTextLost
             /\ NothingUnread /\ AnswerIsText

-----------------------------------------------------------------------------
(* The inductive invariant holds                                           *)

LEMMA StreamInit == Init => StreamInv
<1>1. SUFFICES ASSUME Init PROVE StreamInv
  OBVIOUS
<1>2. StreamTyped
  <2>1. <<>> \in Seq(Nat) /\ <<>> \in Seq(Results)
    OBVIOUS
  <2>2. QED
    BY <1>1, <2>1 DEF Init, StreamTyped
<1>3. Collected /\ EndIsLast /\ StopsAtEnd /\ NothingUnread /\ AnswerIsText
  <2>1. /\ phase \in {"begin", "open"} /\ chan = <<>> /\ Len(chan) = 0 /\ producer = "running"
        /\ current = <<>> /\ spoken = <<>> /\ reader = "read" /\ tools = <<>> /\ cut = "no"
        /\ garbled = FALSE /\ Len(current) = Len(spoken) /\ Len(spoken) = 0
    BY <1>1 DEF Init
  <2>2. QED
    BY <2>1 DEF Collected, Complete, EndIsLast, StopsAtEnd, NothingUnread, AnswerIsText
<1>4. NoTextLost
  <2> DEFINE f == [i \in 0..0 |-> 0]
  <2>1. Len(chan) = 0 /\ answer = 0 /\ text = 0 /\ lost = 0
    BY <1>1 DEF Init
  <2>2. f \in [0..0 -> Nat] /\ f[0] = 0
    OBVIOUS
  <2> HIDE DEF f
  <2>3. f \in [0..Len(chan) -> Nat] /\ Counts(f)
    BY <2>1, <2>2 DEF Counts
  <2>4. QED
    BY <2>3 DEF NoTextLost
<1>5. QED
  BY <1>2, <1>3, <1>4 DEF StreamInv

LEMMA Appended ==
  ASSUME NEW c \in Seq(Results), NEW r \in Results
  PROVE  /\ Append(c, r) \in Seq(Results) /\ Len(Append(c, r)) = Len(c) + 1
         /\ Append(c, r)[Len(c) + 1] = r /\ Append(c, r) # <<>>
         /\ \A i \in 1..Len(c) : Append(c, r)[i] = c[i]
OBVIOUS

(* What f says of the last result.                                         *)
LEMMA CountedUp ==
  ASSUME StreamTyped, NEW f \in [0..Len(chan) -> Nat], Counts(f)
  PROVE  Len(chan) \in Nat /\ f[Len(chan)] \in Nat /\ f[Len(chan)] = text - lost
<1>1. Len(chan) \in Nat /\ text \in Nat /\ lost \in Nat
  BY DEF StreamTyped
<1>2. f[Len(chan)] \in Nat /\ f[Len(chan)] + lost = text
  BY <1>1 DEF Counts
<1>3. QED
  BY <1>1, <1>2

(* A result is sent. *)
LEMMA Emitted ==
  ASSUME StreamInv, NEW res \in Results, Emit(res),
         text' = text + res.text, lost' = lost,
         spoken' \in Seq(Nat), current' \in Seq(Nat), Collected',
         \/ ~res.done /\ ~res.error /\ producer' = producer /\ ~Complete'
         \/ (res.done \/ res.error) /\ producer' = "closing",
         res.done => res.calls = <<>> \/ (Complete' /\ res.calls = current'),
         Complete' => ~res.error /\ res.calls = current',
         UNCHANGED <<reader, result, cut>>
  PROVE  StreamInv'
<1>1. /\ chan \in Seq(Results) /\ chan' = Append(chan, res) /\ producer = "running"
      /\ Len(chan) \in Nat /\ text \in Nat /\ lost \in Nat /\ res.text \in Nat
      /\ UNCHANGED <<answer, tools>>
  BY DEF StreamInv, StreamTyped, Emit, Results, result
<1>2. /\ chan' \in Seq(Results) /\ Len(chan') = Len(chan) + 1 /\ chan'[Len(chan) + 1] = res
      /\ \A i \in 1..Len(chan) : chan'[i] = chan[i]
      /\ chan' # <<>>
  BY <1>1, Appended
<1>3. StreamTyped'
  BY <1>1, <1>2 DEF StreamInv, StreamTyped
<1>4. \A i \in 1..Len(chan) : ~chan[i].done /\ ~chan[i].error
  BY <1>1 DEF StreamInv, EndIsLast
<1>5. EndIsLast'
  <2>1. ASSUME NEW i \in 1..(Len(chan) + 1), chan'[i].done \/ chan'[i].error
        PROVE  i = Len(chan) + 1 /\ chan'[i] = res
    BY <1>1, <1>2, <1>4, <2>1
  <2>2. Complete' => producer' # "running"
    OBVIOUS
  <2>3. QED
    BY <1>1, <1>2, <2>1, <2>2 DEF EndIsLast
<1>6. reader = "read" \/ cut = "left"
  BY <1>1 DEF StreamInv, NothingUnread
<1>7. StopsAtEnd' /\ NothingUnread' /\ AnswerIsText'
  BY <1>1, <1>6 DEF StreamInv, StopsAtEnd, NothingUnread, AnswerIsText
<1>8. NoTextLost'
  <2>1. SUFFICES ASSUME reader = "read" PROVE NoTextLost'
    BY DEF NoTextLost
  <2>2. PICK f \in [0..Len(chan) -> Nat] : Counts(f)
    BY <2>1 DEF StreamInv, NoTextLost
  <2>3. PICK n \in Nat : n = f[Len(chan)] + res.text /\ n = (text - lost) + res.text
    <3>1. f[Len(chan)] \in Nat /\ f[Len(chan)] = text - lost
      BY <2>2, CountedUp DEF StreamInv
    <3>2. PICK m \in Nat : m = f[Len(chan)]
      BY <3>1
    <3>3. m + res.text \in Nat /\ m = text - lost
      BY <1>1, <3>1, <3>2
    <3>4. QED
      BY <3>2, <3>3
  <2> DEFINE g == [i \in 0..(Len(chan) + 1) |-> IF i = Len(chan) + 1 THEN n ELSE f[i]]
  <2>4. g \in [0..(Len(chan) + 1) -> Nat]
    BY <1>1
  <2>5. g[0] = answer /\ g[Len(chan) + 1] + lost = text'
    <3>1. f[0] = answer /\ n + lost = text + res.text
      BY <1>1, <2>2, <2>3 DEF Counts
    <3>2. g[0] = f[0] /\ g[Len(chan) + 1] = n
      BY <1>1
    <3>3. QED
      BY <3>1, <3>2
  <2>6. ASSUME NEW i \in 1..(Len(chan) + 1) PROVE g[i] = g[i - 1] + chan'[i].text
    <3>1. CASE i = Len(chan) + 1
      BY <1>1, <1>2, <2>3, <3>1
    <3>2. CASE i \in 1..Len(chan)
      <4>1. f[i] = f[i - 1] + chan[i].text /\ chan'[i] = chan[i]
        BY <1>2, <2>2, <3>2 DEF Counts
      <4>2. g[i] = f[i] /\ g[i - 1] = f[i - 1]
        BY <1>1, <3>2
      <4>3. QED
        BY <4>1, <4>2
    <3>3. QED
      BY <1>1, <3>1, <3>2
  <2> HIDE DEF g
  <2>7. \E h \in [0..Len(chan') -> Nat] :
          /\ h[0] = answer' /\ h[Len(chan')] + lost' = text'
          /\ \A i \in 1..Len(chan') : h[i] = h[i - 1] + chan'[i].text
    <3>1. /\ g \in [0..Len(chan') -> Nat] /\ g[0] = answer' /\ g[Len(chan')] + lost' = text'
          /\ \A i \in 1..Len(chan') : g[i] = g[i - 1] + chan'[i].text
      BY <1>1, <1>2, <2>4, <2>5, <2>6
    <3>2. QED
      BY <3>1
  <2>8. QED
    BY <2>7 DEF NoTextLost, Counts
<1>9. QED
  BY <1>3, <1>5, <1>7, <1>8 DEF StreamInv

(* The server says something that no result is sent of: what is skipped of *)
(* a text is lost.                                                         *)
LEMMA NothingSent ==
  ASSUME StreamInv, producer = "running", spoken' \in Seq(Nat), current' \in Seq(Nat), Collected',
         ~Complete', text' \in Nat, lost' \in Nat, text' - lost' = text - lost,
         UNCHANGED <<producer, chan, reader, result, cut>>
  PROVE  StreamInv'
<1>1. UNCHANGED <<answer, tools>>
  BY DEF result
<1>2. StreamTyped'
  BY <1>1 DEF StreamInv, StreamTyped
<1>3. \A i \in 1..Len(chan) : ~chan[i].done /\ ~chan[i].error
  BY DEF StreamInv, EndIsLast
<1>4. EndIsLast'
  BY <1>1, <1>3 DEF EndIsLast
<1>5. reader = "read" \/ cut = "left"
  BY DEF StreamInv, NothingUnread
<1>6. StopsAtEnd' /\ NothingUnread' /\ AnswerIsText'
  BY <1>1, <1>5 DEF StreamInv, StopsAtEnd, NothingUnread, AnswerIsText
<1>7. NoTextLost'
  <2>1. SUFFICES ASSUME reader = "read" PROVE NoTextLost'
    BY DEF NoTextLost
  <2>2. PICK f \in [0..Len(chan) -> Nat] : Counts(f)
    BY <2>1 DEF StreamInv, NoTextLost
  <2>3. f[Len(chan)] \in Nat /\ f[Len(chan)] = text - lost /\ text \in Nat /\ lost \in Nat
    BY <2>2, CountedUp DEF StreamInv, StreamTyped
  <2>4. f[Len(chan)] + lost' = text'
    <3>1. PICK m \in Nat : m = f[Len(chan)] /\ m = text - lost
      BY <2>3
    <3>2. PICK c \in Nat, d \in Nat : c = text' /\ d = lost' /\ c - d = text - lost
      OBVIOUS
    <3>3. m + d = c
      BY <3>1, <3>2
    <3>4. QED
      BY <3>1, <3>2, <3>3
  <2>5. QED
    BY <1>1, <2>2, <2>4 DEF NoTextLost, Counts
<1>8. QED
  BY <1>2, <1>4, <1>6, <1>7 DEF StreamInv

(* A result of the OpenAI client.                                          *)
LEMMA ChunkSent ==
  ASSUME StreamInv, NEW res \in Results, NEW grown \in BOOLEAN, Chunk(res, grown),
         ~res.done, ~res.error, text' = text + res.text, lost' = lost,
         spoken' \in Seq(Nat), res.calls = current', Collected',
         Complete' <=> Over(res, grown),
         UNCHANGED <<reader, result, cut>>
  PROVE  StreamInv'
<1>1. current' \in Seq(Nat)
  BY DEF Results
<1>2. PICK b \in BOOLEAN : b = Over(res, grown)
  BY DEF Over
<1> DEFINE r == [res EXCEPT !.done = b]
<1>3. /\ r \in Results /\ r.done = b /\ r.text = res.text /\ r.calls = res.calls
      /\ r.error = res.error
  BY DEF Results
<1>4. CASE b
  <2>1. Emit(r) /\ producer' = "closing"
    BY <1>2, <1>4 DEF Chunk, EmitLast
  <2> HIDE DEF r
  <2>2. QED
    BY <1>1, <1>2, <1>3, <1>4, <2>1, Emitted
<1>5. CASE ~b
  <2>1. Emit(res) /\ producer' = producer
    BY <1>2, <1>5 DEF Chunk
  <2>2. QED
    BY <1>1, <1>2, <1>5, <2>1, Emitted
<1>6. QED
  BY <1>4, <1>5

LEMMA NothingTyped ==
  /\ Nothing \in Results /\ ~Nothing.done /\ ~Nothing.error /\ Nothing.text = 0
  /\ Nothing.calls = <<>>
<1>1. <<>> \in Seq(Nat)
  OBVIOUS
<1>2. Nothing \in Results
  BY <1>1 DEF Nothing, Results, Reasons
<1>3. ~Nothing.done /\ ~Nothing.error /\ Nothing.text = 0 /\ Nothing.calls = <<>>
  BY DEF Nothing
<1>4. QED
  BY <1>2, <1>3

(* What the OpenAI client has collected is what the server has said.       *)
LEMMA AllCollected ==
  ASSUME StreamInv, provider = "openai"
  PROVE  /\ spoken \in Seq(Nat) /\ current = spoken /\ text \in Nat /\ ~garbled
         /\ phase = "calls" => spoken # <<>>
         /\ phase = "open" => spoken = <<>>
  BY DEF StreamInv, StreamTyped, Collected

(* What the server sends, by the OpenAI client.                            *)
LEMMA TextInv ==
  ASSUME StreamInv, provider = "openai", OpenAIText, UNCHANGED <<provider, reader, result, cut, filed>>
  PROVE  StreamInv'
<1>1. /\ spoken \in Seq(Nat) /\ current = spoken /\ text \in Nat /\ ~garbled
      /\ phase = "calls" => spoken # <<>>
      /\ phase = "open" => spoken = <<>>
  BY AllCollected
<1>2. /\ spoken' = spoken /\ phase' = (IF phase = "calls" THEN "mixed" ELSE phase)
      /\ phase \in {"open", "calls"} /\ UNCHANGED <<lost, garbled>>
  BY DEF OpenAIText, missed
<1>3. ASSUME NEW res \in Results, Chunk(res, FALSE), res.calls = current, text' = text + res.text,
             ~res.done, ~res.error, res.finish = ""
      PROVE  StreamInv'
  <2>1. current' = spoken' /\ res.calls = current' /\ Len(current') = Len(spoken')
    BY <1>1, <1>2, <1>3 DEF Chunk
  <2>2. Collected'
    BY <1>1, <1>2, <2>1 DEF Collected
  <2>3. Complete' <=> phase = "calls"
    BY <1>2 DEF Complete
  <2>4. CASE phase = "calls"
    <3>1. Over(res, FALSE)
      BY <1>1, <1>3, <2>4 DEF Over
    <3>2. QED
      BY <1>1, <1>2, <1>3, <2>1, <2>2, <2>3, <2>4, <3>1, ChunkSent
  <2>5. CASE phase = "open"
    <3>1. ~Over(res, FALSE)
      BY <1>1, <1>3, <2>5 DEF Over
    <3>2. QED
      BY <1>1, <1>2, <1>3, <2>1, <2>2, <2>3, <2>5, <3>1, ChunkSent
  <2>6. QED
    BY <1>2, <2>4, <2>5
<1>4. CASE text' = text + 1 /\ Chunk([Nothing EXCEPT !.text = 1, !.calls = current], FALSE)
  <2> DEFINE res == [Nothing EXCEPT !.text = 1, !.calls = current]
  <2>1. /\ res \in Results /\ res.text = 1 /\ res.calls = current /\ ~res.done /\ ~res.error
        /\ res.finish = ""
    BY <1>1, NothingTyped DEF Results, Nothing
  <2> HIDE DEF res
  <2>2. PICK r \in Results : r = res
    BY <2>1
  <2>3. Chunk(r, FALSE)
    BY <1>4, <2>2 DEF res
  <2>4. QED
    BY <1>3, <1>4, <2>1, <2>2, <2>3
<1>5. CASE text' = text /\ Chunk([Nothing EXCEPT !.think = TRUE, !.calls = current], FALSE)
  <2> DEFINE res == [Nothing EXCEPT !.think = TRUE, !.calls = current]
  <2>1. /\ res \in Results /\ res.text = 0 /\ res.calls = current /\ ~res.done /\ ~res.error
        /\ res.finish = ""
    BY <1>1, NothingTyped DEF Results, Nothing
  <2> HIDE DEF res
  <2>2. PICK r \in Results : r = res
    BY <2>1
  <2>3. Chunk(r, FALSE) /\ text' = text + r.text
    <3>1. Chunk(r, FALSE)
      BY <1>5, <2>2 DEF res
    <3>2. text' = text /\ text \in Nat /\ r.text = 0
      BY <1>1, <1>5, <2>1, <2>2
    <3>3. text' = text + r.text
      BY <3>2
    <3>4. QED
      BY <3>1, <3>3
  <2>4. QED
    BY <1>3, <2>1, <2>2, <2>3
<1>6. CASE text' = text /\ Chunk([Nothing EXCEPT !.calls = current], FALSE)
  <2> DEFINE res == [Nothing EXCEPT !.calls = current]
  <2>1. /\ res \in Results /\ res.text = 0 /\ res.calls = current /\ ~res.done /\ ~res.error
        /\ res.finish = ""
    BY <1>1, NothingTyped DEF Results, Nothing
  <2> HIDE DEF res
  <2>2. PICK r \in Results : r = res
    BY <2>1
  <2>3. Chunk(r, FALSE) /\ text' = text + r.text
    <3>1. Chunk(r, FALSE)
      BY <1>6, <2>2 DEF res
    <3>2. text' = text /\ text \in Nat /\ r.text = 0
      BY <1>1, <1>6, <2>1, <2>2
    <3>3. text' = text + r.text
      BY <3>2
    <3>4. QED
      BY <3>1, <3>3
  <2>4. QED
    BY <1>3, <2>1, <2>2, <2>3
<1>7. QED
  BY <1>4, <1>5, <1>6 DEF OpenAIText

(* A fragment goes where the server means it to go.                        *)
LEMMA FragmentAdded ==
  ASSUME NEW s \in Seq(Nat), NEW index \in Nat, index < Len(s) \/ index = Len(s)
  PROVE  LET more == IF index = Len(s) THEN Append(s, 1)
                     ELSE [s EXCEPT ![index + 1] = @ + 1]
         IN  Added(s, index) = more /\ more \in Seq(Nat) /\ more # <<>>
<1>1. Len(s) \in Nat
  OBVIOUS
<1>2. CASE index = Len(s)
  <2>1. Added(s, index) = [Append(s, 0) EXCEPT ![Len(s) + 1] = @ + 1]
    BY <1>1, <1>2 DEF Added
  <2>2. [Append(s, 0) EXCEPT ![Len(s) + 1] = @ + 1] = Append(s, 1)
    <3>1. /\ Append(s, 0) \in Seq(Nat) /\ Append(s, 1) \in Seq(Nat)
          /\ Len(Append(s, 0)) = Len(s) + 1 /\ Len(Append(s, 1)) = Len(s) + 1
          /\ Append(s, 0)[Len(s) + 1] = 0 /\ Append(s, 1)[Len(s) + 1] = 1
          /\ \A i \in 1..Len(s) : Append(s, 0)[i] = s[i] /\ Append(s, 1)[i] = s[i]
      OBVIOUS
    <3>2. PICK t \in Seq(Nat) : t = Append(s, 0)
      BY <3>1
    <3>3. PICK k \in Nat : k = Len(s) + 1
      BY <1>1
    <3>4. k \in 1..Len(t) /\ Len(t) = k /\ t[k] + 1 = 1
      BY <1>1, <3>1, <3>2, <3>3
    <3> DEFINE u == [t EXCEPT ![k] = 1]
    <3>5. u \in Seq(Nat) /\ Len(u) = k /\ \A i \in 1..Len(t) : u[i] = IF i = k THEN 1 ELSE t[i]
      BY <3>4, ExceptSeq
    <3>6. u = [Append(s, 0) EXCEPT ![Len(s) + 1] = @ + 1]
      BY <3>2, <3>3, <3>4
    <3> HIDE DEF u
    <3>7. \A i \in 1..k : u[i] = Append(s, 1)[i]
      BY <1>1, <3>1, <3>2, <3>3, <3>4, <3>5
    <3>8. u = Append(s, 1)
      BY <3>1, <3>3, <3>5, <3>7, SeqEqual
    <3>9. QED
      BY <3>6, <3>8
  <2>3. QED
    BY <1>2, <2>1, <2>2
<1>3. CASE index < Len(s)
  <2>1. index + 1 \in 1..Len(s) /\ index < Len(s) /\ index # Len(s)
    BY <1>1, <1>3
  <2>2. Added(s, index) = [s EXCEPT ![index + 1] = @ + 1]
    BY <1>1, <2>1 DEF Added
  <2>3. [s EXCEPT ![index + 1] = @ + 1] \in Seq(Nat) /\ Len([s EXCEPT ![index + 1] = @ + 1]) = Len(s)
    <3>1. s[index + 1] + 1 \in Nat
      BY <2>1
    <3>2. QED
      BY <2>1, <3>1
  <2>4. [s EXCEPT ![index + 1] = @ + 1] # <<>>
    <3>1. Len(s) # 0
      BY <1>1, <2>1
    <3>2. QED
      BY <2>3, <3>1
  <2>5. QED
    BY <2>1, <2>2, <2>3, <2>4
<1>4. QED
  BY <1>2, <1>3

LEMMA FragmentInv ==
  ASSUME StreamInv, provider = "openai", OpenAIFragment, UNCHANGED <<provider, reader, result, cut, filed>>
  PROVE  StreamInv'
<1>1. spoken \in Seq(Nat) /\ current = spoken /\ text \in Nat /\ ~garbled
  BY AllCollected
<1>2. PICK index \in 0..(MaxCalls - 1) :
        /\ index < Len(spoken) \/ index = Len(spoken)
        /\ spoken' = IF index = Len(spoken) THEN Append(spoken, 1)
                     ELSE [spoken EXCEPT ![index + 1] = @ + 1]
        /\ Chunk([Nothing EXCEPT !.calls = Added(current, index)], TRUE)
  BY DEF OpenAIFragment
<1>3. phase' = "calls" /\ text' = text /\ UNCHANGED <<lost, garbled>>
  BY DEF OpenAIFragment, missed
<1>4. Added(current, index) = spoken' /\ spoken' \in Seq(Nat) /\ spoken' # <<>>
  <2>1. PICK s \in Seq(Nat) : s = spoken
    BY <1>1
  <2>2. index \in Nat
    BY StreamAssumption
  <2>3. QED
    BY <1>1, <1>2, <2>1, <2>2, FragmentAdded
<1>5. PICK c \in Seq(Nat) : c = Added(current, index)
  BY <1>4
<1> DEFINE res == [Nothing EXCEPT !.calls = c]
<1>6. /\ res \in Results /\ res.text = 0 /\ res.calls = c /\ ~res.done /\ ~res.error
      /\ res.finish = ""
  BY NothingTyped DEF Results, Nothing
<1>7. Chunk(res, TRUE)
  BY <1>2, <1>5
<1> HIDE DEF res
<1>8. PICK r \in Results : r = res
  BY <1>6
<1>9. /\ text' = text + r.text /\ Chunk(r, TRUE) /\ r.calls = spoken' /\ current' = spoken'
      /\ ~Over(r, TRUE) /\ ~Complete'
  <2>1. text' = text + r.text /\ r.calls = spoken' /\ Chunk(r, TRUE)
    <3>1. Chunk(r, TRUE)
      BY <1>7, <1>8
    <3>2. text' = text /\ text \in Nat /\ r.text = 0 /\ r.calls = spoken'
      BY <1>1, <1>3, <1>4, <1>5, <1>6, <1>8
    <3>3. text' = text + r.text
      BY <3>2
    <3>4. QED
      BY <3>1, <3>2, <3>3
  <2>2. current' = r.calls
    BY <2>1 DEF Chunk
  <2>3. ~Over(r, TRUE) /\ ~Complete'
    BY <1>3, <1>6, <1>8 DEF Over, Complete
  <2>4. QED
    BY <2>1, <2>2, <2>3
<1>10. Collected'
  BY <1>1, <1>3, <1>4, <1>9 DEF Collected
<1>11. QED
  BY <1>3, <1>4, <1>6, <1>8, <1>9, <1>10, ChunkSent

LEMMA FinishInv ==
  ASSUME StreamInv, provider = "openai", OpenAIFinish, UNCHANGED <<provider, reader, result, cut, filed>>
  PROVE  StreamInv'
<1>1. /\ spoken \in Seq(Nat) /\ current = spoken /\ text \in Nat /\ ~garbled
      /\ phase = "calls" => spoken # <<>>
  BY AllCollected
<1>2. phase' = "finished" /\ UNCHANGED <<spoken, text, lost, garbled>>
  BY DEF OpenAIFinish, missed
<1>3. PICK known \in BOOLEAN, used \in BOOLEAN :
        /\ known \/ phase = "calls"
        /\ Chunk([Nothing EXCEPT !.calls = current, !.usage = used,
                                 !.finish = IF known THEN FinishReason ELSE ""], FALSE)
  BY DEF OpenAIFinish
<1>4. PICK e \in Reasons : e = IF known THEN FinishReason ELSE ""
  BY DEF Reasons, FinishReason
<1>5. known => e # ""
  BY <1>4 DEF FinishReason
<1> DEFINE res == [Nothing EXCEPT !.calls = current, !.usage = used, !.finish = e]
<1>6. res \in Results /\ res.text = 0 /\ res.calls = spoken /\ ~res.done /\ ~res.error /\ res.finish = e
  BY <1>1, NothingTyped DEF Results
<1>7. Chunk(res, FALSE)
  BY <1>3, <1>4
<1> HIDE DEF res
<1>8. PICK r \in Results : r = res
  BY <1>6
<1>9. /\ text' = text + r.text /\ Chunk(r, FALSE) /\ r.calls = current' /\ current' = spoken'
      /\ Over(r, FALSE) /\ Complete'
  <2>1. text' = text + r.text /\ r.calls = spoken' /\ Chunk(r, FALSE)
    <3>1. Chunk(r, FALSE)
      BY <1>7, <1>8
    <3>2. text' = text /\ text \in Nat /\ r.text = 0 /\ r.calls = spoken'
      BY <1>1, <1>2, <1>6, <1>8
    <3>3. text' = text + r.text
      BY <3>2
    <3>4. QED
      BY <3>1, <3>2, <3>3
  <2>2. current' = r.calls
    BY <2>1 DEF Chunk
  <2>3. Over(r, FALSE) /\ Complete'
    BY <1>1, <1>2, <1>3, <1>5, <1>6, <1>8 DEF Over, Complete
  <2>4. QED
    BY <2>1, <2>2, <2>3
<1>10. Collected'
  BY <1>1, <1>2, <1>9 DEF Collected
<1>11. QED
  BY <1>1, <1>2, <1>6, <1>8, <1>9, <1>10, ChunkSent

(* The client panics. *)
LEMMA PanicInv == ASSUME StreamInv, Panic PROVE StreamInv'
<1>1. /\ UNCHANGED <<provider, phase, text, lost, garbled, spoken, current, answer, tools>>
      /\ producer = "running" /\ producer' = "off" /\ chan' = <<>> /\ reader' = "gone" /\ cut' = "crash"
  BY DEF Panic, server, heard, missed, result
<1>2. StreamTyped' /\ Collected'
  <2>1. <<>> \in Seq(Results)
    OBVIOUS
  <2>2. QED
    BY <1>1, <2>1 DEF StreamInv, StreamTyped, Collected
<1>3. tools = <<>>
  BY <1>1 DEF StreamInv, NothingUnread, StopsAtEnd
<1>4. EndIsLast' /\ StopsAtEnd' /\ NothingUnread' /\ AnswerIsText' /\ NoTextLost'
  BY <1>1, <1>3 DEF EndIsLast, StopsAtEnd, NothingUnread, AnswerIsText, NoTextLost
<1>5. QED
  BY <1>2, <1>4 DEF StreamInv

(* By the Anthropic client.                                                *)
LEMMA DeltaInv ==
  ASSUME StreamInv, ContentDelta, UNCHANGED <<provider, reader, result, cut, filed>> PROVE StreamInv'
<1>1. spoken \in Seq(Nat) /\ current \in Seq(Nat) /\ text \in Nat /\ lost \in Nat
  BY DEF StreamInv, StreamTyped
<1>2. UNCHANGED <<phase, spoken, producer, current, garbled>> /\ ~Complete'
  BY DEF ContentDelta, Complete, Skips
<1>3. Collected'
  BY <1>2 DEF StreamInv, Collected
<1>4. CASE text' = text + 1 /\ lost' = lost /\ Emit([Nothing EXCEPT !.text = 1, !.calls = current])
  <2> DEFINE res == [Nothing EXCEPT !.text = 1, !.calls = current]
  <2>1. res \in Results /\ res.text = 1 /\ ~res.done /\ ~res.error
    BY <1>1, NothingTyped DEF Results
  <2> HIDE DEF res
  <2>2. PICK r \in Results : r = res
    BY <2>1
  <2>3. Emit(r) /\ text' = text + r.text
    BY <1>4, <2>1, <2>2 DEF res
  <2>4. QED
    BY <1>1, <1>2, <1>3, <1>4, <2>1, <2>2, <2>3, Emitted
<1>5. CASE text' = text /\ lost' = lost /\ Emit([Nothing EXCEPT !.think = TRUE])
  <2> DEFINE res == [Nothing EXCEPT !.think = TRUE]
  <2>1. res \in Results /\ res.text = 0 /\ ~res.done /\ ~res.error
    BY <1>1, NothingTyped DEF Results
  <2> HIDE DEF res
  <2>2. PICK r \in Results : r = res
    BY <2>1
  <2>3. Emit(r) /\ text' = text + r.text
    BY <1>1, <1>5, <2>1, <2>2 DEF res
  <2>4. QED
    BY <1>1, <1>2, <1>3, <1>5, <2>1, <2>2, <2>3, Emitted
<1>6. CASE Skips /\ \/ text' = text + 1 /\ lost' = lost + 1
                    \/ text' = text /\ lost' = lost
  <2>1. /\ producer = "running" /\ UNCHANGED chan
        /\ text' \in Nat /\ lost' \in Nat /\ text' - lost' = text - lost
    <3>1. producer = "running" /\ UNCHANGED chan
      BY <1>6 DEF Skips
    <3>2. CASE text' = text + 1 /\ lost' = lost + 1
      BY <1>1, <3>1, <3>2
    <3>3. CASE text' = text /\ lost' = lost
      BY <1>1, <3>1, <3>3
    <3>4. QED
      BY <1>6, <3>2, <3>3
  <2>2. QED
    BY <1>1, <1>2, <1>3, <2>1, NothingSent
<1>7. QED
  BY <1>4, <1>5, <1>6 DEF ContentDelta

LEMMA OneMore ==
  ASSUME NEW s \in Seq(Nat), s # <<>>
  PROVE  /\ [s EXCEPT ![Len(s)] = @ + 1] \in Seq(Nat)
         /\ Len([s EXCEPT ![Len(s)] = @ + 1]) = Len(s)
<1>1. PICK k \in Nat : k = Len(s) /\ k \in 1..Len(s)
  OBVIOUS
<1>2. PICK n \in Nat : n = s[k] + 1
  BY <1>1
<1>3. [s EXCEPT ![k] = n] \in Seq(Nat) /\ Len([s EXCEPT ![k] = n]) = Len(s)
  BY <1>1, ExceptSeq
<1>4. QED
  BY <1>1, <1>2, <1>3

LEMMA BlockInv ==
  ASSUME StreamInv, provider = "anthropic", ToolBlock,
         UNCHANGED <<provider, reader, result, cut, filed>>
  PROVE  StreamInv'
<1>1. /\ spoken \in Seq(Nat) /\ current \in Seq(Nat) /\ Len(current) <= Len(spoken)
      /\ text \in Nat /\ lost \in Nat
      /\ ~garbled => current = spoken
      /\ provider = "openai" => ~garbled
  BY DEF StreamInv, StreamTyped, Collected
<1>2. /\ phase' = "calls" /\ UNCHANGED <<text, producer, chan, lost>> /\ producer = "running"
      /\ ~Complete' /\ text' - lost' = text - lost /\ text' \in Nat /\ lost' \in Nat
  BY <1>1 DEF ToolBlock, Complete
<1>3. ASSUME spoken' \in Seq(Nat), current' \in Seq(Nat), Len(current') <= Len(spoken'), spoken' # <<>>,
             ~garbled' => current' = spoken', provider = "openai" => ~garbled'
      PROVE  StreamInv'
  <2>1. Collected'
    BY <1>2, <1>3 DEF Collected
  <2>2. QED
    BY <1>2, <1>3, <2>1, NothingSent
<1>4. CASE spoken' = Append(spoken, 0) /\ Opened /\ UNCHANGED garbled
  <2>1. /\ spoken' \in Seq(Nat) /\ current' \in Seq(Nat) /\ spoken' # <<>>
        /\ Len(current') <= Len(spoken')
    BY <1>1, <1>4 DEF Opened
  <2>2. ~garbled' => current' = spoken'
    BY <1>1, <1>4 DEF Opened
  <2>3. QED
    BY <1>1, <1>3, <1>4, <2>1, <2>2
<1>5. CASE spoken' = Append(spoken, 0) /\ Skips /\ garbled' = TRUE
  <2>1. /\ spoken' \in Seq(Nat) /\ current' \in Seq(Nat) /\ spoken' # <<>>
        /\ Len(current') <= Len(spoken')
    BY <1>1, <1>5 DEF Skips
  <2>2. garbled' /\ provider # "openai"
    BY <1>5
  <2>3. QED
    BY <1>3, <2>1, <2>2
<1>6. CASE spoken # <<>> /\ spoken' = [spoken EXCEPT ![Len(spoken)] = @ + 1]
  <2>1. PICK s \in Seq(Nat) : s = spoken
    BY <1>1
  <2>2. PICK t \in Seq(Nat) : t = spoken' /\ Len(t) = Len(s)
    BY <1>6, <2>1, OneMore
  <2>3. Len(s) # 0 /\ spoken' # <<>>
    BY <1>6, <2>1, <2>2
  <2>4. CASE Extended /\ UNCHANGED garbled
    <3>1. CASE current = <<>>
      BY <1>1, <1>3, <1>6, <2>1, <2>2, <2>3, <2>4, <3>1 DEF Extended
    <3>2. CASE current # <<>>
      <4>1. PICK c \in Seq(Nat) : c = current
        BY <1>1
      <4>2. PICK d \in Seq(Nat) : d = current' /\ Len(d) = Len(c)
        BY <2>4, <3>2, <4>1, OneMore DEF Extended
      <4>3. ~garbled' => current' = spoken'
        BY <1>1, <1>6, <2>4, <3>2 DEF Extended
      <4>4. QED
        BY <1>1, <1>3, <2>1, <2>2, <2>3, <2>4, <4>1, <4>2, <4>3
    <3>3. QED
      BY <3>1, <3>2
  <2>5. CASE Skips /\ garbled' = TRUE
    <3>1. PICK c \in Seq(Nat) : c = current /\ c = current' /\ Len(c) <= Len(s)
      BY <1>1, <2>1, <2>5 DEF Skips
    <3>2. garbled' /\ provider # "openai"
      BY <2>5
    <3>3. /\ spoken' \in Seq(Nat) /\ current' \in Seq(Nat) /\ spoken' # <<>>
          /\ Len(current') <= Len(spoken')
      BY <2>2, <2>3, <3>1
    <3>4. QED
      BY <1>3, <3>2, <3>3
  <2>6. QED
    BY <1>4, <1>5, <1>6, <2>4, <2>5, <1>1 DEF ToolBlock
<1>7. QED
  BY <1>4, <1>5, <1>6 DEF ToolBlock

LEMMA MessageInv ==
  ASSUME StreamInv, MessageStart \/ MessageDelta \/ MessageStop,
         UNCHANGED <<provider, reader, result, cut, filed>>
  PROVE  StreamInv'
<1>1. spoken \in Seq(Nat) /\ current \in Seq(Nat) /\ text \in Nat /\ lost \in Nat
  BY DEF StreamInv, StreamTyped
<1>2. UNCHANGED <<text, spoken, current, lost, garbled>>
  BY DEF MessageStart, MessageDelta, MessageStop, missed, Skips
<1>3. Collected'
  BY <1>2 DEF StreamInv, Collected, MessageStart, MessageDelta, MessageStop
<1>4. ASSUME Skips, producer' = producer, ~Complete' PROVE StreamInv'
  BY <1>1, <1>2, <1>3, <1>4, NothingSent DEF Skips
<1>5. CASE MessageStart
  <2>1. phase' = "open" /\ producer' = producer /\ ~Complete'
    BY <1>5 DEF MessageStart, Complete
  <2>2. text' = text + Nothing.text
    BY <1>1, <1>2, NothingTyped
  <2>3. CASE Emit(Nothing)
    BY <1>1, <1>2, <1>3, <2>1, <2>2, <2>3, NothingTyped, Emitted
  <2>4. QED
    BY <1>4, <1>5, <2>1, <2>3 DEF MessageStart
<1>6. CASE MessageDelta
  <2>1. phase' = "delta" /\ producer' = producer /\ ~Complete'
    BY <1>6 DEF MessageDelta, Complete
  <2>2. ASSUME NEW reason \in Reasons, Emit(DeltaResult(reason)) PROVE StreamInv'
    <3>1. PICK e \in Reasons : e = StopReason(reason)
      BY DEF StopReason, Reasons
    <3> DEFINE res == [Nothing EXCEPT !.calls = current, !.finish = e, !.usage = TRUE]
    <3>2. res \in Results /\ res.text = 0 /\ ~res.done /\ ~res.error
      BY <1>1, NothingTyped DEF Results
    <3>3. Emit(res)
      BY <2>2, <3>1 DEF DeltaResult
    <3> HIDE DEF res
    <3>4. PICK r \in Results : r = res
      BY <3>2
    <3>5. text' = text + r.text /\ ~r.done /\ ~r.error /\ Emit(r)
      BY <1>1, <1>2, <3>2, <3>3, <3>4
    <3>6. QED
      BY <1>1, <1>2, <1>3, <2>1, <3>5, Emitted
  <2>3. QED
    BY <1>4, <1>6, <2>1, <2>2 DEF MessageDelta, Reasons
<1>7. CASE MessageStop
  <2>1. Emit(StopResult) /\ producer' = "closing" /\ phase' = "finished" /\ Complete'
    BY <1>7 DEF MessageStop, EmitLast, Complete
  <2> DEFINE res == [Nothing EXCEPT !.done = TRUE, !.calls = current]
  <2>2. res \in Results /\ res.text = 0 /\ res.done /\ ~res.error /\ res.calls = current
    BY <1>1, NothingTyped DEF Results
  <2>3. Emit(res)
    BY <2>1 DEF StopResult
  <2> HIDE DEF res
  <2>4. PICK r \in Results : r = res
    BY <2>2
  <2>5. text' = text + r.text /\ r.done /\ ~r.error /\ r.calls = current' /\ Emit(r)
    BY <1>1, <1>2, <2>2, <2>3, <2>4
  <2>6. QED
    BY <1>1, <1>2, <1>3, <2>1, <2>5, Emitted
<1>8. QED
  BY <1>5, <1>6, <1>7

(* However the response ends.                                               *)
LEMMA EndInv ==
  ASSUME StreamInv, Ends \/ Breaks \/ Close, UNCHANGED <<provider, reader, result, cut, filed>>
  PROVE  StreamInv'
<1>1. spoken \in Seq(Nat) /\ current \in Seq(Nat) /\ text \in Nat
  BY DEF StreamInv, StreamTyped
<1>2. UNCHANGED <<text, spoken, current, phase, lost, garbled>>
  BY DEF Ends, Breaks, Close, heard, missed
<1>3. ASSUME NEW res \in Results, EmitLast(res), res.text = 0, res.done \/ res.error, res.calls = <<>>
      PROVE  StreamInv'
  <2>1. Emit(res) /\ producer' = "closing" /\ producer = "running" /\ text' = text + res.text
    BY <1>1, <1>2, <1>3 DEF EmitLast, Emit
  <2>2. ~Complete' /\ Collected'
    BY <1>2, <2>1 DEF StreamInv, EndIsLast, Complete, Collected
  <2>3. QED
    BY <1>1, <1>2, <1>3, <2>1, <2>2, Emitted
<1>4. CASE Ends
  <2>1. PICK res \in Results : res = [Nothing EXCEPT !.done = TRUE]
    BY NothingTyped DEF Results
  <2>2. res.text = 0 /\ res.done /\ res.calls = <<>>
    BY <2>1, NothingTyped DEF Results
  <2>3. QED
    BY <1>3, <1>4, <2>1, <2>2 DEF Ends
<1>5. CASE Breaks
  <2>1. PICK res \in Results : res = [Nothing EXCEPT !.error = TRUE]
    BY NothingTyped DEF Results
  <2>2. res.text = 0 /\ res.error /\ res.calls = <<>>
    BY <2>1, NothingTyped DEF Results
  <2>3. QED
    BY <1>3, <1>5, <2>1, <2>2 DEF Breaks
<1>6. CASE Close
  <2>1. producer = "closing" /\ producer' = "off" /\ UNCHANGED <<chan, answer, tools>>
    BY <1>6 DEF Close, result
  <2>2. QED
    BY <1>2, <2>1 DEF StreamInv, StreamTyped, Collected, Complete, EndIsLast, StopsAtEnd, NothingUnread,
       AnswerIsText, NoTextLost, Counts
<1>7. QED
  BY <1>4, <1>5, <1>6

(* What is left of the channel when its first result is taken.             *)
LEMMA Taken ==
  ASSUME StreamInv, reader = "read", chan # <<>>, chan' = Tail(chan)
  PROVE  /\ chan \in Seq(Results) /\ Len(chan) \in Nat \ {0} /\ Head(chan) = chan[1]
         /\ Head(chan) \in Results
         /\ chan' \in Seq(Results) /\ Len(chan') = Len(chan) - 1
         /\ \A i \in 1..(Len(chan) - 1) : chan'[i] = chan[i + 1]
         /\ Head(chan).done \/ Head(chan).error =>
              /\ chan' = <<>> /\ Len(chan) = 1 /\ producer # "running"
              /\ Head(chan).done => Head(chan).calls = <<>> \/ (Complete /\ Head(chan).calls = current)
<1>1. chan \in Seq(Results)
  BY DEF StreamInv, StreamTyped
<1>2. /\ Len(chan) \in Nat \ {0} /\ Head(chan) = chan[1] /\ Head(chan) \in Results
      /\ chan' \in Seq(Results) /\ Len(chan') = Len(chan) - 1
      /\ \A i \in 1..(Len(chan) - 1) : chan'[i] = chan[i + 1]
  BY <1>1
<1>3. ASSUME Head(chan).done \/ Head(chan).error
      PROVE  /\ Len(chan) = 1 /\ producer # "running"
             /\ Head(chan).done => Head(chan).calls = <<>> \/ (Complete /\ Head(chan).calls = current)
  <2>1. 1 \in 1..Len(chan) /\ (chan[1].done \/ chan[1].error)
    BY <1>2, <1>3
  <2>2. 1 = Len(chan) /\ producer # "running" /\ (chan[1].done => chan[1].calls = <<>> \/ (Complete /\ chan[1].calls = current))
    BY <2>1 DEF StreamInv, EndIsLast
  <2>3. QED
    BY <1>2, <2>2
<1>4. Len(chan) = 1 => chan' = <<>>
  BY <1>2
<1>5. QED
  BY <1>1, <1>2, <1>3, <1>4

(* doChatStream reads.                                                      *)
LEMMA TakeInv == ASSUME StreamInv, Take PROVE StreamInv'
<1>1. /\ reader = "read" /\ cut = "no" /\ tools = <<>>
      /\ UNCHANGED <<provider, phase, text, spoken, producer, current, lost, garbled>>
  BY DEF Take, server, heard, missed, StreamInv, StopsAtEnd
<1>2. Collected'
  BY <1>1 DEF StreamInv, Collected
<1>3. CASE chan # <<>> /\ chan' = Tail(chan) /\ Head(chan).error /\ TakeError
  <2>1. chan' = <<>> /\ producer # "running" /\ <<>> \in Seq(Results)
    BY <1>1, <1>3, Taken
  <2>2. reader' = "record" /\ cut' = "error" /\ UNCHANGED <<answer, tools>>
    BY <1>3 DEF TakeError, result
  <2>3. StreamTyped'
    BY <1>1, <2>1, <2>2 DEF StreamInv, StreamTyped
  <2>4. EndIsLast' /\ StopsAtEnd' /\ NothingUnread' /\ AnswerIsText' /\ NoTextLost'
    <3>1. Complete' => producer' # "running"
      BY <1>1, <2>1
    <3>2. QED
    BY <1>1, <2>1, <2>2, <3>1 DEF EndIsLast, StopsAtEnd, NothingUnread, AnswerIsText, NoTextLost
  <2>5. QED
    BY <1>2, <2>3, <2>4 DEF StreamInv
<1>4. CASE chan # <<>> /\ chan' = Tail(chan) /\ ~Head(chan).error /\ TakeResult(Head(chan))
  <2>1. /\ chan \in Seq(Results) /\ Len(chan) \in Nat \ {0} /\ Head(chan) = chan[1]
        /\ Head(chan) \in Results
        /\ chan' \in Seq(Results) /\ Len(chan') = Len(chan) - 1
        /\ \A i \in 1..(Len(chan) - 1) : chan'[i] = chan[i + 1]
        /\ Head(chan).done \/ Head(chan).error =>
             /\ chan' = <<>> /\ Len(chan) = 1 /\ producer # "running"
             /\ Head(chan).done => Head(chan).calls = <<>> \/ (Complete /\ Head(chan).calls = current)
    BY <1>1, <1>4, Taken
  <2>2. PICK res \in Results : res = Head(chan)
    BY <2>1
  <2>3. /\ answer' = answer + res.text
        /\ res.done => tools' = res.calls /\ reader' = "record" /\ cut' = "no"
        /\ ~res.done => tools' = <<>> /\ \/ reader' = "read" /\ cut' = "no"
                                         \/ reader' = "record" /\ cut' = "left"
    <3>1. TakeResult(res)
      BY <1>4, <2>2
    <3>2. answer' = answer + res.text
      BY <3>1 DEF TakeResult, AllText
    <3>3. CASE res.done
      BY <1>1, <3>1, <3>2, <3>3 DEF TakeResult
    <3>4. CASE ~res.done
      BY <1>1, <3>1, <3>2, <3>4 DEF TakeResult
    <3>5. QED
      BY <3>2, <3>3, <3>4
  <2>4. answer \in Nat /\ res.text \in Nat
    BY DEF StreamInv, StreamTyped, Results
  <2>5. StreamTyped'
    BY <1>1, <2>1, <2>3, <2>4 DEF StreamInv, StreamTyped
  <2>6. PICK f \in [0..Len(chan) -> Nat] : Counts(f)
    BY <1>1 DEF StreamInv, NoTextLost
  <2>7. f[1] = answer' /\ f[Len(chan)] + lost = text
    <3>1. 1 \in 1..Len(chan) /\ f[0] = answer /\ f[1 - 1] = f[0] /\ res = chan[1]
      BY <2>1, <2>2, <2>6 DEF Counts
    <3>2. f[1] = f[1 - 1] + chan[1].text /\ f[Len(chan)] + lost = text
      BY <2>6, <3>1 DEF Counts
    <3>3. QED
      BY <2>3, <3>1, <3>2
  <2>8. CASE res.done
    <3>1. chan' = <<>> /\ Len(chan) = 1 /\ producer # "running" /\ (res.calls = <<>> \/ (Complete /\ res.calls = current))
      BY <2>1, <2>2, <2>8
    <3>2. reader' = "record" /\ cut' = "no" /\ tools' = res.calls /\ answer' + lost = text
      BY <1>1, <2>3, <2>7, <2>8, <3>1
    <3>3. Complete => res.calls = current
      BY <1>1, <2>1, <2>2, <3>1 DEF StreamInv, EndIsLast
    <3>4. EndIsLast' /\ StopsAtEnd' /\ NothingUnread' /\ AnswerIsText' /\ NoTextLost'
      BY <1>1, <3>1, <3>2, <3>3 DEF Complete, EndIsLast, StopsAtEnd, NothingUnread, AnswerIsText, NoTextLost
    <3>5. QED
      BY <1>2, <2>5, <3>4 DEF StreamInv
  <2>9. CASE ~res.done
    <3>1. tools' = <<>> /\ \/ reader' = "read" /\ cut' = "no"
                           \/ reader' = "record" /\ cut' = "left"
      BY <1>1, <2>3, <2>9
    <3>2. StopsAtEnd' /\ NothingUnread' /\ AnswerIsText'
      BY <3>1 DEF StopsAtEnd, NothingUnread, AnswerIsText
    <3>3. EndIsLast'
      <4>1. ASSUME NEW i \in 1..Len(chan'), chan'[i].done \/ chan'[i].error
            PROVE  /\ i = Len(chan') /\ producer # "running"
                   /\ chan'[i].done => chan'[i].calls = <<>> \/ (Complete /\ chan'[i].calls = current)
        <5>1. i + 1 \in 1..Len(chan) /\ chan'[i] = chan[i + 1]
          BY <2>1, <4>1
        <5>2. /\ i + 1 = Len(chan) /\ producer # "running"
              /\ chan[i + 1].done => chan[i + 1].calls = <<>> \/ (Complete /\ chan[i + 1].calls = current)
          BY <4>1, <5>1 DEF StreamInv, EndIsLast
        <5>3. QED
          BY <2>1, <5>1, <5>2
      <4>2. producer # "running" => chan' # <<>> /\ chan'[Len(chan')] = chan[Len(chan)]
        <5>1. producer # "running" => Len(chan) # 1
          BY <1>1, <1>4, <2>1, <2>2, <2>9 DEF StreamInv, EndIsLast
        <5>2. QED
          BY <2>1, <5>1
      <4>3. QED
        BY <1>1, <4>1, <4>2 DEF StreamInv, EndIsLast, Complete
    <3>4. NoTextLost'
      <4> DEFINE g == [i \in 0..(Len(chan) - 1) |-> f[i + 1]]
      <4>1. g \in [0..Len(chan') -> Nat] /\ g[0] = answer' /\ g[Len(chan')] + lost = text
        BY <2>1, <2>7
      <4>2. ASSUME NEW i \in 1..Len(chan') PROVE g[i] = g[i - 1] + chan'[i].text
        <5>1. i + 1 \in 1..Len(chan) /\ chan'[i] = chan[i + 1]
          BY <2>1
        <5>2. f[i + 1] = f[(i + 1) - 1] + chan[i + 1].text
          BY <2>6, <5>1 DEF Counts
        <5>3. g[i] = f[i + 1] /\ g[i - 1] = f[(i + 1) - 1]
          BY <2>1
        <5>4. QED
          BY <5>1, <5>2, <5>3
      <4> HIDE DEF g
      <4>3. \E h \in [0..Len(chan') -> Nat] :
              /\ h[0] = answer' /\ h[Len(chan')] + lost' = text'
              /\ \A i \in 1..Len(chan') : h[i] = h[i - 1] + chan'[i].text
        BY <1>1, <4>1, <4>2
      <4>4. QED
        BY <4>3 DEF NoTextLost, Counts
    <3>5. QED
      BY <1>2, <2>5, <3>2, <3>3, <3>4 DEF StreamInv
  <2>10. QED
    BY <2>8, <2>9
<1>5. CASE chan = <<>> /\ producer = "off"
  BY <1>1, <1>5 DEF StreamInv, EndIsLast
<1>6. QED
  BY <1>3, <1>4, <1>5 DEF Take

LEMMA StreamStep == StreamInv /\ [Next]_vars => StreamInv'
<1>1. SUFFICES ASSUME StreamInv, [Next]_vars PROVE StreamInv'
  OBVIOUS
<1>2. CASE UNCHANGED vars
  BY <1>1, <1>2 DEF vars, server, heard, missed, Complete, parser, result, StreamInv, StreamTyped, Collected, EndIsLast,
     StopsAtEnd, NothingUnread, AnswerIsText, NoTextLost, Counts
<1>3. CASE Take
  BY <1>1, <1>3, TakeInv
<1>4. CASE Record
  BY <1>1, <1>4 DEF Record, server, heard, missed, Complete, parser, result, StreamInv, StreamTyped, Collected, EndIsLast,
     StopsAtEnd, NothingUnread, AnswerIsText, NoTextLost, Counts
<1>5. CASE Produce
  BY <1>1, <1>5, TextInv, FragmentInv, FinishInv, DeltaInv, BlockInv, MessageInv, EndInv
     DEF Produce, OpenAI, Anthropic
<1>6. CASE Panic
  BY <1>1, <1>6, PanicInv
<1>7. QED
  BY <1>1, <1>2, <1>3, <1>4, <1>5, <1>6 DEF Next, Read

LEMMA StreamHolds == Spec => []StreamInv
  BY StreamInit, StreamStep, PTL DEF Spec

(* The calls that are handed on are those the server has made up to the    *)
(* chunk that ended the stream, whole, or none; and none only of a         *)
(* response that was cut short (parseStreamResponse).                      *)
THEOREM CallsAreWhole == Spec => []CallsWhole
<1>1. ASSUME StreamInv, reader = "done" PROVE CallsWhole
  <2>1. tools = <<>> \/ (Complete /\ tools = current)
    BY <1>1 DEF StreamInv, StopsAtEnd
  <2>2. Len(<<>>) = 0 /\ Len(spoken) \in Nat /\ Len(current) <= Len(spoken)
    BY <1>1 DEF StreamInv, StreamTyped, Collected
  <2>3. Len(tools) <= Len(spoken)
    BY <2>1, <2>2
  <2>4. QED
    BY <1>1, <2>1, <2>3 DEF StreamInv, StopsAtEnd, Collected, CallsWhole, Complete
<1>2. StreamInv => CallsWhole
  BY <1>1 DEF CallsWhole
<1>3. QED
  BY <1>2, StreamHolds, PTL

(* The answer is all the text that came in chunks the client could read,   *)
(* unless there was an error or the browser left (doChatStream).           *)
THEOREM TextIsWhole == Spec => []AnswerIsText
  BY StreamHolds, PTL DEF StreamInv

(* The goroutine of StreamChat is never left with a result to send, unless *)
(* the browser left (doChatStream).                                        *)
THEOREM AllIsRead == Spec => []NothingUnread
  BY StreamHolds, PTL DEF StreamInv
=============================================================================
