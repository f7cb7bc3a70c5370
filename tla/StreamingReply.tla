--------------------------- MODULE StreamingReply ---------------------------
(***************************************************************************)
(* handleStreamingReply (pkg/web/api/handle_platform.go): the answer to    *)
(* one channel message on a platform with streaming replies.  The handler  *)
(* asks the model in rounds, shows the text of a round while it arrives,   *)
(* runs the tools the model calls and asks again, at most MaxIter times.   *)
(* The text of a round is produced by a goroutine of the LLM client and    *)
(* reaches the handler through a channel of capacity Cap; every call to    *)
(* the platform (StartStream, AppendStream, FinishStream, Reply) may fail. *)
(***************************************************************************)
EXTENDS Naturals, Sequences

CONSTANTS
  MaxIter,    (* settings.Current.MaxLoopIterations                        *)
  MaxDeltas,  (* bound: pieces of text in a round                          *)
  MaxCalls,   (* bound: tool calls in a round                              *)
  Cap,        (* capacity of the channel StreamChat returns                *)
  MayRefuse   (* whether StreamChat itself may return an error; the two    *)
              (* clients of pkg/services/llm report errors in the channel  *)

ASSUME ReplyAssumption ==
  /\ MaxIter \in Nat /\ MaxDeltas \in Nat /\ MaxCalls \in Nat
  /\ Cap \in Nat \ {0}
  /\ MayRefuse \in BOOLEAN

(* A text is named by its round and the number of its pieces. *)
Texts    == (1..MaxIter) \X (1..MaxDeltas)
NoText   == <<0, 0>>
Thinking == <<0, 1>>
Apology  == <<0, 2>>

VARIABLES
  (* the handler: *)
  pc, iter,
  stream,    (* the platform's stream: none, open, closed, or lost when    *)
             (* FinishStream failed                                        *)
  full,      (* fullAnswer                                                 *)
  deltas,    (* pieces of this round's answer                              *)
  calls,     (* number of this round's tool calls                          *)
  at,        (* the tool call to run next                                  *)
  executed,  (* hasToolCall                                                *)
  context,   (* messages: <<"prompt", 0, 0>>, <<"text", round, pieces>>,   *)
             (* <<"calls", round, number>> or <<"tool", round, call>>      *)
  (* the LLM client's goroutine and its channel: *)
  producer, chan, sent,
  (* outside the process: *)
  shown,     (* the text in the platform's bubble                          *)
  saved,     (* the answer AddHistory stored                               *)
  (* History variables, read by the properties only: *)
  asked,     (* number of requests to the model                            *)
  failed,    (* a request to the model failed                              *)
  told       (* an error text was sent to the user                         *)

client   == <<producer, chan, sent>>
round    == <<deltas, calls>>
tooling  == <<at, executed>>
outside  == <<stream, shown, saved>>
ghosts   == <<asked, failed, told>>
vars     == <<pc, iter, full, context, client, round, tooling, outside, ghosts>>

Init ==
  /\ pc = "iterate" /\ iter = 0
  /\ full = NoText
  /\ deltas = 0 /\ calls = 0
  /\ at = 1 /\ executed = FALSE
  /\ context = <<<<"prompt", 0, 0>>>>
  /\ producer = "off" /\ chan = <<>> /\ sent = 0
  /\ stream = "none" /\ shown = NoText /\ saved = NoText
  /\ asked = 0 /\ failed = FALSE /\ told = FALSE

-----------------------------------------------------------------------------
(* The goroutine of StreamChat                                             *)

Send(result) ==
  /\ producer = "running"
  /\ Len(chan) < Cap
  /\ chan' = Append(chan, result)

(* A piece of text. *)
SendDelta ==
  /\ sent < MaxDeltas
  /\ Send(<<"delta", 0>>)
  /\ sent' = sent + 1
  /\ UNCHANGED producer

(* The model has finished, with some number of tool calls; or the request, *)
(* the connection or the parser failed.  Nothing is sent after either.     *)
SendLast ==
  /\ \/ \E n \in 0..MaxCalls : Send(<<"done", n>>)
     \/ Send(<<"error", 0>>)
  /\ producer' = "closing"
  /\ UNCHANGED sent

NeverClose == FALSE /\ UNCHANGED <<producer, chan, sent>>
CloseChan ==
  /\ producer = "closing"
  /\ producer' = "off"
  /\ UNCHANGED <<chan, sent>>

Produce ==
  /\ SendDelta \/ SendLast \/ CloseChan
  /\ UNCHANGED <<pc, iter, full, context, round, tooling, outside, ghosts>>

-----------------------------------------------------------------------------
(* The handler                                                             *)

(* The head of the loop: the limit, and StartStream once. *)
LimitReachedLate(n) == n > MaxIter + 1
LimitReached(n) == n > MaxIter

StartEachRound == "start"
NextStep == IF stream = "none" THEN "start" ELSE "ask"

Iterate ==
  /\ pc = "iterate"
  /\ iter' = iter + 1
  /\ pc' = IF LimitReached(iter + 1) THEN "finish" ELSE NextStep
  /\ UNCHANGED <<full, context, client, round, tooling, outside, ghosts>>

(* StartStream shows that the message is being worked on. *)
Start ==
  /\ pc = "start"
  /\ \/ /\ stream' = "open" /\ shown' = Thinking
        /\ pc' = "ask"
     \/ /\ pc' = "apologise"
        /\ UNCHANGED <<stream, shown>>
  /\ UNCHANGED <<iter, full, context, client, round, tooling, saved, ghosts>>

(* doChannelStream calls StreamChat, which starts a goroutine with a       *)
(* channel of its own.                                                     *)
Ask ==
  /\ pc = "ask"
  /\ asked' = asked + 1
  /\ deltas' = 0 /\ calls' = 0
  /\ \/ /\ pc' = "receive"
        /\ producer' = "running" /\ chan' = <<>> /\ sent' = 0
        /\ UNCHANGED failed
     \/ /\ MayRefuse
        /\ pc' = "abort" /\ failed' = TRUE
        /\ UNCHANGED client
  /\ UNCHANGED <<iter, full, context, tooling, outside, told>>

(* A piece of text arrives: AppendStream overwrites what the bubble shows; *)
(* when it fails the bubble stays as it was.                               *)
GiveUpOnAppendError ==
  /\ deltas' = deltas + 1
  /\ \/ shown' = <<iter, deltas + 1>> /\ UNCHANGED pc
     \/ pc' = "decide" /\ UNCHANGED shown
  /\ UNCHANGED <<calls, failed>>
ReceiveDelta ==
  /\ deltas' = deltas + 1
  /\ shown' \in {shown, <<iter, deltas + 1>>}
  /\ UNCHANGED <<pc, calls, failed>>

(* Only the result marked Done carries tool calls. *)
ReceiveDone(n) ==
  /\ calls' = n
  /\ UNCHANGED <<pc, deltas, shown, failed>>

(* An error in the channel only ends the round. *)
ReceiveError ==
  /\ pc' = "decide"
  /\ failed' = TRUE
  /\ UNCHANGED <<deltas, calls, shown>>

(* range over the channel: a result, or the end once it is closed. *)
ReceiveResult ==
  /\ chan # <<>>
  /\ chan' = Tail(chan)
  /\ \/ Head(chan)[1] = "delta" /\ ReceiveDelta
     \/ Head(chan)[1] = "done"  /\ ReceiveDone(Head(chan)[2])
     \/ Head(chan)[1] = "error" /\ ReceiveError

ReceiveEnd ==
  /\ chan = <<>> /\ producer = "off"
  /\ pc' = "decide"
  /\ UNCHANGED <<chan, deltas, calls, shown, failed>>

Receive ==
  /\ pc = "receive"
  /\ ReceiveResult \/ ReceiveEnd
  /\ UNCHANGED <<iter, full, context, producer, sent, tooling, stream, saved,
                 asked, told>>

(* After a round: the newest text replaces fullAnswer; without tool calls  *)
(* the loop ends, with some fullAnswer and the calls join the messages.    *)
NewestText == IF deltas > 0 THEN <<iter, deltas>> ELSE full

CallsUnlessText(text) ==
  Append(context, IF text = NoText THEN <<"calls", iter, calls>>
                  ELSE <<"text", text[1], text[2]>>)
WithCalls(text) ==
  Append(IF text = NoText THEN context
         ELSE Append(context, <<"text", text[1], text[2]>>),
         <<"calls", iter, calls>>)

Decide ==
  /\ pc = "decide"
  /\ full' = NewestText
  /\ IF calls = 0
     THEN pc' = "finish" /\ UNCHANGED <<context, tooling>>
     ELSE /\ pc' = "tools"
          /\ context' = WithCalls(NewestText)
          /\ at' = 1 /\ executed' = FALSE
  /\ UNCHANGED <<iter, client, round, outside, ghosts>>

(* Running one tool: its answer joins the messages, unless the call is not *)
(* a function call, its arguments do not parse or the tool fails.          *)
Invoke ==
  /\ pc = "tools" /\ at <= calls
  /\ at' = at + 1
  /\ \/ /\ context' = Append(context, <<"tool", iter, at>>)
        /\ executed' = TRUE
     \/ UNCHANGED <<context, executed>>
  /\ UNCHANGED <<pc, iter, full, client, round, outside, ghosts>>

(* The loop goes on only if some tool has answered. *)
ToolsDone ==
  /\ pc = "tools" /\ at > calls
  /\ pc' = IF executed THEN "iterate" ELSE "finish"
  /\ UNCHANGED <<iter, full, context, client, round, tooling, outside, ghosts>>

(* FinishStream closes the bubble with a text, or fails and is lost.       *)
FinishStream(text) ==
  \/ stream' = "closed" /\ shown' = text
  \/ stream' = "lost"   /\ UNCHANGED shown

(* After the loop; the failure of FinishStream is only logged. *)
Finish ==
  /\ pc = "finish"
  /\ IF stream = "none" THEN UNCHANGED <<stream, shown>> ELSE FinishStream(full)
  /\ pc' = IF full = NoText THEN "done" ELSE "save"
  /\ UNCHANGED <<iter, full, context, client, round, tooling, saved, ghosts>>

(* AddHistory; its error is ignored.  (ConvoHistory has its steps.)        *)
SaveShown  == saved' \in {saved, shown}
SaveAnswer == saved' \in {saved, full}

Save ==
  /\ pc = "save"
  /\ SaveAnswer
  /\ pc' = "done"
  /\ UNCHANGED <<iter, full, context, client, round, tooling, stream, shown, ghosts>>

(* StreamChat returned an error: the user is told through FinishStream.    *)
Abort ==
  /\ pc = "abort"
  /\ FinishStream(Apology)
  /\ told' = TRUE
  /\ pc' = IF stream' = "closed" THEN "done" ELSE "apologise"
  /\ UNCHANGED <<iter, full, context, client, round, tooling, saved, asked, failed>>

(* channelReplyError: a Reply, whose error is only logged.                 *)
Apologise ==
  /\ pc = "apologise"
  /\ told' = TRUE
  /\ pc' = "done"
  /\ UNCHANGED <<iter, full, context, client, round, tooling, outside, asked, failed>>

Handle ==
  \/ Iterate \/ Start \/ Ask \/ Receive \/ Decide
  \/ Invoke \/ ToolsDone \/ Finish \/ Save \/ Abort \/ Apologise

Next == Handle \/ Produce

(* The handler is a goroutine that nothing holds up; that the producer     *)
(* gets on assumes that the model's server ends every response.            *)
Spec == Init /\ [][Next]_vars /\ WF_vars(Handle) /\ WF_vars(Produce)

-----------------------------------------------------------------------------
(* Properties                                                              *)

Steps == {"iterate", "start", "ask", "receive", "decide", "tools", "finish",
          "save", "abort", "apologise", "done"}

Entries == {"prompt", "text", "calls", "tool"} \X Nat \X Nat
Results == {"delta", "done", "error"} \X Nat

(* Types; the channel never holds more than its capacity. *)
TypeOK ==
  /\ pc \in Steps /\ iter \in Nat
  /\ stream \in {"none", "open", "closed", "lost"}
  /\ full \in Texts \union {NoText}
  /\ deltas \in 0..MaxDeltas /\ calls \in 0..MaxCalls
  /\ at \in Nat /\ executed \in BOOLEAN
  /\ context \in Seq(Entries)
  /\ producer \in {"off", "running", "closing"}
  /\ chan \in Seq(Results) /\ Len(chan) <= Cap
  /\ sent \in 0..MaxDeltas
  /\ shown \in Texts \union {NoText, Thinking, Apology}
  /\ saved \in Texts \union {NoText}
  /\ asked \in Nat /\ failed \in BOOLEAN /\ told \in BOOLEAN

(* The chain of tool calls is cut: no message is put to the model more     *)
(* than MaxIter times, whatever the model answers.                         *)
RequestsBounded == asked <= MaxIter

Follow(msgs) ==
  \A i \in DOMAIN msgs :
    msgs[i][1] = "tool" =>
      /\ i > 1
      /\ msgs[i - 1][2] = msgs[i][2]
      /\ \/ msgs[i - 1][1] = "calls" /\ msgs[i][3] <= msgs[i - 1][3]
         \/ msgs[i - 1][1] = "tool"  /\ msgs[i][3] > msgs[i - 1][3]

(* A tool's answer stands behind the list of calls it belongs to, with     *)
(* nothing but earlier answers to that list in between: the order in which *)
(* the providers accept the messages of a request.                         *)
ToolsFollowCalls == Follow(context)

(* The handler never stops reading a channel somebody still sends to: the  *)
(* goroutine of StreamChat cannot be left blocked for ever.                *)
NoProducerLeft == pc # "receive" => producer # "running"

(* What is saved for the last round is all the model said in it: no piece  *)
(* is lost in the channel, dropped when the platform fails, or cut off by  *)
(* the end of the stream.                                                  *)
AnswerWhole ==
  saved # NoText /\ saved[1] = asked => saved[2] = sent

(* Every message is dealt with, and no bubble is left open behind it.      *)
Handled == <>(pc = "done" /\ stream # "open")

(* One bubble per message, and the history keeps what it was closed with.  *)
Life == INSTANCE ReplyLife WITH bubble <- stream

ImplementsReplyLife == Life!Spec

(* An error of the model is reported to the user, who is not left with an  *)
(* empty or a half answer.                                                 *)
ErrorTold == pc = "done" /\ failed => told
=============================================================================
