----------------------------- MODULE LLMStream -----------------------------
(***************************************************************************)
(* One streamed request to a model: the goroutine of StreamChat that reads *)
(* the server's chunks and turns them into results (parseStreamResponse of *)
(* pkg/services/llm/openai.go and anthropic.go), the channel between, and  *)
(* doChatStream of pkg/web/api/handle_convo.go, which reads the results,   *)
(* writes an event of each to the browser and records the usage.           *)
(* The server is external: it keeps to its provider's order of chunks, and *)
(* the connection may end or fail at any point.  A chunk and the results   *)
(* it leads to are one step; lines that carry no chunk are left out.  A    *)
(* chunk the OpenAI client cannot parse ends the stream, an event the      *)
(* Anthropic client cannot parse is skipped.                               *)
(***************************************************************************)
EXTENDS Naturals, Sequences

CONSTANTS
  Providers,     (* the kinds of server and client: "openai", "anthropic"   *)
  Cap,           (* capacity of the channel StreamChat returns              *)
  MaxPieces,     (* bound: pieces of text, and of thinking                  *)
  MaxCalls,      (* bound: tool calls                                       *)
  MaxFragments,  (* bound: fragments of the arguments of one call           *)
  MayLeave       (* whether the browser may close the event stream          *)

ASSUME StreamAssumption ==
  /\ Providers \subseteq {"openai", "anthropic"}
  /\ Cap \in Nat \ {0}
  /\ MaxPieces \in Nat /\ MaxCalls \in Nat /\ MaxFragments \in Nat
  /\ MayLeave \in BOOLEAN

VARIABLES
  (* the server: *)
  provider,  (* which kind it is                                            *)
  phase,     (* how far its response has come                               *)
  text, think, spoken,
             (* pieces of text and of thinking, and the calls with their    *)
             (* numbers of fragments, that it has sent                      *)
  (* the goroutine of StreamChat: *)
  producer, chan,
  current,   (* currentToolCalls                                            *)
  (* doChatStream: *)
  reader, answer,
  tools, usage, finish,   (* res.toolCalls, res.usage # nil, res.finish     *)
  cut,       (* why it stopped reading before the end                       *)
  (* what came of it: *)
  filed,     (* a usage record was created                                  *)
  lost,      (* pieces of text the Anthropic client has skipped             *)
  garbled    (* it has skipped, or sorted out, some of a tool call          *)

heard  == <<phase, text, think, spoken>>
missed == <<lost, garbled>>
server == <<provider, heard, missed>>
parser == <<producer, chan, current>>
result == <<answer, tools, usage, finish>>
vars   == <<server, parser, reader, result, cut, filed>>

Init ==
  /\ provider \in Providers
  /\ phase = IF provider = "anthropic" THEN "begin" ELSE "open"
  /\ text = 0 /\ think = 0 /\ spoken = <<>>
  /\ producer = "running" /\ chan = <<>> /\ current = <<>>
  /\ reader = "read" /\ answer = 0
  /\ tools = <<>> /\ usage = FALSE /\ finish = ""
  /\ cut = "no" /\ filed = FALSE
  /\ lost = 0 /\ garbled = FALSE

(* A StreamResult with nothing in it. *)
Nothing == [text |-> 0, think |-> FALSE, calls |-> <<>>, finish |-> "",
            usage |-> FALSE, done |-> FALSE, error |-> FALSE]

-----------------------------------------------------------------------------
(* What both clients do                                                    *)

Emit(res) ==
  /\ producer = "running" /\ Len(chan) < Cap
  /\ chan' = Append(chan, res)

(* The last result: the loop over the lines ends after it. *)
EmitLast(res) == Emit(res) /\ producer' = "closing"

(* The response ends, by its own word ([DONE]) or because the connection   *)
(* does.  The calls collected so far are not part of the result.           *)
Ends ==
  /\ EmitLast([Nothing EXCEPT !.done = TRUE])
  /\ UNCHANGED <<heard, missed, current>>

(* The request is refused, the connection breaks, or a chunk of the OpenAI *)
(* client does not parse.                                                  *)
Breaks ==
  /\ EmitLast([Nothing EXCEPT !.error = TRUE])
  /\ UNCHANGED <<heard, missed, current>>

Close ==
  /\ producer = "closing"
  /\ producer' = "off"
  /\ UNCHANGED <<heard, missed, chan, current>>

-----------------------------------------------------------------------------
(* OpenAI                                                                  *)

FinishReason == IF spoken = <<>> THEN "stop" ELSE "tool_calls"

(* A chunk with a choice.  The stream is over when it has a finish_reason, *)
(* or no tool calls after some have been collected (DeepSeek).             *)
Over(res, grown) == res.finish # "" \/ (~grown /\ res.calls # <<>>)

ReadOnAfterDone(res, grown) ==
  /\ current' = res.calls
  /\ Emit([res EXCEPT !.done = Over(res, grown)])
  /\ UNCHANGED producer
Chunk(res, grown) ==
  /\ current' = res.calls
  /\ IF Over(res, grown) THEN EmitLast([res EXCEPT !.done = TRUE])
                         ELSE Emit(res) /\ UNCHANGED producer

(* A chunk of text, of thinking, or of neither (the role, a keep-alive).   *)
(* After the fragment of a call it ends the stream, whatever is to come.   *)
OpenAIText ==
  /\ phase \in {"open", "calls"}
  /\ phase' = IF phase = "calls" THEN "mixed" ELSE phase
  /\ \/ /\ text < MaxPieces /\ text' = text + 1
        /\ Chunk([Nothing EXCEPT !.text = 1, !.calls = current], FALSE)
        /\ UNCHANGED think
     \/ /\ think < MaxPieces /\ think' = think + 1
        /\ Chunk([Nothing EXCEPT !.think = TRUE, !.calls = current], FALSE)
        /\ UNCHANGED text
     \/ /\ Chunk([Nothing EXCEPT !.calls = current], FALSE)
        /\ UNCHANGED <<text, think>>
  /\ UNCHANGED <<spoken, missed>>

(* A fragment of the call with an index (from 0): the list grows by one    *)
(* element if the index is past its end.                                   *)
AddedLast(calls, index) ==
  IF calls = <<>> THEN <<1>> ELSE [calls EXCEPT ![Len(calls)] = @ + 1]
Added(calls, index) ==
  LET longer == IF index >= Len(calls) THEN Append(calls, 0) ELSE calls
  IN [longer EXCEPT ![index + 1] = @ + 1]

(* Of any call the server has begun, or of the next one. *)
OpenAIFragment ==
  /\ phase \in {"open", "calls"}
  /\ \E index \in 0..(MaxCalls - 1) :
       /\ \/ index < Len(spoken) /\ spoken[index + 1] < MaxFragments
          \/ index = Len(spoken) /\ MaxFragments > 0
       /\ spoken' = IF index = Len(spoken) THEN Append(spoken, 1)
                    ELSE [spoken EXCEPT ![index + 1] = @ + 1]
       /\ Chunk([Nothing EXCEPT !.calls = Added(current, index)], TRUE)
  /\ phase' = "calls"
  /\ UNCHANGED <<text, think, missed>>

(* A fragment whose index leaves a gap: one element is added, the index is *)
(* used all the same, and nothing recovers from the panic.  The process    *)
(* ends, and with it every request that it serves.                         *)
Panic ==
  /\ provider = "openai" /\ phase \in {"open", "calls"} /\ producer = "running"
  /\ \E index \in 0..MaxCalls : index > Len(current)
  /\ producer' = "off" /\ chan' = <<>>
  /\ reader' = "gone" /\ cut' = "crash"
  /\ UNCHANGED <<server, current, result, filed>>

(* The chunk with the finish_reason, which may hold the usage as well.     *)
(* DeepSeek may leave the reason out after tool calls.  The chunk without  *)
(* choices that OpenAI sends the usage in comes later and is never read.   *)
OpenAIFinish ==
  /\ phase \in {"open", "calls"}
  /\ phase' = "finished"
  /\ UNCHANGED <<text, think, spoken, missed>>
  /\ \E known, used \in BOOLEAN :
       /\ known \/ phase = "calls"
       /\ Chunk([Nothing EXCEPT !.calls = current, !.usage = used,
                                !.finish = IF known THEN FinishReason ELSE ""], FALSE)

OpenAI == OpenAIText \/ OpenAIFragment \/ OpenAIFinish

-----------------------------------------------------------------------------
(* Anthropic: handleStreamEvent                                            *)

(* An event that does not parse is skipped, and the stream goes on.        *)
Skips ==
  /\ producer = "running"
  /\ UNCHANGED <<chan, current>>

ContentDelta ==
  /\ phase \in {"open", "calls"}
  /\ \/ /\ text < MaxPieces /\ text' = text + 1
        /\ \/ /\ Emit([Nothing EXCEPT !.text = 1, !.calls = current])
              /\ UNCHANGED <<current, lost>>
           \/ Skips /\ lost' = lost + 1
        /\ UNCHANGED think
     \/ /\ think < MaxPieces /\ think' = think + 1
        /\ \/ Emit([Nothing EXCEPT !.think = TRUE]) /\ UNCHANGED current
           \/ Skips
        /\ UNCHANGED <<text, lost>>
  /\ UNCHANGED <<phase, spoken, producer, garbled>>

(* A tool_use block opens a call, input_json_delta adds to the latest one  *)
(* the client has, unless the fragment begins with a "thinking" key.       *)
Opened == current' = Append(current, 0)
Extended ==
  current' = IF current = <<>> THEN current ELSE [current EXCEPT ![Len(current)] = @ + 1]

ToolBlock ==
  /\ phase \in {"open", "calls"} /\ producer = "running"
  /\ \/ /\ Len(spoken) < MaxCalls
        /\ spoken' = Append(spoken, 0)
        /\ \/ Opened /\ UNCHANGED garbled
           \/ Skips /\ garbled' = TRUE
     \/ /\ spoken # <<>> /\ spoken[Len(spoken)] < MaxFragments
        /\ spoken' = [spoken EXCEPT ![Len(spoken)] = @ + 1]
        /\ \/ Extended /\ UNCHANGED garbled
           \/ Skips /\ garbled' = TRUE
  /\ phase' = "calls"
  /\ UNCHANGED <<text, think, producer, chan, lost>>

MessageStart ==
  /\ phase = "begin"
  /\ \/ Emit(Nothing) /\ UNCHANGED current
     \/ Skips
  /\ phase' = "open"
  /\ UNCHANGED <<text, think, spoken, producer, missed>>

(* message_delta has the reason and the usage, message_stop ends it; if    *)
(* that one is skipped, the response Ends.                                 *)
StopReason(reason) ==
  IF reason = "end_turn" THEN "stop"
  ELSE IF current # <<>> THEN "tool_calls" ELSE reason

DeltaIsDone(reason) ==
  [Nothing EXCEPT !.calls = current, !.finish = StopReason(reason), !.usage = TRUE, !.done = TRUE]
DeltaResult(reason) ==
  [Nothing EXCEPT !.calls = current, !.finish = StopReason(reason), !.usage = TRUE]

MessageDelta ==
  /\ phase \in {"open", "calls"}
  /\ \/ \E reason \in {"end_turn", "max_tokens"} \union (IF spoken = <<>> THEN {} ELSE {"tool_use"}) :
          Emit(DeltaResult(reason)) /\ UNCHANGED current
     \/ Skips
  /\ phase' = "delta"
  /\ UNCHANGED <<text, think, spoken, producer, missed>>

StopWithoutCalls == [Nothing EXCEPT !.done = TRUE]
StopResult == [Nothing EXCEPT !.done = TRUE, !.calls = current]
MessageStop ==
  /\ phase = "delta"
  /\ EmitLast(StopResult)
  /\ phase' = "finished"
  /\ UNCHANGED <<text, think, spoken, current, missed>>

Anthropic == MessageStart \/ ContentDelta \/ ToolBlock \/ MessageDelta \/ MessageStop

Produce ==
  /\ \/ provider = "openai" /\ OpenAI
     \/ provider = "anthropic" /\ Anthropic
     \/ Ends \/ Breaks \/ Close
  /\ UNCHANGED <<provider, reader, result, cut, filed>>

-----------------------------------------------------------------------------
(* doChatStream                                                            *)

(* A result that is not the last becomes an event for the browser, whose   *)
(* write may fail.  An event of tool calls may come before it, whose write *)
(* is not looked at.                                                       *)
LatestText(res) == res.text
AllText(res) == answer + res.text

TakeResult(res) ==
  /\ answer' = AllText(res)
  /\ usage' = res.usage
  /\ tools' = IF res.done THEN res.calls ELSE tools
  /\ finish' = IF res.done THEN res.finish ELSE finish
  /\ \/ /\ reader' = IF res.done THEN "record" ELSE "read"
        /\ UNCHANGED cut
     \/ /\ ~res.done /\ MayLeave
        /\ reader' = "record" /\ cut' = "left"

TakeError ==
  /\ reader' = "record" /\ cut' = "error"
  /\ UNCHANGED result

Take ==
  /\ reader = "read"
  /\ \/ /\ chan # <<>>
        /\ chan' = Tail(chan)
        /\ IF Head(chan).error THEN TakeError ELSE TakeResult(Head(chan))
     \/ /\ chan = <<>> /\ producer = "off"
        /\ reader' = "record"
        /\ UNCHANGED <<chan, result, cut>>
  /\ UNCHANGED <<server, producer, current, filed>>

(* CreateUsageRecord, if there is a usage to record. *)
Record ==
  /\ reader = "record"
  /\ reader' = "done"
  /\ filed' = usage
  /\ UNCHANGED <<server, parser, result, cut>>

Read == Take \/ Record

Next == Read \/ Produce \/ Panic

Spec == Init /\ [][Next]_vars

-----------------------------------------------------------------------------
(* Properties                                                              *)

(* The tool calls doChatStream hands on are those the server has made up   *)
(* to the chunk that ended the stream, each with all its fragments in      *)
(* place, or none; and none only if the response was cut short.  A client  *)
(* of Anthropic that has skipped or sorted out some of a call may hand on  *)
(* others, but never more.                                                 *)
CallsWhole ==
  reader = "done" =>
    /\ tools # <<>> => phase \in {"mixed", "finished"} /\ (tools = spoken \/ garbled)
    /\ Len(tools) <= Len(spoken)
    /\ phase \in {"mixed", "finished"} /\ cut = "no" => tools = spoken \/ garbled

(* Without an error or a browser that left, the answer has every piece of  *)
(* text the server has sent but those in events that did not parse, also   *)
(* when the response ends before its time.                                 *)
AnswerIsText == reader # "read" /\ cut = "no" => answer + lost = text

(* Unless the browser left, doChatStream stops reading only at the last    *)
(* result: the goroutine of StreamChat is never left with one to send.     *)
NothingUnread == reader # "read" /\ cut # "left" => chan = <<>> /\ producer # "running"
=============================================================================
