# Formal models of morign

morign is a chat server: it answers web clients and the users of WeCom and
Feishu with the help of a language model, lets the model call tools (built in
or of MCP servers), and keeps histories in Redis and sessions, users, memories,
documents and API descriptions in PostgreSQL.  This directory holds TLA+ models
of its protocols, the TLC configurations that check them on small instances,
and proofs of their main properties for every instance.

Paths below are relative to `pkg/` of the repository unless they say otherwise.

1. [Inventory](#inventory): the parts of the system and what makes each correct
2. [Modules and the code](#modules-and-the-code): state and actions
3. [Runs](#runs): what each run checks, its bounds, the fairness it assumes
4. [Proofs](#proofs): what is proved, from what and how
5. [Where code and documents differ](#where-code-and-documents-differ)
6. [Not modelled](#not-modelled) and [plan](#plan)

## Inventory

| part | state | operations | hard because | correct when |
| --- | --- | --- | --- | --- |
| conversation store (`services/stores/conversation.go`) | Redis: `platform:csid:<session key>` -> conversation, list `convs-<id>` | find or create, reset, add history, list, save | every operation is several Redis commands; handlers of one session overlap | histories stay bounded and expire; one session has one conversation; `/reset` separates |
| message handler (`web/api/handle_platform.go`, `commands.go`) | one goroutine per message: messages to the model, answer so far, stream id | streaming reply, regular reply, commands | rounds of model and tools, each call may fail, a second goroutine produces the text | one reply per message, whole, and the one the history keeps; it ends |
| web chat (`web/api/handle_convo.go`, `tool_executor.go`) | one request: messages, answer, its copy of the session's row | stream, reply in one piece, regeneration, title | the client may leave, partial answers, copies of the row that others outdate | what is kept is what was said; the row is true; requests end |
| LLM clients (`services/llm`) | one goroutine per stream and a channel of results | chat, stream, embedding | end of stream, fragments of tool calls, errors inside the channel | text and tool calls arrive whole or not at all; no goroutine is left behind |
| tool registry (`services/tools`) and MCP servers (`web/api/handle_mcps_x.go`, `handle_mcps_gen.go`) | tool list, map of invokers, MCP connections; a row per server | load, activate, deactivate, create, change, delete, list, invoke | locks released during remote calls, partial failures, unlocked reads | list, invokers, connections and rows agree |
| WeCom and Feishu channels (`services/channels`) | connection, pending acknowledgements, callbacks, cached names and access token | connect, heartbeat, receive, send, stop | reconnection, timeouts, late answers, blocked writes, repeated callbacks | a lost connection is replaced, callers return, an answer belongs to its request |
| deduplication, channel registry (`services/channels`) | Redis marks of 60 s, channels | mark, start, stop | redelivery against slow handlers | a message is handled once, and not lost |
| session, user and memory store (`services/stores/convo_x.go`) | PostgreSQL rows | save session, save user, store / recall / forget memory | read-modify-write without transactions | no update is lost; one memory per owner and key |
| authentication (`services/stores/auth.go`, `state.go`, `web/api/handle_user.go`) | Redis: token -> user, user -> token, OAuth states | log in, log out, session, sync | two mappings that must agree, written step by step | who logged out stays so; who is logged in is known to the channels |
| corpus, capabilities (`services/stores/corpus_x.go`, `capability_x.go`) | PostgreSQL rows and vectors | import, change, sync, match, delete | partial failures between a row and its vector | a row is found by what it says, a search finds nothing else |

How they interact.  A message reaches a **channel** (a frame of the WeCom
WebSocket, an event of the Feishu client, or an HTTP callback), which removes
repetitions and starts a goroutine in the **message handler**; a web client's
request is a goroutine of its own in the **web chat**.  Both read and write the
**conversation store**, call an **LLM client** (whose goroutine sends results
through a channel) and run tools from the **registry**; the message handler
answers through the channel again, the web chat through server-sent events.
Vectors, users and sessions are rows several of these requests change at once.
Goroutines share the Redis and PostgreSQL data, the registry and the channels'
connections, and nothing orders the handlers of one user: each module takes the
interleaving of such goroutines, at the grain of one external call or one
critical section, as its subject.

The hazards of this code, each at its line with the properties that watch over
it, are listed in `PROJECT.json`.  Where the code lets one happen (an answer saved
and not sent, a message marked whose download fails, the vector of a forgotten
memory) no property names it, and the note says in which model the step is.

## Modules and the code

One action is one step the rest of the system can observe: one Redis command,
one call to a platform, a model, a tool server or the database, one send or
receive of a channel, or one critical section.  Data is abstracted to what the
properties tell apart: a text is named by the round and the number of pieces it
consists of, a prompt or a key is a model value, a tool call is its number.
`PROJECT.json` maps every definition to its source lines.

### ConvoHistory, HistoryLog: the conversation store

`ConvoHistory` is `services/stores/conversation.go` with the part of
`MessageHandler` that uses it.

| model | code |
| --- | --- |
| `mapping`, `hist`, `armed` | the mapping of session keys, the lists, which lists have a TTL |
| `pc`, `key`, `conv`, `user`, `over` | a handler: its next command, session key, conversation, prompt, and what RPUSH told it |
| `Receive`, `ReceiveWeb`, `Reset` | `MessageHandler`, `prepareChatRequest`, `handleResetCommand` + `ResetConversation` |
| `Lookup`, `Bind` | GET and SET of `GetOrCreateConversationBySessionKey` |
| `List`, `Chat` | `ListHistory`; the model answers, with or without an answer to keep |
| `Peek`, `Pop`, `Push`, `Expire`, `Trim` | LINDEX, RPOP, RPUSH, EXPIRE, LPOP of `AddHistory` |
| `Crash`, `ExpireMapping`, `ExpireHistory` | the process ends between two commands; a TTL runs out |

Each command may fail (`Fault`): GET's error reads as an absent key and SET's is
ignored, a failed RPUSH or EXPIRE makes `AddHistory` return, a failed RPOP does
not; RPUSH and the DEL of a reset may also take effect although the handler is
told otherwise.  The remaining variables (`popped`, `era`, `eraOf`, `forked`,
`raced`, `skipped`, `unarmed`) record what happened and are read by properties
only: they say exactly which exceptions a property makes.

`HistoryLog` is the promise: a log per conversation, to which an answered
prompt is added in one step, replacing an answer to the same prompt and keeping
the `MaxLen` newest.  `ConvoHistory!ImplementsLog` is the refinement.

### StreamingReply, ReplyLife: a reply that is streamed

`StreamingReply` is `handleStreamingReply` of `web/api/handle_platform.go` with
`doChannelStream` and `executeChannelToolCalls`, and the goroutine of
`StreamChat` at the other end of its channel.  `Iterate`/`Start` are the head of
the loop, `Ask` the request, `Receive` the `range` over the channel with its
calls of `AppendStream`, `Decide`, `Invoke`, `ToolsDone` what follows a round,
`Finish`, `Save`, `Abort`, `Apologise` the four ways out.  `Produce` is the other
goroutine.  Every call of the platform may fail.  `MayRefuse` says whether
`StreamChat` itself may return an error: the interface allows it, the two
clients of the repository never do so.

`ReplyLife` is what a platform with streaming replies needs of one message: one
bubble, opened once, rewritten while open, closed once, and a history that keeps
what it was closed with.  `StreamingReply` implements it with
`bubble <- stream`.

### WebChat: the requests about one session

`WebChat` is `web/api/handle_convo.go` with `ExecuteToolCallLoop`
(`tool_executor.go`), the regular reply of `handle_platform.go`, and what they
call of `conversation.go` and `convo_x.go`.  Every request is a record in `req`:
what it is (`stream`, `whole`, `channel`, `title`, `delete`), where it is, and
what it has at hand, above all its `copy` of the session's row.

| model | code |
| --- | --- |
| `row`, `hist`, `gone` | the session in PostgreSQL, its history in Redis, the client whose connection is closed |
| `Begin`, `List`, `Recently`, `Hides` | `newConversation`, `prepareChatRequest`, `RecentlyWithTokens`; the entry that a repeated prompt hides from the model |
| `Ask`, `Piece`, `Break`, `Finish`, `Tools`, `NextRound` | `chatStreamResponseLoop`, `doChatStream`, `doExecuteToolCalls` |
| `AskOnce`, `Report` | `ExecuteToolCallLoop`; `postChat` and `handleRegularReply` |
| `Skip`, `Peek`, `Pop`, `Push`, `Expire`, `Trim` | `AddHistory`: an empty answer is not kept; LINDEX, RPOP, RPUSH, EXPIRE, LPOP |
| `Count`, `Find`, `Write` | `Save`: LLEN, then `SaveSession`: the row is looked for, and the whole copy written |
| `ListForTitle`, `Select`, `Retitle`, `Delete` | `patchConversationTitle`, `UpdateSession` (SELECT, then UPDATE), `DeleteSession` |
| `Lapse` | the history expires, a day after its last EXPIRE |

`AddHistory` is one step per Redis command, each of which may fail by itself, and
other requests run between them: a failed LINDEX reads as another prompt, a failed
RPOP is ignored, a failed RPUSH, EXPIRE or LPOP leaves the history changed and
`Save` not called; RPUSH and LPOP may also take effect although they fail.
`ConvoHistory` has the same commands, there for sessions of a channel, their
mapping and the TTL; here they meet the row and what the model was shown.  The
ghosts say when a write did not know better: `stale` (a copy of the row others
have changed since), `passed` (a count or a list of a history others have changed
since, or that could not be read), `undercut` (a list whose last entry another's
RPOP took away), `astray` (whether the row's title or count come from a write that
did not know better, or the count from before a failure or an expiry).

### Accounts: who is logged in

`Accounts` is `web/api/handle_user.go` and `services/stores/auth.go` with
`SaveUser` and `GetUserWith` of `convo_x.go`.  It extends `Logins`, which has the
state and the properties: `cached` and `tokenOf` are the two keys in Redis, `users`
and `third` the rows.  `Session`, `Confirm`, `Find`,
`Save`, `Bind`, `Cache` are the steps of a session or login, `Logout` and
`Remove` end one, `Message` and `Load` are what a channel does with its user.
The provider may revoke a token (`Revoke`), Redis drops keys (`Expire`).

### Delivery: from the platform to the handler

`Delivery` is the receiving half of the four channel modes with `dedup.go`.  The
platform sends a message again, as an attempt of its own, until it has an answer;
`Mark`, `Check` (`FromCallback`, `FromConnection`, `FromFeishu`), `Fetch`, `Name`,
`Lookup`, `Handle`, `Reply`, `SendReply` are the steps of the goroutine that serves
an attempt, and `Lock`, `GetToken` those of `getAccessToken` of WeCom's HTTP mode.
The request is over (`Answers`) when its handler returns, not where the status is
written.  `Restart` takes every attempt with it; Redis keeps the marks.

### VectorIndex, Corpus, Memories, Capabilities, Knowledge

Three tables whose rows have vectors beside them.  `VectorIndex` has what they
share: rows, vectors, the calls (`job`) and the way they end or die.  `Corpus`,
`Memories` and `Capabilities` have one action per statement or embedding of
`corpus_x.go`, `convo_x.go` and `capability_x.go`, prefixed `Doc`, `Mem`, `Cap`;
the differences between the three (hooks, what deletion takes along, what a
failed look-up is taken for, which errors end a call) are where the hazards are.
`Knowledge` puts them together; a behaviour is about one kind of row.

The vectors of documents and of memories are in one table of the database.  All
statements but the search pick vectors by the id of a row, which documents and
memories do not have in common, so that each kind can be followed by itself.  The
search ranks both together: `Match` therefore gives any vectors of the kind, up to
the limit, of which some may be missing, because they are beyond the threshold,
because the index is not exact or because the other kind's vectors are nearer.

### LLMStream: from the model's server to the browser

`LLMStream` is one streamed request: the server's chunks in the order its
provider sends them (external), `parseStreamResponse` of `services/llm/openai.go`
or `handleStreamEvent` of `anthropic.go` (`OpenAI*`, `ContentDelta`, `ToolBlock`,
`MessageStart`, `MessageDelta`, `MessageStop`), the end or failure of the response
at any point (`Ends`, `Breaks`), the channel, and `doChatStream` of
`web/api/handle_convo.go` (`Take`, `Record`), whose browser may leave.  Tool calls
are sequences of numbers of fragments: a call is whole when all of its fragments
are there.

What the clients do with a response that is not as it should be is in the model:

- An event the Anthropic client cannot parse is skipped and the stream goes on
  (`Skips`).  `lost` counts the pieces of text this costs, `garbled` says that it
  cost some of a tool call, as do fragments that begin with a `thinking` key, which
  are sorted out.  A chunk the OpenAI client cannot parse is an error (`Breaks`).
- A fragment of an OpenAI tool call whose index leaves a gap ends the process
  (`Panic`): the list grows by one element, and the index is used all the same.
- Text, thinking or an empty chunk after the fragment of a call ends an OpenAI
  stream (`Over`): with the calls as they are, which may be parts of what the server
  meant to send.

### WecomWS: the WebSocket channel of WeCom

`WecomWS` is `services/channels/wecom/websocket.go` but for the callbacks it
hands to the message handler.

| model | code |
| --- | --- |
| `Dial` ... `Backoff` | `connectLoop`, `runConnection` and its deferred clean-up (`Unpublish`, `Drain`, `Forget`) |
| `ReadFrame` | `ReadJSON` + `handleFrame`: a pong, or an acknowledgement for the table |
| `Quit`, `Tick`, `Count`, `SendPing` | `heartbeat` of one connection; that of an earlier connection may still be there |
| `Register`, `WriteRequest`, `Collect`, `GiveUp` | `Send` and `writeAndWaitAck` |
| `Replier` | `StartStream`, `AppendStream`, `FinishStream` |
| `Cancel`, `Grab`, `CloseHeld` | `Stop` |
| `Written`, `WriteFails`, `WriteBlocks` | `writeJSON`: under the mutex, on whatever connection is current; a write on a silent connection may block with the mutex in hand |
| `GoesSilent`, `Breaks`, `KernelGivesUp` | the network |

`sync.Map.Range` of the clean-up visits keys one at a time and need not see one
stored meanwhile (`due`, `stale`).  `verdict` is a history variable.

### ToolRegistry: the servers of the tool registry

`ToolRegistry` is `AddServer`, `RemoveServer`, `checkToolNameConflict` and
`LoadServers` of `services/tools/registry.go`, what `newapi` of `web/api/api.go`
registers before (`Configured`: the servers of the settings, the OAuth server's and
strata, which have no row of their own), the two handlers of
`web/api/handle_mcps_x.go`, the row they update, and the handlers that create,
change and delete rows (`Create`, `Change`, `DeleteRow`).  `CheckName`, `Connect`,
`Verify`, `Lock`/`RegisterTool`/`Publish` are the sections of `AddServer`; only the
last holds `serversMu`.  Two requests may be about the same server.  `crossed`
and `doubled` record which servers two requests were about at a time or whose row
was edited while they were registered, and which servers two requests found free
and connected.

## Runs

Every passing run holds on all reachable states.  States are distinct states.

| run | instance | states | shows |
| --- | --- | --- | --- |
| `convo_race` | one session key, 2 prompts, 3 messages all in flight at once, web requests, 1 fault or crash, 1 expiry, `MaxLen` 1 | 1.2 M | `TypeOK`; `LengthBound`: the list exceeds the limit by no more than the trims in flight or given up; `ExpiryArmed`: a list without a TTL is about to get one or its EXPIRE failed; `SplitOnlyByRace`, `ResetIsolates`: a session splits, or an answer crosses `/reset`, only by the races named in the ghosts |
| `convo_seq` | as above, 5 messages one after the other, no fault, 1 expiry, `MaxLen` 2 | 121 k | `ImplementsLog`: the commands of `AddHistory` add up to one step of `HistoryLog` |
| `stream_reply` | limit of 3 rounds, 2 pieces, 2 calls, channel of 2, errors of `StreamChat` allowed | 151 k | `TypeOK`, `ToolsFollowCalls`, `NoProducerLeft`, `AnswerWhole`, `Handled`, `ImplementsReplyLife` |
| `stream_errors` | the same without errors of `StreamChat` | violation | an error of the model is not told |
| `web_chat` | a stream of 2 rounds and 2 pieces beside a request of any other kind (a reply in one piece, a channel's message, a title, a deletion), 2 prompts, `MaxLen` 2, 1 failed command, client that leaves or expired history | 639 k | `SavedIsSaid`: the history has what the model said and the client was sent; `RowIsTrue`: the row's title and count are the latest when nobody is on the way to `Save`, but for writes of outdated copies, failures after the history was changed and expiries; `RetryReplaces`: the RPOP of a stream removes nothing its model was shown, unless another's RPOP came first, and what a repeated prompt hid is gone when its answer comes; `RequestsEnd` |
| `llm_stream` | both providers, 2 pieces of text and of thinking, 2 calls of 2 fragments, channel of 2, events that do not parse, a browser that may leave | 389 k | `CallsWhole`: the calls handed on are all that was begun, whole, or none, unless the client skipped or sorted out some of one; `AnswerIsText`: no text is missing but that of events that did not parse; `NothingUnread` |
| `wecom_acks` | 2 connections, a goroutine in `Send` with 2 chunks, a replier | 1.9 M | `TypeOK`, `ReaderFree`, `NoAckLeft`, `AnswerIsOwn`, also when the answer to the first chunk comes while the second waits for its own |
| `wecom_life` | 1 connection at a time, a goroutine in `Send`, a replier, `Stop` | 130 k | `LostRedials`, `StopEnds`, `CallersReleased`: `Send` and replies return, also from a connection that is lost, silent or stopped |
| `registry` | 2 servers, one of which the settings name and one of which may come to offer a built-in's name, 2 admins, 3 requests (activate, deactivate, create, change, delete), start-up that loads 1 | 300 k | `TypeOK`, `RegistryWhole`, `ClientsOwned`, `RegisteredIsActive`, `RequestsEnd`: each request ends or is in the hands of a server that does not answer |
| `delivery` | each kind of channel; 1 message of any kind, sent up to 3 times; 1 failure, 1 expired mark or token, 1 restart | 179 k | `HandledOnce`: where messages are marked, the handler gets each once; `NotLost`: no attempt is dropped for one that was dropped itself; `AttemptsEnd` |
| `accounts` | 2 users with a token each, of which a browser may have both; 3 requests or messages; 1 failure, 1 expired key, revoked tokens | 904 k | `LogoutHolds`: a token has a user only if one was confirmed since the last logout; `KnownFromChannels`: who is logged in has a row, a WeCom id and a token of their own |
| `knowledge` | each kind; 2 keys, one of which is a pattern that matches the other; 2 texts; 3 calls, 2 at a time; searches that find 2; statements and embeddings that may always fail, calls that die | 869 k | `OrphansOnlyByRace`: a vector without a row is left by overlapping calls only, but for memories; `RowsAreFound`: a row nobody works on has a vector of what it says, but after a failed embedding, a change not yet synced or a race; `OneOfEach`; `NoPlaceWasted`: what a search finds are vectors of rows that are there, one of each, but for races and forgotten memories |

Each property has a mutant in `PROJECT.json`: a plausible slip in one mapped
definition with which the run of the property fails.

### Bounds

- *Conversations.*  Three handlers are enough for every pattern the hazards
  name: one that reads, one that writes in between, one that resets or uses what
  came of it.  With `MaxLen` 1 every push after the first is over the limit, so
  that trims overlap; `MaxLen` 2 in `convo_seq` leaves entries that are neither
  first nor last.  One fault or crash at every possible step shows each partial
  failure by itself; behaviours with more handlers, faults or expiries are left to
  the proofs, which hold for any number of them.
- *Streaming.*  Three rounds have a first, a middle and a last one; two pieces
  and two calls are the smallest that can be lost in part or come out of order;
  a channel of two fills and empties.
- *Web chat.*  Two requests, one of them a stream: the copy of the row and the
  list of the history are outdated by one other writer.  The other is none, as two
  streams are beyond TLC here; that streams do not disturb each other is left to the
  proofs.  With `MaxLen` 2 and a history of one at the start two answers overflow.
  Two rounds are the least with a limit to reach.  `MaxRounds` cuts the loop the code
  does not limit.
- *WeCom.*  `Conns` bounds the connections that exist at a time, not those of a
  behaviour: the current one, and one whose heartbeat has not ended.  Ids are
  reused.  `wecom_acks` has both, and two chunks, so that the answer to one may come
  after its time-out.  `wecom_life`, whose properties are liveness properties, has
  one connection at a time: `connectLoop` dials anew when the heartbeat of the last
  connection has ended.  More senders, repliers and chunks are left to the proofs of
  the safety properties.
- *Registry.*  Two servers and two requests make the overlap of two requests
  about one server, and of a server with another's names; the third request
  comes after an edit of a row or a failure of one of the two.  One server is of the
  settings and may have a row besides, as its name may be in the database too.  The
  proofs hold for any number of either.
- *Delivery.*  Messages do not meet but at the mutex, and there attempts at one
  message do as well: of three, two wait for one.  The proofs hold for any number
  of messages and attempts.
- *Accounts.*  Three requests: one that was confirmed and is still writing, one
  that logs out or removes in between, one that reads what came of it.  The
  proofs hold for any number.
- *Knowledge.*  One call that leaves something behind, one that overlaps with it
  or comes after, and one that searches or makes it good.  A limit of two is the
  least with which a place can be wasted on the second vector of a row.
- `faults`, `expiries`, `restarts`, `requests`, `rounds` are counters that exist
  for a bound only; the guards that use them are `Fault`, `Fails`, `Expire`,
  `ExpireMapping`, `ExpireHistory`, `Lapse`, `Leave`, `Restart`, `Begin`, `Edit`,
  `Start`, `Send`, `AskOnce`.

Deadlock is not checked where the system comes to rest: every message handled,
the stream over, the requests answered, the channel stopped.

### Fairness

- *StreamingReply*: weak fairness of the handler's goroutine and of the
  producer.  Requests without streaming have a timeout (90 s, `llm/options.go:138`);
  the streamed ones have none (`llm/openai.go:203`, `anthropic.go:191`), so that
  `Handled` holds under the assumption that the model's server, or the connection to
  it, ends every response.  A server that stalls with the connection open holds its
  handler for ever: the code has nothing against it.
- *WebChat*: a goroutine for each request, under the same assumption about the
  model.  `RequestsEnd` of a reply in one piece rests on `MaxRounds`, that is on a
  model that stops calling tools; of a stream it rests on `MaxLoopIterations`.
- *WecomWS*: goroutines run, timers fire, and a waiter gets the mutex that is
  released again and again (Go's mutex hands itself to a waiter that has starved
  for a millisecond): strong fairness of each goroutine.  The platform answers a
  subscription or the connection fails.  The kernel gives up on data it cannot
  deliver (`WF(KernelGivesUp)`): without it a writer that blocks with the mutex in
  hand would hold everyone, since only the heartbeat's closing of the connection
  helps, and the heartbeat may be the writer.  A peer need not answer anything,
  and the network need not break.
- *ToolRegistry*: goroutines run, the database answers and a mutex is handed on.
  Requests come or do not.  `Connect` has no fairness: `AddServer` sets no time-out
  for starting, initialising and listing the tools of a server
  (`services/tools/registry.go:261`-`282`), nor do its callers at the start
  (`context.Background()`, `web/api/api.go:95`, `114`), and a server need not
  answer.  A request to such a server then does not end, and neither does a start-up
  that waits for it; `RequestsEnd` says that nobody else waits with them.
- *Delivery*: goroutines run and the requests they make end: the HTTP client of
  WeCom's callback mode has a timeout of 30 s, Feishu's library is taken to answer
  or to close.  Strong fairness of `Lock`, again because a mutex of Go is not kept
  for ever from one who waits.  The platform need not send anything again.
- *Accounts*, *Knowledge*: safety only, no fairness.

## Proofs

`tlapm` checks all of the theorems below for every value of the constants that
the modules' `ASSUME`s admit; nothing else is assumed.

**ConvoHistoryProofs.**  `ConvoTyped`: `TypeOK`, which is inductive as it stands
because it says where a handler must have a key and a conversation.
`HistoryBounded`: `LengthBound`.  A push that goes over the limit joins `Owing(c)`,
a trim, a failure or a crash leaves it; the proof accounts for each step of each
handler of a conversation, with lemmas on the cardinality of a set that gains or
loses one element.  Other handlers' pops only make a list shorter.
`HistoryArmed`: `ExpiryArmed`, along the same cases.

`SplitsAreRaces` (`SplitOnlyByRace`) rests on `SessionsOK`: a conversation is
numbered after the handler that created it and belongs to that handler's key and
era, unless a reset overtook the creation (`OriginOK`); and in an era that has not
forked one handler at most is about to write the mapping, it is absent until then,
and whoever has a conversation has the one it names (`PartyOK`).  The proof found
the property, as first written, to be false for more than three messages: two
handlers that both found the key absent, and both wait through a `/reset`, write the
mapping one after the other in the era that begins with it.  `Reset` now records
that fork (`Several`), and a failing SET is no longer excused by it.
`ResetsIsolate` (`ResetIsolates`) needs the same and `RecordedOK`: an entry of a
list is of a handler that works on it.

`SequentialIsLog` (`ImplementsLog`) is proved for `MaxActive = 1` and
`MaxFaults = 0`, for every `MaxLen`, number of messages and expiries: one message
at a time, as in the run `convo_seq`.  Without these the refinement is false (an
answer another handler recorded may be lost, see below).  `SeqOK` says what one
handler knows of its list between LINDEX and LPOP.  Each command maps to a stutter,
but for the RPUSH, which is the step of the log.  `SequentialKeepsLog` carries what
the log keeps to over to the histories: never more than `MaxLen` entries once an
`AddHistory` is through, and no two neighbouring ones that answer one prompt.  The
lemmas it cites on the log (`LogBounded`, `LogNewestAnswerOnly`) say nothing of the
code by themselves.

**StreamingReplyProofs.**  The inductive invariant is
`IInv == TypeOK /\ Rounds /\ Bubble /\ Channel /\ Count /\ Newest /\ Tooling /\
ToolsFollowCalls`: how `iter` and `asked` relate at every program point
(`Rounds`), what `stream`, `shown` and `saved` may be there (`Bubble`), that a
last result is the last element of the channel and that somebody reads while
somebody sends (`Channel`), that what was received and what waits in the channel
is what was sent (`Count`), that `full` is the newest text (`Newest`), and where in
`context` the calls of the running round stand (`Tooling`).  From it follow
`ReplyTyped`, `ReplyBounded` (`RequestsBounded`), `ReplyInOrder`
(`ToolsFollowCalls`), `ReplyNoProducerLeft` (`NoProducerLeft`), `ReplyWhole`
(`AnswerWhole`), and `ReplyImplementsLife`: every step of the handler is a step of
`ReplyLife` or leaves its variables alone.

**WecomWSProofs.**  `ChannelTyped`: `TypeOK`.  `AcksDoNotPileUp` (`NoAckLeft`) from
the invariant `Table`: while the clean-up runs, a key it has visited has been
told (`Told`), and each key in the table has an owner.  `AnswersAreOwn`
(`AnswerIsOwn`) and `ReaderNeverHangs` (`ReaderFree`) from the invariant `Frames`:
only a connection that has been dialled carries frames, a frame answers the
request whose id it has, the frame of a request is in the network at most once,
a request not yet written has no frame and no verdict, and what is in the box of
a request is its verdict.

**StoresProofs.**  About `Knowledge` and the three modules it is made of,
`IInv == Typed /\ CallOK of every call /\ IdOK of every row /\ PairsOK /\ UnbornOK
/\ TwinsOK`: what a call knows of the rows it has at hand, what they say and that
a vector it did not find is still not there (`CallOK`); a row and its vectors, which
belong to a row that is there, are one at most, and are of what it says or about to
be (`IdOK`); two calls that have a row in hand have raced (`PairsOK`); a row a call
may yet create has not been created (`UnbornOK`); and a capability is unique because
whoever inserts it has found none (`TwinsOK`).  What one step has to do for all of
this to last is said once (`StepOK`, lemma `StepKeeps`), and each action of the
three tables is shown to do it.  From it follow `OrphansAreRaces`
(`OrphansOnlyByRace`), `RowsCanBeFound` (`RowsAreFound`), `EachHasOne`
(`OneOfEach`), and `PlacesGoToRows` (`NoPlaceWasted`), an action property: the
vectors a search finds are of rows that are there, and of each one only, but where
calls raced or memories were forgotten.  None of the theorems says anything of the
rows it excepts: the code loses or doubles those.

The second part is about `Acc`, an instance of `Accounts`, and what `Logins` promises.
The inductive invariant is
`SessionsInv == SessionsTyped /\ WritersRenewed /\ LogoutHolds /\ WritersKnown`.
A request between the confirmation of its token and the cache holds a token that is
still in `renewed` (`WritersRenewed`), as a logout forgets a token only where nobody
is writing with it; that makes `LogoutKept` (`LogoutHolds`) inductive.  `WritersKnown`
says for each program point what a login has achieved so far: the row or its
failure at `bind`, the token as well at `cache`, and that each user's token is their
own.  From it follows `ChannelsKnow` (`KnownFromChannels`).

**DeliveryProofs.**  `IInv == TypeOK /\ Progress /\ Kept /\ Once`.  `Progress`:
an attempt that replies has been handled, one the platform has not made is
nowhere.  `Kept`: a message that is marked was handled or is in the hands of an
attempt past the mark, one that was sent and is not marked has an attempt before
the mark.  `Once`: where messages are marked, at most one attempt at a message
is between the mark and the handler, and then the message is unhandled and
marked (`Single`).  The two theorems, `HandledAtMostOnce` (`HandledOnce`) and
`NothingLost` (`NotLost`), need all of it: that a duplicate may be dropped rests on
the attempt that set the mark still having the message.

**ToolRegistryProofs.**  The assumptions say that there are finitely many servers
and administrators and that the names the model makes up (`None`, `Boot`, `Nobody`)
are nobody's.  The inductive
invariant is `IInv == RowsOK /\ JobsOK /\ LoadOK /\ RegistryOK /\ MutexOK /\
CrossedOK /\ DoubledOK /\ ContentOK /\ OpenOK /\ ActiveOK` with the bound on
`requests`.  From it follow
`TypesHold` (`TypeOK`), `RegistryIsWhole` (`RegistryWhole`), `ClientsAreOwned`
(`ClientsOwned`) and `OfferedIsActive` (`RegisteredIsActive`).  `ContentOK` is
`RegistryWhole` also for the time between two tools of a registration, where a key
is claimed by the names given so far; `OpenOK` has a lower bound for servers that
were registered twice too, without which a client might be closed that is not open;
`ActiveOK` says that a server on its way to be registered has an active row, but
for those of the settings, which `newapi` registers without one.
`RegistryWhole` excepts the keys that servers have in common (`Shared`): two
servers whose prefixed names coincide overwrite each other's tools, and the one
that is removed takes the other's with it.

**WebChatProofs.**  `IInv == Typed /\ SaversOK /\ AnswersOK /\ EntriesOK /\
HiddenOK /\ CopiesOK /\ RowIsTrue`.  What a stream has in hand is all that was said
(`AnswersOK`), what it put into the history stays its answer, as nothing is said after
it is kept, and no request has two entries (`EntriesOK`): `AnswersAreWhole`
(`SavedIsSaid`).  `HiddenOK` follows a stream from its list to its RPUSH, with the
commands of others between its own: whatever was shown to it is of a request that has
kept its answer, so that it is not written again; the entry it is about to replace is
none that it was shown, until another's RPOP has taken one away (`undercut`); and what
was hidden from it is the last entry until it is taken away.  From it follows
`RetriesReplace` (`RetryReplaces`), an action property.  A copy of the row that is not
outdated has its title, and a count that is not outdated is that of the history
(`CopiesOK`); requests that save are the ones that may have outdated others
(`SaversOK`): `RowsAreTrue` (`RowIsTrue`).

**LLMStreamProofs.**  `StreamInv == StreamTyped /\ Collected /\ EndIsLast /\
StopsAtEnd /\ NoTextLost /\ NothingUnread /\ AnswerIsText`.  A result that ends the
stream is the last in the channel and has all calls or none (`EndIsLast`); from it
follow `CallsAreWhole` (`CallsWhole`) and `AllIsRead` (`NothingUnread`).  `Collected`
says that what the client has collected is what the server has sent; where the
Anthropic client has skipped or sorted out some of it (`garbled`), only that it has
no more calls than were begun.
`TextIsWhole` (`AnswerIsText`) needs that the answer, the texts in the channel and
the pieces skipped add up to the text of the server.  A sum over a sequence is defined by recursion, of
which the provers know nothing, so `NoTextLost` says that a function exists that
counts what will have been read after each result (`Counts`).

Only model-checked: every liveness property (`Handled`, `LostRedials`, `StopEnds`,
`CallersReleased`, `AttemptsEnd` and the two `RequestsEnd`), which is out of the
prover's reach.  Every invariant, action property and refinement of a passing run is
also a theorem.

## Where code and documents differ

One run ends in a counterexample to what a document of the repository says;
`PROJECT.json` quotes the lines.

- `stream_errors`: both LLM clients report failures inside the channel;
  `doChannelStream` takes them for the end of the text and returns no error, so
  the user sees an empty or partial answer where the document promises a
  message.

Other places where words and code part, or that surprise, seen on the way and
written into the models as the code has it:

*Conversations and replies*

- Two first messages of one session key get two conversations
  (`conversation.go:50`); a `/reset` that comes between GET and SET of another
  handler is undone.  These are the exceptions `forked` and `raced` of the two
  properties.
- `AddHistory` compares the last entry and removes whatever is last two commands
  later (`conversation.go:151`): an answer another handler recorded in between is
  lost.
- `MaxLoopIterations` is commented as a guard against endless loops
  (`settings/config.go:66`); `ExecuteToolCallLoop` does not apply it.
- `doChatStream` overwrites the usage with that of the last result, which for
  Anthropic has none (`handle_convo.go:456`); the OpenAI client returns at the
  `finish_reason` and never reads the chunk with the usage it asked for.
- The Anthropic client skips an event it cannot parse, with a line in the log, and
  goes on (`llm/anthropic.go:268`): the answer has a gap, a tool call lacks a piece.
  It takes fragments of arguments that begin with a `thinking` key for none
  (`anthropic.go:376`).
- A gap in the indexes of tool-call fragments ends the process: the OpenAI client
  appends one element and uses the index (`llm/openai.go:312`).
- `AddHistory` returns an error after its RPUSH when EXPIRE or LPOP fails
  (`conversation.go:172`): the entry stays, and the row is not saved with its count.
- An answer that broke off is kept like a whole one; to answer again with another
  prompt hides the last entry from the model, but adds to it.
- `SaveSession` writes the caller's whole copy: a title or a deletion that came
  since is undone, and a session that could not be loaded is saved blank.
- `GetSummary` uses its client without the `sync.Once` that makes it.

*Tools*

- `AddServer` looks a tool's name up as the server gives it and registers it
  under the server's prefix (`services/tools/registry.go:284`): a server is refused
  for a name it would not have taken, and the prefixed names of two servers may
  be the same (`a` with `b-c`, `a-b` with `c`).
- Activation compares the new status with that of the row it loaded first
  (`handle_mcps_x.go:64`): a row that was `connected` stays `connecting`.
- `LoadServers` loads two servers at most (`registry.go:397`); deactivating a
  server that is not registered fails and leaves it active.
- Servers of the settings are registered before those of the database and need no
  row (`web/api/api.go:86`); a row of the same name is then refused at the start and
  may be inactive while the tools are on offer.
- A server that does not answer holds its request for ever, and the start of the
  process if it is loaded there: nothing on the way has a time-out
  (`services/tools/registry.go:261`).
- The row of a registered server may be changed or deleted; its tools stay on
  offer, and a deleted one cannot be deactivated.
- Two activations of one server may both pass the checks and register it twice:
  the exception `doubled`.
- `Invoke` ranges over the invokers without the mutex, and `ToolsFor` appends to
  the shared slice.

*Channels*

- "Return 200 immediately" (`wecom_http.go:183`, `feishu/webhook.go:231`): the
  status leaves with the end of the handler, after names were looked up and, for
  Feishu, files downloaded.
- WeCom's HTTP mode has no deduplication.

*Accounts and knowledge*

- A session whose cookie has another user's token puts that user under the token
  of the header.
- Logging out leaves the user's token to the channels.
- A capability's method and endpoint are called unique (`capability_x.go:264`);
  no constraint says so, and two imports may create it twice.  What an import
  creates and what it changes differ in the description, so a second import of
  the same file changes it.
- The key of a memory is matched as a pattern (`ILIKE`).  Forgetting a memory
  leaves its vector, in a table documents share.  A changed document or memory
  keeps its vector until the next sync.
- Any error of a look-up is taken for "not found" by the imports and by the
  memory tools; `kb_create` reports a failure as success.

## Not modelled

- *Parts of modelled components*: requests without streaming, conversion of
  messages and audit logs of the LLM clients; `Invoke`, `ToolsFor` and the built-in
  tools of the registry, whose hazards are data races on one map and one slice;
  renaming a server; signatures and decryption of callbacks; the connection of
  Feishu's WebSocket mode, which is the vendor's library; the OAuth library and the
  store of its states, which only that library calls; usage records and messages,
  which are inserted and never read; the HTTP request of a capability.
- *Left out for good*: the server's wiring, settings, the database wrapper and
  rendered responses keep no state of a protocol; what generated code (`*_gen.go`)
  does besides the statement an action stands for, such as listing, filtering and
  logging of changes; the ranking of vectors, a function of the database: any may be
  nearest.
- `ConvoHistory!List` reads the history without keeping it: what a model answers
  does not depend on the context in that model.
- Redis and PostgreSQL are taken to execute single commands and transactions
  atomically and to keep what they acknowledged.

## Plan

Done, in the order of what a message passes through:

1. `ConvoHistory` on `HistoryLog`, with proofs
2. `StreamingReply` on `ReplyLife`, with proofs
3. `LLMStream`, with proofs
4. `WecomWS`, with proofs
5. `ToolRegistry`, with proofs
6. `Delivery`, with proofs
7. `WebChat`, with proofs
8. `Accounts` on `Logins`, with proofs
9. `VectorIndex` with `Corpus`, `Memories`, `Capabilities`, put together in
   `Knowledge`, with proofs

Next: lemmas for the safety half of the liveness properties, such as that a request
of `ToolRegistry` never waits for a mutex nobody holds.
