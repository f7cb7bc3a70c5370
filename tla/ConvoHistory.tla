---------------------------- MODULE ConvoHistory ----------------------------
(***************************************************************************)
(* The conversation store on Redis (pkg/services/stores/conversation.go)   *)
(* as the message handlers use it.  Every incoming message is handled by a *)
(* goroutine of its own; a handler finds its conversation through the      *)
(* mapping "platform:csid:<session key>" or is given it by the web client, *)
(* reads the history, asks the model and records the answer.  Redis        *)
(* executes single commands atomically, and nothing makes a group of them  *)
(* atomic: one action below is one Redis command.                          *)
(***************************************************************************)
EXTENDS Naturals, Sequences, SequencesExt, FiniteSets

CONSTANTS
  Keys,         (* session keys of the channels                            *)
  Prompts,      (* texts a user may send                                   *)
  NoKey,        (* the session key of a web request                        *)
  MaxLen,       (* historyMaxLength                                        *)
  MaxMessages,  (* bound: messages received in a behaviour                 *)
  MaxActive,    (* bound: handlers in flight at once                       *)
  MaxFaults,    (* bound: failed commands and crashed handlers             *)
  MaxExpiries,  (* bound: keys removed by their TTL                        *)
  Web           (* whether web requests arrive besides channel messages    *)

ASSUME ConvoAssumption ==
  /\ MaxLen \in Nat \ {0}
  /\ MaxMessages \in Nat /\ MaxActive \in Nat
  /\ MaxFaults \in Nat /\ MaxExpiries \in Nat
  /\ NoKey \notin Keys /\ Prompts # {}
  /\ Web \in BOOLEAN

Messages == 1..MaxMessages

(* A handler without a conversation creates one whose id nobody else has:  *)
(* handler m creates conversation m.                                       *)
NoConv == 0
Convs == Messages

VARIABLES
  mapping,   (* session key -> conversation, NoConv where the key is absent *)
  hist,      (* conversation -> its list "convs-<id>"                       *)
  armed,     (* conversations whose list has a TTL                          *)
  pc, key, conv, user,   (* each handler: next command and its arguments    *)
  over,      (* handler -> RPUSH reported more than MaxLen entries          *)
  faults, expiries,      (* what has been used up of the bounds             *)
  (* History variables, read by the properties only:                        *)
  popped,    (* handler -> what its RPOP removed and its RPUSH must replace *)
  era,       (* session key -> number of resets so far                      *)
  eraOf,     (* handler -> era of its key when it looked the mapping up     *)
  forked,    (* <<key, era>> that may have got two conversations            *)
  raced,     (* <<key, era>> whose reset overtook the creation of a mapping *)
  skipped,   (* conversation -> LPOPs that were due and never executed      *)
  unarmed    (* conversations one of whose EXPIREs was never executed       *)

handler == <<pc, key, conv, user, over>>
ghosts  == <<popped, era, eraOf, forked, raced, skipped, unarmed>>
vars    == <<mapping, hist, armed, handler, faults, expiries, ghosts>>

Items == [msg : Messages, user : Prompts]

Looked   == {"list", "chat", "peek", "pop", "push", "expire", "trim", "done"}
Steps    == {"new", "lookup", "bind"} \union Looked
Recording == {"pop", "push", "expire", "trim"}

Active == {m \in Messages : pc[m] \notin {"new", "done"}}

Init ==
  /\ mapping = [k \in Keys |-> NoConv]
  /\ hist    = [c \in Convs |-> <<>>]
  /\ armed   = {}
  /\ pc      = [m \in Messages |-> "new"]
  /\ key     = [m \in Messages |-> NoKey]
  /\ conv    = [m \in Messages |-> NoConv]
  /\ user    = [m \in Messages |-> CHOOSE u \in Prompts : TRUE]
  /\ over    = [m \in Messages |-> FALSE]
  /\ faults  = 0 /\ expiries = 0
  /\ popped  = [m \in Messages |-> <<>>]
  /\ era     = [k \in Keys |-> 0]
  /\ eraOf   = [m \in Messages |-> 0]
  /\ forked  = {} /\ raced = {}
  /\ skipped = [c \in Convs |-> 0]
  /\ unarmed = {}

Goto(m, step) == pc' = [pc EXCEPT ![m] = step]

Fault == faults < MaxFaults /\ faults' = faults + 1

(* The next message to arrive; messages are numbered in order of arrival.  *)
Arrives(m) ==
  /\ pc[m] = "new"
  /\ \A n \in Messages : n < m => pc[n] # "new"
  /\ Cardinality(Active) < MaxActive

-----------------------------------------------------------------------------
(* Finding the conversation                                                *)

(* A channel delivers an ordinary message: MessageHandler goes on to       *)
(* GetOrCreateConversationBySessionKey.                                    *)
Receive(m, k, u) ==
  /\ Arrives(m)
  /\ key'  = [key EXCEPT ![m] = k]
  /\ user' = [user EXCEPT ![m] = u]
  /\ Goto(m, "lookup")
  /\ UNCHANGED <<mapping, hist, armed, conv, over, faults, expiries, ghosts>>

(* A web request names the conversation it continues, or none: then a new  *)
(* one is created.                                                         *)
ReceiveWeb(m, u) ==
  /\ Web
  /\ Arrives(m)
  /\ \E c \in {m} \union {conv[n] : n \in Messages} :
       /\ c # NoConv
       /\ conv' = [conv EXCEPT ![m] = c]
  /\ user' = [user EXCEPT ![m] = u]
  /\ Goto(m, "list")
  /\ UNCHANGED <<mapping, hist, armed, key, over, faults, expiries, ghosts>>

(* Handlers that found no mapping for k and have yet to write one.         *)
Creating(k) == {m \in Messages : pc[m] = "bind" /\ key[m] = k}
Several(S)  == \E m, n \in S : m # n

(* What DEL leaves of the mapping. *)
ResetKeepingMapping(m, k) == mapping' = mapping
ResetSession(m, k) == mapping' = [mapping EXCEPT ![k] = NoConv]

(* A message that starts with /reset, /new or /clear: DEL the mapping and  *)
(* say so; when DEL fails, or its answer is lost, the text is handled like *)
(* any other prompt.                                                       *)
Reset(m, k, u) ==
  /\ Arrives(m)
  /\ key' = [key EXCEPT ![m] = k]
  /\ user' = [user EXCEPT ![m] = u]
  /\ \/ /\ ResetSession(m, k)
        /\ Goto(m, "done")
        /\ era' = [era EXCEPT ![k] = @ + 1]
        /\ raced' = IF Creating(k) = {} THEN raced
                    ELSE raced \union {<<k, era[k] + 1>>}
        /\ forked' = IF Several(Creating(k)) THEN forked \union {<<k, era[k] + 1>>}
                     ELSE forked
        /\ UNCHANGED faults
     \/ /\ Fault
        /\ Goto(m, "lookup")
        /\ \/ UNCHANGED <<mapping, forked>>
           \/ /\ ResetSession(m, k)
              /\ forked' = forked \union {<<k, era[k]>>}
        /\ UNCHANGED <<era, raced>>
  /\ UNCHANGED <<hist, armed, conv, over, expiries,
                 popped, eraOf, skipped, unarmed>>

(* GET of the mapping; its error is ignored and reads as an absent key.    *)
(* newConversation gives an absent id a fresh one.                         *)
LookupWithoutId(m, got) == conv' = [conv EXCEPT ![m] = got]
FoundOrNew(m, got) ==
  conv' = [conv EXCEPT ![m] = IF got = NoConv THEN m ELSE got]

Lookup(m) ==
  /\ pc[m] = "lookup"
  /\ \E got \in {mapping[key[m]], NoConv} :
       /\ IF got = mapping[key[m]] THEN UNCHANGED faults ELSE Fault
       /\ FoundOrNew(m, got)
       /\ Goto(m, IF got = NoConv THEN "bind" ELSE "list")
       /\ forked' =
            IF got = NoConv /\ (mapping[key[m]] # NoConv \/ Creating(key[m]) # {})
            THEN forked \union {<<key[m], era[key[m]]>>} ELSE forked
  /\ eraOf' = [eraOf EXCEPT ![m] = era[key[m]]]
  /\ UNCHANGED <<mapping, hist, armed, key, user, over, expiries,
                 popped, era, raced, skipped, unarmed>>

(* SET of the mapping, for a handler that found none; its error is ignored. *)
BindNothing(m) == UNCHANGED <<mapping, faults, forked>>
BindMapping(m) ==
  \/ /\ mapping' = [mapping EXCEPT ![key[m]] = conv[m]]
     /\ UNCHANGED <<faults, forked>>
  \/ /\ Fault
     /\ forked' = forked \union {<<key[m], eraOf[m]>>}
     /\ UNCHANGED mapping

Bind(m) ==
  /\ pc[m] = "bind"
  /\ BindMapping(m)
  /\ Goto(m, "list")
  /\ UNCHANGED <<hist, armed, key, conv, user, over, expiries,
                 popped, era, eraOf, raced, skipped, unarmed>>

-----------------------------------------------------------------------------
(* Using the history                                                       *)

(* LRANGE: the history becomes the context of the prompt. *)
List(m) ==
  /\ pc[m] = "list"
  /\ Goto(m, "chat")
  /\ UNCHANGED <<mapping, hist, armed, key, conv, user, over, faults,
                 expiries, ghosts>>

(* The model answers, or fails or says nothing and no history is kept.     *)
Chat(m) ==
  /\ pc[m] = "chat"
  /\ \E next \in {"peek", "done"} : Goto(m, next)
  /\ UNCHANGED <<mapping, hist, armed, key, conv, user, over, faults,
                 expiries, ghosts>>

(* LINDEX -1: is the last entry about the same prompt?  An error or an     *)
(* empty list skips the replacement.                                       *)
NeverSame(s, u) == FALSE
SameUser(s, u) == s # <<>> /\ Last(s).user = u

Peek(m) ==
  /\ pc[m] = "peek"
  /\ \/ /\ Goto(m, IF SameUser(hist[conv[m]], user[m]) THEN "pop" ELSE "push")
        /\ UNCHANGED faults
     \/ Fault /\ Goto(m, "push")
  /\ UNCHANGED <<mapping, hist, armed, key, conv, user, over, expiries, ghosts>>

(* Redis drops a list, and its TTL, with its last entry. *)
Rewrite(c, s) ==
  /\ hist' = [hist EXCEPT ![c] = s]
  /\ armed' = IF s = <<>> THEN armed \ {c} ELSE armed

(* RPOP of the entry to be replaced; its error is logged and ignored.      *)
Pop(m) ==
  /\ pc[m] = "pop"
  /\ Goto(m, "push")
  /\ LET s == hist[conv[m]]
     IN \/ /\ s # <<>>
           /\ Rewrite(conv[m], Front(s))
           /\ popped' = [popped EXCEPT ![m] = <<Last(s)>>]
           /\ UNCHANGED faults
        \/ /\ s = <<>>
           /\ UNCHANGED <<hist, armed, popped, faults>>
        \/ Fault /\ UNCHANGED <<hist, armed, popped>>
  /\ UNCHANGED <<mapping, key, conv, user, over, expiries,
                 era, eraOf, forked, raced, skipped, unarmed>>

OverflowsLate(n) == n > MaxLen + 1
Overflows(n) == n > MaxLen

(* RPUSH of the new entry.  It fails without effect, or it fails for the   *)
(* handler although Redis has executed it (an answer lost on the way).     *)
Push(m) ==
  /\ pc[m] = "push"
  /\ LET c == conv[m]
         s == Append(hist[c], [msg |-> m, user |-> user[m]])
     IN \/ /\ hist' = [hist EXCEPT ![c] = s]
           /\ over' = [over EXCEPT ![m] = Overflows(Len(s))]
           /\ Goto(m, "expire")
           /\ UNCHANGED <<faults, skipped, unarmed>>
        \/ /\ Fault
           /\ Goto(m, "done")
           /\ UNCHANGED <<hist, over, skipped, unarmed>>
        \/ /\ Fault
           /\ hist' = [hist EXCEPT ![c] = s]
           /\ skipped' = [skipped EXCEPT ![c] = @ + 1]
           /\ unarmed' = unarmed \union {c}
           /\ Goto(m, "done")
           /\ UNCHANGED over
  /\ popped' = [popped EXCEPT ![m] = <<>>]
  /\ UNCHANGED <<mapping, armed, key, conv, user, expiries,
                 era, eraOf, forked, raced>>

(* An LPOP that was due for c is given up. *)
SkipTrim(m) ==
  skipped' = IF over[m] THEN [skipped EXCEPT ![conv[m]] = @ + 1] ELSE skipped

(* EXPIRE of the list, 24 hours from now; on an error AddHistory returns,  *)
(* before it trims.                                                        *)
ExpireForgotten(m) ==
  /\ pc[m] = "expire"
  /\ Goto(m, IF over[m] THEN "trim" ELSE "done")
  /\ UNCHANGED <<mapping, hist, armed, key, conv, user, over, faults, expiries,
                 ghosts>>
Expire(m) ==
  /\ pc[m] = "expire"
  /\ \/ /\ armed' = IF hist[conv[m]] = <<>> THEN armed
                    ELSE armed \union {conv[m]}
        /\ Goto(m, IF over[m] THEN "trim" ELSE "done")
        /\ UNCHANGED <<faults, skipped, unarmed>>
     \/ /\ Fault
        /\ SkipTrim(m)
        /\ unarmed' = unarmed \union {conv[m]}
        /\ Goto(m, "done")
        /\ UNCHANGED armed
  /\ UNCHANGED <<mapping, hist, key, conv, user, over, expiries,
                 popped, era, eraOf, forked, raced>>

(* LPOP of the oldest entry, once per RPUSH that went over the limit.      *)
Trim(m) ==
  /\ pc[m] = "trim"
  /\ Goto(m, "done")
  /\ LET s == hist[conv[m]]
     IN \/ /\ s # <<>>
           /\ Rewrite(conv[m], Tail(s))
           /\ UNCHANGED <<faults, skipped>>
        \/ /\ s = <<>>
           /\ UNCHANGED <<hist, armed, faults, skipped>>
        \/ Fault /\ SkipTrim(m) /\ UNCHANGED <<hist, armed>>
  /\ UNCHANGED <<mapping, key, conv, user, over, expiries,
                 popped, era, eraOf, forked, raced, unarmed>>

-----------------------------------------------------------------------------
(* The environment                                                         *)

(* The handler dies between two commands (a panic, or the process stops).  *)
Crash(m) ==
  /\ pc[m] \notin {"new", "done"}
  /\ Fault
  /\ Goto(m, "done")
  /\ IF pc[m] \in {"expire", "trim"} THEN SkipTrim(m) ELSE UNCHANGED skipped
  /\ unarmed' = IF pc[m] = "expire" THEN unarmed \union {conv[m]} ELSE unarmed
  /\ forked' = IF pc[m] = "bind" THEN forked \union {<<key[m], eraOf[m]>>}
               ELSE forked
  /\ popped' = [popped EXCEPT ![m] = <<>>]
  /\ UNCHANGED <<mapping, hist, armed, key, conv, user, over, expiries,
                 era, eraOf, raced>>

(* A mapping nobody used for 30 days, or a list nobody added to for 24     *)
(* hours, is removed.  What a handler popped before is gone with it.       *)
ExpireMapping(k) ==
  /\ expiries < MaxExpiries
  /\ mapping[k] # NoConv
  /\ mapping' = [mapping EXCEPT ![k] = NoConv]
  /\ expiries' = expiries + 1
  /\ forked' = forked \union {<<k, era[k]>>}
  /\ UNCHANGED <<hist, armed, handler, faults,
                 popped, era, eraOf, raced, skipped, unarmed>>

ExpireHistory(c) ==
  /\ expiries < MaxExpiries
  /\ c \in armed
  /\ Rewrite(c, <<>>)
  /\ expiries' = expiries + 1
  /\ popped' = [m \in Messages |-> IF conv[m] = c THEN <<>> ELSE popped[m]]
  /\ UNCHANGED <<mapping, handler, faults,
                 era, eraOf, forked, raced, skipped, unarmed>>

Handle(m) ==
  \/ Lookup(m) \/ Bind(m) \/ List(m) \/ Chat(m)
  \/ Peek(m) \/ Pop(m) \/ Push(m) \/ Expire(m) \/ Trim(m)

Next ==
  \/ \E m \in Messages, u \in Prompts :
       \/ ReceiveWeb(m, u)
       \/ \E k \in Keys : Receive(m, k, u) \/ Reset(m, k, u)
  \/ \E m \in Messages : Handle(m) \/ Crash(m)
  \/ \E k \in Keys : ExpireMapping(k)
  \/ \E c \in Convs : ExpireHistory(c)

Spec == Init /\ [][Next]_vars

-----------------------------------------------------------------------------
(* Properties                                                              *)

(* Types of what Redis holds; a list without entries has no TTL. *)
StoreOK ==
  /\ mapping \in [Keys -> Convs \union {NoConv}]
  /\ hist \in [Convs -> Seq(Items)]
  /\ armed \subseteq Convs
  /\ \A c \in armed : hist[c] # <<>>

(* Types of the handlers' variables; a handler that looks the mapping up   *)
(* has a session key, and one past the lookup has a conversation.          *)
HandlersOK ==
  /\ pc \in [Messages -> Steps]
  /\ key \in [Messages -> Keys \union {NoKey}]
  /\ conv \in [Messages -> Convs \union {NoConv}]
  /\ user \in [Messages -> Prompts]
  /\ over \in [Messages -> BOOLEAN]
  /\ \A m \in Messages :
       /\ pc[m] \in {"lookup", "bind"} => key[m] \in Keys
       /\ pc[m] \notin {"new", "lookup", "done"} => conv[m] \in Convs

GhostsOK ==
  /\ faults \in Nat /\ expiries \in Nat
  /\ popped \in [Messages -> Seq(Items)]
  /\ era \in [Keys -> Nat]
  /\ eraOf \in [Messages -> Nat]
  /\ forked \subseteq Keys \X Nat
  /\ raced \subseteq Keys \X Nat
  /\ skipped \in [Convs -> Nat]
  /\ unarmed \subseteq Convs

TypeOK == StoreOK /\ HandlersOK /\ GhostsOK

(* Handlers that still owe conversation c an LPOP. *)
Owing(c) ==
  {m \in Messages : conv[m] = c /\ over[m] /\ pc[m] \in {"expire", "trim"}}

(* However the handlers interleave, a history exceeds historyMaxLength by  *)
(* no more than the LPOPs that are on their way or were given up after an  *)
(* error or a crash: overlapping AddHistory calls never lose a trim.       *)
LengthBound ==
  \A c \in Convs : Len(hist[c]) <= MaxLen + Cardinality(Owing(c)) + skipped[c]

(* A history is never left without a TTL for good: a list that has none is *)
(* one an AddHistory still in flight will arm, unless its EXPIRE failed.   *)
ExpiryArmed ==
  \A c \in Convs : hist[c] # <<>> /\ c \notin armed =>
    \/ c \in unarmed
    \/ \E m \in Messages : pc[m] = "expire" /\ conv[m] = c

Bound == {m \in Messages : key[m] \in Keys /\ conv[m] # NoConv /\ pc[m] \in Looked}

(* Between two resets, all handlers of a session key work on one           *)
(* conversation, unless two of them looked the mapping up before either    *)
(* wrote it (and then, perhaps, only write it after a reset that comes in  *)
(* between), or the mapping was lost (its TTL, a failed GET or SET, a      *)
(* crash before SET).                                                      *)
SplitOnlyByRace ==
  \A m, n \in Bound :
    key[m] = key[n] /\ eraOf[m] = eraOf[n] /\ conv[m] # conv[n]
      => <<key[m], eraOf[m]>> \in forked

Recorded(c) == {hist[c][i].msg : i \in DOMAIN hist[c]}

(* A handler about to read its history after a reset finds no answer to a  *)
(* channel message handled before that reset.                              *)
FreshAfterReset(m) ==
  \A n \in Recorded(conv[m]) : key[n] = key[m] => eraOf[n] >= eraOf[m]

(* /reset separates what comes before it from what comes after it, unless  *)
(* it overtook a handler between its GET and its SET of the mapping.       *)
ResetIsolates ==
  \A m \in Messages :
    pc[m] = "list" /\ key[m] \in Keys /\ <<key[m], eraOf[m]>> \notin raced
      => FreshAfterReset(m)

-----------------------------------------------------------------------------
(* One handler at a time and no failure: the commands of AddHistory add up *)
(* to one step of the abstract log.  The log is what the list will be once *)
(* the running AddHistory is undone before its RPUSH or done after it.     *)
AbstractLog ==
  [c \in Convs |->
     LET pending == {m \in Messages : pc[m] = "push" /\ conv[m] = c}
     IN IF Owing(c) # {} /\ hist[c] # <<>> THEN Tail(hist[c])
        ELSE IF pending = {} THEN hist[c]
        ELSE hist[c] \o popped[CHOOSE m \in pending : TRUE]]

Log == INSTANCE HistoryLog WITH log <- AbstractLog

(* A sequence of AddHistory calls is an append that replaces a repeated    *)
(* prompt and keeps the newest MaxLen entries.                             *)
ImplementsLog == Log!Spec
=============================================================================
