------------------------------ MODULE WebChat ------------------------------
(***************************************************************************)
(* The requests about one session of the web API (pkg/web/api/             *)
(* handle_convo.go) and the message of a channel that is answered in one   *)
(* piece (handle_platform.go): each loads the session's row, lists the     *)
(* history, asks the model, runs the tools it calls and asks again, and in *)
(* the end keeps the answer in the history and its own copy of the row in  *)
(* the database.  A streaming request gives up after MaxLoopIterations     *)
(* rounds; the two others (tool_executor.go) ask until no tool is called.  *)
(* Redis, the database and the model are external and may fail each time.  *)
(* When the client of a request is gone its context is cancelled: then all *)
(* of them do.  Usage records, which nothing here reads, are left out, and *)
(* so is the TTL of the history, but for the end of it (ConvoHistory).     *)
(***************************************************************************)
EXTENDS Naturals, Sequences, SequencesExt, FiniteSets

CONSTANTS
  Requests,    (* requests about the session                               *)
  KindsOf,     (* what a request may be                                    *)
  Prompts,     (* texts a user may send                                    *)
  Old,         (* the author of what the history has at the start          *)
  MaxLen,      (* historyMaxLength                                         *)
  MaxIter,     (* MaxLoopIterations                                        *)
  MaxText,     (* bound: per request, pieces of text in a stream's answer  *)
  MaxRounds,   (* bound: rounds with tool calls of the unlimited loop      *)
  MaxFaults    (* bound: commands and statements that fail, clients that   *)
               (* leave and histories that expire                          *)

ASSUME WebChatAssumption ==
  /\ KindsOf \in [Requests -> SUBSET {"stream", "whole", "channel", "title", "delete"}]
  /\ Old \notin Requests /\ Prompts # {} /\ MaxLen \in Nat \ {0}
  /\ MaxIter \in Nat \ {0} /\ MaxText \in [Requests -> Nat] /\ MaxRounds \in Nat /\ MaxFaults \in Nat

VARIABLES
  row,     (* the session in the database, NoRow where there is none       *)
  hist,    (* the history: prompt and answer, a sequence of pieces of text *)
  req,     (* per request: what it is, where it is and what it has at hand *)
  gone,    (* requests whose client is gone                                *)
  faults,  (* what has been used up of the bound                           *)
  (* History variables, read by the properties only:                       *)
  title,   (* the title given last                                         *)
  astray,  (* whether title, or count, were written by a request that did  *)
           (* not know better                                              *)
  stale,   (* requests whose copy of the row others have changed since     *)
  passed,  (* requests that listed, or counted, a history that others have *)
           (* changed since, or one they could not read                    *)
  undercut (* streams that listed a history whose last entry others then   *)
           (* took away                                                    *)

ghosts == <<title, astray, stale, passed, undercut>>
vars   == <<row, hist, req, gone, faults, ghosts>>

NoTitle == "untitled"
NoRow   == [title |-> "no row", count |-> 0]
NoItem  == [by |-> Old, user |-> "none", text |-> <<>>]
Blank   == [title |-> NoTitle, count |-> 0]

Fresh == [at |-> "idle", kind |-> "none", user |-> "none", again |-> FALSE,
          copy |-> Blank, found |-> FALSE, shown |-> <<>>, hidden |-> NoItem,
          round |-> 1, answer |-> <<>>, said |-> 0, sent |-> <<>>,
          silent |-> {}, took |-> FALSE, over |-> FALSE]
Is(p, kind, point) == req[p].kind = kind /\ req[p].at = point
Set(p, change)     == req' = [req EXCEPT ![p] = change]
Goto(p, point)     == Set(p, [req[p] EXCEPT !.at = point])
(* What is no longer needed is forgotten, to keep the states few.          *)
Slim(r)            == [r EXCEPT !.shown = <<>>, !.hidden = NoItem, !.round = 1, !.answer = <<>>,
                                !.took = FALSE, !.over = FALSE]
Wiped(r, point)    == [Slim(r) EXCEPT !.at = point, !.copy = Blank, !.found = FALSE, !.user = "none"]
Done(p)            == Set(p, Wiped(req[p], "done"))
Forget(p)          == stale' = stale \ {p} /\ passed' = passed \ {p} /\ undercut' = undercut \ {p}
Kept               == {"stream", "channel"}
UnderWay(p)        == req[p].at \notin {"idle", "done"}
Holds(p)           == req[p].kind \in Kept /\ req[p].at \notin {"idle", "last", "report", "done"}
Items(s)           == {s[i] : i \in DOMAIN s}

(* A session that was never used, or has been used and saved.              *)
Init ==
  /\ \/ row = NoRow /\ hist = <<>>
     \/ /\ row = [Blank EXCEPT !.count = 1]
        /\ hist = <<[by |-> Old, user |-> CHOOSE u \in Prompts : TRUE, text |-> <<1>>]>>
  /\ req = [p \in Requests |-> Fresh]
  /\ gone = {} /\ faults = 0
  /\ title = NoTitle /\ astray = [title |-> FALSE, count |-> FALSE] /\ stale = {}
  /\ passed = {} /\ undercut = {}

(* The client of a stream leaves; to the other requests a context that is  *)
(* cancelled is no more than one of the failures.                          *)
Leave(p) ==
  /\ UnderWay(p) /\ req[p].kind = "stream" /\ p \notin gone /\ faults < MaxFaults
  /\ gone' = gone \union {p} /\ faults' = faults + 1
  /\ UNCHANGED <<row, hist, req, ghosts>>

Here(p)  == p \notin gone
Works(p) == Here(p) /\ UNCHANGED faults
Fails(p) == IF Here(p) THEN faults < MaxFaults /\ faults' = faults + 1 ELSE UNCHANGED faults

-----------------------------------------------------------------------------
(* Before the model is asked                                               *)

(* newConversation: what cannot be loaded is taken for a new session.  The *)
(* prompt of a request that keeps no answer does not matter here.          *)
Loaded(got) == IF got = NoRow THEN Blank ELSE got

Begin(p) ==
  /\ req[p].at = "idle"
  /\ \E kind \in KindsOf[p], u \in Prompts, again \in BOOLEAN, read \in BOOLEAN :
       /\ (again => kind = "stream") /\ (read \/ kind \in Kept)
       /\ IF read THEN UNCHANGED faults ELSE Fails(p)
       /\ Set(p, [req[p] EXCEPT !.kind = kind, !.again = again,
                    !.user = IF kind \in Kept THEN u ELSE @,
                    !.at = IF kind = "delete" THEN "delete" ELSE "list",
                    !.copy = IF kind \in Kept THEN Loaded(IF read THEN row ELSE NoRow) ELSE @])
       /\ stale' = IF read \/ row = NoRow THEN stale ELSE stale \union {p}
  /\ UNCHANGED <<row, hist, gone, title, astray, passed, undercut>>

(* prepareChatRequest: the last entry is hidden from the model when the    *)
(* prompt is sent again, or is to be answered again.                       *)
HidesNothing(p) == FALSE
Hides(p)        == req[p].again \/ Last(hist).user = req[p].user

(* RecentlyWithTokens: the latest entries, as many as are short enough.    *)
Recently == {SubSeq(hist, n, Len(hist)) : n \in 1..(Len(hist) + 1)}

(* ListHistory; a failure reads as no history.  What the requests that are *)
(* answered in one piece see is not kept.                                  *)
List(p) ==
  /\ Is(p, "stream", "list")
  /\ \E seen \in Recently :
       LET hide == seen # <<>> /\ Hides(p) IN
       /\ seen # <<>> => Here(p)
       /\ Set(p, [req[p] EXCEPT !.at = "ask", !.again = FALSE,
                    !.shown = IF hide THEN Front(seen) ELSE seen,
                    !.hidden = IF hide THEN Last(seen) ELSE NoItem])
  /\ UNCHANGED <<row, hist, gone, faults, ghosts>>

ListAll(p) ==
  /\ req[p].at = "list" /\ req[p].kind \in {"whole", "channel"}
  /\ Goto(p, "ask")
  /\ UNCHANGED <<row, hist, gone, faults, ghosts>>

-----------------------------------------------------------------------------
(* A streaming request                                                     *)

(* The stream begins; or it does not, or breaks off: what has been said    *)
(* till then is the answer.                                                *)
Ask(p) ==
  /\ Is(p, "stream", "ask") /\ Here(p)
  /\ Goto(p, "read")
  /\ UNCHANGED <<row, hist, gone, faults, ghosts>>

Break(p) ==
  /\ req[p].kind = "stream" /\ req[p].at \in {"ask", "read"}
  /\ Goto(p, "keep")
  /\ UNCHANGED <<row, hist, gone, faults, ghosts>>

(* A piece of text is sent at once; when the client is gone writing it may *)
(* fail, which ends the stream.                                            *)
Said(p)      == req[p].said + 1
LastPiece(p) == <<Said(p)>>
Answer(p)    == Append(req[p].answer, Said(p))
Piece(p) ==
  /\ Is(p, "stream", "read") /\ req[p].said < MaxText[p]
  /\ \E wrote \in BOOLEAN :
       /\ wrote \/ ~Here(p)
       /\ Set(p, [req[p] EXCEPT !.answer = Answer(p), !.said = Said(p),
                    !.sent = IF wrote THEN Append(@, Said(p)) ELSE @,
                    !.at = IF wrote THEN @ ELSE "keep"])
  /\ UNCHANGED <<row, hist, gone, faults, ghosts>>

(* The result that ends a stream may bring a last piece of text, which is  *)
(* sent with the tool calls, if they are sent.                             *)
Finish(p) ==
  /\ Is(p, "stream", "read")
  /\ \E text \in BOOLEAN, next \in {"keep", "tools"}, told \in BOOLEAN :
       /\ (text => req[p].said < MaxText[p]) /\ (told => text /\ next = "tools")
       /\ Set(p, [req[p] EXCEPT !.at = next,
                    !.answer = IF text THEN Answer(p) ELSE @,
                    !.said   = IF text THEN Said(p) ELSE @,
                    !.sent   = IF told THEN Append(@, Said(p)) ELSE @,
                    !.silent = IF text /\ ~told THEN @ \union {Said(p)} ELSE @])
  /\ UNCHANGED <<row, hist, gone, faults, ghosts>>

(* doExecuteToolCalls: the next round, if any tool answered and there is   *)
(* one left.                                                               *)
CountsNothing(p) == [req[p] EXCEPT !.at = "ask"]
NextRound(p)     == [req[p] EXCEPT !.at = "ask", !.round = @ + 1]
Tools(p) ==
  /\ Is(p, "stream", "tools")
  /\ \/ req[p].round < MaxIter /\ Set(p, NextRound(p))
     \/ Goto(p, "keep")
  /\ UNCHANGED <<row, hist, gone, faults, ghosts>>

-----------------------------------------------------------------------------
(* A request that is answered in one piece                                 *)

(* ExecuteToolCallLoop: what a reply with tool calls says is dropped; the  *)
(* model is asked again whether the tools answered or not.  An error is    *)
(* the end of it.                                                          *)
AskOnce(p) ==
  /\ req[p].kind \in {"whole", "channel"} /\ req[p].at = "ask"
  /\ \/ Goto(p, "report")
     \/ /\ req[p].round <= MaxRounds
        /\ Set(p, [NextRound(p) EXCEPT !.said = Said(p)])
     \/ Set(p, [req[p] EXCEPT !.said = Said(p), !.answer = LastPiece(p),
                  !.at = IF req[p].kind = "channel" THEN "keep" ELSE "report"])
  /\ UNCHANGED <<row, hist, gone, faults, ghosts>>

(* The HTTP response, or Reply, whatever becomes of it.                    *)
Report(p) ==
  /\ req[p].kind \in {"whole", "channel"} /\ req[p].at = "report"
  /\ Done(p) /\ Forget(p)
  /\ UNCHANGED <<row, hist, gone, faults, title, astray>>

-----------------------------------------------------------------------------
(* Keeping the answer                                                      *)

AfterKeep(p) == IF req[p].kind = "stream" THEN "last" ELSE "report"
Ready(p)     == Set(p, Wiped(req[p], AfterKeep(p)))

(* Who has seen, or counted, the history as it was.                        *)
Looking == {q \in Requests : req[q].kind = "stream" /\ req[q].at \in {"ask", "read", "tools", "keep", "pop"}}
Pushing == {q \in Requests : req[q].kind = "stream" /\ req[q].at = "push"}
Saving  == {q \in Requests : req[q].at \in {"find", "write"}}
Rewrite(p, s) ==
  /\ hist' = s
  /\ passed' = passed \union ((Looking \union Pushing \union Saving) \ {p})

(* The history expires, 24 hours after its last EXPIRE.                    *)
Lapse ==
  /\ hist # <<>> /\ faults < MaxFaults
  /\ Rewrite(Old, <<>>)
  /\ faults' = faults + 1
  /\ astray' = [astray EXCEPT !.count = TRUE]
  /\ UNCHANGED <<row, req, gone, title, stale, undercut>>

(* An empty answer is not kept.                                            *)
Skip(p) ==
  /\ req[p].at = "keep" /\ req[p].answer = <<>>
  /\ Ready(p)
  /\ UNCHANGED <<row, hist, gone, faults, ghosts>>

(* AddHistory: LINDEX of the last entry, which is to be replaced if it is  *)
(* about the same prompt; an error reads as no such entry.                 *)
Peek(p) ==
  /\ req[p].at = "keep" /\ req[p].answer # <<>>
  /\ \/ /\ Works(p)
        /\ Goto(p, IF hist # <<>> /\ Last(hist).user = req[p].user THEN "pop" ELSE "push")
        /\ UNCHANGED passed
     \/ /\ Fails(p) /\ Goto(p, "push")
        /\ passed' = passed \union {p}
  /\ UNCHANGED <<row, hist, gone, title, astray, stale, undercut>>

(* RPOP of whatever is last by now; its error is ignored.                  *)
Pop(p) ==
  /\ req[p].at = "pop"
  /\ \/ /\ Works(p) /\ hist # <<>>
        /\ Rewrite(p, Front(hist))
        /\ Set(p, [req[p] EXCEPT !.at = "push", !.took = TRUE])
        /\ undercut' = undercut \union (Looking \ {p})
     \/ /\ IF hist = <<>> THEN UNCHANGED faults ELSE Fails(p)
        /\ Goto(p, "push")
        /\ passed' = passed \union {p}
        /\ UNCHANGED <<hist, undercut>>
  /\ UNCHANGED <<row, gone, title, astray, stale>>

(* RPUSH; when it fails, Save is not called.  What is sent and fails may   *)
(* have taken effect; for a client that is gone nothing is sent any more.  *)
Item(p)      == [by |-> p, user |-> req[p].user, text |-> req[p].answer]
Overflows(n) == n > MaxLen
Push(p) ==
  /\ req[p].at = "push"
  /\ \/ /\ Works(p)
        /\ Rewrite(p, Append(hist, Item(p)))
        /\ Set(p, [Slim(req[p]) EXCEPT !.at = "expire", !.over = Overflows(Len(hist) + 1)])
        /\ UNCHANGED astray
     \/ /\ Fails(p) /\ Ready(p)
        /\ \/ /\ Here(p) /\ Rewrite(p, Append(hist, Item(p)))
              /\ astray' = [astray EXCEPT !.count = TRUE]
           \/ /\ UNCHANGED <<hist, passed>>
              /\ astray' = [astray EXCEPT !.count = @ \/ req[p].took]
  /\ undercut' = undercut \ {p}
  /\ UNCHANGED <<row, gone, title, stale>>

(* EXPIRE: on an error AddHistory returns, before it trims; the entry      *)
(* stays, and Save is not called.                                          *)
Expire(p) ==
  /\ req[p].at = "expire"
  /\ \/ /\ Works(p) /\ UNCHANGED astray
        /\ Goto(p, IF req[p].over THEN "trim" ELSE "count")
     \/ /\ Fails(p) /\ Ready(p)
        /\ astray' = [astray EXCEPT !.count = TRUE]
  /\ UNCHANGED <<row, hist, gone, title, stale, passed, undercut>>

(* LPOP of the oldest entry, once for each RPUSH that went over the limit. *)
Trim(p) ==
  /\ req[p].at = "trim"
  /\ \/ /\ Works(p) /\ Goto(p, "count") /\ UNCHANGED astray
        /\ IF hist = <<>> THEN UNCHANGED <<hist, passed>> ELSE Rewrite(p, Tail(hist))
     \/ /\ Fails(p) /\ Ready(p)
        /\ UNCHANGED <<hist, passed>> \/ (Here(p) /\ hist # <<>> /\ Rewrite(p, Tail(hist)))
        /\ astray' = [astray EXCEPT !.count = TRUE]
  /\ UNCHANGED <<row, gone, title, stale, undercut>>

(* Save: LLEN, whose failure counts as none.                               *)
OldCount(p) == req[p].copy.count
Counted(p)  == Len(hist)
Count(p) ==
  /\ req[p].at = "count"
  /\ \/ /\ Works(p) /\ Set(p, [req[p] EXCEPT !.at = "find", !.copy.count = Counted(p)])
        /\ passed' = passed \ {p}
     \/ /\ Fails(p) /\ Set(p, [req[p] EXCEPT !.at = "find", !.copy.count = 0])
        /\ passed' = passed \union {p}
  /\ UNCHANGED <<row, hist, gone, title, astray, stale, undercut>>

(* SaveSession: is there a row?  A failure reads as none.                  *)
Find(p) ==
  /\ req[p].at = "find"
  /\ \/ Works(p) /\ Set(p, [req[p] EXCEPT !.at = "write", !.found = (row # NoRow)])
     \/ Fails(p) /\ Set(p, [req[p] EXCEPT !.at = "write", !.found = FALSE])
  /\ UNCHANGED <<row, hist, gone, ghosts>>

(* The whole copy is written: over the row, if there still is one, or as a *)
(* new row, which fails if there is one by now.                            *)
Outdated  == {q \in Requests : Holds(q)}
Fits(p)   == req[p].found = (row # NoRow)
Write(p) ==
  /\ req[p].at = "write" /\ Ready(p)
  /\ \/ /\ Fits(p) /\ Works(p)
        /\ row' = req[p].copy
        /\ astray' = [title |-> p \in stale \/ (astray.title /\ row # NoRow), count |-> p \in passed]
        /\ title' = IF row = NoRow THEN req[p].copy.title ELSE title
        /\ stale' = (stale \union Outdated) \ {p}
     \/ /\ IF Fits(p) THEN Fails(p) ELSE UNCHANGED faults
        /\ astray' = [astray EXCEPT !.count = TRUE]
        /\ UNCHANGED <<row, title, stale>>
  /\ UNCHANGED <<hist, gone, passed, undercut>>

(* The title, made from the history, goes with the last event but one; the *)
(* handler then puts the answer into the chat log, if there is to be one.  *)
Final(p) ==
  /\ Is(p, "stream", "last")
  /\ Done(p) /\ Forget(p) /\ gone' = gone \ {p}
  /\ UNCHANGED <<row, hist, faults, title, astray>>

-----------------------------------------------------------------------------
(* The other requests                                                      *)

(* patchConversationTitle: without a history there is no title.            *)
ListForTitle(p) ==
  /\ Is(p, "title", "list")
  /\ \/ hist # <<>> /\ Goto(p, "title") /\ UNCHANGED faults
     \/ Done(p) /\ (IF hist = <<>> THEN UNCHANGED faults ELSE Fails(p))
  /\ UNCHANGED <<row, hist, gone, ghosts>>

(* GetHistorySummary and UpdateSession, which reads the row ...            *)
Select(p) ==
  /\ Is(p, "title", "title")
  /\ \/ row # NoRow /\ Goto(p, "rename") /\ UNCHANGED faults
     \/ Done(p) /\ (IF row = NoRow THEN UNCHANGED faults ELSE Fails(p))
  /\ UNCHANGED <<row, hist, gone, ghosts>>

(* ... and then writes the title and nothing else, if there still is one.  *)
NewTitle(p) == [row EXCEPT !.title = p]
Retitle(p) ==
  /\ Is(p, "title", "rename") /\ Done(p)
  /\ \/ /\ row # NoRow /\ UNCHANGED faults
        /\ row' = NewTitle(p)
        /\ title' = p /\ astray' = [astray EXCEPT !.title = FALSE]
        /\ stale' = stale \union Outdated
     \/ /\ IF row = NoRow THEN UNCHANGED faults ELSE Fails(p)
        /\ UNCHANGED <<row, title, astray, stale>>
  /\ UNCHANGED <<hist, gone, passed, undercut>>

(* The handler of DELETE of a session: the history stays.                  *)
Delete(p) ==
  /\ Is(p, "delete", "delete") /\ Done(p)
  /\ row' = NoRow /\ title' = NoTitle
  /\ stale' = stale \union Outdated
  /\ UNCHANGED <<hist, gone, faults, astray, passed, undercut>>

-----------------------------------------------------------------------------
Step(p) ==
  \/ List(p) \/ ListAll(p) \/ Ask(p) \/ Break(p) \/ Piece(p) \/ Finish(p) \/ Tools(p)
  \/ AskOnce(p) \/ Report(p) \/ Skip(p) \/ Peek(p) \/ Pop(p) \/ Push(p) \/ Expire(p) \/ Trim(p)
  \/ Count(p) \/ Find(p) \/ Write(p) \/ Final(p)
  \/ ListForTitle(p) \/ Select(p) \/ Retitle(p) \/ Delete(p)

Next == Lapse \/ \E p \in Requests : Begin(p) \/ Leave(p) \/ Step(p)

(* A goroutine for each request: it runs as long as it can.                *)
Spec == Init /\ [][Next]_vars /\ \A p \in Requests : WF_vars(Step(p))

-----------------------------------------------------------------------------
(* Properties                                                              *)

Pieces(n)     == [i \in 1..n |-> i]
InOrder(s, S) == Items(s) = S /\ \A i, j \in DOMAIN s : i < j => s[i] < s[j]

(* The answer of a stream that the history keeps is all the model said,    *)
(* over all rounds and in order, and the client was sent just that, but    *)
(* for a last piece that came with the end of a stream; also when the      *)
(* stream broke off, and it never is half an answer that is kept because   *)
(* the client left.  A channel's is the last reply of the model.           *)
SavedIsSaid ==
  \A e \in Items(hist) : e.by \in Requests =>
    LET r == req[e.by] IN
    IF r.kind = "stream"
    THEN e.text = Pieces(r.said) /\ InOrder(r.sent, (1..r.said) \ r.silent)
    ELSE e.text = <<r.said>>

(* Keeping a stream's answer never takes from the history what its model   *)
(* was shown, whatever others add, trim or let expire meanwhile, also      *)
(* between LINDEX and RPOP, unless another request took an entry away with *)
(* RPOP; and an answer the model was not shown because its prompt was sent *)
(* again is gone when the new one comes, unless others changed the history *)
(* since it was listed, LINDEX or RPOP failed, or the prompt is another.   *)
RetryReplaces ==
  [][\A p \in Requests :
       LET r == req[p] IN
       r.kind = "stream" /\ req'[p].at # r.at =>
         /\ r.at = "pop" /\ p \notin undercut
              => (Items(hist) \ Items(hist')) \cap Items(r.shown) = {}
         /\ r.at = "push" /\ r.hidden # NoItem /\ r.hidden.user = r.user /\ p \notin passed
              => r.hidden \notin Items(hist')]_vars

(* Requests that changed the history and may still save the count.         *)
WillCount(p) == (req[p].at = "push" /\ req[p].took)
                \/ req[p].at \in {"expire", "trim", "count", "find", "write"}

(* The row has the title that was given last and counts the history, when  *)
(* no request is between its first change of the history and its Save;     *)
(* unless one saved a copy, or a count, that another had outdated, a       *)
(* command failed after the history was changed, or the history expired.   *)
RowIsTrue ==
  row # NoRow =>
    /\ astray.title \/ row.title = title
    /\ astray.count \/ row.count = Len(hist) \/ \E p \in Requests : WillCount(p)

(* However often the model calls tools a stream ends, and so does every    *)
(* other request as long as the model in time stops calling them.          *)
RequestsEnd == \A p \in Requests : UnderWay(p) ~> req[p].at = "done"
=============================================================================
