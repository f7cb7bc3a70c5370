--------------------------- MODULE WebChatProofs ---------------------------
(***************************************************************************)
(* Theorems about the requests of the web API on one session, for any      *)
(* number of requests of any kinds, prompts, rounds, pieces and failures.  *)
(***************************************************************************)
EXTENDS WebChat, TLAPS

-----------------------------------------------------------------------------
(* Sequences                                                               *)

(* What Front and Last take apart. *)
LEMMA FrontLast ==
  ASSUME NEW S, NEW s \in Seq(S), s # <<>>
  PROVE  /\ Front(s) \in Seq(S) /\ Len(Front(s)) = Len(s) - 1
         /\ \A i \in 1..(Len(s) - 1) : Front(s)[i] = s[i]
         /\ Last(s) = s[Len(s)] /\ Last(s) \in S
         /\ Len(s) \in Nat \ {0}
<1>1. Len(s) \in Nat /\ Len(s) # 0
  OBVIOUS
<1>2. Last(s) = s[Len(s)] /\ Last(s) \in S
  BY <1>1 DEF Last
<1>3. Len(s) - 1 \in Nat
  BY <1>1
<1>4. Front(s) = [i \in 1..(Len(s) - 1) |-> s[i]]
  BY <1>1 DEF Front
<1>5. Front(s) \in Seq(S) /\ Len(Front(s)) = Len(s) - 1
  BY <1>3, <1>4
<1>6. QED
  BY <1>1, <1>2, <1>3, <1>4, <1>5

(* What a longer sequence has. *)
LEMMA Appended ==
  ASSUME NEW S, NEW s \in Seq(S), NEW x \in S
  PROVE  /\ Append(s, x) \in Seq(S) /\ Append(s, x) # <<>>
         /\ Len(Append(s, x)) = Len(s) + 1 /\ Len(s) \in Nat
         /\ DOMAIN Append(s, x) = 1..(Len(s) + 1) /\ DOMAIN s = 1..Len(s)
         /\ \A i \in 1..Len(s) : Append(s, x)[i] = s[i]
         /\ Append(s, x)[Len(s) + 1] = x
         /\ Last(Append(s, x)) = x
         /\ Items(Append(s, x)) = Items(s) \union {x}
<1>1. /\ Append(s, x) \in Seq(S) /\ Append(s, x) # <<>>
      /\ Len(Append(s, x)) = Len(s) + 1 /\ Len(s) \in Nat
      /\ DOMAIN Append(s, x) = 1..(Len(s) + 1) /\ DOMAIN s = 1..Len(s)
      /\ \A i \in 1..Len(s) : Append(s, x)[i] = s[i]
      /\ Append(s, x)[Len(s) + 1] = x
  OBVIOUS
<1>2. Items(Append(s, x)) = Items(s) \union {x}
  <2>1. ASSUME NEW y \in Items(Append(s, x)) PROVE y \in Items(s) \union {x}
    BY <1>1, <2>1 DEF Items
  <2>2. ASSUME NEW y \in Items(s) \union {x} PROVE y \in Items(Append(s, x))
    <3>1. CASE y = x
      BY <1>1, <3>1 DEF Items
    <3>2. CASE y \in Items(s)
      BY <1>1, <3>2 DEF Items
    <3>3. QED
      BY <2>2, <3>1, <3>2
  <2>3. QED
    BY <2>1, <2>2
<1>3. Last(Append(s, x)) = x
  BY <1>1 DEF Last
<1>4. QED
  BY <1>1, <1>2, <1>3

(* One more piece, in order. *)
LEMMA OnePieceMore ==
  ASSUME NEW n \in Nat
  PROVE  /\ Pieces(n) \in Seq(Nat) /\ Append(Pieces(n), n + 1) = Pieces(n + 1)
<1>1. Pieces(n) \in Seq(Nat) /\ Len(Pieces(n)) = n /\ DOMAIN Pieces(n) = 1..n
      /\ \A i \in 1..n : Pieces(n)[i] = i
  BY DEF Pieces
<1>2. Pieces(n + 1) \in Seq(Nat) /\ Len(Pieces(n + 1)) = n + 1
      /\ \A i \in 1..(n + 1) : Pieces(n + 1)[i] = i
  BY DEF Pieces
<1>3. /\ Append(Pieces(n), n + 1) \in Seq(Nat) /\ Len(Append(Pieces(n), n + 1)) = n + 1
      /\ \A i \in 1..n : Append(Pieces(n), n + 1)[i] = i
      /\ Append(Pieces(n), n + 1)[n + 1] = n + 1
  BY <1>1, Appended
<1>4. \A i \in 1..(n + 1) : Append(Pieces(n), n + 1)[i] = i
  BY <1>3
<1>5. QED
  BY <1>1, <1>2, <1>3, <1>4

(* A number larger than all of a list that is in order goes to its end. *)
LEMMA LargestLast ==
  ASSUME NEW s \in Seq(Nat), NEW S \in SUBSET Nat, InOrder(s, S),
         NEW x \in Nat, \A y \in S : y < x
  PROVE  InOrder(Append(s, x), S \union {x})
<1>1. Items(Append(s, x)) = S \union {x}
  BY Appended DEF InOrder
<1>2. ASSUME NEW i \in DOMAIN Append(s, x), NEW j \in DOMAIN Append(s, x), i < j
      PROVE  Append(s, x)[i] < Append(s, x)[j]
  <2>1. /\ DOMAIN Append(s, x) = 1..(Len(s) + 1) /\ DOMAIN s = 1..Len(s) /\ Len(s) \in Nat
        /\ \A k \in 1..Len(s) : Append(s, x)[k] = s[k]
        /\ Append(s, x)[Len(s) + 1] = x
    BY Appended
  <2>2. i \in 1..Len(s) /\ Append(s, x)[i] = s[i] /\ s[i] \in S
    BY <1>2, <2>1 DEF InOrder, Items
  <2>3. CASE j = Len(s) + 1
    BY <2>1, <2>2, <2>3
  <2>4. CASE j \in 1..Len(s)
    BY <1>2, <2>1, <2>2, <2>4 DEF InOrder
  <2>5. QED
    BY <2>1, <2>3, <2>4
<1>3. QED
  BY <1>1, <1>2 DEF InOrder
-----------------------------------------------------------------------------
(* The types                                                               *)

Kinds   == {"none", "stream", "whole", "channel", "title", "delete"}
Points  == {"idle", "delete", "list", "ask", "read", "tools", "keep", "pop", "push", "expire",
            "trim", "count", "find", "write", "report", "last", "title", "rename", "done"}
Titles  == Requests \union {NoTitle, "no row"}
Users   == Prompts \union {"none"}
Rows    == [title : Titles, count : Nat]
Entries == [by : Requests \union {Old}, user : Users, text : Seq(Nat)]
States  == [at : Points, kind : Kinds, user : Users, again : BOOLEAN,
            copy : Rows, found : BOOLEAN, shown : Seq(Entries), hidden : Entries,
            round : Nat, answer : Seq(Nat), said : Nat, sent : Seq(Nat),
            silent : SUBSET Nat, took : BOOLEAN, over : BOOLEAN]

Typed ==
  /\ row \in Rows /\ hist \in Seq(Entries) /\ req \in [Requests -> States]
  /\ gone \subseteq Requests /\ stale \subseteq Requests /\ passed \subseteq Requests
  /\ undercut \subseteq Requests /\ astray \in [title : BOOLEAN, count : BOOLEAN]

LEMMA BlankTyped == NoRow \in Rows /\ Blank \in Rows /\ NoItem \in Entries /\ Fresh \in States
<1>1. NoRow \in Rows /\ Blank \in Rows
  BY DEF NoRow, Blank, Rows, Titles, NoTitle
<1>2. <<>> \in Seq(Nat) /\ <<>> \in Seq(Entries)
  OBVIOUS
<1>3. NoItem \in Entries
  BY <1>2 DEF NoItem, Entries, Users
<1>4. Fresh \in States
  BY <1>1, <1>2, <1>3 DEF Fresh, States, Points, Kinds, Users
<1>5. QED
  BY <1>1, <1>3, <1>4

LEMMA InitTyped == Init => Typed
<1>1. SUFFICES ASSUME Init PROVE Typed
  OBVIOUS
<1>2. req \in [Requests -> States] /\ row \in Rows
  <2>1. [Blank EXCEPT !.count = 1] \in Rows
    BY DEF Blank, Rows, Titles, NoTitle
  <2>2. QED
    BY <1>1, <2>1, BlankTyped DEF Init
<1>3. hist \in Seq(Entries)
  <2>1. PICK u \in Prompts : u = CHOOSE v \in Prompts : TRUE
    BY WebChatAssumption
  <2>2. [by |-> Old, user |-> u, text |-> <<1>>] \in Entries
    <3>1. <<1>> \in Seq(Nat)
      OBVIOUS
    <3>2. QED
      BY <3>1 DEF Entries, Users
  <2>3. <<[by |-> Old, user |-> u, text |-> <<1>>]>> \in Seq(Entries)
    BY <2>2
  <2>4. <<>> \in Seq(Entries)
    OBVIOUS
  <2>5. CASE hist = <<>>
    BY <2>4, <2>5
  <2>6. CASE hist # <<>>
    BY <1>1, <2>1, <2>3, <2>6 DEF Init
  <2>7. QED
    BY <2>5, <2>6
<1>4. QED
  BY <1>1, <1>2, <1>3 DEF Init, Typed

(* A change of one request's state. *)
LEMMA SetTyped ==
  ASSUME NEW p \in Requests, NEW r \in States, req \in [Requests -> States], Set(p, r)
  PROVE  /\ req' \in [Requests -> States] /\ req'[p] = r
         /\ \A q \in Requests \ {p} : req'[q] = req[q]
BY DEF Set

LEMMA FieldsTyped ==
  ASSUME NEW r \in States
  PROVE  /\ r.at \in Points /\ r.kind \in Kinds /\ r.user \in Users /\ r.again \in BOOLEAN
         /\ r.copy \in Rows /\ r.found \in BOOLEAN /\ r.shown \in Seq(Entries)
         /\ r.hidden \in Entries /\ r.round \in Nat /\ r.answer \in Seq(Nat)
         /\ r.said \in Nat /\ r.sent \in Seq(Nat) /\ r.silent \in SUBSET Nat
         /\ r.took \in BOOLEAN /\ r.over \in BOOLEAN
BY DEF States

LEMMA SlimTyped ==
  ASSUME NEW r \in States
  PROVE  /\ Slim(r) \in States
         /\ Slim(r).kind = r.kind /\ Slim(r).at = r.at /\ Slim(r).said = r.said
         /\ Slim(r).sent = r.sent /\ Slim(r).silent = r.silent /\ Slim(r).copy = r.copy
<1>1. <<>> \in Seq(Entries) /\ <<>> \in Seq(Nat)
  OBVIOUS
<1>2. QED
  BY <1>1, BlankTyped DEF Slim, States

LEMMA WipedTyped ==
  ASSUME NEW r \in States, NEW point \in Points
  PROVE  /\ Wiped(r, point) \in States
         /\ Wiped(r, point).at = point /\ Wiped(r, point).kind = r.kind
         /\ Wiped(r, point).said = r.said /\ Wiped(r, point).sent = r.sent
         /\ Wiped(r, point).silent = r.silent
<1>1. Blank \in Rows
  BY BlankTyped
<1> DEFINE slim == Slim(r)
<1>2. slim \in States /\ slim.kind = r.kind /\ slim.said = r.said
      /\ slim.sent = r.sent /\ slim.silent = r.silent
  BY SlimTyped
<1>3. Wiped(r, point) = [slim EXCEPT !.at = point, !.copy = Blank, !.found = FALSE, !.user = "none"]
  BY DEF Wiped
<1> HIDE DEF slim
<1> DEFINE w == [slim EXCEPT !.at = point, !.copy = Blank, !.found = FALSE, !.user = "none"]
<1>4. w \in States /\ w.at = point /\ w.kind = slim.kind /\ w.said = slim.said
      /\ w.sent = slim.sent /\ w.silent = slim.silent
  BY <1>1, <1>2 DEF States, Users
<1>5. QED
  BY <1>2, <1>3, <1>4

(* What is left of a request that has come to its end, or to its answer.   *)
LEMMA WipedShape ==
  ASSUME NEW p \in Requests, NEW point \in Points, req \in [Requests -> States],
         Set(p, Wiped(req[p], point))
  PROVE  /\ req' \in [Requests -> States]
         /\ \A q \in Requests \ {p} : req'[q] = req[q]
         /\ req'[p].at = point /\ req'[p].kind = req[p].kind /\ req'[p].said = req[p].said
         /\ req'[p].sent = req[p].sent /\ req'[p].silent = req[p].silent
<1>1. PICK r \in States : r = Wiped(req[p], point)
  BY WipedTyped
<1>2. r.at = point /\ r.kind = req[p].kind /\ r.said = req[p].said
      /\ r.sent = req[p].sent /\ r.silent = req[p].silent
  BY <1>1, WipedTyped
<1>3. /\ req' \in [Requests -> States] /\ req'[p] = r
      /\ \A q \in Requests \ {p} : req'[q] = req[q]
  BY <1>1, SetTyped
<1>4. QED
  BY <1>2, <1>3

LEMMA DoneTyped ==
  ASSUME NEW p \in Requests, req \in [Requests -> States], Done(p)
  PROVE  /\ req' \in [Requests -> States]
         /\ \A q \in Requests \ {p} : req'[q] = req[q]
         /\ req'[p].at = "done" /\ req'[p].kind = req[p].kind /\ req'[p].said = req[p].said
         /\ req'[p].sent = req[p].sent /\ req'[p].silent = req[p].silent
BY WipedShape DEF Done, Points

LEMMA ReadyShape ==
  ASSUME NEW p \in Requests, req \in [Requests -> States], Ready(p)
  PROVE  /\ req' \in [Requests -> States]
         /\ \A q \in Requests \ {p} : req'[q] = req[q]
         /\ req'[p].at \in {"last", "report"} /\ req'[p].kind = req[p].kind
         /\ req'[p].said = req[p].said
         /\ req'[p].sent = req[p].sent /\ req'[p].silent = req[p].silent
<1>1. AfterKeep(p) \in {"last", "report"} /\ AfterKeep(p) \in Points
  BY DEF AfterKeep, Points
<1>2. Set(p, Wiped(req[p], AfterKeep(p)))
  BY DEF Ready
<1>3. QED
  BY <1>1, <1>2, WipedShape

-----------------------------------------------------------------------------
(* What each step does to its request                                      *)

(* Nothing of a request changes but how far it is. *)
LEMMA GotoShape ==
  ASSUME NEW p \in Requests, NEW point \in Points, req \in [Requests -> States], Goto(p, point)
  PROVE  /\ req' \in [Requests -> States]
         /\ \A q \in Requests \ {p} : req'[q] = req[q]
         /\ req'[p].at = point /\ req'[p].kind = req[p].kind /\ req'[p].user = req[p].user
         /\ req'[p].copy = req[p].copy /\ req'[p].shown = req[p].shown
         /\ req'[p].hidden = req[p].hidden /\ req'[p].answer = req[p].answer
         /\ req'[p].said = req[p].said /\ req'[p].sent = req[p].sent
         /\ req'[p].silent = req[p].silent
<1> DEFINE r == [req[p] EXCEPT !.at = point]
<1>1. /\ r \in States /\ r.at = point /\ r.kind = req[p].kind /\ r.user = req[p].user
      /\ r.copy = req[p].copy /\ r.shown = req[p].shown
      /\ r.hidden = req[p].hidden /\ r.answer = req[p].answer
      /\ r.said = req[p].said /\ r.sent = req[p].sent /\ r.silent = req[p].silent
  BY DEF States
<1>2. req' = [req EXCEPT ![p] = r]
  BY DEF Goto, Set
<1> HIDE DEF r
<1>3. QED
  BY <1>1, <1>2

LEMMA BeginShape ==
  ASSUME Typed, NEW p \in Requests, Begin(p)
  PROVE  /\ req' \in [Requests -> States]
         /\ \A q \in Requests \ {p} : req'[q] = req[q]
         /\ req[p].at = "idle" /\ req'[p].at \in {"delete", "list"}
         /\ req'[p].answer = req[p].answer /\ req'[p].said = req[p].said
         /\ req'[p].sent = req[p].sent /\ req'[p].silent = req[p].silent
         /\ (req'[p].kind \in Kept /\ row # NoRow) => (req'[p].copy = row \/ p \in stale')
         /\ stale' = stale \/ stale' = stale \union {p}
<1>1. PICK kind \in KindsOf[p], u \in Prompts, again \in BOOLEAN, read \in BOOLEAN :
        /\ (again => kind = "stream") /\ (read \/ kind \in Kept)
        /\ Set(p, [req[p] EXCEPT !.kind = kind, !.again = again,
                     !.user = IF kind \in Kept THEN u ELSE @,
                     !.at = IF kind = "delete" THEN "delete" ELSE "list",
                     !.copy = IF kind \in Kept THEN Loaded(IF read THEN row ELSE NoRow) ELSE @])
        /\ stale' = IF read \/ row = NoRow THEN stale ELSE stale \union {p}
  BY DEF Begin
<1>2. kind \in Kinds
  BY WebChatAssumption DEF Kinds
<1>3. PICK c \in Rows : c = IF kind \in Kept THEN Loaded(IF read THEN row ELSE NoRow) ELSE req[p].copy
  BY BlankTyped DEF Loaded, Typed, States
<1>4. PICK v \in Users : v = IF kind \in Kept THEN u ELSE req[p].user
  BY DEF Typed, States, Users
<1>5. PICK a \in {"delete", "list"} : a = IF kind = "delete" THEN "delete" ELSE "list"
  OBVIOUS
<1> DEFINE r == [req[p] EXCEPT !.kind = kind, !.again = again, !.user = v, !.at = a, !.copy = c]
<1>6. /\ r \in States /\ r.at = a /\ r.kind = kind /\ r.copy = c
      /\ r.answer = req[p].answer /\ r.said = req[p].said
      /\ r.sent = req[p].sent /\ r.silent = req[p].silent
  <2>1. req[p] \in States /\ a \in Points
    BY DEF Typed, Points
  <2>2. QED
    BY <1>2, <2>1 DEF States
<1>7. Set(p, r)
  BY <1>1, <1>3, <1>4, <1>5 DEF Set
<1> HIDE DEF r
<1>8. /\ req' \in [Requests -> States] /\ req'[p] = r
      /\ \A q \in Requests \ {p} : req'[q] = req[q]
  BY <1>6, <1>7, SetTyped DEF Typed
<1>9. (kind \in Kept /\ row # NoRow) => (c = row \/ p \in stale')
  BY <1>1, <1>3 DEF Loaded
<1>10. req[p].at = "idle"
  BY DEF Begin
<1>11. QED
  BY <1>1, <1>6, <1>8, <1>9, <1>10

LEMMA PieceShape ==
  ASSUME Typed, NEW p \in Requests, Piece(p)
  PROVE  /\ req' \in [Requests -> States]
         /\ \A q \in Requests \ {p} : req'[q] = req[q]
         /\ req[p].at = "read" /\ req'[p].at \in {"read", "keep"}
         /\ req[p].kind = "stream" /\ req'[p].kind = "stream" /\ req'[p].user = req[p].user
         /\ req'[p].copy = req[p].copy
         /\ req'[p].shown = req[p].shown /\ req'[p].hidden = req[p].hidden
         /\ req'[p].answer = Answer(p) /\ req'[p].said = Said(p)
         /\ \/ req'[p].sent = Append(req[p].sent, Said(p))
            \/ req'[p].sent = req[p].sent /\ req'[p].at = "keep" /\ ~Here(p)
         /\ req'[p].silent = req[p].silent
<1>1. PICK wrote \in BOOLEAN :
        Set(p, [req[p] EXCEPT !.answer = Answer(p), !.said = Said(p),
                  !.sent = IF wrote THEN Append(@, Said(p)) ELSE @,
                  !.at = IF wrote THEN @ ELSE "keep"])
        /\ (wrote \/ ~Here(p))
  BY DEF Piece
<1>2. req[p] \in States /\ req[p].at = "read" /\ req[p].kind = "stream"
  BY DEF Piece, Is, Typed
<1>3. Said(p) \in Nat /\ req[p].sent \in Seq(Nat) /\ req[p].answer \in Seq(Nat)
  BY <1>2, FieldsTyped DEF Said
<1>4. Answer(p) \in Seq(Nat) /\ Append(req[p].sent, Said(p)) \in Seq(Nat)
  BY <1>3, Appended DEF Answer
<1>5. PICK t \in Seq(Nat) : t = IF wrote THEN Append(req[p].sent, Said(p)) ELSE req[p].sent
  BY <1>3, <1>4
<1>6. PICK a \in {"read", "keep"} : a = IF wrote THEN req[p].at ELSE "keep"
  BY <1>2
<1> DEFINE r == [req[p] EXCEPT !.answer = Answer(p), !.said = Said(p), !.sent = t, !.at = a]
<1>7. /\ r \in States /\ r.at = a /\ r.kind = "stream" /\ r.user = req[p].user
      /\ r.copy = req[p].copy /\ r.shown = req[p].shown /\ r.hidden = req[p].hidden
      /\ r.answer = Answer(p) /\ r.said = Said(p) /\ r.sent = t /\ r.silent = req[p].silent
  <2>1. a \in Points
    BY DEF Points
  <2>2. QED
    BY <1>2, <1>3, <1>4, <2>1 DEF States
<1>8. Set(p, r)
  BY <1>1, <1>5, <1>6 DEF Set
<1> HIDE DEF r
<1>9. /\ req' \in [Requests -> States] /\ req'[p] = r
      /\ \A q \in Requests \ {p} : req'[q] = req[q]
  BY <1>7, <1>8, SetTyped DEF Typed
<1>10. QED
  BY <1>1, <1>2, <1>5, <1>6, <1>7, <1>9

LEMMA FinishShape ==
  ASSUME Typed, NEW p \in Requests, Finish(p)
  PROVE  /\ req' \in [Requests -> States]
         /\ \A q \in Requests \ {p} : req'[q] = req[q]
         /\ req[p].at = "read" /\ req'[p].at \in {"keep", "tools"}
         /\ req[p].kind = "stream" /\ req'[p].kind = "stream" /\ req'[p].user = req[p].user
         /\ req'[p].copy = req[p].copy
         /\ req'[p].shown = req[p].shown /\ req'[p].hidden = req[p].hidden
         /\ \/ /\ req'[p].answer = req[p].answer /\ req'[p].said = req[p].said
               /\ req'[p].sent = req[p].sent /\ req'[p].silent = req[p].silent
            \/ /\ req'[p].answer = Answer(p) /\ req'[p].said = Said(p)
               /\ req'[p].sent = Append(req[p].sent, Said(p)) /\ req'[p].silent = req[p].silent
            \/ /\ req'[p].answer = Answer(p) /\ req'[p].said = Said(p)
               /\ req'[p].sent = req[p].sent /\ req'[p].silent = req[p].silent \union {Said(p)}
<1>1. PICK text \in BOOLEAN, next \in {"keep", "tools"}, told \in BOOLEAN :
        /\ told => text
        /\ Set(p, [req[p] EXCEPT !.at = next,
                    !.answer = IF text THEN Answer(p) ELSE @,
                    !.said   = IF text THEN Said(p) ELSE @,
                    !.sent   = IF told THEN Append(@, Said(p)) ELSE @,
                    !.silent = IF text /\ ~told THEN @ \union {Said(p)} ELSE @])
  BY DEF Finish
<1>2. req[p] \in States /\ req[p].at = "read" /\ req[p].kind = "stream"
  BY DEF Finish, Is, Typed
<1>3. /\ Said(p) \in Nat /\ req[p].said \in Nat
      /\ req[p].sent \in Seq(Nat) /\ req[p].answer \in Seq(Nat)
      /\ req[p].silent \in SUBSET Nat
  BY <1>2, FieldsTyped DEF Said
<1>4. Answer(p) \in Seq(Nat) /\ Append(req[p].sent, Said(p)) \in Seq(Nat)
  BY <1>3, Appended DEF Answer
<1>5. PICK t \in Seq(Nat) : t = IF told THEN Append(req[p].sent, Said(p)) ELSE req[p].sent
  BY <1>3, <1>4
<1>6. PICK b \in Seq(Nat) : b = IF text THEN Answer(p) ELSE req[p].answer
  BY <1>3, <1>4
<1>7. PICK n \in Nat : n = IF text THEN Said(p) ELSE req[p].said
  BY <1>3
<1>8. PICK h \in SUBSET Nat :
        h = IF text /\ ~told THEN req[p].silent \union {Said(p)} ELSE req[p].silent
  BY <1>3
<1> DEFINE r == [req[p] EXCEPT !.at = next, !.answer = b, !.said = n, !.sent = t, !.silent = h]
<1>9. /\ r \in States /\ r.at = next /\ r.kind = "stream" /\ r.user = req[p].user
      /\ r.copy = req[p].copy /\ r.shown = req[p].shown /\ r.hidden = req[p].hidden
      /\ r.answer = b /\ r.said = n /\ r.sent = t /\ r.silent = h
  <2>1. next \in Points
    BY DEF Points
  <2>2. QED
    BY <1>2, <2>1 DEF States
<1>10. Set(p, r)
  BY <1>1, <1>5, <1>6, <1>7, <1>8 DEF Set
<1> HIDE DEF r
<1>11. /\ req' \in [Requests -> States] /\ req'[p] = r
       /\ \A q \in Requests \ {p} : req'[q] = req[q]
  BY <1>9, <1>10, SetTyped DEF Typed
<1>12. CASE ~text
  BY <1>1, <1>2, <1>5, <1>6, <1>7, <1>8, <1>9, <1>11, <1>12
<1>13. CASE text /\ told
  BY <1>1, <1>2, <1>5, <1>6, <1>7, <1>8, <1>9, <1>11, <1>13
<1>14. CASE text /\ ~told
  BY <1>1, <1>2, <1>5, <1>6, <1>7, <1>8, <1>9, <1>11, <1>14
<1>15. QED
  BY <1>12, <1>13, <1>14

LEMMA ListShape ==
  ASSUME Typed, NEW p \in Requests, List(p)
  PROVE  /\ req' \in [Requests -> States]
         /\ \A q \in Requests \ {p} : req'[q] = req[q]
         /\ req[p].at = "list" /\ req'[p].at = "ask"
         /\ req[p].kind = "stream" /\ req'[p].kind = "stream" /\ req'[p].user = req[p].user
         /\ req'[p].copy = req[p].copy
         /\ req'[p].answer = req[p].answer /\ req'[p].said = req[p].said
         /\ req'[p].sent = req[p].sent /\ req'[p].silent = req[p].silent
         /\ \E seen \in Recently :
              LET hide == seen # <<>> /\ Hides(p) IN
              /\ req'[p].shown = IF hide THEN Front(seen) ELSE seen
              /\ req'[p].hidden = IF hide THEN Last(seen) ELSE NoItem
<1>1. PICK seen \in Recently :
        LET hide == seen # <<>> /\ Hides(p) IN
        Set(p, [req[p] EXCEPT !.at = "ask", !.again = FALSE,
                    !.shown = IF hide THEN Front(seen) ELSE seen,
                    !.hidden = IF hide THEN Last(seen) ELSE NoItem])
  BY DEF List
<1>2. req[p] \in States /\ req[p].at = "list" /\ req[p].kind = "stream"
  BY DEF List, Is, Typed
<1>3. seen \in Seq(Entries)
  <2>1. PICK n \in 1..(Len(hist) + 1) : seen = SubSeq(hist, n, Len(hist))
    BY DEF Recently
  <2>2. hist \in Seq(Entries)
    BY DEF Typed
  <2>3. QED
    BY <2>1, <2>2
<1>4. PICK sh \in Seq(Entries) : sh = IF seen # <<>> /\ Hides(p) THEN Front(seen) ELSE seen
  BY <1>3, FrontLast
<1>5. PICK h \in Entries : h = IF seen # <<>> /\ Hides(p) THEN Last(seen) ELSE NoItem
  BY <1>3, FrontLast, BlankTyped
<1> DEFINE r == [req[p] EXCEPT !.at = "ask", !.again = FALSE, !.shown = sh, !.hidden = h]
<1>6. /\ r \in States /\ r.at = "ask" /\ r.kind = "stream" /\ r.user = req[p].user
      /\ r.copy = req[p].copy /\ r.shown = sh /\ r.hidden = h
      /\ r.answer = req[p].answer /\ r.said = req[p].said
      /\ r.sent = req[p].sent /\ r.silent = req[p].silent
  BY <1>2 DEF States, Points
<1>7. Set(p, r)
  BY <1>1, <1>4, <1>5 DEF Set
<1> HIDE DEF r
<1>8. /\ req' \in [Requests -> States] /\ req'[p] = r
      /\ \A q \in Requests \ {p} : req'[q] = req[q]
  BY <1>6, <1>7, SetTyped DEF Typed
<1>9. QED
  BY <1>2, <1>4, <1>5, <1>6, <1>8

LEMMA NextRoundShape ==
  ASSUME NEW p \in Requests, req[p] \in States
  PROVE  /\ NextRound(p) \in States /\ NextRound(p).at = "ask" /\ NextRound(p).kind = req[p].kind
         /\ NextRound(p).user = req[p].user /\ NextRound(p).copy = req[p].copy
         /\ NextRound(p).shown = req[p].shown /\ NextRound(p).hidden = req[p].hidden
         /\ NextRound(p).answer = req[p].answer /\ NextRound(p).said = req[p].said
         /\ NextRound(p).sent = req[p].sent /\ NextRound(p).silent = req[p].silent
<1>1. PICK n \in Nat : n = req[p].round + 1
  BY FieldsTyped
<1>2. NextRound(p) = [req[p] EXCEPT !.at = "ask", !.round = n]
  BY <1>1 DEF NextRound
<1>3. QED
  BY <1>2 DEF States, Points

LEMMA ToolsShape ==
  ASSUME Typed, NEW p \in Requests, Tools(p)
  PROVE  /\ req' \in [Requests -> States]
         /\ \A q \in Requests \ {p} : req'[q] = req[q]
         /\ req[p].at = "tools" /\ req'[p].at \in {"ask", "keep"}
         /\ req[p].kind = "stream" /\ req'[p].kind = "stream" /\ req'[p].user = req[p].user
         /\ req'[p].copy = req[p].copy
         /\ req'[p].shown = req[p].shown /\ req'[p].hidden = req[p].hidden
         /\ req'[p].answer = req[p].answer /\ req'[p].said = req[p].said
         /\ req'[p].sent = req[p].sent /\ req'[p].silent = req[p].silent
<1>1. req[p] \in States /\ req[p].at = "tools" /\ req[p].kind = "stream"
  BY DEF Tools, Is, Typed
<1>2. CASE Goto(p, "keep")
  BY <1>1, <1>2, GotoShape DEF Typed, Points
<1>3. CASE Set(p, NextRound(p))
  <2>1. /\ NextRound(p) \in States /\ NextRound(p).at = "ask" /\ NextRound(p).kind = req[p].kind
        /\ NextRound(p).user = req[p].user /\ NextRound(p).copy = req[p].copy
        /\ NextRound(p).shown = req[p].shown /\ NextRound(p).hidden = req[p].hidden
        /\ NextRound(p).answer = req[p].answer /\ NextRound(p).said = req[p].said
        /\ NextRound(p).sent = req[p].sent /\ NextRound(p).silent = req[p].silent
    BY <1>1, NextRoundShape
  <2>2. QED
    BY <1>1, <1>3, <2>1, SetTyped DEF Typed
<1>4. QED
  BY <1>2, <1>3 DEF Tools

LEMMA AskOnceShape ==
  ASSUME Typed, NEW p \in Requests, AskOnce(p)
  PROVE  /\ req' \in [Requests -> States]
         /\ \A q \in Requests \ {p} : req'[q] = req[q]
         /\ req[p].at = "ask" /\ req[p].kind \in {"whole", "channel"}
         /\ req'[p].kind = req[p].kind /\ req'[p].copy = req[p].copy
         /\ \/ req'[p].at \in {"ask", "report"}
            \/ req'[p].at = "keep" /\ req[p].kind = "channel" /\ req'[p].answer = <<req'[p].said>>
<1>1. /\ req[p] \in States /\ req[p].at = "ask" /\ req[p].kind \in {"whole", "channel"}
      /\ req \in [Requests -> States]
  BY DEF AskOnce, Typed
<1>2. Said(p) \in Nat /\ LastPiece(p) = <<Said(p)>> /\ LastPiece(p) \in Seq(Nat)
  BY <1>1, FieldsTyped DEF Said, LastPiece
<1>3. CASE Goto(p, "report")
  BY <1>1, <1>3, GotoShape DEF Points
<1>4. CASE Set(p, [NextRound(p) EXCEPT !.said = Said(p)])
  <2> DEFINE r == [NextRound(p) EXCEPT !.said = Said(p)]
  <2>1. NextRound(p) \in States /\ NextRound(p).at = "ask" /\ NextRound(p).kind = req[p].kind
        /\ NextRound(p).copy = req[p].copy
    BY <1>1, NextRoundShape
  <2>2. r \in States /\ r.at = "ask" /\ r.kind = req[p].kind /\ r.copy = req[p].copy
    BY <1>2, <2>1 DEF States
  <2> HIDE DEF r
  <2>3. QED
    BY <1>1, <1>4, <2>2, SetTyped DEF r
<1>5. CASE Set(p, [req[p] EXCEPT !.said = Said(p), !.answer = LastPiece(p),
                     !.at = IF req[p].kind = "channel" THEN "keep" ELSE "report"])
  <2>1. PICK a \in {"keep", "report"} : a = IF req[p].kind = "channel" THEN "keep" ELSE "report"
    OBVIOUS
  <2> DEFINE r == [req[p] EXCEPT !.said = Said(p), !.answer = LastPiece(p), !.at = a]
  <2>2. a \in Points
    BY DEF Points
  <2>3. /\ r \in States /\ r.at = a /\ r.kind = req[p].kind /\ r.copy = req[p].copy
        /\ r.said = Said(p) /\ r.answer = LastPiece(p)
    BY <1>1, <1>2, <2>2 DEF States
  <2>4. Set(p, r)
    BY <1>5, <2>1
  <2> HIDE DEF r
  <2>5. /\ req' \in [Requests -> States] /\ req'[p] = r
        /\ \A q \in Requests \ {p} : req'[q] = req[q]
    BY <1>1, <2>3, <2>4, SetTyped
  <2>6. QED
    BY <1>1, <1>2, <2>1, <2>3, <2>5
<1>6. QED
  BY <1>3, <1>4, <1>5 DEF AskOnce

LEMMA PopShape ==
  ASSUME Typed, NEW p \in Requests, Pop(p)
  PROVE  /\ req' \in [Requests -> States]
         /\ \A q \in Requests \ {p} : req'[q] = req[q]
         /\ req[p].at = "pop" /\ req'[p].at = "push"
         /\ req'[p].kind = req[p].kind /\ req'[p].user = req[p].user
         /\ req'[p].copy = req[p].copy /\ req'[p].shown = req[p].shown
         /\ req'[p].hidden = req[p].hidden /\ req'[p].answer = req[p].answer
         /\ req'[p].said = req[p].said /\ req'[p].sent = req[p].sent
         /\ req'[p].silent = req[p].silent
         /\ \/ /\ hist # <<>> /\ hist' = Front(hist) /\ req'[p].took
               /\ passed' = passed \union ((Looking \union Pushing \union Saving) \ {p})
               /\ undercut' = undercut \union (Looking \ {p})
            \/ hist' = hist /\ passed' = passed \union {p} /\ undercut' = undercut
<1>1. req[p] \in States /\ req \in [Requests -> States] /\ req[p].at = "pop"
  BY DEF Pop, Typed
<1>2. CASE /\ Set(p, [req[p] EXCEPT !.at = "push", !.took = TRUE])
           /\ hist # <<>> /\ Rewrite(p, Front(hist))
           /\ undercut' = undercut \union (Looking \ {p})
  <2> DEFINE r == [req[p] EXCEPT !.at = "push", !.took = TRUE]
  <2>1. /\ r \in States /\ r.at = "push" /\ r.kind = req[p].kind /\ r.user = req[p].user
        /\ r.copy = req[p].copy /\ r.shown = req[p].shown
        /\ r.hidden = req[p].hidden /\ r.answer = req[p].answer
        /\ r.said = req[p].said /\ r.sent = req[p].sent /\ r.silent = req[p].silent
        /\ r.took = TRUE
    BY <1>1 DEF States, Points
  <2>2. Set(p, r)
    BY <1>2
  <2> HIDE DEF r
  <2>3. /\ req' \in [Requests -> States] /\ req'[p] = r
        /\ \A q \in Requests \ {p} : req'[q] = req[q]
    BY <1>1, <2>1, <2>2, SetTyped
  <2>4. QED
    BY <1>1, <1>2, <2>1, <2>3 DEF Rewrite
<1>3. CASE Goto(p, "push") /\ passed' = passed \union {p} /\ UNCHANGED <<hist, undercut>>
  BY <1>1, <1>3, GotoShape DEF Points
<1>4. QED
  BY <1>2, <1>3 DEF Pop

LEMMA ItemTyped ==
  ASSUME Typed, NEW p \in Requests
  PROVE  Item(p) \in Entries /\ Item(p).by = p /\ Item(p).text = req[p].answer
<1>1. req[p].user \in Users /\ req[p].answer \in Seq(Nat)
  BY FieldsTyped DEF Typed
<1>2. QED
  BY <1>1 DEF Item, Entries

LEMMA PushShape ==
  ASSUME Typed, NEW p \in Requests, Push(p)
  PROVE  /\ req' \in [Requests -> States]
         /\ \A q \in Requests \ {p} : req'[q] = req[q]
         /\ req[p].at = "push" /\ req'[p].at \in {"expire", "last", "report"}
         /\ req'[p].kind = req[p].kind /\ req'[p].said = req[p].said
         /\ req'[p].at = "expire" => req'[p].copy = req[p].copy
         /\ req'[p].sent = req[p].sent /\ req'[p].silent = req[p].silent
<1>1. req[p] \in States /\ req \in [Requests -> States] /\ req[p].at = "push"
  BY DEF Push, Typed
<1>2. CASE Set(p, [Slim(req[p]) EXCEPT !.at = "expire", !.over = Overflows(Len(hist) + 1)])
  <2>1. PICK b \in BOOLEAN : b = Overflows(Len(hist) + 1)
    <3>1. Len(hist) \in Nat /\ MaxLen \in Nat
      BY WebChatAssumption DEF Typed
    <3>2. Overflows(Len(hist) + 1) \in BOOLEAN
      BY <3>1 DEF Overflows
    <3>3. QED
      BY <3>2
  <2> DEFINE slim == Slim(req[p])
             r == [slim EXCEPT !.at = "expire", !.over = b]
  <2>2. /\ slim \in States /\ slim.kind = req[p].kind /\ slim.copy = req[p].copy
        /\ slim.said = req[p].said /\ slim.sent = req[p].sent /\ slim.silent = req[p].silent
    BY <1>1, SlimTyped
  <2>3. Set(p, r)
    BY <1>2, <2>1
  <2> HIDE DEF slim
  <2>4. /\ r \in States /\ r.at = "expire" /\ r.kind = slim.kind /\ r.copy = slim.copy
        /\ r.said = slim.said /\ r.sent = slim.sent /\ r.silent = slim.silent
    BY <2>2 DEF States, Points
  <2> HIDE DEF r
  <2>5. /\ req' \in [Requests -> States] /\ req'[p] = r
        /\ \A q \in Requests \ {p} : req'[q] = req[q]
    BY <1>1, <2>3, <2>4, SetTyped
  <2>6. QED
    BY <1>1, <2>2, <2>4, <2>5
<1>3. CASE Ready(p)
  BY <1>1, <1>3, ReadyShape
<1>4. QED
  BY <1>2, <1>3 DEF Push

LEMMA CountShape ==
  ASSUME Typed, NEW p \in Requests, Count(p)
  PROVE  /\ req' \in [Requests -> States]
         /\ \A q \in Requests \ {p} : req'[q] = req[q]
         /\ req[p].at = "count" /\ req'[p].at = "find"
         /\ req'[p].kind = req[p].kind /\ req'[p].copy.title = req[p].copy.title
         /\ req'[p].said = req[p].said
         /\ req'[p].sent = req[p].sent /\ req'[p].silent = req[p].silent
         /\ \/ req'[p].copy.count = Len(hist) /\ passed' = passed \ {p}
            \/ passed' = passed \union {p}
<1>1. req[p] \in States /\ req \in [Requests -> States] /\ req[p].at = "count"
  BY DEF Count, Typed
<1>2. req[p].copy \in Rows /\ Len(hist) \in Nat
  BY <1>1, FieldsTyped DEF Typed
<1>3. PICK n \in Nat :
        /\ Set(p, [req[p] EXCEPT !.at = "find", !.copy.count = n])
        /\ \/ n = Len(hist) /\ passed' = passed \ {p}
           \/ passed' = passed \union {p}
  BY <1>2 DEF Count, Counted
<1> DEFINE c == [req[p].copy EXCEPT !.count = n]
<1>4. c \in Rows /\ c.count = n /\ c.title = req[p].copy.title
  BY <1>2 DEF Rows
<1> DEFINE r == [req[p] EXCEPT !.at = "find", !.copy = c]
<1>5. Set(p, r)
  BY <1>3
<1> HIDE DEF c
<1>6. /\ r \in States /\ r.at = "find" /\ r.kind = req[p].kind /\ r.copy = c
      /\ r.said = req[p].said /\ r.sent = req[p].sent /\ r.silent = req[p].silent
  BY <1>1, <1>4 DEF States, Points
<1>7. /\ req' \in [Requests -> States] /\ req'[p] = r
      /\ \A q \in Requests \ {p} : req'[q] = req[q]
  <2> HIDE DEF r
  <2>1. QED
    BY <1>1, <1>5, <1>6, SetTyped
<1>8. QED
  BY <1>1, <1>3, <1>4, <1>6, <1>7

LEMMA FindShape ==
  ASSUME Typed, NEW p \in Requests, Find(p)
  PROVE  /\ req' \in [Requests -> States]
         /\ \A q \in Requests \ {p} : req'[q] = req[q]
         /\ req[p].at = "find" /\ req'[p].at = "write"
         /\ req'[p].kind = req[p].kind /\ req'[p].copy = req[p].copy
         /\ req'[p].said = req[p].said
         /\ req'[p].sent = req[p].sent /\ req'[p].silent = req[p].silent
<1>1. req[p] \in States /\ req \in [Requests -> States] /\ req[p].at = "find"
  BY DEF Find, Typed
<1>2. PICK b \in BOOLEAN : Set(p, [req[p] EXCEPT !.at = "write", !.found = b])
  BY DEF Find
<1> DEFINE r == [req[p] EXCEPT !.at = "write", !.found = b]
<1>3. /\ r \in States /\ r.at = "write" /\ r.kind = req[p].kind /\ r.copy = req[p].copy
      /\ r.said = req[p].said /\ r.sent = req[p].sent /\ r.silent = req[p].silent
  BY <1>1 DEF States, Points
<1>4. /\ req' \in [Requests -> States] /\ req'[p] = r
      /\ \A q \in Requests \ {p} : req'[q] = req[q]
  <2> HIDE DEF r
  <2>1. Set(p, r)
    BY <1>2 DEF r
  <2>2. QED
    BY <1>1, <1>3, <2>1, SetTyped
<1>5. QED
  BY <1>1, <1>3, <1>4

-----------------------------------------------------------------------------
(* The inductive invariant                                                 *)

Talking == {"ask", "read", "tools", "keep"}
Ending  == {"keep", "pop", "push"}
Asking  == Talking \union Ending
Afters  == {"expire", "trim", "count", "find", "write"}
Kepts   == Afters \union {"report", "last", "done"}

(* Who saves keeps an answer. *)
SaversOK ==
  \A p \in Requests : req[p].at \in Ending \union Afters => req[p].kind \in Kept

(* What a request has said till it keeps its answer; if the client is gone *)
(* by then, it will not be kept.                                           *)
Speaks(r) == r.at = "idle" \/ (r.kind = "stream" /\ r.at \in {"list"} \union Asking)

Told(r) ==
  /\ r.answer = Pieces(r.said) /\ r.silent \subseteq 1..r.said
  /\ InOrder(r.sent, (1..r.said) \ r.silent)

AnswersOK ==
  \A p \in Requests :
    LET r == req[p] IN
    /\ Speaks(r) /\ (r.at \in Ending => Here(p)) => Told(r)
    /\ r.kind = "channel" /\ r.at \in Ending => r.answer = <<r.said>>

(* Each request keeps one entry at the most, of what it has said.          *)
Keeps(r, e) ==
  /\ r.at \in Kepts
  /\ IF r.kind = "stream"
     THEN e.text = Pieces(r.said) /\ InOrder(r.sent, (1..r.said) \ r.silent)
     ELSE e.text = <<r.said>>

EntryOK(e) == e.by \in Requests => Keeps(req[e.by], e)

EntriesOK ==
  /\ \A i \in DOMAIN hist : EntryOK(hist[i])
  /\ \A i, j \in DOMAIN hist : hist[i].by = hist[j].by => i = j

(* What the model was shown, and what was hidden from it, was written by   *)
(* requests that have kept theirs; the entry that a request would replace, *)
(* or is about to take away, is none that was shown, or others have taken  *)
(* one away; and the one that was hidden is the last till it is taken      *)
(* away, or others have changed the history.                               *)
ShownOK(p) ==
  LET r == req[p] IN
  /\ \A e \in Items(r.shown) \union {r.hidden} : e.by \in Requests => req[e.by].at \in Kepts
  /\ p \notin undercut /\ r.at # "push" /\ hist # <<>> /\ (r.at = "pop" \/ Last(hist).user = r.user)
       => Last(hist) \notin Items(r.shown)
  /\ r.hidden # NoItem /\ r.hidden.user = r.user /\ p \notin passed =>
       IF r.at = "push" THEN r.hidden \notin Items(hist)
       ELSE hist # <<>> /\ Last(hist) = r.hidden

HiddenOK == \A p \in Requests : req[p].kind = "stream" /\ req[p].at \in Asking => ShownOK(p)

(* A copy that nobody outdated has the title of the row; a count that      *)
(* nobody outdated is the number of entries.                               *)
CopiesOK ==
  /\ \A p \in Requests :
       Holds(p) /\ p \notin stale /\ row # NoRow => req[p].copy.title = row.title
  /\ \A p \in Requests :
       req[p].at \in {"find", "write"} /\ p \notin passed => req[p].copy.count = Len(hist)

IInv == Typed /\ SaversOK /\ AnswersOK /\ EntriesOK /\ HiddenOK /\ CopiesOK /\ RowIsTrue

LEMMA Nothing0 == Pieces(0) = <<>> /\ InOrder(<<>>, (1..0) \ {})
BY DEF Pieces, InOrder, Items

LEMMA InitInv == Init => IInv
<1>1. SUFFICES ASSUME Init PROVE IInv
  OBVIOUS
<1>2. Typed
  BY <1>1, InitTyped
<1>3. \A p \in Requests : req[p] = Fresh
  BY <1>1 DEF Init
<1>4. SaversOK /\ HiddenOK
  BY <1>3 DEF SaversOK, HiddenOK, Fresh, Afters, Asking, Ending, Talking
<1>5. AnswersOK
  <2>1. /\ Fresh.kind = "none" /\ Fresh.answer = <<>> /\ Fresh.said = 0
        /\ Fresh.sent = <<>> /\ Fresh.silent = {}
    BY DEF Fresh
  <2>2. QED
    BY <1>3, <2>1, Nothing0 DEF AnswersOK, Told
<1>6. EntriesOK
  <2>1. CASE hist = <<>>
    BY <2>1 DEF EntriesOK
  <2>2. CASE hist # <<>>
    <3>1. \A i \in DOMAIN hist : i = 1 /\ hist[i].by = Old
      BY <1>1, <2>2 DEF Init
    <3>2. QED
      BY <3>1, WebChatAssumption DEF EntriesOK, EntryOK
  <2>3. QED
    BY <2>1, <2>2
<1>7. CopiesOK
  BY <1>3 DEF CopiesOK, Fresh, Holds
<1>8. RowIsTrue
  <2>1. CASE row = NoRow
    BY <2>1 DEF RowIsTrue
  <2>2. CASE row # NoRow
    BY <1>1, <2>2 DEF Init, RowIsTrue, Blank
  <2>3. QED
    BY <2>1, <2>2
<1>9. QED
  BY <1>2, <1>4, <1>5, <1>6, <1>7, <1>8 DEF IInv

(* A step of p that leaves the history alone disturbs nothing that the     *)
(* invariant says of the others, or of the entries.                        *)
LEMMA TalkStays ==
  ASSUME IInv, NEW p \in Requests,
         \A q \in Requests \ {p} : req'[q] = req[q],
         hist' = hist, gone \ {p} \subseteq gone', passed \ {p} \subseteq passed',
         undercut \ {p} \subseteq undercut',
         req'[p].at \in Ending \union Afters => req'[p].kind \in Kept,
         Speaks(req'[p]) /\ (req'[p].at \in Ending => Here(p)') =>
           Told(req'[p]),
         req'[p].kind = "channel" /\ req'[p].at \in Ending => req'[p].answer = <<req'[p].said>>,
         req[p].at \in Kepts =>
           /\ req'[p].at \in Kepts /\ req'[p].kind = req[p].kind /\ req'[p].said = req[p].said
           /\ req'[p].sent = req[p].sent /\ req'[p].silent = req[p].silent,
         req'[p].kind = "stream" /\ req'[p].at \in Asking => ShownOK(p)'
  PROVE  SaversOK' /\ AnswersOK' /\ EntriesOK' /\ HiddenOK'
<1>1. SaversOK'
  BY DEF IInv, SaversOK
<1>2. AnswersOK'
  <2>1. ASSUME NEW q \in Requests \ {p}, Here(q)' PROVE Here(q)
    BY <2>1 DEF Here
  <2>2. QED
    BY <2>1 DEF IInv, AnswersOK
<1>3. EntriesOK'
  <2>1. ASSUME NEW i \in DOMAIN hist PROVE EntryOK(hist[i])'
    <3>1. EntryOK(hist[i])
      BY DEF IInv, EntriesOK
    <3>2. CASE hist[i].by \in Requests \ {p}
      <4>1. req'[hist[i].by] = req[hist[i].by]
        BY <3>2
      <4>2. QED
        BY <3>1, <4>1 DEF EntryOK
    <3>3. CASE hist[i].by = p
      BY <3>1, <3>3 DEF EntryOK, Keeps
    <3>4. CASE hist[i].by \notin Requests
      BY <3>4 DEF EntryOK
    <3>5. QED
      BY <3>2, <3>3, <3>4
  <2>2. QED
    BY <2>1 DEF IInv, EntriesOK
<1>4. HiddenOK'
  <2>1. SUFFICES ASSUME NEW q \in Requests \ {p}, req[q].kind = "stream", req[q].at \in Asking
                 PROVE  ShownOK(q)'
    BY DEF HiddenOK
  <2>2. ShownOK(q)
    BY <2>1 DEF IInv, HiddenOK
  <2>3. QED
    BY <2>1, <2>2 DEF ShownOK
<1>5. QED
  BY <1>1, <1>2, <1>3, <1>4

(* A step of p that leaves the row alone as well.                          *)
LEMMA RowStays ==
  ASSUME IInv, NEW p \in Requests,
         \A q \in Requests \ {p} : req'[q] = req[q],
         UNCHANGED <<row, hist, title, astray>>,
         passed \ {p} \subseteq passed', stale \ {p} \subseteq stale',
         Holds(p)' /\ p \notin stale' /\ row # NoRow => req'[p].copy.title = row.title,
         req'[p].at \in {"find", "write"} /\ p \notin passed' => req'[p].copy.count = Len(hist),
         WillCount(p) => WillCount(p)'
  PROVE  CopiesOK' /\ RowIsTrue'
<1>1. CopiesOK'
  BY DEF IInv, CopiesOK, Holds
<1>2. RowIsTrue'
  <2>1. ASSUME NEW q \in Requests, WillCount(q) PROVE WillCount(q)'
    <3>1. CASE q = p
      BY <2>1, <3>1
    <3>2. CASE q # p
      BY <2>1, <3>2 DEF WillCount
    <3>3. QED
      BY <3>1, <3>2
  <2>2. SUFFICES ASSUME row # NoRow PROVE RowIsTrue'
    BY DEF RowIsTrue
  <2>3. QED
    BY <2>1, <2>2 DEF IInv, RowIsTrue
<1>3. QED
  BY <1>1, <1>2

-----------------------------------------------------------------------------
(* Steps that change neither the history nor the row                       *)

LEMMA BeginInv == ASSUME IInv, NEW p \in Requests, Begin(p) PROVE IInv'
<1>1. /\ req' \in [Requests -> States]
      /\ \A q \in Requests \ {p} : req'[q] = req[q]
      /\ req[p].at = "idle" /\ req'[p].at \in {"delete", "list"}
      /\ req'[p].answer = req[p].answer /\ req'[p].said = req[p].said
      /\ req'[p].sent = req[p].sent /\ req'[p].silent = req[p].silent
      /\ (req'[p].kind \in Kept /\ row # NoRow) => (req'[p].copy = row \/ p \in stale')
      /\ stale' = stale \/ stale' = stale \union {p}
  BY BeginShape DEF IInv
<1>2. UNCHANGED <<row, hist, gone, title, astray, passed, undercut>>
  BY DEF Begin
<1>3. Typed'
  BY <1>1, <1>2 DEF IInv, Typed
<1>4. Told(req[p])
  BY <1>1 DEF IInv, AnswersOK, Speaks, Ending
<1>5. SaversOK' /\ AnswersOK' /\ EntriesOK' /\ HiddenOK'
  BY <1>1, <1>2, <1>4, TalkStays DEF Afters, Kepts, Asking, Ending, Talking, Told
<1>6. CopiesOK' /\ RowIsTrue'
  BY <1>1, <1>2, RowStays DEF WillCount, Holds
<1>7. QED
  BY <1>3, <1>5, <1>6 DEF IInv

LEMMA LeaveInv == ASSUME IInv, NEW p \in Requests, Leave(p) PROVE IInv'
<1>1. UNCHANGED <<row, hist, req, ghosts>> /\ gone' = gone \union {p}
  BY DEF Leave
<1>2. Typed'
  BY <1>1 DEF IInv, Typed, ghosts
<1>3. SaversOK' /\ EntriesOK' /\ CopiesOK' /\ HiddenOK'
  BY <1>1 DEF IInv, SaversOK, EntriesOK, EntryOK, CopiesOK, Holds, HiddenOK, ShownOK, ghosts
<1>4. RowIsTrue'
  BY <1>1 DEF IInv, RowIsTrue, WillCount, ghosts
<1>5. AnswersOK'
  <2>1. \A q \in Requests : Here(q)' => Here(q)
    BY <1>1 DEF Here
  <2>2. QED
    BY <1>1, <2>1 DEF IInv, AnswersOK, Told
<1>6. QED
  BY <1>2, <1>3, <1>4, <1>5 DEF IInv

(* Steps that take a request further and change nothing of it.             *)
LEMMA GotoInv ==
  ASSUME IInv, NEW p \in Requests, NEW point \in Points, Goto(p, point),
         UNCHANGED <<row, hist, gone, ghosts>>, req[p].at \in {"list", "ask", "read", "tools", "title"},
         \/ req[p].at \in {"ask", "read", "tools"} /\ req[p].kind = "stream" /\ point \in Talking
         \/ req[p].kind \in {"whole", "channel"} /\ point \in {"ask", "report"}
         \/ req[p].kind = "title" /\ point \in {"title", "rename"}
  PROVE  IInv'
<1>1. /\ req' \in [Requests -> States]
      /\ \A q \in Requests \ {p} : req'[q] = req[q]
      /\ req'[p].at = point /\ req'[p].kind = req[p].kind /\ req'[p].user = req[p].user
      /\ req'[p].copy = req[p].copy /\ req'[p].shown = req[p].shown
      /\ req'[p].hidden = req[p].hidden /\ req'[p].answer = req[p].answer
      /\ req'[p].said = req[p].said /\ req'[p].sent = req[p].sent
      /\ req'[p].silent = req[p].silent
  BY GotoShape DEF IInv, Typed
<1>2. Typed'
  BY <1>1 DEF IInv, Typed, ghosts
<1>3. UNCHANGED <<row, hist, gone, title, astray, passed, stale, undercut>>
  BY DEF ghosts
<1>4. req'[p].at \notin Afters /\ req[p].at \notin Kepts /\ ~WillCount(p) /\ req[p].at \notin Ending
  BY <1>1 DEF Afters, Kepts, Talking, Ending, WillCount
<1>5. req'[p].at \in Ending \union Afters => req'[p].kind \in Kept
  BY <1>1, <1>4 DEF Kept, Ending
<1>6. Speaks(req'[p]) /\ (req'[p].at \in Ending => Here(p)') => Told(req'[p])
  <2>1. Speaks(req'[p]) => Speaks(req[p])
    BY <1>1 DEF Speaks, Asking, Talking, Ending
  <2>2. QED
    BY <1>1, <1>4, <2>1 DEF IInv, AnswersOK, Told
<1>7. ~(req'[p].kind = "channel" /\ req'[p].at \in Ending)
  BY <1>1 DEF Ending
<1>8. req'[p].kind = "stream" /\ req'[p].at \in Asking => ShownOK(p)'
  <2>1. SUFFICES ASSUME req'[p].kind = "stream", req'[p].at \in Asking PROVE ShownOK(p)'
    OBVIOUS
  <2>2. ShownOK(p) /\ req'[p].at \notin {"pop", "push"} /\ req[p].at # "push"
    BY <1>1, <2>1 DEF IInv, HiddenOK, Asking, Talking
  <2>3. \A q \in Requests : req[q].at \in Kepts => req'[q].at \in Kepts
    BY <1>1, <1>4
  <2>4. QED
    BY <1>1, <1>3, <2>2, <2>3 DEF ShownOK
<1>9. SaversOK' /\ AnswersOK' /\ EntriesOK' /\ HiddenOK'
  BY <1>1, <1>3, <1>4, <1>5, <1>6, <1>7, <1>8, TalkStays
<1>10. req'[p].at \notin {"find", "write"} /\ (Holds(p)' => Holds(p))
  BY <1>1, <1>4 DEF Afters, Holds
<1>11. CopiesOK' /\ RowIsTrue'
  BY <1>1, <1>3, <1>4, <1>10, RowStays DEF IInv, CopiesOK
<1>12. QED
  BY <1>2, <1>9, <1>11 DEF IInv

(* Steps of a stream up to its end.                                        *)
LEMMA StreamInv ==
  ASSUME IInv, NEW p \in Requests, req' \in [Requests -> States],
         \A q \in Requests \ {p} : req'[q] = req[q],
         UNCHANGED <<row, hist, gone, faults, ghosts>>,
         req[p].at \in {"list", "ask", "read", "tools"}, req'[p].at \in Talking,
         req[p].kind = "stream", req'[p].kind = "stream", req'[p].copy = req[p].copy,
         (req'[p].at = "keep" => Here(p)) =>
           Told(req'[p]),
         ShownOK(p)'
  PROVE  IInv'
<1>1. UNCHANGED <<row, hist, gone, title, astray, passed, stale, undercut>>
  BY DEF ghosts
<1>2. req'[p].at \notin Afters /\ req[p].at \notin Kepts /\ ~WillCount(p)
  BY DEF Afters, Kepts, Talking, WillCount
<1>3. Typed'
  BY <1>1 DEF IInv, Typed
<1>4. req'[p].kind \in Kept /\ Here(p)' = Here(p)
  BY <1>1 DEF Kept, Here
<1>5. req'[p].at \in Ending <=> req'[p].at = "keep"
  BY DEF Ending, Talking
<1>6. SaversOK' /\ AnswersOK' /\ EntriesOK' /\ HiddenOK'
  BY <1>1, <1>2, <1>4, <1>5, TalkStays
<1>7. Holds(p) /\ req'[p].at \notin {"find", "write"}
  BY <1>2 DEF Holds, Kept, Afters
<1>8. CopiesOK' /\ RowIsTrue'
  BY <1>1, <1>2, <1>7, RowStays DEF IInv, CopiesOK
<1>9. QED
  BY <1>3, <1>6, <1>8 DEF IInv

(* What the model was shown stays what it is.                              *)
LEMMA ShownStays ==
  ASSUME NEW p \in Requests, ShownOK(p), req[p].at \in Talking, req'[p].at \in Talking,
         \A o \in Requests \ {p} : req'[o] = req[o],
         hist' = hist, passed' = passed, undercut' = undercut, req'[p].user = req[p].user,
         req'[p].shown = req[p].shown, req'[p].hidden = req[p].hidden
  PROVE  ShownOK(p)'
<1>1. \A o \in Requests : req[o].at \in Kepts => req'[o].at \in Kepts
  BY DEF Talking, Kepts, Afters
<1>2. req[p].at # "push" /\ req'[p].at \notin {"pop", "push"}
  BY DEF Talking
<1>3. QED
  BY <1>1, <1>2 DEF ShownOK

LEMMA ToolsInv == ASSUME IInv, NEW p \in Requests, Tools(p) PROVE IInv'
<1>1. /\ req' \in [Requests -> States]
      /\ \A q \in Requests \ {p} : req'[q] = req[q]
      /\ req[p].at = "tools" /\ req'[p].at \in {"ask", "keep"}
      /\ req[p].kind = "stream" /\ req'[p].kind = "stream" /\ req'[p].user = req[p].user
      /\ req'[p].copy = req[p].copy
      /\ req'[p].shown = req[p].shown /\ req'[p].hidden = req[p].hidden
      /\ req'[p].answer = req[p].answer /\ req'[p].said = req[p].said
      /\ req'[p].sent = req[p].sent /\ req'[p].silent = req[p].silent
  BY ToolsShape DEF IInv
<1>2. UNCHANGED <<row, hist, gone, faults, ghosts>>
  BY DEF Tools
<1>3. Told(req[p])
  BY <1>1 DEF IInv, AnswersOK, Speaks, Asking, Talking, Ending
<1>4. ShownOK(p)'
  BY <1>1, <1>2, ShownStays DEF IInv, HiddenOK, Asking, Talking, ghosts
<1>5. QED
  BY <1>1, <1>2, <1>3, <1>4, StreamInv DEF Talking, Told

(* A piece that is sent, and one that is not, after those before.          *)
LEMMA NextPiece ==
  ASSUME NEW r \in States,
         Told(r)
  PROVE  /\ Append(r.answer, r.said + 1) = Pieces(r.said + 1)
         /\ InOrder(Append(r.sent, r.said + 1), (1..(r.said + 1)) \ r.silent)
         /\ InOrder(r.sent, (1..(r.said + 1)) \ (r.silent \union {r.said + 1}))
<1>1. r.said \in Nat /\ r.sent \in Seq(Nat)
  BY FieldsTyped
<1>2. Append(r.answer, r.said + 1) = Pieces(r.said + 1)
  BY <1>1, OnePieceMore DEF Told
<1>3. (1..(r.said + 1)) \ r.silent = ((1..r.said) \ r.silent) \union {r.said + 1}
  BY <1>1 DEF Told
<1>4. (1..(r.said + 1)) \ (r.silent \union {r.said + 1}) = (1..r.said) \ r.silent
  BY <1>1 DEF Told
<1>5. InOrder(Append(r.sent, r.said + 1), ((1..r.said) \ r.silent) \union {r.said + 1})
  <2>1. \A y \in (1..r.said) \ r.silent : y < r.said + 1
    BY <1>1
  <2>2. QED
    BY <1>1, <2>1, LargestLast DEF Told
<1>6. InOrder(Append(r.sent, r.said + 1), (1..(r.said + 1)) \ r.silent)
  BY <1>3, <1>5
<1>7. InOrder(r.sent, (1..(r.said + 1)) \ (r.silent \union {r.said + 1}))
  BY <1>4 DEF Told
<1>8. QED
  BY <1>2, <1>6, <1>7

LEMMA PieceInv == ASSUME IInv, NEW p \in Requests, Piece(p) PROVE IInv'
<1>1. /\ req' \in [Requests -> States]
      /\ \A q \in Requests \ {p} : req'[q] = req[q]
      /\ req[p].at = "read" /\ req'[p].at \in {"read", "keep"}
      /\ req[p].kind = "stream" /\ req'[p].kind = "stream" /\ req'[p].user = req[p].user
      /\ req'[p].copy = req[p].copy
      /\ req'[p].shown = req[p].shown /\ req'[p].hidden = req[p].hidden
      /\ req'[p].answer = Answer(p) /\ req'[p].said = Said(p)
      /\ \/ req'[p].sent = Append(req[p].sent, Said(p))
         \/ req'[p].sent = req[p].sent /\ req'[p].at = "keep" /\ ~Here(p)
      /\ req'[p].silent = req[p].silent
  BY PieceShape DEF IInv
<1>2. UNCHANGED <<row, hist, gone, faults, ghosts>>
  BY DEF Piece
<1>3. req[p] \in States /\ Told(req[p])
  BY <1>1 DEF IInv, AnswersOK, Speaks, Asking, Talking, Ending, Typed
<1>4. /\ Append(req[p].answer, req[p].said + 1) = Pieces(req[p].said + 1)
      /\ InOrder(Append(req[p].sent, req[p].said + 1), (1..(req[p].said + 1)) \ req[p].silent)
  <2>1. PICK r \in States : r = req[p]
    BY <1>3
  <2>2. QED
    BY <1>3, <2>1, NextPiece
<1>5. req[p].silent \subseteq 1..(req[p].said + 1)
  <2>1. req[p].said \in Nat
    BY <1>3, FieldsTyped
  <2>2. QED
    BY <1>3, <2>1 DEF Told
<1>6. (req'[p].at = "keep" => Here(p)) => Told(req'[p])
  BY <1>1, <1>2, <1>4, <1>5 DEF Told, Answer, Said
<1>7. ShownOK(p)'
  BY <1>1, <1>2, ShownStays DEF IInv, HiddenOK, Asking, Talking, ghosts
<1>8. QED
  BY <1>1, <1>2, <1>6, <1>7, StreamInv DEF Talking

LEMMA FinishInv == ASSUME IInv, NEW p \in Requests, Finish(p) PROVE IInv'
<1>1. /\ req' \in [Requests -> States]
      /\ \A q \in Requests \ {p} : req'[q] = req[q]
      /\ req[p].at = "read" /\ req'[p].at \in {"keep", "tools"}
      /\ req[p].kind = "stream" /\ req'[p].kind = "stream" /\ req'[p].user = req[p].user
      /\ req'[p].copy = req[p].copy
      /\ req'[p].shown = req[p].shown /\ req'[p].hidden = req[p].hidden
      /\ \/ /\ req'[p].answer = req[p].answer /\ req'[p].said = req[p].said
            /\ req'[p].sent = req[p].sent /\ req'[p].silent = req[p].silent
         \/ /\ req'[p].answer = Answer(p) /\ req'[p].said = Said(p)
            /\ req'[p].sent = Append(req[p].sent, Said(p)) /\ req'[p].silent = req[p].silent
         \/ /\ req'[p].answer = Answer(p) /\ req'[p].said = Said(p)
            /\ req'[p].sent = req[p].sent /\ req'[p].silent = req[p].silent \union {Said(p)}
  BY FinishShape DEF IInv
<1>2. UNCHANGED <<row, hist, gone, faults, ghosts>>
  BY DEF Finish
<1>3. req[p] \in States /\ Told(req[p])
  BY <1>1 DEF IInv, AnswersOK, Speaks, Asking, Talking, Ending, Typed
<1>4. /\ Append(req[p].answer, req[p].said + 1) = Pieces(req[p].said + 1)
      /\ InOrder(Append(req[p].sent, req[p].said + 1), (1..(req[p].said + 1)) \ req[p].silent)
      /\ InOrder(req[p].sent, (1..(req[p].said + 1)) \ (req[p].silent \union {req[p].said + 1}))
  <2>1. PICK r \in States : r = req[p]
    BY <1>3
  <2>2. QED
    BY <1>3, <2>1, NextPiece
<1>5. req[p].silent \union {req[p].said + 1} \subseteq 1..(req[p].said + 1)
  <2>1. req[p].said \in Nat
    BY <1>3, FieldsTyped
  <2>2. QED
    BY <1>3, <2>1 DEF Told
<1>6. Told(req'[p])
  BY <1>1, <1>3, <1>4, <1>5 DEF Told, Answer, Said
<1>7. ShownOK(p)'
  BY <1>1, <1>2, ShownStays DEF IInv, HiddenOK, Asking, Talking, ghosts
<1>8. QED
  BY <1>1, <1>2, <1>6, <1>7, StreamInv DEF Talking

(* What RecentlyWithTokens lists are entries of the history, and the last  *)
(* of them is the last of the history.                                     *)
LEMMA RecentlyListed ==
  ASSUME hist \in Seq(Entries), NEW seen \in Recently
  PROVE  /\ seen \in Seq(Entries)
         /\ \A i \in DOMAIN seen : \E k \in DOMAIN hist :
              seen[i] = hist[k] /\ (i # Len(seen) => k # Len(hist))
         /\ seen # <<>> => hist # <<>> /\ Last(seen) = Last(hist)
<1>1. PICK n \in 1..(Len(hist) + 1) : seen = SubSeq(hist, n, Len(hist))
  BY DEF Recently
<1>2. Len(hist) \in Nat /\ DOMAIN hist = 1..Len(hist)
  OBVIOUS
<1>3. /\ seen \in Seq(Entries) /\ Len(seen) = Len(hist) - n + 1 /\ DOMAIN seen = 1..Len(seen)
      /\ \A i \in 1..(Len(hist) - n + 1) : seen[i] = hist[n + i - 1]
  BY <1>1, <1>2
<1>4. ASSUME NEW i \in DOMAIN seen
      PROVE  \E k \in DOMAIN hist : seen[i] = hist[k] /\ (i # Len(seen) => k # Len(hist))
  <2>1. n + i - 1 \in DOMAIN hist /\ seen[i] = hist[n + i - 1]
        /\ (i # Len(seen) => n + i - 1 # Len(hist))
    BY <1>2, <1>3, <1>4
  <2>2. QED
    BY <2>1
<1>5. ASSUME seen # <<>> PROVE hist # <<>> /\ Last(seen) = Last(hist)
  <2>1. Len(seen) \in DOMAIN seen /\ Len(seen) >= 1
    BY <1>3, <1>5
  <2>2. seen[Len(seen)] = hist[Len(hist)] /\ Len(hist) >= 1
    BY <1>2, <1>3, <2>1
  <2>3. QED
    BY <1>2, <2>2 DEF Last
<1>6. QED
  BY <1>3, <1>4, <1>5

LEMMA ListInv == ASSUME IInv, NEW p \in Requests, List(p) PROVE IInv'
<1>1. /\ req' \in [Requests -> States]
      /\ \A q \in Requests \ {p} : req'[q] = req[q]
      /\ req[p].at = "list" /\ req'[p].at = "ask"
      /\ req[p].kind = "stream" /\ req'[p].kind = "stream" /\ req'[p].user = req[p].user
      /\ req'[p].copy = req[p].copy
      /\ req'[p].answer = req[p].answer /\ req'[p].said = req[p].said
      /\ req'[p].sent = req[p].sent /\ req'[p].silent = req[p].silent
  BY ListShape DEF IInv
<1>2. PICK seen \in Recently :
        LET hide == seen # <<>> /\ Hides(p) IN
        /\ req'[p].shown = IF hide THEN Front(seen) ELSE seen
        /\ req'[p].hidden = IF hide THEN Last(seen) ELSE NoItem
  BY ListShape DEF IInv
<1>3. UNCHANGED <<row, hist, gone, faults, ghosts>>
  BY DEF List
<1>4. /\ seen \in Seq(Entries)
      /\ \A i \in DOMAIN seen : \E k \in DOMAIN hist :
           seen[i] = hist[k] /\ (i # Len(seen) => k # Len(hist))
      /\ seen # <<>> => hist # <<>> /\ Last(seen) = Last(hist)
  BY RecentlyListed DEF IInv, Typed
<1>5. Told(req'[p])
  BY <1>1 DEF IInv, AnswersOK, Speaks, Ending, Told
<1>6. ASSUME NEW k \in DOMAIN hist, hist[k].by \in Requests PROVE req'[hist[k].by].at \in Kepts
  <2>1. req[hist[k].by].at \in Kepts
    BY <1>6 DEF IInv, EntriesOK, EntryOK, Keeps
  <2>2. hist[k].by # p
    BY <1>1, <2>1 DEF Kepts, Afters
  <2>3. QED
    BY <1>1, <1>6, <2>1, <2>2
<1>7. hist \in Seq(Entries) /\ (hist # <<>> => Len(hist) \in DOMAIN hist /\ Last(hist) = hist[Len(hist)])
  <2>1. hist \in Seq(Entries)
    BY DEF IInv, Typed
  <2>2. hist # <<>> => Len(hist) \in Nat \ {0} /\ Last(hist) = hist[Len(hist)]
    BY <2>1, FrontLast
  <2>3. DOMAIN hist = 1..Len(hist)
    BY <2>1
  <2>4. QED
    BY <2>1, <2>2, <2>3
<1>8. CASE seen # <<>> /\ Hides(p)
  <2>1. /\ req'[p].shown = Front(seen) /\ req'[p].hidden = Last(hist) /\ hist # <<>>
        /\ DOMAIN Front(seen) = 1..(Len(seen) - 1) /\ Len(seen) \in Nat /\ DOMAIN seen = 1..Len(seen)
        /\ \A i \in 1..(Len(seen) - 1) : Front(seen)[i] = seen[i]
    BY <1>2, <1>4, <1>8, FrontLast
  <2>2. ASSUME NEW i \in DOMAIN Front(seen)
        PROVE  \E k \in DOMAIN hist : Front(seen)[i] = hist[k] /\ k # Len(hist)
    <3>1. i \in DOMAIN seen /\ i # Len(seen) /\ Front(seen)[i] = seen[i]
      BY <2>1, <2>2
    <3>2. QED
      BY <1>4, <3>1
  <2>3. Last(hist) \notin Items(Front(seen))
    BY <1>7, <2>1, <2>2 DEF IInv, EntriesOK, Items
  <2>4. QED
    <3>1. ShownOK(p)'
      <4>1. \A e \in Items(Front(seen)) \union {Last(hist)} : \E k \in DOMAIN hist : e = hist[k]
        BY <1>7, <2>1, <2>2 DEF Items
      <4>2. UNCHANGED <<hist, passed, undercut>>
        BY <1>3 DEF ghosts
      <4>3. QED
        BY <1>1, <1>6, <2>1, <2>3, <4>1, <4>2 DEF ShownOK
    <3>2. QED
      BY <1>1, <1>3, <1>5, <3>1, StreamInv DEF Talking
<1>9. CASE ~(seen # <<>> /\ Hides(p))
  <2>1. req'[p].shown = seen /\ req'[p].hidden = NoItem
    BY <1>2, <1>9
  <2>2. CASE seen = <<>>
    <3>1. ShownOK(p)'
      BY <1>3, <2>1, <2>2, WebChatAssumption DEF ShownOK, Items, NoItem
    <3>2. QED
      BY <1>1, <1>3, <1>5, <3>1, StreamInv DEF Talking
  <2>3. CASE seen # <<>>
    <3>1. Last(hist).user # req[p].user
      BY <1>9, <2>3 DEF Hides
    <3>2. ShownOK(p)'
      <4>1. \A e \in Items(seen) : \E k \in DOMAIN hist : e = hist[k]
        BY <1>4 DEF Items
      <4>2. NoItem.by \notin Requests
        BY WebChatAssumption DEF NoItem
      <4>3. UNCHANGED <<hist, passed, undercut>>
        BY <1>3 DEF ghosts
      <4>4. QED
        BY <1>1, <1>6, <2>1, <3>1, <4>1, <4>2, <4>3 DEF ShownOK
    <3>3. QED
      BY <1>1, <1>3, <1>5, <3>2, StreamInv DEF Talking
  <2>4. QED
    BY <2>2, <2>3
<1>10. QED
  BY <1>8, <1>9

LEMMA AskOnceInv == ASSUME IInv, NEW p \in Requests, AskOnce(p) PROVE IInv'
<1>1. /\ req' \in [Requests -> States]
      /\ \A q \in Requests \ {p} : req'[q] = req[q]
      /\ req[p].at = "ask" /\ req[p].kind \in {"whole", "channel"}
      /\ req'[p].kind = req[p].kind /\ req'[p].copy = req[p].copy
      /\ \/ req'[p].at \in {"ask", "report"}
         \/ req'[p].at = "keep" /\ req[p].kind = "channel" /\ req'[p].answer = <<req'[p].said>>
  BY AskOnceShape DEF IInv
<1>2. UNCHANGED <<row, hist, gone, title, astray, passed, stale, undercut>>
  BY DEF AskOnce, ghosts
<1>3. Typed'
  BY <1>1, <1>2 DEF IInv, Typed
<1>4. ~Speaks(req'[p]) /\ req[p].at \notin Kepts /\ req'[p].kind # "stream"
      /\ ~WillCount(p) /\ req'[p].at \notin Afters /\ (req'[p].at \in Ending => req'[p].at = "keep")
  BY <1>1 DEF Speaks, Kepts, Afters, Ending, WillCount
<1>5. req'[p].at \in Ending \union Afters => req'[p].kind \in Kept
  BY <1>1, <1>4 DEF Kept
<1>6. SaversOK' /\ AnswersOK' /\ EntriesOK' /\ HiddenOK'
  BY <1>1, <1>2, <1>4, <1>5, TalkStays
<1>7. (Holds(p)' => Holds(p)) /\ req'[p].at \notin {"find", "write"}
  BY <1>1 DEF Holds
<1>8. CopiesOK' /\ RowIsTrue'
  BY <1>1, <1>2, <1>4, <1>7, RowStays DEF IInv, CopiesOK
<1>9. QED
  BY <1>3, <1>6, <1>8 DEF IInv

(* The end of keeping, or the end of it all, for what the row needs no     *)
(* longer; the history may have changed without the count.                 *)
LEMMA ReadyInv ==
  ASSUME IInv, NEW p \in Requests, Ready(p), req[p].at \in Ending \union Afters,
         UNCHANGED <<row, hist, gone, title, stale, passed>>, undercut \ {p} \subseteq undercut',
         undercut' \subseteq Requests, astray' \in [title : BOOLEAN, count : BOOLEAN],
         astray'.title = astray.title, astray'.count \/ (astray'.count = astray.count /\ ~WillCount(p))
  PROVE  IInv'
<1>1. /\ req' \in [Requests -> States]
      /\ \A q \in Requests \ {p} : req'[q] = req[q]
      /\ req'[p].at \in {"last", "report"} /\ req'[p].kind = req[p].kind
      /\ req'[p].said = req[p].said
      /\ req'[p].sent = req[p].sent /\ req'[p].silent = req[p].silent
  BY ReadyShape DEF IInv, Typed
<1>2. Typed'
  BY <1>1 DEF IInv, Typed
<1>3. ~Speaks(req'[p]) /\ req'[p].at \notin Asking /\ req'[p].at \notin Ending \union Afters
      /\ req'[p].at \in Kepts
  BY <1>1 DEF Speaks, Kepts, Afters, Asking, Ending, Talking
<1>4. SaversOK' /\ AnswersOK' /\ EntriesOK' /\ HiddenOK'
  BY <1>1, <1>3, TalkStays
<1>5. CopiesOK'
  BY <1>1 DEF IInv, CopiesOK, Holds
<1>6. RowIsTrue'
  <2>1. \A q \in Requests \ {p} : WillCount(q) => WillCount(q)'
    BY <1>1 DEF WillCount
  <2>2. QED
    BY <2>1 DEF IInv, RowIsTrue
<1>7. QED
  BY <1>2, <1>4, <1>5, <1>6 DEF IInv

LEMMA SkipInv == ASSUME IInv, NEW p \in Requests, Skip(p) PROVE IInv'
<1>1. Ready(p) /\ req[p].at = "keep" /\ UNCHANGED <<row, hist, gone, title, astray, stale, passed, undercut>>
  BY DEF Skip, ghosts
<1>2. ~WillCount(p) /\ req[p].at \in Ending
  BY <1>1 DEF WillCount, Ending
<1>3. undercut' \subseteq Requests /\ astray' \in [title : BOOLEAN, count : BOOLEAN]
  BY <1>1 DEF IInv, Typed
<1>4. QED
  BY <1>1, <1>2, <1>3, ReadyInv

LEMMA ExpireInv == ASSUME IInv, NEW p \in Requests, Expire(p) PROVE IInv'
<1>1. req[p].at = "expire" /\ UNCHANGED <<row, hist, gone, title, stale, passed, undercut>>
      /\ req \in [Requests -> States]
  BY DEF Expire, IInv, Typed
<1>2. CASE Ready(p) /\ astray' = [astray EXCEPT !.count = TRUE]
  <2>1. undercut' \subseteq Requests /\ req[p].at \in Afters
    BY <1>1 DEF IInv, Typed, Afters
  <2>2. astray'.title = astray.title /\ astray'.count /\ astray' \in [title : BOOLEAN, count : BOOLEAN]
    BY <1>2 DEF IInv, Typed
  <2>3. QED
    BY <1>1, <1>2, <2>1, <2>2, ReadyInv
<1>3. CASE UNCHANGED astray /\ Goto(p, IF req[p].over THEN "trim" ELSE "count")
  <2>1. PICK point \in {"trim", "count"} : point = IF req[p].over THEN "trim" ELSE "count"
    OBVIOUS
  <2>2. /\ req' \in [Requests -> States]
        /\ \A q \in Requests \ {p} : req'[q] = req[q]
        /\ req'[p].at = point /\ req'[p].kind = req[p].kind
        /\ req'[p].copy = req[p].copy
        /\ req'[p].said = req[p].said /\ req'[p].sent = req[p].sent
        /\ req'[p].silent = req[p].silent
    <3>1. point \in Points /\ Goto(p, point)
      BY <1>3, <2>1 DEF Points
    <3>2. QED
      BY <1>1, <3>1, GotoShape
  <2>3. Typed'
    BY <1>1, <1>3, <2>2 DEF IInv, Typed
  <2>4. ~Speaks(req'[p]) /\ req[p].at \in Kepts /\ req'[p].at \notin Asking /\ req'[p].at \notin Ending
        /\ req'[p].at \in Kepts /\ req[p].at \in Afters /\ WillCount(p)'
    BY <1>1, <2>2 DEF Speaks, Kepts, Afters, Asking, Ending, Talking, WillCount
  <2>5. req'[p].kind \in Kept
    BY <2>2, <2>4 DEF IInv, SaversOK
  <2>6. SaversOK' /\ AnswersOK' /\ EntriesOK' /\ HiddenOK'
    BY <1>1, <2>2, <2>4, <2>5, TalkStays
  <2>7. (Holds(p)' => Holds(p)) /\ req'[p].at \notin {"find", "write"}
    BY <1>1, <2>2 DEF Holds
  <2>8. CopiesOK' /\ RowIsTrue'
    BY <1>1, <1>3, <2>2, <2>4, <2>7, RowStays DEF IInv, CopiesOK
  <2>9. QED
    BY <2>3, <2>6, <2>8 DEF IInv
<1>4. QED
  BY <1>2, <1>3 DEF Expire

LEMMA CountInv == ASSUME IInv, NEW p \in Requests, Count(p) PROVE IInv'
<1>1. /\ req' \in [Requests -> States]
      /\ \A q \in Requests \ {p} : req'[q] = req[q]
      /\ req[p].at = "count" /\ req'[p].at = "find"
      /\ req'[p].kind = req[p].kind /\ req'[p].copy.title = req[p].copy.title
      /\ req'[p].said = req[p].said
      /\ req'[p].sent = req[p].sent /\ req'[p].silent = req[p].silent
      /\ \/ req'[p].copy.count = Len(hist) /\ passed' = passed \ {p}
         \/ passed' = passed \union {p}
  BY CountShape DEF IInv
<1>2. UNCHANGED <<row, hist, gone, title, astray, stale, undercut>>
  BY DEF Count, ghosts
<1>3. Typed'
  BY <1>1, <1>2 DEF IInv, Typed
<1>4. ~Speaks(req'[p]) /\ req[p].at \in Kepts /\ req'[p].at \notin Asking /\ req'[p].at \notin Ending
      /\ req'[p].at \in Kepts /\ req[p].at \in Afters /\ WillCount(p)'
  BY <1>1 DEF Speaks, Kepts, Afters, Asking, Ending, Talking, WillCount
<1>5. req'[p].kind \in Kept
  BY <1>1, <1>4 DEF IInv, SaversOK
<1>6. SaversOK' /\ AnswersOK' /\ EntriesOK' /\ HiddenOK'
  BY <1>1, <1>2, <1>4, <1>5, TalkStays
<1>7. Holds(p)
  BY <1>1, <1>5 DEF Holds
<1>8. passed \ {p} \subseteq passed' /\ (p \notin passed' => req'[p].copy.count = Len(hist))
  BY <1>1
<1>9. p \notin stale /\ row # NoRow => req'[p].copy.title = row.title
  BY <1>1, <1>5, <1>7 DEF IInv, CopiesOK
<1>10. CopiesOK' /\ RowIsTrue'
  BY <1>1, <1>2, <1>4, <1>8, <1>9, RowStays
<1>11. QED
  BY <1>3, <1>6, <1>10 DEF IInv

LEMMA FindInv == ASSUME IInv, NEW p \in Requests, Find(p) PROVE IInv'
<1>1. /\ req' \in [Requests -> States]
      /\ \A q \in Requests \ {p} : req'[q] = req[q]
      /\ req[p].at = "find" /\ req'[p].at = "write"
      /\ req'[p].kind = req[p].kind /\ req'[p].copy = req[p].copy
      /\ req'[p].said = req[p].said
      /\ req'[p].sent = req[p].sent /\ req'[p].silent = req[p].silent
  BY FindShape DEF IInv
<1>2. UNCHANGED <<row, hist, gone, title, astray, stale, passed, undercut>>
  BY DEF Find, ghosts
<1>3. Typed'
  BY <1>1, <1>2 DEF IInv, Typed
<1>4. ~Speaks(req'[p]) /\ req[p].at \in Kepts /\ req'[p].at \notin Asking /\ req'[p].at \notin Ending
      /\ req'[p].at \in Kepts /\ req[p].at \in Afters /\ WillCount(p)'
  BY <1>1 DEF Speaks, Kepts, Afters, Asking, Ending, Talking, WillCount
<1>5. req'[p].kind \in Kept
  BY <1>1, <1>4 DEF IInv, SaversOK
<1>6. SaversOK' /\ AnswersOK' /\ EntriesOK' /\ HiddenOK'
  BY <1>1, <1>2, <1>4, <1>5, TalkStays
<1>7. Holds(p)
  BY <1>1, <1>5 DEF Holds
<1>8. CopiesOK' /\ RowIsTrue'
  BY <1>1, <1>2, <1>4, <1>5, <1>7, RowStays DEF IInv, CopiesOK
<1>9. QED
  BY <1>3, <1>6, <1>8 DEF IInv

(* The end of a request that was not saving.                               *)
LEMMA DoneInv ==
  ASSUME IInv, NEW p \in Requests, Done(p), ~WillCount(p),
         UNCHANGED <<row, hist, title, astray>>, gone' = gone \/ gone' = gone \ {p},
         stale' = stale \/ stale' = stale \ {p}, passed' = passed \/ passed' = passed \ {p},
         undercut' = undercut \/ undercut' = undercut \ {p}
  PROVE  IInv'
<1>1. /\ req' \in [Requests -> States]
      /\ \A q \in Requests \ {p} : req'[q] = req[q]
      /\ req'[p].at = "done" /\ req'[p].kind = req[p].kind /\ req'[p].said = req[p].said
      /\ req'[p].sent = req[p].sent /\ req'[p].silent = req[p].silent
  BY DoneTyped DEF IInv, Typed
<1>2. Typed'
  BY <1>1 DEF IInv, Typed
<1>3. ~Speaks(req'[p]) /\ req'[p].at \notin Asking /\ req'[p].at \notin Ending \union Afters
      /\ req'[p].at \in Kepts
  BY <1>1 DEF Speaks, Kepts, Afters, Asking, Ending, Talking
<1>4. gone \ {p} \subseteq gone' /\ passed \ {p} \subseteq passed' /\ stale \ {p} \subseteq stale'
      /\ undercut \ {p} \subseteq undercut'
  OBVIOUS
<1>5. SaversOK' /\ AnswersOK' /\ EntriesOK' /\ HiddenOK'
  BY <1>1, <1>3, <1>4, TalkStays
<1>6. ~Holds(p)' /\ req'[p].at \notin {"find", "write"}
  BY <1>1 DEF Holds
<1>7. CopiesOK' /\ RowIsTrue'
  BY <1>1, <1>4, <1>6, RowStays
<1>8. QED
  BY <1>2, <1>5, <1>7 DEF IInv

LEMMA QuietInv ==
  ASSUME IInv, NEW p \in Requests,
         ListAll(p) \/ Ask(p) \/ Break(p) \/ Report(p) \/ Final(p) \/ ListForTitle(p) \/ Select(p)
  PROVE  IInv'
<1>1. CASE ListAll(p)
  BY <1>1, GotoInv DEF ListAll, Points
<1>2. CASE Ask(p)
  BY <1>2, GotoInv DEF Ask, Is, Points, Talking
<1>3. CASE Break(p)
  BY <1>3, GotoInv DEF Break, Points, Talking
<1>4. CASE Report(p)
  BY <1>4, DoneInv DEF Report, Forget, WillCount
<1>5. CASE Final(p)
  BY <1>5, DoneInv DEF Final, Is, Forget, WillCount
<1>6. CASE ListForTitle(p)
  <2>1. CASE Goto(p, "title")
    BY <1>6, <2>1, GotoInv DEF ListForTitle, Is, Points
  <2>2. CASE Done(p)
    BY <1>6, <2>2, DoneInv DEF ListForTitle, Is, WillCount, ghosts
  <2>3. QED
    BY <1>6, <2>1, <2>2 DEF ListForTitle
<1>7. CASE Select(p)
  <2>1. CASE Goto(p, "rename")
    BY <1>7, <2>1, GotoInv DEF Select, Is, Points
  <2>2. CASE Done(p)
    BY <1>7, <2>2, DoneInv DEF Select, Is, WillCount, ghosts
  <2>3. QED
    BY <1>7, <2>1, <2>2 DEF Select
<1>8. QED
  BY <1>1, <1>2, <1>3, <1>4, <1>5, <1>6, <1>7

-----------------------------------------------------------------------------
(* Keeping an answer: LINDEX                                               *)

LEMMA PeekInv == ASSUME IInv, NEW p \in Requests, Peek(p) PROVE IInv'
<1>1. req[p].at = "keep" /\ UNCHANGED <<row, hist, gone, title, astray, stale, undercut>>
      /\ req \in [Requests -> States]
  BY DEF Peek, IInv, Typed
<1>2. \/ /\ Goto(p, "pop") /\ passed' = passed /\ hist # <<>> /\ Last(hist).user = req[p].user
      \/ /\ Goto(p, "push") /\ passed' = passed /\ ~(hist # <<>> /\ Last(hist).user = req[p].user)
      \/ Goto(p, "push") /\ passed' = passed \union {p}
  BY DEF Peek
<1>3. PICK point \in {"pop", "push"} : Goto(p, point)
  BY <1>2
<1>4. /\ req' \in [Requests -> States]
      /\ \A q \in Requests \ {p} : req'[q] = req[q]
      /\ req'[p].at = point /\ req'[p].kind = req[p].kind /\ req'[p].user = req[p].user
      /\ req'[p].copy = req[p].copy /\ req'[p].shown = req[p].shown
      /\ req'[p].hidden = req[p].hidden /\ req'[p].answer = req[p].answer
      /\ req'[p].said = req[p].said /\ req'[p].sent = req[p].sent
      /\ req'[p].silent = req[p].silent
  BY <1>1, <1>3, GotoShape DEF Points
<1>5. /\ \/ /\ req'[p].at = "pop" /\ passed' = passed /\ hist # <<>> /\ Last(hist).user = req[p].user
         \/ /\ req'[p].at = "push" /\ passed' = passed /\ ~(hist # <<>> /\ Last(hist).user = req[p].user)
         \/ req'[p].at = "push" /\ passed' = passed \union {p}
  <2>1. Goto(p, "pop") => req'[p].at = "pop"
    BY <1>1, GotoShape DEF Points
  <2>2. Goto(p, "push") => req'[p].at = "push"
    BY <1>1, GotoShape DEF Points
  <2>3. QED
    BY <1>2, <2>1, <2>2
<1>6. Typed'
  BY <1>1, <1>4, <1>5 DEF IInv, Typed
<1>7. req[p].at \notin Kepts /\ req'[p].at \in Ending /\ req'[p].at \in Asking /\ req[p].at \in Ending
      /\ req[p].at \in Asking /\ ~WillCount(p)
  BY <1>1, <1>4 DEF Kepts, Afters, Ending, Asking, WillCount
<1>8. req'[p].kind \in Kept
  BY <1>4, <1>7 DEF IInv, SaversOK
<1>9. Speaks(req'[p]) /\ (req'[p].at \in Ending => Here(p)') => Told(req'[p])
  <2>1. Speaks(req'[p]) => Speaks(req[p])
    BY <1>1, <1>4, <1>7 DEF Speaks
  <2>2. QED
    BY <1>1, <1>4, <1>7, <2>1 DEF IInv, AnswersOK, Told, Here
<1>10. req'[p].kind = "channel" => req'[p].answer = <<req'[p].said>>
  BY <1>4, <1>7 DEF IInv, AnswersOK
<1>11. req'[p].kind = "stream" => ShownOK(p)'
  <2>1. SUFFICES ASSUME req'[p].kind = "stream" PROVE ShownOK(p)'
    OBVIOUS
  <2>2. ShownOK(p)
    BY <1>4, <1>7, <2>1 DEF IInv, HiddenOK
  <2>3. \A q \in Requests : req[q].at \in Kepts => req'[q].at \in Kepts
    BY <1>4, <1>7
  <2>4. QED
    BY <1>1, <1>4, <1>5, <2>2, <2>3 DEF ShownOK
<1>12. SaversOK' /\ AnswersOK' /\ EntriesOK' /\ HiddenOK'
  <2>1. passed \ {p} \subseteq passed'
    BY <1>5
  <2>2. QED
    BY <1>1, <1>4, <1>7, <1>8, <1>9, <1>10, <1>11, <2>1, TalkStays
<1>13. CopiesOK' /\ RowIsTrue'
  <2>1. (Holds(p)' => Holds(p)) /\ req'[p].at \notin {"find", "write"} /\ passed \ {p} \subseteq passed'
    BY <1>1, <1>4, <1>5 DEF Holds
  <2>2. QED
    BY <1>1, <1>4, <1>7, <2>1, RowStays DEF IInv, CopiesOK
<1>14. QED
  BY <1>6, <1>12, <1>13 DEF IInv

-----------------------------------------------------------------------------
(* Keeping an answer: the commands that change the history                 *)

(* What a change of the history leaves true of the other requests.         *)
LEMMA OthersStay ==
  ASSUME IInv, NEW p, \A q \in Requests \ {p} : req'[q] = req[q],
         (Looking \union Pushing \union Saving) \ {p} \subseteq passed',
         undercut \ {p} \subseteq undercut',
         p \in Requests => (req[p].at \in Kepts => req'[p].at \in Kepts),
         \/ Looking \ {p} \subseteq undercut'
         \/ hist' = <<>>
         \/ hist # <<>> /\ Last(hist') = Last(hist)
         \/ p \in Requests /\ req[p].at \notin Kepts /\ Last(hist').by = p
  PROVE  /\ \A q \in Requests \ {p} : req'[q].kind = "stream" /\ req'[q].at \in Asking => ShownOK(q)'
         /\ \A q \in Requests \ {p} : req'[q].at \in {"find", "write"} => q \in passed'
<1>1. ASSUME NEW q \in Requests \ {p}, req'[q].kind = "stream", req'[q].at \in Asking
      PROVE  ShownOK(q)'
  <2>1. req'[q] = req[q] /\ ShownOK(q)
    BY <1>1 DEF IInv, HiddenOK
  <2>2. q \in Looking \union Pushing /\ (req[q].at # "push" => q \in Looking) /\ q \in passed'
    BY <1>1, <2>1 DEF Looking, Pushing, Asking, Talking, Ending
  <2>3. \A e \in Items(req[q].shown) \union {req[q].hidden} :
          e.by \in Requests => req'[e.by].at \in Kepts
    BY <2>1 DEF ShownOK
  <2>4. ASSUME q \notin undercut', req[q].at # "push", hist' # <<>>,
               req[q].at = "pop" \/ Last(hist').user = req[q].user
        PROVE  Last(hist') \notin Items(req[q].shown)
    <3>1. q \notin undercut /\ q \in Looking
      BY <1>1, <2>2, <2>4
    <3>2. CASE hist # <<>> /\ Last(hist') = Last(hist)
      BY <2>1, <2>4, <3>1, <3>2 DEF ShownOK
    <3>3. CASE p \in Requests /\ req[p].at \notin Kepts /\ Last(hist').by = p
      BY <2>1, <3>3 DEF ShownOK
    <3>4. QED
      BY <1>1, <2>4, <3>1, <3>2, <3>3
  <2>5. QED
    BY <2>1, <2>2, <2>3, <2>4 DEF ShownOK
<1>2. ASSUME NEW q \in Requests \ {p}, req'[q].at \in {"find", "write"} PROVE q \in passed'
  BY <1>2 DEF Saving
<1>3. QED
  BY <1>1, <1>2

(* A part of the history still has all an entry is to have.                *)
LEMMA PartOK ==
  ASSUME IInv, NEW d \in Nat,
         \A i \in DOMAIN hist' : i \in Nat /\ i + d \in DOMAIN hist /\ hist'[i] = hist[i + d],
         \A q \in Requests : req[q].at \in Kepts =>
           /\ req'[q].at \in Kepts /\ req'[q].kind = req[q].kind /\ req'[q].said = req[q].said
           /\ req'[q].sent = req[q].sent /\ req'[q].silent = req[q].silent
  PROVE  EntriesOK'
<1>1. ASSUME NEW i \in DOMAIN hist', hist'[i].by \in Requests
      PROVE  Keeps(req'[hist'[i].by], hist'[i])
  <2>1. Keeps(req[hist'[i].by], hist'[i])
    BY <1>1 DEF IInv, EntriesOK, EntryOK
  <2>2. QED
    BY <1>1, <2>1 DEF Keeps
<1>2. ASSUME NEW i \in DOMAIN hist', NEW j \in DOMAIN hist', hist'[i].by = hist'[j].by PROVE i = j
  <2>1. i + d = j + d
    BY <1>2 DEF IInv, EntriesOK
  <2>2. QED
    BY <1>2, <2>1
<1>3. QED
  BY <1>1, <1>2 DEF EntriesOK, EntryOK

(* What is left after an RPOP, an LPOP.                                    *)
LEMMA WithoutLast ==
  ASSUME IInv, hist # <<>>, hist' = Front(hist)
  PROVE  /\ hist' \in Seq(Entries)
         /\ \A i \in DOMAIN hist' : i \in Nat /\ i + 0 \in DOMAIN hist /\ hist'[i] = hist[i + 0]
         /\ Last(hist) \notin Items(hist')
         /\ Items(hist) \ Items(hist') \subseteq {Last(hist)}
<1>1. hist \in Seq(Entries) /\ DOMAIN hist = 1..Len(hist)
  BY DEF IInv, Typed
<1>2. /\ Front(hist) \in Seq(Entries) /\ Len(Front(hist)) = Len(hist) - 1
      /\ \A i \in 1..(Len(hist) - 1) : Front(hist)[i] = hist[i]
      /\ Last(hist) = hist[Len(hist)] /\ Len(hist) \in Nat \ {0}
  BY <1>1, FrontLast
<1>3. DOMAIN hist' = 1..(Len(hist) - 1)
  BY <1>2
<1>4. \A i \in DOMAIN hist' : i \in Nat /\ i \in DOMAIN hist /\ i # Len(hist) /\ hist'[i] = hist[i]
  BY <1>1, <1>2, <1>3
<1>5. Last(hist) \notin Items(hist')
  <2>1. Len(hist) \in DOMAIN hist
    BY <1>1, <1>2
  <2>2. \A i \in DOMAIN hist' : hist'[i] # Last(hist)
    BY <1>2, <1>4, <2>1 DEF IInv, EntriesOK
  <2>3. QED
    BY <2>2 DEF Items
<1>6. ASSUME NEW x \in Items(hist), x \notin Items(hist') PROVE x = Last(hist)
  <2>1. PICK i \in DOMAIN hist : x = hist[i]
    BY DEF Items
  <2>2. CASE i = Len(hist)
    BY <1>2, <2>1, <2>2
  <2>3. CASE i # Len(hist)
    <3>1. i \in DOMAIN hist'
      BY <1>1, <1>2, <1>3, <2>3
    <3>2. QED
      BY <1>4, <1>6, <2>1, <3>1 DEF Items
  <2>4. QED
    BY <2>2, <2>3
<1>7. QED
  BY <1>2, <1>4, <1>5, <1>6

LEMMA WithoutFirst ==
  ASSUME IInv, hist # <<>>, hist' = Tail(hist)
  PROVE  /\ hist' \in Seq(Entries)
         /\ \A i \in DOMAIN hist' : i \in Nat /\ i + 1 \in DOMAIN hist /\ hist'[i] = hist[i + 1]
         /\ hist' = <<>> \/ Last(hist') = Last(hist)
<1>1. hist \in Seq(Entries) /\ DOMAIN hist = 1..Len(hist) /\ Len(hist) \in Nat \ {0}
  BY FrontLast DEF IInv, Typed
<1>2. /\ hist' \in Seq(Entries) /\ Len(hist') = Len(hist) - 1 /\ DOMAIN hist' = 1..Len(hist')
      /\ \A i \in 1..(Len(hist) - 1) : hist'[i] = hist[i + 1]
  BY <1>1
<1>3. \A i \in DOMAIN hist' : i \in Nat /\ i + 1 \in DOMAIN hist /\ hist'[i] = hist[i + 1]
  BY <1>1, <1>2
<1>4. CASE Len(hist) = 1
  BY <1>2, <1>4
<1>5. CASE Len(hist) # 1
  <2>1. Len(hist) - 1 \in 1..(Len(hist) - 1) /\ Len(hist') = Len(hist) - 1 /\ Len(hist) - 1 + 1 = Len(hist)
    BY <1>1, <1>2, <1>5
  <2>2. hist'[Len(hist')] = hist[Len(hist)]
    BY <1>2, <2>1
  <2>3. QED
    BY <1>2, <1>3, <2>2 DEF Last
<1>6. QED
  BY <1>2, <1>3, <1>4, <1>5

LEMMA PopInv == ASSUME IInv, NEW p \in Requests, Pop(p) PROVE IInv'
<1>1. /\ req' \in [Requests -> States]
      /\ \A q \in Requests \ {p} : req'[q] = req[q]
      /\ req[p].at = "pop" /\ req'[p].at = "push"
      /\ req'[p].kind = req[p].kind /\ req'[p].user = req[p].user
      /\ req'[p].copy = req[p].copy /\ req'[p].shown = req[p].shown
      /\ req'[p].hidden = req[p].hidden /\ req'[p].answer = req[p].answer
      /\ req'[p].said = req[p].said /\ req'[p].sent = req[p].sent
      /\ req'[p].silent = req[p].silent
      /\ \/ /\ hist # <<>> /\ hist' = Front(hist) /\ req'[p].took
            /\ passed' = passed \union ((Looking \union Pushing \union Saving) \ {p})
            /\ undercut' = undercut \union (Looking \ {p})
         \/ hist' = hist /\ passed' = passed \union {p} /\ undercut' = undercut
  BY PopShape DEF IInv
<1>2. UNCHANGED <<row, gone, title, astray, stale>>
  BY DEF Pop
<1>3. req[p].at \notin Kepts /\ req'[p].at \in Ending /\ req'[p].at \in Asking /\ req[p].at \in Ending
      /\ req[p].at \in Asking /\ ~WillCount(p)
  BY <1>1 DEF Kepts, Afters, Ending, Asking, WillCount
<1>4. req'[p].kind \in Kept
  BY <1>1, <1>3 DEF IInv, SaversOK
<1>5. Speaks(req'[p]) /\ (req'[p].at \in Ending => Here(p)') => Told(req'[p])
  <2>1. Speaks(req'[p]) => Speaks(req[p])
    BY <1>1, <1>3 DEF Speaks
  <2>2. QED
    BY <1>1, <1>2, <1>3, <2>1 DEF IInv, AnswersOK, Told, Here
<1>6. req'[p].kind = "channel" => req'[p].answer = <<req'[p].said>>
  BY <1>1, <1>3 DEF IInv, AnswersOK
<1>7. (Holds(p)' => Holds(p)) /\ req'[p].at \notin {"find", "write"}
  BY <1>1 DEF Holds
<1>8. CASE /\ hist # <<>> /\ hist' = Front(hist) /\ req'[p].took
           /\ passed' = passed \union ((Looking \union Pushing \union Saving) \ {p})
           /\ undercut' = undercut \union (Looking \ {p})
  <2>1. /\ hist' \in Seq(Entries)
        /\ \A i \in DOMAIN hist' : i \in Nat /\ i + 0 \in DOMAIN hist /\ hist'[i] = hist[i + 0]
        /\ Last(hist) \notin Items(hist')
    BY <1>8, WithoutLast
  <2>2. Typed'
    BY <1>1, <1>2, <1>8, <2>1 DEF IInv, Typed, Looking, Pushing, Saving
  <2>3. SaversOK'
    BY <1>1, <1>4 DEF IInv, SaversOK
  <2>4. AnswersOK'
    BY <1>1, <1>2, <1>5, <1>6 DEF IInv, AnswersOK, Here
  <2>5. EntriesOK'
    <3>1. \A q \in Requests : req[q].at \in Kepts => req'[q] = req[q]
      BY <1>1, <1>3
    <3>2. QED
      BY <2>1, <3>1, PartOK
  <2>6. /\ \A q \in Requests \ {p} : req'[q].kind = "stream" /\ req'[q].at \in Asking => ShownOK(q)'
        /\ \A q \in Requests \ {p} : req'[q].at \in {"find", "write"} => q \in passed'
    BY <1>1, <1>3, <1>8, OthersStay
  <2>7. HiddenOK'
    <3>1. SUFFICES ASSUME req'[p].kind = "stream" PROVE ShownOK(p)'
      BY <2>6 DEF HiddenOK
    <3>2. ShownOK(p)
      BY <1>1, <1>3, <3>1 DEF IInv, HiddenOK
    <3>3. \A q \in Requests : req[q].at \in Kepts => req'[q].at \in Kepts
      BY <1>1, <1>3
    <3>4. QED
      BY <1>1, <1>8, <2>1, <3>2, <3>3 DEF ShownOK
  <2>8. CopiesOK'
    BY <1>1, <1>2, <1>7, <2>6 DEF IInv, CopiesOK, Holds
  <2>9. RowIsTrue'
    <3>1. WillCount(p)'
      BY <1>1, <1>8 DEF WillCount
    <3>2. QED
      BY <1>2, <3>1 DEF IInv, RowIsTrue
  <2>10. QED
    BY <2>2, <2>3, <2>4, <2>5, <2>7, <2>8, <2>9 DEF IInv
<1>9. CASE hist' = hist /\ passed' = passed \union {p} /\ undercut' = undercut
  <2>1. Typed'
    BY <1>1, <1>2, <1>9 DEF IInv, Typed
  <2>2. req'[p].kind = "stream" => ShownOK(p)'
    <3>1. SUFFICES ASSUME req'[p].kind = "stream" PROVE ShownOK(p)'
      OBVIOUS
    <3>2. ShownOK(p)
      BY <1>1, <1>3, <3>1 DEF IInv, HiddenOK
    <3>3. \A q \in Requests : req[q].at \in Kepts => req'[q].at \in Kepts
      BY <1>1, <1>3
    <3>4. QED
      BY <1>1, <1>9, <3>2, <3>3 DEF ShownOK
  <2>3. SaversOK' /\ AnswersOK' /\ EntriesOK' /\ HiddenOK'
    BY <1>1, <1>2, <1>3, <1>4, <1>5, <1>6, <1>9, <2>2, TalkStays
  <2>4. CopiesOK' /\ RowIsTrue'
    BY <1>1, <1>2, <1>3, <1>7, <1>9, RowStays DEF IInv, CopiesOK
  <2>5. QED
    BY <2>1, <2>3, <2>4 DEF IInv
<1>10. QED
  BY <1>1, <1>8, <1>9

LEMMA NotYetIn ==
  ASSUME IInv, NEW p \in Requests, req[p].at = "push"
  PROVE  \A i \in DOMAIN hist : hist[i].by # p
BY DEF IInv, EntriesOK, EntryOK, Keeps, Kepts, Afters

LEMMA PushedInv ==
  ASSUME IInv, NEW p \in Requests, Push(p), Here(p), Rewrite(p, Append(hist, Item(p))),
         astray' \in [title : BOOLEAN, count : BOOLEAN], RowIsTrue'
  PROVE  IInv'
<1>1. /\ req' \in [Requests -> States]
      /\ \A q \in Requests \ {p} : req'[q] = req[q]
      /\ req[p].at = "push" /\ req'[p].at \in {"expire", "last", "report"}
      /\ req'[p].kind = req[p].kind /\ req'[p].said = req[p].said
      /\ req'[p].at = "expire" => req'[p].copy = req[p].copy
      /\ req'[p].sent = req[p].sent /\ req'[p].silent = req[p].silent
  BY PushShape DEF IInv
<1>2. /\ UNCHANGED <<row, gone, title, stale>> /\ undercut' = undercut \ {p}
      /\ hist' = Append(hist, Item(p))
      /\ passed' = passed \union ((Looking \union Pushing \union Saving) \ {p})
  BY DEF Push, Rewrite
<1>3. Item(p) \in Entries /\ Item(p).by = p /\ Item(p).text = req[p].answer /\ hist \in Seq(Entries)
  BY ItemTyped DEF IInv, Typed
<1>4. /\ hist' \in Seq(Entries) /\ hist' # <<>> /\ Len(hist) \in Nat
      /\ DOMAIN hist' = 1..(Len(hist) + 1) /\ DOMAIN hist = 1..Len(hist)
      /\ \A i \in 1..Len(hist) : hist'[i] = hist[i]
      /\ hist'[Len(hist) + 1] = Item(p)
      /\ Last(hist') = Item(p)
  BY <1>2, <1>3, Appended
<1>5. Typed'
  BY <1>1, <1>2, <1>4 DEF IInv, Typed, Looking, Pushing, Saving
<1>6. req[p].at \notin Kepts /\ req[p].at \in Ending /\ req[p].at \in Asking /\ req'[p].at \in Kepts
      /\ req'[p].at \notin Ending /\ req'[p].at \notin Asking
  BY <1>1 DEF Kepts, Afters, Ending, Asking, Talking
<1>7. req[p].kind \in Kept
  BY <1>6 DEF IInv, SaversOK
<1>8. SaversOK'
  BY <1>1, <1>7 DEF IInv, SaversOK
<1>9. AnswersOK'
  <2>1. ~Speaks(req'[p])
    BY <1>1, <1>6 DEF Speaks
  <2>2. QED
    BY <1>1, <1>2, <1>6, <2>1 DEF IInv, AnswersOK, Here
<1>10. \A i \in DOMAIN hist : hist[i].by # p
  BY <1>1, NotYetIn
<1>11. EntriesOK'
  <2>1. ASSUME NEW i \in DOMAIN hist, hist[i].by \in Requests
        PROVE  Keeps(req'[hist[i].by], hist[i])
    <3>1. Keeps(req[hist[i].by], hist[i])
      BY <2>1 DEF IInv, EntriesOK, EntryOK
    <3>2. req'[hist[i].by] = req[hist[i].by]
      BY <1>1, <1>10, <2>1
    <3>3. QED
      BY <3>1, <3>2
  <2>2. Keeps(req'[p], Item(p))
    <3>1. CASE req[p].kind = "stream"
      <4>1. Told(req[p])
        <5>1. Speaks(req[p])
          BY <1>6, <3>1 DEF Speaks
        <5>2. QED
          BY <5>1 DEF IInv, AnswersOK
      <4>2. QED
        BY <1>1, <1>3, <1>6, <3>1, <4>1 DEF Keeps, Told
    <3>2. CASE req[p].kind = "channel"
      <4>1. req[p].answer = <<req[p].said>>
        BY <1>6, <3>2 DEF IInv, AnswersOK
      <4>2. QED
        BY <1>1, <1>3, <1>6, <3>2, <4>1 DEF Keeps
    <3>3. QED
      BY <1>7, <3>1, <3>2 DEF Kept
  <2>3. PICK e \in Entries : e = Item(p)
    BY <1>3
  <2>4. hist'[Len(hist) + 1] = e /\ e.by = p /\ Keeps(req'[p], e)
    BY <1>3, <1>4, <2>2, <2>3
  <2>5. ASSUME NEW i \in DOMAIN hist', hist'[i].by \in Requests
        PROVE  Keeps(req'[hist'[i].by], hist'[i])
    <3>1. CASE i = Len(hist) + 1
      BY <2>4, <3>1
    <3>2. CASE i # Len(hist) + 1
      <4>1. i \in DOMAIN hist /\ hist'[i] = hist[i]
        BY <1>4, <2>5, <3>2
      <4>2. QED
        BY <2>1, <2>5, <4>1
    <3>3. QED
      BY <3>1, <3>2
  <2>6. ASSUME NEW i \in DOMAIN hist', NEW j \in DOMAIN hist', hist'[i].by = hist'[j].by
        PROVE  i = j
    <3>1. \A k \in DOMAIN hist' : (k = Len(hist) + 1 <=> hist'[k].by = p)
      BY <1>4, <1>10, <2>4
    <3>2. CASE i = Len(hist) + 1 \/ j = Len(hist) + 1
      BY <2>6, <3>1, <3>2
    <3>3. CASE i # Len(hist) + 1 /\ j # Len(hist) + 1
      <4>1. i \in DOMAIN hist /\ hist'[i] = hist[i] /\ j \in DOMAIN hist /\ hist'[j] = hist[j]
        BY <1>4, <2>6, <3>3
      <4>2. QED
        BY <2>6, <4>1 DEF IInv, EntriesOK
    <3>4. QED
      BY <3>2, <3>3
  <2>7. QED
    BY <2>5, <2>6 DEF EntriesOK, EntryOK
<1>12. /\ \A q \in Requests \ {p} : req'[q].kind = "stream" /\ req'[q].at \in Asking => ShownOK(q)'
       /\ \A q \in Requests \ {p} : req'[q].at \in {"find", "write"} => q \in passed'
  BY <1>1, <1>2, <1>3, <1>4, <1>6, OthersStay
<1>13. HiddenOK'
  BY <1>6, <1>12 DEF HiddenOK
<1>14. CopiesOK'
  <2>1. req'[p].at \notin {"find", "write"}
    BY <1>1
  <2>2. Holds(p)' => Holds(p) /\ req'[p].copy = req[p].copy
    BY <1>1 DEF Holds
  <2>3. QED
    BY <1>1, <1>2, <1>12, <2>1, <2>2 DEF IInv, CopiesOK, Holds
<1>15. QED
  BY <1>5, <1>8, <1>9, <1>11, <1>13, <1>14 DEF IInv

LEMMA PushInv == ASSUME IInv, NEW p \in Requests, Push(p) PROVE IInv'
<1>1. req[p].at = "push" /\ UNCHANGED <<row, gone, title, stale>> /\ undercut' = undercut \ {p}
  BY DEF Push
<1>2. CASE /\ Works(p) /\ Rewrite(p, Append(hist, Item(p))) /\ UNCHANGED astray
           /\ Set(p, [Slim(req[p]) EXCEPT !.at = "expire", !.over = Overflows(Len(hist) + 1)])
  <2>1. req'[p].at = "expire"
    <3>1. PICK slim \in States : slim = Slim(req[p])
      BY SlimTyped DEF IInv, Typed
    <3>2. req'[p] = [slim EXCEPT !.at = "expire", !.over = Overflows(Len(hist) + 1)]
      BY <1>2, <3>1 DEF Set, IInv, Typed
    <3>3. QED
      BY <3>2 DEF States
  <2>2. RowIsTrue'
    BY <1>1, <1>2, <2>1 DEF IInv, RowIsTrue, WillCount
  <2>3. QED
    BY <1>2, <2>2, PushedInv DEF Works, IInv, Typed
<1>3. CASE /\ Here(p) /\ Rewrite(p, Append(hist, Item(p))) /\ astray' = [astray EXCEPT !.count = TRUE]
  <2>1. /\ astray' \in [title : BOOLEAN, count : BOOLEAN]
        /\ astray'.title = astray.title /\ astray'.count
    BY <1>3 DEF IInv, Typed
  <2>2. RowIsTrue'
    BY <1>1, <2>1 DEF IInv, RowIsTrue
  <2>3. QED
    BY <1>3, <2>1, <2>2, PushedInv
<1>4. CASE /\ Ready(p) /\ UNCHANGED <<hist, passed>> /\ astray' = [astray EXCEPT !.count = @ \/ req[p].took]
  <2>1. /\ undercut \ {p} \subseteq undercut' /\ undercut' \subseteq Requests
        /\ req[p].at \in Ending \union Afters
    BY <1>1 DEF IInv, Typed, Ending
  <2>2. req[p].took \in BOOLEAN
    BY FieldsTyped DEF IInv, Typed
  <2>3. PICK b \in BOOLEAN : b = (astray.count \/ req[p].took)
    BY <2>2 DEF IInv, Typed
  <2>4. astray' = [astray EXCEPT !.count = b]
    BY <1>4, <2>3
  <2>5. astray' \in [title : BOOLEAN, count : BOOLEAN] /\ astray'.title = astray.title /\ astray'.count = b
    BY <2>4 DEF IInv, Typed
  <2>6. CASE req[p].took
    BY <1>1, <1>4, <2>1, <2>3, <2>5, <2>6, ReadyInv
  <2>7. CASE ~req[p].took
    <3>1. ~WillCount(p) /\ astray'.count = astray.count
      BY <1>1, <2>3, <2>5, <2>7 DEF WillCount, IInv, Typed
    <3>2. QED
      BY <1>1, <1>4, <2>1, <2>5, <3>1, ReadyInv
  <2>8. QED
    BY <2>2, <2>6, <2>7
<1>5. QED
  BY <1>2, <1>3, <1>4 DEF Push

(* LPOP after the answer was counted in: the oldest entry is lost.         *)
LEMMA TrimmedInv ==
  ASSUME IInv, NEW p \in Requests, req[p].at = "trim", req' \in [Requests -> States],
         \A q \in Requests \ {p} : req'[q] = req[q],
         req'[p].at \in {"count", "last", "report"}, req'[p].kind = req[p].kind,
         req'[p].said = req[p].said, req'[p].sent = req[p].sent, req'[p].silent = req[p].silent,
         req'[p].at = "count" => req'[p].copy = req[p].copy,
         hist # <<>>, Rewrite(p, Tail(hist)), UNCHANGED <<row, gone, title, stale, undercut>>,
         astray' \in [title : BOOLEAN, count : BOOLEAN], RowIsTrue'
  PROVE  IInv'
<1>1. hist' = Tail(hist) /\ passed' = passed \union ((Looking \union Pushing \union Saving) \ {p})
  BY DEF Rewrite
<1>2. /\ hist' \in Seq(Entries)
      /\ \A i \in DOMAIN hist' : i \in Nat /\ i + 1 \in DOMAIN hist /\ hist'[i] = hist[i + 1]
      /\ hist' = <<>> \/ Last(hist') = Last(hist)
  BY <1>1, WithoutFirst
<1>3. Typed'
  BY <1>1, <1>2 DEF IInv, Typed, Looking, Pushing, Saving
<1>4. /\ req[p].at \in Afters /\ req[p].at \in Kepts /\ req'[p].at \in Kepts
      /\ req'[p].at \notin Ending /\ req'[p].at \notin Asking /\ ~Speaks(req'[p])
  BY DEF Kepts, Afters, Ending, Asking, Talking, Speaks
<1>5. req[p].kind \in Kept
  BY <1>4 DEF IInv, SaversOK
<1>6. SaversOK'
  BY <1>5 DEF IInv, SaversOK
<1>7. AnswersOK'
  BY <1>4 DEF IInv, AnswersOK, Here
<1>8. EntriesOK'
  <2>1. 1 \in Nat
    OBVIOUS
  <2>2. QED
    BY <1>2, <1>4, <2>1, PartOK
<1>9. /\ \A q \in Requests \ {p} : req'[q].kind = "stream" /\ req'[q].at \in Asking => ShownOK(q)'
      /\ \A q \in Requests \ {p} : req'[q].at \in {"find", "write"} => q \in passed'
  BY <1>1, <1>2, <1>4, OthersStay
<1>10. HiddenOK'
  BY <1>4, <1>9 DEF HiddenOK
<1>11. CopiesOK'
  <2>1. req'[p].at \notin {"find", "write"} /\ (Holds(p)' => Holds(p) /\ req'[p].copy = req[p].copy)
    BY DEF Holds
  <2>2. QED
    BY <1>9, <2>1 DEF IInv, CopiesOK, Holds
<1>12. QED
  BY <1>3, <1>6, <1>7, <1>8, <1>10, <1>11 DEF IInv

LEMMA TrimInv == ASSUME IInv, NEW p \in Requests, Trim(p) PROVE IInv'
<1>1. req[p].at = "trim" /\ UNCHANGED <<row, gone, title, stale, undercut>>
      /\ req \in [Requests -> States] /\ req[p].at \in Afters
  BY DEF Trim, IInv, Typed, Afters
<1>2. CASE Goto(p, "count") /\ UNCHANGED astray
           /\ IF hist = <<>> THEN UNCHANGED <<hist, passed>> ELSE Rewrite(p, Tail(hist))
  <2>1. /\ req' \in [Requests -> States]
        /\ \A q \in Requests \ {p} : req'[q] = req[q]
        /\ req'[p].at = "count" /\ req'[p].kind = req[p].kind
        /\ req'[p].copy = req[p].copy
        /\ req'[p].said = req[p].said /\ req'[p].sent = req[p].sent
        /\ req'[p].silent = req[p].silent
    BY <1>1, <1>2, GotoShape DEF Points
  <2>2. WillCount(p)'
    BY <2>1 DEF WillCount
  <2>3. RowIsTrue'
    BY <1>1, <1>2, <2>2 DEF IInv, RowIsTrue
  <2>4. CASE hist # <<>>
    <3>1. astray' \in [title : BOOLEAN, count : BOOLEAN]
      BY <1>2 DEF IInv, Typed
    <3>2. QED
      BY <1>1, <1>2, <2>1, <2>3, <2>4, <3>1, TrimmedInv
  <2>5. CASE hist = <<>>
    <3>1. Typed'
      BY <1>1, <1>2, <2>1, <2>5 DEF IInv, Typed
    <3>2. /\ ~Speaks(req'[p]) /\ req[p].at \in Kepts /\ req'[p].at \notin Asking
          /\ req'[p].at \notin Ending /\ req'[p].at \in Kepts
      BY <1>1, <2>1 DEF Speaks, Kepts, Afters, Asking, Ending, Talking
    <3>3. req'[p].kind \in Kept
      BY <1>1, <2>1 DEF IInv, SaversOK
    <3>4. SaversOK' /\ AnswersOK' /\ EntriesOK' /\ HiddenOK'
      BY <1>1, <1>2, <2>1, <2>5, <3>2, <3>3, TalkStays
    <3>5. (Holds(p)' => Holds(p)) /\ req'[p].at \notin {"find", "write"}
      BY <1>1, <2>1 DEF Holds
    <3>6. CopiesOK'
      BY <1>1, <1>2, <2>1, <2>2, <2>5, <3>5, RowStays DEF IInv, CopiesOK
    <3>7. QED
      BY <2>3, <3>1, <3>4, <3>6 DEF IInv
  <2>6. QED
    BY <2>4, <2>5
<1>3. CASE /\ Ready(p) /\ astray' = [astray EXCEPT !.count = TRUE]
           /\ UNCHANGED <<hist, passed>> \/ (hist # <<>> /\ Rewrite(p, Tail(hist)))
  <2>1. /\ astray' \in [title : BOOLEAN, count : BOOLEAN]
        /\ astray'.title = astray.title /\ astray'.count
    BY <1>3 DEF IInv, Typed
  <2>2. undercut' \subseteq Requests
    BY <1>1 DEF IInv, Typed
  <2>3. CASE UNCHANGED <<hist, passed>>
    BY <1>1, <1>3, <2>1, <2>2, <2>3, ReadyInv
  <2>4. CASE hist # <<>> /\ Rewrite(p, Tail(hist))
    <3>1. RowIsTrue'
      BY <1>1, <2>1 DEF IInv, RowIsTrue
    <3>2. /\ req' \in [Requests -> States]
          /\ \A q \in Requests \ {p} : req'[q] = req[q]
          /\ req'[p].at \in {"last", "report"} /\ req'[p].kind = req[p].kind
          /\ req'[p].said = req[p].said
          /\ req'[p].sent = req[p].sent /\ req'[p].silent = req[p].silent
      BY <1>1, <1>3, ReadyShape
    <3>3. QED
      BY <1>1, <2>1, <2>4, <3>1, <3>2, TrimmedInv
  <2>5. QED
    BY <1>3, <2>3, <2>4
<1>4. QED
  BY <1>2, <1>3 DEF Trim

(* The history expires. *)
LEMMA LapseInv == ASSUME IInv, Lapse PROVE IInv'
<1>1. /\ hist' = <<>> /\ UNCHANGED <<row, req, gone, title, stale, undercut>>
      /\ passed' = passed \union ((Looking \union Pushing \union Saving) \ {Old})
      /\ astray' = [astray EXCEPT !.count = TRUE]
  BY DEF Lapse, Rewrite
<1>2. Old \notin Requests
  BY WebChatAssumption
<1>3. /\ astray' \in [title : BOOLEAN, count : BOOLEAN]
      /\ astray'.title = astray.title /\ astray'.count
  BY <1>1 DEF IInv, Typed
<1>4. Typed'
  <2>1. hist' \in Seq(Entries)
    BY <1>1
  <2>2. QED
    BY <1>1, <1>3, <2>1 DEF IInv, Typed, Looking, Pushing, Saving
<1>5. SaversOK' /\ AnswersOK'
  BY <1>1 DEF IInv, SaversOK, AnswersOK, Told, Here
<1>6. EntriesOK'
  BY <1>1 DEF EntriesOK
<1>7. /\ \A q \in Requests \ {Old} : req'[q].kind = "stream" /\ req'[q].at \in Asking => ShownOK(q)'
      /\ \A q \in Requests \ {Old} : req'[q].at \in {"find", "write"} => q \in passed'
  BY <1>1, <1>2, OthersStay
<1>8. HiddenOK'
  BY <1>2, <1>7 DEF HiddenOK
<1>9. CopiesOK'
  BY <1>1, <1>2, <1>7 DEF IInv, CopiesOK, Holds
<1>10. RowIsTrue'
  BY <1>1, <1>3 DEF IInv, RowIsTrue
<1>11. QED
  BY <1>4, <1>5, <1>6, <1>8, <1>9, <1>10 DEF IInv

-----------------------------------------------------------------------------
(* Writing the row                                                         *)

LEMMA WriteInv == ASSUME IInv, NEW p \in Requests, Write(p) PROVE IInv'
<1>1. Ready(p) /\ req[p].at = "write" /\ UNCHANGED <<hist, gone, passed, undercut>>
      /\ req \in [Requests -> States] /\ req[p].at \in Afters
  BY DEF Write, IInv, Typed, Afters
<1>2. /\ req' \in [Requests -> States]
      /\ \A q \in Requests \ {p} : req'[q] = req[q]
      /\ req'[p].at \in {"last", "report"} /\ req'[p].kind = req[p].kind
      /\ req'[p].said = req[p].said
      /\ req'[p].sent = req[p].sent /\ req'[p].silent = req[p].silent
  BY <1>1, ReadyShape
<1>3. CASE astray' = [astray EXCEPT !.count = TRUE] /\ UNCHANGED <<row, title, stale>>
  <2>1. astray' \in [title : BOOLEAN, count : BOOLEAN] /\ astray'.title = astray.title /\ astray'.count
    BY <1>3 DEF IInv, Typed
  <2>2. undercut' \subseteq Requests
    BY <1>1 DEF IInv, Typed
  <2>3. QED
    BY <1>1, <1>3, <2>1, <2>2, ReadyInv
<1>4. CASE /\ row' = req[p].copy
           /\ astray' = [title |-> p \in stale \/ (astray.title /\ row # NoRow), count |-> p \in passed]
           /\ title' = IF row = NoRow THEN req[p].copy.title ELSE title
           /\ stale' = (stale \union Outdated) \ {p}
  <2>1. req[p].copy \in Rows
    BY <1>1, FieldsTyped
  <2>2. PICK b \in BOOLEAN : b = (p \in stale \/ (astray.title /\ row # NoRow))
    BY DEF IInv, Typed
  <2>3. PICK c \in BOOLEAN : c = (p \in passed)
    <3>1. CASE p \in passed
      <4>1. TRUE = (p \in passed)
        BY <3>1
      <4>2. QED
        BY <4>1, Zenon
    <3>2. CASE p \notin passed
      <4>1. FALSE = (p \in passed)
        BY <3>2
      <4>2. QED
        BY <4>1, Zenon
    <3>3. QED
      BY <3>1, <3>2
  <2>4. astray' = [title |-> b, count |-> c]
    BY <1>4, <2>2, <2>3
  <2>5. astray' \in [title : BOOLEAN, count : BOOLEAN] /\ astray'.title = b /\ astray'.count = c
    BY <2>4
  <2>6. Typed'
    BY <1>1, <1>2, <1>4, <2>1, <2>5 DEF IInv, Typed, Outdated
  <2>7. SaversOK' /\ AnswersOK' /\ EntriesOK' /\ HiddenOK'
    <3>1. ~Speaks(req'[p]) /\ req'[p].at \notin Asking /\ req'[p].at \notin Ending \union Afters
          /\ req'[p].at \in Kepts
      BY <1>2 DEF Speaks, Kepts, Afters, Asking, Ending, Talking
    <3>2. QED
      BY <1>1, <1>2, <3>1, TalkStays
  <2>8. req[p].kind \in Kept
    BY <1>1 DEF IInv, SaversOK
  <2>9. CopiesOK'
    <3>1. ASSUME NEW q \in Requests, Holds(q)', q \notin stale' PROVE req'[q].copy.title = row'.title
      <4>1. CASE q = p
        <5>1. req[p].kind = "stream" \/ req[p].kind = "channel"
          BY <2>8 DEF Kept
        <5>2. req'[p].at \in {"last", "report"}
          BY <1>2
        <5>3. QED
          BY <3>1, <4>1, <5>2 DEF Holds
      <4>2. CASE q # p
        <5>1. req'[q] = req[q] /\ Holds(q)
          BY <1>2, <3>1, <4>2 DEF Holds
        <5>2. QED
          BY <1>4, <3>1, <4>2, <5>1 DEF Outdated
      <4>3. QED
        BY <4>1, <4>2
    <3>2. \A q \in Requests : req'[q].at \in {"find", "write"} /\ q \notin passed' =>
            req'[q].copy.count = Len(hist')
      BY <1>1, <1>2 DEF IInv, CopiesOK
    <3>3. QED
      BY <3>1, <3>2 DEF CopiesOK
  <2>10. p \notin passed => row'.count = Len(hist)
    BY <1>1, <1>4 DEF IInv, CopiesOK
  <2>11. astray'.title \/ row'.title = title'
    <3>1. CASE row = NoRow
      BY <1>4, <3>1
    <3>2. CASE row # NoRow
      <4>1. p \notin stale => req[p].copy.title = row.title
        BY <1>1, <2>8, <3>2 DEF IInv, CopiesOK, Holds
      <4>2. astray.title \/ row.title = title
        BY <3>2 DEF IInv, RowIsTrue
      <4>3. CASE p \in stale \/ astray.title
        BY <2>2, <2>5, <3>2, <4>3
      <4>4. CASE p \notin stale /\ row.title = title
        BY <1>4, <3>2, <4>1, <4>4
      <4>5. QED
        BY <4>2, <4>3, <4>4
    <3>3. QED
      BY <3>1, <3>2
  <2>12. astray'.count \/ row'.count = Len(hist')
    BY <1>1, <2>3, <2>5, <2>10
  <2>13. RowIsTrue'
    BY <2>11, <2>12 DEF RowIsTrue
  <2>14. QED
    BY <2>6, <2>7, <2>9, <2>13 DEF IInv
<1>5. QED
  BY <1>3, <1>4 DEF Write

(* The title is given, or the row deleted, behind the others' backs.       *)
LEMMA RowChanged ==
  ASSUME IInv, NEW p \in Requests, Done(p), req[p].at \notin Ending \union Afters,
         req[p].kind \notin Kept, UNCHANGED <<hist, gone, passed, undercut>>,
         stale' = stale \union Outdated, row' \in Rows,
         astray' \in [title : BOOLEAN, count : BOOLEAN], RowIsTrue'
  PROVE  IInv'
<1>1. /\ req' \in [Requests -> States]
      /\ \A q \in Requests \ {p} : req'[q] = req[q]
      /\ req'[p].at = "done" /\ req'[p].kind = req[p].kind /\ req'[p].said = req[p].said
      /\ req'[p].sent = req[p].sent /\ req'[p].silent = req[p].silent
  BY DoneTyped DEF IInv, Typed
<1>2. Typed'
  BY <1>1 DEF IInv, Typed, Outdated
<1>3. SaversOK' /\ AnswersOK' /\ EntriesOK' /\ HiddenOK'
  <2>1. ~Speaks(req'[p]) /\ req'[p].at \notin Asking /\ req'[p].at \notin Ending \union Afters
        /\ req'[p].at \in Kepts
    BY <1>1 DEF Speaks, Kepts, Afters, Asking, Ending, Talking
  <2>2. QED
    BY <1>1, <2>1, TalkStays
<1>4. CopiesOK'
  <2>1. \A q \in Requests : Holds(q)' => q \in stale'
    BY <1>1 DEF Holds, Outdated
  <2>2. \A q \in Requests : req'[q].at \in {"find", "write"} /\ q \notin passed' =>
          req'[q].copy.count = Len(hist')
    BY <1>1 DEF IInv, CopiesOK
  <2>3. QED
    BY <2>1, <2>2 DEF CopiesOK
<1>5. QED
  BY <1>2, <1>3, <1>4 DEF IInv

LEMMA RetitleInv == ASSUME IInv, NEW p \in Requests, Retitle(p) PROVE IInv'
<1>1. Done(p) /\ req[p].at = "rename" /\ req[p].kind = "title"
      /\ UNCHANGED <<hist, gone, passed, undercut>>
  BY DEF Retitle, Is
<1>2. req[p].at \notin Ending \union Afters /\ req[p].kind \notin Kept /\ ~WillCount(p)
  BY <1>1 DEF Ending, Afters, Kept, WillCount
<1>3. CASE UNCHANGED <<row, title, astray, stale>>
  BY <1>1, <1>2, <1>3, DoneInv
<1>4. CASE /\ row # NoRow /\ row' = NewTitle(p) /\ title' = p
           /\ astray' = [astray EXCEPT !.title = FALSE] /\ stale' = stale \union Outdated
  <2>1. row \in Rows
    BY DEF IInv, Typed
  <2>2. row' \in Rows /\ row'.title = p /\ row'.count = row.count
    BY <1>4, <2>1 DEF NewTitle, Rows, Titles
  <2>3. astray' \in [title : BOOLEAN, count : BOOLEAN] /\ astray'.count = astray.count
    BY <1>4 DEF IInv, Typed
  <2>4. \A q \in Requests : WillCount(q) => WillCount(q)'
    <3>1. \A q \in Requests \ {p} : req'[q] = req[q]
      BY <1>1, DoneTyped DEF IInv, Typed
    <3>2. QED
      BY <1>2, <3>1 DEF WillCount
  <2>5. RowIsTrue'
    BY <1>1, <1>4, <2>2, <2>3, <2>4 DEF IInv, RowIsTrue
  <2>6. QED
    BY <1>1, <1>2, <1>4, <2>2, <2>3, <2>5, RowChanged
<1>5. QED
  BY <1>3, <1>4 DEF Retitle

LEMMA DeleteInv == ASSUME IInv, NEW p \in Requests, Delete(p) PROVE IInv'
<1>1. /\ Done(p) /\ req[p].at = "delete" /\ req[p].kind = "delete"
      /\ UNCHANGED <<hist, gone, astray, passed, undercut>> /\ row' = NoRow
      /\ stale' = stale \union Outdated
  BY DEF Delete, Is
<1>2. row' \in Rows /\ RowIsTrue' /\ astray' \in [title : BOOLEAN, count : BOOLEAN]
  BY <1>1, BlankTyped DEF RowIsTrue, IInv, Typed
<1>3. req[p].at \notin Ending \union Afters /\ req[p].kind \notin Kept
  BY <1>1 DEF Ending, Afters, Kept
<1>4. QED
  BY <1>1, <1>2, <1>3, RowChanged

LEMMA StepInv == IInv /\ [Next]_vars => IInv'
<1>1. SUFFICES ASSUME IInv, [Next]_vars PROVE IInv'
  OBVIOUS
<1>2. CASE UNCHANGED vars
  BY <1>1, <1>2 DEF vars, ghosts, IInv, Typed, SaversOK, AnswersOK, Told, Here, EntriesOK, EntryOK,
                    Keeps, HiddenOK, ShownOK, CopiesOK, Holds, RowIsTrue, WillCount
<1>3. CASE Lapse
  BY <1>1, <1>3, LapseInv
<1>4. ASSUME NEW p \in Requests, Begin(p) \/ Leave(p) \/ Step(p) PROVE IInv'
  <2>1. CASE Begin(p) \/ Leave(p)
    BY <1>1, <2>1, BeginInv, LeaveInv
  <2>2. CASE Step(p)
    BY <1>1, <2>2, QuietInv, ListInv, PieceInv, FinishInv, ToolsInv, AskOnceInv, SkipInv, PeekInv,
       PopInv, PushInv, ExpireInv, TrimInv, CountInv, FindInv, WriteInv, RetitleInv, DeleteInv
       DEF Step
  <2>3. QED
    BY <1>4, <2>1, <2>2
<1>5. QED
  BY <1>1, <1>2, <1>3, <1>4 DEF Next

LEMMA InvHolds == Spec => []IInv
  BY InitInv, StepInv, PTL DEF Spec

-----------------------------------------------------------------------------
(* What they promise                                                       *)

(* The answer of a stream that the history keeps is all the model said, in *)
(* order, and the client was sent just that, but for a last piece that     *)
(* came with the end of a stream (stream, doChatStream, AddHistory).       *)
THEOREM AnswersAreWhole == Spec => []SavedIsSaid
<1>1. IInv => SavedIsSaid
  BY DEF IInv, EntriesOK, EntryOK, Keeps, SavedIsSaid, Items
<1>2. QED
  BY <1>1, InvHolds, PTL

(* The row has the title given last and counts the history when no request *)
(* is between its change of the history and Save, whatever the others pop, *)
(* push and trim; unless a copy or a count was saved that another request  *)
(* had outdated, a command failed, or the history expired (Save,           *)
(* AddHistory, UpdateSession).                                             *)
THEOREM RowsAreTrue == Spec => []RowIsTrue
  BY InvHolds, PTL DEF IInv

LEMMA OthersAlone ==
  ASSUME Typed, NEW q \in Requests, Begin(q) \/ Leave(q) \/ Step(q), NEW p \in Requests \ {q}
  PROVE  req'[p] = req[p]
<1>1. ASSUME NEW r, req' = [req EXCEPT ![q] = r] PROVE req'[p] = req[p]
  BY <1>1 DEF Typed
<1>2. CASE Begin(q)
  BY <1>2, BeginShape
<1>3. CASE Leave(q)
  BY <1>3 DEF Leave, ghosts
<1>4. CASE List(q) \/ Piece(q) \/ Finish(q) \/ Tools(q) \/ AskOnce(q) \/ Pop(q) \/ Push(q)
        \/ Count(q) \/ Find(q)
  BY <1>4, ListShape, PieceShape, FinishShape, ToolsShape, AskOnceShape, PopShape, PushShape,
     CountShape, FindShape
<1>5. CASE ListAll(q) \/ Ask(q) \/ Break(q) \/ Report(q) \/ Skip(q) \/ Peek(q) \/ Expire(q)
        \/ Trim(q) \/ Write(q) \/ Final(q)
  BY <1>1, <1>5 DEF ListAll, Ask, Break, Report, Skip, Peek, Expire, Trim, Write, Final, Goto, Done,
                    Ready, Set
<1>6. CASE ListForTitle(q) \/ Select(q) \/ Retitle(q) \/ Delete(q)
  BY <1>1, <1>6 DEF ListForTitle, Select, Retitle, Delete, Goto, Done, Set
<1>7. QED
  BY <1>2, <1>3, <1>4, <1>5, <1>6 DEF Step

(* From "pop" a request goes on with Pop, from "push" with Push.           *)
LEMMA OnlyKeeping ==
  ASSUME Typed, [Next]_vars, NEW p \in Requests, req[p].at \in {"pop", "push"}, req'[p].at # req[p].at
  PROVE  Pop(p) \/ Push(p)
<1>1. ~UNCHANGED vars /\ ~Lapse
  BY DEF vars, Lapse
<1>2. PICK q \in Requests : Begin(q) \/ Leave(q) \/ Step(q)
  BY <1>1 DEF Next
<1>3. q = p
  BY <1>2, OthersAlone
<1>4. ~Begin(p) /\ ~Leave(p)
  BY DEF Begin, Leave
<1>5. ~List(p) /\ ~ListAll(p) /\ ~Ask(p) /\ ~Break(p) /\ ~Piece(p) /\ ~Finish(p) /\ ~Tools(p)
  BY DEF List, ListAll, Ask, Break, Piece, Finish, Tools, Is
<1>6. ~AskOnce(p) /\ ~Report(p) /\ ~Skip(p) /\ ~Peek(p) /\ ~Expire(p) /\ ~Trim(p) /\ ~Count(p)
      /\ ~Find(p) /\ ~Write(p) /\ ~Final(p)
  BY DEF AskOnce, Report, Skip, Peek, Expire, Trim, Count, Find, Write, Final, Is
<1>7. ~ListForTitle(p) /\ ~Select(p) /\ ~Retitle(p) /\ ~Delete(p)
  BY DEF ListForTitle, Select, Retitle, Delete, Is
<1>8. QED
  BY <1>2, <1>3, <1>4, <1>5, <1>6, <1>7 DEF Step

(* A prompt that is sent again replaces the answer that was hidden from    *)
(* the model, and takes none away that it was shown, whatever requests     *)
(* come between LINDEX, RPOP and RPUSH, unless one of them takes an entry  *)
(* away, or, for the first, changes the history at all                     *)
(* (prepareChatRequest, AddHistory).                                       *)
THEOREM RetriesReplace == Spec => RetryReplaces
<1>1. ASSUME IInv, [Next]_vars, NEW p \in Requests,
             req[p].kind = "stream", req'[p].at # req[p].at, req[p].at = "pop", p \notin undercut
      PROVE  (Items(hist) \ Items(hist')) \cap Items(req[p].shown) = {}
  <2>1. Pop(p)
    BY <1>1, OnlyKeeping DEF IInv, Push
  <2>2. ShownOK(p)
    BY <1>1 DEF IInv, HiddenOK, Asking, Ending
  <2>3. CASE hist' = hist
    BY <2>3
  <2>4. CASE hist # <<>> /\ hist' = Front(hist)
    <3>1. Items(hist) \ Items(hist') \subseteq {Last(hist)}
      BY <1>1, <2>4, WithoutLast
    <3>2. Last(hist) \notin Items(req[p].shown)
      BY <1>1, <2>2, <2>4 DEF ShownOK
    <3>3. QED
      BY <3>1, <3>2
  <2>5. QED
    BY <1>1, <2>1, <2>3, <2>4, PopShape DEF IInv
<1>2. ASSUME IInv, [Next]_vars, NEW p \in Requests,
             req[p].kind = "stream", req'[p].at # req[p].at, req[p].at = "push",
             req[p].hidden # NoItem, req[p].hidden.user = req[p].user, p \notin passed
      PROVE  req[p].hidden \notin Items(hist')
  <2>1. Push(p)
    BY <1>2, OnlyKeeping DEF IInv, Pop
  <2>2. /\ req[p].hidden \notin Items(hist)
        /\ req[p].hidden.by \in Requests => req[req[p].hidden.by].at \in Kepts
    BY <1>2 DEF IInv, HiddenOK, ShownOK, Asking, Ending
  <2>3. req[p].hidden # Item(p)
    <3>1. Item(p).by = p
      BY <1>2, ItemTyped DEF IInv
    <3>2. req[p].hidden.by # p
      BY <1>2, <2>2 DEF Kepts, Afters
    <3>3. QED
      BY <3>1, <3>2
  <2>4. CASE hist' = hist
    BY <2>2, <2>4
  <2>5. CASE hist' = Append(hist, Item(p))
    <3>1. Items(hist') = Items(hist) \union {Item(p)}
      BY <1>2, <2>5, ItemTyped, Appended DEF IInv, Typed
    <3>2. QED
      BY <2>2, <2>3, <3>1
  <2>6. QED
    BY <2>1, <2>4, <2>5 DEF Push, Rewrite
<1>3. IInv /\ [Next]_vars =>
        [\A p \in Requests :
           LET r == req[p] IN
           r.kind = "stream" /\ req'[p].at # r.at =>
             /\ r.at = "pop" /\ p \notin undercut
                  => (Items(hist) \ Items(hist')) \cap Items(r.shown) = {}
             /\ r.at = "push" /\ r.hidden # NoItem /\ r.hidden.user = r.user /\ p \notin passed
                  => r.hidden \notin Items(hist')]_vars
  BY <1>1, <1>2
<1>4. QED
  BY <1>3, InvHolds, PTL DEF Spec, RetryReplaces
=============================================================================
