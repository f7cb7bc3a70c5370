------------------------- MODULE ConvoHistoryProofs -------------------------
(***************************************************************************)
(* Theorems about the conversation store, for every number of messages and *)
(* of overlapping handlers, every history limit and every set of faults.   *)
(***************************************************************************)
EXTENDS ConvoHistory, FiniteSetTheorems, TLAPS

(* Sequence facts used for the lists. *)
LEMMA FrontLast ==
  ASSUME NEW S, NEW s \in Seq(S), s # <<>>
  PROVE  /\ Front(s) \in Seq(S) /\ Len(Front(s)) = Len(s) - 1
         /\ Last(s) \in S
<1>1. Len(s) \in Nat /\ Len(s) # 0
  OBVIOUS
<1>2. Last(s) \in S
  BY <1>1 DEF Last
<1>3. Len(s) - 1 \in Nat
  BY <1>1
<1>4. Front(s) = [i \in 1..(Len(s) - 1) |-> s[i]]
  BY <1>1 DEF Front
<1>5. Front(s) \in Seq(S) /\ Len(Front(s)) = Len(s) - 1
  BY <1>3, <1>4
<1>6. QED
  BY <1>2, <1>5

LEMMA TailLen ==
  ASSUME NEW S, NEW s \in Seq(S), s # <<>>
  PROVE  Tail(s) \in Seq(S) /\ Len(Tail(s)) = Len(s) - 1
OBVIOUS

LEMMA AppendLen ==
  ASSUME NEW S, NEW s \in Seq(S), NEW e \in S
  PROVE  /\ Append(s, e) \in Seq(S) /\ Append(s, e) # <<>>
         /\ Len(Append(s, e)) = Len(s) + 1
<1>1. Append(s, e) \in Seq(S) /\ Len(Append(s, e)) = Len(s) + 1
  OBVIOUS
<1>2. Append(s, e) # <<>>
  <2>1. Len(s) \in Nat /\ Len(<<>>) = 0
    OBVIOUS
  <2>2. Len(Append(s, e)) # Len(<<>>)
    BY <1>1, <2>1
  <2>3. QED
    BY <2>2
<1>3. QED
  BY <1>1, <1>2

LEMMA BumpTyped ==
  ASSUME NEW D, NEW f \in [D -> Nat], NEW d \in D
  PROVE  [f EXCEPT ![d] = @ + 1] \in [D -> Nat]
OBVIOUS

LEMMA SetTyped ==
  ASSUME NEW D, NEW R, NEW f \in [D -> R], NEW d \in D, NEW r \in R
  PROVE  [f EXCEPT ![d] = r] \in [D -> R]
OBVIOUS

(* Writing back a shorter list keeps the store well-formed. *)
LEMMA RewriteTyped ==
  ASSUME StoreOK, NEW c \in Convs, NEW s \in Seq(Items), Rewrite(c, s),
         UNCHANGED mapping
  PROVE  StoreOK'
BY DEF StoreOK, Rewrite

(* A handler that has its conversation moves on to another command. *)
LEMMA MovesOn ==
  ASSUME HandlersOK, NEW m \in Messages, conv[m] \in Convs,
         NEW step \in Looked, Goto(m, step),
         UNCHANGED <<key, conv, user>>, over' \in [Messages -> BOOLEAN]
  PROVE  HandlersOK'
BY DEF HandlersOK, Goto, Steps, Looked

(* What SkipTrim leaves of the counts of skipped trims. *)
LEMMA SkipTyped ==
  ASSUME skipped \in [Convs -> Nat], NEW m \in Messages, conv[m] \in Convs,
         SkipTrim(m)
  PROVE  skipped' \in [Convs -> Nat]
BY DEF SkipTrim

LEMMA InitTyped == Init => TypeOK
<1> SUFFICES ASSUME Init PROVE TypeOK
  OBVIOUS
<1>1. (CHOOSE u \in Prompts : TRUE) \in Prompts
  BY ConvoAssumption
<1>2. QED
  BY <1>1 DEF Init, TypeOK, StoreOK, HandlersOK, GhostsOK, Convs, Messages,
              NoConv, Steps, Looked

LEMMA StepTyped == TypeOK /\ [Next]_vars => TypeOK'
<1> SUFFICES ASSUME TypeOK, [Next]_vars PROVE TypeOK'
  OBVIOUS
<1> USE DEF TypeOK, handler, ghosts, Goto, Fault, Steps, Looked, NoConv, Convs
<1>1. ASSUME NEW m \in Messages, NEW u \in Prompts, ReceiveWeb(m, u) PROVE TypeOK'
  <2>1. StoreOK'
    BY <1>1 DEF StoreOK, HandlersOK, ReceiveWeb, Arrives
  <2>2. HandlersOK'
    BY <1>1 DEF StoreOK, HandlersOK, ReceiveWeb, Arrives
  <2>3. GhostsOK'
    BY <1>1 DEF StoreOK, HandlersOK, GhostsOK, ReceiveWeb, Arrives
  <2>4. QED
    BY <2>1, <2>2, <2>3
<1>2. ASSUME NEW m \in Messages, NEW u \in Prompts, NEW k \in Keys, Receive(m, k, u) PROVE TypeOK'
  <2>1. StoreOK'
    BY <1>2 DEF StoreOK, HandlersOK, Receive, Arrives
  <2>2. HandlersOK'
    BY <1>2 DEF StoreOK, HandlersOK, Receive, Arrives
  <2>3. GhostsOK'
    BY <1>2 DEF StoreOK, HandlersOK, GhostsOK, Receive, Arrives
  <2>4. QED
    BY <2>1, <2>2, <2>3
<1>3. ASSUME NEW m \in Messages, NEW u \in Prompts, NEW k \in Keys, Reset(m, k, u) PROVE TypeOK'
  <2>1. StoreOK'
    BY <1>3 DEF StoreOK, Reset, ResetSession
  <2>2. HandlersOK'
    BY <1>3 DEF HandlersOK, Reset, Arrives
  <2>3. GhostsOK'
    <3>1. era[k] \in Nat
      BY DEF GhostsOK
    <3>2. era' = era \/ era' = [era EXCEPT ![k] = @ + 1]
      BY <1>3 DEF Reset
    <3>3. era' \in [Keys -> Nat]
      BY <3>1, <3>2, BumpTyped DEF GhostsOK
    <3>4. raced' \subseteq raced \union {<<k, era[k] + 1>>}
      BY <1>3 DEF Reset
    <3>5. raced' \subseteq Keys \X Nat
      BY <3>1, <3>4 DEF GhostsOK
    <3>6. forked' \subseteq forked \union {<<k, era[k] + 1>>, <<k, era[k]>>}
      BY <1>3 DEF Reset
    <3>7. forked' \subseteq Keys \X Nat
      BY <3>1, <3>6 DEF GhostsOK
    <3>8. QED
      BY <1>3, <3>3, <3>5, <3>7 DEF GhostsOK, Reset
  <2>4. QED
    BY <2>1, <2>2, <2>3
<1>4. ASSUME NEW m \in Messages, Lookup(m) PROVE TypeOK'
  <2>1. StoreOK'
    BY <1>4 DEF StoreOK, Lookup
  <2>2. HandlersOK'
    BY <1>4 DEF StoreOK, HandlersOK, Lookup, FoundOrNew
  <2>3. GhostsOK'
    <3>1. key[m] \in Keys /\ era[key[m]] \in Nat
      BY <1>4 DEF HandlersOK, GhostsOK, Lookup
    <3>2. forked' \subseteq Keys \X Nat /\ faults' \in Nat
      BY <1>4, <3>1 DEF GhostsOK, Lookup
    <3>3. QED
      BY <1>4, <3>1, <3>2 DEF GhostsOK, Lookup
  <2>4. QED
    BY <2>1, <2>2, <2>3
<1>5. ASSUME NEW m \in Messages, Bind(m) PROVE TypeOK'
  <2>1. StoreOK'
    BY <1>5 DEF StoreOK, HandlersOK, Bind, BindMapping
  <2>2. HandlersOK'
    BY <1>5 DEF StoreOK, HandlersOK, Bind, BindMapping
  <2>3. GhostsOK'
    BY <1>5 DEF StoreOK, HandlersOK, GhostsOK, Bind, BindMapping
  <2>4. QED
    BY <2>1, <2>2, <2>3
<1>6. ASSUME NEW m \in Messages, List(m) \/ Chat(m) PROVE TypeOK'
  <2>1. StoreOK'
    BY <1>6 DEF StoreOK, HandlersOK, List, Chat
  <2>2. \E step \in {"chat", "peek", "done"} : Goto(m, step)
    BY <1>6 DEF List, Chat
  <2>3. conv[m] \in Convs /\ UNCHANGED <<key, conv, user, over>>
    BY <1>6 DEF List, Chat, HandlersOK
  <2>4. HandlersOK'
    BY <2>2, <2>3, MovesOn DEF HandlersOK
  <2>5. GhostsOK'
    BY <1>6 DEF GhostsOK, List, Chat, ghosts
  <2>6. QED
    BY <2>1, <2>4, <2>5
<1>7. ASSUME NEW m \in Messages, Peek(m) PROVE TypeOK'
  <2>1. StoreOK'
    BY <1>7 DEF StoreOK, Peek
  <2>2. \E step \in {"pop", "push"} : Goto(m, step)
    BY <1>7 DEF Peek
  <2>3. conv[m] \in Convs /\ UNCHANGED <<key, conv, user, over>>
    BY <1>7 DEF Peek, HandlersOK
  <2>4. HandlersOK'
    BY <2>2, <2>3, MovesOn DEF HandlersOK
  <2>5. GhostsOK'
    BY <1>7 DEF GhostsOK, Peek
  <2>6. QED
    BY <2>1, <2>4, <2>5
<1>8. ASSUME NEW m \in Messages, Pop(m) PROVE TypeOK'
  <2> DEFINE c == conv[m]
             s == hist[c]
  <2>1. c \in Convs /\ s \in Seq(Items)
    BY <1>8 DEF Pop, HandlersOK, StoreOK
  <2>2. StoreOK'
    <3>1. CASE s # <<>> /\ Rewrite(c, Front(s))
      BY <1>8, <2>1, <3>1, FrontLast, RewriteTyped DEF Pop
    <3>2. CASE UNCHANGED <<hist, armed>>
      BY <1>8, <3>2 DEF Pop, StoreOK
    <3>3. QED
      BY <1>8, <3>1, <3>2 DEF Pop
  <2>3. HandlersOK'
    BY <1>8, <2>1, MovesOn DEF Pop, HandlersOK
  <2>4. GhostsOK'
    <3>1. s # <<>> => Last(s) \in Items
      BY <2>1, FrontLast
    <3>2. popped' = popped \/ (s # <<>> /\ popped' = [popped EXCEPT ![m] = <<Last(s)>>])
      BY <1>8 DEF Pop
    <3>3. popped' \in [Messages -> Seq(Items)]
      <4>1. s # <<>> => <<Last(s)>> \in Seq(Items)
        BY <3>1
      <4>2. QED
        BY <3>2, <4>1, SetTyped DEF GhostsOK
    <3>4. QED
      BY <1>8, <3>3 DEF Pop, GhostsOK
  <2>5. QED
    BY <2>2, <2>3, <2>4
<1>9. ASSUME NEW m \in Messages, Push(m) PROVE TypeOK'
  <2> DEFINE c == conv[m]
             s == Append(hist[c], [msg |-> m, user |-> user[m]])
  <2>1. c \in Convs /\ hist[c] \in Seq(Items) /\ [msg |-> m, user |-> user[m]] \in Items
    BY <1>9 DEF Push, HandlersOK, StoreOK, Items
  <2>2. s \in Seq(Items) /\ s # <<>>
    BY <2>1, AppendLen
  <2> HIDE DEF s
  <2>3. StoreOK'
    <3>1. UNCHANGED <<mapping, armed>> /\ (hist' = hist \/ hist' = [hist EXCEPT ![c] = s])
      BY <1>9 DEF Push, s
    <3>2. QED
      BY <2>1, <2>2, <3>1 DEF StoreOK
  <2>4. HandlersOK'
    <3>1. \E step \in {"expire", "done"} : Goto(m, step)
      BY <1>9 DEF Push
    <3>2. over' = over \/ over' = [over EXCEPT ![m] = Overflows(Len(s))]
      BY <1>9 DEF Push, s
    <3>3. Overflows(Len(s)) \in BOOLEAN
      BY DEF Overflows
    <3>4. over' \in [Messages -> BOOLEAN]
      BY <3>2, <3>3 DEF HandlersOK
    <3>5. QED
      BY <1>9, <2>1, <3>1, <3>4, MovesOn DEF Push
  <2>5. GhostsOK'
    <3>1. popped' \in [Messages -> Seq(Items)]
      BY <1>9 DEF Push, GhostsOK
    <3>2. /\ skipped' = skipped \/ skipped' = [skipped EXCEPT ![c] = @ + 1]
          /\ unarmed' = unarmed \/ unarmed' = unarmed \union {c}
          /\ faults' = faults \/ faults' = faults + 1
      BY <1>9 DEF Push
    <3>3. skipped' \in [Convs -> Nat]
      <4>1. skipped \in [Convs -> Nat]
        BY DEF GhostsOK
      <4>2. [skipped EXCEPT ![c] = @ + 1] \in [Convs -> Nat]
        BY <2>1, <4>1, BumpTyped
      <4>3. QED
        BY <3>2, <4>1, <4>2
    <3>4. unarmed' \subseteq Convs
      BY <2>1, <3>2 DEF GhostsOK
    <3>5. faults' \in Nat
      BY <3>2 DEF GhostsOK
    <3>6. QED
      BY <1>9, <3>1, <3>3, <3>4, <3>5 DEF Push, GhostsOK
  <2>6. QED
    BY <2>3, <2>4, <2>5
<1>10. ASSUME NEW m \in Messages, Expire(m) PROVE TypeOK'
  <2>1. conv[m] \in Convs
    BY <1>10 DEF Expire, HandlersOK
  <2>2. StoreOK'
    BY <1>10, <2>1 DEF Expire, StoreOK
  <2>3. HandlersOK'
    <3>1. \E step \in {"trim", "done"} : Goto(m, step)
      BY <1>10 DEF Expire
    <3>2. QED
      BY <1>10, <2>1, <3>1, MovesOn DEF Expire, HandlersOK
  <2>4. GhostsOK'
    <3>1. skipped' \in [Convs -> Nat]
      BY <1>10, <2>1, SkipTyped DEF Expire, GhostsOK
    <3>2. unarmed' \subseteq Convs /\ faults' \in Nat
      BY <1>10, <2>1 DEF Expire, GhostsOK
    <3>3. QED
      BY <1>10, <3>1, <3>2 DEF Expire, GhostsOK
  <2>5. QED
    BY <2>2, <2>3, <2>4
<1>11. ASSUME NEW m \in Messages, Trim(m) PROVE TypeOK'
  <2> DEFINE c == conv[m]
             s == hist[c]
  <2>1. c \in Convs /\ s \in Seq(Items)
    BY <1>11 DEF Trim, HandlersOK, StoreOK
  <2>2. StoreOK'
    <3>1. CASE s # <<>> /\ Rewrite(c, Tail(s))
      BY <1>11, <2>1, <3>1, TailLen, RewriteTyped DEF Trim
    <3>2. CASE UNCHANGED <<hist, armed>>
      BY <1>11, <3>2 DEF Trim, StoreOK
    <3>3. QED
      BY <1>11, <3>1, <3>2 DEF Trim
  <2>3. HandlersOK'
    BY <1>11, <2>1, MovesOn DEF Trim, HandlersOK
  <2>4. GhostsOK'
    <3>1. skipped' \in [Convs -> Nat] /\ faults' \in Nat
      BY <1>11, <2>1, SkipTyped DEF Trim, GhostsOK
    <3>2. QED
      BY <1>11, <3>1 DEF Trim, GhostsOK
  <2>5. QED
    BY <2>2, <2>3, <2>4
<1>12. ASSUME NEW m \in Messages, Crash(m) PROVE TypeOK'
  <2>1. StoreOK'
    BY <1>12 DEF StoreOK, Crash
  <2>2. HandlersOK'
    BY <1>12 DEF HandlersOK, Crash
  <2>3. GhostsOK'
    <3>1. skipped' \in [Convs -> Nat]
      BY <1>12, SkipTyped DEF Crash, GhostsOK, HandlersOK
    <3>2. unarmed' \subseteq Convs
      BY <1>12 DEF Crash, GhostsOK, HandlersOK
    <3>3. forked' \subseteq Keys \X Nat
      BY <1>12 DEF Crash, GhostsOK, HandlersOK
    <3>4. faults' \in Nat /\ popped' \in [Messages -> Seq(Items)]
      BY <1>12 DEF Crash, GhostsOK
    <3>5. QED
      BY <1>12, <3>1, <3>2, <3>3, <3>4 DEF Crash, GhostsOK
  <2>4. QED
    BY <2>1, <2>2, <2>3
<1>13. ASSUME NEW k \in Keys, ExpireMapping(k) PROVE TypeOK'
  <2>1. StoreOK'
    BY <1>13 DEF StoreOK, HandlersOK, ExpireMapping
  <2>2. HandlersOK'
    BY <1>13 DEF StoreOK, HandlersOK, ExpireMapping
  <2>3. GhostsOK'
    BY <1>13 DEF StoreOK, HandlersOK, GhostsOK, ExpireMapping
  <2>4. QED
    BY <2>1, <2>2, <2>3
<1>14. ASSUME NEW c \in Convs, ExpireHistory(c) PROVE TypeOK'
  <2>1. StoreOK'
    BY <1>14 DEF StoreOK, HandlersOK, ExpireHistory, Rewrite
  <2>2. HandlersOK'
    BY <1>14 DEF StoreOK, HandlersOK, ExpireHistory, Rewrite
  <2>3. GhostsOK'
    BY <1>14 DEF StoreOK, HandlersOK, GhostsOK, ExpireHistory, Rewrite
  <2>4. QED
    BY <2>1, <2>2, <2>3
<1>15. CASE UNCHANGED vars
  BY <1>15 DEF StoreOK, HandlersOK, GhostsOK, vars
<1>16. QED
  BY <1>1, <1>2, <1>3, <1>4, <1>5, <1>6, <1>7, <1>8, <1>9, <1>10, <1>11, <1>12,
     <1>13, <1>14, <1>15 DEF Next, Handle

(* The types hold in every reachable state.                                *)
THEOREM ConvoTyped == Spec => []TypeOK
BY InitTyped, StepTyped, PTL DEF Spec

-----------------------------------------------------------------------------
(* The length of a history                                                 *)

LEMMA OwingFinite ==
  ASSUME NEW c
  PROVE  IsFiniteSet(Owing(c)) /\ Cardinality(Owing(c)) \in Nat
<1>1. IsFiniteSet(Messages)
  BY ConvoAssumption, FS_Interval DEF Messages
<1>2. Owing(c) \in SUBSET Messages
  BY DEF Owing
<1>3. QED
  BY <1>1, <1>2, FS_Subset, FS_CardinalityType

(* A handler that leaves its last command no longer owes anything.         *)
LEMMA OwingLeft ==
  ASSUME HandlersOK, NEW c, NEW m \in Messages, NEW step \in Steps \ {"expire", "trim"},
         Goto(m, step), UNCHANGED <<conv, over>>
  PROVE  Owing(c)' = Owing(c) \ {m}
BY DEF Owing, HandlersOK, Goto, Steps

(* The bound carries over to a step by which c gets no longer and no fewer *)
(* LPOPs are owed to it or given up.                                       *)
LEMMA BoundKept ==
  ASSUME TypeOK, TypeOK', LengthBound, NEW c \in Convs,
         Len(hist'[c]) <= Len(hist[c]),
         Owing(c)' = Owing(c), skipped'[c] >= skipped[c]
  PROVE  Len(hist'[c]) <= MaxLen + Cardinality(Owing(c)') + skipped'[c]
<1>1. Len(hist[c]) <= MaxLen + Cardinality(Owing(c)) + skipped[c]
  BY DEF LengthBound
<1>2. /\ Len(hist[c]) \in Nat /\ Len(hist'[c]) \in Nat
      /\ skipped[c] \in Nat /\ skipped'[c] \in Nat
  BY DEF TypeOK, StoreOK, GhostsOK
<1>3. Cardinality(Owing(c)) \in Nat /\ MaxLen \in Nat
  BY OwingFinite, ConvoAssumption
<1>4. QED
  BY <1>1, <1>2, <1>3

(* Handler m stops owing c its LPOP: either the list got shorter by one    *)
(* (or is empty), or the LPOP is counted as skipped.                       *)
LEMMA BoundPaid ==
  ASSUME TypeOK, TypeOK', LengthBound, NEW c \in Convs, NEW m \in Messages,
         Owing(c)' = Owing(c) \ {m},
         \/ /\ Len(hist'[c]) = Len(hist[c]) /\ m \notin Owing(c)
            /\ skipped'[c] = skipped[c]
         \/ Len(hist'[c]) = Len(hist[c]) /\ skipped'[c] = skipped[c] + 1
         \/ Len(hist'[c]) = Len(hist[c]) - 1 /\ skipped'[c] = skipped[c]
         \/ Len(hist'[c]) = 0
  PROVE  Len(hist'[c]) <= MaxLen + Cardinality(Owing(c)') + skipped'[c]
<1>1. Len(hist[c]) <= MaxLen + Cardinality(Owing(c)) + skipped[c]
  BY DEF LengthBound
<1>2. /\ Len(hist[c]) \in Nat /\ Len(hist'[c]) \in Nat
      /\ skipped[c] \in Nat /\ skipped'[c] \in Nat
  BY DEF TypeOK, StoreOK, GhostsOK
<1>3. /\ Cardinality(Owing(c)) \in Nat
      /\ IsFiniteSet(Owing(c)) /\ MaxLen \in Nat
  BY OwingFinite, ConvoAssumption
<1>4. Cardinality(Owing(c)') =
        IF m \in Owing(c) THEN Cardinality(Owing(c)) - 1 ELSE Cardinality(Owing(c))
  BY <1>3, FS_RemoveElement
<1>5. Cardinality(Owing(c) \ {m}) \in Nat
  BY <1>3, FS_RemoveElement, FS_CardinalityType
<1>6. Cardinality(Owing(c)') \in Nat
  BY <1>5
<1>7. CASE m \in Owing(c)
  <2>1. Cardinality(Owing(c)') = Cardinality(Owing(c)) - 1
    BY <1>4, <1>7
  <2>2. \/ Len(hist'[c]) = Len(hist[c]) /\ skipped'[c] = skipped[c] + 1
        \/ Len(hist'[c]) = Len(hist[c]) - 1 /\ skipped'[c] = skipped[c]
        \/ Len(hist'[c]) = 0
    BY <1>7
  <2>3. CASE Len(hist'[c]) = Len(hist[c]) /\ skipped'[c] = skipped[c] + 1
    BY <1>1, <1>2, <1>3, <1>6, <2>1, <2>3
  <2>4. CASE Len(hist'[c]) = Len(hist[c]) - 1 /\ skipped'[c] = skipped[c]
    BY <1>1, <1>2, <1>3, <1>6, <2>1, <2>4
  <2>5. CASE Len(hist'[c]) = 0
    BY <1>2, <1>3, <1>6, <2>5
  <2>6. QED
    BY <2>2, <2>3, <2>4, <2>5
<1>8. CASE m \notin Owing(c)
  <2>1. Cardinality(Owing(c)') = Cardinality(Owing(c))
    BY <1>4, <1>8
  <2>2. QED
    BY <1>1, <1>2, <1>3, <1>6, <2>1
<1>9. QED
  BY <1>7, <1>8

LEMMA StepBounded == TypeOK /\ TypeOK' /\ LengthBound /\ [Next]_vars => LengthBound'
<1> SUFFICES ASSUME TypeOK, TypeOK', LengthBound, [Next]_vars, NEW c \in Convs
             PROVE  Len(hist'[c]) <= MaxLen + Cardinality(Owing(c)') + skipped'[c]
  BY DEF LengthBound
<1> DEFINE Goal == Len(hist'[c]) <= MaxLen + Cardinality(Owing(c)') + skipped'[c]
<1>0. /\ hist[c] \in Seq(Items) /\ Len(hist[c]) \in Nat /\ skipped[c] \in Nat
      /\ HandlersOK /\ pc \in [Messages -> Steps]
  BY DEF TypeOK, StoreOK, GhostsOK, HandlersOK
<1>1. ASSUME UNCHANGED <<hist, skipped>>, Owing(c)' = Owing(c) PROVE Goal
  BY <1>0, <1>1, BoundKept
<1>2. ASSUME NEW m \in Messages, NEW u \in Prompts,
             \/ ReceiveWeb(m, u)
             \/ \E k \in Keys : Receive(m, k, u) \/ Reset(m, k, u)
      PROVE  Goal
  <2>1. UNCHANGED <<hist, skipped, over>> /\ pc[m] = "new"
    BY <1>2 DEF ReceiveWeb, Receive, Reset, Arrives, handler, ghosts
  <2>2. \A n \in Messages : n # m => conv'[n] = conv[n] /\ pc'[n] = pc[n]
    BY <1>0, <1>2 DEF ReceiveWeb, Receive, Reset, Goto, HandlersOK
  <2>3. pc'[m] \in {"list", "lookup", "done"}
    BY <1>0, <1>2 DEF ReceiveWeb, Receive, Reset, Goto
  <2>4. Owing(c)' = Owing(c)
    BY <2>1, <2>2, <2>3 DEF Owing
  <2>5. QED
    BY <1>1, <2>1, <2>4
<1>3. ASSUME NEW m \in Messages, Lookup(m) \/ Bind(m) \/ List(m) \/ Chat(m) \/ Peek(m)
      PROVE  Goal
  <2>1. UNCHANGED <<hist, skipped, over>> /\ pc[m] \notin {"expire", "trim"}
    BY <1>3 DEF Lookup, Bind, List, Chat, Peek, ghosts
  <2>2. \E step \in Steps \ {"expire", "trim"} : Goto(m, step)
    BY <1>3 DEF Lookup, Bind, List, Chat, Peek, Steps, Looked
  <2>3. \A n \in Messages : n # m => conv'[n] = conv[n] /\ pc'[n] = pc[n]
    BY <1>0, <1>3, <2>2 DEF Lookup, FoundOrNew, Bind, List, Chat, Peek, Goto, HandlersOK
  <2>4. pc'[m] \notin {"expire", "trim"}
    BY <1>0, <2>2 DEF Goto
  <2>5. Owing(c)' = Owing(c)
    BY <2>1, <2>3, <2>4 DEF Owing
  <2>6. QED
    BY <1>1, <2>1, <2>5
<1>4. ASSUME NEW m \in Messages, Pop(m) PROVE Goal
  <2>1. Owing(c)' = Owing(c) \ {m}
    BY <1>0, <1>4, OwingLeft DEF Pop, Steps, Looked
  <2>2. m \notin Owing(c) /\ UNCHANGED skipped
    BY <1>4 DEF Pop, Owing
  <2>3. hist' = hist \/ (hist[conv[m]] # <<>> /\ hist' = [hist EXCEPT ![conv[m]] = Front(@)])
    BY <1>4 DEF Pop, Rewrite
  <2>4. hist[c] # <<>> => Len(Front(hist[c])) = Len(hist[c]) - 1
    BY <1>0, FrontLast
  <2>5. Len(hist'[c]) <= Len(hist[c])
    <3>1. CASE hist' = hist \/ conv[m] # c
      BY <1>0, <2>3, <3>1 DEF TypeOK, StoreOK
    <3>2. CASE conv[m] = c /\ hist[c] # <<>> /\ hist'[c] = Front(hist[c])
      BY <1>0, <2>4, <3>2
    <3>3. QED
      BY <2>3, <3>1, <3>2 DEF TypeOK, StoreOK
  <2>6. Owing(c)' = Owing(c) /\ skipped'[c] >= skipped[c]
    BY <1>0, <2>1, <2>2
  <2>7. QED
    BY <2>5, <2>6, BoundKept
<1>5. ASSUME NEW m \in Messages, Push(m) PROVE Goal
  <2> DEFINE d == conv[m]
             s == Append(hist[d], [msg |-> m, user |-> user[m]])
  <2>1. d \in Convs /\ [msg |-> m, user |-> user[m]] \in Items /\ hist[d] \in Seq(Items)
    BY <1>0, <1>5 DEF Push, HandlersOK, TypeOK, StoreOK, Items
  <2>2. Len(s) = Len(hist[d]) + 1
    BY <2>1, AppendLen
  <2>3. m \notin Owing(c) /\ pc[m] = "push" /\ conv' = conv
    BY <1>5 DEF Push, Owing
  <2> HIDE DEF s
  <2>4. CASE /\ hist' = [hist EXCEPT ![d] = s]
             /\ over' = [over EXCEPT ![m] = Overflows(Len(s))]
             /\ Goto(m, "expire") /\ UNCHANGED skipped
    <3>1. /\ over'[m] = Overflows(Len(s)) /\ pc'[m] = "expire"
          /\ \A n \in Messages : n # m => over'[n] = over[n] /\ pc'[n] = pc[n]
      BY <1>0, <2>4 DEF HandlersOK, Goto
    <3>2. CASE d = c /\ Overflows(Len(s))
      <4>1. Owing(c)' = Owing(c) \union {m}
        BY <2>3, <3>1, <3>2 DEF Owing
      <4>2. Cardinality(Owing(c)') = Cardinality(Owing(c)) + 1
        BY <2>3, <4>1, OwingFinite, FS_AddElement
      <4>3. hist'[c] = s
        BY <2>1, <2>4, <3>2 DEF TypeOK, StoreOK
      <4>4. Len(hist[c]) <= MaxLen + Cardinality(Owing(c)) + skipped[c]
        BY DEF LengthBound
      <4>5. QED
        BY <1>0, <2>2, <2>4, <3>2, <4>2, <4>3, <4>4, OwingFinite, ConvoAssumption
    <3>3. CASE d = c /\ ~Overflows(Len(s))
      <4>1. hist'[c] = s
        BY <2>1, <2>4, <3>3 DEF TypeOK, StoreOK
      <4>2. Len(s) <= MaxLen
        BY <1>0, <2>2, <3>3, ConvoAssumption DEF Overflows
      <4>3. IsFiniteSet(Owing(c)') /\ Cardinality(Owing(c)') \in Nat
        <5>1. IsFiniteSet(Messages)
          BY ConvoAssumption, FS_Interval DEF Messages
        <5>2. Owing(c)' \in SUBSET Messages
          BY DEF Owing
        <5>3. QED
          BY <5>1, <5>2, FS_Subset, FS_CardinalityType
      <4>4. QED
        BY <1>0, <2>2, <2>4, <3>3, <4>1, <4>2, <4>3, ConvoAssumption
    <3>4. CASE d # c
      <4>1. Owing(c)' = Owing(c)
        BY <2>3, <3>1, <3>4 DEF Owing
      <4>2. hist'[c] = hist[c]
        BY <2>4, <3>4 DEF TypeOK, StoreOK
      <4>3. QED
        BY <1>0, <2>4, <4>1, <4>2, BoundKept
    <3>5. QED
      BY <3>2, <3>3, <3>4
  <2>5. CASE Goto(m, "done") /\ UNCHANGED <<hist, over, skipped>>
    <3>0. Owing(c)' = Owing(c) \ {m}
      BY <1>0, <2>3, <2>5, OwingLeft DEF Steps, Looked
    <3>1. Owing(c)' = Owing(c)
      BY <2>3, <3>0
    <3>2. QED
      BY <1>1, <2>5, <3>1
  <2>6. CASE /\ Goto(m, "done") /\ UNCHANGED over
             /\ hist' = [hist EXCEPT ![d] = s]
             /\ skipped' = [skipped EXCEPT ![d] = @ + 1]
    <3>0. Owing(c)' = Owing(c) \ {m}
      BY <1>0, <2>3, <2>6, OwingLeft DEF Steps, Looked
    <3>1. Owing(c)' = Owing(c)
      BY <2>3, <3>0
    <3>2. CASE d = c
      <4>1. hist'[c] = s /\ skipped'[c] = skipped[c] + 1
        BY <2>1, <2>6, <3>2 DEF TypeOK, StoreOK, GhostsOK
      <4>2. Len(hist[c]) <= MaxLen + Cardinality(Owing(c)) + skipped[c]
        BY DEF LengthBound
      <4>3. QED
        BY <1>0, <2>2, <3>1, <3>2, <4>1, <4>2, OwingFinite, ConvoAssumption
    <3>3. CASE d # c
      <4>1. hist'[c] = hist[c] /\ skipped'[c] = skipped[c]
        BY <2>6, <3>3 DEF TypeOK, StoreOK, GhostsOK
      <4>2. QED
        BY <1>0, <3>1, <4>1, BoundKept
    <3>4. QED
      BY <3>2, <3>3
  <2>7. QED
    BY <1>5, <2>4, <2>5, <2>6 DEF Push, s
<1>6. ASSUME NEW m \in Messages, Expire(m) PROVE Goal
  <2>1. hist' = hist /\ conv' = conv /\ over' = over /\ conv[m] \in Convs
    BY <1>0, <1>6 DEF Expire, HandlersOK
  <2>2. CASE Goto(m, "trim") /\ over[m] /\ UNCHANGED skipped
    <3>1. Owing(c)' = Owing(c)
      BY <1>0, <1>6, <2>1, <2>2 DEF Owing, Goto, Expire
    <3>2. QED
      BY <1>1, <2>1, <2>2, <3>1
  <2>3. CASE Goto(m, "done")
    <3>1. Owing(c)' = Owing(c) \ {m}
      BY <1>0, <2>1, <2>3, OwingLeft DEF Steps, Looked
    <3>2. CASE over[m] /\ conv[m] = c /\ skipped' = [skipped EXCEPT ![c] = @ + 1]
      <4>1. skipped'[c] = skipped[c] + 1
        BY <3>2 DEF TypeOK, GhostsOK
      <4>2. QED
        BY <2>1, <3>1, <4>1, BoundPaid
    <3>3. CASE m \notin Owing(c) /\ skipped'[c] = skipped[c]
      BY <2>1, <3>1, <3>3, BoundPaid
    <3>4. over[m] => skipped' = [skipped EXCEPT ![conv[m]] = @ + 1]
      BY <1>6, <2>3 DEF Expire, SkipTrim, Goto, HandlersOK, TypeOK
    <3>5. ~over[m] => skipped' = skipped
      BY <1>6 DEF Expire, SkipTrim
    <3>6. QED
      BY <3>2, <3>3, <3>4, <3>5 DEF Owing, TypeOK, GhostsOK
  <2>4. QED
    BY <1>6, <2>2, <2>3 DEF Expire
<1>7. ASSUME NEW m \in Messages, Trim(m) PROVE Goal
  <2>1. /\ conv[m] \in Convs /\ hist[conv[m]] \in Seq(Items)
        /\ Goto(m, "done") /\ UNCHANGED <<conv, over>>
    BY <1>0, <1>7 DEF Trim, HandlersOK, TypeOK, StoreOK
  <2>2. Owing(c)' = Owing(c) \ {m}
    BY <1>0, <2>1, OwingLeft DEF Steps, Looked
  <2>3. CASE conv[m] # c
    <3>1. m \notin Owing(c)
      BY <2>3 DEF Owing
    <3>2. hist'[c] = hist[c] /\ skipped'[c] = skipped[c]
      BY <1>7, <2>3 DEF Trim, Rewrite, SkipTrim, TypeOK, StoreOK, GhostsOK
    <3>3. QED
      BY <2>2, <3>1, <3>2, BoundPaid
  <2>4. CASE conv[m] = c
    <3>1. CASE hist[c] # <<>> /\ Rewrite(c, Tail(hist[c])) /\ UNCHANGED skipped
      <4>1. hist'[c] = Tail(hist[c])
        BY <3>1 DEF Rewrite, TypeOK, StoreOK
      <4>2. QED
        BY <1>0, <2>2, <3>1, <4>1, TailLen, BoundPaid
    <3>2. CASE hist[c] = <<>> /\ UNCHANGED <<hist, skipped>>
      BY <1>0, <2>2, <3>2, BoundPaid
    <3>3. CASE SkipTrim(m) /\ UNCHANGED hist
      <4>1. CASE over[m]
        <5>1. skipped'[c] = skipped[c] + 1
          BY <2>4, <3>3, <4>1 DEF SkipTrim, TypeOK, GhostsOK
        <5>2. QED
          BY <2>2, <3>3, <5>1, BoundPaid
      <4>2. CASE ~over[m]
        <5>1. m \notin Owing(c) /\ skipped' = skipped
          BY <3>3, <4>2 DEF SkipTrim, Owing
        <5>2. QED
          BY <2>2, <3>3, <5>1, BoundPaid
      <4>3. QED
        BY <4>1, <4>2
    <3>4. QED
      BY <1>7, <2>4, <3>1, <3>2, <3>3 DEF Trim
  <2>5. QED
    BY <2>3, <2>4
<1>8. ASSUME NEW m \in Messages, Crash(m) PROVE Goal
  <2>1. Goto(m, "done") /\ UNCHANGED <<hist, conv, over>>
    BY <1>8 DEF Crash
  <2>2. Owing(c)' = Owing(c) \ {m}
    BY <1>0, <2>1, OwingLeft DEF Steps, Looked
  <2>3. CASE m \in Owing(c)
    <3>1. SkipTrim(m) /\ over[m] /\ conv[m] = c
      BY <1>8, <2>3 DEF Crash, Owing
    <3>2. skipped'[c] = skipped[c] + 1
      BY <3>1 DEF SkipTrim, TypeOK, GhostsOK
    <3>3. QED
      BY <2>1, <2>2, <3>2, BoundPaid
  <2>4. CASE m \notin Owing(c)
    <3>1. skipped'[c] = skipped[c]
      BY <1>8, <2>4 DEF Crash, SkipTrim, Owing, TypeOK, GhostsOK
    <3>2. QED
      BY <2>1, <2>2, <2>4, <3>1, BoundPaid
  <2>5. QED
    BY <2>3, <2>4
<1>9. ASSUME NEW k \in Keys, ExpireMapping(k) PROVE Goal
  <2>1. Owing(c)' = Owing(c)
    BY <1>9 DEF ExpireMapping, Owing, handler
  <2>2. QED
    BY <1>1, <1>9, <2>1 DEF ExpireMapping
<1>10. ASSUME NEW d \in Convs, ExpireHistory(d) PROVE Goal
  <2>1. Owing(c)' = Owing(c) /\ UNCHANGED skipped
    BY <1>10 DEF ExpireHistory, Owing, handler
  <2>2. hist' = [hist EXCEPT ![d] = <<>>]
    BY <1>10 DEF ExpireHistory, Rewrite
  <2>3. Len(hist'[c]) <= Len(hist[c])
    BY <1>0, <2>2 DEF TypeOK, StoreOK
  <2>4. QED
    BY <1>0, <2>1, <2>3, BoundKept
<1>11. CASE UNCHANGED vars
  <2>1. Owing(c)' = Owing(c)
    BY <1>11 DEF vars, handler, Owing
  <2>2. QED
    BY <1>1, <1>11, <2>1 DEF vars, ghosts
<1>12. QED
  BY <1>2, <1>3, <1>4, <1>5, <1>6, <1>7, <1>8, <1>9, <1>10, <1>11 DEF Next, Handle

(* Overlapping handlers never lose a trim: in every reachable state a      *)
(* history is at most MaxLen entries long, plus one for each LPOP that is  *)
(* on its way or was given up after an error or a crash.                   *)
THEOREM HistoryBounded == Spec => []LengthBound
<1>1. Init => LengthBound
  <2> SUFFICES ASSUME Init, NEW c \in Convs
               PROVE  Len(hist[c]) <= MaxLen + Cardinality(Owing(c)) + skipped[c]
    BY DEF LengthBound
  <2>1. hist[c] = <<>> /\ skipped[c] = 0
    BY DEF Init
  <2>2. Cardinality(Owing(c)) \in Nat
    BY OwingFinite
  <2>3. QED
    BY <2>1, <2>2, ConvoAssumption
<1>2. QED
  BY <1>1, StepBounded, ConvoTyped, PTL DEF Spec

-----------------------------------------------------------------------------
(* The life time of a history                                              *)

LEMMA StepArmed == TypeOK /\ ExpiryArmed /\ [Next]_vars => ExpiryArmed'
<1> SUFFICES ASSUME TypeOK, ExpiryArmed, [Next]_vars, NEW c \in Convs,
                    hist'[c] # <<>>, c \notin armed'
             PROVE  \/ c \in unarmed'
                    \/ \E m \in Messages : pc'[m] = "expire" /\ conv'[m] = c
  BY DEF ExpiryArmed
<1> DEFINE Goal == \/ c \in unarmed'
                   \/ \E m \in Messages : pc'[m] = "expire" /\ conv'[m] = c
<1>0. HandlersOK /\ StoreOK
  BY DEF TypeOK
(* A handler due to execute its EXPIRE stays so as long as others step. *)
<1>1. ASSUME hist[c] # <<>>, c \notin armed, unarmed \subseteq unarmed',
             \A m \in Messages : pc[m] = "expire" =>
               (pc'[m] = "expire" \/ conv[m] \in unarmed') /\ conv'[m] = conv[m]
      PROVE  Goal
  BY <1>1 DEF ExpiryArmed
<1>2. ASSUME NEW m \in Messages, NEW u \in Prompts,
             \/ ReceiveWeb(m, u)
             \/ \E k \in Keys : Receive(m, k, u) \/ Reset(m, k, u)
      PROVE  Goal
  <2>1. UNCHANGED <<hist, armed, unarmed>> /\ pc[m] = "new"
    BY <1>2 DEF ReceiveWeb, Receive, Reset, Arrives, ghosts
  <2>2. \A n \in Messages : n # m => conv'[n] = conv[n] /\ pc'[n] = pc[n]
    BY <1>0, <1>2 DEF ReceiveWeb, Receive, Reset, Goto, HandlersOK
  <2>3. QED
    BY <1>1, <2>1, <2>2
<1>3. ASSUME NEW m \in Messages, Lookup(m) \/ Bind(m) \/ List(m) \/ Chat(m) \/ Peek(m)
      PROVE  Goal
  <2>1. UNCHANGED <<hist, armed, unarmed>> /\ pc[m] # "expire"
    BY <1>3 DEF Lookup, Bind, List, Chat, Peek, ghosts
  <2>2. \A n \in Messages : n # m => conv'[n] = conv[n] /\ pc'[n] = pc[n]
    BY <1>0, <1>3 DEF Lookup, FoundOrNew, Bind, List, Chat, Peek, Goto, HandlersOK
  <2>3. QED
    BY <1>1, <2>1, <2>2
<1>4. ASSUME NEW m \in Messages, Pop(m) \/ Trim(m) PROVE Goal
  <2>1. UNCHANGED <<conv, unarmed>> /\ pc[m] # "expire"
    BY <1>4 DEF Pop, Trim
  <2>2. \A n \in Messages : n # m => pc'[n] = pc[n]
    BY <1>0, <1>4 DEF Pop, Trim, Goto, HandlersOK
  <2>3. \/ UNCHANGED <<hist, armed>>
        \/ hist[conv[m]] # <<>> /\ \E s : Rewrite(conv[m], s)
    BY <1>4 DEF Pop, Trim
  <2>4. hist[c] # <<>> /\ c \notin armed
    BY <1>0, <2>3 DEF Rewrite, StoreOK
  <2>5. QED
    BY <1>1, <2>1, <2>2, <2>4
<1>5. ASSUME NEW m \in Messages, Push(m) PROVE Goal
  <2>1. UNCHANGED <<conv, armed>> /\ pc[m] = "push" /\ unarmed \subseteq unarmed'
    BY <1>5 DEF Push
  <2>2. \A n \in Messages : n # m => pc'[n] = pc[n]
    BY <1>0, <1>5 DEF Push, Goto, HandlersOK
  <2>3. CASE hist'[c] = hist[c]
    BY <1>1, <2>1, <2>2, <2>3
  <2>4. CASE hist'[c] # hist[c]
    <3>1. conv[m] = c
      BY <1>0, <1>5, <2>4 DEF Push, StoreOK
    <3>2. pc'[m] = "expire" \/ c \in unarmed'
      BY <1>0, <1>5, <2>4, <3>1 DEF Push, Goto, HandlersOK
    <3>3. QED
      BY <2>1, <3>1, <3>2
  <2>5. QED
    BY <2>3, <2>4
<1>6. ASSUME NEW m \in Messages, Expire(m) PROVE Goal
  <2>1. UNCHANGED <<conv, hist>> /\ pc[m] = "expire"
    BY <1>6 DEF Expire
  <2>2. \A n \in Messages : n # m => pc'[n] = pc[n]
    BY <1>0, <1>6 DEF Expire, Goto, HandlersOK
  <2>3. CASE conv[m] = c
    BY <1>6, <2>1, <2>3 DEF Expire
  <2>4. CASE conv[m] # c
    <3>1. c \notin armed /\ unarmed \subseteq unarmed'
      BY <1>6, <2>4 DEF Expire
    <3>2. PICK n \in Messages \union {0} :
            c \in unarmed \/ (n \in Messages /\ pc[n] = "expire" /\ conv[n] = c)
      BY <2>1, <3>1 DEF ExpiryArmed
    <3>3. QED
      BY <2>1, <2>2, <2>4, <3>1, <3>2
  <2>5. QED
    BY <2>3, <2>4
<1>7. ASSUME NEW m \in Messages, Crash(m) PROVE Goal
  <2>1. UNCHANGED <<conv, hist, armed>> /\ unarmed \subseteq unarmed'
    BY <1>7 DEF Crash
  <2>2. \A n \in Messages : n # m => pc'[n] = pc[n]
    BY <1>0, <1>7 DEF Crash, Goto, HandlersOK
  <2>3. pc[m] = "expire" => conv[m] \in unarmed'
    BY <1>7 DEF Crash
  <2>4. QED
    BY <1>1, <2>1, <2>2, <2>3
<1>8. ASSUME NEW k \in Keys, ExpireMapping(k) PROVE Goal
  BY <1>1, <1>8 DEF ExpireMapping, handler
<1>9. ASSUME NEW d \in Convs, ExpireHistory(d) PROVE Goal
  <2>1. UNCHANGED <<pc, conv, unarmed>> /\ Rewrite(d, <<>>)
    BY <1>9 DEF ExpireHistory, handler
  <2>2. d # c
    BY <1>0, <2>1 DEF Rewrite, StoreOK
  <2>3. hist[c] # <<>> /\ c \notin armed
    BY <1>0, <2>1, <2>2 DEF Rewrite, StoreOK
  <2>4. QED
    BY <1>1, <2>1, <2>3
<1>10. CASE UNCHANGED vars
  BY <1>1, <1>10 DEF vars, handler, ghosts
<1>11. QED
  BY <1>2, <1>3, <1>4, <1>5, <1>6, <1>7, <1>8, <1>9, <1>10 DEF Next, Handle

(* No history outlives its users for lack of a TTL: a list without one is  *)
(* about to get it, or an EXPIRE on it failed or was cut off by a crash.   *)
THEOREM HistoryArmed == Spec => []ExpiryArmed
<1>1. Init => ExpiryArmed
  BY DEF Init, ExpiryArmed
<1>2. QED
  BY <1>1, StepArmed, ConvoTyped, PTL DEF Spec

-----------------------------------------------------------------------------
(* The conversations of a session key                                      *)

(* A handler gets its conversation at the lookup, and a conversation is    *)
(* numbered after the handler that created it.                             *)
SessionOK ==
  /\ \A m \in Messages : pc[m] \in {"new", "lookup"} => conv[m] = NoConv
  /\ \A m \in Messages : pc[m] = "new" => key[m] = NoKey
  /\ \A m \in Messages : pc[m] = "bind" => conv[m] = m
  /\ \A m \in Messages : conv[m] # NoConv => conv[conv[m]] = conv[m]
  /\ \A m \in Messages : key[m] \in Keys /\ conv[m] # NoConv => eraOf[m] <= era[key[m]]

(* Conversation c is one of session key k since era e, or comes from an    *)
(* era before whose reset overtook the creation.                           *)
Origin(c, k, e) ==
  key[c] = k /\ eraOf[c] <= e /\ (eraOf[c] = e \/ <<k, e>> \in raced)

OriginOK ==
  /\ \A k \in Keys : mapping[k] # NoConv => conv[mapping[k]] = mapping[k] /\ Origin(mapping[k], k, era[k])
  /\ \A m \in Messages : key[m] \in Keys /\ conv[m] # NoConv => Origin(conv[m], key[m], eraOf[m])
  /\ \A m \in Messages : pc[m] = "bind" => Origin(m, key[m], era[key[m]])

(* SplitOnlyByRace, and why it lasts: as long as an era has not forked, at *)
(* most one handler is about to write the mapping, it is absent until      *)
(* then, and whoever got a conversation got the one it names.              *)
Party(k, e) == {m \in Messages : key[m] = k /\ eraOf[m] = e /\ conv[m] # NoConv}
PartyOK ==
  /\ \A k \in Keys, e \in Nat : <<k, e>> \notin forked =>
       \A m, n \in Party(k, e) : conv[m] = conv[n]
  /\ \A k \in Keys : <<k, era[k]>> \notin forked =>
       /\ ~Several(Creating(k))
       /\ Creating(k) # {} => mapping[k] = NoConv
       /\ \A m \in Party(k, era[k]) :
            mapping[k] = conv[m] \/ (mapping[k] = NoConv /\ pc[m] = "bind")

SessionsOK == SessionOK /\ OriginOK /\ PartyOK

LEMMA InitSessions == Init => SessionsOK
BY DEF Init, SessionsOK, SessionOK, OriginOK, PartyOK, Party, Creating, Several, NoConv

(* Steps by which nobody gets a conversation; a mapping may be lost.       *)
LEMMA SessionsKept ==
  ASSUME TypeOK, SessionsOK, UNCHANGED <<conv, era, eraOf, raced>>, forked \subseteq forked',
         \A k \in Keys : \/ mapping'[k] = mapping[k]
                         \/ mapping'[k] = NoConv /\ <<k, era[k]>> \in forked',
         \A m \in Messages :
           \/ key'[m] = key[m] /\ pc'[m] = pc[m]
           \/ key'[m] = key[m] /\ pc[m] \in Looked /\ pc'[m] \in Looked
           \/ pc[m] \in {"new", "lookup"} /\ pc'[m] \in {"lookup", "done"}
  PROVE  SessionsOK'
<1>0. SessionOK /\ OriginOK /\ PartyOK /\ HandlersOK /\ StoreOK /\ NoConv \notin Messages
  BY DEF SessionsOK, TypeOK, NoConv, Messages
<1>1. \A k : Creating(k)' = Creating(k)
  BY DEF Creating, Looked
<1>2. \A m \in Messages : conv[m] # NoConv => key'[m] = key[m] /\ pc'[m] \notin {"new", "lookup"}
  BY <1>0 DEF SessionOK, Looked
<1>3. \A k, e : Party(k, e)' = Party(k, e)
  BY <1>2 DEF Party
<1>4. \A m \in Messages : pc'[m] = "bind" <=> pc[m] = "bind"
  BY DEF Looked
<1>5. \A m \in Messages : pc'[m] = "new" => pc[m] = "new" /\ key'[m] = key[m]
  BY DEF Looked
<1>6. SessionOK'
  <2>1. \A m \in Messages : pc'[m] \in {"new", "lookup"} => conv'[m] = NoConv
    BY <1>2
  <2>2. \A m \in Messages : key'[m] \in Keys /\ conv'[m] # NoConv => eraOf'[m] <= era'[key'[m]]
    BY <1>0, <1>2 DEF SessionOK
  <2>3. QED
    BY <1>0, <1>4, <1>5, <2>1, <2>2 DEF SessionOK
<1>7. OriginOK'
  <2>1. \A c \in Messages : conv[c] = c => key'[c] = key[c]
    BY <1>0, <1>2
  <2>2. \A m \in Messages : conv[m] # NoConv => conv[m] \in Messages /\ conv[conv[m]] = conv[m]
    BY <1>0 DEF SessionOK, HandlersOK, Convs
  <2>3. ASSUME NEW k \in Keys, mapping'[k] # NoConv
        PROVE  conv[mapping'[k]] = mapping'[k] /\ Origin(mapping[k], k, era[k])'
    <3>1. mapping'[k] = mapping[k] /\ mapping[k] \in Messages
      BY <1>0, <2>3 DEF StoreOK, Convs
    <3>2. conv[mapping[k]] = mapping[k] /\ Origin(mapping[k], k, era[k])
      BY <1>0, <2>3, <3>1 DEF OriginOK
    <3>3. QED
      BY <2>1, <3>1, <3>2 DEF Origin
  <2>4. ASSUME NEW m \in Messages, key'[m] \in Keys, conv[m] # NoConv
        PROVE  Origin(conv[m], key[m], eraOf[m])'
    <3>1. key'[m] = key[m] /\ Origin(conv[m], key[m], eraOf[m])
      BY <1>0, <1>2, <2>4 DEF OriginOK
    <3>2. QED
      BY <2>1, <2>2, <2>4, <3>1 DEF Origin
  <2>5. ASSUME NEW m \in Messages, pc'[m] = "bind" PROVE Origin(m, key[m], era[key[m]])'
    <3>1. pc[m] = "bind" /\ conv[m] = m /\ key'[m] = key[m]
      BY <1>0, <1>2, <1>4, <2>5 DEF SessionOK
    <3>2. Origin(m, key[m], era[key[m]])
      BY <1>0, <3>1 DEF OriginOK
    <3>3. QED
      BY <3>1, <3>2 DEF Origin
  <2>6. QED
    BY <2>3, <2>4, <2>5 DEF OriginOK
<1>8. PartyOK'
  <2>1. \A k \in Keys, e \in Nat : <<k, e>> \notin forked' => <<k, e>> \notin forked
    OBVIOUS
  <2>2. \A k \in Keys : era[k] \in Nat
    BY DEF TypeOK, GhostsOK
  <2>3. ASSUME NEW k \in Keys, NEW e \in Nat, <<k, e>> \notin forked', NEW m \in Party(k, e)', NEW n \in Party(k, e)'
        PROVE  conv'[m] = conv'[n]
    BY <1>0, <1>3, <2>1, <2>3 DEF PartyOK
  <2>4. ASSUME NEW k \in Keys, <<k, era[k]>> \notin forked'
        PROVE  /\ ~Several(Creating(k)')
               /\ Creating(k)' # {} => mapping'[k] = NoConv
               /\ \A m \in Party(k, era[k])' :
                    mapping'[k] = conv[m] \/ (mapping'[k] = NoConv /\ pc'[m] = "bind")
    <3>1. Creating(k)' = Creating(k) /\ Party(k, era[k])' = Party(k, era[k]) /\ mapping'[k] = mapping[k]
      BY <1>1, <1>3, <2>4
    <3>2. <<k, era[k]>> \notin forked
      BY <2>1, <2>2, <2>4
    <3>3. \A m \in Party(k, era[k]) : m \in Messages
      BY DEF Party
    <3>4. QED
      BY <1>0, <1>4, <3>1, <3>2, <3>3 DEF PartyOK, Several
  <2>5. QED
    BY <2>3, <2>4 DEF PartyOK, Several
<1>9. QED
  BY <1>6, <1>7, <1>8 DEF SessionsOK

(* A handler writes the mapping of its conversation, or never will.        *)
LEMMA BindLeft ==
  ASSUME TypeOK, SessionsOK, NEW m \in Messages, pc[m] = "bind", pc'[m] \in {"list", "done"},
         \A n \in Messages \ {m} : pc'[n] = pc[n],
         UNCHANGED <<key, conv, era, eraOf, raced>>, forked \subseteq forked',
         \/ mapping' = [mapping EXCEPT ![key[m]] = m]
         \/ mapping' = mapping /\ <<key[m], eraOf[m]>> \in forked'
  PROVE  SessionsOK'
<1>0. SessionOK /\ OriginOK /\ PartyOK /\ HandlersOK /\ StoreOK /\ GhostsOK
  BY DEF SessionsOK, TypeOK
<1>1. PICK k \in Keys : k = key[m]
  BY <1>0 DEF HandlersOK
<1>2. conv[m] = m /\ Origin(m, k, era[k]) /\ mapping \in [Keys -> Messages \union {NoConv}]
  BY <1>0, <1>1 DEF SessionOK, OriginOK, StoreOK, Convs
<1>3. \A l \in Keys \ {k} : mapping'[l] = mapping[l]
  BY <1>1, <1>2
<1>4. mapping'[k] = m \/ (mapping'[k] = mapping[k] /\ <<k, eraOf[m]>> \in forked')
  BY <1>1, <1>2
<1>5. SessionOK'
  BY <1>0 DEF SessionOK
<1>6. OriginOK'
  <2>1. \A c, l, e : Origin(c, l, e)' <=> Origin(c, l, e)
    BY DEF Origin
  <2>2. ASSUME NEW l \in Keys, mapping'[l] # NoConv
        PROVE  conv[mapping'[l]] = mapping'[l] /\ Origin(mapping[l], l, era[l])'
    <3>1. mapping'[l] = mapping[l] \/ (mapping'[l] = m /\ l = k)
      BY <1>3, <1>4
    <3>2. QED
      BY <1>0, <1>2, <2>2, <3>1 DEF OriginOK, Origin
  <2>3. QED
    BY <1>0, <2>1, <2>2 DEF OriginOK, Origin
<1>7. PartyOK'
  <2>1. \A l, e : Party(l, e)' = Party(l, e)
    BY DEF Party
  <2>2. \A l \in Keys : Creating(l)' = Creating(l) \ {m}
    BY DEF Creating
  <2>3. m \in Creating(k)
    BY <1>1 DEF Creating
  <2>4. ASSUME NEW l \in Keys, NEW e \in Nat, <<l, e>> \notin forked', NEW p \in Party(l, e)', NEW q \in Party(l, e)'
        PROVE  conv'[p] = conv'[q]
    BY <1>0, <2>1, <2>4 DEF PartyOK
  <2>5. ASSUME NEW l \in Keys, <<l, era[l]>> \notin forked'
        PROVE  /\ ~Several(Creating(l)')
               /\ Creating(l)' # {} => mapping'[l] = NoConv
               /\ \A p \in Party(l, era[l])' :
                    mapping'[l] = conv[p] \/ (mapping'[l] = NoConv /\ pc'[p] = "bind")
    <3>1. <<l, era[l]>> \notin forked
      BY <2>5
    <3>2. CASE l # k
      <4>1. \A p \in Party(l, era[l]) : p \in Messages \ {m}
        BY <1>1, <3>2 DEF Party
      <4>2. Creating(l)' = Creating(l) /\ Party(l, era[l])' = Party(l, era[l]) /\ mapping'[l] = mapping[l]
        BY <1>1, <1>3, <2>1, <2>2, <3>2 DEF Creating
      <4>3. QED
        BY <1>0, <3>1, <4>1, <4>2 DEF PartyOK
    <3>3. CASE l = k
      <4>1. Creating(k) = {m} /\ mapping[k] = NoConv
        BY <1>0, <2>3, <3>1, <3>3 DEF PartyOK, Several
      <4>2. \A p \in Party(k, era[k]) : mapping[k] = conv[p] \/ pc[p] = "bind"
        BY <1>0, <3>1, <3>3 DEF PartyOK
      <4>3. \A p \in Party(k, era[k]) : p \in Creating(k)
        BY <4>1, <4>2 DEF Party, Creating
      <4>4. mapping'[k] = m \/ m \notin Party(k, era[k])
        BY <1>4, <2>5, <3>3 DEF Party
      <4>5. \A p \in Party(k, era[k])' : mapping'[k] = conv[p]
        BY <1>2, <2>1, <4>1, <4>3, <4>4
      <4>6. Creating(k)' = {}
        BY <2>2, <4>1
      <4>7. QED
        BY <3>3, <4>5, <4>6 DEF Several
    <3>4. QED
      BY <3>2, <3>3
  <2>6. QED
    BY <2>4, <2>5 DEF PartyOK, Several
<1>8. QED
  BY <1>5, <1>6, <1>7 DEF SessionsOK

LEMMA StepSessions == TypeOK /\ SessionsOK /\ [Next]_vars => SessionsOK'
<1> SUFFICES ASSUME TypeOK, SessionsOK, [Next]_vars PROVE SessionsOK'
  OBVIOUS
<1>0. HandlersOK /\ StoreOK /\ GhostsOK /\ SessionOK /\ OriginOK /\ PartyOK /\ NoKey \notin Keys
      /\ Messages \subseteq Nat \ {0} /\ Convs = Messages
  BY ConvoAssumption DEF TypeOK, SessionsOK, Messages, Convs
<1>1. ASSUME NEW m \in Messages, NEW u \in Prompts, ReceiveWeb(m, u) PROVE SessionsOK'
  <2>1. PICK c \in {m} \union {conv[n] : n \in Messages} : c # NoConv /\ conv' = [conv EXCEPT ![m] = c]
    BY <1>1 DEF ReceiveWeb
  <2>2. /\ pc[m] = "new" /\ conv[m] = NoConv /\ key[m] = NoKey
        /\ pc' = [pc EXCEPT ![m] = "list"]
        /\ UNCHANGED <<mapping, key, era, eraOf, raced, forked>>
    BY <1>0, <1>1 DEF ReceiveWeb, Arrives, SessionOK, Goto, ghosts
  <2>3. conv'[m] = c /\ \A n \in Messages \ {m} : conv'[n] = conv[n] /\ pc'[n] = pc[n]
    BY <1>0, <2>1, <2>2 DEF HandlersOK
  <2>4. pc'[m] = "list"
    BY <1>0, <2>2 DEF HandlersOK
  <2>5. \A n \in Messages : conv[n] # m
    BY <1>0, <2>2 DEF SessionOK, NoConv
  <2>6. c = m \/ (c \in Messages /\ conv[c] = c /\ c # m)
    BY <1>0, <2>1, <2>2, <2>5 DEF SessionOK, HandlersOK
  <2>7. SessionOK'
    <3>1. ASSUME NEW n \in Messages, conv'[n] # NoConv PROVE conv'[conv'[n]] = conv'[n]
      <4>1. CASE n = m
        BY <2>3, <2>6, <4>1
      <4>2. CASE n # m
        <5>1. conv'[n] = conv[n] /\ conv[n] # m /\ conv[n] \in Messages
          BY <1>0, <2>3, <2>5, <3>1, <4>2 DEF HandlersOK
        <5>2. QED
          BY <1>0, <2>3, <3>1, <5>1 DEF SessionOK
      <4>3. QED
        BY <4>1, <4>2
    <3>2. QED
      BY <1>0, <2>2, <2>3, <2>4, <3>1 DEF SessionOK
  <2>8. OriginOK'
    <3>1. \A d, k, e : Origin(d, k, e)' <=> Origin(d, k, e)
      BY <2>2 DEF Origin
    <3>2. \A k \in Keys : mapping[k] # NoConv => mapping[k] \in Messages \ {m}
      BY <1>0, <2>2 DEF OriginOK, StoreOK, NoConv
    <3>3. \A n \in Messages : key[n] \in Keys => n # m
      BY <1>0, <2>2
    <3>4. QED
      BY <1>0, <2>2, <2>3, <2>4, <3>1, <3>2, <3>3 DEF OriginOK
  <2>9. \A k \in Keys : Creating(k)' = Creating(k)
    BY <1>0, <2>2, <2>3, <2>4 DEF Creating
  <2>10. \A e : \A k \in Keys : Party(k, e)' = Party(k, e) /\ m \notin Party(k, e)
    BY <1>0, <2>2, <2>3 DEF Party
  <2>11. PartyOK'
    <3>1. \A e : \A k \in Keys : \A n \in Party(k, e) : n \in Messages \ {m}
      BY <2>10 DEF Party
    <3>2. \A e : \A k \in Keys : \A n \in Party(k, e) : conv'[n] = conv[n] /\ pc'[n] = pc[n]
      BY <2>2, <2>3, <3>1
    <3>3. ASSUME NEW k \in Keys, NEW e \in Nat, <<k, e>> \notin forked',
                 NEW p \in Party(k, e)', NEW q \in Party(k, e)'
          PROVE  conv'[p] = conv'[q]
      BY <1>0, <2>2, <2>10, <3>2, <3>3 DEF PartyOK
    <3>4. ASSUME NEW k \in Keys, <<k, era'[k]>> \notin forked'
          PROVE  /\ ~Several(Creating(k)')
                 /\ Creating(k)' # {} => mapping'[k] = NoConv
                 /\ \A p \in Party(k, era[k])' :
                      mapping'[k] = conv'[p] \/ (mapping'[k] = NoConv /\ pc'[p] = "bind")
      <4>1. /\ ~Several(Creating(k))
            /\ Creating(k) # {} => mapping[k] = NoConv
            /\ \A p \in Party(k, era[k]) :
                 mapping[k] = conv[p] \/ (mapping[k] = NoConv /\ pc[p] = "bind")
        BY <1>0, <2>2, <3>4 DEF PartyOK
      <4>2. Party(k, era[k])' = Party(k, era[k]) /\ era'[k] = era[k] /\ mapping'[k] = mapping[k]
        BY <2>2, <2>10
      <4>3. QED
        BY <2>9, <3>2, <4>1, <4>2
    <3>5. QED
      BY <3>3, <3>4 DEF PartyOK, Several
  <2>12. QED
    BY <2>7, <2>8, <2>11 DEF SessionsOK
<1>2. ASSUME NEW m \in Messages, NEW u \in Prompts, NEW k \in Keys, Receive(m, k, u) PROVE SessionsOK'
  <2>1. /\ pc[m] = "new" /\ UNCHANGED <<mapping, conv, era, eraOf, raced, forked>>
        /\ pc'[m] = "lookup" /\ \A n \in Messages \ {m} : key'[n] = key[n] /\ pc'[n] = pc[n]
    BY <1>0, <1>2 DEF Receive, Arrives, HandlersOK, Goto, ghosts
  <2>2. QED
    BY <2>1, SessionsKept
<1>3. ASSUME NEW m \in Messages, NEW u \in Prompts, NEW k \in Keys, Reset(m, k, u) PROVE SessionsOK'
  <2>1. /\ pc[m] = "new" /\ key' = [key EXCEPT ![m] = k]
        /\ UNCHANGED <<conv, eraOf>> /\ forked \subseteq forked'
        /\ \A n \in Messages \ {m} : key'[n] = key[n] /\ pc'[n] = pc[n]
    BY <1>0, <1>3 DEF Reset, Arrives, HandlersOK, Goto
  <2>2. CASE Fault /\ Goto(m, "lookup") /\ UNCHANGED <<era, raced>>
    <3>1. pc'[m] = "lookup"
      BY <1>0, <2>2 DEF Goto, HandlersOK
    <3>2. \A l \in Keys : \/ mapping'[l] = mapping[l]
                          \/ mapping'[l] = NoConv /\ <<l, era[l]>> \in forked'
      <4>1. \/ UNCHANGED mapping
            \/ mapping' = [mapping EXCEPT ![k] = NoConv] /\ <<k, era[k]>> \in forked'
        BY <1>0, <1>3, <2>2 DEF Reset, ResetSession, Goto, HandlersOK
      <4>2. QED
        BY <1>0, <4>1 DEF StoreOK
    <3>3. QED
      BY <2>1, <2>2, <3>1, <3>2, SessionsKept
  <2>3. CASE Goto(m, "done") /\ ResetSession(m, k) /\ era' = [era EXCEPT ![k] = @ + 1]
    <3>1. /\ pc'[m] = "done" /\ mapping'[k] = NoConv /\ era'[k] = era[k] + 1 /\ era[k] \in Nat
          /\ \A l \in Keys \ {k} : mapping'[l] = mapping[l] /\ era'[l] = era[l]
      BY <1>0, <2>3 DEF Goto, ResetSession, HandlersOK, StoreOK, GhostsOK
    <3>2. /\ Creating(k) # {} => <<k, era[k] + 1>> \in raced'
          /\ Several(Creating(k)) => <<k, era[k] + 1>> \in forked'
          /\ raced \subseteq raced'
      BY <1>0, <1>3, <2>3 DEF Reset, Goto, HandlersOK
    <3>3. conv[m] = NoConv /\ key'[m] = k
      BY <1>0, <2>1 DEF SessionOK, HandlersOK
    <3>4. SessionOK'
      <4>1. \A n \in Messages : conv[n] # NoConv => n # m
        BY <3>3
      <4>2. \A n \in Messages \ {m} : key[n] \in Keys /\ conv[n] # NoConv => eraOf[n] <= era'[key[n]]
        BY <1>0, <3>1 DEF SessionOK, GhostsOK
      <4>3. QED
        BY <1>0, <2>1, <3>1, <3>3, <4>1, <4>2 DEF SessionOK
    <3>5. OriginOK'
      <4>1. \A n \in Messages : conv[n] # NoConv => n # m /\ conv[n] \in Messages \ {m}
        BY <1>0, <3>3 DEF SessionOK, HandlersOK
      <4>2. ASSUME NEW l \in Keys, mapping'[l] # NoConv
            PROVE  conv[mapping'[l]] = mapping'[l] /\ Origin(mapping[l], l, era[l])'
        <5>1. l # k /\ mapping'[l] = mapping[l] /\ era'[l] = era[l] /\ mapping[l] \in Messages
          BY <1>0, <3>1, <4>2 DEF StoreOK
        <5>2. conv[mapping[l]] = mapping[l] /\ mapping[l] # m
          BY <1>0, <3>3, <4>2, <5>1 DEF OriginOK
        <5>3. QED
          BY <1>0, <2>1, <3>2, <4>2, <5>1, <5>2 DEF OriginOK, Origin
      <4>3. ASSUME NEW n \in Messages, key'[n] \in Keys, conv[n] # NoConv
            PROVE  Origin(conv[n], key[n], eraOf[n])'
        <5>1. key'[n] = key[n] /\ key'[conv[n]] = key[conv[n]] /\ Origin(conv[n], key[n], eraOf[n])
          BY <1>0, <2>1, <4>1, <4>3 DEF OriginOK
        <5>2. QED
          BY <2>1, <3>2, <5>1 DEF Origin
      <4>4. ASSUME NEW n \in Messages, pc'[n] = "bind" PROVE Origin(n, key[n], era[key[n]])'
        <5>1. n # m /\ pc[n] = "bind" /\ key'[n] = key[n] /\ key[n] \in Keys /\ conv[n] = n
          BY <1>0, <2>1, <3>1, <4>4 DEF SessionOK, HandlersOK
        <5>2. CASE key[n] = k
          <6>1. n \in Creating(k)
            BY <5>1, <5>2 DEF Creating
          <6>2. eraOf[n] <= era[k] /\ eraOf[n] \in Nat
            BY <1>0, <5>1, <5>2 DEF SessionOK, GhostsOK, NoConv
          <6>3. QED
            BY <2>1, <3>1, <3>2, <5>1, <5>2, <6>1, <6>2 DEF Origin
        <5>3. CASE key[n] # k
          <6>1. era'[key[n]] = era[key[n]] /\ Origin(n, key[n], era[key[n]])
            BY <1>0, <3>1, <5>1, <5>3 DEF OriginOK
          <6>2. QED
            BY <2>1, <3>2, <5>1, <6>1 DEF Origin
        <5>4. QED
          BY <5>2, <5>3
      <4>5. QED
        BY <2>1, <4>2, <4>3, <4>4 DEF OriginOK
    <3>6. PartyOK'
      <4>1. \A l : Creating(l)' = Creating(l)
        BY <2>1, <3>1 DEF Creating
      <4>2. \A l, e : Party(l, e)' = Party(l, e)
        BY <2>1, <3>3 DEF Party
      <4>3. ASSUME NEW l \in Keys, NEW e \in Nat, <<l, e>> \notin forked', NEW p \in Party(l, e)', NEW q \in Party(l, e)'
            PROVE  conv'[p] = conv'[q]
        BY <1>0, <2>1, <4>2, <4>3 DEF PartyOK
      <4>4. ASSUME NEW l \in Keys, <<l, era'[l]>> \notin forked'
            PROVE  /\ ~Several(Creating(l)')
                   /\ Creating(l)' # {} => mapping'[l] = NoConv
                   /\ \A p \in Party(l, era[l])' :
                        mapping'[l] = conv[p] \/ (mapping'[l] = NoConv /\ pc'[p] = "bind")
        <5>1. CASE l = k
          <6>1. Party(k, era[k] + 1) = {}
            <7>1. SUFFICES ASSUME NEW n \in Party(k, era[k] + 1) PROVE FALSE
              OBVIOUS
            <7>2. n \in Messages /\ key[n] = k /\ eraOf[n] = era[k] + 1 /\ conv[n] # NoConv
              BY <7>1 DEF Party
            <7>3. eraOf[n] <= era[k]
              BY <1>0, <7>2 DEF SessionOK
            <7>4. QED
              BY <3>1, <7>2, <7>3
          <6>2. QED
            BY <3>1, <3>2, <4>1, <4>2, <4>4, <5>1, <6>1
        <5>2. CASE l # k
          <6>1. era'[l] = era[l] /\ mapping'[l] = mapping[l] /\ <<l, era[l]>> \notin forked
            BY <2>1, <3>1, <4>4, <5>2
          <6>2. Party(l, era[l])' = Party(l, era[l])
            BY <4>2, <6>1
          <6>3. \A p \in Party(l, era[l]) : p \in Messages \ {m}
            BY <3>3 DEF Party
          <6>4. /\ ~Several(Creating(l))
                /\ Creating(l) # {} => mapping[l] = NoConv
                /\ \A p \in Party(l, era[l]) :
                     mapping[l] = conv[p] \/ (mapping[l] = NoConv /\ pc[p] = "bind")
            BY <1>0, <6>1 DEF PartyOK
          <6>5. \A p \in Party(l, era[l]) : pc'[p] = pc[p]
            BY <2>1, <6>3
          <6>6. QED
            BY <4>1, <6>1, <6>2, <6>4, <6>5
        <5>3. QED
          BY <5>1, <5>2
      <4>5. QED
        BY <2>1, <4>3, <4>4 DEF PartyOK, Several
    <3>7. QED
      BY <3>4, <3>5, <3>6 DEF SessionsOK
  <2>4. QED
    BY <1>3, <2>2, <2>3 DEF Reset
<1>4. ASSUME NEW m \in Messages, Lookup(m) PROVE SessionsOK'
  <2>1. PICK k \in Keys : k = key[m]
    BY <1>0, <1>4 DEF Lookup, HandlersOK
  <2>2. /\ pc[m] = "lookup" /\ conv[m] = NoConv /\ eraOf'[m] = era[k]
        /\ UNCHANGED <<mapping, key, era, raced>> /\ forked \subseteq forked'
        /\ \A n \in Messages \ {m} : pc'[n] = pc[n] /\ conv'[n] = conv[n] /\ eraOf'[n] = eraOf[n]
    BY <1>0, <1>4, <2>1 DEF Lookup, FoundOrNew, Goto, SessionOK, HandlersOK, GhostsOK
  <2>3. \/ /\ conv'[m] = m /\ pc'[m] = "bind"
           /\ mapping[k] # NoConv \/ Creating(k) # {} => <<k, era[k]>> \in forked'
        \/ mapping[k] # NoConv /\ conv'[m] = mapping[k] /\ pc'[m] = "list"
    BY <1>0, <1>4, <2>1 DEF Lookup, FoundOrNew, Goto, HandlersOK
  <2>4. \A n \in Messages : conv[n] # m
    BY <1>0, <2>2 DEF SessionOK, NoConv
  <2>5. mapping[k] # NoConv => /\ mapping[k] \in Messages \ {m} /\ conv[mapping[k]] = mapping[k]
                              /\ Origin(mapping[k], k, era[k])
    BY <1>0, <2>2 DEF OriginOK, StoreOK
  <2>6. era[k] \in Nat
    BY <1>0 DEF GhostsOK
  <2>7. SessionOK'
    <3>1. ASSUME NEW n \in Messages, conv'[n] # NoConv PROVE conv'[conv'[n]] = conv'[n]
      <4>1. CASE n = m
        BY <2>2, <2>3, <2>5, <4>1
      <4>2. CASE n # m
        <5>1. conv'[n] = conv[n] /\ conv[n] \in Messages \ {m} /\ conv[conv[n]] = conv[n]
          BY <1>0, <2>2, <2>4, <3>1, <4>2 DEF SessionOK, HandlersOK
        <5>2. QED
          BY <2>2, <5>1
      <4>3. QED
        BY <4>1, <4>2
    <3>2. ASSUME NEW n \in Messages, key[n] \in Keys, conv'[n] # NoConv PROVE eraOf'[n] <= era[key[n]]
      BY <1>0, <2>1, <2>2, <2>6, <3>2 DEF SessionOK
    <3>3. QED
      BY <1>0, <2>2, <2>3, <3>1, <3>2 DEF SessionOK
  <2>8. OriginOK'
    <3>1. \A c \in Messages \ {m} : eraOf'[c] = eraOf[c]
      BY <2>2
    <3>2. ASSUME NEW l \in Keys, mapping[l] # NoConv
          PROVE  conv'[mapping[l]] = mapping[l] /\ Origin(mapping[l], l, era[l])'
      <4>1. mapping[l] \in Messages \ {m} /\ conv[mapping[l]] = mapping[l] /\ Origin(mapping[l], l, era[l])
        BY <1>0, <2>4, <3>2 DEF OriginOK, StoreOK
      <4>2. QED
        BY <2>2, <4>1 DEF Origin
    <3>3. ASSUME NEW n \in Messages, key[n] \in Keys, conv'[n] # NoConv
          PROVE  Origin(conv[n], key[n], eraOf[n])'
      <4>1. CASE n = m
        BY <2>1, <2>2, <2>3, <2>5, <2>6, <4>1 DEF Origin
      <4>2. CASE n # m
        <5>1. conv'[n] = conv[n] /\ conv[n] \in Messages \ {m} /\ Origin(conv[n], key[n], eraOf[n])
          BY <1>0, <2>2, <2>4, <3>3, <4>2 DEF OriginOK, HandlersOK
        <5>2. QED
          BY <2>2, <4>2, <5>1 DEF Origin
      <4>3. QED
        BY <4>1, <4>2
    <3>4. ASSUME NEW n \in Messages, pc'[n] = "bind" PROVE Origin(n, key[n], era[key[n]])'
      <4>1. CASE n = m
        BY <2>1, <2>2, <2>6, <4>1 DEF Origin
      <4>2. CASE n # m
        <5>1. Origin(n, key[n], era[key[n]])
          BY <1>0, <2>2, <3>4, <4>2 DEF OriginOK
        <5>2. QED
          BY <2>2, <4>2, <5>1 DEF Origin
      <4>3. QED
        BY <4>1, <4>2
    <3>5. QED
      BY <2>2, <3>2, <3>3, <3>4 DEF OriginOK
  <2>9. PartyOK'
    <3>1. \A e : \A l \in Keys : Party(l, e)' = IF l = k /\ e = era[k] THEN Party(l, e) \union {m} ELSE Party(l, e)
      <4>1. conv'[m] # NoConv
        BY <1>0, <2>3, <2>5 DEF NoConv
      <4>2. ASSUME NEW l \in Keys, NEW e, NEW n \in Messages
            PROVE  n \in Party(l, e)' <=> n \in Party(l, e) \/ (n = m /\ l = k /\ e = era[k])
        BY <2>1, <2>2, <4>1 DEF Party
      <4>3. \A l, e : Party(l, e) \subseteq Messages /\ Party(l, e)' \subseteq Messages
        BY DEF Party
      <4>4. QED
        BY <4>2, <4>3
    <3>2. \A l \in Keys : l # k => Creating(l)' = Creating(l)
      BY <2>1, <2>2 DEF Creating
    <3>3. Creating(k)' = IF pc'[m] = "bind" THEN Creating(k) \union {m} ELSE Creating(k)
      BY <2>1, <2>2, <2>3 DEF Creating
    <3>4. \A l, e : m \notin Party(l, e)
      BY <2>2 DEF Party
    <3>5. \A e : \A l \in Keys : \A n \in Party(l, e) : n \in Messages \ {m} /\ conv'[n] = conv[n] /\ pc'[n] = pc[n]
      BY <2>2, <3>4 DEF Party
(* Whoever finds a conversation finds that of the others. *)
    <3>6. CASE mapping[k] # NoConv /\ conv'[m] = mapping[k] /\ pc'[m] = "list"
      <4>1. ASSUME NEW e \in Nat, NEW l \in Keys, <<l, e>> \notin forked', NEW p \in Party(l, e)', NEW q \in Party(l, e)'
            PROVE  conv'[p] = conv'[q]
        <5>1. <<k, era[k]>> \notin forked => \A n \in Party(k, era[k]) : conv[n] = mapping[k]
          BY <1>0, <3>6 DEF PartyOK
        <5>2. <<l, e>> \notin forked
          BY <2>2, <4>1
        <5>3. QED
          BY <1>0, <3>1, <3>5, <3>6, <4>1, <5>1, <5>2 DEF PartyOK
      <4>2. ASSUME NEW l \in Keys, <<l, era[l]>> \notin forked'
            PROVE  /\ ~Several(Creating(l)')
                   /\ Creating(l)' # {} => mapping[l] = NoConv
                   /\ \A p \in Party(l, era[l])' :
                        mapping[l] = conv'[p] \/ (mapping[l] = NoConv /\ pc'[p] = "bind")
        <5>1. <<l, era[l]>> \notin forked /\ Creating(l)' = Creating(l)
          BY <2>2, <3>2, <3>3, <3>6, <4>2
        <5>2. \A p \in Party(l, era[l])' : p \in Party(l, era[l]) \/ (p = m /\ l = k)
          BY <2>2, <3>1
        <5>3. QED
          BY <1>0, <3>5, <3>6, <5>1, <5>2 DEF PartyOK
      <4>3. QED
        BY <2>2, <4>1, <4>2 DEF PartyOK, Several
(* Whoever finds none, alone, is the only one of its era.                  *)
    <3>7. CASE /\ conv'[m] = m /\ pc'[m] = "bind"
               /\ mapping[k] # NoConv \/ Creating(k) # {} => <<k, era[k]>> \in forked'
      <4>1. <<k, era[k]>> \notin forked' => mapping[k] = NoConv /\ Creating(k) = {} /\ Party(k, era[k]) = {}
        <5>1. SUFFICES ASSUME <<k, era[k]>> \notin forked', NEW n \in Party(k, era[k]) PROVE FALSE
          BY <3>7
        <5>2. mapping[k] = NoConv /\ Creating(k) = {} /\ <<k, era[k]>> \notin forked
          BY <2>2, <3>7, <5>1
        <5>3. pc[n] = "bind" /\ key[n] = k /\ n \in Messages
          BY <1>0, <5>1, <5>2 DEF PartyOK, Party
        <5>4. QED
          BY <5>2, <5>3 DEF Creating
      <4>2. ASSUME NEW e \in Nat, NEW l \in Keys, <<l, e>> \notin forked', NEW p \in Party(l, e)', NEW q \in Party(l, e)'
            PROVE  conv'[p] = conv'[q]
        <5>1. <<l, e>> \notin forked
          BY <2>2, <4>2
        <5>2. QED
          BY <1>0, <3>1, <3>5, <4>1, <4>2, <5>1 DEF PartyOK
      <4>3. ASSUME NEW l \in Keys, <<l, era[l]>> \notin forked'
            PROVE  /\ ~Several(Creating(l)')
                   /\ Creating(l)' # {} => mapping[l] = NoConv
                   /\ \A p \in Party(l, era[l])' :
                        mapping[l] = conv'[p] \/ (mapping[l] = NoConv /\ pc'[p] = "bind")
        <5>1. CASE l = k
          <6>1. Creating(k)' = {m} /\ Party(k, era[k])' = {m}
            BY <2>2, <3>1, <3>3, <3>7, <4>1, <4>3, <5>1
          <6>2. QED
            BY <3>7, <4>1, <4>3, <5>1, <6>1 DEF Several
        <5>2. CASE l # k
          <6>1. Creating(l)' = Creating(l) /\ Party(l, era[l])' = Party(l, era[l]) /\ <<l, era[l]>> \notin forked
            BY <2>2, <3>1, <3>2, <4>3, <5>2
          <6>2. QED
            BY <1>0, <3>5, <6>1 DEF PartyOK
        <5>3. QED
          BY <5>1, <5>2
      <4>4. QED
        BY <2>2, <4>2, <4>3 DEF PartyOK, Several
    <3>8. QED
      BY <2>3, <3>6, <3>7
  <2>10. QED
    BY <2>7, <2>8, <2>9 DEF SessionsOK
<1>5. ASSUME NEW m \in Messages, Bind(m) PROVE SessionsOK'
  <2>1. /\ pc[m] = "bind" /\ UNCHANGED <<key, conv, era, eraOf, raced>>
        /\ pc'[m] = "list" /\ \A n \in Messages \ {m} : pc'[n] = pc[n]
    BY <1>0, <1>5 DEF Bind, Goto, HandlersOK
  <2>2. conv[m] = m
    BY <1>0, <2>1 DEF SessionOK
  <2>3. /\ forked \subseteq forked'
        /\ \/ mapping' = [mapping EXCEPT ![key[m]] = m]
           \/ mapping' = mapping /\ <<key[m], eraOf[m]>> \in forked'
    BY <1>5, <2>2 DEF Bind, BindMapping
  <2>4. QED
    BY <2>1, <2>3, BindLeft
<1>6. ASSUME NEW m \in Messages, Crash(m) PROVE SessionsOK'
  <2>1. /\ UNCHANGED <<mapping, key, conv, era, eraOf, raced>> /\ forked \subseteq forked'
        /\ pc[m] \in Looked \union {"lookup", "bind"}
        /\ pc'[m] = "done" /\ \A n \in Messages \ {m} : pc'[n] = pc[n]
    BY <1>0, <1>6 DEF Crash, Goto, HandlersOK, Steps
  <2>2. pc[m] = "bind" => <<key[m], eraOf[m]>> \in forked'
    BY <1>6 DEF Crash
  <2>3. CASE pc[m] = "bind"
    BY <2>1, <2>2, <2>3, BindLeft
  <2>4. CASE pc[m] # "bind"
    BY <2>1, <2>4, SessionsKept DEF Looked
  <2>5. QED
    BY <2>3, <2>4
<1>7. ASSUME NEW m \in Messages, Handle(m), pc[m] \notin {"lookup", "bind"} PROVE SessionsOK'
  <2>1. /\ UNCHANGED <<mapping, key, conv, era, eraOf, raced, forked>>
        /\ \E x \in Looked : Goto(m, x)
        /\ pc[m] \in Looked
    BY <1>7 DEF Handle, Lookup, Bind, List, Chat, Peek, Pop, Push, Expire, Trim, ghosts, Looked
  <2>2. pc'[m] \in Looked /\ \A n \in Messages \ {m} : pc'[n] = pc[n]
    BY <1>0, <2>1 DEF Goto, HandlersOK
  <2>3. QED
    BY <2>1, <2>2, SessionsKept
<1>8. ASSUME NEW k \in Keys, ExpireMapping(k) PROVE SessionsOK'
  <2>1. \A l \in Keys : \/ mapping'[l] = mapping[l]
                        \/ mapping'[l] = NoConv /\ <<l, era[l]>> \in forked'
    BY <1>0, <1>8 DEF ExpireMapping, StoreOK
  <2>2. UNCHANGED <<pc, key, conv, era, eraOf, raced>> /\ forked \subseteq forked'
    BY <1>8 DEF ExpireMapping, handler
  <2>3. QED
    BY <2>1, <2>2, SessionsKept
<1>9. ASSUME NEW c \in Convs, ExpireHistory(c) PROVE SessionsOK'
  BY <1>9, SessionsKept DEF ExpireHistory, handler
<1>10. CASE UNCHANGED vars
  BY <1>10, SessionsKept DEF vars, handler, ghosts
<1>11. ASSUME NEW m \in Messages, Handle(m) PROVE SessionsOK'
  <2>1. \/ Lookup(m) \/ Bind(m)
        \/ Handle(m) /\ pc[m] \notin {"lookup", "bind"}
    BY <1>11 DEF Handle, List, Chat, Peek, Pop, Push, Expire, Trim
  <2>2. QED
    BY <1>4, <1>5, <1>7, <2>1
<1>12. QED
  BY <1>1, <1>2, <1>3, <1>6, <1>8, <1>9, <1>10, <1>11 DEF Next

(* Between two resets the handlers of a session key work on one            *)
(* conversation, for every number of overlapping handlers and resets,      *)
(* unless two of them found no mapping before either wrote it, or the      *)
(* mapping was lost.                                                       *)
THEOREM SplitsAreRaces == Spec => []SplitOnlyByRace
<1>1. TypeOK /\ SessionsOK => SplitOnlyByRace
  <2> SUFFICES ASSUME TypeOK, SessionsOK, NEW m \in Bound, NEW n \in Bound, key[m] = key[n],
                      eraOf[m] = eraOf[n], <<key[m], eraOf[m]>> \notin forked
               PROVE  conv[m] = conv[n]
    BY DEF SplitOnlyByRace
  <2>1. key[m] \in Keys /\ eraOf[m] \in Nat
    BY DEF Bound, TypeOK, GhostsOK
  <2>2. m \in Party(key[m], eraOf[m]) /\ n \in Party(key[m], eraOf[m])
    BY DEF Bound, Party
  <2>3. QED
    BY <2>1, <2>2 DEF SessionsOK, PartyOK
<1>2. QED
  BY <1>1, InitSessions, StepSessions, ConvoTyped, PTL DEF Spec

-----------------------------------------------------------------------------
(* What a history holds                                                    *)

(* The entries of a list are of handlers that work on it.                  *)
Entries(s)   == {s[i] : i \in DOMAIN s}
RecordedOK   == \A c \in Convs : \A e \in Entries(hist[c]) : conv[e.msg] = c

LEMMA EntriesFront ==
  ASSUME NEW S, NEW s \in Seq(S), s # <<>>
  PROVE  Entries(Front(s)) \subseteq Entries(s)
<1>1. Len(s) \in Nat /\ Len(s) # 0 /\ DOMAIN s = 1..Len(s)
  OBVIOUS
<1>2. Front(s) = [i \in 1..(Len(s) - 1) |-> s[i]]
  BY <1>1 DEF Front
<1>3. QED
  BY <1>1, <1>2 DEF Entries

LEMMA EntriesTail ==
  ASSUME NEW S, NEW s \in Seq(S), s # <<>>
  PROVE  Entries(Tail(s)) \subseteq Entries(s)
<1>1. /\ Len(s) \in Nat /\ Len(s) # 0 /\ DOMAIN s = 1..Len(s)
      /\ DOMAIN Tail(s) = 1..(Len(s) - 1) /\ \A i \in 1..(Len(s) - 1) : Tail(s)[i] = s[i + 1]
  OBVIOUS
<1>2. \A i \in 1..(Len(s) - 1) : i + 1 \in 1..Len(s)
  BY <1>1
<1>3. QED
  BY <1>1, <1>2 DEF Entries

LEMMA EntriesAppend ==
  ASSUME NEW S, NEW s \in Seq(S), NEW e \in S
  PROVE  Entries(Append(s, e)) \subseteq Entries(s) \union {e}
<1>1. /\ Len(s) \in Nat /\ DOMAIN s = 1..Len(s) /\ DOMAIN Append(s, e) = 1..(Len(s) + 1)
      /\ \A i \in 1..Len(s) : Append(s, e)[i] = s[i]
      /\ Append(s, e)[Len(s) + 1] = e
  OBVIOUS
<1>2. \A i \in 1..(Len(s) + 1) : i \in 1..Len(s) \/ i = Len(s) + 1
  BY <1>1
<1>3. QED
  BY <1>1, <1>2 DEF Entries

LEMMA EntriesTyped ==
  ASSUME NEW S, NEW s \in Seq(S)
  PROVE  Entries(s) \subseteq S
BY DEF Entries

LEMMA StepRecorded == TypeOK /\ SessionOK /\ RecordedOK /\ [Next]_vars => RecordedOK'
<1> SUFFICES ASSUME TypeOK, SessionOK, RecordedOK, [Next]_vars PROVE RecordedOK'
  OBVIOUS
<1>0. HandlersOK /\ StoreOK
  BY DEF TypeOK
<1>1. \A c \in Convs : \A e \in Entries(hist[c]) : e.msg \in Messages /\ conv[e.msg] = c /\ c # NoConv
  <2>1. \A c \in Convs : Entries(hist[c]) \subseteq Items
    BY <1>0, EntriesTyped DEF StoreOK
  <2>2. \A e \in Items : e.msg \in Messages
    BY DEF Items
  <2>3. QED
    BY <2>1, <2>2 DEF RecordedOK, Convs, NoConv, Messages
<1>2. ASSUME UNCHANGED hist, \A n \in Messages : conv[n] # NoConv => conv'[n] = conv[n] PROVE RecordedOK'
  BY <1>1, <1>2 DEF RecordedOK, Entries
<1>3. ASSUME NEW c \in Convs, NEW s, hist' = [hist EXCEPT ![c] = s], UNCHANGED conv,
             \A e \in Entries(s) : conv[e.msg] = c
      PROVE  RecordedOK'
  BY <1>0, <1>3 DEF RecordedOK, Entries, StoreOK
<1>4. ASSUME NEW m \in Messages, NEW u \in Prompts,
             \/ ReceiveWeb(m, u)
             \/ \E k \in Keys : Receive(m, k, u) \/ Reset(m, k, u)
      PROVE  RecordedOK'
  <2>1. UNCHANGED hist /\ conv[m] = NoConv /\ \A n \in Messages \ {m} : conv'[n] = conv[n]
    BY <1>0, <1>4 DEF ReceiveWeb, Receive, Reset, Arrives, SessionOK, HandlersOK
  <2>2. QED
    BY <1>2, <2>1
<1>5. ASSUME NEW m \in Messages, Lookup(m) PROVE RecordedOK'
  <2>1. UNCHANGED hist /\ conv[m] = NoConv /\ \A n \in Messages \ {m} : conv'[n] = conv[n]
    BY <1>0, <1>5 DEF Lookup, FoundOrNew, SessionOK, HandlersOK
  <2>2. QED
    BY <1>2, <2>1
<1>6. ASSUME NEW m \in Messages,
             Bind(m) \/ List(m) \/ Chat(m) \/ Peek(m) \/ Expire(m) \/ Crash(m)
      PROVE  RecordedOK'
  BY <1>2, <1>6 DEF Bind, List, Chat, Peek, Expire, Crash
<1>7. ASSUME NEW m \in Messages, Pop(m) \/ Trim(m) PROVE RecordedOK'
  <2>1. PICK c \in Convs : c = conv[m] /\ hist[c] \in Seq(Items)
    BY <1>0, <1>7 DEF Pop, Trim, HandlersOK, StoreOK
  <2>2. \/ UNCHANGED hist
        \/ /\ hist[c] # <<>>
           /\ \E s \in {Front(hist[c]), Tail(hist[c])} : hist' = [hist EXCEPT ![c] = s]
    BY <1>7, <2>1 DEF Pop, Trim, Rewrite
  <2>3. UNCHANGED conv
    BY <1>7 DEF Pop, Trim
  <2>4. hist[c] # <<>> => /\ Entries(Front(hist[c])) \subseteq Entries(hist[c])
                         /\ Entries(Tail(hist[c])) \subseteq Entries(hist[c])
    BY <2>1, EntriesFront, EntriesTail
  <2>5. CASE UNCHANGED hist
    BY <1>2, <2>3, <2>5
  <2>6. ASSUME hist[c] # <<>>, NEW s \in {Front(hist[c]), Tail(hist[c])}, hist' = [hist EXCEPT ![c] = s]
        PROVE  RecordedOK'
    <3>1. \A e \in Entries(s) : conv[e.msg] = c
      BY <1>1, <2>4, <2>6
    <3>2. QED
      BY <1>3, <2>3, <2>6, <3>1
  <2>7. QED
    BY <2>2, <2>5, <2>6
<1>8. ASSUME NEW m \in Messages, Push(m) PROVE RecordedOK'
  <2>1. PICK c \in Convs : c = conv[m] /\ hist[c] \in Seq(Items)
    BY <1>0, <1>8 DEF Push, HandlersOK, StoreOK
  <2> DEFINE item == [msg |-> m, user |-> user[m]]
  <2>2. UNCHANGED conv /\ (UNCHANGED hist \/ hist' = [hist EXCEPT ![c] = Append(hist[c], item)])
    BY <1>8, <2>1 DEF Push
  <2>3. item \in Items /\ item.msg = m
    BY <1>0 DEF HandlersOK, Items
  <2> HIDE DEF item
  <2>4. Entries(Append(hist[c], item)) \subseteq Entries(hist[c]) \union {item}
    BY <2>1, <2>3, EntriesAppend
  <2>5. CASE UNCHANGED hist
    BY <1>2, <2>2, <2>5
  <2>6. CASE hist' = [hist EXCEPT ![c] = Append(hist[c], item)]
    <3>1. PICK s : s = Append(hist[c], item)
      OBVIOUS
    <3>2. \A e \in Entries(s) : conv[e.msg] = c
      BY <1>1, <2>1, <2>3, <2>4, <3>1
    <3>3. hist' = [hist EXCEPT ![c] = s]
      BY <2>6, <3>1
    <3>4. QED
      BY <1>3, <2>2, <3>2, <3>3
  <2>7. QED
    BY <2>2, <2>5, <2>6
<1>9. ASSUME NEW k \in Keys, ExpireMapping(k) PROVE RecordedOK'
  BY <1>2, <1>9 DEF ExpireMapping, handler
<1>10. ASSUME NEW c \in Convs, ExpireHistory(c) PROVE RecordedOK'
  <2>1. hist' = [hist EXCEPT ![c] = <<>>] /\ UNCHANGED conv /\ Entries(<<>>) = {}
    BY <1>10 DEF ExpireHistory, Rewrite, handler, Entries
  <2>2. QED
    BY <1>3, <2>1
<1>11. CASE UNCHANGED vars
  BY <1>2, <1>11 DEF vars, handler
<1>12. QED
  BY <1>4, <1>5, <1>6, <1>7, <1>8, <1>9, <1>10, <1>11 DEF Next, Handle

(* A message that comes after a reset of its session finds nothing in its  *)
(* history that was said before it, unless the reset overtook a handler    *)
(* between its GET and its SET of the mapping.                             *)
THEOREM ResetsIsolate == Spec => []ResetIsolates
<1>1. Init => RecordedOK
  BY DEF Init, RecordedOK, Entries
<1>2. TypeOK /\ SessionsOK /\ RecordedOK => ResetIsolates
  <2> SUFFICES ASSUME TypeOK, SessionsOK, RecordedOK, NEW m \in Messages, pc[m] = "list",
                      key[m] \in Keys, <<key[m], eraOf[m]>> \notin raced,
                      NEW n \in Recorded(conv[m]), key[n] = key[m]
               PROVE  eraOf[n] >= eraOf[m]
    BY DEF ResetIsolates, FreshAfterReset
  <2>1. conv[m] \in Convs /\ hist[conv[m]] \in Seq(Items) /\ conv[m] # NoConv
    BY DEF TypeOK, HandlersOK, StoreOK, Convs, NoConv, Messages
  <2>2. n \in Messages /\ conv[n] = conv[m]
    <3>1. PICK e \in Entries(hist[conv[m]]) : e.msg = n
      BY DEF Recorded, Entries
    <3>2. e \in Items
      BY <2>1, <3>1, EntriesTyped
    <3>3. QED
      BY <2>1, <3>1, <3>2 DEF RecordedOK, Items
  <2>3. eraOf[conv[m]] = eraOf[m]
    BY <2>1 DEF SessionsOK, OriginOK, Origin
  <2>4. eraOf[conv[n]] <= eraOf[n]
    BY <2>1, <2>2 DEF SessionsOK, OriginOK, Origin
  <2>5. eraOf[n] \in Nat /\ eraOf[m] \in Nat
    BY <2>2 DEF TypeOK, GhostsOK
  <2>6. QED
    BY <2>2, <2>3, <2>4, <2>5
<1>3. SessionsOK => SessionOK
  BY DEF SessionsOK
<1>4. QED
  BY <1>1, <1>2, <1>3, InitSessions, StepSessions, StepRecorded, ConvoTyped, PTL DEF Spec

-----------------------------------------------------------------------------
(* The abstract log                                                        *)

Pending(c) == {m \in Messages : pc[m] = "push" /\ conv[m] = c}

(* What one handler at a time without failures knows of the list: the last *)
(* entry is about its prompt when it is to be replaced, and no other way.  *)
SeqOK ==
  /\ faults = 0
  /\ \A m, n \in Active : m = n
  /\ \A m \in Messages : pc[m] = "trim" => over[m]
  /\ \A m \in Messages : pc[m] # "push" => popped[m] = <<>>
  /\ \A m \in Messages : pc[m] = "pop" => \/ hist[conv[m]] = <<>>
                                         \/ SameUser(hist[conv[m]], user[m])
  /\ \A m \in Messages : pc[m] = "push" =>
       \/ popped[m] = <<>> /\ ~SameUser(hist[conv[m]], user[m])
       \/ \E x \in Items : popped[m] = <<x>> /\ x.user = user[m]

LEMMA NoneActive ==
  ASSUME MaxActive = 1, NEW m \in Messages, Arrives(m)
  PROVE  Active = {}
<1>1. IsFiniteSet(Messages)
  BY ConvoAssumption, FS_Interval DEF Messages
<1>2. IsFiniteSet(Active)
  BY <1>1, FS_Subset DEF Active
<1>3. Cardinality(Active) \in Nat /\ Cardinality(Active) < 1
  BY <1>2, FS_CardinalityType DEF Arrives
<1>4. Cardinality(Active) = 0
  BY <1>3
<1>5. QED
  BY <1>2, <1>4, FS_EmptySet

LEMMA InitSeq == Init => SeqOK
BY DEF Init, SeqOK, Active

LEMMA NoFault == ASSUME MaxFaults = 0, SeqOK PROVE ~Fault
BY DEF SeqOK, Fault

(* Everybody but m has not begun or is done.                               *)
LEMMA Alone ==
  ASSUME SeqOK, TypeOK, NEW m \in Messages, pc[m] \notin {"new", "done"}
  PROVE  \A n \in Messages \ {m} : pc[n] \in {"new", "done"}
BY DEF SeqOK, Active

(* Steps that leave the list and what was popped alone.                    *)
LEMMA SeqKept ==
  ASSUME SeqOK, TypeOK, NEW m \in Messages, UNCHANGED <<hist, popped, faults>>,
         \A n \in Messages \ {m} : /\ pc[n] \in {"new", "done"} /\ pc'[n] = pc[n]
                                   /\ conv'[n] = conv[n] /\ user'[n] = user[n],
         pc'[m] = "trim" => over'[m], popped[m] = <<>>,
         pc'[m] \notin {"pop", "push"}
  PROVE  SeqOK'
BY DEF SeqOK, Active

LEMMA StepSeq ==
  ASSUME MaxActive = 1, MaxFaults = 0
  PROVE  SeqOK /\ TypeOK /\ [Next]_vars => SeqOK'
<1> SUFFICES ASSUME SeqOK, TypeOK, [Next]_vars PROVE SeqOK'
  OBVIOUS
<1>0. HandlersOK /\ StoreOK /\ GhostsOK /\ ~Fault
  BY NoFault DEF TypeOK
<1>1. ASSUME NEW m \in Messages, NEW u \in Prompts,
             \/ ReceiveWeb(m, u)
             \/ \E k \in Keys : Receive(m, k, u) \/ Reset(m, k, u)
      PROVE  SeqOK'
  <2>1. Arrives(m) /\ UNCHANGED <<hist, popped, faults>>
    BY <1>0, <1>1 DEF ReceiveWeb, Receive, Reset, ghosts
  <2>2. \A n \in Messages : pc[n] \in {"new", "done"}
    BY <2>1, NoneActive DEF Active
  <2>3. pc'[m] \in {"list", "lookup", "done"}
    BY <1>0, <1>1 DEF ReceiveWeb, Receive, Reset, Goto, HandlersOK
  <2>4. \A n \in Messages \ {m} : pc'[n] = pc[n] /\ conv'[n] = conv[n] /\ user'[n] = user[n]
    BY <1>0, <1>1 DEF ReceiveWeb, Receive, Reset, Goto, HandlersOK
  <2>5. popped[m] = <<>>
    BY <2>2 DEF SeqOK
  <2>6. QED
    BY <2>1, <2>2, <2>3, <2>4, <2>5, SeqKept
<1>2. ASSUME NEW m \in Messages,
             Lookup(m) \/ Bind(m) \/ List(m) \/ Chat(m) \/ Expire(m)
      PROVE  SeqOK'
  <2>1. UNCHANGED <<hist, popped, faults, user, over>> /\ pc[m] \notin {"new", "done", "push"}
    BY <1>0, <1>2 DEF Lookup, Bind, BindMapping, List, Chat, Expire, ghosts
  <2>2. \A n \in Messages \ {m} : pc[n] \in {"new", "done"}
    BY <2>1, Alone
  <2>3. pc'[m] \in {"bind", "list", "chat", "peek", "trim", "done"} /\ (pc'[m] = "trim" => over[m])
    BY <1>0, <1>2 DEF Lookup, Bind, List, Chat, Expire, Goto, HandlersOK
  <2>4. \A n \in Messages \ {m} : pc'[n] = pc[n] /\ conv'[n] = conv[n]
    BY <1>0, <1>2 DEF Lookup, FoundOrNew, Bind, List, Chat, Expire, Goto, HandlersOK
  <2>5. popped[m] = <<>>
    BY <2>1 DEF SeqOK
  <2>6. QED
    BY <2>1, <2>2, <2>3, <2>4, <2>5, SeqKept
<1>3. ASSUME NEW m \in Messages, Peek(m) PROVE SeqOK'
  <2>1. UNCHANGED <<hist, popped, faults, user, conv, over>> /\ pc[m] = "peek"
    BY <1>0, <1>3 DEF Peek, ghosts
  <2>2. pc'[m] = IF SameUser(hist[conv[m]], user[m]) THEN "pop" ELSE "push"
    BY <1>0, <1>3 DEF Peek, Goto, HandlersOK
  <2>3. \A n \in Messages \ {m} : pc[n] \in {"new", "done"} /\ pc'[n] = pc[n]
    BY <1>0, <1>3, <2>1, Alone DEF Peek, Goto, HandlersOK
  <2>4. popped[m] = <<>>
    BY <2>1 DEF SeqOK
  <2>5. QED
    BY <2>1, <2>2, <2>3, <2>4 DEF SeqOK, Active
<1>4. ASSUME NEW m \in Messages, Pop(m) PROVE SeqOK'
  <2>1. PICK c \in Convs : c = conv[m] /\ hist[c] \in Seq(Items)
    BY <1>0, <1>4 DEF Pop, HandlersOK, StoreOK
  <2>2. UNCHANGED <<faults, user, conv, over>> /\ pc[m] = "pop" /\ pc'[m] = "push"
    BY <1>0, <1>4 DEF Pop, Goto, HandlersOK
  <2>3. \A n \in Messages \ {m} : pc[n] \in {"new", "done"} /\ pc'[n] = pc[n] /\ popped'[n] = popped[n]
    BY <1>0, <1>4, <2>2, Alone DEF Pop, Goto, HandlersOK, GhostsOK
  <2>4. popped[m] = <<>> /\ (hist[c] = <<>> \/ SameUser(hist[c], user[m]))
    BY <2>1, <2>2 DEF SeqOK
  <2>5. \/ hist[c] # <<>> /\ popped'[m] = <<Last(hist[c])>>
        \/ hist[c] = <<>> /\ UNCHANGED <<hist, popped>>
    BY <1>0, <1>4, <2>1 DEF Pop, GhostsOK
  <2>6. \/ popped'[m] = <<>> /\ ~SameUser(hist'[c], user[m])
        \/ \E x \in Items : popped'[m] = <<x>> /\ x.user = user[m]
    <3>1. CASE hist[c] = <<>> /\ UNCHANGED <<hist, popped>>
      BY <2>4, <3>1 DEF SameUser
    <3>2. CASE hist[c] # <<>> /\ popped'[m] = <<Last(hist[c])>>
      BY <2>1, <2>4, <3>2, FrontLast DEF SameUser
    <3>3. QED
      BY <2>5, <3>1, <3>2
  <2>7. \A n \in Messages \ {m} : popped'[n] = <<>>
    BY <2>3 DEF SeqOK
  <2>8. QED
    BY <2>1, <2>2, <2>3, <2>6, <2>7 DEF SeqOK, Active
<1>5. ASSUME NEW m \in Messages, Push(m) PROVE SeqOK'
  <2>1. UNCHANGED <<faults, user, conv>> /\ pc[m] = "push" /\ pc'[m] = "expire" /\ popped'[m] = <<>>
    BY <1>0, <1>5 DEF Push, Goto, HandlersOK, GhostsOK
  <2>2. \A n \in Messages \ {m} : pc[n] \in {"new", "done"} /\ pc'[n] = pc[n] /\ popped'[n] = popped[n]
    BY <1>0, <1>5, <2>1, Alone DEF Push, Goto, HandlersOK, GhostsOK
  <2>3. QED
    BY <2>1, <2>2 DEF SeqOK, Active
<1>6. ASSUME NEW m \in Messages, Trim(m) PROVE SeqOK'
  <2>1. UNCHANGED <<faults, user, conv, over, popped>> /\ pc[m] = "trim" /\ pc'[m] = "done"
    BY <1>0, <1>6 DEF Trim, Goto, HandlersOK
  <2>2. \A n \in Messages \ {m} : pc[n] \in {"new", "done"} /\ pc'[n] = pc[n]
    BY <1>0, <1>6, <2>1, Alone DEF Trim, Goto, HandlersOK
  <2>3. QED
    BY <2>1, <2>2 DEF SeqOK, Active
<1>7. ASSUME NEW m \in Messages, Crash(m) PROVE SeqOK'
  BY <1>0, <1>7 DEF Crash
<1>8. ASSUME NEW k \in Keys, ExpireMapping(k) PROVE SeqOK'
  BY <1>8 DEF ExpireMapping, handler, SeqOK, Active
<1>9. ASSUME NEW c \in Convs, ExpireHistory(c) PROVE SeqOK'
  <2>1. UNCHANGED <<pc, conv, user, over, faults>>
    BY <1>9 DEF ExpireHistory, handler
  <2>2. \A m \in Messages : \/ conv[m] = c /\ popped'[m] = <<>> /\ hist'[c] = <<>>
                            \/ conv[m] # c /\ popped'[m] = popped[m] /\ hist'[conv[m]] = hist[conv[m]]
    BY <1>0, <1>9 DEF ExpireHistory, Rewrite, StoreOK
  <2>3. \A m \in Messages : ~SameUser(<<>>, user[m])
    BY DEF SameUser
  <2>4. QED
    BY <2>1, <2>2, <2>3 DEF SeqOK, Active
<1>10. CASE UNCHANGED vars
  BY <1>10 DEF vars, handler, ghosts, SeqOK, Active
<1>11. QED
  BY <1>1, <1>2, <1>3, <1>4, <1>5, <1>6, <1>7, <1>8, <1>9, <1>10 DEF Next, Handle

(* What the abstract log of a conversation is, by what is under way.       *)
LEMMA LogTrimmed ==
  ASSUME NEW c \in Convs, Owing(c) # {}, hist[c] # <<>>
  PROVE  AbstractLog[c] = Tail(hist[c])
BY DEF AbstractLog

LEMMA LogSettled ==
  ASSUME NEW c \in Convs, Owing(c) = {} \/ hist[c] = <<>>, Pending(c) = {}
  PROVE  AbstractLog[c] = hist[c]
BY DEF AbstractLog, Pending

LEMMA LogPending ==
  ASSUME NEW c \in Convs, Owing(c) = {} \/ hist[c] = <<>>, NEW m, Pending(c) = {m}
  PROVE  AbstractLog[c] = hist[c] \o popped[m]
<1>1. (CHOOSE n \in {m} : TRUE) = m
  OBVIOUS
<1>2. {n \in Messages : pc[n] = "push" /\ conv[n] = c} = {m}
  BY DEF Pending
<1>3. QED
  BY <1>1, <1>2 DEF AbstractLog

LEMMA LogFunction == AbstractLog = [c \in Convs |-> AbstractLog[c]]
BY DEF AbstractLog

LEMMA LogSame ==
  ASSUME \A c \in Convs : AbstractLog'[c] = AbstractLog[c]
  PROVE  AbstractLog' = AbstractLog
<1>1. AbstractLog' = [c \in Convs |-> AbstractLog'[c]]
  BY DEF AbstractLog
<1>2. QED
  BY <1>1, LogFunction

(* The log stays as it is where lists and commands under way do.           *)
LEMMA LogStays ==
  ASSUME NEW c \in Convs, hist'[c] = hist[c], Owing(c)' = Owing(c), Pending(c)' = Pending(c),
         \A n \in Pending(c) : popped'[n] = popped[n]
  PROVE  AbstractLog'[c] = AbstractLog[c]
<1>1. CASE Owing(c) # {} /\ hist[c] # <<>>
  BY <1>1 DEF AbstractLog
<1>2. CASE ~(Owing(c) # {} /\ hist[c] # <<>>) /\ Pending(c) = {}
  BY <1>2 DEF AbstractLog, Pending
<1>3. CASE ~(Owing(c) # {} /\ hist[c] # <<>>) /\ Pending(c) # {}
  <2> DEFINE n == CHOOSE m \in Pending(c) : TRUE
  <2>1. n \in Pending(c)
    BY <1>3
  <2>2. AbstractLog[c] = hist[c] \o popped[n]
    BY <1>3 DEF AbstractLog, Pending
  <2>3. AbstractLog'[c] = hist'[c] \o popped'[n]
    BY <1>3 DEF AbstractLog, Pending
  <2>4. QED
    BY <2>1, <2>2, <2>3
<1>4. QED
  BY <1>1, <1>2, <1>3

(* Sequence facts of a replacement. *)
LEMMA EmptyRight == ASSUME NEW S, NEW s \in Seq(S) PROVE s \o <<>> = s
OBVIOUS

LEMMA LastBack ==
  ASSUME NEW S, NEW s \in Seq(S), NEW x \in S
  PROVE  /\ s \o <<x>> \in Seq(S) /\ s \o <<x>> # <<>>
         /\ Front(s \o <<x>>) = s /\ Last(s \o <<x>>) = x
<1> DEFINE t == s \o <<x>>
<1>1. /\ t \in Seq(S) /\ Len(t) = Len(s) + 1 /\ Len(s) \in Nat
      /\ t[Len(s) + 1] = x /\ \A i \in 1..Len(s) : t[i] = s[i]
  OBVIOUS
<1> HIDE DEF t
<1>2. Last(t) = x
  BY <1>1 DEF Last
<1>3. Front(t) = [i \in 1..Len(s) |-> t[i]]
  BY <1>1 DEF Front
<1>4. Front(t) = [i \in 1..Len(s) |-> s[i]]
  BY <1>1, <1>3
<1>5. s = [i \in 1..Len(s) |-> s[i]]
  OBVIOUS
<1>6. t # <<>>
  BY <1>1
<1>7. QED
  BY <1>1, <1>2, <1>4, <1>5, <1>6 DEF t

LEMMA FrontWithLast ==
  ASSUME NEW S, NEW s \in Seq(S), s # <<>>
  PROVE  Front(s) \o <<Last(s)>> = s
<1>1. Len(s) \in Nat /\ Len(s) # 0 /\ Len(s) - 1 \in Nat /\ s = [i \in 1..Len(s) |-> s[i]]
  OBVIOUS
<1>2. Front(s) = [i \in 1..(Len(s) - 1) |-> s[i]] /\ Last(s) = s[Len(s)] /\ Last(s) \in S
  BY <1>1 DEF Front, Last
<1>3. PICK f \in Seq(S), x \in S : f = Front(s) /\ x = Last(s)
  BY <1>1, <1>2
<1>4. Len(f) = Len(s) - 1 /\ \A i \in 1..Len(f) : f[i] = s[i]
  BY <1>1, <1>2, <1>3
<1>5. /\ f \o <<x>> \in Seq(S) /\ Len(f \o <<x>>) = Len(f) + 1
      /\ (f \o <<x>>)[Len(f) + 1] = x /\ \A i \in 1..Len(f) : (f \o <<x>>)[i] = f[i]
  OBVIOUS
<1>6. PICK t : t = f \o <<x>>
  OBVIOUS
<1>7. t \in Seq(S)
  BY <1>5, <1>6
<1>8. Len(t) = Len(f) + 1 /\ t[Len(f) + 1] = x /\ \A i \in 1..Len(f) : t[i] = f[i]
  BY <1>6, <1>5
<1>9. Len(f) + 1 = Len(s)
  BY <1>1, <1>4
<1>10. t = [i \in 1..Len(t) |-> t[i]]
  BY <1>7
<1>11. /\ Len(t) = Len(s) /\ t[Len(s)] = x /\ \A i \in 1..Len(f) : t[i] = f[i]
      /\ t = [i \in 1..Len(t) |-> t[i]]
  BY <1>8, <1>9, <1>10
<1>12. ASSUME NEW i \in 1..Len(s) PROVE t[i] = s[i]
  <2>1. i \in 1..Len(f) \/ i = Len(s)
    BY <1>1, <1>4
  <2>2. QED
    BY <1>2, <1>3, <1>4, <1>11, <2>1
<1>13. QED
  BY <1>1, <1>3, <1>6, <1>11, <1>12

LEMMA InitLog == Init => Log!Init
<1> SUFFICES ASSUME Init PROVE \A c \in Convs : AbstractLog[c] = <<>>
  BY LogFunction DEF Log!Init
<1>1. \A c : Owing(c) = {} /\ Pending(c) = {}
  BY DEF Init, Owing, Pending
<1>2. QED
  BY <1>1, LogSettled DEF Init

(* RPUSH is the step at which the log changes: what a prompt was answered  *)
(* before has been taken out, and what will be too long loses its oldest.  *)
LEMMA PushRecords ==
  ASSUME SeqOK, TypeOK, MaxFaults = 0, NEW m \in Messages, Push(m)
  PROVE  \E c \in Convs, item \in Items : Log!Record(c, item)
<1>0. HandlersOK /\ StoreOK /\ GhostsOK /\ ~Fault
  BY NoFault DEF TypeOK
<1>1. PICK c \in Convs : c = conv[m] /\ hist[c] \in Seq(Items)
  BY <1>0 DEF Push, HandlersOK, StoreOK
<1>2. PICK item \in Items : item = [msg |-> m, user |-> user[m]]
  BY <1>0 DEF HandlersOK, Items
<1>3. PICK s \in Seq(Items) : s = Append(hist[c], item) /\ s # <<>>
  BY <1>1, AppendLen
<1>4. /\ hist' = [hist EXCEPT ![c] = s] /\ over' = [over EXCEPT ![m] = Overflows(Len(s))]
      /\ pc[m] = "push" /\ pc' = [pc EXCEPT ![m] = "expire"] /\ UNCHANGED conv
      /\ popped' = [popped EXCEPT ![m] = <<>>]
  BY <1>0, <1>1, <1>2, <1>3 DEF Push, Goto
<1>5. \A n \in Messages \ {m} : pc[n] \in {"new", "done"}
  BY <1>4, Alone
<1>6. \A d \in Convs : Owing(d) = {} /\ Pending(d) = IF d = c THEN {m} ELSE {}
  BY <1>1, <1>4, <1>5 DEF Owing, Pending
<1>7. \A d \in Convs : /\ Owing(d)' = IF d = c /\ Overflows(Len(s)) THEN {m} ELSE {}
                      /\ Pending(d)' = {}
  BY <1>0, <1>1, <1>4, <1>5 DEF Owing, Pending, HandlersOK
<1>8. hist'[c] = s /\ \A d \in Convs \ {c} : hist'[d] = hist[d]
  BY <1>0, <1>4 DEF StoreOK
<1>9. AbstractLog[c] = hist[c] \o popped[m]
  BY <1>6, LogPending
<1>10. Log!Replaced(AbstractLog[c], item) = s
  <2>0. (\A z : Log!Last(z) = Last(z) /\ Log!Front(z) = Front(z)) /\ item.user = user[m]
    BY <1>2 DEF Log!Last, Log!Front, Last, Front
  <2>1. CASE popped[m] = <<>> /\ ~SameUser(hist[c], user[m])
    <3>1. AbstractLog[c] = hist[c]
      BY <1>1, <1>9, <2>1, EmptyRight
    <3>2. QED
      BY <1>3, <2>0, <2>1, <3>1 DEF Log!Replaced, Log!SameUser, SameUser
  <2>2. ASSUME NEW x \in Items, popped[m] = <<x>>, x.user = user[m]
        PROVE  Log!Replaced(AbstractLog[c], item) = s
    <3>1. /\ AbstractLog[c] # <<>> /\ Front(AbstractLog[c]) = hist[c] /\ Last(AbstractLog[c]) = x
      BY <1>1, <1>9, <2>2, LastBack
    <3>2. QED
      BY <1>3, <2>0, <2>2, <3>1 DEF Log!Replaced, Log!SameUser
  <2>3. QED
    BY <1>1, <1>4, <2>1, <2>2 DEF SeqOK
<1>11. AbstractLog'[c] = Log!Newest(s)
  <2>1. CASE Overflows(Len(s))
    <3>1. Owing(c)' # {} /\ hist'[c] # <<>>
      BY <1>3, <1>7, <1>8, <2>1
    <3>2. AbstractLog'[c] = Tail(hist'[c])
      BY <3>1 DEF AbstractLog
    <3>3. QED
      BY <1>8, <2>1, <3>2 DEF Log!Newest, Overflows
  <2>2. CASE ~Overflows(Len(s))
    <3>1. Owing(c)' = {} /\ Pending(c)' = {}
      BY <1>7, <2>2
    <3>2. AbstractLog'[c] = hist'[c]
      BY <3>1 DEF AbstractLog, Pending
    <3>3. QED
      BY <1>8, <2>2, <3>2 DEF Log!Newest, Overflows
  <2>3. QED
    BY <2>1, <2>2
<1>12. \A d \in Convs \ {c} : AbstractLog'[d] = AbstractLog[d]
  <2>1. ASSUME NEW d \in Convs \ {c}
        PROVE  /\ hist'[d] = hist[d] /\ Owing(d)' = Owing(d) /\ Pending(d)' = Pending(d)
               /\ Pending(d) = {}
    BY <1>6, <1>7, <1>8
  <2>2. QED
    BY <2>1, LogStays
<1>13. AbstractLog' = [AbstractLog EXCEPT ![c] = Log!Newest(Log!Replaced(AbstractLog[c], item))]
  <2>1. AbstractLog' = [d \in Convs |-> AbstractLog'[d]]
    BY DEF AbstractLog
  <2>2. QED
    BY <1>10, <1>11, <1>12, <2>1, LogFunction
<1>14. QED
  BY <1>13 DEF Log!Record

(* The end of its life time forgets a log.                                 *)
LEMMA ExpiryForgets ==
  ASSUME SeqOK, TypeOK, NEW c \in Convs, ExpireHistory(c)
  PROVE  Log!Forget(c)
<1>0. StoreOK /\ SeqOK
  BY DEF TypeOK
<1>1. /\ UNCHANGED <<pc, conv, over>> /\ hist'[c] = <<>>
      /\ \A d \in Convs \ {c} : hist'[d] = hist[d]
      /\ \A n \in Messages : popped'[n] = IF conv[n] = c THEN <<>> ELSE popped[n]
  BY <1>0 DEF ExpireHistory, Rewrite, handler, StoreOK
<1>2. \A d : Owing(d)' = Owing(d) /\ Pending(d)' = Pending(d)
  BY <1>1 DEF Owing, Pending
<1>3. \A d \in Convs \ {c} : AbstractLog'[d] = AbstractLog[d]
  <2>1. ASSUME NEW d \in Convs \ {c} PROVE \A n \in Pending(d) : popped'[n] = popped[n]
    BY <1>1, <2>1 DEF Pending
  <2>2. QED
    BY <1>1, <1>2, <2>1, LogStays
<1>4. AbstractLog'[c] = <<>>
  <2>1. CASE Pending(c) = {}
    BY <1>1, <1>2, <2>1 DEF AbstractLog, Pending
  <2>2. CASE Pending(c) # {}
    <3> DEFINE n == CHOOSE m \in Pending(c) : TRUE
    <3>1. n \in Pending(c)
      BY <2>2
    <3>2. AbstractLog'[c] = hist'[c] \o popped'[n]
      BY <1>1, <1>2, <2>2 DEF AbstractLog, Pending
    <3>3. popped'[n] = <<>>
      BY <1>1, <3>1 DEF Pending
    <3>4. QED
      BY <1>1, <3>2, <3>3
  <2>3. QED
    BY <2>1, <2>2
<1>5. AbstractLog' = [d \in Convs |-> AbstractLog'[d]]
  BY DEF AbstractLog
<1>6. AbstractLog' = [AbstractLog EXCEPT ![c] = <<>>]
  BY <1>3, <1>4, <1>5, LogFunction
<1>7. QED
  BY <1>6 DEF Log!Forget

LEMMA StepLog ==
  ASSUME MaxActive = 1, MaxFaults = 0
  PROVE  SeqOK /\ TypeOK /\ [Next]_vars => [Log!Next]_AbstractLog
<1> SUFFICES ASSUME SeqOK, TypeOK, [Next]_vars
             PROVE  Log!Next \/ AbstractLog' = AbstractLog
  OBVIOUS
<1>0. HandlersOK /\ StoreOK /\ GhostsOK /\ ~Fault
  BY NoFault DEF TypeOK
(* The steps before the first command on the list, and after the last.     *)
<1>1. ASSUME NEW m \in Messages, UNCHANGED <<hist, popped, over>>,
             pc[m] \notin {"push", "expire", "trim"}, pc'[m] \notin {"push", "expire", "trim"},
             \A n \in Messages \ {m} : pc'[n] = pc[n] /\ conv'[n] = conv[n]
      PROVE  AbstractLog' = AbstractLog
  <2>1. \A c : Owing(c)' = Owing(c) /\ Pending(c)' = Pending(c)
    BY <1>1 DEF Owing, Pending
  <2>2. QED
    BY <1>1, <2>1, LogStays, LogSame
<1>2. ASSUME NEW m \in Messages, NEW u \in Prompts,
             \/ ReceiveWeb(m, u)
             \/ \E k \in Keys : Receive(m, k, u) \/ Reset(m, k, u)
      PROVE  AbstractLog' = AbstractLog
  <2>1. Arrives(m) /\ UNCHANGED <<hist, popped, over>>
    BY <1>2 DEF ReceiveWeb, Receive, Reset, ghosts
  <2>2. pc[m] = "new" /\ pc'[m] \in {"list", "lookup", "done"}
    BY <1>0, <1>2, <2>1 DEF ReceiveWeb, Receive, Reset, Arrives, Goto, HandlersOK
  <2>3. \A n \in Messages \ {m} : pc'[n] = pc[n] /\ conv'[n] = conv[n]
    BY <1>0, <1>2 DEF ReceiveWeb, Receive, Reset, Goto, HandlersOK
  <2>4. QED
    BY <1>1, <2>1, <2>2, <2>3
<1>3. ASSUME NEW m \in Messages, Lookup(m) \/ Bind(m) \/ List(m) \/ Chat(m)
      PROVE  AbstractLog' = AbstractLog
  <2>1. UNCHANGED <<hist, popped, over>> /\ pc[m] \notin {"push", "expire", "trim"}
    BY <1>3 DEF Lookup, Bind, List, Chat, ghosts
  <2>2. pc'[m] \in {"bind", "list", "chat", "peek", "done"}
    BY <1>0, <1>3 DEF Lookup, Bind, List, Chat, Goto, HandlersOK
  <2>3. \A n \in Messages \ {m} : pc'[n] = pc[n] /\ conv'[n] = conv[n]
    BY <1>0, <1>3 DEF Lookup, FoundOrNew, Bind, List, Chat, Goto, HandlersOK
  <2>4. QED
    BY <1>1, <2>1, <2>2, <2>3
(* Who is to replace the last entry has it in hand while it is out.        *)
<1>4. ASSUME NEW m \in Messages, Peek(m) \/ Pop(m) PROVE AbstractLog' = AbstractLog
  <2>1. PICK c \in Convs : c = conv[m] /\ hist[c] \in Seq(Items)
    BY <1>0, <1>4 DEF Peek, Pop, HandlersOK, StoreOK
  <2>2. /\ UNCHANGED <<conv, over>> /\ pc[m] \in {"peek", "pop"} /\ pc'[m] \in {"pop", "push"}
        /\ \A n \in Messages \ {m} : pc'[n] = pc[n] /\ popped'[n] = popped[n]
    BY <1>0, <1>4 DEF Peek, Pop, Goto, HandlersOK, GhostsOK, ghosts
  <2>3. \A n \in Messages \ {m} : pc[n] \in {"new", "done"}
    BY <2>2, Alone
  <2>4. popped[m] = <<>>
    BY <2>2 DEF SeqOK
  <2>5. \A d \in Convs : Owing(d) = {} /\ Pending(d) = {} /\ Owing(d)' = {}
    BY <2>2, <2>3 DEF Owing, Pending
  <2>6. \A d \in Convs : Pending(d)' = IF d = c /\ pc'[m] = "push" THEN {m} ELSE {}
    BY <2>1, <2>2, <2>3 DEF Pending
  <2>7. \A d \in Convs \ {c} : hist'[d] = hist[d]
    BY <1>0, <1>4, <2>1 DEF Peek, Pop, Rewrite, StoreOK
  <2>8. ASSUME NEW d \in Convs \ {c} PROVE AbstractLog'[d] = AbstractLog[d]
    BY <2>5, <2>6, <2>7, LogStays
  <2>9. AbstractLog[c] = hist[c]
    BY <2>5, LogSettled
  <2>10. CASE pc'[m] # "push"
    <3>1. hist'[c] = hist[c]
      BY <1>0, <1>4, <2>2, <2>10 DEF Peek, Pop, Goto, HandlersOK
    <3>2. AbstractLog'[c] = AbstractLog[c]
      BY <2>5, <2>6, <2>10, <3>1, LogStays
    <3>3. QED
      BY <2>8, <3>2, LogSame
  <2>11. CASE pc'[m] = "push"
    <3>1. AbstractLog'[c] = hist'[c] \o popped'[m]
      <4>1. Owing(c)' = {} /\ Pending(c)' = {m}
        BY <2>5, <2>6, <2>11
      <4>2. {n \in Messages : pc'[n] = "push" /\ conv'[n] = c} = {m}
        BY <4>1 DEF Pending
      <4>3. (CHOOSE n \in {m} : TRUE) = m
        OBVIOUS
      <4>4. QED
        BY <4>1, <4>2, <4>3 DEF AbstractLog
    <3>2. \/ hist'[c] = hist[c] /\ popped'[m] = popped[m]
          \/ hist[c] # <<>> /\ hist'[c] = Front(hist[c]) /\ popped'[m] = <<Last(hist[c])>>
      BY <1>0, <1>4, <2>1, <2>4 DEF Peek, Pop, Rewrite, StoreOK, GhostsOK, ghosts
    <3>3. hist'[c] \o popped'[m] = hist[c]
      BY <2>1, <2>4, <3>2, EmptyRight, FrontWithLast
    <3>4. AbstractLog'[c] = AbstractLog[c]
      BY <2>9, <3>1, <3>3
    <3>5. QED
      BY <2>8, <3>4, LogSame
  <2>12. QED
    BY <2>10, <2>11
<1>5. ASSUME NEW m \in Messages, Push(m) PROVE Log!Next
  BY <1>5, PushRecords DEF Log!Next
<1>6. ASSUME NEW m \in Messages, Expire(m) PROVE AbstractLog' = AbstractLog
  <2>1. UNCHANGED <<hist, popped, over, conv>> /\ pc[m] = "expire"
    BY <1>0, <1>6 DEF Expire
  <2>2. pc'[m] = (IF over[m] THEN "trim" ELSE "done") /\ \A n \in Messages \ {m} : pc'[n] = pc[n]
    BY <1>0, <1>6 DEF Expire, Goto, HandlersOK
  <2>3. \A c : Owing(c)' = Owing(c) /\ Pending(c)' = Pending(c)
    BY <2>1, <2>2 DEF Owing, Pending
  <2>4. QED
    BY <2>1, <2>3, LogStays, LogSame
<1>7. ASSUME NEW m \in Messages, Trim(m) PROVE AbstractLog' = AbstractLog
  <2>1. PICK c \in Convs : c = conv[m] /\ hist[c] \in Seq(Items)
    BY <1>0, <1>7 DEF Trim, HandlersOK, StoreOK
  <2>2. /\ UNCHANGED <<conv, over, popped>> /\ pc[m] = "trim" /\ pc'[m] = "done"
        /\ \A n \in Messages \ {m} : pc'[n] = pc[n]
    BY <1>0, <1>7 DEF Trim, Goto, HandlersOK
  <2>3. \A n \in Messages \ {m} : pc[n] \in {"new", "done"}
    BY <2>2, Alone
  <2>4. over[m]
    BY <2>2 DEF SeqOK
  <2>5. /\ \A d \in Convs : Owing(d) = (IF d = c THEN {m} ELSE {}) /\ Pending(d) = {}
        /\ \A d \in Convs : Owing(d)' = {} /\ Pending(d)' = {}
    BY <2>1, <2>2, <2>3, <2>4 DEF Owing, Pending
  <2>6. \/ hist[c] # <<>> /\ hist' = [hist EXCEPT ![c] = Tail(hist[c])]
        \/ hist[c] = <<>> /\ UNCHANGED hist
    BY <1>0, <1>7, <2>1 DEF Trim, Rewrite
  <2>7. AbstractLog'[c] = hist'[c]
    BY <2>5 DEF AbstractLog, Pending
  <2>8. AbstractLog[c] = IF hist[c] # <<>> THEN Tail(hist[c]) ELSE <<>>
    BY <2>5, LogTrimmed, LogSettled
  <2>9. AbstractLog'[c] = AbstractLog[c]
    BY <1>0, <2>6, <2>7, <2>8 DEF StoreOK
  <2>10. ASSUME NEW d \in Convs \ {c} PROVE AbstractLog'[d] = AbstractLog[d]
    <3>1. hist'[d] = hist[d]
      BY <1>0, <2>6 DEF StoreOK
    <3>2. QED
      BY <2>5, <3>1, LogStays
  <2>11. QED
    BY <2>9, <2>10, LogSame
<1>8. ASSUME NEW m \in Messages, Crash(m) PROVE FALSE
  BY <1>0, <1>8 DEF Crash
<1>9. ASSUME NEW k \in Keys, ExpireMapping(k) PROVE AbstractLog' = AbstractLog
  BY <1>9 DEF ExpireMapping, handler, AbstractLog, Owing
<1>10. ASSUME NEW c \in Convs, ExpireHistory(c) PROVE Log!Next
  BY <1>10, ExpiryForgets DEF Log!Next
<1>11. CASE UNCHANGED vars
  BY <1>11 DEF vars, handler, ghosts, AbstractLog, Owing
<1>12. QED
  BY <1>2, <1>3, <1>4, <1>5, <1>6, <1>7, <1>8, <1>9, <1>10, <1>11 DEF Next, Handle

(* One handler at a time, without failures: the commands AddHistory sends  *)
(* add up to one step of the abstract log, an append that replaces the     *)
(* answer to a repeated prompt and keeps the newest entries.               *)
THEOREM SequentialIsLog ==
  ASSUME MaxActive = 1, MaxFaults = 0
  PROVE  Spec => ImplementsLog
<1>1. Init => Log!Init
  BY InitLog
<1>2. SeqOK /\ TypeOK /\ [Next]_vars => [Log!Next]_AbstractLog
  BY StepLog
<1>3. SeqOK /\ TypeOK /\ [Next]_vars => SeqOK'
  BY StepSeq
<1>4. QED
  BY <1>1, <1>2, <1>3, InitSeq, ConvoTyped, PTL DEF Spec, ImplementsLog, Log!Spec

-----------------------------------------------------------------------------
(* What every such log keeps to: here the abstract history is just some    *)
(* variable, of which nothing is known but Log!Spec.                       *)

AbstractTyped == AbstractLog \in [Convs -> Seq(Items)]

(* Every entry of the log is one somebody recorded. *)
LEMMA LogTyped == Log!Spec => []AbstractTyped
<1>1. Log!Init => AbstractTyped
  BY DEF Log!Init, AbstractTyped
<1>2. AbstractTyped /\ [Log!Next]_AbstractLog => AbstractTyped'
  <2> SUFFICES ASSUME AbstractTyped, [Log!Next]_AbstractLog PROVE AbstractTyped'
    OBVIOUS
  <2>1. ASSUME NEW c \in Convs, Log!Forget(c) PROVE AbstractTyped'
    BY <2>1 DEF Log!Forget, AbstractTyped
  <2>2. ASSUME NEW c \in Convs, NEW item \in Items, Log!Record(c, item) PROVE AbstractTyped'
    <3>1. Log!Replaced(AbstractLog[c], item) \in Seq(Items)
      BY DEF AbstractTyped, Log!Replaced, Log!SameUser, Log!Front
    <3>2. Log!Newest(Log!Replaced(AbstractLog[c], item)) \in Seq(Items)
      BY <3>1, ConvoAssumption DEF Log!Newest
    <3>3. QED
      BY <2>2, <3>2 DEF Log!Record, AbstractTyped
  <2>3. CASE UNCHANGED AbstractLog
    BY <2>3 DEF AbstractTyped
  <2>4. QED
    BY <2>1, <2>2, <2>3 DEF Log!Next
<1>3. QED
  BY <1>1, <1>2, PTL DEF Log!Spec

(* No log grows beyond MaxLen: one entry is dropped for each one too many. *)
LEMMA LogBounded == Log!Spec => []Log!Bounded
<1>1. Log!Init => Log!Bounded
  BY ConvoAssumption DEF Log!Init, Log!Bounded
<1>2. AbstractTyped /\ Log!Bounded /\ [Log!Next]_AbstractLog => Log!Bounded'
  <2> SUFFICES ASSUME AbstractTyped, Log!Bounded, [Log!Next]_AbstractLog PROVE Log!Bounded'
    OBVIOUS
  <2>1. ASSUME NEW c \in Convs, Log!Forget(c) PROVE Log!Bounded'
    BY <2>1, ConvoAssumption DEF Log!Forget, AbstractTyped, Log!Bounded
  <2>2. ASSUME NEW c \in Convs, NEW item \in Items, Log!Record(c, item) PROVE Log!Bounded'
    <3> DEFINE s == Log!Replaced(AbstractLog[c], item)
    <3>1. s \in Seq(Items) /\ Len(s) <= Len(AbstractLog[c]) + 1
      BY DEF AbstractTyped, Log!Replaced, Log!SameUser, Log!Front
    <3>2. Len(Log!Newest(s)) <= MaxLen
      BY <3>1, ConvoAssumption DEF Log!Newest, Log!Bounded, AbstractTyped
    <3>3. QED
      BY <2>2, <3>2 DEF Log!Record, AbstractTyped, Log!Bounded
  <2>3. CASE UNCHANGED AbstractLog
    BY <2>3 DEF Log!Bounded
  <2>4. QED
    BY <2>1, <2>2, <2>3 DEF Log!Next
<1>3. QED
  BY <1>1, <1>2, LogTyped, PTL DEF Log!Spec

(* Two neighbouring entries of a log answer different prompts. *)
LEMMA LogNewestAnswerOnly == Log!Spec => []Log!NewestAnswerOnly
<1>1. Log!Init => Log!NewestAnswerOnly
  BY DEF Log!Init, Log!NewestAnswerOnly
<1>2. AbstractTyped /\ Log!NewestAnswerOnly /\ [Log!Next]_AbstractLog => Log!NewestAnswerOnly'
  <2> SUFFICES ASSUME AbstractTyped, Log!NewestAnswerOnly, [Log!Next]_AbstractLog PROVE Log!NewestAnswerOnly'
    OBVIOUS
  <2>1. ASSUME NEW c \in Convs, Log!Forget(c) PROVE Log!NewestAnswerOnly'
    BY <2>1 DEF Log!Forget, AbstractTyped, Log!NewestAnswerOnly
  <2>2. ASSUME NEW c \in Convs, NEW item \in Items, Log!Record(c, item)
        PROVE Log!NewestAnswerOnly'
    <3> DEFINE kept == IF Log!SameUser(AbstractLog[c], item.user) THEN Log!Front(AbstractLog[c]) ELSE AbstractLog[c]
               s == Log!Replaced(AbstractLog[c], item)
               Distinct(t) == \A i \in 1..(Len(t) - 1) : t[i].user # t[i + 1].user
    <3>1. kept \in Seq(Items) /\ Distinct(kept)
      BY DEF AbstractTyped, Log!NewestAnswerOnly, Log!SameUser, Log!Front
    <3>2. kept # <<>> => Log!Last(kept).user # item.user
      BY DEF AbstractTyped, Log!NewestAnswerOnly, Log!SameUser, Log!Front, Log!Last
    <3>3. s = Append(kept, item)
      BY DEF Log!Replaced
    <3>4. s \in Seq(Items) /\ Distinct(s)
      <4> HIDE DEF kept, s
      <4>1. /\ s \in Seq(Items)
            /\ Len(s) = Len(kept) + 1
            /\ s[Len(kept) + 1] = item
            /\ \A i \in 1..Len(kept) : s[i] = kept[i]
        BY <3>1, <3>3
      <4>2. ASSUME NEW i \in 1..(Len(s) - 1) PROVE s[i].user # s[i + 1].user
        <5>1. CASE i = Len(kept)
          BY <3>1, <3>2, <4>1, <5>1 DEF Log!Last
        <5>2. CASE i < Len(kept)
          BY <3>1, <4>1, <5>2
        <5>3. QED
          BY <3>1, <4>1, <5>1, <5>2
      <4>3. QED
        BY <4>1, <4>2
    <3>5. Distinct(Log!Newest(s))
      BY <3>4, ConvoAssumption DEF Log!Newest
    <3>6. AbstractLog' = [AbstractLog EXCEPT ![c] = Log!Newest(s)]
      BY <2>2 DEF Log!Record
    <3>7. QED
      BY <3>5, <3>6 DEF AbstractTyped, Log!NewestAnswerOnly
  <2>3. CASE UNCHANGED AbstractLog
    BY <2>3 DEF Log!NewestAnswerOnly
  <2>4. QED
    BY <2>1, <2>2, <2>3 DEF Log!Next
<1>3. QED
  BY <1>1, <1>2, LogTyped, PTL DEF Log!Spec

(* So such histories are never too long once an AddHistory has returned,   *)
(* and two neighbouring entries never answer the same prompt.              *)
THEOREM SequentialKeepsLog ==
  ASSUME MaxActive = 1, MaxFaults = 0
  PROVE  Spec => [](Log!Bounded /\ Log!NewestAnswerOnly)
BY SequentialIsLog, LogBounded, LogNewestAnswerOnly, PTL DEF ImplementsLog
=============================================================================
