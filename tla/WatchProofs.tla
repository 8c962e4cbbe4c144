------------------------------ MODULE WatchProofs ------------------------------
(***************************************************************************)
(* Proofs about watches, for any number of states, of failures and of      *)
(* pushes on their way, with and without a Resync.                         *)
(***************************************************************************)
EXTENDS Watch, SequenceTheorems, TLAPS

------------------------------------------------------------------------------
(* The inductive invariant.  That a watch that waits has not missed a push *)
(* rests on where the last push is: in the state it holds, or on its way.  *)

Types ==
  /\ current \in Nat /\ oldest \in Nat /\ state \in 1..current
  /\ stream \in {"none", "open", "lost"} /\ inbox \in Seq(Nat)
  /\ pushed \in 0..current /\ streamID \in 0..current /\ lastEventID \in 0..current
  /\ answer \in [err : {"none", TooOld, Failed}, state : Nat, more : BOOLEAN]

(* Nothing is pushed before the server has come to it.                     *)
PushesReached == \A i \in 1..Len(inbox) : inbox[i] <= current

(* What an answer reports is between the state held and the server's, or   *)
(* it is nothing.                                                          *)
AnswersForward ==
  pc \in {"caught", "resyncing"} /\ answer.err = "none" =>
    \/ pc = "caught" /\ answer.state = None
    \/ state <= answer.state /\ answer.state <= current

OnItsWay == \E i \in 1..Len(inbox) : inbox[i] = pushed

(* The last push of an open stream is no newer than the state held, or     *)
(* about to be, or Next has yet to return it.                              *)
PushKept ==
  stream = "open" =>
    /\ pc = "waiting" => pushed <= state \/ OnItsWay
    /\ pc = "caught" /\ answer.err = "none" /\ ~answer.more =>
         \/ pushed <= (IF answer.state = None THEN state ELSE answer.state)
         \/ OnItsWay

IInv ==
  /\ Types
  /\ PushesReached
  /\ AnswersForward
  /\ PushKept

------------------------------------------------------------------------------

LEMMA NoneIsZero == None = 0 /\ TooOld = "cannotCalculateChanges" /\ Failed = "failed"
  BY DEF None, TooOld, Failed

(* The state held only moves forward, and never past the server's.         *)
Forward == current \in Nat /\ current' \in Nat /\ current <= current' /\ state' \in state..current'

(* A push that has just been sent is on its way.                           *)
LEMMA Sent ==
  ASSUME NEW q \in Seq(Nat), NEW n \in Nat
  PROVE  /\ Append(q, n) \in Seq(Nat) /\ Len(Append(q, n)) = Len(q) + 1
         /\ \A i \in 1..Len(q) : Append(q, n)[i] = q[i]
         /\ Append(q, n)[Len(q) + 1] = n
  OBVIOUS

(* What a cut stream has left is the beginning of what it had.             *)
LEMMA CutLeaves ==
  ASSUME Types, PushesReached, Cut, current' = current
  PROVE  inbox' \in Seq(Nat) /\ PushesReached' /\ stream' = "lost"
<1>1. PICK n \in 0..Len(inbox) : inbox' = SubSeq(inbox, 1, n)
  BY DEF Cut
<1>2. inbox \in Seq(Nat) /\ n \in Int /\ \A i \in 1..n : inbox[i] \in Nat
  BY DEF Types
<1>3. inbox' \in Seq(Nat) /\ Len(inbox') = n /\ \A i \in 1..n : inbox'[i] = inbox[i]
  BY <1>1, <1>2, SubSeqProperties
<1>4. PushesReached'
  BY <1>1, <1>2, <1>3 DEF PushesReached
<1> QED BY <1>3, <1>4 DEF Cut

(* What is left of the pushes once the first is returned.                  *)
LEMMA Returned ==
  ASSUME NEW q \in Seq(Nat), q # <<>>
  PROVE  /\ Tail(q) \in Seq(Nat) /\ Len(Tail(q)) = Len(q) - 1 /\ Len(q) \in Nat \ {0}
         /\ Head(q) = q[1]
         /\ \A i \in 1..(Len(q) - 1) : Tail(q)[i] = q[i + 1]
  OBVIOUS

(* The connection ends with nothing on it, or a new one begins.            *)
LEMMA NothingOnIt ==
  ASSUME inbox' = <<>>
  PROVE  inbox' \in Seq(Nat) /\ PushesReached'
  BY DEF PushesReached

LEMMA InitInv == Init => IInv
<1> SUFFICES ASSUME Init PROVE IInv
  OBVIOUS
<1>1. current \in Nat /\ oldest \in Nat
  BY BoundsAssumption DEF Init
<1>2. Types
  BY <1>1, NoneIsZero DEF Init, Types, NoAnswer, Error
<1> QED BY <1>2 DEF IInv, Init, PushesReached, AnswersForward, PushKept

------------------------------------------------------------------------------
\* The server and the connection.

LEMMA ServerInv ==
  ASSUME IInv, ServerChanges \/ ServerForgets
  PROVE  IInv' /\ Forward
<1>1. /\ current' \in Nat /\ current <= current' /\ oldest' \in Nat
      /\ UNCHANGED <<connection, lastEventID, state, answer, pc>>
  BY DEF ServerChanges, ServerForgets, IInv, Types
<1>2. Types'
  BY <1>1 DEF connection, IInv, Types
<1>3. PushesReached'
  BY <1>1 DEF connection, IInv, Types, PushesReached
<1>4. AnswersForward'
  BY <1>1 DEF IInv, Types, AnswersForward
<1>5. PushKept'
  BY <1>1 DEF connection, IInv, PushKept, OnItsWay
<1>6. Forward
  BY <1>1 DEF Forward, IInv, Types
<1> QED BY <1>2, <1>3, <1>4, <1>5, <1>6 DEF IInv

LEMMA PushesInv ==
  ASSUME IInv, ServerPushes \/ ServerPushesOther
  PROVE  IInv' /\ Forward
<1> DEFINE p == IF ServerPushes THEN current ELSE None
<1>1. /\ UNCHANGED <<server, stream, streamID, lastEventID, state, answer, pc>>
      /\ inbox \in Seq(Nat) /\ current \in Nat /\ pushed \in 0..current
  BY DEF ServerPushes, ServerPushesOther, IInv, Types
<1>2. /\ p \in Nat /\ p <= current
      /\ inbox' = Append(inbox, p)
      /\ pushed' = p \/ pushed' = pushed
      /\ pushed' \in 0..current
  BY <1>1, NoneIsZero DEF ServerPushes, ServerPushesOther
<1> HIDE DEF p
<1>3. /\ inbox' \in Seq(Nat) /\ Len(inbox') = Len(inbox) + 1 /\ Len(inbox) \in Nat
      /\ \A i \in 1..Len(inbox) : inbox'[i] = inbox[i]
      /\ inbox'[Len(inbox) + 1] = p
  BY <1>1, <1>2, Sent
<1>4. Types'
  BY <1>1, <1>2, <1>3 DEF server, IInv, Types
<1>5. PushesReached'
  <2> SUFFICES ASSUME NEW i \in 1..Len(inbox') PROVE inbox'[i] <= current'
    BY DEF PushesReached
  <2>1. CASE i = Len(inbox) + 1
    BY <2>1, <1>1, <1>2, <1>3 DEF server
  <2>2. CASE i # Len(inbox) + 1
    <3>1. i \in 1..Len(inbox)
      BY <2>2, <1>3
    <3> QED BY <3>1, <1>1, <1>3 DEF server, IInv, PushesReached
  <2> QED BY <2>1, <2>2
<1>6. AnswersForward'
  BY <1>1 DEF server, IInv, AnswersForward
<1>7. pushed' = pushed /\ OnItsWay => OnItsWay'
  <2> SUFFICES ASSUME pushed' = pushed, OnItsWay PROVE OnItsWay'
    OBVIOUS
  <2>1. PICK i \in 1..Len(inbox) : inbox[i] = pushed
    BY DEF OnItsWay
  <2>2. i \in 1..Len(inbox') /\ inbox'[i] = pushed'
    BY <2>1, <1>3
  <2> QED BY <2>2 DEF OnItsWay
<1>8. pushed' = p => OnItsWay'
  <2>1. Len(inbox) + 1 \in 1..Len(inbox')
    BY <1>3
  <2> QED BY <2>1, <1>3 DEF OnItsWay
<1>9. PushKept'
  BY <1>1, <1>2, <1>7, <1>8 DEF IInv, PushKept
<1>10. Forward
  BY <1>1 DEF server, Forward, IInv, Types
<1> QED BY <1>4, <1>5, <1>6, <1>9, <1>10 DEF IInv

(* A stream that is cut is not open, and nothing is promised of its pushes. *)
LEMMA EndsInv ==
  ASSUME IInv, Drops \/ ContextEnds
  PROVE  IInv' /\ Forward
<1>1. /\ UNCHANGED <<server, pushed, streamID, lastEventID, state, answer, pc>>
      /\ Cut \/ (UNCHANGED <<stream, inbox>>)
  BY DEF Drops, ContextEnds
<1>2. current' = current /\ current \in Nat
  BY <1>1 DEF server, IInv, Types
<1>3. CASE Cut
  <2>1. inbox' \in Seq(Nat) /\ PushesReached' /\ stream' = "lost"
    BY <1>2, <1>3, CutLeaves DEF IInv
  <2>2. Types'
    BY <1>1, <2>1 DEF server, IInv, Types
  <2>3. AnswersForward' /\ PushKept'
    BY <1>1, <2>1 DEF server, IInv, AnswersForward, PushKept
  <2> QED BY <1>1, <1>2, <2>1, <2>2, <2>3 DEF IInv, Types, Forward
<1>4. CASE UNCHANGED <<stream, inbox>>
  BY <1>1, <1>2, <1>4 DEF server, IInv, Types, PushesReached, AnswersForward, PushKept, OnItsWay, Forward
<1> QED BY <1>1, <1>3, <1>4

------------------------------------------------------------------------------
\* The watch.

(* A step that neither catches up nor waits promises nothing of the pushes. *)
LEMMA ElsewhereInv ==
  ASSUME IInv, UNCHANGED <<server, state>>,
         pc' \in {"connecting", "pausing", "catching", "returned"},
         stream' \in {"none", "open", "lost"}, inbox' \in Seq(Nat), PushesReached',
         pushed' \in 0..current, streamID' \in 0..current, lastEventID' \in 0..current,
         answer' \in [err : {"none", TooOld, Failed}, state : Nat, more : BOOLEAN]
  PROVE  IInv' /\ Forward
<1>1. Types'
  BY DEF server, IInv, Types
<1> QED BY <1>1 DEF server, IInv, Types, AnswersForward, PushKept, Forward

LEMMA NoAnswerTyped == NoAnswer \in [err : {"none", TooOld, Failed}, state : Nat, more : BOOLEAN]
  BY NoneIsZero DEF NoAnswer, Error

LEMMA ConnectsInv ==
  ASSUME IInv, EventSourceFails \/ EventSourceRefused \/ EventSourceOpens \/ Wait
  PROVE  IInv' /\ Forward
<1>1. CASE EventSourceFails \/ EventSourceRefused \/ Wait
  <2>1. /\ UNCHANGED <<server, connection, lastEventID, state, answer>>
        /\ pc' \in {"connecting", "pausing", "returned"}
    BY <1>1 DEF EventSourceFails, EventSourceRefused, Wait, Return, Goto
  <2>2. PushesReached'
    BY <2>1 DEF server, connection, IInv, PushesReached
  <2> QED BY <2>1, <2>2, ElsewhereInv DEF connection, IInv, Types
<1>2. CASE EventSourceOpens
  <2>1. /\ UNCHANGED <<server, lastEventID, state, answer>>
        /\ pc' = "catching" /\ stream' = "open" /\ inbox' = <<>>
        /\ pushed' \in {lastEventID, current} /\ streamID' = lastEventID
    BY <1>2 DEF EventSourceOpens, Connect, Goto
  <2>2. pushed' \in 0..current /\ streamID' \in 0..current
    BY <2>1 DEF IInv, Types
  <2> QED BY <2>1, <2>2, NothingOnIt, ElsewhereInv DEF IInv, Types
<1> QED BY <1>1, <1>2

(* What the server answers is no older than the state held, and it is the  *)
(* server's own where it says there is no more.                            *)
LEMMA AnswersReported ==
  ASSUME Types, NEW a \in Answers \cup {Error(Failed)}
  PROVE  /\ a \in [err : {"none", TooOld, Failed}, state : Nat, more : BOOLEAN]
         /\ a.err = "none" =>
              /\ a.state = None \/ (state <= a.state /\ a.state <= current)
              /\ ~a.more => current <= (IF a.state = None THEN state ELSE a.state)
<1>1. current \in Nat /\ state \in 1..current
  BY DEF Types
<1>2. CASE a = Error(TooOld) \/ a = Error(Failed)
  <2>1. PICK why \in {TooOld, Failed} : a = [err |-> why, state |-> None, more |-> FALSE]
    BY <1>2 DEF Error
  <2>2. a.err = why /\ why # "none"
    BY <2>1, NoneIsZero
  <2>3. a \in [err : {"none", TooOld, Failed}, state : Nat, more : BOOLEAN]
    BY <2>1, NoneIsZero
  <2> QED BY <2>2, <2>3
<1>3. ASSUME NEW s \in Nat, NEW m \in BOOLEAN, a = Report(s, m),
             s = None \/ (state <= s /\ s <= current), m = FALSE => current <= (IF s = None THEN state ELSE s)
      PROVE  /\ a \in [err : {"none", TooOld, Failed}, state : Nat, more : BOOLEAN]
             /\ a.state = None \/ (state <= a.state /\ a.state <= current)
             /\ ~a.more => current <= (IF a.state = None THEN state ELSE a.state)
  <2>1. a = [err |-> "none", state |-> s, more |-> m]
    BY <1>3 DEF Report
  <2>2. a.state = s /\ a.more = m
    BY <2>1
  <2>3. a \in [err : {"none", TooOld, Failed}, state : Nat, more : BOOLEAN]
    BY <2>1
  <2>4. ~a.more => m = FALSE
    BY <2>2
  <2>5. ~a.more => current <= (IF a.state = None THEN state ELSE a.state)
    BY <1>3, <2>2, <2>4
  <2>6. a.state = None \/ (state <= a.state /\ a.state <= current)
    BY <1>3, <2>2
  <2> QED BY <2>3, <2>5, <2>6
<1>4. CASE \E s \in (state + 1)..current : a = Report(s, s < current)
  <2>1. PICK s \in (state + 1)..current : a = Report(s, s < current)
    BY <1>4
  <2> DEFINE m == s < current
  <2>2. s \in Nat /\ state <= s /\ s <= current /\ s # None
    BY <1>1, NoneIsZero
  <2>3. m \in BOOLEAN /\ (m = FALSE => current <= s)
    BY <1>1
  <2>4. a = Report(s, m)
    BY <2>1
  <2> HIDE DEF m
  <2> QED BY <1>3, <2>2, <2>3, <2>4
<1>5. CASE state = current /\ (a = Report(state, FALSE) \/ a = Report(None, FALSE))
  <2>1. PICK s \in {state, None} : a = Report(s, FALSE)
    BY <1>5
  <2>2. s \in Nat /\ (s = None \/ (state <= s /\ s <= current)) /\ current <= (IF s = None THEN state ELSE s)
    BY <1>1, <1>5, <2>1, NoneIsZero
  <2> QED BY <1>3, <2>1, <2>2
<1> QED
  <2>1. a = Error(Failed) \/ a \in Answers
    OBVIOUS
  <2>2. ASSUME a \in Answers, forgetful \/ state < oldest PROVE a = Error(TooOld)
    BY <2>2 DEF Answers
  <2>3. ASSUME a \in Answers, ~(forgetful \/ state < oldest)
        PROVE  \/ \E s \in (state + 1)..current : a = Report(s, s < current)
               \/ state = current /\ (a = Report(state, FALSE) \/ a = Report(None, FALSE))
    BY <2>3 DEF Answers
  <2> QED BY <1>2, <1>4, <1>5, <2>1, <2>2, <2>3

LEMMA CatchUpInv == ASSUME IInv, CatchUp PROVE IInv' /\ Forward
<1>1. /\ answer' \in Answers \cup {Error(Failed)}
      /\ UNCHANGED <<server, connection, lastEventID, state>> /\ pc' = "caught"
  BY DEF CatchUp, Goto
<1>2. /\ answer' \in [err : {"none", TooOld, Failed}, state : Nat, more : BOOLEAN]
      /\ answer'.err = "none" =>
           /\ answer'.state = None \/ (state <= answer'.state /\ answer'.state <= current)
           /\ ~answer'.more => current <= (IF answer'.state = None THEN state ELSE answer'.state)
  BY <1>1, AnswersReported DEF IInv
<1>3. Types'
  BY <1>1, <1>2 DEF server, connection, IInv, Types
<1>4. PushesReached'
  BY <1>1 DEF server, connection, IInv, PushesReached
<1>5. AnswersForward'
  BY <1>1, <1>2 DEF server, AnswersForward
<1>6. answer'.err = "none" /\ ~answer'.more => pushed' <= (IF answer'.state = None THEN state' ELSE answer'.state)
  <2>1. pushed \in 0..current /\ current \in Nat /\ state \in Nat /\ pushed' = pushed /\ state' = state
    BY <1>1 DEF connection, IInv, Types
  <2>2. answer'.state \in Nat
    BY <1>2
  <2> QED BY <1>2, <2>1, <2>2
<1>7. PushKept'
  BY <1>1, <1>6 DEF PushKept
<1>8. Forward
  BY <1>1 DEF server, Forward, IInv, Types
<1> QED BY <1>3, <1>4, <1>5, <1>7, <1>8 DEF IInv

(* The state settle takes is the one answered, or the one it had.          *)
LEMMA SettleInv == ASSUME IInv, Settle PROVE IInv' /\ Forward
<1>1. /\ pc = "caught" /\ answer.err = "none"
      /\ state' = IF answer.state # None THEN answer.state ELSE state
      /\ pc' = IF answer.more THEN "catching" ELSE "waiting"
      /\ answer' = NoAnswer
      /\ UNCHANGED <<server, connection, lastEventID>>
  BY DEF Settle, Goto
<1>2. state \in 1..current /\ current \in Nat /\ answer.state \in Nat
  BY DEF IInv, Types
<1>3. state' \in 1..current /\ state <= state'
  BY <1>1, <1>2 DEF IInv, AnswersForward
<1>4. Types'
  BY <1>1, <1>3, NoAnswerTyped DEF server, connection, IInv, Types
<1>5. PushesReached'
  BY <1>1 DEF server, connection, IInv, PushesReached
<1>6. AnswersForward'
  BY <1>1 DEF AnswersForward
<1>7. stream = "open" /\ ~answer.more => pushed <= state' \/ OnItsWay
  BY <1>1 DEF IInv, PushKept
<1>8. PushKept'
  BY <1>1, <1>7 DEF connection, PushKept, OnItsWay
<1>9. Forward
  BY <1>1, <1>2, <1>3 DEF server, Forward
<1> QED BY <1>4, <1>5, <1>6, <1>8, <1>9 DEF IInv

LEMMA SettleFailsInv ==
  ASSUME IInv, SettleFails \/ ResyncFails
  PROVE  IInv' /\ Forward
<1>1. /\ stream' = "none" /\ inbox' = <<>> /\ pc' = "returned" /\ answer' = NoAnswer
      /\ UNCHANGED <<server, pushed, streamID, lastEventID, state>>
  BY DEF SettleFails, ResyncFails, CloseStream, Return
<1> QED BY <1>1, NothingOnIt, NoAnswerTyped, ElsewhereInv DEF IInv, Types

LEMMA ResyncInv == ASSUME IInv, Resync PROVE IInv' /\ Forward
<1>1. /\ answer' \in {Report(current, TRUE), Error(Failed)} /\ pc' = "resyncing"
      /\ UNCHANGED <<server, connection, lastEventID, state>>
  BY DEF Resync, Goto
<1>2. current \in Nat /\ state \in 1..current
  BY DEF IInv, Types
<1>3. /\ answer' \in [err : {"none", TooOld, Failed}, state : Nat, more : BOOLEAN]
      /\ answer'.err = "none" => state <= answer'.state /\ answer'.state <= current
  <2>1. CASE answer' = Report(current, TRUE)
    <3>1. answer' = [err |-> "none", state |-> current, more |-> TRUE]
      BY <2>1 DEF Report
    <3>2. answer'.state = current
      BY <3>1
    <3> QED BY <1>2, <3>1, <3>2
  <2>2. CASE answer' = Error(Failed)
    <3>1. answer' = [err |-> "failed", state |-> 0, more |-> FALSE]
      BY <2>2, NoneIsZero DEF Error
    <3>2. answer'.err # "none"
      BY <3>1
    <3> QED BY <3>1, <3>2, NoneIsZero
  <2> QED BY <1>1, <2>1, <2>2
<1>4. Types'
  BY <1>1, <1>3 DEF server, connection, IInv, Types
<1>5. PushesReached' /\ AnswersForward' /\ PushKept'
  BY <1>1, <1>3 DEF server, connection, IInv, PushesReached, AnswersForward, PushKept
<1> QED BY <1>1, <1>2, <1>4, <1>5 DEF server, IInv, Forward

LEMMA ResyncDoneInv == ASSUME IInv, ResyncDone PROVE IInv' /\ Forward
<1>1. /\ pc = "resyncing" /\ answer.err = "none" /\ state' = answer.state
      /\ pc' = "catching" /\ answer' = NoAnswer
      /\ UNCHANGED <<server, connection, lastEventID>>
  BY DEF ResyncDone, Goto
<1>2. state \in 1..current /\ current \in Nat /\ answer.state \in Nat
  BY DEF IInv, Types
<1>3. state' \in 1..current /\ state <= state'
  BY <1>1, <1>2 DEF IInv, AnswersForward
<1>4. Types'
  BY <1>1, <1>3, NoAnswerTyped DEF server, connection, IInv, Types
<1>5. PushesReached' /\ AnswersForward' /\ PushKept'
  BY <1>1 DEF server, connection, IInv, PushesReached, AnswersForward, PushKept
<1> QED BY <1>1, <1>2, <1>3, <1>4, <1>5 DEF server, IInv, Forward

(* A push that is passed over is not the last one, or tells of the state   *)
(* held.                                                                   *)
LEMMA NextReturnsInv == ASSUME IInv, NextReturns PROVE IInv' /\ Forward
<1>1. /\ pc = "waiting" /\ inbox # <<>> /\ inbox' = Tail(inbox)
      /\ streamID' = IF Head(inbox) # None THEN Head(inbox) ELSE streamID
      /\ UNCHANGED <<server, stream, pushed, lastEventID, state, answer>>
      /\ \/ Head(inbox) \in {None, state} /\ pc' = "waiting"
         \/ pc' = "catching"
  BY DEF NextReturns, Goto
<1>2. inbox \in Seq(Nat) /\ current \in Nat /\ state \in 1..current /\ pushed \in 0..current
  BY DEF IInv, Types
<1>3. /\ inbox' \in Seq(Nat) /\ Len(inbox') = Len(inbox) - 1 /\ Len(inbox) \in Nat \ {0}
      /\ Head(inbox) = inbox[1]
      /\ \A i \in 1..(Len(inbox) - 1) : inbox'[i] = inbox[i + 1]
  BY <1>1, <1>2, Returned
<1>4. inbox[1] \in 0..current
  BY <1>2, <1>3 DEF IInv, PushesReached
<1>5. streamID' \in 0..current
  BY <1>1, <1>3, <1>4 DEF IInv, Types
<1>6. PushesReached'
  <2> SUFFICES ASSUME NEW i \in 1..Len(inbox') PROVE inbox'[i] <= current'
    BY DEF PushesReached
  <2>1. i + 1 \in 1..Len(inbox) /\ inbox'[i] = inbox[i + 1]
    BY <1>3
  <2> QED BY <2>1, <1>1 DEF server, IInv, PushesReached
<1>7. CASE pc' = "catching"
  BY <1>1, <1>3, <1>5, <1>6, <1>7, ElsewhereInv DEF IInv, Types
<1>8. CASE Head(inbox) \in {None, state} /\ pc' = "waiting"
  <2>1. Types'
    BY <1>1, <1>3, <1>5 DEF server, IInv, Types
  <2>2. AnswersForward'
    BY <1>8 DEF AnswersForward
  <2>3. ASSUME OnItsWay PROVE pushed <= state \/ OnItsWay'
    <3>1. PICK i \in 1..Len(inbox) : inbox[i] = pushed
      BY <2>3 DEF OnItsWay
    <3>2. CASE i = 1
      BY <1>2, <1>3, <1>8, <3>1, <3>2, NoneIsZero
    <3>3. CASE i # 1
      <4>1. i - 1 \in 1..Len(inbox') /\ inbox'[i - 1] = inbox[(i - 1) + 1] /\ (i - 1) + 1 = i
        BY <1>3, <3>3
      <4> QED BY <1>1, <3>1, <4>1 DEF OnItsWay
    <3> QED BY <3>2, <3>3
  <2>4. PushKept'
    BY <1>1, <1>8, <2>3 DEF IInv, PushKept
  <2> QED BY <1>1, <1>2, <1>6, <2>1, <2>2, <2>4 DEF server, IInv, Forward
<1> QED BY <1>1, <1>7, <1>8

LEMMA NextFailsInv == ASSUME IInv, NextFails PROVE IInv' /\ Forward
<1>1. /\ lastEventID' = streamID /\ stream' = "none" /\ inbox' = <<>>
      /\ pc' \in {"returned", "pausing"}
      /\ UNCHANGED <<server, pushed, streamID, state, answer>>
  BY DEF NextFails, CloseStream, Return, Goto
<1> QED BY <1>1, NothingOnIt, ElsewhereInv DEF IInv, Types

LEMMA NextInv == IInv /\ [Next]_vars => IInv'
<1> SUFFICES ASSUME IInv, [Next]_vars PROVE IInv'
  OBVIOUS
<1>1. CASE UNCHANGED vars
  BY <1>1 DEF vars, server, connection, IInv, Types, PushesReached, AnswersForward, PushKept, OnItsWay
<1>2. CASE Next
  BY <1>2, ServerInv, PushesInv, EndsInv, ConnectsInv, CatchUpInv, SettleInv, SettleFailsInv, ResyncInv,
     ResyncDoneInv, NextReturnsInv, NextFailsInv DEF Next
<1> QED BY <1>1, <1>2

(* So all of it holds of every reachable state.                           *)
LEMMA Invariant == Spec => []IInv
<1> QED BY InitInv, NextInv, PTL DEF Spec

------------------------------------------------------------------------------

(* A watch that waits on an open stream with no push on its way holds the  *)
(* server's state: no change slips between a catch-up and the pushes.      *)
THEOREM NothingSlips == Spec => []CaughtUp
<1>1. IInv => CaughtUp
  BY DEF IInv, Types, PushKept, OnItsWay, CaughtUp
<1> QED BY <1>1, Invariant, PTL

------------------------------------------------------------------------------
\* A watch is a follower.

LEMMA InitFollows == Init => Follows!FollowerInit
  BY BoundsAssumption DEF Init, Follows!FollowerInit

(* What a step is to the follower: the server changes, the watch moves     *)
(* forward or returns, or nothing that is promised changes.                *)
LEMMA Seen ==
  ASSUME IInv, Next
  PROVE  \/ current < MaxState /\ current' = current + 1 /\ UNCHANGED <<state, pc>>
         \/ current' = current /\ pc # "returned" /\ pc' # "returned" /\ state' \in state..current
         \/ UNCHANGED <<current, state>> /\ pc # "returned" /\ pc' = "returned"
         \/ UNCHANGED <<current, state, pc>>
<1> USE DEF Next, server, connection, Goto, Return
<1>1. CASE ServerChanges
  BY <1>1 DEF ServerChanges
<1>2. CASE ServerForgets \/ ServerPushes \/ ServerPushesOther \/ Drops \/ ContextEnds
  BY <1>2 DEF ServerForgets, ServerPushes, ServerPushesOther, Drops, ContextEnds
<1>3. CASE EventSourceFails \/ EventSourceRefused \/ EventSourceOpens \/ Wait
  BY <1>3 DEF EventSourceFails, EventSourceRefused, EventSourceOpens, Wait, IInv, Types
<1>4. CASE CatchUp \/ Resync
  <2>1. /\ current' = current /\ state' = state
        /\ pc # "returned" /\ pc' # "returned"
    BY <1>4 DEF CatchUp, Resync
  <2> QED BY <2>1 DEF IInv, Types
<1>5. CASE Settle
  <2>1. Forward
    BY <1>5, SettleInv
  <2> QED BY <1>5, <2>1 DEF Settle, Forward
<1>6. CASE ResyncDone
  <2>1. Forward
    BY <1>6, ResyncDoneInv
  <2> QED BY <1>6, <2>1 DEF ResyncDone, Forward
<1>7. CASE SettleFails \/ ResyncFails
  BY <1>7 DEF SettleFails, ResyncFails
<1>8. CASE NextReturns \/ NextFails
  BY <1>8 DEF NextReturns, NextFails, IInv, Types
<1> QED BY <1>1, <1>2, <1>3, <1>4, <1>5, <1>6, <1>7, <1>8

LEMMA StepFollows ==
  IInv /\ [Next]_vars => [Follows!FollowerNext]_<<current, state, pc = "returned">>
<1> SUFFICES ASSUME IInv, [Next]_vars
             PROVE  [Follows!FollowerNext]_<<current, state, pc = "returned">>
  OBVIOUS
<1>1. CASE UNCHANGED vars
  BY <1>1 DEF vars, server
<1>2. CASE Next
  <2>1. current \in Nat /\ state \in 1..current
    BY DEF IInv, Types
  <2>2. CASE current < MaxState /\ current' = current + 1 /\ UNCHANGED <<state, pc>>
    BY <2>2 DEF Follows!FollowerNext, Follows!Change
  <2>3. CASE current' = current /\ pc # "returned" /\ pc' # "returned" /\ state' \in state..current
    <3>1. state' = state \/ state' \in (state + 1)..current
      BY <2>1, <2>3
    <3>2. (pc = "returned") = FALSE /\ (pc' = "returned") = FALSE
      BY <2>3
    <3> QED BY <2>3, <3>1, <3>2 DEF Follows!FollowerNext, Follows!Follow
  <2>4. CASE UNCHANGED <<current, state>> /\ pc # "returned" /\ pc' = "returned"
    BY <2>4 DEF Follows!FollowerNext, Follows!Stop
  <2>5. CASE UNCHANGED <<current, state, pc>>
    BY <2>5
  <2> QED BY <1>2, <2>2, <2>3, <2>4, <2>5, Seen
<1> QED BY <1>1, <1>2

(* A watch implements the follower: it moves only forward, to states the   *)
(* server has reached, and no more once it has returned.                   *)
THEOREM WatchFollows == Spec => IsFollower
<1> QED BY InitFollows, StepFollows, Invariant, PTL DEF Spec, IsFollower, Follows!FollowerSpec

==============================================================================
