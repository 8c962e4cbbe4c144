----------------------------- MODULE SenderProofs -----------------------------
(***************************************************************************)
(* Proofs about the requests that share a token: for any set of requests,  *)
(* number of attempts, number of revocations, and faults of the source.    *)
(***************************************************************************)
EXTENDS Sender, TLAPS

------------------------------------------------------------------------------
(* The inductive invariant.                                                *)

Types ==
  /\ rewindable \subseteq Requests
  /\ good \in Nat \ {0} /\ held \in Nat
  /\ fetching \in Requests \cup {NoRequest}
  /\ pc \in [Requests -> PC] /\ outcome \in [Requests -> Outcomes]
  /\ got \in [Requests -> Int] /\ sent \in [Requests -> Nat]
  /\ tokensLeft \in [Requests -> {0, 1}] /\ carried \in [Requests -> {0, 1}]

(* A call of the source is the one request's that is making it, and is     *)
(* made only where no token may be used.                                   *)
OneCall ==
  /\ \A r \in Requests : pc[r] \in {"calling", "answered"} <=> fetching = r
  /\ fetching # NoRequest => ~Valid

(* A token r has, on itself or about to be.                                *)
Has(r, t) == sent[r] = t \/ (pc[r] = "closing" /\ got[r] = t)

(* No token is newer than the one the server accepts, and who has that one *)
(* has it from the holder, which still holds it.                           *)
GoodIsHeld ==
  /\ held <= good
  /\ \A r \in Requests : /\ sent[r] <= good /\ got[r] <= good
                         /\ Has(r, good) => Valid /\ held = good

(* What the source has returned and the holder does not hold yet is newer  *)
(* than any token a request has.                                           *)
AnswerIsNewer ==
  \A r, q \in Requests : \A t \in Nat :
    pc[r] = "answered" /\ got[r] > 0 /\ Has(q, t) => t < got[r]

(* And what the holder holds is no older than any.                         *)
HeldIsNewest ==
  \A q \in Requests : \A t \in Nat : held # NoToken /\ Has(q, t) => t <= held

(* Where a request has been refused the one time it is sent again, there   *)
(* is no longer a first token about.                                       *)
AfterRefusal ==
  \A r \in rewindable : tokensLeft[r] = 0 =>
    /\ sent[r] >= 1
    /\ held # 1
    /\ pc[r] = "closing" => got[r] # 1
    /\ pc[r] = "sending" => sent[r] >= 2

SentAToken == \A r \in Requests : pc[r] = "sending" => sent[r] >= 1

CarriedAtTheEnd == \A r \in Requests : carried[r] = 1 => pc[r] = "done"

IInv ==
  /\ Types /\ OneCall /\ GoodIsHeld /\ AnswerIsNewer /\ HeldIsNewest
  /\ AfterRefusal /\ SentAToken /\ CarriedAtTheEnd /\ OneRevocationSurvived

------------------------------------------------------------------------------

LEMMA InitInv == Init => IInv
<1> SUFFICES ASSUME Init PROVE IInv
  OBVIOUS
<1>1. Types
  BY DEF Init, Types, PC, Outcomes, NoRequest, NoToken, None
<1>2. OneCall
  BY RequestsAssumption DEF Init, OneCall, NoRequest
<1>3. GoodIsHeld /\ AnswerIsNewer /\ HeldIsNewest
  BY DEF Init, GoodIsHeld, AnswerIsNewer, HeldIsNewest, Has, NoToken, None
<1>4. AfterRefusal /\ SentAToken /\ CarriedAtTheEnd /\ OneRevocationSurvived
  BY DEF Init, AfterRefusal, SentAToken, CarriedAtTheEnd, OneRevocationSurvived
<1> QED BY <1>1, <1>2, <1>3, <1>4 DEF IInv

------------------------------------------------------------------------------
\* What the steps have in common.

(* What the invariant says of the tokens.                                  *)
TokensInv == GoodIsHeld /\ AnswerIsNewer /\ HeldIsNewest /\ AfterRefusal /\ SentAToken

(* A request that goes where no token is, leaves them as they are.         *)
LEMMA TokensStay ==
  ASSUME IInv, NEW r \in Requests, NEW to \in PC \ {"answered", "closing", "sending"},
         pc' = [pc EXCEPT ![r] = to],
         UNCHANGED <<rewindable, good, held, live, got, sent, tokensLeft>>
  PROVE  TokensInv'
<1>1. \A q \in Requests : pc'[q] \in {"answered", "closing", "sending"} => pc'[q] = pc[q]
  BY DEF IInv, Types
<1>2. \A t : \A q \in Requests : Has(q, t)' => Has(q, t)
  BY <1>1 DEF Has
<1>3. GoodIsHeld'
  BY <1>2 DEF IInv, GoodIsHeld, Valid
<1>4. AnswerIsNewer'
  BY <1>1, <1>2 DEF IInv, AnswerIsNewer
<1>5. HeldIsNewest'
  BY <1>2 DEF IInv, HeldIsNewest
<1>6. AfterRefusal' /\ SentAToken'
  BY <1>1 DEF IInv, Types, AfterRefusal, SentAToken
<1> QED BY <1>3, <1>4, <1>5, <1>6 DEF TokensInv

(* A request is sent with the token held, or with the one it has fetched.  *)
LEMMA TokensSent ==
  ASSUME IInv, NEW r \in Requests, NEW v \in Nat \ {0}, SendWith(r, v),
         (v = held /\ Valid) \/ (pc[r] = "closing" /\ v = got[r]),
         pc[r] \notin {"answered", "sending"},
         UNCHANGED <<rewindable, good, held, live, tokensLeft>>,
         \A q \in Requests \ {r} : got'[q] = got[q],
         got'[r] \in {got[r], 0}
  PROVE  TokensInv'
<1>1. /\ sent' = [sent EXCEPT ![r] = v] /\ pc' = [pc EXCEPT ![r] = "sending"]
      /\ pc'[r] = "sending" /\ sent'[r] = v
      /\ \A q \in Requests \ {r} : pc'[q] = pc[q] /\ sent'[q] = sent[q]
  BY DEF SendWith, Goto, IInv, Types
<1>2. \A q \in Requests, t \in Nat : Has(q, t)' => Has(q, t) \/ (t = held /\ Valid)
  BY <1>1 DEF Has
<1>3. v <= good /\ held <= good
  BY DEF IInv, GoodIsHeld
<1>4. GoodIsHeld'
  <2>1. \A q \in Requests : Has(q, good)' => Valid /\ held = good
    BY <1>2 DEF IInv, GoodIsHeld, Types
  <2>2. \A q \in Requests : sent'[q] <= good /\ got'[q] <= good
    BY <1>1, <1>3 DEF IInv, GoodIsHeld, Types
  <2> QED BY <1>3, <2>1, <2>2 DEF Valid, GoodIsHeld
<1>5. AnswerIsNewer'
  <2> SUFFICES ASSUME NEW p \in Requests, NEW q \in Requests, NEW t \in Nat,
                      pc'[p] = "answered", got'[p] > 0, Has(q, t)'
               PROVE  t < got'[p]
    BY DEF AnswerIsNewer
  <2>1. p # r /\ pc[p] = "answered" /\ got'[p] = got[p]
    BY <1>1
  <2>2. ~Valid
    BY <2>1, RequestsAssumption DEF IInv, OneCall, Types, NoRequest
  <2>3. Has(q, t)
    BY <1>2, <2>2
  <2> QED BY <2>1, <2>3 DEF IInv, AnswerIsNewer
<1>6. HeldIsNewest'
  BY <1>2 DEF IInv, HeldIsNewest, Types
<1>7. AfterRefusal'
  <2> SUFFICES ASSUME NEW q \in rewindable, tokensLeft[q] = 0
               PROVE  /\ sent'[q] >= 1 /\ held # 1
                      /\ pc'[q] = "closing" => got'[q] # 1
                      /\ pc'[q] = "sending" => sent'[q] >= 2
    BY DEF AfterRefusal
  <2>1. /\ q \in Requests /\ sent[q] >= 1 /\ held # 1
        /\ pc[q] = "closing" => got[q] # 1
        /\ pc[q] = "sending" => sent[q] >= 2
    BY DEF IInv, Types, AfterRefusal
  <2>2. CASE q # r
    BY <1>1, <2>1, <2>2
  <2>3. CASE q = r
    BY <1>1, <2>1, <2>3
  <2> QED BY <2>2, <2>3
<1>8. SentAToken'
  BY <1>1 DEF IInv, SentAToken
<1> QED BY <1>4, <1>5, <1>6, <1>7, <1>8 DEF TokensInv

(* The rest of the invariant, for a step of one request that is neither a  *)
(* refusal for good nor a request carried out.                             *)
LEMMA RestStays ==
  ASSUME IInv, NEW r \in Requests, NEW to \in PC, pc[r] # "done",
         pc' = [pc EXCEPT ![r] = to], carried' = carried,
         good' = good, rewindable' = rewindable,
         outcome' = outcome \/ \E o \in Outcomes \ {"refused"} : outcome' = [outcome EXCEPT ![r] = o]
  PROVE  CarriedAtTheEnd' /\ OneRevocationSurvived' /\ pc' \in [Requests -> PC]
           /\ outcome' \in [Requests -> Outcomes]
<1>1. pc' \in [Requests -> PC] /\ outcome' \in [Requests -> Outcomes]
  BY DEF IInv, Types
<1>2. CarriedAtTheEnd'
  BY DEF IInv, Types, CarriedAtTheEnd
<1>3. \A q \in Requests : outcome'[q] = "refused" => outcome[q] = "refused"
  BY DEF IInv, Types
<1>4. OneRevocationSurvived'
  BY <1>3 DEF IInv, Types, OneRevocationSurvived
<1> QED BY <1>1, <1>2, <1>4

(* Who calls the source does not change where nobody begins or ends a call. *)
LEMMA CallStays ==
  ASSUME IInv, NEW r \in Requests, NEW to \in PC,
         pc[r] \in {"calling", "answered"} <=> to \in {"calling", "answered"},
         pc' = [pc EXCEPT ![r] = to], UNCHANGED <<fetching, held, live>>
  PROVE  OneCall'
  BY DEF IInv, Types, OneCall, Valid

------------------------------------------------------------------------------
\* The steps.

LEMMA ServerInv == ASSUME IInv, Revoke \/ TokenExpires PROVE IInv'
<1>1. /\ good' = good + 1 /\ UNCHANGED <<rewindable, held, fetching, pc, got, sent, tokensLeft, carried, outcome>>
      /\ live' = live \/ live' = FALSE
  BY DEF Revoke, TokenExpires, holder
<1>2. Types' /\ OneCall'
  BY <1>1 DEF IInv, Types, OneCall, Valid
<1>3. \A t : \A q \in Requests : Has(q, t)' <=> Has(q, t)
  BY <1>1 DEF Has
<1>4. \A q \in Requests : ~Has(q, good + 1)
  BY DEF IInv, Types, GoodIsHeld, Has
<1>5. GoodIsHeld'
  BY <1>1, <1>3, <1>4 DEF IInv, Types, GoodIsHeld
<1>6. AnswerIsNewer' /\ HeldIsNewest'
  BY <1>1, <1>3 DEF IInv, AnswerIsNewer, HeldIsNewest
<1>7. AfterRefusal' /\ SentAToken' /\ CarriedAtTheEnd' /\ OneRevocationSurvived'
  BY <1>1 DEF IInv, Types, AfterRefusal, SentAToken, CarriedAtTheEnd, OneRevocationSurvived
<1> QED BY <1>2, <1>5, <1>6, <1>7 DEF IInv

(* A request goes to wait on a call, or makes one.                         *)
LEMMA CallOrJoinInv ==
  ASSUME IInv, NEW r \in Requests, TokenFetched(r) \/ WakeAbandoned(r)
  PROVE  IInv'
<1>1. /\ pc[r] \in {"token", "waiting"} /\ ~Valid /\ CallOrJoin(r)
      /\ UNCHANGED <<rewindable, good, held, live, got, sent, tokensLeft, carried, outcome>>
  BY DEF TokenFetched, WakeAbandoned, Woken, world
<1>2. PICK to \in {"waiting", "calling"} :
        /\ pc' = [pc EXCEPT ![r] = to]
        /\ IF to = "waiting" THEN fetching' = fetching ELSE fetching = NoRequest /\ fetching' = r
  BY <1>1 DEF CallOrJoin, Goto
<1>3. to \in PC
  BY DEF PC
<1>4. TokensInv'
  BY <1>1, <1>2, <1>3, TokensStay
<1>5. OneCall'
  BY <1>1, <1>2, RequestsAssumption DEF IInv, Types, OneCall, Valid, NoRequest
<1>6. CarriedAtTheEnd' /\ OneRevocationSurvived' /\ pc' \in [Requests -> PC]
  BY <1>1, <1>2, <1>3, RestStays
<1>7. Types'
  BY <1>1, <1>2, <1>6 DEF IInv, Types
<1> QED BY <1>4, <1>5, <1>6, <1>7 DEF IInv, TokensInv

LEMMA SourceReturnsInv == ASSUME IInv, NEW r \in Requests, SourceReturns(r) PROVE IInv'
<1>1. /\ pc[r] = "calling" /\ pc' = [pc EXCEPT ![r] = "answered"]
      /\ UNCHANGED <<rewindable, good, held, live, fetching, sent, tokensLeft, carried, outcome>>
  BY DEF SourceReturns, Goto, world, holder
<1>2. PICK v \in {good, NoToken, Failed, Ended} : got' = [got EXCEPT ![r] = v]
  BY DEF SourceReturns
<1>3. v \in Int /\ (v > 0 => v = good) /\ v <= good
  BY DEF IInv, Types, NoToken, Failed, Ended
<1>4. ~Valid
  BY <1>1, RequestsAssumption DEF IInv, Types, OneCall, NoRequest
<1>5. \A t : \A q \in Requests : Has(q, t)' <=> Has(q, t)
  BY <1>1, <1>2 DEF IInv, Types, Has
<1>6. CarriedAtTheEnd' /\ OneRevocationSurvived' /\ pc' \in [Requests -> PC]
  BY <1>1, RestStays DEF PC
<1>7. Types'
  BY <1>1, <1>2, <1>3, <1>6 DEF IInv, Types
<1>8. OneCall'
  BY <1>1, CallStays DEF PC
<1>9. GoodIsHeld'
  BY <1>1, <1>2, <1>3, <1>5 DEF IInv, Types, GoodIsHeld, Valid
<1>10. AnswerIsNewer'
  <2>1. \A q \in Requests, t \in Nat : Has(q, t) => t < good
    BY <1>4 DEF IInv, Types, GoodIsHeld, Has
  <2> QED BY <1>1, <1>2, <1>3, <1>5, <2>1 DEF IInv, Types, AnswerIsNewer
<1>11. HeldIsNewest'
  BY <1>1, <1>5 DEF IInv, HeldIsNewest
<1>12. AfterRefusal' /\ SentAToken'
  BY <1>1, <1>2 DEF IInv, Types, AfterRefusal, SentAToken
<1> QED BY <1>6, <1>7, <1>8, <1>9, <1>10, <1>11, <1>12 DEF IInv

LEMMA StoreTokenInv == ASSUME IInv, NEW r \in Requests, StoreToken(r) PROVE IInv'
<1>1. /\ pc[r] = "answered" /\ pc' = [pc EXCEPT ![r] = "closing"] /\ fetching' = NoRequest
      /\ UNCHANGED <<rewindable, good, got, sent, tokensLeft, carried, outcome>>
      /\ got[r] < 0 => UNCHANGED <<held, live>>
      /\ ~(got[r] < 0) => held' = got[r]
  BY DEF StoreToken, Goto, world
<1>2. ~Valid /\ got[r] \in Int /\ got[r] <= good /\ good \in Nat \ {0}
  BY <1>1, RequestsAssumption DEF IInv, Types, OneCall, GoodIsHeld, NoRequest
<1>3. \A t : \A q \in Requests : Has(q, t)' => Has(q, t) \/ (q = r /\ t = got[r])
  BY <1>1 DEF IInv, Types, Has
<1>4. CarriedAtTheEnd' /\ OneRevocationSurvived' /\ pc' \in [Requests -> PC]
  BY <1>1, RestStays DEF PC
<1>5. held' \in Nat /\ held' <= good /\ (held' # held => held' = got[r])
  BY <1>1, <1>2 DEF IInv, Types, GoodIsHeld
<1>6. Types'
  BY <1>1, <1>4, <1>5 DEF IInv, Types
<1>7. OneCall'
  BY <1>1, RequestsAssumption DEF IInv, Types, OneCall, NoRequest
<1>8. \A q \in Requests, t \in Nat : Has(q, t) => t < good /\ (got[r] > 0 => t < got[r])
  BY <1>1, <1>2 DEF IInv, Types, GoodIsHeld, AnswerIsNewer, Has
<1>9. GoodIsHeld'
  <2>1. \A q \in Requests : Has(q, good)' => got[r] = good
    <3>1. good \in Nat /\ ~(good < good)
      BY <1>2
    <3> QED BY <1>1, <1>3, <1>8, <3>1
  <2>2. got[r] = good => held' = good /\ live'
    <3> SUFFICES ASSUME got[r] = good PROVE held' = good /\ live'
      OBVIOUS
    <3>1. ~(got[r] < 0)
      BY <1>2
    <3>2. live' \in {TRUE, got[r] = good}
      BY <3>1, Zenon DEF StoreToken
    <3>3. live'
      BY <3>2, Zenon
    <3> QED BY <1>1, <3>1, <3>3
  <2> QED BY <1>1, <1>2, <1>5, <2>1, <2>2 DEF IInv, Types, GoodIsHeld, Valid, NoToken
<1>10. AnswerIsNewer'
  <2>1. \A q \in Requests : pc'[q] # "answered"
    BY <1>1, <1>7, RequestsAssumption DEF OneCall, NoRequest
  <2> QED BY <2>1 DEF AnswerIsNewer
<1>11. HeldIsNewest'
  <2> SUFFICES ASSUME NEW q \in Requests, NEW t \in Nat, held' # 0, Has(q, t)'
               PROVE  t <= held'
    BY DEF HeldIsNewest, NoToken
  <2>1. CASE got[r] < 0
    <3>1. Has(q, t) /\ held' = held
      BY <1>1, <1>3, <2>1
    <3> QED BY <3>1 DEF IInv, HeldIsNewest, NoToken
  <2>2. CASE got[r] >= 0
    <3>1. held' = got[r]
      BY <1>1, <1>2, <2>2
    <3>2. got[r] > 0
      BY <1>2, <2>2, <3>1
    <3> QED BY <1>2, <1>3, <1>8, <3>1, <3>2
  <2> QED BY <1>2, <2>1, <2>2
<1>12. AfterRefusal'
  <2> SUFFICES ASSUME NEW q \in rewindable, tokensLeft[q] = 0
               PROVE  /\ sent[q] >= 1 /\ held' # 1
                      /\ pc'[q] = "closing" => got[q] # 1
                      /\ pc'[q] = "sending" => sent[q] >= 2
    BY <1>1 DEF AfterRefusal
  <2>1. /\ q \in Requests /\ sent[q] \in Nat /\ sent[q] >= 1 /\ held # 1
        /\ pc[q] = "closing" => got[q] # 1
        /\ pc[q] = "sending" => sent[q] >= 2
    BY DEF IInv, Types, AfterRefusal
  <2>2. got[r] # 1
    BY <1>2, <1>8, <2>1 DEF Has
  <2> QED BY <1>1, <1>5, <2>1, <2>2 DEF IInv, Types
<1>13. SentAToken'
  BY <1>1 DEF IInv, Types, SentAToken
<1> QED BY <1>4, <1>6, <1>7, <1>9, <1>10, <1>11, <1>12, <1>13 DEF IInv

LEMMA TokenUsedInv ==
  ASSUME IInv, NEW r \in Requests, TokenHeld(r) \/ (Fetched(r) /\ Valid)
  PROVE  IInv'
<1>1. /\ pc[r] \in {"token", "fetched"} /\ Valid /\ SendWith(r, held) /\ held \in Nat \ {0}
      /\ pc' = [pc EXCEPT ![r] = "sending"] /\ sent' = [sent EXCEPT ![r] = held]
      /\ UNCHANGED <<rewindable, good, held, live, fetching, got, tokensLeft, carried, outcome>>
  BY DEF TokenHeld, Fetched, SendWith, Goto, world, holder, Valid, IInv, Types, NoToken
<1>2. TokensInv'
  BY <1>1, TokensSent
<1>3. CarriedAtTheEnd' /\ OneRevocationSurvived' /\ pc' \in [Requests -> PC]
  BY <1>1, RestStays DEF PC
<1>4. OneCall'
  BY <1>1, CallStays DEF PC
<1>5. Types'
  BY <1>1, <1>3 DEF IInv, Types
<1> QED BY <1>2, <1>3, <1>4, <1>5 DEF IInv, TokensInv

LEMMA CallReturnsInv == ASSUME IInv, NEW r \in Requests, CallReturns(r) PROVE IInv'
<1>1. /\ pc[r] = "closing" /\ got' = [got EXCEPT ![r] = 0]
      /\ UNCHANGED <<rewindable, good, held, live, fetching, tokensLeft, carried>>
  BY DEF CallReturns, None, world, holder
<1>2. CASE got[r] > 0 /\ SendWith(r, got[r]) /\ UNCHANGED outcome
  <2>1. got[r] \in Nat \ {0} /\ \A q \in Requests \ {r} : got'[q] = got[q]
    BY <1>1, <1>2 DEF IInv, Types
  <2>2. pc' = [pc EXCEPT ![r] = "sending"] /\ sent' = [sent EXCEPT ![r] = got[r]] /\ got'[r] = 0
    BY <1>1, <1>2 DEF SendWith, Goto, IInv, Types
  <2>3. TokensInv'
    BY <1>1, <1>2, <2>1, <2>2, TokensSent
  <2>4. CarriedAtTheEnd' /\ OneRevocationSurvived' /\ pc' \in [Requests -> PC]
    BY <1>1, <1>2, <2>2, RestStays DEF PC
  <2>5. OneCall'
    BY <1>1, <2>2, CallStays DEF PC
  <2>6. Types'
    BY <1>1, <1>2, <2>1, <2>2, <2>4 DEF IInv, Types
  <2> QED BY <2>3, <2>4, <2>5, <2>6 DEF IInv, TokensInv
<1>3. CASE got[r] <= 0 /\ UNCHANGED <<sent, attempt>>
           /\ \E o \in {"ended", "failed", "empty"} : Return(r, o)
  <2>1. PICK o \in {"ended", "failed", "empty"} :
               pc' = [pc EXCEPT ![r] = "done"] /\ outcome' = [outcome EXCEPT ![r] = o] /\ sent' = sent
    BY <1>3 DEF Return, Goto
  <2>2. o \in Outcomes \ {"refused"}
    BY DEF Outcomes
  <2>3. CarriedAtTheEnd' /\ OneRevocationSurvived' /\ pc' \in [Requests -> PC]
          /\ outcome' \in [Requests -> Outcomes]
    BY <1>1, <2>1, <2>2, RestStays DEF PC
  <2>4. OneCall'
    BY <1>1, <2>1, CallStays DEF PC
  <2>5. Types'
    BY <1>1, <2>1, <2>3 DEF IInv, Types
  <2>6. /\ \A t : \A q \in Requests : Has(q, t)' => Has(q, t)
        /\ \A q \in Requests : pc'[q] \in {"answered", "closing", "sending"} =>
                                 pc'[q] = pc[q] /\ got'[q] = got[q]
    BY <1>1, <1>3, <2>1 DEF IInv, Types, Has
  <2>7. GoodIsHeld'
    BY <1>1, <1>3, <2>6 DEF IInv, Types, GoodIsHeld, Valid
  <2>8. AnswerIsNewer' /\ HeldIsNewest'
    BY <1>1, <2>6 DEF IInv, Types, AnswerIsNewer, HeldIsNewest
  <2>9. AfterRefusal' /\ SentAToken'
    BY <1>1, <1>3, <2>6 DEF IInv, Types, AfterRefusal, SentAToken
  <2> QED BY <2>3, <2>4, <2>5, <2>7, <2>8, <2>9 DEF IInv
<1> QED BY <1>2, <1>3 DEF CallReturns

(* A request that goes on or ends with no token of its own.                *)
LEMMA MovesInv ==
  ASSUME IInv, NEW r \in Requests, NEW to \in {"fetched", "sleeping", "token", "done"},
         pc[r] \in {"waiting", "fetched", "sending", "sleeping"},
         pc' = [pc EXCEPT ![r] = to],
         UNCHANGED <<rewindable, good, held, live, fetching, got, sent, tokensLeft, carried>>,
         outcome' = outcome \/ \E o \in Outcomes \ {"refused"} : outcome' = [outcome EXCEPT ![r] = o]
  PROVE  IInv'
<1>1. TokensInv'
  BY TokensStay DEF PC
<1>2. OneCall'
  BY CallStays DEF PC
<1>3. CarriedAtTheEnd' /\ OneRevocationSurvived' /\ pc' \in [Requests -> PC]
        /\ outcome' \in [Requests -> Outcomes]
  BY RestStays DEF PC
<1>4. Types'
  BY <1>3 DEF IInv, Types
<1> QED BY <1>1, <1>2, <1>3, <1>4 DEF IInv, TokensInv

LEMMA WaitingInv ==
  ASSUME IInv, NEW r \in Requests,
         StopWaiting(r) \/ WakeFetched(r) \/ (Fetched(r) /\ ~Valid) \/ Busy(r) \/ Wake(r)
  PROVE  IInv'
<1>1. /\ pc[r] \in {"waiting", "fetched", "sending", "sleeping"}
      /\ UNCHANGED <<rewindable, good, held, live, fetching, got, sent, tokensLeft, carried>>
  BY DEF StopWaiting, WakeFetched, Woken, Fetched, Busy, Wake, world, holder
<1>2. CASE \E to \in {"fetched", "sleeping", "token"} : Goto(r, to) /\ UNCHANGED outcome
  BY <1>1, <1>2, MovesInv DEF Goto
<1>3. CASE \E o \in Outcomes \ {"refused"} : Return(r, o)
  BY <1>1, <1>3, MovesInv DEF Return, Goto
<1>4. CASE StopWaiting(r)
  BY <1>3, <1>4 DEF StopWaiting, Outcomes
<1>5. CASE WakeFetched(r)
  BY <1>2, <1>5 DEF WakeFetched
<1>6. CASE Fetched(r) /\ ~Valid
  BY <1>3, <1>6 DEF Fetched, Outcomes
<1>7. CASE Busy(r)
  BY <1>2, <1>3, <1>7 DEF Busy, Outcomes
<1>8. CASE Wake(r)
  BY <1>2, <1>3, <1>8 DEF Wake, Outcomes
<1> QED BY <1>4, <1>5, <1>6, <1>7, <1>8

LEMMA AnsweredInv == ASSUME IInv, NEW r \in Requests, Answered(r) PROVE IInv'
<1>1. PICK o \in {"ok", "lost"} :
        /\ pc[r] = "sending" /\ pc' = [pc EXCEPT ![r] = "done"] /\ outcome' = [outcome EXCEPT ![r] = o]
        /\ UNCHANGED <<rewindable, good, held, live, fetching, got, sent, tokensLeft>>
        /\ carried' = carried \/ carried' = [carried EXCEPT ![r] = @ + 1]
  BY DEF Answered, Return, Goto, world, holder
<1>2. carried[r] = 0
  BY <1>1 DEF IInv, Types, CarriedAtTheEnd
<1>3. TokensInv'
  BY <1>1, TokensStay DEF PC
<1>4. OneCall'
  BY <1>1, CallStays DEF PC
<1>5. o \in Outcomes \ {"refused"}
  BY DEF Outcomes
<1>6. Types'
  BY <1>1, <1>2, <1>5 DEF IInv, Types, PC
<1>7. CarriedAtTheEnd'
  BY <1>1 DEF IInv, Types, CarriedAtTheEnd
<1>8. OneRevocationSurvived'
  BY <1>1, <1>5 DEF IInv, Types, OneRevocationSurvived
<1> QED BY <1>3, <1>4, <1>6, <1>7, <1>8 DEF IInv, TokensInv

(* A refused request that is sent again leaves no token as old behind it.  *)
LEMMA TokenRefusedInv == ASSUME IInv, NEW r \in Requests, TokenRefused(r) PROVE IInv'
<1>1. /\ pc[r] = "sending" /\ sent[r] # good /\ pc' = [pc EXCEPT ![r] = "token"]
      /\ UNCHANGED <<rewindable, good, fetching, got, sent, carried, outcome>>
      /\ tokensLeft[r] = 1 /\ tokensLeft' = [tokensLeft EXCEPT ![r] = 0]
  <2>1. tokensLeft[r] = 1
    BY DEF TokenRefused, IInv, Types
  <2> QED BY <2>1 DEF TokenRefused, Goto, world
<1>2. IF held = sent[r] THEN held' = 0 /\ live' = FALSE ELSE UNCHANGED <<held, live>>
  BY DEF TokenRefused, Discard, NoToken
<1>3. sent[r] \in Nat /\ sent[r] >= 1 /\ Has(r, sent[r]) /\ held \in Nat
  BY <1>1 DEF IInv, Types, SentAToken, Has
<1>4. CarriedAtTheEnd' /\ OneRevocationSurvived' /\ pc' \in [Requests -> PC]
  BY <1>1, RestStays DEF PC
<1>5. Types'
  BY <1>1, <1>2, <1>4 DEF IInv, Types
<1>6. OneCall'
  BY <1>1, <1>2 DEF IInv, Types, OneCall, Valid, NoToken
<1>7. /\ \A q \in Requests : pc'[q] \in {"answered", "closing", "sending"} => pc'[q] = pc[q]
      /\ \A t : \A q \in Requests : Has(q, t)' => Has(q, t)
  BY <1>1 DEF IInv, Types, Has
<1>8. GoodIsHeld'
  BY <1>1, <1>2, <1>7 DEF IInv, Types, GoodIsHeld, Valid
<1>9. AnswerIsNewer' /\ HeldIsNewest'
  BY <1>1, <1>2, <1>7 DEF IInv, Types, AnswerIsNewer, HeldIsNewest, NoToken
<1>10. AfterRefusal'
  <2> SUFFICES ASSUME NEW q \in rewindable, tokensLeft'[q] = 0
               PROVE  /\ sent[q] >= 1 /\ held' # 1
                      /\ pc'[q] = "closing" => got[q] # 1
                      /\ pc'[q] = "sending" => sent[q] >= 2
    BY <1>1 DEF AfterRefusal
  <2>1. q \in Requests
    BY DEF IInv, Types
  <2>2. CASE q = r
    <3>1. held' = 0 \/ held' > sent[r]
      BY <1>2, <1>3 DEF IInv, HeldIsNewest, NoToken
    <3>2. pc'[q] = "token"
      BY <1>1, <2>2 DEF IInv, Types
    <3> QED BY <1>3, <2>2, <3>1, <3>2
  <2>3. CASE q # r
    <3>1. tokensLeft[q] = 0 /\ pc'[q] = pc[q]
      BY <1>1, <2>1, <2>3 DEF IInv, Types
    <3> QED BY <1>2, <3>1 DEF IInv, AfterRefusal
  <2> QED BY <2>2, <2>3
<1>11. SentAToken'
  BY <1>1, <1>7 DEF IInv, SentAToken
<1> QED BY <1>4, <1>5, <1>6, <1>8, <1>9, <1>10, <1>11 DEF IInv

(* A request refused for good has been refused two tokens, and the server  *)
(* accepts neither.                                                        *)
LEMMA RefusedForGoodInv == ASSUME IInv, NEW r \in Requests, RefusedForGood(r) PROVE IInv'
<1>1. /\ pc[r] = "sending" /\ tokensLeft[r] = 0 /\ sent[r] # good
      /\ pc' = [pc EXCEPT ![r] = "done"] /\ outcome' = [outcome EXCEPT ![r] = "refused"]
      /\ UNCHANGED <<rewindable, good, held, live, fetching, got, sent, tokensLeft, carried>>
  BY DEF RefusedForGood, Return, Goto, world, holder
<1>2. TokensInv'
  BY <1>1, TokensStay DEF PC
<1>3. OneCall'
  BY <1>1, CallStays DEF PC
<1>4. Types'
  BY <1>1 DEF IInv, Types, PC, Outcomes
<1>5. CarriedAtTheEnd'
  BY <1>1 DEF IInv, Types, CarriedAtTheEnd
<1>6. r \in rewindable => good >= 3
  BY <1>1 DEF IInv, Types, AfterRefusal, GoodIsHeld
<1>7. OneRevocationSurvived'
  BY <1>1, <1>6 DEF IInv, Types, OneRevocationSurvived
<1> QED BY <1>2, <1>3, <1>4, <1>5, <1>7 DEF IInv, TokensInv

LEMMA NextInv == IInv /\ [Next]_vars => IInv'
<1> SUFFICES ASSUME IInv, [Next]_vars PROVE IInv'
  OBVIOUS
<1>1. CASE UNCHANGED <<rewindable, good, held, live, fetching, pc, got, sent, tokensLeft, carried, outcome>>
  BY <1>1 DEF IInv, Types, OneCall, GoodIsHeld, AnswerIsNewer, HeldIsNewest, AfterRefusal, SentAToken,
              CarriedAtTheEnd, OneRevocationSurvived, Valid, Has
<1>2. CASE UNCHANGED vars \/ \E r \in Requests : ContextEnds(r)
  BY <1>1, <1>2 DEF vars, ContextEnds, world, holder
<1>3. ASSUME NEW r \in Requests, Step(r) PROVE IInv'
  BY <1>3, CallOrJoinInv, SourceReturnsInv, StoreTokenInv, TokenUsedInv, CallReturnsInv, WaitingInv,
     AnsweredInv, TokenRefusedInv, RefusedForGoodInv DEF Step
<1> QED BY <1>2, <1>3, ServerInv DEF Next, Finished

(* So all of it holds of every reachable state.                           *)
LEMMA Invariant == Spec => []IInv
<1> QED BY InitInv, NextInv, PTL DEF Spec

------------------------------------------------------------------------------

(* A request whose body can be read again survives one revocation.         *)
THEOREM RevocationSurvived == Spec => []OneRevocationSurvived
<1>1. IInv => OneRevocationSurvived
  BY DEF IInv
<1> QED BY <1>1, Invariant, PTL

(* A request is carried out once, however often it is sent.                *)
THEOREM NeverCarriedOutTwice == Spec => []CarriedOutOnce
<1>1. IInv => CarriedOutOnce
  BY DEF IInv, Types, CarriedOutOnce
<1> QED BY <1>1, Invariant, PTL

(* A token is fetched once for all the requests that were refused the one  *)
(* before it.                                                              *)
THEOREM FetchedOnce == Spec => EachTokenFetchedOnce
<1>1. IInv => \A r, q \in Requests : StoreToken(r) /\ got[r] > 0 => got[r] > sent[q]
  BY DEF IInv, Types, AnswerIsNewer, Has, StoreToken
<1> QED BY <1>1, Invariant, PTL DEF EachTokenFetchedOnce

==============================================================================
