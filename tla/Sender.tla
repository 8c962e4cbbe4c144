------------------------------- MODULE Sender -------------------------------
(***************************************************************************)
(* retry.go and token.go: a request sent with a bearer token, sent again   *)
(* where the server refused the token or did nothing, and the token the    *)
(* requests share, which one call of the source at a time replaces.        *)
(*                                                                         *)
(* The tokens the server accepts have numbers: it accepts one at a time,   *)
(* and a token revoked is followed by the next.  Everything done under one *)
(* hold of tokenHolder.mu is one action.                                   *)
(***************************************************************************)
EXTENDS Integers, FiniteSets

CONSTANTS
  Requests,     \* the requests in flight together; each is made once
  Attempts,     \* RetryPolicy.Attempts
  MaxToken,     \* bound: the tokens the server goes through
  Faults        \* what the source may do beside returning a good token

ASSUME RequestsAssumption   == "none" \notin Requests
ASSUME AttemptsAssumption   == Attempts \in Nat
ASSUME MaxTokenAssumption   == MaxToken \in Nat \ {0}
ASSUME FaultsAssumption     == Faults \subseteq {"failed", "empty"}

VARIABLES
  rewindable,   \* the requests whose body can be read again (GetBody)
  good,         \* the token the server accepts
  held,         \* tokenHolder.held.Value, NoToken where there is none
  live,         \* held.Expiry is not within the margin
  fetching,     \* tokenHolder.fetching: the request whose channel it is
  err,          \* tokenHolder.err, Ended where abandoned is set too
  pc,           \* where each request is
  on,           \* the request whose source call a waiting one waits on
  woken,        \* the waiting requests whose channel is closed
  got,          \* what the source returned to the request calling it
  sent,         \* the token on the request, and on the one before
  attempt,      \* how many times it has been sent
  tokensLeft,   \* whether a refused token may still be replaced
  carried,      \* how many times the server has carried it out
  ended,        \* the requests whose context has ended
  outcome       \* what the caller was returned

holder == <<held, live, fetching, err>>
world == <<rewindable, good>>
vars == <<world, holder, pc, on, woken, got, sent, attempt, tokensLeft, carried, ended,
          outcome>>

NoRequest == "none"
NoToken == 0
None == 0
Failed == -1
Ended == -2

Tokens == 1..MaxToken

PC == {"token", "waiting", "fetched", "calling", "answered", "closing",
       "sending", "sleeping", "done"}

Outcomes == {"none", "ok", "refused", "busy", "later", "lost", "failed", "ended",
             "empty", "expired"}

Init ==
  /\ rewindable \in SUBSET Requests
  /\ good = 1
  /\ held = NoToken /\ live = FALSE
  /\ fetching = NoRequest /\ err = None
  /\ pc = [r \in Requests |-> "token"]
  /\ on = [r \in Requests |-> NoRequest]
  /\ woken = {}
  /\ got = [r \in Requests |-> None]
  /\ sent = [r \in Requests |-> NoToken]
  /\ attempt = [r \in Requests |-> 0]
  /\ tokensLeft = [r \in Requests |-> IF r \in rewindable THEN 1 ELSE 0]
  /\ carried = [r \in Requests |-> 0]
  /\ ended = {}
  /\ outcome = [r \in Requests |-> "none"]

Goto(r, to) == pc' = [pc EXCEPT ![r] = to]

Return(r, what) == Goto(r, "done") /\ outcome' = [outcome EXCEPT ![r] = what]

(* token returns value, and authorize puts it on the request.              *)
SendWith(r, value) ==
  /\ sent' = [sent EXCEPT ![r] = value]
  /\ attempt' = [attempt EXCEPT ![r] = @ + 1]
  /\ Goto(r, "sending")

Valid == held # NoToken /\ live

------------------------------------------------------------------------------

(* The server revokes the token it accepts, and accepts the next one.      *)
Revoke ==
  /\ good < MaxToken
  /\ good' = good + 1
  /\ UNCHANGED <<rewindable, holder, pc, on, woken, got, sent, attempt, tokensLeft, carried, ended,
                 outcome>>

(* The token held comes within tokenMargin of its expiry: the next one     *)
(* replaces it.                                                            *)
TokenExpires ==
  /\ good < MaxToken
  /\ Valid
  /\ live' = FALSE
  /\ good' = good + 1
  /\ UNCHANGED <<rewindable, held, fetching, err, pc, on, woken, got, sent, attempt, tokensLeft,
                 carried, ended, outcome>>

ContextEnds(r) ==
  /\ pc[r] \in {"token", "waiting", "calling", "sleeping"}
  /\ r \notin ended
  /\ ended' = ended \cup {r}
  /\ UNCHANGED <<world, holder, pc, on, woken, got, sent, attempt, tokensLeft, carried,
                 outcome>>

(* token: the one held may be used.                                        *)
TokenHeld(r) ==
  /\ pc[r] = "token"
  /\ Valid
  /\ SendWith(r, held)
  /\ UNCHANGED <<world, holder, on, woken, got, tokensLeft, carried, ended, outcome>>

(* token's loop: r waits on the call in progress, or makes one.            *)
CallOrJoin(r) ==
  \/ /\ fetching # NoRequest
     /\ on' = [on EXCEPT ![r] = fetching]
     /\ Goto(r, "waiting")
     /\ UNCHANGED fetching
  \/ /\ fetching = NoRequest
     /\ fetching' = r
     /\ on' = [on EXCEPT ![r] = NoRequest]
     /\ Goto(r, "calling")

TokenFetched(r) ==
  /\ pc[r] = "token"
  /\ ~ Valid
  /\ CallOrJoin(r)
  /\ UNCHANGED <<world, held, live, err, woken, got, sent, attempt, tokensLeft, carried,
                 ended, outcome>>

(* The source returns the token the server accepts, or does otherwise.     *)
SourceReturns(r) ==
  /\ pc[r] = "calling"
  /\ \E t \in {good} \cup (IF "empty" \in Faults THEN {NoToken} ELSE {})
                     \cup (IF "failed" \in Faults THEN {Failed} ELSE {})
                     \cup (IF r \in ended THEN {Ended} ELSE {}) :
       got' = [got EXCEPT ![r] = t]
  /\ Goto(r, "answered")
  /\ UNCHANGED <<world, holder, on, woken, sent, attempt, tokensLeft, carried, ended,
                 outcome>>

(* What it returned is kept.  A token replaced since may have expired.     *)
StoreToken(r) ==
  /\ pc[r] = "answered"
  /\ fetching' = NoRequest
  /\ err' = IF got[r] < 0 THEN got[r] ELSE None
  /\ IF got[r] < 0
       THEN UNCHANGED <<held, live>>
       ELSE held' = got[r] /\ live' \in {TRUE, got[r] = good}
  /\ Goto(r, "closing")
  /\ UNCHANGED <<world, on, woken, got, sent, attempt, tokensLeft, carried, ended, outcome>>

CloseNever(r) == UNCHANGED woken          \* mutant: the channel stays open

Close(r) == woken' = woken \cup {w \in Requests : pc[w] = "waiting" /\ on[w] = r}

(* close(wait), and token returns: the value, whether or not it is live,   *)
(* or why there is none, which no policy sends again.                      *)
CallReturns(r) ==
  /\ pc[r] = "closing"
  /\ Close(r)
  /\ got' = [got EXCEPT ![r] = None]
  /\ \/ got[r] > 0 /\ SendWith(r, got[r]) /\ UNCHANGED outcome
     \/ /\ got[r] <= 0
        /\ Return(r, IF got[r] = Ended THEN "ended"
                     ELSE IF got[r] = Failed THEN "failed" ELSE "empty")
        /\ UNCHANGED <<sent, attempt>>
  /\ UNCHANGED <<world, holder, on, tokensLeft, carried, ended>>

Woken(r) == pc[r] = "waiting" /\ r \in woken

Unjoin(r) == woken' = woken \ {r} /\ on' = [on EXCEPT ![r] = NoRequest]

(* The call waited on ended, and r has itself given up in the meantime; or *)
(* the select finds its context ended.                                     *)
StopWaiting(r) ==
  /\ pc[r] = "waiting" /\ r \in ended
  /\ Return(r, "ended")
  /\ Unjoin(r)
  /\ UNCHANGED <<world, holder, got, sent, attempt, tokensLeft, carried, ended>>

(* There is a token, or a failure that is not of a request that gave up:   *)
(* the lock is let go, and fetched takes it again.                         *)
WakeFetched(r) ==
  /\ Woken(r)
  /\ Valid \/ (r \notin ended /\ err # Ended)
  /\ Goto(r, "fetched")
  /\ Unjoin(r)
  /\ UNCHANGED <<world, holder, got, sent, attempt, tokensLeft, carried, ended, outcome>>

(* The request that called the source gave up, and r goes round again,     *)
(* under the same hold of the lock.                                        *)
WakeAbandoned(r) ==
  /\ Woken(r)
  /\ ~ Valid /\ r \notin ended /\ err = Ended
  /\ woken' = woken \ {r}
  /\ CallOrJoin(r)
  /\ UNCHANGED <<world, held, live, err, got, sent, attempt, tokensLeft, carried, ended,
                 outcome>>

(* fetched reports the result of the call r waited on, as things stand now. *)
Fetched(r) ==
  /\ pc[r] = "fetched"
  /\ \/ Valid /\ SendWith(r, held) /\ UNCHANGED outcome
     \/ /\ ~ Valid
        /\ Return(r, IF err = Ended THEN "ended"
                     ELSE IF err = Failed THEN "failed"
                     ELSE IF held = NoToken THEN "empty" ELSE "expired")
        /\ UNCHANGED <<sent, attempt>>
  /\ UNCHANGED <<world, holder, on, woken, got, tokensLeft, carried, ended>>

------------------------------------------------------------------------------

LostSentAgain(r) ==                       \* mutant: an error is worth retrying
  /\ pc[r] = "sending"
  /\ carried' = [carried EXCEPT ![r] = @ + 1]
  /\ Return(r, "ok") \/ (attempt[r] < Attempts /\ Goto(r, "token") /\ UNCHANGED outcome)
  /\ UNCHANGED <<world, holder, on, woken, got, sent, attempt, tokensLeft, ended>>

(* The server carries a request out, or the answer to it is lost: it may   *)
(* have been carried out, and the default policy does not send it again.   *)
Answered(r) ==
  /\ pc[r] = "sending"
  /\ \/ /\ sent[r] = good
        /\ carried' = [carried EXCEPT ![r] = @ + 1]
        /\ Return(r, "ok") \/ Return(r, "lost")
     \/ Return(r, "lost") /\ UNCHANGED carried
  /\ UNCHANGED <<world, holder, on, woken, got, sent, attempt, tokensLeft, ended>>

DiscardAny(refused) == held' = NoToken /\ live' = FALSE     \* mutant

DiscardNone(refused) == UNCHANGED <<held, live>>     \* mutant

(* discard: the token refused is dropped, unless another is in its place.  *)
Discard(refused) ==
  IF held = refused THEN held' = NoToken /\ live' = FALSE ELSE UNCHANGED <<held, live>>

(* The server refuses the token: another is fetched and the request sent   *)
(* again, once, without waiting.                                           *)
TokenRefused(r) ==
  /\ pc[r] = "sending"
  /\ tokensLeft[r] > 0
  /\ sent[r] # good
  /\ Discard(sent[r])
  /\ tokensLeft' = [tokensLeft EXCEPT ![r] = @ - 1]
  /\ Goto(r, "token")
  /\ UNCHANGED <<world, fetching, err, on, woken, got, sent, attempt, carried, ended,
                 outcome>>

RefusedForGood(r) ==
  /\ pc[r] = "sending"
  /\ tokensLeft[r] = 0
  /\ sent[r] # good
  /\ Return(r, "refused")
  /\ UNCHANGED <<world, holder, on, woken, got, sent, attempt, tokensLeft, carried, ended>>

(* 429 or 503: the server did nothing.  While the policy has attempts left *)
(* and Retry-After is not too long, the request waits to be sent again.    *)
Busy(r) ==
  /\ pc[r] = "sending"
  /\ IF attempt[r] < Attempts /\ r \in rewindable
       THEN \/ Goto(r, "sleeping") /\ UNCHANGED outcome
            \/ Return(r, "later")
       ELSE Return(r, "busy")
  /\ UNCHANGED <<world, holder, on, woken, got, sent, attempt, tokensLeft, carried, ended>>

(* sleep: the delay passes, or the context ends first.                     *)
Wake(r) ==
  /\ pc[r] = "sleeping"
  /\ \/ Goto(r, "token") /\ UNCHANGED outcome
     \/ r \in ended /\ Return(r, "ended")
  /\ UNCHANGED <<world, holder, on, woken, got, sent, attempt, tokensLeft, carried, ended>>

Step(r) ==
  \/ TokenHeld(r)
  \/ TokenFetched(r)
  \/ SourceReturns(r)
  \/ StoreToken(r)
  \/ CallReturns(r)
  \/ StopWaiting(r)
  \/ WakeFetched(r)
  \/ WakeAbandoned(r)
  \/ Fetched(r)
  \/ Answered(r)
  \/ TokenRefused(r)
  \/ RefusedForGood(r)
  \/ Busy(r)
  \/ Wake(r)

Finished == (\A r \in Requests : pc[r] = "done") /\ UNCHANGED vars

Next ==
  \/ Revoke
  \/ TokenExpires
  \/ \E r \in Requests : Step(r) \/ ContextEnds(r)
  \/ Finished

Spec == Init /\ [][Next]_vars

(* A goroutine that can run does, the source returns, and an exchange and  *)
(* a delay end.                                                            *)
FairSpec == Spec /\ \A r \in Requests : WF_vars(Step(r))

------------------------------------------------------------------------------

(* Requests refused together call the source once between them: what it    *)
(* returns is newer than every token any request was sent with, so nothing *)
(* made the holder ask again for a token it had.                           *)
EachTokenFetchedOnce ==
  [][\A r, q \in Requests : StoreToken(r) /\ got[r] > 0 => got[r] > sent[q]]_vars

(* A revoked token costs a request whose body can be read again nothing:   *)
(* it is sent again with the next one, and is refused only where that was  *)
(* revoked under it too.                                                   *)
OneRevocationSurvived ==
  \A r \in rewindable : outcome[r] = "refused" => good >= 3

(* A request is carried out once however often it is sent: it is sent      *)
(* again only after an answer that says the server did nothing.            *)
CarriedOutOnce == \A r \in Requests : carried[r] <= 1

(* Every request comes back to its caller: no call of the source strands   *)
(* those waiting on it, and no refusal is retried for ever.                *)
EveryRequestEnds == \A r \in Requests : pc[r] = "token" ~> pc[r] = "done"

(* What the error fetched returns says: a request is told the source       *)
(* returned an empty token only where it did.  One that waited, and is     *)
(* woken only after another request's refusal has dropped the token, is    *)
(* told so of a source that never did.                                     *)
EmptyOnlyWhereEmpty ==
  "empty" \notin Faults => \A r \in Requests : outcome[r] # "empty"

==============================================================================
