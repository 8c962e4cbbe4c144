---------------------------- MODULE PushReceiver ----------------------------
(***************************************************************************)
(* push.go: Run, which keeps one push subscription at the server, beside   *)
(* ServeHTTP, which the server posts verification codes and state changes  *)
(* to.  A call of Run's is carried out at the server in one step and       *)
(* returns in a later one, so that a code may be posted before the answer  *)
(* that names its subscription, and an answer may be lost.                 *)
(*                                                                         *)
(* Times are how much is left of them, in a unit that is small beside a    *)
(* lifetime, and NoExpiry for none: a tick takes one off each.             *)
(* Subscriptions are numbered as Run asks for them, and so are the keys    *)
(* each is asked for with.                                                 *)
(***************************************************************************)
EXTENDS Integers, FiniteSets

CONSTANTS
  PlainTexts,     \* whether the receiver may do without keys, and with them
  Lifetimes,      \* PushReceiverOptions.Lifetime: what is asked for, or NoExpiry
  Longest,        \* the longest the server grants, where it grants an expiry at all
  VerifyTimeout,  \* PushReceiverOptions.VerifyTimeout
  CheckInterval,  \* PushReceiverOptions.CheckInterval
  MaxPendingCodes,\* maxPendingCodes, which is 16
  Strays,         \* subscriptions of an earlier Run whose codes may still come
  MaxTroubles     \* bound: calls failed or slow, posts repeated, subscriptions forgotten

NoExpiry == -1

ASSUME PlainTextsAssumption == PlainTexts \subseteq BOOLEAN
ASSUME TimesAssumption ==
  /\ Lifetimes \subseteq (Nat \ {0}) \cup {NoExpiry}
  /\ Longest \in Nat \ {0} /\ VerifyTimeout \in Nat \ {0} /\ CheckInterval \in Nat \ {0}
ASSUME BoundsAssumption == MaxPendingCodes \in Nat \ {0} /\ MaxTroubles \in Nat
ASSUME StraysAssumption == Strays \cap Nat = {}

VARIABLES
  plain, asks,        \* the receiver's options: PlainText and Lifetime
  subs,               \* the subscriptions at the server
  posts,              \* what the server has posted that has not reached ServeHTTP
  troubles,           \* how much has gone wrong
  attempt,            \* the subscription Run asked for last
  keys,               \* r.keys: whose keys are held, 0 for nil
  codes,              \* r.codes: the subscriptions a code is kept for
  signal,             \* r.arrived holds a signal
  signalling,         \* the codes ServeHTTP has kept and is about to tell Run of
  left, lifetime,     \* expires, less now, and lifetime in keep
  timer,              \* what is left of the wait in keep, or of awaitCode's limit
  call, answer,       \* the call Run is in, and the server's answer to it
  ended,              \* Run's context has ended
  pc,                 \* where Run is
  misses,             \* history: renewals that failed since one succeeded; a slow one counts for 2
  doubtful            \* history: subscriptions a create or destroy of which went unanswered

options == <<plain, asks>>
receiver == <<keys, codes, signal, signalling>>
expiry == <<left, lifetime, timer>>
calls == <<call, answer>>
history == <<misses, doubtful>>
vars == <<options, subs, posts, troubles, attempt, receiver, expiry, calls, ended, pc, history>>

Ids == 1..(MaxTroubles + 1)     \* each subscription after the first is made after a trouble
Absent == [there |-> FALSE, verified |-> FALSE, left |-> NoExpiry]
NoCall == [op |-> "none", asked |-> NoExpiry]
Answered(kind, l) == [kind |-> kind, left |-> l]
NoAnswer == Answered("none", NoExpiry)
Lesser(a, b) == IF a <= b THEN a ELSE b
Greater(a, b) == IF a >= b THEN a ELSE b

Init ==
  /\ plain \in PlainTexts /\ asks \in Lifetimes
  /\ subs = [i \in Ids |-> Absent]
  /\ posts = IF plain THEN [kind : {"code"}, of : Strays] ELSE {}
  /\ troubles = 0 /\ attempt = 0
  /\ keys = 0 /\ codes = {} /\ signal = FALSE /\ signalling = {}
  /\ left = NoExpiry /\ lifetime = asks /\ timer = 0
  /\ call = NoCall /\ answer = NoAnswer
  /\ ended = FALSE /\ pc = "subscribing"
  /\ misses = 0 /\ doubtful = {}

Trouble == troubles < MaxTroubles /\ troubles' = troubles + 1

------------------------------------------------------------------------------
\* Time, the context and the server.

Down(t) == IF t = NoExpiry THEN t ELSE Greater(t - 1, 0)

Expired(s) == s.there /\ s.left = 0

InCall == call # NoCall

(* Run's own steps take no time, nor does hearing that the context has     *)
(* ended; a call takes some only where it is slow.                         *)
Tick ==
  /\ \/ pc \in {"waiting", "selecting"} /\ timer > 0 /\ ~ended /\ UNCHANGED <<troubles, misses>>
     \/ InCall /\ answer = NoAnswer /\ Trouble /\ misses' = 2
  /\ subs' = [i \in Ids |->
                LET later == [subs[i] EXCEPT !.left = Down(@)]
                IN  IF Expired(later) THEN Absent ELSE later]
  /\ left' = Down(left)
  /\ timer' = Down(timer)
  /\ call' = [call EXCEPT !.asked = Down(@)]
  /\ UNCHANGED <<options, posts, attempt, receiver, lifetime, answer, ended, pc, doubtful>>

ContextEnds ==
  /\ ~ended /\ pc # "returned"
  /\ ended' = TRUE
  /\ UNCHANGED <<options, subs, posts, troubles, attempt, receiver, expiry, calls, pc, history>>

ServerForgets ==
  /\ Trouble
  /\ \E i \in Ids : subs[i].there /\ subs' = [subs EXCEPT ![i] = Absent]
  /\ UNCHANGED <<options, posts, attempt, receiver, expiry, calls, ended, pc, history>>

(* The server gives a subscription without an expiry one after all.        *)
ServerSetsExpiry ==
  /\ \E i \in Ids : /\ subs[i].verified /\ subs[i].left = NoExpiry
                    /\ subs' = [subs EXCEPT ![i].left = Longest]
  /\ UNCHANGED <<options, posts, troubles, attempt, receiver, expiry, calls, ended, pc, history>>

(* One state change at a time is on its way.                               *)
ServerPushes ==
  /\ pc # "returned" /\ \A p \in posts : p.kind = "code"
  /\ \E i \in Ids : subs[i].verified /\ posts' = posts \cup {[kind |-> "change", of |-> i]}
  /\ UNCHANGED <<options, subs, troubles, attempt, receiver, expiry, calls, ended, pc, history>>

(* What the server may grant where it is asked for a.                      *)
Grants(a) == IF a = NoExpiry THEN {NoExpiry, Longest} ELSE {a, Lesser(a, Longest)}

Answer(kind, l) == answer' = Answered(kind, l) /\ UNCHANGED call

(* The server carries a call out.  A call about a subscription it does not *)
(* have is answered with that.                                             *)
ServerCarriesOut ==
  /\ InCall /\ answer = NoAnswer
  /\ IF call.op # "create" /\ ~subs[attempt].there
     THEN /\ Answer("notFound", NoExpiry)
          /\ UNCHANGED <<subs, posts>>
     ELSE CASE call.op = "create" ->
                 /\ \E g \in Grants(call.asked) :
                      /\ subs' = [subs EXCEPT ![attempt] = [there |-> TRUE, verified |-> FALSE, left |-> g]]
                      /\ Answer("ok", g)
                 /\ posts' = posts \cup {[kind |-> "code", of |-> attempt]}
            [] call.op = "verify" ->
                 /\ subs' = [subs EXCEPT ![attempt].verified = TRUE]
                 /\ Answer("ok", NoExpiry)
                 /\ UNCHANGED posts
            [] call.op = "extend" ->
                 /\ \E g \in Grants(call.asked) :
                      /\ subs' = [subs EXCEPT ![attempt].left = g]
                      /\ Answer("ok", g)
                 /\ UNCHANGED posts
            [] call.op = "get" ->
                 /\ Answer("ok", subs[attempt].left)
                 /\ UNCHANGED <<subs, posts>>
            [] call.op = "destroy" ->
                 /\ subs' = [subs EXCEPT ![attempt] = Absent]
                 /\ Answer("ok", NoExpiry)
                 /\ UNCHANGED posts
  /\ UNCHANGED <<options, troubles, attempt, receiver, expiry, ended, pc, history>>

------------------------------------------------------------------------------
\* ServeHTTP.

(* A push opens under the keys of its subscription and no others.          *)
Opens(p) == plain \/ keys = p.of

Refuse(p) ==
  /\ ~Opens(p)
  /\ posts' = posts \ {p}
  /\ UNCHANGED <<options, subs, troubles, attempt, receiver, expiry, calls, ended, pc, history>>

(* OnStateChange is called; what it does is the caller's.                  *)
TakeChange(p) ==
  /\ p.kind = "change" /\ Opens(p)
  /\ posts' = posts \ {p}
  /\ UNCHANGED <<options, subs, troubles, attempt, receiver, expiry, calls, ended, pc, history>>

(* keepCode under its lock: where the map is full, a new code is dropped,  *)
(* and no one is told.  A server that does not hear that a code came posts *)
(* it again.                                                               *)
TakeCode(p) ==
  /\ p.kind = "code" /\ Opens(p)
  /\ \/ posts' = posts \ {p} /\ UNCHANGED troubles
     \/ Trouble /\ UNCHANGED posts
  /\ \/ /\ p.of \in codes \/ Cardinality(codes) < MaxPendingCodes
        /\ codes' = codes \cup {p.of}
        /\ signalling' = signalling \cup {p.of}
     \/ /\ p.of \notin codes /\ Cardinality(codes) >= MaxPendingCodes
        /\ UNCHANGED <<codes, signalling>>
  /\ UNCHANGED <<options, subs, attempt, keys, signal, expiry, calls, ended, pc, history>>

(* Mutant: a channel without a buffer, which only one already in its       *)
(* select hears.                                                           *)
SignalUnbuffered(i) ==
  /\ i \in signalling
  /\ signalling' = signalling \ {i}
  /\ signal' \in {FALSE, pc = "selecting"}
  /\ UNCHANGED <<options, subs, posts, troubles, attempt, keys, codes, expiry, calls, ended, pc, history>>

(* The channel holds one signal; a second is not waited to be sent.        *)
Signal(i) ==
  /\ i \in signalling
  /\ signalling' = signalling \ {i}
  /\ signal' = TRUE
  /\ UNCHANGED <<options, subs, posts, troubles, attempt, keys, codes, expiry, calls, ended, pc, history>>

------------------------------------------------------------------------------
\* Run.

Goto(to) == pc' = to /\ UNCHANGED call

Start(to, op, asked) == pc' = to /\ call' = [op |-> op, asked |-> asked]

Returned(to) == pc' = to /\ call' = NoCall /\ answer' = NoAnswer

(* A call returns with an error: it never reached the server, or its       *)
(* answer did not come back, or the context it was made under has ended.   *)
CallFails ==
  /\ InCall
  /\ \/ Trouble
     \/ ended /\ call.op # "destroy" /\ UNCHANGED troubles

(* A subscription is left to expire where Run cannot know it is there.     *)
Doubt(fails) ==
  doubtful' = IF fails /\ call.op \in {"create", "destroy"} THEN doubtful \cup {attempt} ELSE doubtful

(* subscribe, to its first call: keys of its own, in place before it.      *)
Subscribe ==
  /\ pc = "subscribing"
  /\ attempt < Cardinality(Ids)
  /\ attempt' = attempt + 1
  /\ keys' = IF plain THEN keys ELSE attempt + 1
  /\ Start("creating", "create", asks)
  /\ UNCHANGED <<options, subs, posts, troubles, codes, signal, signalling, expiry, answer, ended, history>>

CreateReturns ==
  /\ pc = "creating"
  /\ \/ /\ answer # NoAnswer
        /\ left' = answer.left /\ timer' = VerifyTimeout
        /\ Returned("checking") /\ Doubt(FALSE)
        /\ UNCHANGED troubles
     \/ /\ CallFails
        /\ Returned("returned") /\ Doubt(TRUE)
        /\ UNCHANGED <<left, timer>>
  /\ UNCHANGED <<options, subs, posts, attempt, receiver, lifetime, ended, misses>>

(* awaitCode under its lock: with the code, all others are dropped.        *)
CheckCode ==
  /\ pc = "checking"
  /\ \/ attempt \in codes /\ codes' = {} /\ Start("verifying", "verify", NoExpiry)
     \/ attempt \notin codes /\ Goto("selecting") /\ UNCHANGED codes
  /\ UNCHANGED <<options, subs, posts, troubles, attempt, keys, signal, signalling, expiry, answer, ended, history>>

(* awaitCode's select: a signal, VerifyTimeout, or the end of the context, *)
(* the last two of which end the subscription.                             *)
Select ==
  /\ pc = "selecting"
  /\ \/ signal /\ signal' = FALSE /\ Goto("checking")
     \/ (timer = 0 \/ ended) /\ Start("destroying", "destroy", NoExpiry) /\ UNCHANGED signal
  /\ UNCHANGED <<options, subs, posts, troubles, attempt, keys, codes, signalling, expiry, answer, ended, history>>

(* Mutant: the subscription is extended as it expires.                     *)
NextTurnLate(l) == IF l = NoExpiry THEN CheckInterval ELSE Greater(l - 1, 1)

(* How long keep waits for its next turn.                                  *)
NextTurn(l) == IF l = NoExpiry THEN CheckInterval ELSE Greater((l * 4) \div 5, 1)

(* Mutant: a code the server refuses leaves the subscription as it is.     *)
VerifyReturnsAndLeaves ==
  /\ pc = "verifying"
  /\ \/ /\ answer.kind = "ok"
        /\ lifetime' = IF asks = NoExpiry THEN left ELSE asks
        /\ timer' = NextTurn(left)
        /\ misses' = 0
        /\ Returned("waiting")
        /\ UNCHANGED troubles
     \/ /\ \/ answer.kind = "notFound" /\ UNCHANGED troubles
           \/ CallFails
        /\ Returned("returned")
        /\ UNCHANGED <<lifetime, timer, misses>>
  /\ UNCHANGED <<options, subs, posts, attempt, receiver, left, ended, doubtful>>

(* subscribe returns to Run, which sees what to ask for at each extension. *)
VerifyReturns ==
  /\ pc = "verifying"
  /\ \/ /\ answer.kind = "ok"
        /\ lifetime' = IF asks = NoExpiry THEN left ELSE asks
        /\ timer' = NextTurn(left)
        /\ misses' = 0
        /\ Returned("waiting")
        /\ UNCHANGED troubles
     \/ /\ \/ answer.kind = "notFound" /\ UNCHANGED troubles
           \/ CallFails
        /\ answer' = NoAnswer
        /\ Start("destroying", "destroy", NoExpiry)
        /\ UNCHANGED <<lifetime, timer, misses>>
  /\ UNCHANGED <<options, subs, posts, attempt, receiver, left, ended, doubtful>>

(* keep's wait: it is time to renew, or the context has ended.             *)
WaitEnds ==
  /\ pc = "waiting"
  /\ \/ ended /\ Start("destroying", "destroy", NoExpiry)
     \/ timer = 0 /\ left # NoExpiry /\ Start("renewing", "extend", lifetime)
     \/ timer = 0 /\ left = NoExpiry /\ Start("renewing", "get", NoExpiry)
  /\ UNCHANGED <<options, subs, posts, troubles, attempt, receiver, expiry, answer, ended, history>>

Renewed ==
  /\ answer.kind = "ok"
  /\ left' = answer.left
  /\ lifetime' = IF lifetime = NoExpiry /\ left = NoExpiry THEN answer.left ELSE lifetime
  /\ timer' = NextTurn(left')
  /\ misses' = 0
  /\ Returned("waiting")
  /\ UNCHANGED troubles

(* The server no longer has it: Run makes it again.                        *)
Lost ==
  /\ answer.kind = "notFound"
  /\ Returned("subscribing")
  /\ UNCHANGED <<expiry, misses, troubles>>

(* An error that may pass is tried again while the subscription lasts; any *)
(* other ends Run.                                                         *)
RenewalFails ==
  /\ CallFails
  /\ answer' = NoAnswer
  /\ \/ /\ ~ended /\ left # 0
        /\ timer' = NextTurn(left)
        /\ misses' = Lesser(misses + 1, 2)
        /\ pc' = "waiting" /\ call' = NoCall
     \/ /\ Start("destroying", "destroy", NoExpiry)
        /\ UNCHANGED <<timer, misses>>
  /\ UNCHANGED <<left, lifetime>>

(* Mutant: a subscription that is gone is waited for.                      *)
RenewReturnsToGone ==
  /\ pc = "renewing"
  /\ \/ Renewed
     \/ /\ answer.kind = "notFound"
        /\ timer' = NextTurn(left)
        /\ Returned("waiting")
        /\ UNCHANGED <<left, lifetime, misses, troubles>>
     \/ RenewalFails
  /\ UNCHANGED <<options, subs, posts, attempt, receiver, ended, doubtful>>

RenewReturns ==
  /\ pc = "renewing"
  /\ Renewed \/ Lost \/ RenewalFails
  /\ UNCHANGED <<options, subs, posts, attempt, receiver, ended, doubtful>>

(* destroy, on a context of its own; Run returns whatever comes of it.     *)
DestroyReturns ==
  /\ pc = "destroying"
  /\ \/ answer # NoAnswer /\ Doubt(FALSE) /\ UNCHANGED troubles
     \/ CallFails /\ Doubt(TRUE)
  /\ Returned("returned")
  /\ UNCHANGED <<options, subs, posts, attempt, receiver, expiry, ended, misses>>

------------------------------------------------------------------------------

Run == \/ Subscribe \/ CreateReturns \/ CheckCode \/ Select \/ VerifyReturns
       \/ WaitEnds \/ RenewReturns \/ DestroyReturns

ServeHTTP == \/ \E p \in posts : Refuse(p) \/ TakeChange(p) \/ TakeCode(p)
             \/ \E i \in Ids \cup Strays : Signal(i)

Server == ServerForgets \/ ServerSetsExpiry \/ ServerPushes \/ ServerCarriesOut

Next == Run \/ ServeHTTP \/ Server \/ Tick \/ ContextEnds

Spec == Init /\ [][Next]_vars

(* Run and the goroutines of ServeHTTP run on, time passes while they      *)
(* wait, and a call is carried out or fails: the HTTP client's timeout and *)
(* destroy's own see to that.                                              *)
FairSpec ==
  /\ Spec
  /\ WF_vars(Run) /\ WF_vars(Tick) /\ WF_vars(ServerCarriesOut)
  /\ WF_vars(\E i \in Ids \cup Strays : Signal(i))

------------------------------------------------------------------------------

(* Run never has two subscriptions at the server, and none once it has     *)
(* returned, save where the answer that told of one was lost.              *)
OneSubscription ==
  \A i \in Ids \ doubtful : subs[i].there => i = attempt /\ pc # "returned"

(* A code that is kept for the subscription awaitCode waits on is on its   *)
(* way to it: there is a signal, or ServeHTTP is about to send one.        *)
NoMissedCode ==
  pc = "selecting" /\ attempt \in codes => signal \/ signalling # {}

Kept == pc \in {"waiting", "renewing"} /\ subs[attempt].verified

(* A subscription that has been verified outlives one failed renewal: it   *)
(* is there, with time left, unless the server forgot it.                  *)
OneFailureSurvived ==
  [][(Kept /\ misses' <= 1) => (subs'[attempt].there \/ ServerForgets)]_vars

(* A subscription that is lost is made again, or Run says why not.         *)
InForceAgain == (pc = "waiting" /\ ~subs[attempt].there) ~> (Kept \/ pc = "returned")

==============================================================================
