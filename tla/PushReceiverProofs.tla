-------------------------- MODULE PushReceiverProofs --------------------------
(***************************************************************************)
(* Proofs about the push receiver, for any lifetimes, waits and number of  *)
(* troubles, with keys and without.  That a subscription outlives one      *)
(* failed renewal is proved where lifetimes are long beside the waits.     *)
(***************************************************************************)
EXTENDS PushReceiver, FiniteSetTheorems, TLAPS

------------------------------------------------------------------------------
(* The inductive invariant.  That a subscription is never left behind      *)
(* rests on what each call's answer tells Run of the one it is about.      *)

Subscriptions == [there : BOOLEAN, verified : BOOLEAN, left : Int]

Types ==
  /\ asks \in Int /\ left \in Int /\ lifetime \in Int
  /\ subs \in [Ids -> Subscriptions]
  /\ attempt \in {0} \cup Ids
  /\ call \in [op : {"none", "create", "verify", "extend", "get", "destroy"}, asked : Int]
  /\ answer \in [kind : {"none", "ok", "notFound"}, left : Int]

(* Run is in the call its place says, and answers are to calls.            *)
CallFits ==
  /\ call.op = "none" => call = NoCall /\ answer = NoAnswer
  /\ pc = "creating" <=> call.op = "create"
  /\ pc = "verifying" <=> call.op = "verify"
  /\ pc = "renewing" <=> call.op \in {"extend", "get"}
  /\ pc = "destroying" <=> call.op = "destroy"
  /\ pc # "subscribing" => attempt \in Ids

(* A server that answers that it does not have the subscription, or has    *)
(* destroyed it, does not have it.                                         *)
Gone(i) == ~subs[i].there \/ i \in doubtful

ToldGone ==
  answer.kind = "notFound" \/ (answer # NoAnswer /\ call.op = "destroy") => Gone(attempt)

(* Another is asked for only where the one before is gone.                 *)
AskedForOnceGone == pc = "subscribing" /\ attempt \in Ids => Gone(attempt)

IInv ==
  /\ Types
  /\ CallFits
  /\ ToldGone
  /\ AskedForOnceGone
  /\ OneSubscription
  /\ NoMissedCode

------------------------------------------------------------------------------

LEMMA Constants ==
  /\ NoExpiry = -1
  /\ Longest \in Int
  /\ Lifetimes \subseteq Int
  /\ MaxTroubles \in Nat
  /\ Ids = 1..(MaxTroubles + 1) /\ Cardinality(Ids) = MaxTroubles + 1
<1>1. MaxTroubles \in Nat /\ Ids = 1..(MaxTroubles + 1)
  BY BoundsAssumption DEF Ids
<1>2. Cardinality(1..(MaxTroubles + 1)) = MaxTroubles + 1
  BY <1>1, FS_Interval
<1> QED BY <1>1, <1>2, TimesAssumption DEF NoExpiry

LEMMA Calls ==
  /\ NoCall = [op |-> "none", asked |-> -1] /\ NoCall.op = "none" /\ NoCall.asked = -1
  /\ NoAnswer = [kind |-> "none", left |-> -1] /\ NoAnswer.kind = "none"
  /\ NoCall \in [op : {"none", "create", "verify", "extend", "get", "destroy"}, asked : Int]
  /\ NoAnswer \in [kind : {"none", "ok", "notFound"}, left : Int]
  BY DEF NoCall, NoAnswer, Answered, NoExpiry

LEMMA Timed == \A t \in Int : Down(t) \in Int /\ Down(-1) = -1
  BY Constants DEF Down, Greater

LEMMA InitInv == Init => IInv
<1> SUFFICES ASSUME Init PROVE IInv
  OBVIOUS
<1>1. Absent \in Subscriptions /\ ~Absent.there
  BY Constants DEF Absent, Subscriptions
<1>2. asks \in Int /\ left \in Int /\ lifetime \in Int
  BY Constants DEF Init
<1>3. subs = [i \in Ids |-> Absent] /\ attempt = 0 /\ call = NoCall /\ answer = NoAnswer /\ pc = "subscribing"
  BY DEF Init
<1>4. Types
  BY <1>1, <1>2, <1>3, Calls DEF Types
<1>5. CallFits /\ ToldGone
  BY <1>3, Calls DEF CallFits, ToldGone
<1>6. 0 \notin Ids
  BY Constants
<1>7. AskedForOnceGone /\ NoMissedCode
  BY <1>3, <1>6 DEF AskedForOnceGone, NoMissedCode
<1>8. OneSubscription
  BY <1>1, <1>3 DEF OneSubscription
<1> QED BY <1>4, <1>5, <1>7, <1>8 DEF IInv

------------------------------------------------------------------------------
\* Beside Run.

(* A subscription that was gone stays gone.                                *)
NoneMade == \A i \in Ids : subs'[i].there => subs[i].there

(* Where Run goes nowhere and no call is answered, what matters is that no *)
(* subscription is made, and that a code that is kept is told of.          *)
LEMMA BesideRun ==
  ASSUME IInv, UNCHANGED <<asks, attempt, answer, lifetime, pc, doubtful>>,
         left' \in Int, subs' \in [Ids -> Subscriptions], NoneMade,
         call'.op = call.op, call' \in [op : {call.op}, asked : Int],
         call.op = "none" => call' = call,
         NoMissedCode'
  PROVE  IInv'
<1>1. Types'
  BY DEF IInv, Types
<1>2. CallFits'
  BY DEF IInv, CallFits
<1>3. \A i \in Ids : Gone(i) => Gone(i)'
  BY DEF NoneMade, Gone
<1>4. attempt' = attempt /\ (attempt = 0 \/ attempt \in Ids)
  BY DEF IInv, Types
<1>5. answer.kind = "notFound" \/ (answer # NoAnswer /\ call.op = "destroy") => attempt \in Ids
  <2> SUFFICES ASSUME answer.kind = "notFound" \/ (answer # NoAnswer /\ call.op = "destroy")
               PROVE  attempt \in Ids
    OBVIOUS
  <2>1. answer # NoAnswer
    <3>1. answer.kind = "notFound" => answer.kind # NoAnswer.kind
      BY Calls
    <3> QED BY <3>1
  <2>2. call.op # "none"
    BY <2>1 DEF IInv, CallFits
  <2>3. call.op \in {"create", "verify", "extend", "get", "destroy"}
    BY <2>2 DEF IInv, Types
  <2>4. pc \in {"creating", "verifying", "renewing", "destroying"}
    BY <2>3 DEF IInv, CallFits
  <2> QED BY <2>4 DEF IInv, CallFits
<1>6. ToldGone'
  <2> SUFFICES ASSUME (answer.kind = "notFound" \/ (answer # NoAnswer /\ call.op = "destroy"))'
               PROVE  Gone(attempt)'
    BY DEF ToldGone
  <2>1. answer.kind = "notFound" \/ (answer # NoAnswer /\ call.op = "destroy")
    OBVIOUS
  <2>2. attempt \in Ids /\ Gone(attempt)
    BY <1>5, <2>1 DEF IInv, ToldGone
  <2> QED BY <1>3, <1>4, <2>2 DEF Gone
<1>7. AskedForOnceGone'
  BY <1>3, <1>4 DEF IInv, AskedForOnceGone, Gone
<1>8. OneSubscription'
  BY DEF IInv, OneSubscription, NoneMade
<1> QED BY <1>1, <1>2, <1>6, <1>7, <1>8 DEF IInv

LEMMA TickInv == ASSUME IInv, Tick PROVE IInv'
<1>1. /\ subs' = [i \in Ids |-> LET later == [subs[i] EXCEPT !.left = Down(@)]
                                IN  IF Expired(later) THEN Absent ELSE later]
      /\ left' = Down(left)
      /\ call' = [call EXCEPT !.asked = Down(@)]
      /\ UNCHANGED <<asks, attempt, codes, signal, signalling, lifetime, answer, pc, doubtful>>
  BY DEF Tick, options, receiver
<1>2. ASSUME NEW i \in Ids
      PROVE  subs'[i] \in Subscriptions /\ (subs'[i].there => subs[i].there)
  <2> DEFINE later == [subs[i] EXCEPT !.left = Down(@)]
  <2>1. subs[i] \in Subscriptions
    BY DEF IInv, Types
  <2>2. later \in Subscriptions /\ later.there = subs[i].there
    BY <2>1, Timed DEF Subscriptions
  <2>3. subs'[i] = IF Expired(later) THEN Absent ELSE later
    BY <1>1
  <2>4. Absent \in Subscriptions /\ ~Absent.there
    BY Constants DEF Absent, Subscriptions
  <2> HIDE DEF later
  <2> QED BY <2>2, <2>3, <2>4
<1>3. subs' \in [Ids -> Subscriptions] /\ NoneMade
  BY <1>1, <1>2 DEF NoneMade
<1>4. call'.op = call.op /\ call' \in [op : {call.op}, asked : Int]
  BY <1>1, Timed DEF IInv, Types
<1>5. call.op = "none" => call' = call
  <2> SUFFICES ASSUME call.op = "none" PROVE call' = call
    OBVIOUS
  <2>1. call = [op |-> "none", asked |-> -1]
    BY Calls DEF IInv, CallFits
  <2>2. Down(-1) = -1
    BY Timed
  <2>3. call' = [op |-> "none", asked |-> -1]
    BY <1>1, <2>1, <2>2
  <2> QED BY <2>1, <2>3
<1>6. left' \in Int
  BY <1>1, Timed DEF IInv, Types
<1>7. NoMissedCode'
  BY <1>1 DEF IInv, NoMissedCode
<1> QED BY <1>1, <1>3, <1>4, <1>5, <1>6, <1>7, BesideRun

LEMMA ServerInv ==
  ASSUME IInv, ContextEnds \/ ServerForgets \/ ServerSetsExpiry \/ ServerPushes
  PROVE  IInv'
<1>1. /\ UNCHANGED <<asks, attempt, codes, signal, signalling, left, lifetime, call, answer, pc, doubtful>>
      /\ \/ subs' = subs
         \/ \E i \in Ids : subs' = [subs EXCEPT ![i] = Absent]
         \/ \E i \in Ids : subs' = [subs EXCEPT ![i].left = Longest]
  BY DEF ContextEnds, ServerForgets, ServerSetsExpiry, ServerPushes, options, receiver, expiry, calls, history
<1>2. subs \in [Ids -> Subscriptions] /\ Absent \in Subscriptions /\ ~Absent.there
  BY Constants DEF IInv, Types, Absent, Subscriptions
<1>3. subs' \in [Ids -> Subscriptions] /\ NoneMade
  <2>1. CASE subs' = subs
    BY <1>2, <2>1 DEF NoneMade
  <2>2. ASSUME NEW i \in Ids, subs' = [subs EXCEPT ![i] = Absent]
        PROVE  subs' \in [Ids -> Subscriptions] /\ NoneMade
    BY <1>2, <2>2 DEF NoneMade
  <2>3. ASSUME NEW i \in Ids, subs' = [subs EXCEPT ![i].left = Longest]
        PROVE  subs' \in [Ids -> Subscriptions] /\ NoneMade
    <3> DEFINE s == [subs[i] EXCEPT !.left = Longest]
    <3>1. s \in Subscriptions /\ s.there = subs[i].there
      BY <1>2, Constants DEF Subscriptions
    <3>2. subs' = [subs EXCEPT ![i] = s]
      BY <2>3
    <3> HIDE DEF s
    <3> QED BY <1>2, <3>1, <3>2 DEF NoneMade
  <2> QED BY <1>1, <2>1, <2>2, <2>3
<1>4. NoMissedCode'
  BY <1>1 DEF IInv, NoMissedCode
<1>5. call \in [op : {call.op}, asked : Int] /\ left \in Int
  BY DEF IInv, Types
<1> QED BY <1>1, <1>3, <1>4, <1>5, BesideRun

(* ServeHTTP keeps a code before it tells of it, and tells of every code   *)
(* it keeps.                                                               *)
LEMMA ServeInv == ASSUME IInv, ServeHTTP PROVE IInv'
<1>1. /\ UNCHANGED <<asks, subs, attempt, left, lifetime, call, answer, pc, doubtful>>
      /\ \/ UNCHANGED <<codes, signal, signalling>>
         \/ signal' = signal /\ \E c : codes' = codes \cup {c} /\ signalling' = signalling \cup {c}
         \/ codes' = codes /\ signal' = TRUE
  BY DEF ServeHTTP, Refuse, TakeChange, TakeCode, Signal, options, receiver, expiry, calls, history
<1>2. NoMissedCode'
  BY <1>1 DEF IInv, NoMissedCode
<1>3. subs' \in [Ids -> Subscriptions] /\ NoneMade
  BY <1>1 DEF IInv, Types, NoneMade
<1>4. call \in [op : {call.op}, asked : Int] /\ left \in Int
  BY DEF IInv, Types
<1> QED BY <1>1, <1>2, <1>3, <1>4, BesideRun

(* What is granted is a time.                                              *)
LEMMA Granted == ASSUME NEW a \in Int, NEW g \in Grants(a) PROVE g \in Int
  BY Constants DEF Grants, Lesser

(* A call is carried out: a subscription is made by a create alone, and it *)
(* is gone where the answer says so.                                       *)
LEMMA ServerCarriesOutInv == ASSUME IInv, ServerCarriesOut PROVE IInv'
<1>1. /\ call.op # "none" /\ answer = NoAnswer
      /\ UNCHANGED <<asks, attempt, codes, signal, signalling, left, lifetime, call, pc, doubtful>>
  <2>1. call # NoCall /\ answer = NoAnswer
    BY DEF ServerCarriesOut, InCall
  <2>2. call.op # "none"
    BY <2>1 DEF IInv, CallFits
  <2>3. call.op \in {"create", "verify", "extend", "get", "destroy"}
    BY <2>2 DEF IInv, Types
  <2>4. call' = call
    BY <2>3 DEF ServerCarriesOut, Answer
  <2>5. UNCHANGED <<options, attempt, receiver, expiry, pc, history>>
    BY DEF ServerCarriesOut
  <2> QED BY <2>1, <2>2, <2>4, <2>5 DEF options, receiver, expiry, history
<1>2. /\ subs \in [Ids -> Subscriptions] /\ attempt \in {0} \cup Ids /\ call.asked \in Int
      /\ call.op \in {"create", "verify", "extend", "get", "destroy"}
      /\ Absent \in Subscriptions /\ ~Absent.there
  BY <1>1, Constants DEF IInv, Types, Absent, Subscriptions
<1>3. pc \in {"creating", "verifying", "renewing", "destroying"} /\ attempt \in Ids
  BY <1>1, <1>2 DEF IInv, CallFits
<1>4. /\ subs' \in [Ids -> Subscriptions]
      /\ \E k \in {"ok", "notFound"}, l \in Int : answer' = [kind |-> k, left |-> l]
      /\ \A i \in Ids : subs'[i].there => subs[i].there \/ (i = attempt /\ call.op = "create")
      /\ answer'.kind = "notFound" \/ call.op = "destroy" => ~subs'[attempt].there
  <2>1. CASE call.op # "create" /\ ~subs[attempt].there
    <3>1. subs' = subs /\ answer' = [kind |-> "notFound", left |-> -1]
      BY <2>1, Constants DEF ServerCarriesOut, Answer, Answered
    <3> QED BY <1>2, <2>1, <3>1
  <2>2. CASE call.op = "create"
    <3>1. PICK g \in Grants(call.asked) :
            /\ subs' = [subs EXCEPT ![attempt] = [there |-> TRUE, verified |-> FALSE, left |-> g]]
            /\ answer' = [kind |-> "ok", left |-> g]
      BY <2>2 DEF ServerCarriesOut, Answer, Answered
    <3>2. g \in Int
      BY <1>2, Granted
    <3>3. [there |-> TRUE, verified |-> FALSE, left |-> g] \in Subscriptions
      BY <3>2 DEF Subscriptions
    <3> QED BY <1>2, <1>3, <2>2, <3>1, <3>2, <3>3
  <2>3. CASE call.op = "verify" /\ subs[attempt].there
    <3> DEFINE s == [subs[attempt] EXCEPT !.verified = TRUE]
    <3>1. subs' = [subs EXCEPT ![attempt] = s] /\ answer' = [kind |-> "ok", left |-> -1]
      BY <2>3, Constants DEF ServerCarriesOut, Answer, Answered
    <3>2. s \in Subscriptions /\ s.there = subs[attempt].there
      BY <1>2, <1>3 DEF Subscriptions
    <3> HIDE DEF s
    <3> QED BY <1>2, <1>3, <2>3, <3>1, <3>2
  <2>4. CASE call.op = "extend" /\ subs[attempt].there
    <3>1. PICK g \in Grants(call.asked) :
            /\ subs' = [subs EXCEPT ![attempt].left = g]
            /\ answer' = [kind |-> "ok", left |-> g]
      BY <2>4 DEF ServerCarriesOut, Answer, Answered
    <3> DEFINE s == [subs[attempt] EXCEPT !.left = g]
    <3>2. g \in Int
      BY <1>2, Granted
    <3>3. subs' = [subs EXCEPT ![attempt] = s]
      BY <3>1
    <3>4. s \in Subscriptions /\ s.there = subs[attempt].there
      BY <1>2, <1>3, <3>2 DEF Subscriptions
    <3> HIDE DEF s
    <3> QED BY <1>2, <1>3, <2>4, <3>1, <3>2, <3>3, <3>4
  <2>5. CASE call.op = "get" /\ subs[attempt].there
    <3>1. subs' = subs /\ answer' = [kind |-> "ok", left |-> subs[attempt].left]
      BY <2>5 DEF ServerCarriesOut, Answer, Answered
    <3>2. subs[attempt].left \in Int
      BY <1>2, <1>3 DEF Subscriptions
    <3> QED BY <1>2, <2>5, <3>1, <3>2
  <2>6. CASE call.op = "destroy" /\ subs[attempt].there
    <3>1. subs' = [subs EXCEPT ![attempt] = Absent] /\ answer' = [kind |-> "ok", left |-> -1]
      BY <2>6, Constants DEF ServerCarriesOut, Answer, Answered
    <3> QED BY <1>2, <1>3, <2>6, <3>1
  <2> QED BY <1>2, <2>1, <2>2, <2>3, <2>4, <2>5, <2>6
<1>5. Types'
  BY <1>1, <1>2, <1>4 DEF IInv, Types
<1>6. CallFits'
  BY <1>1 DEF IInv, CallFits
<1>7. ToldGone'
  BY <1>1, <1>4, Calls DEF ToldGone, Gone
<1>8. AskedForOnceGone' /\ NoMissedCode'
  BY <1>1, <1>3 DEF IInv, AskedForOnceGone, NoMissedCode
<1>9. OneSubscription'
  BY <1>1, <1>3, <1>4 DEF IInv, OneSubscription
<1> QED BY <1>5, <1>6, <1>7, <1>8, <1>9 DEF IInv

------------------------------------------------------------------------------
\* Run.

(* Run makes no subscription itself and takes none away: what it is about, *)
(* and where it goes, decide.                                              *)
LEMMA RunGoes ==
  ASSUME IInv, subs' = subs, asks' = asks, left' \in Int, lifetime' \in Int,
         attempt' \in Ids,
         attempt' # attempt => \A i \in Ids : Gone(i),
         doubtful \subseteq doubtful',
         call' \in [op : {"none", "create", "verify", "extend", "get", "destroy"}, asked : Int],
         answer' = NoAnswer,
         call'.op = "none" => call' = NoCall,
         pc' = "creating" <=> call'.op = "create",
         pc' = "verifying" <=> call'.op = "verify",
         pc' = "renewing" <=> call'.op \in {"extend", "get"},
         pc' = "destroying" <=> call'.op = "destroy",
         pc' \in {"subscribing", "returned"} => Gone(attempt)',
         NoMissedCode'
  PROVE  IInv'
<1>1. Types'
  BY Calls DEF IInv, Types
<1>2. CallFits' /\ ToldGone' /\ AskedForOnceGone'
  BY Calls DEF CallFits, ToldGone, AskedForOnceGone
<1>3. OneSubscription'
  BY DEF IInv, OneSubscription, Gone
<1> QED BY <1>1, <1>2, <1>3 DEF IInv

(* Where Run is in none of its calls, it is told of nothing.               *)
LEMMA RunIsAt ==
  ASSUME IInv
  PROVE  /\ pc \in {"checking", "selecting", "waiting", "subscribing", "returned"} => call = NoCall /\ answer = NoAnswer
         /\ pc # "subscribing" => attempt \in Ids
         /\ asks \in Int /\ left \in Int /\ lifetime \in Int
         /\ answer.left \in Int /\ attempt \in {0} \cup Ids
         /\ call \in [op : {"none", "create", "verify", "extend", "get", "destroy"}, asked : Int]
<1>1. call.op \in {"none", "create", "verify", "extend", "get", "destroy"}
  BY DEF IInv, Types
<1> QED BY <1>1 DEF IInv, Types, CallFits

LEMMA SubscribeInv == ASSUME IInv, Subscribe PROVE IInv'
<1>1. /\ pc = "subscribing" /\ attempt < Cardinality(Ids) /\ attempt' = attempt + 1
      /\ pc' = "creating" /\ call' = [op |-> "create", asked |-> asks]
      /\ UNCHANGED <<asks, subs, left, lifetime, answer, doubtful>>
  BY DEF Subscribe, Start, options, expiry, history
<1>2. attempt' \in Ids
  BY <1>1, Constants, RunIsAt
<1>3. \A i \in Ids : Gone(i)
  BY <1>1 DEF IInv, OneSubscription, AskedForOnceGone, Gone
<1>4. NoMissedCode'
  BY <1>1 DEF NoMissedCode
<1>5. /\ call' \in [op : {"none", "create", "verify", "extend", "get", "destroy"}, asked : Int]
      /\ call'.op = "create"
  BY <1>1, RunIsAt
<1>6. answer' = NoAnswer /\ left' \in Int /\ lifetime' \in Int
  BY <1>1, RunIsAt
<1> QED BY <1>1, <1>2, <1>3, <1>4, <1>5, <1>6, RunGoes

(* Where an answer to a create or a destroy is lost, the subscription is   *)
(* left in doubt.                                                          *)
LEMMA EndsCall ==
  ASSUME IInv, CreateReturns \/ DestroyReturns
  PROVE  IInv'
<1>1. /\ UNCHANGED <<asks, subs, attempt, lifetime>> /\ attempt \in Ids
      /\ call' = NoCall /\ answer' = NoAnswer /\ pc' \in {"checking", "returned"}
      /\ pc = "creating" \/ pc = "destroying"
      /\ left' \in Int
  BY RunIsAt DEF CreateReturns, DestroyReturns, Returned, options, expiry
<1>2. doubtful \subseteq doubtful'
  BY DEF CreateReturns, DestroyReturns, Doubt
<1>3. pc' = "returned" => Gone(attempt)'
  <2>1. CASE CreateReturns
    <3>1. call.op = "create"
      BY <2>1 DEF CreateReturns, IInv, CallFits
    <3>2. pc' = "returned" => attempt \in doubtful'
      BY <2>1, <3>1 DEF CreateReturns, Returned, Doubt
    <3> QED BY <1>1, <3>2 DEF Gone
  <2>2. CASE DestroyReturns
    <3>1. call.op = "destroy"
      BY <2>2 DEF DestroyReturns, IInv, CallFits
    <3>2. answer # NoAnswer \/ attempt \in doubtful'
      BY <2>2, <3>1 DEF DestroyReturns, Doubt
    <3>3. answer # NoAnswer => Gone(attempt)
      BY <3>1 DEF IInv, ToldGone
    <3> QED BY <1>1, <1>2, <3>2, <3>3 DEF Gone
  <2> QED BY <2>1, <2>2
<1>4. NoMissedCode'
  BY <1>1 DEF NoMissedCode
<1>5. lifetime' \in Int
  BY <1>1, RunIsAt
<1> QED BY <1>1, <1>2, <1>3, <1>4, <1>5, Calls, RunGoes

(* awaitCode looks for the code before it waits to be told of one.         *)
LEMMA AwaitInv ==
  ASSUME IInv, CheckCode \/ Select
  PROVE  IInv'
<1>1. /\ UNCHANGED <<asks, subs, attempt, left, lifetime, answer, doubtful>>
      /\ pc \in {"checking", "selecting"} /\ call = NoCall /\ answer = NoAnswer /\ attempt \in Ids
      /\ left \in Int /\ lifetime \in Int
  BY RunIsAt DEF CheckCode, Select, options, expiry, history
<1>2. \/ pc' = "verifying" /\ call' = [op |-> "verify", asked |-> -1]
      \/ pc' = "selecting" /\ call' = NoCall /\ attempt \notin codes'
      \/ pc' = "checking" /\ call' = NoCall
      \/ pc' = "destroying" /\ call' = [op |-> "destroy", asked |-> -1]
  BY <1>1, Constants DEF CheckCode, Select, Start, Goto
<1>3. NoMissedCode'
  BY <1>1, <1>2 DEF NoMissedCode
<1> QED BY <1>1, <1>2, <1>3, Calls, RunGoes

LEMMA WaitEndsInv == ASSUME IInv, WaitEnds PROVE IInv'
<1>1. /\ UNCHANGED <<asks, subs, attempt, left, lifetime, answer, doubtful>>
      /\ answer = NoAnswer /\ attempt \in Ids /\ left \in Int /\ lifetime \in Int
  BY RunIsAt DEF WaitEnds, options, expiry, history
<1>2. \/ pc' = "destroying" /\ call' = [op |-> "destroy", asked |-> -1]
      \/ pc' = "renewing" /\ call' = [op |-> "extend", asked |-> lifetime]
      \/ pc' = "renewing" /\ call' = [op |-> "get", asked |-> -1]
  BY Constants DEF WaitEnds, Start
<1>3. NoMissedCode'
  BY <1>2 DEF NoMissedCode
<1>4. /\ call' \in [op : {"none", "create", "verify", "extend", "get", "destroy"}, asked : Int]
      /\ call'.op # "none"
      /\ pc' \in {"destroying", "renewing"}
      /\ pc' = "renewing" <=> call'.op \in {"extend", "get"}
      /\ pc' = "destroying" <=> call'.op = "destroy"
      /\ call'.op \notin {"create", "verify"}
  BY <1>1, <1>2
<1> QED BY <1>1, <1>3, <1>4, RunGoes

(* A subscription is made again only where the server has said that it     *)
(* does not have it, and Run ends only through destroy.                    *)
LEMMA CallReturnsInv ==
  ASSUME IInv, VerifyReturns \/ RenewReturns
  PROVE  IInv'
<1>1. /\ UNCHANGED <<asks, subs, attempt, doubtful>>
      /\ attempt \in Ids /\ left \in Int /\ lifetime \in Int /\ asks \in Int /\ answer.left \in Int
  BY RunIsAt DEF VerifyReturns, RenewReturns, options
<1>2. left' \in Int /\ lifetime' \in Int
  BY <1>1 DEF VerifyReturns, RenewReturns, Renewed, Lost, RenewalFails, expiry
<1>3. /\ answer' = NoAnswer
      /\ \/ pc' = "waiting" /\ call' = NoCall
         \/ pc' = "destroying" /\ call' = [op |-> "destroy", asked |-> -1]
         \/ pc' = "subscribing" /\ call' = NoCall /\ answer.kind = "notFound"
  BY Constants DEF VerifyReturns, RenewReturns, Renewed, Lost, RenewalFails, Returned, Start
<1>4. answer.kind = "notFound" => Gone(attempt)'
  BY <1>1 DEF IInv, ToldGone, Gone
<1>5. NoMissedCode'
  BY <1>3 DEF NoMissedCode
<1> QED BY <1>1, <1>2, <1>3, <1>4, <1>5, Calls, RunGoes

LEMMA NextInv == IInv /\ [Next]_vars => IInv'
<1> SUFFICES ASSUME IInv, [Next]_vars PROVE IInv'
  OBVIOUS
<1>1. CASE UNCHANGED vars
  BY <1>1 DEF vars, options, receiver, expiry, calls, history, IInv, Types, CallFits, ToldGone, Gone,
              AskedForOnceGone, OneSubscription, NoMissedCode
<1>2. CASE Run
  BY <1>2, SubscribeInv, EndsCall, AwaitInv, WaitEndsInv, CallReturnsInv DEF Run
<1>3. CASE ServeHTTP \/ Server \/ Tick \/ ContextEnds
  BY <1>3, ServeInv, ServerInv, ServerCarriesOutInv, TickInv DEF Server
<1> QED BY <1>1, <1>2, <1>3 DEF Next

(* So all of it holds of every reachable state.                           *)
LEMMA Invariant == Spec => []IInv
<1> QED BY InitInv, NextInv, PTL DEF Spec

------------------------------------------------------------------------------

(* Run never has two subscriptions at the server and leaves none behind,   *)
(* save one it cannot know of.                                             *)
THEOREM NoneLeftBehind == Spec => []OneSubscription
<1>1. IInv => OneSubscription
  BY DEF IInv
<1> QED BY <1>1, Invariant, PTL

(* A code kept for the subscription that waits for it is told of, whether  *)
(* it comes before or after Run waits.                                     *)
THEOREM CodeHeard == Spec => []NoMissedCode
<1>1. IInv => NoMissedCode
  BY DEF IInv
<1> QED BY <1>1, Invariant, PTL

------------------------------------------------------------------------------
(* Renewals in time.  What is left of a subscription outlasts the waits    *)
(* and the troubles that may still come, so one renewal may fail.          *)

(* What there must be left of it with so many troubles gone: enough for a  *)
(* renewal and its retry, and for each trouble to come.                    *)
Slack(t) == 6 + (MaxTroubles - t) * CheckInterval

(* The lifetimes asked for and granted are long beside the waits, and what *)
(* is asked for is not far beyond what the server grants.                  *)
LongEnough ==
  /\ Longest >= Slack(0) + Greater(VerifyTimeout, CheckInterval)
  /\ \A a \in Lifetimes \ {NoExpiry} : a >= Slack(0) + VerifyTimeout /\ a <= 5 * Longest

Counts == asks \in Lifetimes /\ troubles \in 0..MaxTroubles /\ misses \in 0..2 /\ timer \in Nat

Lasts(l, wait) == l = NoExpiry \/ l >= Slack(troubles) + wait

(* A time that may have been granted at first.                             *)
Fits(l) == IF asks = NoExpiry THEN l <= Longest ELSE l # NoExpiry /\ l <= asks

(* A slow create leaves less to ask for.                                   *)
WhileCreating ==
  pc = "creating" =>
    LET l == IF answer = NoAnswer THEN call.asked ELSE answer.left
    IN  /\ Lasts(l, VerifyTimeout) /\ Fits(l)
        /\ answer # NoAnswer /\ subs[attempt].there => subs[attempt].left = l /\ ~subs[attempt].verified

(* What Run counts is what is left at the server, where it may be given an *)
(* expiry once it is verified.                                             *)
UntilVerified ==
  pc \in {"checking", "selecting", "verifying"} =>
    /\ Lasts(left, IF pc = "verifying" THEN 0 ELSE timer) /\ Fits(left)
    /\ answer = NoAnswer /\ subs[attempt].there => subs[attempt].left = left /\ ~subs[attempt].verified
    /\ answer # NoAnswer /\ subs[attempt].there =>
         subs[attempt].left = left \/ (left = NoExpiry /\ subs[attempt].left = Longest)

InForce == pc \in {"waiting", "renewing"}

Asking ==
  InForce =>
    /\ (lifetime = NoExpiry) <=> (left = NoExpiry)
    /\ Lasts(lifetime, 0) /\ lifetime <= 5 * Longest
    /\ left <= lifetime
    /\ pc = "renewing" => timer = 0

(* One that Run knows no expiry of, and may have been given one.           *)
NeverExpires ==
  InForce /\ left = NoExpiry =>
    /\ timer <= CheckInterval
    /\ subs[attempt].there =>
         subs[attempt].left = NoExpiry \/ subs[attempt].left \in (Slack(troubles) + timer)..Longest

(* One that expires has time for the wait, and for another if none failed. *)
Expires ==
  InForce /\ left # NoExpiry /\ misses <= 1 =>
    /\ left >= timer + (2 - misses) /\ left - timer <= Longest
    /\ subs[attempt].there => subs[attempt].left >= left

WhileRenewing ==
  pc = "renewing" =>
    /\ (call.op = "extend") <=> (left # NoExpiry)
    /\ call.op = "extend" /\ answer = NoAnswer =>
         /\ call.asked >= Slack(troubles) /\ call.asked <= lifetime
         /\ misses <= 1 => call.asked = lifetime
    /\ answer.kind = "ok" =>
         /\ Lasts(answer.left, 0)
         /\ call.op = "extend" => answer.left # NoExpiry /\ answer.left <= lifetime
         /\ call.op = "get" => answer.left <= Longest
         /\ subs[attempt].there =>
              \/ subs[attempt].left = answer.left
              \/ answer.left = NoExpiry /\ subs[attempt].left = Longest

InTime == Counts /\ WhileCreating /\ UntilVerified /\ Asking /\ NeverExpires /\ Expires /\ WhileRenewing

------------------------------------------------------------------------------

LEMMA SlackLasts ==
  /\ MaxTroubles \in Nat /\ CheckInterval \in Nat \ {0} /\ VerifyTimeout \in Nat \ {0} /\ Longest \in Nat
  /\ \A t \in 0..MaxTroubles : Slack(t) \in Int /\ Slack(t) >= 6
  /\ \A t \in 0..MaxTroubles, u \in 0..MaxTroubles : t < u => Slack(u) + CheckInterval <= Slack(t)
<1>1. MaxTroubles \in Nat /\ CheckInterval \in Nat \ {0} /\ VerifyTimeout \in Nat \ {0} /\ Longest \in Nat
  BY BoundsAssumption, TimesAssumption
<1>2. ASSUME NEW t \in 0..MaxTroubles PROVE Slack(t) \in Int /\ Slack(t) >= 6
  <2>1. MaxTroubles - t \in Nat
    BY <1>1
  <2>2. \A k \in Nat, c \in Nat : k * c \in Nat
    OBVIOUS
  <2> QED BY <1>1, <2>1, <2>2 DEF Slack
<1>3. ASSUME NEW t \in 0..MaxTroubles, NEW u \in 0..MaxTroubles, t < u
      PROVE  Slack(u) + CheckInterval <= Slack(t)
  <2> DEFINE k == MaxTroubles - u
             d == u - t
  <2>1. k \in Nat /\ d \in Nat /\ d >= 1 /\ MaxTroubles - t = k + d
    BY <1>1, <1>3
  <2> HIDE DEF k, d
  <2>2. \A c \in Nat : (k + d) * c = k * c + d * c /\ d * c >= c /\ k * c \in Nat /\ d * c \in Nat
    BY <2>1
  <2>3. Slack(t) = 6 + (k + d) * CheckInterval /\ Slack(u) = 6 + k * CheckInterval
    BY <2>1 DEF Slack, k
  <2> QED BY <1>1, <2>2, <2>3
<1> QED BY <1>1, <1>2, <1>3

(* How a wait compares to what is left.                                    *)
LEMMA Turns ==
  /\ NextTurn(NoExpiry) = CheckInterval
  /\ \A l \in Int : NextTurn(l) \in Nat
  /\ \A l \in Nat : /\ NextTurn(l) \in Nat
                    /\ l >= 2 => NextTurn(l) <= l - 1
                    /\ l >= 6 => NextTurn(l) <= l - 2
                    /\ \A m \in Nat \ {0} : l <= 5 * m => l - NextTurn(l) <= m
<1>1. NextTurn(NoExpiry) = CheckInterval
  BY DEF NextTurn
<1>2. ASSUME NEW l \in Nat
      PROVE  /\ NextTurn(l) \in Nat
             /\ l >= 2 => NextTurn(l) <= l - 1
             /\ l >= 6 => NextTurn(l) <= l - 2
             /\ \A m \in Nat \ {0} : l <= 5 * m => l - NextTurn(l) <= m
  <2> DEFINE q == (l * 4) \div 5
  <2>1. q \in Nat /\ 5 * q <= 4 * l /\ 4 * l < 5 * q + 5
    OBVIOUS
  <2>2. NextTurn(l) = IF q >= 1 THEN q ELSE 1
    BY Constants DEF NextTurn, Greater
  <2> HIDE DEF q
  <2> QED BY <2>1, <2>2
<1>3. ASSUME NEW l \in Int PROVE NextTurn(l) \in Nat
  <2>1. (l * 4) \div 5 \in Int
    OBVIOUS
  <2> QED BY <2>1, SlackLasts DEF NextTurn, Greater
<1> QED BY <1>1, <1>2, <1>3

LEMMA At ==
  ASSUME IInv
  PROVE  /\ NoExpiry = -1 /\ asks \in Int /\ left \in Int /\ lifetime \in Int
         /\ call.asked \in Int /\ answer.left \in Int
         /\ subs \in [Ids -> Subscriptions]
         /\ pc # "subscribing" => /\ attempt \in Ids /\ subs[attempt] \in Subscriptions
                                  /\ subs[attempt].left \in Int
  BY Constants DEF IInv, Types, CallFits, Subscriptions

LEMMA LongEnoughFor ==
  ASSUME LongEnough
  PROVE  /\ \A t \in 0..MaxTroubles : /\ Longest >= Slack(t) + VerifyTimeout
                                      /\ Longest >= Slack(t) + CheckInterval
         /\ \A a \in Lifetimes \ {NoExpiry}, t \in 0..MaxTroubles :
              a >= Slack(t) + VerifyTimeout /\ a <= 5 * Longest
<1>1. \A t \in 0..MaxTroubles : Slack(t) <= Slack(0) /\ Slack(t) \in Int /\ Slack(0) \in Int
  BY SlackLasts
<1> QED BY <1>1, SlackLasts, Constants DEF LongEnough, Greater

(* Beside Run and time, a subscription may be forgotten, or one without an *)
(* expiry be given one.                                                    *)
LEMMA BesideTime ==
  ASSUME LongEnough, IInv, InTime,
         UNCHANGED <<asks, attempt, left, lifetime, timer, call, answer, pc, misses>>,
         troubles' \in 0..MaxTroubles, troubles' >= troubles,
         attempt \in Ids /\ subs'[attempt].there =>
           /\ subs[attempt].there
           /\ \/ subs'[attempt] = subs[attempt]
              \/ /\ subs[attempt].verified /\ subs[attempt].left = NoExpiry
                 /\ subs'[attempt].left = Longest
  PROVE  InTime'
<1>1. Counts'
  BY DEF InTime, Counts
<1>2. /\ Slack(troubles') <= Slack(troubles) /\ Slack(troubles') \in Int /\ Slack(troubles) \in Int
      /\ Slack(troubles') >= 6 /\ Longest \in Nat /\ Longest >= Slack(troubles') + CheckInterval
      /\ CheckInterval \in Nat
  BY SlackLasts, LongEnoughFor DEF InTime, Counts
<1>3. \A l \in Int, n \in Int : (Lasts(l, n) => Lasts(l, n)') /\ (Fits(l) => Fits(l)')
  BY <1>2 DEF Lasts, Fits
<1>4. WhileCreating'
  BY <1>3, At, SlackLasts DEF InTime, WhileCreating
<1>5. UntilVerified'
  <2> SUFFICES ASSUME pc \in {"checking", "selecting", "verifying"} PROVE UntilVerified'
    BY DEF UntilVerified
  <2>1. timer \in Int /\ (IF pc = "verifying" THEN 0 ELSE timer) \in Int
    BY DEF InTime, Counts
  <2>2. Lasts(left, IF pc = "verifying" THEN 0 ELSE timer)' /\ Fits(left)'
    BY <1>3, <2>1, At DEF InTime, UntilVerified
  <2> QED BY <2>2, At DEF InTime, UntilVerified
<1>6. Asking'
  BY <1>3, At DEF InTime, Asking, InForce
<1>7. NeverExpires'
  BY <1>2, At DEF InTime, Counts, NeverExpires, InForce
<1>8. Expires'
  BY At DEF InTime, Counts, Expires, InForce
<1>9. WhileRenewing'
  BY <1>2, <1>3, At DEF InTime, WhileRenewing
<1> QED BY <1>1, <1>4, <1>5, <1>6, <1>7, <1>8, <1>9 DEF InTime

LEMMA TroubleCounted == ASSUME InTime, Trouble PROVE troubles' = troubles + 1 /\ troubles' \in 0..MaxTroubles
  BY SlackLasts DEF Trouble, InTime, Counts

LEMMA ServeHTTPInTime ==
  ASSUME LongEnough, IInv, InTime, ServeHTTP \/ ServerPushes \/ ContextEnds
  PROVE  InTime'
<1>1. /\ UNCHANGED <<asks, subs, attempt, left, lifetime, timer, call, answer, pc, misses>>
      /\ troubles' = troubles \/ Trouble
  BY DEF ServeHTTP, Refuse, TakeChange, TakeCode, Signal, ServerPushes, ContextEnds,
         options, receiver, expiry, calls, history
<1>2. troubles \in 0..MaxTroubles
  BY DEF InTime, Counts
<1>3. troubles' \in 0..MaxTroubles /\ troubles' >= troubles
  BY <1>1, <1>2, TroubleCounted
<1> QED BY <1>1, <1>3, BesideTime

LEMMA ServerInTime ==
  ASSUME LongEnough, IInv, InTime, ServerForgets \/ ServerSetsExpiry
  PROVE  InTime'
<1>1. /\ UNCHANGED <<asks, attempt, left, lifetime, timer, call, answer, pc, misses>>
      /\ \/ Trouble /\ \E i \in Ids : subs' = [subs EXCEPT ![i] = Absent]
         \/ /\ troubles' = troubles
            /\ \E i \in Ids : /\ subs[i].verified /\ subs[i].left = NoExpiry
                              /\ subs' = [subs EXCEPT ![i].left = Longest]
  BY DEF ServerForgets, ServerSetsExpiry, options, receiver, expiry, calls, history
<1>2. troubles' \in 0..MaxTroubles /\ troubles' >= troubles
  BY <1>1, TroubleCounted DEF InTime, Counts
<1>3. ASSUME attempt \in Ids, subs'[attempt].there
      PROVE  /\ subs[attempt].there
             /\ \/ subs'[attempt] = subs[attempt]
                \/ /\ subs[attempt].verified /\ subs[attempt].left = NoExpiry
                   /\ subs'[attempt].left = Longest
  <2>1. subs \in [Ids -> Subscriptions] /\ subs[attempt] \in Subscriptions /\ ~Absent.there
    BY <1>3, At DEF Absent
  <2>2. ASSUME NEW i \in Ids, subs' = [subs EXCEPT ![i] = Absent]
        PROVE  subs[attempt].there /\ subs'[attempt] = subs[attempt]
    BY <1>3, <2>1, <2>2
  <2>3. ASSUME NEW i \in Ids, subs[i].verified, subs[i].left = NoExpiry, subs' = [subs EXCEPT ![i].left = Longest]
        PROVE  /\ subs[attempt].there
               /\ \/ subs'[attempt] = subs[attempt]
                  \/ /\ subs[attempt].verified /\ subs[attempt].left = NoExpiry
                     /\ subs'[attempt].left = Longest
    <3>1. CASE i = attempt
      <4>1. subs'[attempt] = [subs[attempt] EXCEPT !.left = Longest]
        BY <1>3, <2>1, <2>3, <3>1
      <4> QED BY <1>3, <2>1, <2>3, <3>1, <4>1 DEF Subscriptions
    <3>2. CASE i # attempt
      BY <1>3, <2>1, <2>3, <3>2
    <3> QED BY <3>1, <3>2
  <2> QED BY <1>1, <2>2, <2>3
<1> QED BY <1>1, <1>2, <1>3, BesideTime

LEMMA Downs ==
  /\ Down(NoExpiry) = NoExpiry
  /\ \A t \in Int : /\ Down(t) \in Int
                    /\ t # NoExpiry => Down(t) >= 0 /\ Down(t) # NoExpiry /\ Down(t) >= t - 1
                    /\ Down(t) <= t \/ Down(t) = 0 \/ t = NoExpiry
                    /\ t >= 1 => Down(t) = t - 1
                    /\ t # NoExpiry /\ t <= 0 => Down(t) = 0
  BY Constants DEF Down, Greater

LEMMA FitsOnceLess ==
  ASSUME InTime, asks' = asks
  PROVE  \A l \in Int : Fits(l) => Fits(Down(l))'
<1>1. asks = NoExpiry \/ asks \in Nat \ {0}
  BY TimesAssumption DEF InTime, Counts
<1>2. Longest \in Nat /\ NoExpiry = -1
  BY SlackLasts, Constants
<1> SUFFICES ASSUME NEW l \in Int, Fits(l) PROVE Fits(Down(l))'
  OBVIOUS
<1>3. CASE asks = NoExpiry
  <2>1. l <= Longest
    BY <1>3 DEF Fits
  <2>2. Down(l) <= Longest
    BY <1>2, <2>1, Downs
  <2> QED BY <1>3, <2>2 DEF Fits
<1>4. CASE asks # NoExpiry
  <2>1. l # NoExpiry /\ l <= asks
    BY <1>4 DEF Fits
  <2>2. Down(l) # NoExpiry /\ Down(l) <= asks
    BY <1>1, <1>2, <1>4, <2>1, Downs
  <2> QED BY <1>4, <2>2 DEF Fits
<1> QED BY <1>3, <1>4

(* A slow call costs a trouble and a tick, and Slack has a wait for it.    *)
LEMMA TickInTime == ASSUME LongEnough, IInv, InTime, Tick PROVE InTime'
<1>1. /\ left' = Down(left) /\ timer' = Down(timer) /\ call' = [call EXCEPT !.asked = Down(@)]
      /\ UNCHANGED <<asks, attempt, lifetime, answer, pc>>
      /\ \/ pc \in {"waiting", "selecting"} /\ timer > 0 /\ UNCHANGED <<troubles, misses>>
         \/ InCall /\ answer = NoAnswer /\ Trouble /\ misses' = 2
  BY DEF Tick, options
<1>2. call'.asked = Down(call.asked) /\ call'.op = call.op
  BY <1>1 DEF IInv, Types
<1>3. attempt \in Ids /\ subs'[attempt].there =>
        /\ subs[attempt].there /\ subs'[attempt].verified = subs[attempt].verified
        /\ subs'[attempt].left = Down(subs[attempt].left) /\ subs[attempt].left \in Int
  <2> SUFFICES ASSUME attempt \in Ids, subs'[attempt].there
               PROVE  /\ subs[attempt].there /\ subs'[attempt].verified = subs[attempt].verified
                      /\ subs'[attempt].left = Down(subs[attempt].left) /\ subs[attempt].left \in Int
    OBVIOUS
  <2> DEFINE later == [subs[attempt] EXCEPT !.left = Down(@)]
  <2>1. subs[attempt] \in Subscriptions
    BY At
  <2>2. subs'[attempt] = IF Expired(later) THEN Absent ELSE later
    BY DEF Tick
  <2>3. subs'[attempt] = later
    BY <2>2 DEF Absent
  <2> QED BY <2>1, <2>3 DEF Subscriptions
<1>4. Counts /\ Slack(troubles) \in Int /\ Slack(troubles) >= 6 /\ CheckInterval \in Nat \ {0}
  BY SlackLasts DEF InTime, Counts
<1>5. CASE pc \in {"waiting", "selecting"} /\ timer > 0 /\ UNCHANGED <<troubles, misses>>
  <2>1. timer' = timer - 1 /\ timer \in Nat /\ timer > 0
    BY <1>1, <1>4, <1>5, Downs DEF Counts
  <2>2. Counts'
    BY <1>1, <1>4, <1>5, <2>1 DEF Counts
  <2>3. WhileCreating' /\ WhileRenewing'
    BY <1>1, <1>5 DEF WhileCreating, WhileRenewing
  <2>4. pc = "selecting" => call = NoCall /\ answer = NoAnswer /\ attempt \in Ids
    BY RunIsAt
  <2>5. UntilVerified'
    <3> SUFFICES ASSUME pc = "selecting" PROVE UntilVerified'
      BY <1>1, <1>5 DEF UntilVerified
    <3>1. Lasts(left, timer) /\ Fits(left) /\ (subs[attempt].there => subs[attempt].left = left /\ ~subs[attempt].verified)
      BY <2>4 DEF InTime, UntilVerified
    <3>2. Lasts(left, timer)'
      BY <1>1, <1>4, <1>5, <2>1, <3>1, At, Downs DEF Lasts
    <3>3. Fits(left)'
      BY <1>1, <3>1, At, FitsOnceLess DEF Fits
    <3>4. subs'[attempt].there => subs'[attempt].left = left' /\ ~subs'[attempt].verified
      BY <1>1, <1>3, <2>4, <3>1
    <3> QED BY <1>1, <2>4, <3>2, <3>3, <3>4 DEF UntilVerified
  <2>6. pc = "waiting" => attempt \in Ids
    BY RunIsAt
  <2>7. Asking'
    BY <1>1, <1>4, <1>5, At, Downs DEF InTime, Asking, InForce, Lasts
  <2>8. NeverExpires'
    <3> SUFFICES ASSUME pc = "waiting", left' = NoExpiry PROVE NeverExpires'
      BY <1>1, <1>5 DEF NeverExpires, InForce
    <3>1. left = NoExpiry
      BY <1>1, At, Downs
    <3>2. /\ timer <= CheckInterval
          /\ subs[attempt].there =>
               subs[attempt].left = NoExpiry \/ subs[attempt].left \in (Slack(troubles) + timer)..Longest
      BY <3>1 DEF InTime, NeverExpires, InForce
    <3>3. subs'[attempt].there =>
            subs'[attempt].left = NoExpiry \/ subs'[attempt].left \in (Slack(troubles) + timer')..Longest
      BY <1>3, <1>4, <2>1, <2>6, <3>2, Downs, SlackLasts
    <3> QED BY <1>1, <1>4, <1>5, <2>1, <3>2, <3>3 DEF NeverExpires
  <2>9. Expires'
    <3> SUFFICES ASSUME pc = "waiting", left' # NoExpiry, misses <= 1 PROVE Expires'
      BY <1>1, <1>5 DEF Expires, InForce
    <3>1. left # NoExpiry /\ left >= timer + (2 - misses) /\ left - timer <= Longest
            /\ (subs[attempt].there => subs[attempt].left >= left)
      BY <1>1, Downs DEF InTime, Expires, InForce
    <3>2. left' = left - 1
      BY <1>1, <1>4, <2>1, <3>1, At, Downs DEF Counts
    <3>3. subs'[attempt].there => subs'[attempt].left >= left'
      BY <1>3, <1>4, <2>1, <2>6, <3>1, <3>2, At, Downs DEF Counts
    <3> QED BY <1>1, <1>4, <1>5, <2>1, <3>1, <3>2, <3>3, At, SlackLasts DEF Expires, Counts
  <2> QED BY <2>2, <2>3, <2>5, <2>7, <2>8, <2>9 DEF InTime
<1>6. CASE InCall /\ answer = NoAnswer /\ Trouble /\ misses' = 2
  <2>1. /\ troubles' \in 0..MaxTroubles /\ Slack(troubles') \in Int /\ Slack(troubles') >= 6
        /\ Slack(troubles') + CheckInterval <= Slack(troubles)
    BY <1>4, <1>6, TroubleCounted, SlackLasts DEF Counts
  <2>2. Counts'
    BY <1>1, <1>4, <1>6, <2>1, Downs DEF Counts
  <2>3. pc \in {"creating", "verifying", "renewing", "destroying"} /\ attempt \in Ids
    BY <1>6, RunIsAt DEF InCall, IInv, CallFits, Types
  <2>4. \A l \in Int, n \in Nat : Lasts(l, n) /\ Fits(l) => Lasts(Down(l), n)' /\ Fits(Down(l))'
    <3>1. \A l \in Int, n \in Nat : Lasts(l, n) => Lasts(Down(l), n)'
      BY <1>1, <1>4, <2>1, Downs, Constants DEF Lasts
    <3> QED BY <1>1, <3>1, FitsOnceLess
  <2>5. WhileCreating'
    BY <1>1, <1>2, <1>6, <2>4, At, SlackLasts DEF InTime, WhileCreating
  <2>6. UntilVerified'
    BY <1>1, <1>3, <1>6, <2>3, <2>4, At DEF InTime, UntilVerified
  <2>7. Asking'
    BY <1>1, <1>4, <2>1, <2>3, At, Downs DEF InTime, Asking, InForce, Lasts
  <2>8. NeverExpires'
    <3> SUFFICES ASSUME pc = "renewing", left' = NoExpiry PROVE NeverExpires'
      BY <1>1, <2>3 DEF NeverExpires, InForce
    <3>0. timer = 0
      BY DEF InTime, Asking, InForce
    <3>1. left = NoExpiry /\ timer = 0 /\ timer' = 0
      BY <1>1, <3>0, At, Downs
    <3>2. subs[attempt].there =>
            subs[attempt].left = NoExpiry \/ subs[attempt].left \in Slack(troubles)..Longest
      BY <1>4, <3>1 DEF InTime, NeverExpires, InForce
    <3> QED BY <1>1, <1>3, <1>4, <2>1, <2>3, <3>1, <3>2, Downs, SlackLasts DEF NeverExpires
  <2>9. Expires'
    BY <1>6 DEF Expires
  <2>10. WhileRenewing'
    <3> SUFFICES ASSUME pc = "renewing" PROVE WhileRenewing'
      BY <1>1 DEF WhileRenewing
    <3>1. (left = NoExpiry) <=> (left' = NoExpiry)
      BY <1>1, At, Downs
    <3>2. answer'.kind # "ok"
      BY <1>1, <1>6, Calls
    <3>3. call.op = "extend" => call'.asked >= Slack(troubles') /\ call'.asked <= lifetime
      BY <1>1, <1>2, <1>4, <1>6, <2>1, At, Downs DEF InTime, WhileRenewing
    <3> QED BY <1>1, <1>2, <1>6, <3>1, <3>2, <3>3 DEF InTime, WhileRenewing
  <2> QED BY <2>2, <2>5, <2>6, <2>7, <2>8, <2>9, <2>10 DEF InTime
<1> QED BY <1>1, <1>5, <1>6

LEMMA GrantLasts ==
  ASSUME LongEnough, InTime, NEW a \in Int, NEW g \in Grants(a)
  PROVE  /\ g \in Int
         /\ \A n \in 0..VerifyTimeout : Lasts(a, n) => Lasts(g, n)
         /\ Fits(a) => Fits(g)
         /\ a # NoExpiry => g <= a /\ (g = a \/ g = Longest)
         /\ a = NoExpiry => g \in {NoExpiry, Longest}
<1>1. /\ Slack(troubles) \in Int /\ Longest \in Nat /\ Longest >= Slack(troubles) + VerifyTimeout
      /\ VerifyTimeout \in Nat /\ NoExpiry = -1
  BY SlackLasts, LongEnoughFor, Constants DEF InTime, Counts
<1>2. g \in Int /\ (a # NoExpiry => g <= a /\ (g = a \/ g = Longest)) /\ (a = NoExpiry => g \in {NoExpiry, Longest})
  BY <1>1 DEF Grants, Lesser
<1>3. \A n \in 0..VerifyTimeout : Lasts(a, n) => Lasts(g, n)
  BY <1>1, <1>2 DEF Lasts
<1>4. asks = NoExpiry \/ asks \in Int
  BY Constants DEF InTime, Counts
<1>5. Fits(a) => Fits(g)
  BY <1>1, <1>2, <1>4 DEF Fits
<1> QED BY <1>2, <1>3, <1>5

(* What the server says is left of a subscription is what is.              *)
LEMMA ServerCarriesOutInTime == ASSUME LongEnough, IInv, InTime, ServerCarriesOut PROVE InTime'
<1>1. /\ call.op # "none" /\ answer = NoAnswer
      /\ UNCHANGED <<asks, troubles, attempt, left, lifetime, timer, pc, misses>>
  <2>1. call # NoCall /\ answer = NoAnswer
    BY DEF ServerCarriesOut, InCall
  <2>2. call.op # "none"
    BY <2>1 DEF IInv, CallFits
  <2> QED BY <2>1, <2>2 DEF ServerCarriesOut, options, receiver, expiry, history
<1>2. /\ call.op \in {"create", "verify", "extend", "get", "destroy"} /\ attempt \in Ids
      /\ subs \in [Ids -> Subscriptions] /\ subs[attempt] \in Subscriptions
      /\ call.asked \in Int /\ left \in Int /\ lifetime \in Int
      /\ pc = "creating" <=> call.op = "create"
      /\ pc = "verifying" <=> call.op = "verify"
      /\ pc = "renewing" <=> call.op \in {"extend", "get"}
      /\ pc = "destroying" <=> call.op = "destroy"
      /\ pc \in {"creating", "verifying", "renewing", "destroying"}
  BY <1>1, At DEF IInv, Types, CallFits
<1>3. Counts /\ Counts' /\ Slack(troubles) \in Int /\ Slack(troubles) >= 6 /\ Longest \in Nat
  BY <1>1, SlackLasts DEF InTime, Counts
<1>4. Asking'
  BY <1>1 DEF InTime, Asking, InForce, Lasts
<1>5. CASE call.op # "create" /\ ~subs[attempt].there
  <2>1. subs' = subs /\ answer' = [kind |-> "notFound", left |-> -1] /\ call' = call
    BY <1>5, Constants DEF ServerCarriesOut, Answer, Answered
  <2>2. WhileCreating' /\ UntilVerified' /\ NeverExpires' /\ Expires' /\ WhileRenewing'
    BY <1>1, <1>2, <1>5, <2>1 DEF InTime, WhileCreating, UntilVerified, NeverExpires, Expires, WhileRenewing,
                                  Lasts, Fits, InForce
  <2> QED BY <1>3, <1>4, <2>2 DEF InTime
<1>6. CASE call.op = "create"
  <2>1. PICK g \in Grants(call.asked) :
          /\ subs' = [subs EXCEPT ![attempt] = [there |-> TRUE, verified |-> FALSE, left |-> g]]
          /\ answer' = [kind |-> "ok", left |-> g] /\ call' = call
    BY <1>6 DEF ServerCarriesOut, Answer, Answered
  <2>2. Lasts(call.asked, VerifyTimeout) /\ Fits(call.asked)
    BY <1>1, <1>2, <1>6 DEF InTime, WhileCreating
  <2>3. VerifyTimeout \in 0..VerifyTimeout
    BY SlackLasts
  <2>4. Lasts(g, VerifyTimeout) /\ Fits(g)
    BY <1>2, <2>2, <2>3, GrantLasts
  <2>5. answer' # NoAnswer /\ answer'.left = g
    BY <2>1, Calls
  <2>6. subs'[attempt].left = g /\ ~subs'[attempt].verified
    BY <1>2, <2>1
  <2>7. WhileCreating'
    BY <1>1, <2>4, <2>5, <2>6 DEF WhileCreating, Lasts, Fits
  <2>8. UntilVerified' /\ NeverExpires' /\ Expires' /\ WhileRenewing'
    BY <1>1, <1>2, <1>6 DEF UntilVerified, NeverExpires, Expires, WhileRenewing, InForce
  <2> QED BY <1>3, <1>4, <2>7, <2>8 DEF InTime
<1>7. CASE call.op = "verify" /\ subs[attempt].there
  <2>1. subs' = [subs EXCEPT ![attempt].verified = TRUE] /\ answer' = [kind |-> "ok", left |-> -1]
    BY <1>7, Constants DEF ServerCarriesOut, Answer, Answered
  <2>2. answer' # NoAnswer /\ subs'[attempt].left = subs[attempt].left
    BY <1>2, <2>1, Calls DEF Subscriptions
  <2>3. subs[attempt].left = left
    BY <1>1, <1>2, <1>7 DEF InTime, UntilVerified
  <2>4. UntilVerified'
    BY <1>1, <1>2, <1>7, <2>2, <2>3 DEF InTime, UntilVerified, Lasts, Fits
  <2>5. WhileCreating' /\ NeverExpires' /\ Expires' /\ WhileRenewing'
    BY <1>1, <1>2, <1>7 DEF WhileCreating, NeverExpires, Expires, WhileRenewing, InForce
  <2> QED BY <1>3, <1>4, <2>4, <2>5 DEF InTime
<1>8. CASE call.op = "extend" /\ subs[attempt].there
  <2>1. PICK g \in Grants(call.asked) :
          /\ subs' = [subs EXCEPT ![attempt].left = g]
          /\ answer' = [kind |-> "ok", left |-> g] /\ call' = call
    BY <1>8 DEF ServerCarriesOut, Answer, Answered
  <2>2. /\ pc = "renewing" /\ left # NoExpiry /\ timer = 0 /\ left <= lifetime
        /\ call.asked >= Slack(troubles) /\ call.asked <= lifetime
        /\ misses <= 1 => call.asked = lifetime
    BY <1>1, <1>2, <1>8 DEF InTime, WhileRenewing, Asking, InForce
  <2>3. call.asked # NoExpiry /\ Lasts(call.asked, 0) /\ 0 \in 0..VerifyTimeout
    BY <1>2, <1>3, <2>2, Constants, SlackLasts DEF Lasts
  <2>4. g \in Int /\ Lasts(g, 0) /\ g <= call.asked /\ (g = call.asked \/ g = Longest)
    BY <1>2, <2>3, GrantLasts
  <2>5. g # NoExpiry
    BY <1>3, <2>2, <2>4, Constants, SlackLasts, LongEnoughFor
  <2>6. subs'[attempt].left = g
    BY <1>2, <2>1 DEF Subscriptions
  <2>7. Expires'
    <3>1. misses <= 1 => left >= timer + (2 - misses) /\ left - timer <= Longest
      BY <2>2 DEF InTime, Expires, InForce
    <3>2. misses <= 1 => g >= left
      BY <1>2, <1>3, <2>2, <2>4, <3>1
    <3> QED BY <1>1, <2>6, <3>1, <3>2 DEF Expires
  <2>8. WhileRenewing'
    BY <1>1, <1>2, <1>8, <2>1, <2>2, <2>4, <2>5, <2>6, Calls DEF WhileRenewing, Lasts
  <2>9. WhileCreating' /\ UntilVerified' /\ NeverExpires'
    BY <1>1, <2>2 DEF WhileCreating, UntilVerified, NeverExpires
  <2> QED BY <1>3, <1>4, <2>7, <2>8, <2>9 DEF InTime
<1>9. CASE call.op = "get" /\ subs[attempt].there
  <2>1. subs' = subs /\ answer' = [kind |-> "ok", left |-> subs[attempt].left] /\ call' = call
    BY <1>9 DEF ServerCarriesOut, Answer, Answered
  <2>2. pc = "renewing" /\ left = NoExpiry /\ timer = 0
    BY <1>2, <1>9 DEF InTime, WhileRenewing, Asking, InForce
  <2>3. subs[attempt].left = NoExpiry \/ subs[attempt].left \in Slack(troubles)..Longest
    BY <1>3, <1>9, <2>2 DEF InTime, NeverExpires, InForce
  <2>4. Lasts(subs[attempt].left, 0) /\ subs[attempt].left <= Longest
    BY <1>3, <2>3, Constants, SlackLasts DEF Lasts
  <2>5. WhileRenewing'
    BY <1>1, <1>2, <1>9, <2>1, <2>2, <2>4, Calls DEF WhileRenewing, Lasts
  <2>6. NeverExpires' /\ Expires'
    BY <1>1, <2>1 DEF InTime, NeverExpires, Expires, InForce
  <2>7. WhileCreating' /\ UntilVerified'
    BY <1>1, <2>2 DEF WhileCreating, UntilVerified
  <2> QED BY <1>3, <1>4, <2>5, <2>6, <2>7 DEF InTime
<1>10. CASE call.op = "destroy"
  BY <1>1, <1>2, <1>3, <1>4, <1>10
     DEF InTime, WhileCreating, UntilVerified, NeverExpires, Expires, WhileRenewing, InForce
<1> QED BY <1>2, <1>5, <1>6, <1>7, <1>8, <1>9, <1>10

(* Where there is no subscription to keep, nothing need last.              *)
LEMMA Elsewhere ==
  ASSUME Counts', pc' \in {"destroying", "returned", "subscribing"}
  PROVE  InTime'
  BY DEF InTime, WhileCreating, UntilVerified, Asking, NeverExpires, Expires, WhileRenewing, InForce

LEMMA FailsCounted ==
  ASSUME InTime, CallFails
  PROVE  troubles' \in 0..MaxTroubles /\ (troubles' = troubles + 1 \/ (ended /\ troubles' = troubles))
  BY TroubleCounted DEF CallFails, InTime, Counts

LEMMA SubscribeInTime == ASSUME LongEnough, IInv, InTime, Subscribe PROVE InTime'
<1>1. /\ pc = "subscribing" /\ pc' = "creating" /\ call' = [op |-> "create", asked |-> asks]
      /\ answer' = NoAnswer
      /\ UNCHANGED <<asks, troubles, timer, misses>>
  BY RunIsAt DEF Subscribe, Start, options, expiry, history
<1>2. Counts /\ Counts'
  BY <1>1 DEF InTime, Counts
<1>3. Lasts(asks, VerifyTimeout) /\ Fits(asks)
  BY <1>2, LongEnoughFor, Constants, SlackLasts DEF Counts, Lasts, Fits
<1>4. WhileCreating'
  BY <1>1, <1>3 DEF WhileCreating, Lasts, Fits
<1> QED BY <1>1, <1>2, <1>4 DEF InTime, UntilVerified, Asking, NeverExpires, Expires, WhileRenewing, InForce

LEMMA CreateReturnsInTime == ASSUME LongEnough, IInv, InTime, CreateReturns PROVE InTime'
<1>1. CASE CallFails /\ pc' = "returned"
  <2>1. UNCHANGED <<asks, misses>> /\ (timer' = timer \/ timer' = VerifyTimeout)
    BY DEF CreateReturns, options
  <2>2. Counts'
    BY <1>1, <2>1, FailsCounted, SlackLasts DEF InTime, Counts
  <2> QED BY <1>1, <2>2, Elsewhere
<1>2. CASE /\ pc = "creating" /\ pc' = "checking" /\ answer # NoAnswer /\ answer' = NoAnswer
           /\ left' = answer.left /\ timer' = VerifyTimeout
           /\ UNCHANGED <<asks, troubles, subs, attempt, misses>>
  <2>1. Counts'
    BY <1>2, SlackLasts DEF InTime, Counts
  <2>2. UntilVerified'
    BY <1>2 DEF InTime, WhileCreating, UntilVerified, Lasts, Fits
  <2> QED BY <1>2, <2>1, <2>2 DEF InTime, WhileCreating, Asking, NeverExpires, Expires, WhileRenewing, InForce
<1> QED BY <1>1, <1>2 DEF CreateReturns, Returned, options

LEMMA AwaitInTime == ASSUME LongEnough, IInv, InTime, CheckCode \/ Select PROVE InTime'
<1>1. /\ UNCHANGED <<asks, troubles, subs, attempt, left, timer, answer, misses>> /\ answer = NoAnswer
      /\ pc \in {"checking", "selecting"}
      /\ pc' \in {"checking", "selecting", "verifying", "destroying"}
  BY RunIsAt DEF CheckCode, Select, Start, Goto, options, expiry, history
<1>2. Counts /\ Counts' /\ Slack(troubles) \in Int
  BY <1>1, SlackLasts DEF InTime, Counts
<1>3. CASE pc' = "destroying"
  BY <1>2, <1>3, Elsewhere
<1>4. CASE pc' # "destroying"
  <2>1. /\ Lasts(left, timer) /\ Fits(left)
        /\ subs[attempt].there => subs[attempt].left = left /\ ~subs[attempt].verified
    BY <1>1 DEF InTime, UntilVerified
  <2>2. Lasts(left, 0)
    BY <1>2, <2>1, At DEF Lasts, Counts
  <2>3. UntilVerified'
    BY <1>1, <2>1, <2>2 DEF UntilVerified, Lasts, Fits
  <2> QED BY <1>1, <1>2, <1>4, <2>3
          DEF InTime, WhileCreating, Asking, NeverExpires, Expires, WhileRenewing, InForce
<1> QED BY <1>3, <1>4

(* A renewal that succeeds, as the verification before the first, leaves   *)
(* time for two waits.                                                     *)
LEMMA AnewInTime ==
  ASSUME LongEnough, IInv, Counts', pc' = "waiting", misses' = 0, attempt \in Ids,
         UNCHANGED <<troubles, subs, attempt>>,
         left' \in Int, lifetime' \in Int, timer' = NextTurn(left'), Counts,
         Lasts(left', 0), Lasts(lifetime', 0), lifetime' <= 5 * Longest, left' <= lifetime',
         (lifetime' = NoExpiry) <=> (left' = NoExpiry),
         subs[attempt].there =>
           subs[attempt].left = left' \/ (left' = NoExpiry /\ subs[attempt].left = Longest)
  PROVE  InTime'
<1>1. /\ Slack(troubles) \in Int /\ Slack(troubles) >= 6 /\ Longest \in Nat \ {0} /\ NoExpiry = -1
      /\ Longest >= Slack(troubles) + CheckInterval /\ CheckInterval \in Nat
  BY SlackLasts, LongEnoughFor, Constants, TimesAssumption DEF Counts
<1>2. Asking'
  BY <1>1 DEF Asking, InForce, Lasts
<1>3. NeverExpires'
  <2> SUFFICES ASSUME left' = NoExpiry PROVE NeverExpires'
    BY DEF NeverExpires
  <2>1. timer' = CheckInterval
    BY Turns
  <2>2. subs'[attempt].there => subs'[attempt].left = NoExpiry \/ subs'[attempt].left = Longest
    OBVIOUS
  <2> QED BY <1>1, <2>1, <2>2 DEF NeverExpires
<1>4. Expires'
  <2> SUFFICES ASSUME left' # NoExpiry PROVE Expires'
    BY DEF Expires
  <2>1. left' \in Nat /\ left' >= 6 /\ left' <= 5 * Longest
    BY <1>1 DEF Lasts
  <2>2. NextTurn(left') \in Nat /\ NextTurn(left') <= left' - 2 /\ left' - NextTurn(left') <= Longest
    BY <1>1, <2>1, Turns
  <2> QED BY <2>1, <2>2 DEF Expires
<1> QED BY <1>2, <1>3, <1>4 DEF InTime, WhileCreating, UntilVerified, WhileRenewing

LEMMA VerifyReturnsInTime == ASSUME LongEnough, IInv, InTime, VerifyReturns PROVE InTime'
<1>1. CASE /\ answer.kind = "ok" /\ pc' = "waiting" /\ misses' = 0 /\ timer' = NextTurn(left)
           /\ lifetime' = (IF asks = NoExpiry THEN left ELSE asks)
           /\ UNCHANGED <<asks, troubles, subs, attempt, left>> /\ pc = "verifying"
  <2>1. /\ answer # NoAnswer /\ attempt \in Ids /\ left \in Int /\ asks \in Int /\ NoExpiry = -1
        /\ asks \in Lifetimes /\ troubles \in 0..MaxTroubles /\ Longest \in Nat
        /\ Slack(troubles) \in Int /\ Slack(troubles) >= 6
    BY <1>1, At, Calls, SlackLasts DEF InTime, Counts
  <2>2. /\ Lasts(left, 0) /\ Fits(left)
        /\ subs[attempt].there => subs[attempt].left = left \/ (left = NoExpiry /\ subs[attempt].left = Longest)
    BY <1>1, <2>1 DEF InTime, UntilVerified
  <2>3. asks # NoExpiry => asks >= Slack(troubles) + VerifyTimeout /\ asks <= 5 * Longest
    BY <2>1, LongEnoughFor
  <2>4. NextTurn(left) \in Nat
    BY <2>1, <2>2, Turns, SlackLasts DEF Lasts
  <2>5. Counts /\ Counts'
    BY <1>1, <2>4 DEF InTime, Counts
  <2>6. lifetime' \in Int /\ Lasts(lifetime', 0) /\ lifetime' <= 5 * Longest
    BY <1>1, <2>1, <2>2, <2>3, SlackLasts DEF Lasts, Fits
  <2>7. left <= lifetime' /\ ((lifetime' = NoExpiry) <=> (left = NoExpiry))
    BY <1>1, <2>1, <2>2 DEF Fits
  <2> QED BY <1>1, <2>1, <2>2, <2>5, <2>6, <2>7, AnewInTime
<1>2. CASE /\ (answer.kind = "notFound" /\ UNCHANGED troubles) \/ CallFails
           /\ pc' = "destroying" /\ UNCHANGED <<asks, timer, misses>>
  <2>1. Counts'
    BY <1>2, FailsCounted DEF InTime, Counts
  <2> QED BY <1>2, <2>1, Elsewhere
<1> QED BY <1>1, <1>2 DEF VerifyReturns, Returned, Start, options

LEMMA WaitEndsInTime == ASSUME LongEnough, IInv, InTime, WaitEnds PROVE InTime'
<1>1. /\ UNCHANGED <<asks, troubles, subs, attempt, left, lifetime, timer, answer, misses>>
      /\ pc = "waiting" /\ answer = NoAnswer /\ attempt \in Ids
  BY RunIsAt DEF WaitEnds, options, expiry, history
<1>2. Counts /\ Counts' /\ Slack(troubles) \in Int /\ Slack(troubles) >= 6
  BY <1>1, SlackLasts DEF InTime, Counts
<1>3. CASE pc' = "destroying"
  BY <1>2, <1>3, Elsewhere
<1>4. CASE /\ timer = 0 /\ pc' = "renewing"
           /\ \/ left # NoExpiry /\ call' = [op |-> "extend", asked |-> lifetime]
              \/ left = NoExpiry /\ call' = [op |-> "get", asked |-> NoExpiry]
  <2>1. Asking' /\ NeverExpires' /\ Expires'
    BY <1>1, <1>4 DEF InTime, Asking, NeverExpires, Expires, InForce, Lasts
  <2>2. WhileRenewing'
    BY <1>1, <1>2, <1>4, At, Calls DEF InTime, Asking, WhileRenewing, InForce, Lasts
  <2> QED BY <1>2, <1>4, <2>1, <2>2 DEF InTime, WhileCreating, UntilVerified
<1> QED BY <1>3, <1>4 DEF WaitEnds, Start

(* A renewal that fails costs a trouble, and leaves time for one more.     *)
LEMMA RenewReturnsInTime == ASSUME LongEnough, IInv, InTime, RenewReturns PROVE InTime'
<1>1. /\ pc = "renewing" /\ attempt \in Ids /\ UNCHANGED <<asks, subs, attempt>>
      /\ left \in Int /\ lifetime \in Int /\ answer.left \in Int /\ NoExpiry = -1
      /\ call.op \in {"extend", "get"}
  BY At DEF RenewReturns, options, IInv, CallFits
<1>2. /\ Counts /\ Slack(troubles) \in Int /\ Slack(troubles) >= 6 /\ Longest \in Nat \ {0}
      /\ timer = 0 /\ ((lifetime = NoExpiry) <=> (left = NoExpiry))
      /\ Lasts(lifetime, 0) /\ lifetime <= 5 * Longest /\ left <= lifetime
      /\ (call.op = "extend") <=> (left # NoExpiry)
  BY <1>1, SlackLasts, TimesAssumption DEF InTime, Counts, Asking, WhileRenewing, InForce
<1>3. CASE Renewed
  <2>1. /\ answer.kind = "ok" /\ left' = answer.left /\ timer' = NextTurn(left') /\ misses' = 0
        /\ lifetime' = (IF lifetime = NoExpiry /\ left = NoExpiry THEN answer.left ELSE lifetime)
        /\ pc' = "waiting" /\ troubles' = troubles
    BY <1>3 DEF Renewed, Returned
  <2>2. /\ Lasts(answer.left, 0)
        /\ call.op = "extend" => answer.left # NoExpiry /\ answer.left <= lifetime
        /\ call.op = "get" => answer.left <= Longest
        /\ subs[attempt].there =>
             \/ subs[attempt].left = answer.left
             \/ answer.left = NoExpiry /\ subs[attempt].left = Longest
    BY <1>1, <2>1 DEF InTime, WhileRenewing
  <2>3. Counts'
    BY <1>1, <1>2, <2>1, Turns DEF Counts
  <2>4. /\ left' \in Int /\ lifetime' \in Int /\ Lasts(left', 0) /\ Lasts(lifetime', 0)
        /\ lifetime' <= 5 * Longest /\ left' <= lifetime'
        /\ (lifetime' = NoExpiry) <=> (left' = NoExpiry)
    BY <1>1, <1>2, <2>1, <2>2
  <2> QED BY <1>1, <1>2, <2>1, <2>2, <2>3, <2>4, AnewInTime
<1>4. CASE Lost
  <2>1. pc' = "subscribing" /\ UNCHANGED <<troubles, timer, misses>>
    BY <1>4 DEF Lost, Returned, expiry
  <2>2. Counts'
    BY <1>1, <1>2, <2>1 DEF Counts
  <2> QED BY <2>1, <2>2, Elsewhere
<1>5. CASE RenewalFails
  <2>1. CallFails /\ UNCHANGED <<left, lifetime>>
    BY <1>5 DEF RenewalFails
  <2>2. CASE pc' = "destroying" /\ UNCHANGED <<timer, misses>>
    <3>1. Counts'
      BY <1>1, <1>2, <2>1, <2>2, FailsCounted DEF Counts
    <3> QED BY <2>2, <3>1, Elsewhere
  <2>3. CASE ~ended /\ timer' = NextTurn(left) /\ misses' = Lesser(misses + 1, 2) /\ pc' = "waiting"
    <3>1. troubles' \in 0..MaxTroubles /\ troubles' = troubles + 1
      BY <2>1, <2>3, FailsCounted
    <3>2. /\ Slack(troubles') \in Int /\ Slack(troubles') >= 6
          /\ Slack(troubles') + CheckInterval <= Slack(troubles) /\ CheckInterval \in Nat
      BY <1>2, <3>1, SlackLasts DEF Counts
    <3>3. misses' \in 0..2 /\ (misses' <= 1 => misses = 0 /\ misses' = 1)
      BY <1>2, <2>3 DEF Counts, Lesser
    <3>4. Counts'
      BY <1>1, <1>2, <2>3, <3>1, <3>3, Turns DEF Counts
    <3>5. Asking'
      BY <1>1, <1>2, <2>1, <2>3, <3>2 DEF Asking, InForce, Lasts
    <3>6. NeverExpires'
      <4> SUFFICES ASSUME left = NoExpiry PROVE NeverExpires'
        BY <2>1 DEF NeverExpires
      <4>1. timer' = CheckInterval
        BY <2>3, Turns
      <4>2. subs[attempt].there => subs[attempt].left = NoExpiry \/ subs[attempt].left \in Slack(troubles)..Longest
        BY <1>1, <1>2 DEF InTime, NeverExpires, InForce
      <4> QED BY <1>1, <1>2, <2>1, <3>2, <4>1, <4>2 DEF NeverExpires
    <3>7. Expires'
      <4> SUFFICES ASSUME left # NoExpiry, misses = 0, misses' = 1 PROVE Expires'
        BY <2>1, <3>3 DEF Expires
      <4>1. left >= 2 /\ left <= Longest /\ (subs[attempt].there => subs[attempt].left >= left)
        BY <1>1, <1>2 DEF InTime, Expires, InForce
      <4>2. left \in Nat
        BY <1>1, <4>1
      <4>3. NextTurn(left) \in Nat /\ NextTurn(left) <= left - 1
        BY <4>1, <4>2, Turns
      <4>4. /\ left' = left /\ subs' = subs /\ attempt' = attempt
            /\ timer' = NextTurn(left) /\ Longest \in Nat
        BY <1>1, <1>2, <2>1, <2>3
      <4>5. left' >= timer' + 2 - misses' /\ left' - timer' <= Longest
        BY <4>1, <4>2, <4>3, <4>4
      <4> QED BY <4>1, <4>4, <4>5 DEF Expires
    <3> QED BY <2>3, <3>4, <3>5, <3>6, <3>7 DEF InTime, WhileCreating, UntilVerified, WhileRenewing
  <2> QED BY <1>5, <2>2, <2>3 DEF RenewalFails, Start
<1> QED BY <1>3, <1>4, <1>5 DEF RenewReturns

LEMMA DestroyReturnsInTime == ASSUME LongEnough, IInv, InTime, DestroyReturns PROVE InTime'
<1>1. /\ pc' = "returned" /\ UNCHANGED <<asks, timer, misses>>
      /\ troubles' = troubles \/ CallFails
  BY DEF DestroyReturns, Returned, options, expiry
<1>2. Counts'
  BY <1>1, FailsCounted DEF InTime, Counts
<1> QED BY <1>1, <1>2, Elsewhere

(* What is verified is there.                                              *)
VerifiedIsThere == \A i \in Ids : subs[i].verified => subs[i].there

LEMMA VerifiedIsThereHolds == IInv /\ VerifiedIsThere /\ [Next]_vars => VerifiedIsThere'
<1> SUFFICES ASSUME IInv, VerifiedIsThere, [Next]_vars, NEW i \in Ids, subs'[i].verified PROVE subs'[i].there
  BY DEF VerifiedIsThere
<1>1. subs \in [Ids -> Subscriptions] /\ subs[i] \in Subscriptions /\ ~Absent.verified
        /\ (subs[i].verified => subs[i].there)
  BY At DEF VerifiedIsThere, Absent
<1>2. CASE subs' = subs
  BY <1>1, <1>2
<1>3. CASE Tick
  <2> DEFINE later == [subs[i] EXCEPT !.left = Down(@)]
  <2>1. subs'[i] = IF Expired(later) THEN Absent ELSE later
    BY <1>3 DEF Tick
  <2>2. later.there = subs[i].there /\ later.verified = subs[i].verified
    BY <1>1 DEF Subscriptions
  <2> HIDE DEF later
  <2> QED BY <1>1, <2>1, <2>2
<1>4. CASE ServerForgets \/ ServerSetsExpiry
  BY <1>1, <1>4 DEF ServerForgets, ServerSetsExpiry, Subscriptions
<1>5. CASE ServerCarriesOut
  <2>1. call.op \in {"create", "verify", "extend", "get", "destroy"}
    BY <1>5 DEF ServerCarriesOut, InCall, IInv, CallFits, Types
  <2>2. \/ subs' = subs \/ subs' = [subs EXCEPT ![attempt] = Absent]
        \/ \E g : subs' = [subs EXCEPT ![attempt] = [there |-> TRUE, verified |-> FALSE, left |-> g]]
        \/ subs[attempt].there /\ subs' = [subs EXCEPT ![attempt].verified = TRUE]
        \/ \E g : subs' = [subs EXCEPT ![attempt].left = g]
    BY <1>5, <2>1 DEF ServerCarriesOut
  <2> QED BY <1>1, <2>2 DEF Subscriptions
<1>6. CASE UNCHANGED vars \/ Run \/ ServeHTTP \/ ServerPushes \/ ContextEnds
  BY <1>1, <1>6
     DEF vars, Run, Subscribe, CreateReturns, CheckCode, Select, VerifyReturns, WaitEnds, RenewReturns, DestroyReturns,
         ServeHTTP, Refuse, TakeChange, TakeCode, Signal, ServerPushes, ContextEnds
<1> QED BY <1>2, <1>3, <1>4, <1>5, <1>6 DEF Next, Server

LEMMA InTimeHolds == ASSUME LongEnough PROVE Spec => [](InTime /\ VerifiedIsThere)
<1>1. Init => InTime
  <2> SUFFICES ASSUME Init PROVE InTime
    OBVIOUS
  <2>1. Counts
    BY SlackLasts DEF Init, Counts
  <2> QED BY <2>1 DEF Init, InTime, WhileCreating, UntilVerified, Asking, NeverExpires, Expires, WhileRenewing, InForce
<1>2. IInv /\ InTime /\ [Next]_vars => InTime'
  <2> SUFFICES ASSUME IInv, InTime, [Next]_vars PROVE InTime'
    OBVIOUS
  <2>1. CASE UNCHANGED vars
    BY <2>1 DEF vars, options, receiver, expiry, calls, history, InTime, Counts, WhileCreating, UntilVerified,
                Asking, NeverExpires, Expires, WhileRenewing, InForce, Lasts, Fits
  <2>2. CASE Run
    BY <2>2, SubscribeInTime, CreateReturnsInTime, AwaitInTime, VerifyReturnsInTime, WaitEndsInTime,
       RenewReturnsInTime, DestroyReturnsInTime DEF Run
  <2>3. CASE ServeHTTP \/ Server \/ Tick \/ ContextEnds
    BY <2>3, ServeHTTPInTime, ServerInTime, ServerCarriesOutInTime, TickInTime DEF Server
  <2> QED BY <2>1, <2>2, <2>3 DEF Next
<1>3. Init => VerifiedIsThere
  BY DEF Init, VerifiedIsThere, Absent
<1> QED BY <1>1, <1>2, <1>3, VerifiedIsThereHolds, Invariant, PTL DEF Spec

(* A subscription goes only where the server forgets it or its time runs   *)
(* out in a tick, which it does not while one renewal at most has failed.  *)
LEMMA KeptInTime ==
  ASSUME LongEnough, IInv, InTime, VerifiedIsThere, [Next]_vars, Kept, misses' <= 1
  PROVE  subs'[attempt].there \/ ServerForgets
<1>1. /\ attempt \in Ids /\ subs \in [Ids -> Subscriptions] /\ subs[attempt] \in Subscriptions
      /\ subs[attempt].there /\ InForce /\ NoExpiry = -1
  BY At DEF Kept, VerifiedIsThere, InForce
<1>2. CASE Tick
  <2>1. /\ pc = "waiting" /\ timer > 0 /\ misses' = misses
    BY <1>1, <1>2 DEF Tick, InForce
  <2>2. /\ timer \in Nat /\ misses \in 0..2 /\ Slack(troubles) \in Int /\ Slack(troubles) >= 6
    BY SlackLasts DEF InTime, Counts
  <2>3. subs[attempt].left = NoExpiry \/ subs[attempt].left >= 2
    <3>1. CASE left = NoExpiry
      BY <1>1, <2>2, <3>1 DEF InTime, NeverExpires
    <3>2. CASE left # NoExpiry
      <4>1. left >= timer + (2 - misses) /\ subs[attempt].left >= left
        BY <1>1, <2>1, <3>2 DEF InTime, Expires
      <4> QED BY <1>1, <2>1, <2>2, <4>1, At
    <3> QED BY <3>1, <3>2
  <2> DEFINE later == [subs[attempt] EXCEPT !.left = Down(@)]
  <2>4. later.there /\ later.left = Down(subs[attempt].left) /\ subs[attempt].left \in Int
    BY <1>1 DEF Subscriptions
  <2>5. later.left # 0
    BY <1>1, <2>3, <2>4, Downs
  <2>6. subs'[attempt] = IF Expired(later) THEN Absent ELSE later
    BY <1>1, <1>2 DEF Tick
  <2> HIDE DEF later
  <2> QED BY <2>4, <2>5, <2>6 DEF Expired
<1>3. CASE ServerSetsExpiry
  BY <1>1, <1>3 DEF ServerSetsExpiry, Subscriptions
<1>4. CASE ServerCarriesOut
  <2>1. call.op \in {"extend", "get"}
    BY <1>1, <1>4 DEF ServerCarriesOut, InCall, IInv, CallFits, Types, InForce
  <2>2. subs' = subs \/ \E g : subs' = [subs EXCEPT ![attempt].left = g]
    BY <1>4, <2>1 DEF ServerCarriesOut
  <2> QED BY <1>1, <2>2 DEF Subscriptions
<1>5. CASE UNCHANGED vars \/ Run \/ ServeHTTP \/ ServerPushes \/ ContextEnds
  <2>1. subs' = subs
    BY <1>5
       DEF vars, Run, Subscribe, CreateReturns, CheckCode, Select, VerifyReturns, WaitEnds, RenewReturns,
           DestroyReturns, ServeHTTP, Refuse, TakeChange, TakeCode, Signal, ServerPushes, ContextEnds
  <2> QED BY <1>1, <2>1
<1> QED BY <1>2, <1>3, <1>4, <1>5 DEF Next, Server

(* Where lifetimes are long beside the waits, a verified subscription      *)
(* outlives one failed renewal, however calls are delayed and lost.        *)
THEOREM RenewedInTime == ASSUME LongEnough PROVE Spec => OneFailureSurvived
<1>1. IInv /\ InTime /\ VerifiedIsThere /\ [Next]_vars
        => [(Kept /\ misses' <= 1) => (subs'[attempt].there \/ ServerForgets)]_vars
  BY KeptInTime
<1> QED BY <1>1, Invariant, InTimeHolds, PTL DEF Spec, OneFailureSurvived

==============================================================================
