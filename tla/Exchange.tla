------------------------------ MODULE Exchange ------------------------------
(***************************************************************************)
(* Client.Do (client.go) with WithSplitGets (split.go): one call of Do     *)
(* against a server that carries a request out call by call while its      *)
(* records change and its session is replaced.                             *)
(*                                                                         *)
(* A call is [id, name, ids, ref].  Its id is its text, and the number     *)
(* after each "~" that follows.  The ids are those written into it, or     *)
(* those the answer to the call ref names.  The state a /get reports is    *)
(* the number of changes there have been.                                  *)
(***************************************************************************)
EXTENDS Integers, Sequences, SequencesExt, FiniteSets

CONSTANTS
  Requests,    \* the requests a caller makes: [using, calls, encodes]
  Sessions,    \* what a session may state: [caps, objects, calls, size]
  Records,     \* the records there may be
  MaxChanges,  \* bound: changes others make to the records
  MaxSessions  \* bound: times the server's session changes

CallIDs == STRING \X Seq(Nat)
NoRef   == <<"", <<>>>>
None    == [none |-> TRUE]

ASSUME BoundsAssumption == MaxChanges \in Nat /\ MaxSessions \in Nat

(* A session is not the lack of one.                                       *)
ASSUME SessionsAssumption ==
  \A s \in Sessions : s # None /\ s.objects \in Nat /\ s.calls \in Nat /\ s.size \in Nat

(* No two calls of a request have one id, which the parser sees to.        *)
ASSUME RequestsAssumption ==
  \A q \in Requests :
    /\ q.encodes \in BOOLEAN
    /\ q.calls \in Seq([id : CallIDs, name : {"get", "set"}, ids : Seq(Records), ref : CallIDs])
    /\ \A i, j \in DOMAIN q.calls : q.calls[i].id = q.calls[j].id => i = j

VARIABLES
  r,           \* the request Do was called with
  options,     \* the client's: strict, splitGets, observed (bodies), and whether the URL of the
               \* API and that of the session are configured (api, session)
  past,        \* the records at the server after each change, the last one now
  advertised,  \* the server's session
  renewals,    \* how many times it has changed
  had,         \* history: the sessions the server has had, the one now among them
  core,        \* the session the client holds, or None
  limit, at, rest,           \* planSplit's: the limit, the call it is at, the ids left of it
  first, extra, perRequest,  \* the request in place of r; the further calls; how many go in one
  posted, start, joined,     \* whether first is answered; where the part being sent begins; the
                             \* further calls whose answers are joined
  sent, got,   \* the request at the server, and its answers so far
  resp,        \* the answers to r, joined so far
  errs,        \* the kinds of error Do is to return
  pc,
  began,       \* history: the changes there had been when Do was called
  refusedSize  \* history: the server refused what Do sent, for its size, though it takes no less than it did

server == <<past, advertised, renewals, had>>
plan == <<limit, at, rest, first, extra, perRequest>>
place == <<posted, start, joined>>
wire == <<sent, got>>
vars == <<r, options, server, core, plan, place, wire, resp, errs, pc, began, refusedSize>>

Options == [strict : BOOLEAN, splitGets : BOOLEAN, observed : BOOLEAN, api : BOOLEAN, session : BOOLEAN]

State == Len(past)
Now == past[State]

(* Client.limit: what the session held states, 0 without one.              *)
Limit(field) == IF core = None THEN 0 ELSE core[field]

Init ==
  /\ r \in Requests
  /\ options \in Options
  /\ past \in {<<Records>>, <<{}>>}
  /\ advertised \in Sessions /\ renewals = 0 /\ had = {advertised}
  /\ core = None \/ (options.session /\ core = advertised)
  /\ limit = 0 /\ at = 1 /\ rest = <<>>
  /\ first = <<>> /\ extra = <<>> /\ perRequest = 0
  /\ posted = FALSE /\ start = 0 /\ joined = 0
  /\ sent = <<>> /\ got = <<>>
  /\ resp = <<>> /\ errs = {}
  /\ pc = "called"
  /\ began = 1 /\ refusedSize = FALSE

------------------------------------------------------------------------------
\* The server, its other clients, and the other goroutines of this one.

OthersChange ==
  /\ pc # "returned" /\ State <= MaxChanges
  /\ \E i \in Records : past' = Append(past, IF i \in Now THEN Now \ {i} ELSE Now \cup {i})
  /\ UNCHANGED <<r, options, advertised, renewals, had, core, plan, place, wire, resp, errs, pc,
                 began, refusedSize>>

SessionChanges ==
  /\ pc # "returned" /\ renewals < MaxSessions
  /\ \E s \in Sessions \ {advertised} : advertised' = s
  /\ renewals' = renewals + 1
  /\ had' = had \cup {advertised'}
  /\ UNCHANGED <<r, options, past, core, plan, place, wire, resp, errs, pc, began, refusedSize>>

SessionRefreshed ==
  /\ pc # "returned" /\ options.session
  /\ core' = advertised
  /\ UNCHANGED <<r, options, server, plan, place, wire, resp, errs, pc, began, refusedSize>>

Ok(c, s, list, notFound) ==
  [id |-> c.id, name |-> c.name, state |-> s, list |-> list, notFound |-> notFound]
MethodError(c) ==
  [id |-> c.id, name |-> "error", state |-> 0, list |-> <<>>, notFound |-> <<>>]

(* Response.find.                                                          *)
Answered(id, answers) == \E i \in DOMAIN answers : answers[i].id = id
Find(id, answers) ==
  CHOOSE i \in DOMAIN answers : answers[i].id = id /\ \A j \in 1..(i - 1) : answers[j].id # id

(* The ids of a call once its reference is resolved.                       *)
Resolved(c) ==
  IF c.ref = NoRef THEN c.ids ELSE got[Find(c.ref, got)].list

Unresolved(c) ==
  c.ref # NoRef /\ (~Answered(c.ref, got) \/ got[Find(c.ref, got)].name = "error")

(* A server that states no number takes any.                               *)
TooMany(c) ==
  c.name = "get" /\ advertised.objects > 0 /\ Len(Resolved(c)) > advertised.objects

Takes(calls) == advertised.calls = 0 \/ Len(calls) <= advertised.calls

(* It takes no less of something than any session it has had said.         *)
NoLess(field) ==
  advertised[field] = 0 \/ \A s \in had : s[field] # 0 /\ s[field] <= advertised[field]

(* Records in some order, each of them once.                               *)
Listed(ids) == SetToSeq(ids)

(* A call fails for the server's own reasons or for a reference that does  *)
(* not resolve, fails for its size, or is answered.                        *)
ServeCall ==
  /\ pc = "sent" /\ Len(got) < Len(sent)
  /\ got # <<>> \/ Takes(sent)
  /\ LET c == sent[Len(got) + 1]
     IN  \/ /\ got' = Append(got, MethodError(c))
            /\ UNCHANGED <<past, refusedSize>>
         \/ /\ ~Unresolved(c) /\ TooMany(c)
            /\ got' = Append(got, MethodError(c))
            /\ refusedSize' = (refusedSize \/ (c.ref = NoRef /\ NoLess("objects")))
            /\ UNCHANGED past
         \/ /\ ~Unresolved(c) /\ ~TooMany(c) /\ c.name = "get"
            /\ LET ids == ToSet(Resolved(c))
               IN  got' = Append(got, Ok(c, State, Listed(ids \cap Now), Listed(ids \ Now)))
            /\ UNCHANGED <<past, refusedSize>>
         \/ /\ ~Unresolved(c) /\ c.name = "set"
            /\ past' = Append(past, Now \ ToSet(Resolved(c)))
            /\ got' = Append(got, Ok(c, State', <<>>, <<>>))
            /\ UNCHANGED refusedSize
  /\ UNCHANGED <<r, options, advertised, renewals, had, core, plan, place, sent, resp, errs, pc, began>>

------------------------------------------------------------------------------
\* Do.

(* Do returns.                                                             *)
Return(kinds) ==
  /\ errs' = kinds
  /\ pc' = "returned"

Goto(to) == pc' = to /\ UNCHANGED errs

(* Do is called: encodedOnce, where the observer is given the bodies.      *)
Begin ==
  /\ pc = "called"
  /\ began' = State
  /\ IF options.observed /\ ~r.encodes THEN Return({"encoding"}) ELSE Goto("resolving")
  /\ UNCHANGED <<r, options, server, core, plan, place, wire, resp, refusedSize>>

(* preflight, which knows nothing of a session that states no number.      *)
Allows(s) == r.using \subseteq s.caps /\ (s.calls > 0 => Len(r.calls) <= s.calls)

(* Neither the session's URL nor its limits are needed, or none can be had.*)
AsksNoSession == options.api /\ (~options.strict \/ ~options.session)

(* resolveAPIURL: the session held, or one fetched.                        *)
ResolveAPIURL ==
  /\ pc = "resolving"
  /\ \/ AsksNoSession /\ Goto("planning") /\ UNCHANGED core
     \/ /\ ~AsksNoSession
        /\ \/ core = None /\ Return({"session"}) /\ UNCHANGED core
           \/ /\ options.session /\ core' \in {core, advertised} \ {None}
              /\ IF options.strict /\ ~Allows(core') THEN Return({"preflight"}) ELSE Goto("planning")
  /\ UNCHANGED <<r, options, server, plan, place, wire, resp, began, refusedSize>>

Referenced(id) == \E i \in DOMAIN r.calls : r.calls[i].ref = id

(* splittableGet.                                                          *)
Splittable(c) ==
  /\ r.encodes
  /\ c.name = "get" /\ ~Referenced(c.id) /\ c.ref = NoRef
  /\ Len(c.ids) > limit

Lesser(a, b) == IF a <= b THEN a ELSE b

(* unusedCallID: the call's id with the least number that no call has.     *)
Taken == {r.calls[i].id : i \in DOMAIN r.calls} \cup {extra[k].call.id : k \in DOMAIN extra}
UnusedCallID(base) ==
  LET id(n) == <<base[1], Append(base[2], n)>>
  IN  id(CHOOSE n \in 1..(Cardinality(Taken) + 1) : id(n) \notin Taken /\ \A m \in 1..(n - 1) : id(m) \in Taken)

(* planSplit reads a limit once, and goes through the calls.               *)
PlanSplit ==
  /\ pc = "planning"
  /\ limit' = IF options.splitGets THEN Limit("objects") ELSE 0
  /\ first' = r.calls /\ extra' = <<>> /\ perRequest' = 0
  /\ at' = 1 /\ rest' = <<>>
  /\ Goto(IF limit' > 0 THEN "splitting" ELSE "posting")
  /\ UNCHANGED <<r, options, server, core, place, wire, resp, began, refusedSize>>

(* A call keeps the ids that fit, and the others are left to send.         *)
SplitCall ==
  /\ pc = "splitting" /\ rest = <<>> /\ at <= Len(r.calls)
  /\ LET c == r.calls[at]
     IN  IF Splittable(c)
         THEN /\ first' = [first EXCEPT ![at].ids = SubSeq(c.ids, 1, limit)]
              /\ rest' = SubSeq(c.ids, limit + 1, Len(c.ids))
         ELSE UNCHANGED <<first, rest>>
  /\ at' = at + 1
  /\ UNCHANGED <<r, options, server, core, limit, extra, perRequest, place, wire, resp, errs, pc,
                 began, refusedSize>>

(* They go into further calls, and a chunk names the call each is a part   *)
(* of.                                                                     *)
SplitRest ==
  /\ pc = "splitting" /\ rest # <<>>
  /\ LET c == r.calls[at - 1]
         size == Lesser(limit, Len(rest))
     IN  /\ extra' = Append(extra, [call |-> [c EXCEPT !.id = UnusedCallID(@), !.ids = SubSeq(rest, 1, size)],
                                    into |-> c.id])
         /\ rest' = SubSeq(rest, size + 1, Len(rest))
  /\ UNCHANGED <<r, options, server, core, limit, at, first, perRequest, place, wire, resp, errs, pc,
                 began, refusedSize>>

Planned ==
  /\ pc = "splitting" /\ rest = <<>> /\ at > Len(r.calls)
  /\ Goto(IF extra = <<>> THEN "posting" ELSE "grouping")
  /\ UNCHANGED <<r, options, server, core, plan, place, wire, resp, began, refusedSize>>

(* Mutant: the number of calls a request takes is not looked at.           *)
PerRequestAll(max) == Len(extra)

(* How many further calls there are in one request.                        *)
PerRequest(max) == IF max > 0 THEN Lesser(max, Len(extra)) ELSE Len(extra)

GroupParts ==
  /\ pc = "grouping"
  /\ perRequest' = PerRequest(Limit("calls"))
  /\ Goto("posting")
  /\ UNCHANGED <<r, options, server, core, limit, at, rest, first, extra, place, wire, resp,
                 began, refusedSize>>

(* The part being sent is of the further calls from start to here.         *)
PartEnd == Lesser(start + perRequest, Len(extra))
Toward == IF posted THEN [n \in 1..(PartEnd - start) |-> extra[start + n].call] ELSE first

(* The octets of a request, as many as it has calls and ids.               *)
Octets(calls) == FoldLeft(LAMBDA n, c : n + 1 + Len(c.ids), 0, calls)

(* post, to the round trip: encoding and checkRequestSize.                 *)
Post ==
  /\ pc = "posting"
  /\ \/ /\ ~r.encodes
        /\ Return({"encoding"}) /\ UNCHANGED wire
     \/ /\ r.encodes /\ options.strict /\ Limit("size") > 0 /\ Octets(Toward) > Limit("size")
        /\ Return({"size"}) /\ UNCHANGED wire
     \/ /\ r.encodes /\ ~(options.strict /\ Limit("size") > 0 /\ Octets(Toward) > Limit("size"))
        /\ sent' = Toward /\ got' = <<>>
        /\ Goto("sent")
  /\ UNCHANGED <<r, options, server, core, plan, place, resp, began, refusedSize>>

(* The round trip fails, or the server refuses the request as a whole.     *)
PostFails ==
  /\ pc = "sent"
  /\ refusedSize' = (refusedSize \/ (got = <<>> /\ ~Takes(sent) /\ posted /\ NoLess("calls")))
  /\ Return({"round trip"})
  /\ UNCHANGED <<r, options, server, core, plan, place, wire, resp, began>>

(* Mutant: a part the server refused is passed over.                       *)
JoinedWithoutRefused(target, answer) ==
  IF answer.name = "error" \/ target.name = "error"
  THEN target
  ELSE [target EXCEPT !.list = @ \o answer.list, !.notFound = @ \o answer.notFound]

(* joinAnswer: an answer that was refused takes the place of the others.   *)
Joined(target, answer) ==
  CASE answer.name = "error" -> [answer EXCEPT !.id = target.id]
    [] answer.name # "error" /\ target.name = "error" -> target
    [] OTHER -> [target EXCEPT !.list = @ \o answer.list, !.notFound = @ \o answer.notFound]

(* Mutant: only the records are compared.                                  *)
MovedIfMissing(target, answer) ==
  answer.name # "error" /\ target.name # "error" /\ answer.state # target.state /\ answer.notFound # <<>>

Moved(target, answer) ==
  answer.name # "error" /\ target.name # "error" /\ answer.state # target.state

(* What Do returns beside the answers: what joining them failed at, and    *)
(* the calls the server refused.                                           *)
Outcome(answers, split) ==
  split \cup (IF \E i \in DOMAIN answers : answers[i].name = "error" THEN {"method"} ELSE {})

(* A response has come: the answer to the first request is what the parts  *)
(* are joined onto.  The server may have answered less than it was asked.  *)
PostReturns ==
  /\ pc = "sent" /\ (got # <<>> \/ Takes(sent))
  /\ IF posted
     THEN Goto("joining") /\ UNCHANGED <<posted, resp>>
     ELSE /\ posted' = TRUE /\ resp' = got
          /\ IF extra = <<>> THEN Return(Outcome(got, errs)) ELSE Goto("posting")
  /\ UNCHANGED <<r, options, server, core, plan, start, joined, wire, began, refusedSize>>

(* joinSplit: the answer of each part onto that of the call it belongs to. *)
JoinChunk(chunk) ==
  LET i == Find(chunk.into, resp)
      answer == got[Find(chunk.call.id, got)]
  IN  IF Answered(chunk.call.id, got) /\ Answered(chunk.into, resp)
      THEN [resp |-> [resp EXCEPT ![i] = Joined(@, answer)],
            errs |-> IF Moved(resp[i], answer) THEN errs \cup {"state changed"} ELSE errs]
      ELSE [resp |-> resp, errs |-> errs \cup {"unanswered"}]

JoinSplit ==
  /\ pc = "joining"
  /\ LET all == JoinChunk(extra[joined + 1])
     IN  /\ resp' = all.resp
         /\ joined' = joined + 1
         /\ start' = IF joined' = PartEnd THEN joined' ELSE start
         /\ IF joined' < PartEnd THEN pc' = "joining" /\ errs' = all.errs
            ELSE IF joined' < Len(extra) THEN pc' = "posting" /\ errs' = all.errs
            ELSE Return(Outcome(all.resp, all.errs))
  /\ UNCHANGED <<r, options, server, core, plan, posted, wire, began, refusedSize>>

------------------------------------------------------------------------------

Do == \/ Begin \/ ResolveAPIURL \/ PlanSplit \/ SplitCall \/ SplitRest \/ Planned \/ GroupParts
      \/ Post \/ PostFails \/ PostReturns \/ JoinSplit

Next == Do \/ ServeCall \/ OthersChange \/ SessionChanges \/ SessionRefreshed

Spec == Init /\ [][Next]_vars

------------------------------------------------------------------------------

Returned(kinds) == pc = "returned" /\ errs \subseteq kinds

(* Where Do returns no error, each /get that is answered is answered with  *)
(* every id it named, as the records were at one moment during Do, whether *)
(* it was split or not, and one that was split is answered; and where it   *)
(* returns a method error, with every id or with an error.                 *)
OneSnapshot ==
  Returned({"method"}) =>
    /\ \A i \in DOMAIN resp : i \in DOMAIN r.calls /\ resp[i].id = r.calls[i].id
    /\ \A i \in DOMAIN r.calls : first[i].ids # r.calls[i].ids => i \in DOMAIN resp
    /\ \A i \in DOMAIN resp :
         (resp[i].name = "get" /\ r.calls[i].ref = NoRef) =>
           /\ resp[i].state \in began..State
           /\ ToSet(resp[i].list) = ToSet(r.calls[i].ids) \cap past[resp[i].state]
           /\ ToSet(resp[i].notFound) = ToSet(r.calls[i].ids) \ past[resp[i].state]

(* A change between the parts does not lose a record either: an id is in   *)
(* the answer, whatever state each part was answered in.                   *)
EveryIdAnswered ==
  Returned({"method", "state changed"}) =>
    \A i \in DOMAIN resp :
      (resp[i].name = "get" /\ r.calls[i].ref = NoRef) =>
        ToSet(resp[i].list) \cup ToSet(resp[i].notFound) = ToSet(r.calls[i].ids)

(* With splitting asked for, and each limit read from whichever session    *)
(* was held at the time, the server refuses nothing Do sends for its size, *)
(* save what cannot be split, unless it takes less than it once said.      *)
NeverTooLarge ==
  (options.splitGets /\ ~AsksNoSession /\ \A c \in ToSet(r.calls) : ~Referenced(c.id))
    => ~refusedSize

==============================================================================
