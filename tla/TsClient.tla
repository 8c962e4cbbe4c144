------------------------------ MODULE TsClient ------------------------------
(***************************************************************************)
(* The TypeScript client: the runtime written out beside the requests, the *)
(* function generated for each and the async generator over its pages      *)
(* (internal/gen/ts). Its types are promises: what a server answered is    *)
(* cast, not checked.                                                      *)
(***************************************************************************)
EXTENDS ClientTypes

RequireCapability(s, uri) == IF uri \in s.caps THEN {} ELSE {<<"unknownCapability", uri>>}

RequireCalls(s, n) ==
  IF "core" \in s.caps /\ s.max > 0 /\ n > s.max THEN {<<"limit", n>>} ELSE {}

(* An empty id is none.                                                    *)
PrimaryAccountID(s, cap) ==
  IF cap \in DOMAIN s.primary /\ s.primary[cap] # "" THEN {} ELSE {<<"noPrimary", cap>>}

Offered(s, id) == IF id \in DOMAIN s.accounts THEN s.accounts[id] ELSE {}

(* What verify is told of a request.                                       *)
Needs(r) == [using |-> Range(r.using), primaries |-> Range(r.primaries), calls |-> Len(r.calls)]

CheckNeeds(s, n) ==
  LET missing == {uri \in n.using : RequireCapability(s, uri) # {}}
      named   == n.primaries \ missing
      without == {cap \in named : PrimaryAccountID(s, cap) # {}}
      other   == {cap \in named \ without :
                    Offered(s, s.primary[cap]) # {} /\ cap \notin Offered(s, s.primary[cap])}
  IN {<<"unknownCapability", uri>> : uri \in missing} \cup {<<"noPrimary", cap>> : cap \in without}
     \cup {<<"accountNotSupported", cap>> : cap \in other} \cup RequireCalls(s, n.calls)

Preflight(s, r) ==
  FirstOf(Append([i \in DOMAIN r.using |-> RequireCapability(s, r.using[i])],
                 RequireCalls(s, Len(r.calls))))

(* An address given beforehand does without the session and its checks.    *)
RequestTo(options, s, r) ==
  [session |-> ~options.apiURL,
   errors  |-> IF options.strict /\ ~options.apiURL THEN Preflight(s, r) ELSE {}]

SessionLookups(s, r) == FirstOf([i \in DOMAIN r.primaries |-> PrimaryAccountID(s, r.primaries[i])])

-----------------------------------------------------------------------------
Answered(resp, i) == \E k \in DOMAIN resp[i] : resp[i][k] # "error"

Decode(resp, i) ==
  CASE First(resp, i) = "absent" -> {<<"missing", i>>}
    [] First(resp, i) = "error"  -> {<<"method", i>>}
    [] OTHER -> {}

MethodErrors(resp) == {<<"method", i>> : i \in {j \in DOMAIN resp : "error" \in Range(resp[j])}}

(* The refusals are read of the calls that were not returned as well, and  *)
(* of a result that may not be there.                                      *)
SetErrorChecks(req, resp, value) ==
  LET lost    == {i \in Aside(req) : Decode(resp, i) # {}}
      nothing == {i \in Given(req) \ value : Lists(req, i)}
  IN IF lost # {} THEN Fails(Decode(resp, Min(lost)))
     ELSE IF nothing # {} THEN Fails({<<"thrown", Min(nothing)>>})
     ELSE Gives(value, Refused(req, resp))

(* A failed call's error carries what the others answered; refusals are    *)
(* looked for only where none failed.                                      *)
Func(req, resp) ==
  LET failed == MethodErrors(resp)
      there  == IF req.returns = 0 THEN {i \in Given(req) : Answered(resp, i)} ELSE Given(req)
      unread == {i \in there : Decode(resp, i) # {}}
  IN IF req.returns # 0 /\ failed # {} /\ ~Answered(resp, req.returns) THEN Fails(failed)
     ELSE IF unread # {} THEN Fails(Decode(resp, Min(unread)))
     ELSE IF failed # {} THEN Gives(there, failed)
     ELSE SetErrorChecks(req, resp, there)

-----------------------------------------------------------------------------
(* The generator moves the start in the object the caller passed.          *)
BeginPages(w) == [w EXCEPT !.start = w.param, !.pages = <<>>, !.pc = "wanting"]

AskPage(w) == [w EXCEPT !.param = w.start, !.pc = "asking"]

TakePage(w, page) ==
  IF w.kind = "query" /\ page.from = page.to THEN [w EXCEPT !.pc = "ended"]
  ELSE [w EXCEPT !.pc = "held", !.pages = Append(@, page), !.start = page.to,
                 !.last = IF w.kind = "query" THEN page.told /\ page.to >= page.total
                          ELSE ~page.more]

PageFails(w) == [w EXCEPT !.pc = "failed"]
=============================================================================
