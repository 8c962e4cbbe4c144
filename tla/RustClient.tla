----------------------------- MODULE RustClient -----------------------------
(***************************************************************************)
(* The Rust client: the runtime written out beside the requests, the       *)
(* function generated for each and the value that walks its pages          *)
(* (internal/gen/rust).                                                    *)
(***************************************************************************)
EXTENDS ClientTypes

RequireCapability(s, uri) == IF uri \in s.caps THEN {} ELSE {<<"unknownCapability", uri>>}

RequireCalls(s, n) ==
  IF "core" \in s.caps /\ s.max > 0 /\ n > s.max THEN {<<"limit", n>>} ELSE {}

PrimaryAccountID(s, cap) ==
  IF cap \in DOMAIN s.primary /\ s.primary[cap] # "" THEN {} ELSE {<<"noPrimary", cap>>}

Offered(s, id) == IF id \in DOMAIN s.accounts THEN s.accounts[id] ELSE {}

(* What verify is told of a request.                                       *)
Needs(r) == [using |-> Range(r.using), primaries |-> Range(r.primaries), calls |-> Len(r.calls)]

(* Mutant: an account is asked for nothing but being there.                *)
CheckNeedsButAccounts(s, n) ==
  LET missing == {uri \in n.using : RequireCapability(s, uri) # {}} IN
  {<<"unknownCapability", uri>> : uri \in missing}
  \cup (UNION {PrimaryAccountID(s, cap) : cap \in n.primaries \ missing})
  \cup RequireCalls(s, n.calls)

CheckNeeds(s, n) ==
  LET missing == {uri \in n.using : RequireCapability(s, uri) # {}}
      named   == n.primaries \ missing
      without == {cap \in named : PrimaryAccountID(s, cap) # {}}
      other   == {cap \in named \ without :
                    Offered(s, s.primary[cap]) # {} /\ cap \notin Offered(s, s.primary[cap])}
  IN {<<"unknownCapability", uri>> : uri \in missing} \cup {<<"noPrimary", cap>> : cap \in without}
     \cup {<<"accountNotSupported", cap>> : cap \in other} \cup RequireCalls(s, n.calls)

Preflight(s, r) ==
  FirstOf(Append([i \in DOMAIN r.using |-> RequireCapability(s, r.using[i])],
                 RequireCalls(s, Len(r.calls))))

RequestTo(options, s, r) ==
  [session |-> ~options.apiURL,
   errors  |-> IF options.strict /\ ~options.apiURL THEN Preflight(s, r) ELSE {}]

SessionLookups(s, r) == FirstOf([i \in DOMAIN r.primaries |-> PrimaryAccountID(s, r.primaries[i])])

-----------------------------------------------------------------------------
Decode(resp, i) ==
  CASE First(resp, i) = "absent"  -> {<<"missing", i>>}
    [] First(resp, i) = "error"   -> {<<"method", i>>}
    [] First(resp, i) = "garbled" -> {<<"unreadable", i>>}
    [] OTHER -> {}

MethodErrors(resp) == {<<"method", i>> : i \in {j \in DOMAIN resp : "error" \in Range(resp[j])}}

SetErrorChecks(req, resp, value) ==
  LET lost == {i \in Aside(req) : Decode(resp, i) # {}}
  IN IF lost # {} THEN Fails(Decode(resp, Min(lost)))
     ELSE Gives(value, Refused(req, resp))

(* A call that was not run keeps its default in the result, and the error  *)
(* of those that failed carries it.                                        *)
Func(req, resp) ==
  LET failed == MethodErrors(resp)
      unread == {i \in Given(req) : Decode(resp, i) # {}}
  IN IF unread # {} /\ failed = {} THEN Fails(Decode(resp, Min(unread)))
     ELSE IF unread # {} /\ req.returns # 0 THEN Fails(failed)
     ELSE IF failed # {} THEN Gives(Given(req) \ unread, failed)
     ELSE SetErrorChecks(req, resp, Given(req))

-----------------------------------------------------------------------------
(* The walk is a value with parameters of its own, and survives an error:  *)
(* the next call asks for the same page again.                             *)
BeginPages(w) == [w EXCEPT !.param = w.given, !.start = w.given, !.pages = <<>>, !.pc = "wanting"]

AskPage(w) == [w EXCEPT !.param = w.start, !.pc = "asking"]

TakePage(w, page) ==
  IF w.kind = "query" /\ page.from = page.to THEN [w EXCEPT !.pc = "ended"]
  ELSE [w EXCEPT !.pc = "held", !.pages = Append(@, page),
                 !.start = IF w.kind = "changes" /\ ~page.more THEN w.start ELSE page.to,
                 !.last  = IF w.kind = "query" THEN page.told /\ page.to >= page.total
                           ELSE ~page.more]

PageFails(w) == [w EXCEPT !.pc = "wanting"]
=============================================================================
