------------------------------ MODULE GoClient ------------------------------
(***************************************************************************)
(* The Go client's reading of a session, the function generated for a      *)
(* request and the iterator over its pages (client.go, verify.go,          *)
(* request.go, error.go; internal/gen).                                    *)
(***************************************************************************)
EXTENDS ClientTypes

(***************************************************************************)
(* What a session says of a request.                                       *)
(***************************************************************************)
RequireCapability(s, uri) == IF uri \in s.caps THEN {} ELSE {<<"unknownCapability", uri>>}

RequireCalls(s, n) ==
  IF "core" \in s.caps /\ s.max > 0 /\ n > s.max THEN {<<"limit", n>>} ELSE {}

PrimaryAccountID(s, cap) ==
  IF cap \in DOMAIN s.primary THEN {}
  ELSE IF cap \in s.caps THEN {<<"noPrimary", cap>>} ELSE {<<"unsupported", cap>>}

(* An account of which nothing is listed is taken to support everything.   *)
AccountSupports(s, id, cap) ==
  id \in DOMAIN s.accounts /\ s.accounts[id] # {} => cap \in s.accounts[id]

(* What verify is told of a request.                                       *)
Needs(r) == [using |-> Range(r.using), primaries |-> Range(r.primaries), calls |-> Len(r.calls)]

Check(s, n) ==
  (UNION {RequireCapability(s, uri) : uri \in n.using})
  \cup (UNION {IF PrimaryAccountID(s, cap) # {} THEN PrimaryAccountID(s, cap)
               ELSE IF AccountSupports(s, s.primary[cap], cap) THEN {}
               ELSE {<<"accountNotSupported", cap>>} :
                 cap \in {c \in n.primaries : c \in n.using => c \in s.caps}})
  \cup RequireCalls(s, n.calls)

Preflight(s, r) ==
  FirstOf(Append([i \in DOMAIN r.using |-> RequireCapability(s, r.using[i])],
                 RequireCalls(s, Len(r.calls))))

(* Where a request goes: an address given beforehand does without the      *)
(* session only where nothing is checked.                                  *)
ResolveAPIURL(options, s, r) ==
  [session |-> options.strict \/ ~options.apiURL,
   errors  |-> IF options.strict THEN Preflight(s, r) ELSE {}]

-----------------------------------------------------------------------------
(***************************************************************************)
(* The generated function.                                                 *)
(***************************************************************************)
SessionLookups(s, r) == FirstOf([i \in DOMAIN r.primaries |-> PrimaryAccountID(s, r.primaries[i])])

Decode(resp, i) ==
  CASE First(resp, i) = "absent"  -> {<<"missing", i>>}
    [] First(resp, i) = "error"   -> {<<"method", i>>}
    [] First(resp, i) = "garbled" -> {<<"unreadable", i>>}
    [] OTHER -> {}

Errors(resp) == {<<"method", i>> : i \in {j \in DOMAIN resp : "error" \in Range(resp[j])}}

(* Mutant: naming one call exempts the others from the check.              *)
FuncOfReturned(req, resp) ==
  LET err == Errors(resp)
      unread == {i \in Given(req) : Decode(resp, i) # {}}
  IN IF unread # {} /\ (req.returns # 0 \/ err = {})
       THEN Fails(IF err # {} THEN err ELSE Decode(resp, Min(unread)))
     ELSE Gives(Given(req) \ unread,
                err \cup {f \in Refused(req, resp) : f[2] \in Given(req)})

(* What the calls not returned were refused; one that cannot be read       *)
(* leaves the function with that error and nothing else.                   *)
SetErrorChecks(req, resp, value, err) ==
  LET lost == {i \in Aside(req) : Decode(resp, i) # {}}
  IN IF lost # {} THEN Fails(Decode(resp, Min(lost)))
     ELSE Gives(value, err \cup Refused(req, resp))

Func(req, resp) ==
  LET err == Errors(resp)
      unread == {i \in Given(req) : Decode(resp, i) # {}}
  IN IF unread # {} /\ (req.returns # 0 \/ err = {})
       THEN Fails(IF err # {} THEN err ELSE Decode(resp, Min(unread)))
     ELSE SetErrorChecks(req, resp, Given(req) \ unread, err)

-----------------------------------------------------------------------------
(***************************************************************************)
(* The iterator: its closure holds the parameters, and moves the one that  *)
(* says where to start.                                                    *)
(***************************************************************************)
BeginPages(w) == [w EXCEPT !.start = w.param, !.pages = <<>>, !.pc = "wanting"]

AskPage(w) == [w EXCEPT !.param = w.start, !.pc = "asking"]

(* Mutant: the next page is asked for where this one was asked for, and    *)
(* its records on.                                                         *)
TakePageFromAsked(w, page) ==
  IF w.kind = "query" /\ page.from = page.to THEN [w EXCEPT !.pc = "ended"]
  ELSE [w EXCEPT !.pc = "held", !.pages = Append(@, page),
                 !.start = IF w.kind = "query" THEN w.start + (page.to - page.from) ELSE page.to,
                 !.last  = IF w.kind = "query" THEN page.total > 0 /\ page.to >= page.total ELSE ~page.more]

TakePage(w, page) ==
  IF w.kind = "query" /\ page.from = page.to THEN [w EXCEPT !.pc = "ended"]
  ELSE [w EXCEPT !.pc = "held", !.pages = Append(@, page), !.start = page.to,
                 !.last = IF w.kind = "query" THEN page.total > 0 /\ page.to >= page.total
                          ELSE ~page.more]

PageFails(w) == [w EXCEPT !.pc = "failed"]
=============================================================================
