------------------------------ MODULE Generated ------------------------------
(***************************************************************************)
(* A program using generated code: it verifies its requests against the    *)
(* session as it starts, calls the function generated for one, or walks    *)
(* its pages, with the client of one of the three languages (GoClient,     *)
(* TsClient, RustClient), while the server may change what its session     *)
(* says and something else may refresh the client's copy of it.            *)
(***************************************************************************)
EXTENDS ClientTypes

CONSTANTS Languages,     \* of "go", "ts", "rust"
          Options,       \* where requests go and whether they are checked first
          Requests,      \* the requests of the package
          Sessions,      \* what the server's session may say
          Starts,        \* where a caller may start a walk of a list
          Total,         \* how long the list is that a /query answers from
          MaxState,      \* how often the records change that a /changes tells of
          MaxSessions,   \* how often the session changes
          MaxWalks       \* how often a walk is begun

ASSUME GeneratedAssumption ==
  /\ Languages \subseteq {"go", "ts", "rust"} /\ Starts \subseteq Int
  /\ Total \in Nat /\ MaxState \in Nat /\ MaxSessions \in Nat /\ MaxWalks \in Nat

(* Every account a request takes is one of its calls', and a request that  *)
(* is walked has the name of the one it is.                                *)
ASSUME RequestsAssumption ==
  /\ \A r \in Requests :
       /\ r.using \in Seq(Range(r.using)) /\ r.primaries \in Seq(Range(r.primaries))
       /\ r.calls \in Seq(Range(r.calls)) /\ r.returns \in {0} \cup DOMAIN r.calls
       /\ Range(r.primaries) \subseteq {r.calls[i].cap : i \in DOMAIN r.calls}
       /\ r.pages \in {"", "query", "changes"}
  /\ \A r, q \in Requests :
       r.name = q.name => r.using = q.using /\ r.primaries = q.primaries /\ r.calls = q.calls

(* A primary account is one of the session's, where it names any.          *)
ASSUME SessionsAssumption ==
  \A s \in Sessions : /\ s # [none |-> TRUE] /\ s.max \in Nat
                      /\ \A cap \in DOMAIN s.primary : s.primary[cap] \in {""} \cup DOMAIN s.accounts

Go   == INSTANCE GoClient
Ts   == INSTANCE TsClient
Rust == INSTANCE RustClient

VARIABLES language, options,   \* of the program's client
          cached,              \* the session the client holds
          server,              \* its session, how often that changed, and the records' state
          verdict,             \* what verify found last, and in which session
          call,                \* the call of a generated function under way
          walk                 \* the walk under way

vars == <<language, options, cached, server, verdict, call, walk>>

NoSession == [none |-> TRUE]
NoRequest == [name |-> "", using |-> <<>>, primaries |-> <<>>, calls |-> <<>>, returns |-> 0, pages |-> ""]
NoPage    == [from |-> 0, to |-> 0, told |-> FALSE, total |-> 0, more |-> FALSE, at |-> 0]
NoVerdict == [session |-> NoSession, found |-> {}]
NoCall    == [pc |-> "idle", req |-> NoRequest, start |-> 0, ids |-> <<>>, used |-> {},
              by |-> "", resp |-> <<>>, page |-> NoPage, value |-> {}, errors |-> {}]
NoWalk    == [pc |-> "none", req |-> NoRequest, kind |-> "", given |-> 0, param |-> 0, start |-> 0,
              first |-> 0, pages |-> <<>>, last |-> FALSE, begun |-> 0]

Init == /\ language \in Languages /\ options \in Options
        /\ cached = NoSession
        /\ \E s \in Sessions : server = [session |-> s, changed |-> 0, state |-> 0]
        /\ verdict = NoVerdict
        /\ call = NoCall /\ walk = NoWalk

(* A definition of the client's own language.                              *)
Lookups(s, r) == CASE language = "go"   -> Go!SessionLookups(s, r)
                   [] language = "ts"   -> Ts!SessionLookups(s, r)
                   [] language = "rust" -> Rust!SessionLookups(s, r)
Checked(s, r) == CASE language = "go"   -> Go!Check(s, Go!Needs(r))
                   [] language = "ts"   -> Ts!CheckNeeds(s, Ts!Needs(r))
                   [] language = "rust" -> Rust!CheckNeeds(s, Rust!Needs(r))
Address(s, r) == CASE language = "go"   -> Go!ResolveAPIURL(options, s, r)
                   [] language = "ts"   -> Ts!RequestTo(options, s, r)
                   [] language = "rust" -> Rust!RequestTo(options, s, r)
Result(r, resp) == CASE language = "go"   -> Go!Func(r, resp)
                     [] language = "ts"   -> Ts!Func(r, resp)
                     [] language = "rust" -> Rust!Func(r, resp)
Begun(w) == CASE language = "go"   -> Go!BeginPages(w)
              [] language = "ts"   -> Ts!BeginPages(w)
              [] language = "rust" -> Rust!BeginPages(w)
Asked(w) == CASE language = "go"   -> Go!AskPage(w)
              [] language = "ts"   -> Ts!AskPage(w)
              [] language = "rust" -> Rust!AskPage(w)
Taken(w, page) == CASE language = "go"   -> Go!TakePage(w, page)
                    [] language = "ts"   -> Ts!TakePage(w, page)
                    [] language = "rust" -> Rust!TakePage(w, page)
Failed(w) == CASE language = "go"   -> Go!PageFails(w)
               [] language = "ts"   -> Ts!PageFails(w)
               [] language = "rust" -> Rust!PageFails(w)

-----------------------------------------------------------------------------
(***************************************************************************)
(* The session: fetched on first use, kept, and fetched again at will.     *)
(***************************************************************************)
Session == IF cached = NoSession THEN server.session ELSE cached

RefreshSession == /\ cached # server.session
                  /\ cached' = server.session
                  /\ UNCHANGED <<language, options, server, verdict, call, walk>>

(* Sessions change, and are verified against, while nothing is walked.     *)
SessionChanges == /\ server.changed < MaxSessions /\ walk.pc = "none"
                  /\ \E s \in Sessions \ {server.session} :
                       server' = [server EXCEPT !.session = s, !.changed = @ + 1]
                  /\ UNCHANGED <<language, options, cached, verdict, call, walk>>

Verify == /\ walk.pc = "none"
          /\ cached' = Session
          /\ verdict' = [session |-> Session,
                         found |-> UNION {{<<r.name, e>> : e \in Checked(Session, r)} : r \in Requests}]
          /\ UNCHANGED <<language, options, server, call, walk>>

-----------------------------------------------------------------------------
(***************************************************************************)
(* One call: the accounts are looked up in the session, which may be       *)
(* another by the time the request is checked against it and sent.         *)
(***************************************************************************)
Stops(errors, by) == [call EXCEPT !.pc = "done", !.errors = errors, !.by = by]

Called(r, start) == [NoCall EXCEPT !.pc = "called", !.req = r, !.start = start]

Call == /\ call.pc = "idle" /\ walk.pc = "none"
        /\ \E r \in {x \in Requests : x.pages = ""} : call' = Called(r, 0)
        /\ UNCHANGED <<language, options, cached, server, verdict, walk>>

TakeResult == /\ call.pc = "done" /\ walk.pc = "none"
              /\ call' = NoCall
              /\ UNCHANGED <<language, options, cached, server, verdict, walk>>

LookUp == /\ call.pc = "called"
          /\ LET r == call.req
                 needed == r.primaries # <<>>
                 errors == Lookups(Session, r)
             IN /\ cached' = IF needed THEN Session ELSE cached
                /\ call' = IF needed /\ errors # {} THEN [Stops(errors, "client") EXCEPT !.used = {Session}]
                           ELSE [call EXCEPT !.pc = "looked",
                                             !.ids = [cap \in Range(r.primaries) |-> Session.primary[cap]],
                                             !.used = IF needed THEN {Session} ELSE {}]
          /\ UNCHANGED <<language, options, server, verdict, walk>>

Post == /\ call.pc = "looked"
        /\ LET to == Address(Session, call.req)
               used == IF to.session THEN call.used \cup {Session} ELSE call.used
           IN /\ cached' = IF to.session THEN Session ELSE cached
              /\ call' = IF to.errors # {} THEN [Stops(to.errors, "client") EXCEPT !.used = used]
                         ELSE [call EXCEPT !.pc = "sent", !.used = used]
        /\ UNCHANGED <<language, options, server, verdict, walk>>

-----------------------------------------------------------------------------
(***************************************************************************)
(* The server: it refuses the request as a whole, or answers its calls in  *)
(* order as far as it gets. A call whose account does not support it fails *)
(* there, as does one that refers to a result that is not there; a copy    *)
(* may be followed by the answer to the call it implies.                   *)
(***************************************************************************)
TurnsAway(s, r) == \/ ~(Range(r.using) \subseteq s.caps)
                   \/ "core" \in s.caps /\ s.max > 0 /\ Len(r.calls) > s.max

Unsupported(s, c) == /\ c.cap \in DOMAIN call.ids
                     /\ LET id == call.ids[c.cap] IN
                        \/ id \notin DOMAIN s.accounts
                        \/ s.accounts[id] # {} /\ c.cap \notin s.accounts[id]

Kinds(s, c) == IF Unsupported(s, c) THEN {"error"}
               ELSE {"answered", "error", "garbled"} \cup IF SetErrorFields(c.method) THEN {"refused"} ELSE {}
Implied(c)  == IF c.method = "copy" THEN {"answered", "error"} ELSE {}

(* Nothing, where the server does not get to the call.                     *)
Answers(s, c) == {<<>>} \cup {<<k>> : k \in Kinds(s, c)}
                 \cup {<<k, more>> : k \in Kinds(s, c), more \in Implied(c)}

Window(start) == IF start < 0 THEN Max({0, Total + start}) ELSE start
Windows(kind, start) ==
  CASE kind = "query" ->
         {[from |-> Window(start), to |-> Window(start) + n, told |-> b, total |-> IF b THEN Total ELSE 0,
           more |-> FALSE, at |-> 0] :
            n \in IF Window(start) >= Total THEN {0} ELSE 1..Min({2, Total - Window(start)}), b \in BOOLEAN}
    [] kind = "changes" ->
         {[from |-> start, to |-> n, told |-> FALSE, total |-> 0, more |-> n < server.state, at |-> server.state] :
            n \in IF start >= server.state THEN {start} ELSE (start + 1)..Min({start + 2, server.state})}
    [] OTHER -> {NoPage}

Answer(resp, page) ==
  LET res == Result(call.req, resp)
  IN [call EXCEPT !.pc = "done", !.resp = resp, !.page = page, !.value = res.value,
                  !.errors = res.errors, !.used = @ \cup {server.session},
                  !.by = IF \E i \in DOMAIN call.req.calls : Unsupported(server.session, call.req.calls[i])
                           THEN "server" ELSE ""]

Serve ==
  /\ call.pc = "sent"
  /\ IF TurnsAway(server.session, call.req)
       THEN call' = [Stops({<<"request", 0>>}, "server") EXCEPT !.used = @ \cup {server.session}]
       ELSE LET calls == call.req.calls IN
            \E resp \in [DOMAIN calls -> UNION {Answers(server.session, calls[i]) : i \in DOMAIN calls}],
               page \in Windows(call.req.pages, call.start) :
              /\ \A i \in DOMAIN calls :
                   /\ resp[i] \in Answers(server.session, calls[i])
                   /\ (\E j \in calls[i].refs : First(resp, j) \in {"absent", "error", "refused"})
                        => First(resp, i) \in {"absent", "error"}
              /\ call' = Answer(resp, page)
  /\ UNCHANGED <<language, options, cached, server, verdict, walk>>

RecordsChange == /\ server.state < MaxState /\ walk.kind = "changes"
                 /\ server' = [server EXCEPT !.state = @ + 1]
                 /\ UNCHANGED <<language, options, cached, verdict, call, walk>>

-----------------------------------------------------------------------------
(***************************************************************************)
(* A walk: each page is a call, asked for when the caller comes back for   *)
(* it. The caller may leave early, and walk again with what it holds.      *)
(***************************************************************************)
Walk == /\ walk.begun < MaxWalks
        /\ call.pc = "idle"
        /\ \/ /\ walk.pc = "none"
              /\ \E r \in {x \in Requests : x.pages # ""},  at \in Starts :
                   /\ r.pages = "changes" => at = 0
                   /\ LET w == Begun([NoWalk EXCEPT !.req = r, !.kind = r.pages, !.given = at, !.param = at])
                      IN walk' = [w EXCEPT !.first = w.start, !.begun = 1]
           \/ /\ walk.pc \in {"ended", "failed", "held"}
              /\ LET w == Begun(walk) IN walk' = [w EXCEPT !.first = w.start, !.begun = @ + 1, !.last = FALSE]
        /\ call' = NoCall /\ verdict' = NoVerdict
        /\ UNCHANGED <<language, options, cached, server>>

AskPage == /\ walk.pc = "wanting"
           /\ walk' = Asked(walk)
           /\ call' = Called(walk.req, walk'.start)
           /\ UNCHANGED <<language, options, cached, server, verdict>>

(* A result that is not whole, or that is not what it is taken for, fails. *)
TakePage == /\ walk.pc = "asking" /\ call.pc = "done"
            /\ walk' = IF call.errors # {} \/ First(call.resp, 1) # "answered"
                         THEN Failed(walk) ELSE Taken(walk, call.page)
            /\ call' = NoCall
            /\ UNCHANGED <<language, options, cached, server, verdict>>

NextPage == /\ walk.pc = "held"
            /\ walk' = [walk EXCEPT !.pc = IF walk.last THEN "ended" ELSE "wanting"]
            /\ UNCHANGED <<language, options, cached, server, verdict, call>>

Next == \/ RefreshSession \/ SessionChanges \/ RecordsChange \/ Verify
        \/ Call \/ LookUp \/ Post \/ Serve \/ TakeResult
        \/ Walk \/ AskPage \/ TakePage \/ NextPage

Spec == Init /\ [][Next]_vars

-----------------------------------------------------------------------------
(* A function that reports no error gives all it promises: no call of the  *)
(* request failed, none of those read refused a record, and every call it  *)
(* gives was answered with what it is read as. (TypeScript reads nothing:  *)
(* a result that is not what its type says is given as it is, and one the  *)
(* server never reached is left out unless its refusals are read.)         *)
SuccessIsWhole ==
  call.pc = "done" /\ call.errors = {} =>
    /\ \A i \in DOMAIN call.resp : "error" \notin Range(call.resp[i])
    /\ \A i \in DOMAIN call.req.calls : Lists(call.req, i) =>
         First(call.resp, i) \in {"answered", "garbled"}
    /\ language # "ts" => /\ call.value = Given(call.req)
                          /\ \A i \in call.value : First(call.resp, i) = "answered"
                          /\ \A i \in Aside(call.req) : First(call.resp, i) = "answered"

(* verify tells of a request just what sending it comes to, for as long as *)
(* the session is the one it looked at: a request it finds nothing wrong   *)
(* with is stopped neither by the client nor for its capabilities, size or *)
(* accounts by the server, one it finds a problem with fails, unless the   *)
(* server leaves out the calls it found it in and what they would give,    *)
(* and what the client stops it for is a capability or a size that was     *)
(* found wanting.                                                          *)
LeftOut(s) == \A i \in DOMAIN call.req.calls :
                Unsupported(s, call.req.calls[i]) => First(call.resp, i) = "absent" /\ i \notin call.value
VerifyTells ==
  call.pc = "done" /\ call.used = {verdict.session} =>
    LET found == {p[2] : p \in {x \in verdict.found : x[1] = call.req.name}} IN
    /\ found = {} /\ (\A cap \in DOMAIN call.ids : call.ids[cap] # "") => call.by = ""
    /\ found # {} => call.errors # {} \/ (call.by = "server" /\ LeftOut(verdict.session))
    /\ call.by = "client" => {e[2] : e \in call.errors} \subseteq {e[2] : e \in found}

(* A walk misses nothing and repeats nothing: its pages follow each other  *)
(* from where it began, whatever failed between; where it ends by itself   *)
(* nothing is left; and it asks for no window past a total it was told.    *)
From == IF walk.kind = "query" THEN Window(walk.first) ELSE walk.first
WalkCovers ==
  /\ \A k \in DOMAIN walk.pages :
       walk.pages[k].from = IF k = 1 THEN From ELSE walk.pages[k - 1].to
  /\ walk.pc = "ended" =>
       IF walk.kind = "query" THEN From >= Total \/ (walk.pages # <<>> /\ Last(walk.pages).to = Total)
       ELSE walk.pages # <<>> /\ Last(walk.pages).to = Last(walk.pages).at
  /\ walk.pc = "asking" /\ walk.pages # <<>> /\ Last(walk.pages).told => call.start < Total

=============================================================================
