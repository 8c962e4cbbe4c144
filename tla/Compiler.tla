------------------------------ MODULE Compiler ------------------------------
(***************************************************************************)
(* A request from its file to its answers. The compiler loads the schemas  *)
(* a project names (Extension); once they have come to the catalogue the   *)
(* files are written against, it parses a request                          *)
(* file and the sets of properties beside it (RequestFile, PropertySets),  *)
(* checks it against a session's limits (internal/limits) and builds it    *)
(* with the caller's values (internal/wire); a server checks each call as  *)
(* it arrives, resolves its back references against the answers before it, *)
(* and answers as its response type allows, like the test server           *)
(* (jmaptest).                                                             *)
(***************************************************************************)
EXTENDS RecordTypes, Invocations, JsonSchema, Project

CONSTANTS Files,        \* the files an author may write, with the sets of properties beside
          Sessions      \* the sessions the request may be checked against

VARIABLES phase,        \* writing, compiled, checked, sent, serving, done, turnedAway, refused
          file,         \* the request file: its calls, the members and the sets beside
          q,            \* the request as parsed
          session,      \* the session it was checked against
          values,       \* the values of its parameters, where given
          wire,         \* the request as built
          server,       \* the server's check of the request
          answers,      \* what each call was answered with, in order
          told,         \* what the server answers each question with, for now
          version       \* how often the server's data may have changed

vars == <<schemas, catalogue, phase, file, q, session, values, wire, server, answers, told, version>>

NoFile    == [calls |-> <<>>, sets |-> <<>>, returns |-> "", watches |-> "", pages |-> "",
              createdIds |-> FALSE, using |-> {}]
NoSession == [caps |-> {}, accounts |-> <<>>, primary |-> <<>>, maxCalls |-> 0, maxGet |-> 0, maxSet |-> 0]

MaxSchemas == 2         \* bound: the schemas a project names

Init == /\ ProjectInit
        /\ phase = "writing" /\ file = NoFile
        /\ q = NewChecker(FALSE, <<>>) /\ session = NoSession /\ values = <<>> /\ wire = <<>>
        /\ server = NewChecker(TRUE, <<>>) /\ answers = <<>> /\ told = {} /\ version = 0

-----------------------------------------------------------------------------
(***************************************************************************)
(* The compiler.                                                           *)
(***************************************************************************)
(* The next schema of the project; one that is refused is the last.        *)
NameSchema == /\ phase = "writing" /\ Len(schemas) < MaxSchemas
              /\ ExtendCatalogue
              /\ UNCHANGED <<phase, file, q, session, values, wire, server, answers, told, version>>

(* The catalogue has come to what module Catalog has, and no more.         *)
Catalogued ==
  /\ catalogue.status = "ok"
  /\ DOMAIN catalogue.methods = MethodNames
  /\ Cardinality(DOMAIN catalogue.objects) = Cardinality(DOMAIN Objects) + 2 * Cardinality(MethodNames)

Parsed(f, c, refused) == /\ file' = f /\ q' = c
                         /\ phase' = IF refused \/ c.errs # <<>> THEN "refused" ELSE "compiled"
Compile == /\ phase = "writing" /\ Catalogued
           /\ LET With(f, sets) == Parsed(f, Parse(f, SetsOf(sets)), sets.refused)
              IN \E f \in Files : With(f, ParsePropertySets(f.sets))
           /\ UNCHANGED <<schemas, catalogue, session, values, wire, server, answers, told, version>>

Using == IF file.using = {} THEN NeededBy(q) ELSE file.using

(* The capability whose primary account fills in a call's account.         *)
AccountNeeded(call) == /\ HasField(call.m.args, "accountId")
                       /\ ~Given(call, "accountId") /\ ~Refers(call, "accountId")

AccountSupports(s, id, cap) ==
  id \in DOMAIN s.accounts /\ s.accounts[id] # {} => cap \in s.accounts[id]

AccountFits(s, call) ==
  IF AccountNeeded(call)
    THEN call.m.capability \in DOMAIN s.primary
         /\ AccountSupports(s, s.primary[call.m.capability], call.m.capability)
  ELSE Given(call, "accountId") /\ ArgOf(call, "accountId").j = "str" =>
         /\ ArgOf(call, "accountId").s \in DOMAIN s.accounts
         /\ AccountSupports(s, ArgOf(call, "accountId").s, call.m.capability)

Counted(call, arg) == IF Given(call, arg) THEN Len(ArgOf(call, arg).of) ELSE 0
SetArguments == {"create", "update", "destroy"}
Changed(call) == Counted(call, "create") + Counted(call, "update") + Counted(call, "destroy")

(* Mutant: the account a call is sent to is not looked for.                *)
WithinLimitsOfAny(s) ==
  /\ Using \subseteq s.caps
  /\ s.maxCalls > 0 => Len(q.calls) <= s.maxCalls
  /\ \A i \in DOMAIN q.calls : /\ s.maxGet > 0 => Counted(q.calls[i], "ids") <= s.maxGet
                               /\ s.maxSet > 0 => Counted(q.calls[i], "create") <= s.maxSet

(* What the session says the server would refuse.                          *)
WithinLimits(s) ==
  /\ Using \subseteq s.caps
  /\ \A i \in DOMAIN q.calls : AccountFits(s, q.calls[i])
  /\ s.maxCalls > 0 => Len(q.calls) <= s.maxCalls
  /\ \A i \in DOMAIN q.calls : /\ s.maxGet > 0 => Counted(q.calls[i], "ids") <= s.maxGet
                               /\ s.maxSet > 0 => Changed(q.calls[i]) <= s.maxSet

CheckLimits == /\ phase = "compiled"
               /\ \E s \in Sessions : /\ session' = s
                                      /\ phase' = IF WithinLimits(s) THEN "checked" ELSE "refused"
               /\ UNCHANGED <<schemas, catalogue, file, q, values, wire, server, answers, told, version>>

(* Values a caller may give a parameter of a type; one reads as a          *)
(* parameter of a file, and is a string like any other.                    *)
Param(p) == Node("param", p, <<>>)
ValuesOf(t) ==
  CASE t.kind = "array" /\ t.of[1].name = "Id" ->
         {Node("arr", "", <<>>), Node("arr", "", <<Item(StrNode("a")), Item(StrNode("b"))>>)}
    [] t.kind = "array" /\ t.of[1].kind \in {"map", "object", "union"} ->
         {Node("arr", "", <<Item(Node("obj", "", <<>>))>>)}
    [] t.kind = "array" -> {Node("arr", "", <<Item(StrNode("id"))>>)}
    [] t.name = "Id" -> {StrNode("a"), StrNode("b")}
    [] t.name = "String" -> {StrNode("a"), Param("x"), Node("embedded", "to {{x}}", <<>>)}
    [] t.name = "Boolean" -> {Node("bool", "true", <<>>)}
    [] t.name = "Int" -> {Node("int", "neg", <<>>)}
    [] t.name = "UnsignedInt" -> {Node("int", "0", <<>>)}
    [] t.kind \in {"map", "object", "union"} -> {Node("obj", "", <<>>)}
    [] t.name \in {"UTCDate", "LocalDateTime"} -> {StrNode(CHOOSE s \in Texts[t.name] : TRUE)}
    [] OTHER -> {StrNode("a"), NullNode}

PrimaryAccount(call) == IF AccountNeeded(call) THEN AccountArg(session.primary[call.m.capability]) ELSE <<>>
BuildCall(vals, call) ==
  [method |-> call.m.name, id |-> call.id, args |-> PrimaryAccount(call) \o BuildArgs(vals, call.args)]

ParamNames == {q.params[i].name : i \in DOMAIN q.params}
ParamOf(p) == q.params[CHOOSE i \in DOMAIN q.params : q.params[i].name = p]
Optional   == {p \in ParamNames : ParamOf(p).optional}

Build == /\ phase = "checked"
         /\ \E given \in {ParamNames, ParamNames \ Optional} :
              \E vals \in [given -> UNION {ValuesOf(ParamOf(p).type) : p \in given}] :
                /\ \A p \in given : vals[p] \in ValuesOf(ParamOf(p).type)
                /\ values' = vals
                /\ wire' = [i \in DOMAIN q.calls |-> BuildCall(vals, q.calls[i])]
         /\ phase' = "sent"
         /\ UNCHANGED <<schemas, catalogue, file, q, session, server, answers, told, version>>

-----------------------------------------------------------------------------
(***************************************************************************)
(* The server.                                                             *)
(***************************************************************************)
(* What a pointer selects of an answer, or why it selects nothing.         *)
Selects(v)  == [ok |-> TRUE, v |-> v, why |-> "", at |-> ""]
Nothing(why, at) == [ok |-> FALSE, v |-> NullNode, why |-> why, at |-> at]

RECURSIVE Pointer(_, _)
Pointer(v, path) ==
  IF path = <<>> THEN Selects(v)
  ELSE LET tok == Head(path)
           each == [i \in DOMAIN v.of |-> Pointer(v.of[i].v, Tail(path))]
           at == IF tok = "0" THEN 1 ELSE 0
       IN CASE v.j = "arr" /\ tok = "*" ->
                 IF \E i \in DOMAIN each : ~each[i].ok THEN each[CHOOSE i \in DOMAIN each : ~each[i].ok]
                 ELSE Selects(Node("arr", "", FlattenSeq([i \in DOMAIN each |->
                                IF each[i].v.j = "arr" THEN each[i].v.of ELSE <<Item(each[i].v)>>])))
            [] v.j = "arr" /\ tok # "*" -> IF at \in DOMAIN v.of THEN each[at] ELSE Nothing("index", "")
            [] v.j = "obj" -> IF tok \in KeysOf(v) THEN Pointer(MemberOf(v, tok), Tail(path))
                              ELSE Nothing(IF v.s = "map" THEN "key" ELSE "property", tok)
            [] v.j = "null" -> Nothing("null", "")
            [] OTHER -> Nothing("kind", "")

AnsweredOK(id) == \E i \in DOMAIN answers : answers[i].id = id /\ answers[i].status = "ok"
AnswerOf(id)   == answers[CHOOSE i \in DOMAIN answers : answers[i].id = id]

ResolveArg(a) ==
  IF ~a.ref THEN Selects(a.v)
  ELSE IF ~AnsweredOK(RefFrom(a.v)) THEN Nothing("unanswered", "")
  ELSE Pointer(AnswerOf(RefFrom(a.v)).v, RefPath(a.v))

Resolved(w) == [i \in DOMAIN w.args |-> [w.args[i] EXCEPT !.ref = FALSE, !.v = ResolveArg(w.args[i]).v]]

(* The properties a call's records are answered with.                      *)
Stated(args, arg) ==
  LET hit == {i \in DOMAIN args : args[i].k = arg /\ args[i].v.j = "arr"} IN
  IF arg = "" \/ hit = {} THEN All
  ELSE LET l == args[CHOOSE i \in hit : TRUE].v.of IN {l[i].v.s : i \in DOMAIN l}

Fetched(m, args, type, poor) ==
  LET arg    == IF type = m.data THEN m.properties ELSE m.nested
      asked  == Stated(args, arg)
      dflt   == IF type = m.data THEN m.defaults ELSE m.nestedDefaults
      names  == IF asked # All THEN asked ELSE IF dflt # All THEN dflt
                ELSE NamesOf(Objects[type]) \ m.onlyWhenAsked
      picked == (names \ {"data"})
                \cup (IF type = "BlobData" /\ "data" \in names
                        THEN {IF poor THEN "data:asBase64" ELSE "data:asText"} ELSE {})
      withID == IF type = m.data /\ m.returnsID /\ HasField(Objects[type], "id") THEN {"id"} ELSE {}
      fields == IF type = m.data THEN RecordObject(m) ELSE Objects[type]
  IN IF type \notin {m.data, m.nestedType} THEN fields
     ELSE IF type = m.data /\ m.properties = ""             \* what a /set assigned
       THEN SelectSeq(fields, LAMBDA f : f.name \in {"id", "threadId"})
     ELSE SelectSeq(fields, LAMBDA f : f.name \in picked \cup withID)
          \o FlattenSeq(SetToSeq({DynamicField(type, p) : p \in picked \ NamesOf(fields)}))

(* A value of a type: rich, with everything there is; poor, with nothing   *)
(* that need not be there; or bare, its lists filled and the rest null.    *)
RECURSIVE Sample(_, _, _, _, _)
Sample(m, args, t, how, depth) ==
  LET Of(f) == [k |-> <<Seg(f.name)>>,
                v |-> IF t.name = m.data /\ f.name \in m.nulls THEN NullNode
                      ELSE Sample(m, args, f.type, how, depth + 1)]
      sent  == IF t.name = "Response" THEN SelectSeq(m.response, LAMBDA f : f.optional => how = "rich")
               ELSE Fetched(m, args, t.name, how # "rich")
      one   == Sample(m, args, t.of[Len(t.of)], how, depth + 1)
  IN IF t.null /\ (how # "rich" \/ depth > 5) THEN NullNode
     ELSE CASE t.kind = "array" -> Node("arr", "", IF how = "poor" THEN <<>> ELSE <<Item(one)>>)
            [] t.kind = "map" -> Node("obj", "map", IF how = "poor" THEN <<>>
                                                    ELSE <<[k |-> <<Seg("a")>>, v |-> one]>>)
            [] t.kind = "object" -> Node("obj", t.name, [i \in DOMAIN sent |-> Of(sent[i])])
            [] t.name = "Boolean" -> Node("bool", "true", <<>>)
            [] t.name \in {"Int", "UnsignedInt"} -> Node("int", "0", <<>>)
            [] OTHER -> StrNode(t.name)

TooLarge(w, args) ==
  LET N(arg) == IF \E i \in DOMAIN args : args[i].k = arg
                  THEN Len(args[CHOOSE i \in DOMAIN args : args[i].k = arg].v.of) ELSE 0
      m == MethodNamed(w.method)
  IN \/ session.maxGet > 0 /\ m.returnsID /\ N("ids") > session.maxGet
     \/ session.maxSet > 0 /\ HasField(m.args, "destroy")
        /\ N("create") + N("update") + N("destroy") > session.maxSet

(* The request as a whole is taken or refused.                             *)
Receive == /\ phase = "sent"
           /\ phase' = IF /\ Using \subseteq session.caps
                          /\ session.maxCalls > 0 => Len(wire) <= session.maxCalls
                       THEN "serving" ELSE "turnedAway"
           /\ UNCHANGED <<schemas, catalogue, file, q, session, values, wire, server, answers, told, version>>

Answer(id, status, v) == Append(answers, [id |-> id, status |-> status, v |-> v])

(* What is wrong with a call as it arrives, checked, then resolved, then   *)
(* measured.                                                               *)
Refused(d, w, args) ==
  IF d.errs # <<>> THEN "invalidArguments"
  ELSE IF \E i \in DOMAIN w.args : ~ResolveArg(w.args[i]).ok THEN "invalidResultReference"
  ELSE IF TooLarge(w, args) THEN "requestTooLarge" ELSE ""

(* One question has one answer for as long as the data has not changed.    *)
AnswerTo(w, asks, sample) ==
  LET hit == {x \in told : x.asks = asks}
      Told(x) == /\ answers' = Answer(w.id, x.status, x.v)
                 /\ told' = told \cup {x}
  IN IF hit # {} THEN \E x \in hit : Told(x)
     ELSE \E how \in {"rich", "poor", "bare", "refuses"} :
            Told([asks |-> asks, status |-> IF how = "refuses" THEN "refused" ELSE "ok", v |-> sample[how]])

(* The answers a server may give to a call of a method with arguments.     *)
Samples(m, args) ==
  [how \in {"rich", "poor", "bare", "refuses"} |->
     IF how = "refuses" THEN NullNode ELSE Sample(m, args, Obj("Response"), how, 0)]

Served(w, m, args, d) ==
  /\ server' = [d EXCEPT !.errs = <<>>]
  /\ version' = IF m.readsOnly THEN version ELSE version + 1
  /\ LET Outcome(why) ==
           IF why # "" THEN answers' = Answer(w.id, why, NullNode) /\ UNCHANGED told
           ELSE AnswerTo(w, [method |-> w.method, args |-> Range(args), version |-> version], Samples(m, args))
     IN Outcome(Refused(d, w, args))

(* The next call, checked and answered.                                    *)
Serve ==
  /\ phase = "serving" /\ Len(answers) < Len(wire)
  /\ LET w == wire[Len(answers) + 1] IN
     Served(w, MethodNamed(w.method), Resolved(w), RequestCheckCall(server, w, Using))
  /\ phase' = IF Len(answers') = Len(wire) THEN "done" ELSE phase
  /\ UNCHANGED <<schemas, catalogue, file, q, session, values, wire>>

Next == NameSchema \/ Compile \/ CheckLimits \/ Build \/ Receive \/ Serve

Spec == Init /\ [][Next]_vars

-----------------------------------------------------------------------------
(* Whether a value the server answered with may stand where t is expected. *)
RECURSIVE Conforms(_, _)
Conforms(v, t) ==
  \/ t.kind = "any"
  \/ v.j = "null" /\ t.null
  \/ t.kind = "union" /\ \E i \in DOMAIN t.of : Conforms(v, t.of[i])
  \/ t.kind = "array" /\ v.j = "arr" /\ \A i \in DOMAIN v.of : Conforms(v.of[i].v, t.of[1])
  \/ t.kind = "map" /\ v.j = "obj" /\ v.s = "map" /\ \A i \in DOMAIN v.of : Conforms(v.of[i].v, t.of[2])
  \/ t.kind = "object" /\ v.j = "obj" /\ v.s = t.name
  \/ t.name = "Boolean" /\ v.j = "bool"
  \/ t.name \in {"Int", "UnsignedInt"} /\ v.j = "int"
  \/ v.j = "str" /\ v.s = t.name

(* What an answer may lack although the file may read it: a property sent  *)
(* only sometimes, what a caller's own list of properties leaves out, what *)
(* a /set did not assign, and the form of a blob's content not picked.     *)
MayBeLackedBy(from, p) ==
  \/ HasField(from.m.response, p) /\ FieldOf(from.m.response, p).optional
  \/ from.unknown
  \/ from.m.properties = ""
  \/ "data" \in from.props /\ p \in AnsweredAs("BlobData", "data")

(* A back reference the compiler accepted reads, from any answer a server  *)
(* may give, a value its argument takes, or finds a list too short, a key  *)
(* not there or a null on its way; it never asks for a property the call   *)
(* it refers to does not fetch, nor looks inside what holds nothing.       *)
ReferencesResolve ==
  \A i \in DOMAIN answers : \A a \in Range(wire[i].args) :
    a.ref /\ AnsweredOK(RefFrom(a.v)) =>
      LET r == ResolveArg(a) IN
      IF r.ok THEN Conforms(r.v, ArgField(MethodNamed(wire[i].method), a.k).type)
      ELSE \/ r.why \in {"null", "index", "key"}
           \/ r.why = "property" /\ MayBeLackedBy(CallNamed(q, RefFrom(a.v)), r.at)

(* Places where a parameter stands for the name of a property or for one   *)
(* of an enumeration's values, which a caller may get wrong and no         *)
(* compiler can see.                                                       *)
FromFixedNames(p) ==
  \/ p.weak
  \/ \E pl \in p.places :
       \/ Last(pl) \in {"property", "operator"}
       \/ pl[2] \in {"properties", "bodyProperties"}
       \/ pl[2] = "update" /\ "{{}}" \in {pl[i] : i \in 4..Len(pl)}
       \/ Last(pl) = "{{}}" /\ pl[Len(pl) - 1] = "roles"

(* A request built from what the compiler accepted is accepted by a server *)
(* that checks it against the same catalogue, whatever values of their     *)
(* types its parameters are given, a string that reads as a parameter too. *)
BuiltIsAccepted ==
  \A i \in DOMAIN answers :
    answers[i].status = "invalidArguments" =>
      \E p \in Range(q.params) : p.name \in DOMAIN values /\ FromFixedNames(p)

(* A call the compiler reports as a repeat of an earlier one would have    *)
(* been answered just the same.                                            *)
RepeatsAnswerTheSame ==
  phase = "done" =>
    \A r \in RepeatsOf(q.calls) :
      /\ AnswerOf(r[1]).status = AnswerOf(r[2]).status
      /\ AnswerOf(r[1]).v = AnswerOf(r[2]).v

(* A request checked against a session is not turned away by the server    *)
(* that stated it: not as a whole, not for the size of a list the file     *)
(* writes out, and not for the account it is sent to.                      *)
Unseen(call, arg) == Refers(call, arg) \/ (Given(call, arg) /\ ArgOf(call, arg).j \in {"param", "opt"})
RefusedOnlyUnseen ==
  /\ phase # "turnedAway"
  /\ \A i \in DOMAIN answers :
       answers[i].status = "requestTooLarge" => \E arg \in SetArguments \cup {"ids"} : Unseen(q.calls[i], arg)
  /\ \A i \in DOMAIN wire : HasField(q.calls[i].m.args, "accountId") =>
       \/ Unseen(q.calls[i], "accountId")
       \/ ArgOf(wire[i], "accountId").s \in DOMAIN session.accounts

(* What an editor is told agrees with what the compiler takes: a file the   *)
(* compiler accepts is one the schema describes, but for what the schema   *)
(* leaves out.                                                             *)
AcceptedIsDescribed ==
  phase = "compiled" =>
    file.calls # <<>> /\ \A w \in Range(file.calls) : SchemaCall(w) \/ NotDescribed(w)

(* The functions generated in each language send the request the compiler  *)
(* sends for the same values, whatever a caller leaves out and wherever a  *)
(* file names its parameters.                                              *)
SameRequest ==
  \A i \in DOMAIN wire :
    LET args == q.calls[i].args IN
    \A written \in {GoInvocation(values, args), TsInvocation(values, args), RustInvocation(values, args)} :
      Range(PrimaryAccount(q.calls[i]) \o written) = Range(wire[i].args)

(* An answer a server may give is read by the type generated for it, in    *)
(* each language: Rust fails to read nothing of it, TypeScript declares    *)
(* what is there and what may be missing, and no language drops a property *)
(* the call asked for.                                                     *)
AnswersFit ==
  \A i \in DOMAIN answers : answers[i].status = "ok" =>
    \A lang \in Languages :
      ReadAs(lang, q.calls, i, ParsePropertySets(file.sets).sets, answers[i].v, Obj("Response"))

(* What the plan says of a call reading the same records in the same shape *)
(* as an earlier one: it shares its types rather than declaring them again.*)
DeclaredOnce ==
  phase = "compiled" =>
    \A types \in {GoNestedTypes(q.calls), TsNestedTypes(q.calls), RustNestedTypes(q.calls)} : IsInjective(types)
=============================================================================
