----------------------------- MODULE MCCompiler -----------------------------
(***************************************************************************)
(* Request files of one to three calls over every kind of method: each     *)
(* first call with each second that may refer to it, chains of three, and  *)
(* the members a loop needs; sets of properties in both orders; and        *)
(* sessions that state low limits, few capabilities or no account.         *)
(***************************************************************************)
EXTENDS Compiler

S(s)      == StrNode(s)
Opt(p)    == Node("opt", p, <<>>)
SetOf(nm) == Node("set", nm, <<>>)
True      == Node("bool", "true", <<>>)
Number(n) == Node("int", n, <<>>)
List(vs)  == Node("arr", "", [i \in DOMAIN vs |-> Item(vs[i])])
Names(ns) == List([i \in DOMAIN ns |-> S(ns[i])])
M(k, v)   == [k |-> <<Seg(k)>>, v |-> v]
Dict(ms)  == Node("obj", "", ms)

A(k, v)        == [k |-> k, ref |-> FALSE, v |-> v]
R(k, w, path)  == [k |-> k, ref |-> TRUE,
                   v |-> Node("ref", w.id, <<[k |-> [i \in DOMAIN path |-> Seg(path[i])], v |-> S(w.method)]>>)]
W(id, method, args) == [method |-> method, id |-> id, args |-> args]

Filter1 == Dict(<<M("inMailbox", Param("box")), M("hasKeyword", S("flag"))>>)
Filter2 == Dict(<<M("operator", S("OR")),
                  M("conditions", List(<<Dict(<<M("before", Param("when"))>>),
                                         Dict(<<M("minSize", Param("size"))>>)>>))>>)
ByKeyword == List(<<Dict(<<M("property", S("hasKeyword")), M("keyword", Param("kw"))>>)>>)
ByAny     == List(<<Dict(<<M("property", Param("by")), M("keyword", S("flag"))>>)>>)
Patches   == Dict(<<[k |-> <<SegP("one")>>,
                     v |-> Dict(<<[k |-> <<Seg("keywords"), SegP("kw")>>, v |-> True],
                                  M("subject", Param("subject"))>>)]>>)
EventPatch == Dict(<<M("a", Dict(<<[k |-> <<Seg("recurrenceOverrides"), SegP("when"), Seg("title")>>,
                                    v |-> Param("title")],
                                   [k |-> <<Seg("participants"), Seg("b"), Seg("roles"), Seg("owner")>>,
                                    v |-> NullNode]>>))>>)

Firsts ==
  {W("q", "Email/query", <<A("filter", Filter1), A("calculateTotal", Opt("total"))>>),
   W("q", "Email/query", <<A("filter", Filter2), A("sort", ByKeyword), A("limit", Opt("most"))>>),
   W("q", "Email/query", <<A("sort", ByAny)>>),
   W("q", "Email/query", <<A("filter", Dict(<<M("hasKeyword", Param("x")), M("inMailbox", Param("x"))>>))>>),
   W("q", "Email/changes", <<A("sinceState", Param("since")), A("maxChanges", Number("0"))>>),
   W("q", "Email/queryChanges", <<A("sinceQueryState", Param("since"))>>),
   W("q", "Email/get", <<A("ids", Names(<<"a", "b">>)), A("properties", Names(<<"subject", "textBody">>)),
                         A("bodyProperties", Names(<<"blobId">>))>>),
   W("q", "Email/get", <<A("ids", Param("ids")), A("properties", Param("props"))>>),
   W("q", "Email/get", <<A("ids", Names(<<"a">>)),
                         A("properties", Names(<<"threadId", "header:References:asMessageIds", "references">>))>>),
   W("q", "Email/get", <<A("ids", Names(<<"a">>))>>),
   W("q", "Email/get", <<A("ids", Names(<<"a">>)), A("properties", SetOf("Brief"))>>),
   W("q", "Email/get", <<A("ids", Names(<<"a">>)), A("properties", Names(<<"textBody">>)),
                         A("bodyProperties", SetOf("Part"))>>),
   W("q", "Email/get", <<A("ids", Names(<<"a">>)), A("properties", List(<<Param("prop")>>))>>),
   W("q", "Email/parse", <<A("blobIds", Names(<<"a">>)), A("properties", NullNode)>>),
   W("q", "Email/set", <<A("create", Dict(<<M("b", Dict(<<M("subject", Param("subject")),
                                                          M("mailboxIds", Dict(<<M("a", True)>>))>>))>>)),
                         A("destroy", Param("ids"))>>),
   W("q", "Email/set", <<A("create", Dict(<<M("b", Dict(<<M("subject", S("hello"))>>))>>)),
                         A("destroy", Names(<<"a">>))>>),
   W("q", "Email/set", <<A("accountId", S("b")), A("update", Patches)>>),
   W("q", "CalendarEvent/set", <<A("update", EventPatch)>>),
   W("q", "CalendarEvent/get", <<A("ids", NullNode)>>),
   W("q", "Mailbox/get", <<A("accountId", Param("account")), A("ids", NullNode)>>),
   W("q", "Blob/get", <<A("ids", Names(<<"a">>)), A("properties", Names(<<"data">>))>>),
   W("q", "Note/get", <<A("ids", Names(<<"a">>))>>),
   W("q", "Core/echo", <<A("any", Param("x"))>>)}

(* A second call, and what it reads of the first.                          *)
Paths ==
  {<<"ids">>, <<"ids", "0">>, <<"total">>, <<"created">>, <<"created", "b", "id">>, <<"added", "*", "id">>,
   <<"state">>, <<"notFound">>, <<"list", "*", "id">>, <<"list", "0", "subject">>, <<"list", "*", "subject">>,
   <<"list", "0", "references">>, <<"list", "0", "header:References:asMessageIds">>, <<"list", "*", "threadId">>,
   <<"parsed", "b", "threadId">>, <<"parsed", "b", "mailboxIds">>, <<"parsed", "b", "references">>,
   <<"list", "0", "mailboxIds">>, <<"list", "0", "smimeStatus">>, <<"list", "0", "utcStart">>,
   <<"list", "0", "textBody", "0", "blobId">>, <<"list", "0", "textBody", "*", "partId">>,
   <<"list", "0", "data:asBase64">>, <<"list", "0", "size">>, <<"list", "-1", "participants", "b", "name">>}
Reads(q1) ==
  UNION {{W("r", "Email/get", <<R("ids", q1, p)>>), W("r", "Email/parse", <<R("blobIds", q1, p)>>),
          W("r", "Email/query", <<R("anchor", q1, p)>>), W("r", "Email/set", <<R("ifInState", q1, p)>>),
          W("r", "Email/get", <<A("ids", Names(<<"a">>)), R("properties", q1, p)>>),
          W("r", "Email/changes", <<A("sinceState", Param("since")), R("maxChanges", q1, p)>>),
          W("r", "Core/echo", <<R("any", q1, p)>>)} : p \in Paths}

Query(id)     == W(id, "Email/query", <<A("filter", Filter1)>>)
Fetch(id, w)  == W(id, "Email/get", <<R("ids", w, <<"ids">>), A("properties", Names(<<"threadId">>))>>)
Chains ==
  {<<Query("q"), Fetch("r", Query("q")), W("s", "Thread/get", <<R("ids", Fetch("r", Query("q")), <<"list", "*", "threadId">>)>>)>>,
   <<Query("q"), Query("r"), Fetch("s", Query("q")), Fetch("t", Query("r"))>>,
   <<Query("q"), W("n", "Note/get", <<A("ids", NullNode)>>), Query("r")>>,
   <<Query("q"), W("n", "Email/set", <<A("destroy", Param("ids"))>>), Query("r")>>}

Changes(start) == W("q", "Email/changes", <<A("sinceState", start)>>)
Windowed(pos)  == W("q", "Email/query", <<A("position", pos)>>)

Brief == [name |-> "Brief", type |-> "Email", extends |-> "", props |-> <<"id", "subject">>]
More  == [name |-> "More", type |-> "", extends |-> "Brief", props |-> <<"references">>]
Part  == [name |-> "Part", type |-> "EmailBodyPart", extends |-> "", props |-> <<"blobId">>]
Body  == [name |-> "Body", type |-> "Email", extends |-> "", props |-> <<"id", "textBody">>]

File(calls) == [NoFile EXCEPT !.calls = calls, !.sets = <<Brief, More, Part>>]
Asking(nm)  == W("q", "Email/get", <<A("ids", Names(<<"a">>)), A("properties", SetOf(nm))>>)

(* Every kind of value an argument may hold, as an editor sees them.       *)
Filtering(v)  == W("q", "Email/query", <<A("filter", v)>>)
Creating(r)   == W("q", "Email/set", <<A("create", Dict(<<M("b", r)>>))>>)
Nested(c)     == Dict(<<M("operator", S("NOT")), M("conditions", c)>>)
Roles(k)      == Dict(<<M("participants", Dict(<<M("a", Dict(<<M("roles", Dict(<<[k |-> k, v |-> True]>>))>>))>>))>>)
Shapes ==
  {Filtering(NullNode), Filtering(Param("f")), Filtering(Opt("f")), Filtering(Nested(List(<<Param("f")>>))),
   Filtering(Nested(List(<<Nested(List(<<Filter1>>)), Dict(<<M("inMailbox", Opt("x"))>>)>>))),
   Filtering(Nested(Param("fs"))), Filtering(Nested(List(<<NullNode>>))), Filtering(Dict(<<M("operator", S("XOR"))>>)),
   W("q", "Mailbox/query", <<A("filter", Dict(<<M("parentId", NullNode), M("role", Param("r"))>>)),
                             A("sort", List(<<Dict(<<M("property", S("name")), M("collation", NullNode)>>)>>))>>),
   W("q", "Mailbox/query", <<A("sort", List(<<Dict(<<M("property", S("hasKeyword"))>>)>>))>>),
   Creating(Dict(<<M("header:Subject", S("s")), M("keywords", Dict(<<[k |-> <<SegP("kw")>>, v |-> True]>>))>>)),
   Creating(Dict(<<M("textBody", List(<<Dict(<<M("partId", NullNode), M("subParts", List(<<>>))>>)>>))>>)),
   Creating(Dict(<<M("headers", Param("hs")), M("to", S("x"))>>)),
   W("q", "CalendarEvent/set", <<A("create", Dict(<<M("a", Roles(<<Seg("owner")>>))>>))>>),
   W("q", "CalendarEvent/set", <<A("create", Dict(<<M("a", Roles(<<SegP("role")>>))>>))>>),
   W("q", "CalendarEvent/set", <<A("create", Dict(<<M("a", Roles(<<Seg("guest")>>))>>))>>),
   W("q", "Email/set", <<A("_comment", S("why")), A("update", Dict(<<M("a", Dict(<<[k |-> <<Seg(""), Seg("subject")>>, v |-> S("s")]>>))>>))>>),
   W("q", "Blob/get", <<A("ids", Param("ids")), A("properties", Names(<<"digest:sha", "data">>))>>),
   W("q", "Blob/get", <<A("ids", Param("ids")), A("properties", Names(<<"data:asText", "data">>))>>),
   W("q", "Blob/get", <<A("ids", Param("ids")), A("properties", Names(<<>>))>>),
   W("q", "Email/parse", <<A("blobIds", Param("ids")), A("properties", SetOf("Brief"))>>),
   W("q", "Email/parse", <<A("blobIds", Param("ids")), A("properties", Names(<<"id", "threadId", "textBody">>)),
                           A("bodyProperties", SetOf("Part"))>>),
   W("q", "Email/parse", <<A("blobIds", Param("ids")), A("properties", Opt("props"))>>),
   W("q", "CalendarEvent/get", <<A("ids", NullNode), A("properties", Opt("props"))>>)}

MCFiles ==
  {File(<<w>>) : w \in Shapes} \cup {File(<<w>>) : w \in Firsts} \cup {File(c) : c \in Chains}
  \cup UNION {{File(<<w, r>>) : r \in Reads(w)} : w \in Firsts}
  \cup UNION {{[File(<<Changes(v)>>) EXCEPT !.watches = "q"], [File(<<Changes(v)>>) EXCEPT !.pages = "q"],
               [File(<<Windowed(v)>>) EXCEPT !.pages = "q"]} : v \in {Param("since"), Opt("since"), S("s"), Number("0")}}
  \cup {[File(<<Asking("More")>>) EXCEPT !.using = {Core, Mail}], [File(<<Asking("Brief")>>) EXCEPT !.using = {Core}],
        [File(<<Changes(Param("since"))>>) EXCEPT !.watches = "q", !.createdIds = TRUE],
        [File(<<Query("q"), Fetch("r", Query("q"))>>) EXCEPT !.returns = "r"]}

(* Schemas of vendor extensions: the one the files' Note is of, and one of *)
(* folders in every way it may be right or wrong.                          *)
T(name, fields, methods) ==
  [name |-> name, fields |-> fields, methods |-> methods, sort |-> <<>>, args |-> <<>>, dynamic |-> {}]
Schema(types, methods) == [capability |-> Vendor, types |-> types, methods |-> methods]

NoteSchema == Schema(<<T("Note", <<F("id", Id), F("text", Str)>>, <<"get">>)>>, <<>>)

FolderFields == <<F("id", Id), F("label", Str), F("colour", Nul(Str)), F("notes", Arr(Obj("Note")))>>
Folder    == T("Folder", Front(FolderFields), <<>>)
Condition == T("FolderFilterCondition", <<F("label", Str)>>, <<>>)
Queried   == [Folder EXCEPT !.methods = <<"query", "get", "queryChanges">>]
Held(methods, conds) == Schema(<<[Folder EXCEPT !.methods = methods]>> \o conds, <<>>)
Check ==
  [type |-> "Folder", verb |-> "check", data |-> "Folder", properties |-> "only", result |-> "found", returnsID |-> TRUE,
   args |-> <<AccountID, F("only", Nul(Arr(Str)))>>, response |-> <<F("found", Nul(Map(Id, Arr(Obj("Folder")))))>>,
   defaults |-> {"label"}, nulls |-> All, nullables |-> {"label"}]
Checked(m) == Schema(<<Folder>>, <<m>>)

MCSchemas ==
  {NoteSchema, [NoteSchema EXCEPT !.capability = "http"],
   Held(<<"get", "changes", "set", "copy">>, <<>>), Held(<<"query">>, <<Condition>>), Held(<<"query">>, <<>>),
   Schema(<<T("Folder", <<F("label", Str)>>, <<"get">>)>>, <<>>), Held(<<"get", "get">>, <<>>), Held(<<"fetch">>, <<>>), Held(<<"get">>, <<T("FolderGetArguments", <<>>, <<>>)>>),
   Held(<<>>, <<T("FOLDER", <<>>, <<>>)>>), Held(<<>>, <<T("ID", <<>>, <<>>)>>), Held(<<>>, <<T("email", <<>>, <<>>)>>),
   Held(<<>>, <<T("Email", <<>>, <<>>)>>), Schema(<<Condition>>, <<>>),
   Schema(<<[Folder EXCEPT !.fields = FolderFields]>>, <<>>),
   Schema(<<[Folder EXCEPT !.fields = @ \o <<F("label", Id)>>]>>, <<>>),
   Schema(<<[Folder EXCEPT !.fields = @ \o <<F("accountId", Id), F("AccountId", Id)>>]>>, <<>>),
   Schema(<<[Folder EXCEPT !.fields = @ \o <<[F("order", Arr(Obj("Comparator"))) EXCEPT !.sortTarget = "Nothing"]>>]>>, <<>>),
   Schema(<<[Folder EXCEPT !.fields = @ \o <<[F("over", Map(Id, Obj("PatchObject"))) EXCEPT !.patchTarget = "FolderFilterCondition"]>>],
            Condition>>, <<>>),
   Schema(<<[Folder EXCEPT !.dynamic = {"label"}]>>, <<>>), Schema(<<[Folder EXCEPT !.dynamic = {"x:1"}]>>, <<>>),
   Schema(<<[Folder EXCEPT !.sort = "label" :> <<F("with", Str), F("with", Id)>>]>>, <<>>),
   Schema(<<[Folder EXCEPT !.sort = "label" :> <<F("with", Str)>>]>>, <<>>),
   Schema(<<[Queried EXCEPT !.args = "query" :> <<F("deep", Bool)>>], Condition>>, <<>>),
   Schema(<<[Queried EXCEPT !.args = "get" :> <<F("ids", Bool)>>], Condition>>, <<>>),
   Schema(<<[Queried EXCEPT !.args = "set" :> <<F("deep", Bool)>>], Condition>>, <<>>),
   Checked(Check), Checked([Check EXCEPT !.type = "email"]), Schema(<<>>, <<Check>>),
   Schema(<<>>, <<[Check EXCEPT !.type = "email", !.verb = "get", !.data = "", !.properties = "", !.result = "", !.returnsID = FALSE,
                                !.defaults = All, !.nullables = All]>>),
   Schema(<<Folder>>, <<Check, [Check EXCEPT !.type = "folder"]>>),
   Checked([Check EXCEPT !.data = ""]), Checked([Check EXCEPT !.properties = "none"]), Checked([Check EXCEPT !.result = "none"]),
   Checked([Check EXCEPT !.result = ""]), Checked([Check EXCEPT !.response = <<F("found", Arr(Id))>>]),
   Checked([Check EXCEPT !.defaults = {"size"}]), Checked([Check EXCEPT !.nulls = {"label"}]),
   Checked([Check EXCEPT !.nullables = {"colour"}]), Checked([Check EXCEPT !.nullables = {"id"}])}
MCAlike     == ("FOLDER" :> "Folder") @@ ("folder" :> "Folder") @@ ("ID" :> "Id") @@ ("email" :> "Email") @@ ("AccountId" :> "accountId")
MCMalformed == {"", "email", "http"}

(* For what the plan says of calls that share a type.                      *)
Both(w) == <<[w EXCEPT !.id = "q"], [w EXCEPT !.id = "r"]>>
Parts(ps) == W("q", "Email/get", <<A("ids", Param("ids")), A("properties", Names(<<"subject", "textBody">>)), A("bodyProperties", ps)>>)
DeclaredFiles == {File(Both(Parts(SetOf("Part")))), File(Both(W("q", "Email/get", <<A("ids", Param("ids")), A("properties", Names(<<"subject">>))>>))), File(Both(Parts(Names(<<"blobId">>))))}

Capabilities == {Core, Mail, Calendars, BlobCap, SMIME, Vendor}
Account      == [c \in Capabilities \ {Core} |-> "a"]
Everything   == [caps |-> Capabilities, accounts |-> [x \in {"a", "b"} |-> Capabilities], primary |-> Account,
                 maxCalls |-> 0, maxGet |-> 0, maxSet |-> 0]
MCSessions == {Everything, [Everything EXCEPT !.maxCalls = 2, !.maxGet = 1, !.maxSet = 1],
               [Everything EXCEPT !.caps = {Core, Mail}, !.accounts = [x \in {"a"} |-> {Mail}]]}

MCTexts == [Id |-> {"a", "b"}, UTCDate |-> {"2024Z"}, LocalDateTime |-> {"2024"}]

=============================================================================
