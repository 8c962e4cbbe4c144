---------------------------- MODULE RequestFile ----------------------------
(***************************************************************************)
(* Reading a request file (internal/request): what the checker of parse.go *)
(* and value.go accepts and records, over the catalogue. RequestCheck of   *)
(* incoming.go is the same checker, "sent", over a request that arrives.   *)
(*                                                                         *)
(* A JSON value is a node [j, s, of]: its kind, its text, and its items or *)
(* members. A string that reads as a parameter is of kind "param" ({{x}}), *)
(* "opt" ({{x?}}) or "embedded" (text around a parameter), one that names  *)
(* a set of properties is of kind "set" (@X); a checker of a sent request  *)
(* takes them all as the strings they are. A member's name is a sequence   *)
(* of pointer segments, each text or a parameter.                          *)
(***************************************************************************)
EXTENDS Catalog

CONSTANT Texts      \* the strings that are well-formed values of a type

ASSUME TextsAssumption == {"Id", "UTCDate", "LocalDateTime"} \subseteq DOMAIN Texts

(* Whether a value of type got may stand where want is expected.           *)
RECURSIVE Assignable(_, _)
Assignable(got, want) ==
  \/ "any" \in {got.kind, want.kind}
  \/ /\ got.null => want.null
     /\ LET g == Bare(got) IN
        IF want.kind = "union" THEN \E i \in DOMAIN want.of : Assignable(g, want.of[i])
        ELSE IF g.kind = "union" THEN \A i \in DOMAIN g.of : Assignable(g.of[i], want)
        ELSE IF want.kind \in {"array", "map"}
               THEN g.kind = want.kind /\ \A i \in DOMAIN want.of : Assignable(g.of[i], want.of[i])
               ELSE g.name = want.name

(* Whether t is the type named name or holds it.                           *)
RECURSIVE Mentions(_, _)
Mentions(t, name) == t.name = name \/ \E i \in DOMAIN t.of : Mentions(t.of[i], name)

Node(j, s, of) == [j |-> j, s |-> s, of |-> of]
Seg(t)         == [t |-> t, p |-> ""]
SegP(p)        == [t |-> "", p |-> p]
NullNode       == Node("null", "", <<>>)

IsString(v)    == v.j \in {"str", "param", "opt", "embedded", "set"}
Open(seg)      == seg.p # ""
KeyText(k)     == IF Len(k) = 1 /\ ~Open(k[1]) THEN k[1].t ELSE "{{}}"
KeysOf(v)      == {KeyText(v.of[i].k) : i \in DOMAIN v.of}
MemberOf(v, k) == v.of[CHOOSE i \in DOMAIN v.of : KeyText(v.of[i].k) = k].v

NoSet == [name |-> "", type |-> "", props |-> {}]

(* The state of the checker of one request.                                *)
NewChecker(sent, sets) ==
  [sent |-> sent, sets |-> sets, errs |-> <<>>, params |-> <<>>, used |-> {},
   creations |-> <<>>, calls |-> <<>>]

Err(c, what) == [c EXCEPT !.errs = Append(@, what)]
ErrIf(c, wrong, what) == IF wrong THEN Err(c, what) ELSE c
UseCapability(c, f) ==
  IF f.capability = "" THEN c ELSE [c EXCEPT !.used = @ \cup {f.capability}]

(* What a value is checked within.                                         *)
NoScope == [filter |-> AnyType, patch |-> "", sort |-> "", enum |-> {}, creation |-> FALSE]
Within(sc, f) ==
  [sc EXCEPT !.patch = IF f.patchTarget # "" THEN f.patchTarget ELSE @,
             !.sort  = IF f.sortTarget # "" THEN f.sortTarget ELSE @,
             !.enum  = f.enum]

-----------------------------------------------------------------------------
(* Mutant: a parameter used as two types is taken as the first.            *)
UseAsFirst(c, p, type, where, weak) ==
  IF \E i \in DOMAIN c.params : c.params[i].name = p
    THEN LET i == CHOOSE j \in DOMAIN c.params : c.params[j].name = p IN
         [c EXCEPT !.params[i].places = @ \cup {where}]
    ELSE [c EXCEPT !.params = Append(@, [name |-> p, type |-> type, weak |-> weak,
                                         places |-> {where}, optional |-> FALSE])]

(***************************************************************************)
(* Parameters. A weak use claims a type until one that knows comes along.  *)
(***************************************************************************)
Use(c, p, type, where, weak) ==
  IF \E i \in DOMAIN c.params : c.params[i].name = p
    THEN LET i == CHOOSE j \in DOMAIN c.params : c.params[j].name = p
             d == [c EXCEPT !.params[i].places = @ \cup {where}]
         IN IF weak THEN d
            ELSE IF c.params[i].weak THEN [d EXCEPT !.params[i].type = type, !.params[i].weak = FALSE]
            ELSE IF SameType(c.params[i].type, type) THEN d ELSE Err(d, "parameter of two types")
    ELSE [c EXCEPT !.params = Append(@, [name |-> p, type |-> type, weak |-> weak,
                                         places |-> {where}, optional |-> FALSE])]

MarkOptional(c, p) ==
  [c EXCEPT !.params = [i \in DOMAIN @ |-> IF @[i].name = p THEN [@[i] EXCEPT !.optional = TRUE] ELSE @[i]]]

(* Mutant: any value may be left out, not an argument alone.               *)
OptionalAnywhere(c, p, type, where, allowed) == MarkOptional(Use(c, p, type, where, FALSE), p)

OptionalParam(c, p, type, where, allowed) ==
  IF allowed THEN MarkOptional(Use(c, p, type, where, FALSE), p)
  ELSE Err(Use(c, p, type, where, FALSE), "part of an argument left out")

CheckEnum(c, enum, text) == IF enum = {} \/ text \in enum THEN c ELSE Err(c, "not of the enumeration")
ValidText(type, text) == type \in DOMAIN Texts => text \in Texts[type]

-----------------------------------------------------------------------------
(***************************************************************************)
(* Pointers.                                                               *)
(***************************************************************************)
(* The type of the value a patch's pointer reaches, what each segment      *)
(* selects by (nothing where that is not known) and whether it names a     *)
(* property, and the field reached by then (none past a parameter).        *)
IntoPatch(a) ==
  IF a.cur.kind = "object" /\ a.nested # "" /\ Objects[a.cur.name] = <<>>
    THEN [a EXCEPT !.cur = Obj(a.nested), !.nested = ""] ELSE a

(* The field written by a name: one of the type's, or a header field.      *)
WrittenField(type, fields, nm) ==
  IF HasField(fields, nm) THEN <<FieldOf(fields, nm)>>
  ELSE IF CheckWritable(type, nm) THEN DynamicField(type, nm) ELSE <<>>

PatchStep(state, seg, unknown) ==
  LET Goes(a, type, key, named, field) ==
        [a EXCEPT !.cur = type, !.keys = Append(@, key), !.named = Append(@, named),
                  !.fields = Append(@, field)]
      Named(a, f) == IF f = <<>> THEN [a EXCEPT !.ok = FALSE]
                     ELSE [Goes(a, f[1].type, Str, TRUE, f) EXCEPT !.nested = f[1].patchTarget]
      From(a) ==
        CASE a.cur.kind \in {"any", "union"} -> Goes(a, AnyType, AnyType, FALSE, <<>>)
          [] a.cur.kind = "map" -> Goes(a, a.cur.of[2], a.cur.of[1], FALSE,
                                        IF a.fields = <<>> THEN <<>> ELSE Last(a.fields))
          [] a.cur.kind = "object" /\ unknown -> Goes(a, AnyType, Str, TRUE, <<>>)
          [] a.cur.kind = "object" /\ ~unknown ->
               Named(a, WrittenField(a.cur.name, Objects[a.cur.name], seg.t))
          [] OTHER -> [a EXCEPT !.ok = FALSE]
  IN IF state.ok THEN From(IntoPatch(state)) ELSE state

ResolvePatch(type, segs, unknown) ==
  FoldLeft(LAMBDA a, i : PatchStep(a, segs[i], unknown[i]),
           [ok |-> TRUE, cur |-> Obj(type), nested |-> "", keys |-> <<>>, named |-> <<>>, fields |-> <<>>],
           [i \in DOMAIN segs |-> i])

(* The type a back reference's path selects from a response, and the       *)
(* properties it selects on its way.                                       *)
Indices == {"0", "1", "-1"}
FieldsIn(m, type) ==
  IF type = "Response" THEN m.response ELSE IF type = m.data THEN RecordObject(m) ELSE Objects[type]

Flatten(inner) ==
  IF inner.kind = "array" THEN Arr(IF inner.null THEN Nul(inner.of[1]) ELSE inner.of[1]) ELSE Arr(inner)

RECURSIVE Walk(_, _, _)
Walk(m, t, tokens) ==
  IF tokens = <<>> THEN [ok |-> TRUE, type |-> t, sel |-> <<>>]
  ELSE LET tok == Head(tokens)
           Property(fields) ==
             IF HasField(fields, tok) THEN <<FieldOf(fields, tok)>> ELSE DynamicField(t.name, tok)
           Next1(inner) ==
             CASE inner = <<>> -> [ok |-> FALSE, type |-> AnyType, sel |-> <<>>]
               [] inner # <<>> -> Walk(m, inner[1].type, Tail(tokens))
           Past(w) ==
             CASE t.kind = "array" /\ tok = "*" /\ w.ok -> [w EXCEPT !.type = Flatten(@)]
               [] t.kind = "object" -> [w EXCEPT !.sel = <<[type |-> t.name, prop |-> tok]>> \o @]
               [] OTHER -> w
       IN Past(Next1(CASE t.kind = "array" /\ tok \in Indices \cup {"*"} -> <<F(tok, t.of[1])>>
                       [] t.kind = "map"    -> <<F(tok, t.of[2])>>
                       [] t.kind = "object" -> Property(FieldsIn(m, t.name))
                       [] OTHER             -> <<>>))

ResolvePath(m, path) == Walk(m, Obj("Response"), path)

-----------------------------------------------------------------------------
(***************************************************************************)
(* Values.                                                                 *)
(***************************************************************************)
Primitive(c, sc, t, v) ==
  CASE t.name = "Boolean" -> IF v.j = "bool" THEN c ELSE Err(c, "not a boolean")
    [] t.name \in {"Int", "UnsignedInt"} ->
         IF v.j # "int" \/ v.s \in {"frac", "huge"} \/ (t.name = "UnsignedInt" /\ v.s = "neg")
           THEN Err(c, "not a number of the type") ELSE c
    [] OTHER ->
         IF ~IsString(v) THEN Err(c, "not a string")
         ELSE IF t.name = "String" THEN CheckEnum(c, sc.enum, v.s)
         ELSE IF v.j = "str" /\ ValidText(t.name, v.s) THEN c ELSE Err(c, "malformed")

MissingRequired(fields, v) == \E f \in Range(fields) : f.required /\ f.name \notin KeysOf(v)

(* The alternatives of a union, the best fitting first.                    *)
RankUnion(t, v) ==
  LET Score(fs) == IF v.j # "obj" \/ v.of = <<>> THEN 0
                   ELSE IF MissingRequired(fs, v) THEN -1
                   ELSE Cardinality(KeysOf(v) \cap NamesOf(fs))
      Order(score) == SetToSortSeq(DOMAIN t.of,
                        LAMBDA a, b : score[a] > score[b] \/ (score[a] = score[b] /\ a < b))
      Of(order) == [i \in DOMAIN order |-> t.of[order[i]]]
  IN Of(Order([i \in DOMAIN t.of |-> IF t.of[i].kind = "object" THEN Score(Objects[t.of[i].name]) ELSE 0]))

(* What a failed alternative leaves: its errors, its new parameters and    *)
(* the capabilities it used are undone.                                    *)
Undo(c, failed) ==
  [failed EXCEPT !.errs = c.errs, !.params = SubSeq(@, 1, Len(c.params)), !.used = c.used]

(* Header fields given twice, in two forms or as a property of their own.  *)
HeaderOf(type, nm) ==
  IF nm \in DOMAIN HeaderProperties /\ type \in {"Email", "EmailBodyPart"} THEN HeaderProperties[nm].field
  ELSE IF type = "Email" /\ nm \in {"subject", "references"} THEN nm ELSE ""
HeaderClashes(type, v) ==
  {i \in DOMAIN v.of : LET nm == KeyText(v.of[i].k) IN
     /\ nm \in DOMAIN HeaderProperties
     /\ \E j \in DOMAIN v.of : /\ HeaderOf(type, KeyText(v.of[j].k)) = HeaderOf(type, nm)
                               /\ HeaderOf(type, nm) # ""
                               /\ j < i \/ KeyText(v.of[j].k) \notin DOMAIN HeaderProperties}

(* The property a comparator sorts by decides what else it carries.        *)
ExtrasOf(c, sc, v) ==
  LET by == SortsBy(sc.sort)
      given == "property" \in KeysOf(v)
      nm == MemberOf(v, "property")
  IN IF given /\ (~IsString(nm) \/ (~c.sent /\ nm.j = "param"))
       THEN [ok |-> TRUE, allowed |-> FlattenSeq(SetToSeq({by[p] : p \in DOMAIN by})), needed |-> {}]
     ELSE IF given /\ nm.s \in DOMAIN by
       THEN [ok |-> TRUE, allowed |-> by[nm.s], needed |-> NamesOf(by[nm.s])]
     ELSE [ok |-> FALSE, allowed |-> <<>>, needed |-> {}]

RECURSIVE Value(_, _, _, _, _, _)

UnionValue(c, sc, t, v, where) ==
  LET inner == IF UnionMentions(t, "FilterOperator") THEN [sc EXCEPT !.filter = t] ELSE sc
      Tried(a, r) ==
        LET es == SubSeq(r.errs, Len(a.c.errs) + 1, Len(r.errs)) IN
        IF es = <<>> THEN [a EXCEPT !.c = r, !.done = TRUE]
        ELSE [a EXCEPT !.c = Undo(a.c, r), !.best = IF @ = <<>> \/ Len(es) < Len(@) THEN es ELSE @]
      Try(a, m) == IF a.done THEN a ELSE Tried(a, Value(a.c, inner, m, v, where, FALSE))
      Taken(end) == IF end.done THEN end.c ELSE [end.c EXCEPT !.errs = @ \o end.best]
  IN Taken(FoldLeft(Try, [c |-> c, done |-> FALSE, best |-> <<>>], RankUnion(t, v)))

ArrayValue(c, sc, t, v, where) ==
  IF v.j # "arr" THEN Err(c, "not a list")
  ELSE FoldLeft(LAMBDA a, i : Value(a, sc, t.of[1], v.of[i].v, Append(where, ToString(i)), FALSE),
                c, [i \in DOMAIN v.of |-> i])

MapValue(c, sc, t, v, where) ==
  LET key  == t.of[1]
      Entry(a, m) ==
        LET at == Append(where, KeyText(m.k))
            b  == IF sc.creation /\ ~Open(m.k[1])
                    THEN [a EXCEPT !.creations = Append(@, KeyText(m.k))] ELSE a
            d  == IF ~a.sent /\ Open(m.k[1]) THEN Use(b, m.k[1].p, key, at, FALSE)
                  ELSE IF key.name = "Id" /\ ~ValidText("Id", KeyText(m.k)) THEN Err(b, "key is no id")
                  ELSE IF key.name = "String" THEN CheckEnum(b, sc.enum, KeyText(m.k)) ELSE b
        IN Value(d, [sc EXCEPT !.creation = FALSE], t.of[2], m.v, at, FALSE)
  IN IF v.j # "obj" THEN Err(c, "not an object") ELSE FoldLeft(Entry, c, v.of)

ComparatorValue(c, sc, v, where) ==
  LET Members(fs, b) ==
        FoldLeft(LAMBDA a, m :
                   IF ~HasField(fs, KeyText(m.k)) THEN Err(a, "no such member of a comparator")
                   ELSE Value(a, sc, FieldOf(fs, KeyText(m.k)).type, m.v, Append(where, KeyText(m.k)), FALSE),
                 b, v.of)
      Carrying(ex) ==
        ErrIf(Members(Objects["Comparator"] \o ex.allowed, ErrIf(c, ~ex.ok, "cannot be sorted by it")),
              ~(ex.needed \subseteq KeysOf(v)), "comparator incomplete")
  IN IF SortsBy(sc.sort) = <<>> THEN c ELSE Carrying(ExtrasOf(c, sc, v))

(* One pointer of a patch, over what it resolves to.                       *)
PatchEntry(c, sc, m, where, unknown, r) ==
  LET segs    == m.k
      n       == Len(segs)
      aimed   == sc.patch # ""
      target  == IF aimed THEN r.fields[n] ELSE <<>>
      Through(b, i) == IF r.named[i] /\ ~unknown[i] THEN UseCapability(b, r.fields[i][1]) ELSE b
      Segment(b, i) ==
        LET key == IF aimed THEN r.keys[i] ELSE AnyType IN
        IF unknown[i] THEN Use(b, segs[i].p, IF key.kind = "any" THEN Str ELSE key, where, key.kind = "any")
        ELSE IF c.sent /\ key.name = "Id" /\ ~ValidText("Id", segs[i].t) THEN Err(b, "segment is no id")
        ELSE b
      OfEnum(b, enum) ==
        IF n > 1 /\ enum # {} /\ target[1].type.kind = "map" /\ r.named[n - 1] /\ ~unknown[n]
          THEN CheckEnum(b, enum, segs[n].t) ELSE b
      Keyed(enum) ==
        Value(OfEnum(FoldLeft(Segment, FoldLeft(Through, c, IF aimed THEN [i \in 1..n |-> i] ELSE <<>>),
                              [i \in 1..n |-> i]), enum),
              [sc EXCEPT !.enum = enum], IF aimed THEN Nul(r.cur) ELSE AnyType, m.v, where, FALSE)
  IN IF segs[1].t = "" /\ ~Open(segs[1]) THEN Err(c, "a pointer begins with no slash here")
     ELSE IF aimed /\ ~r.ok THEN Err(c, "no such property to patch")
     ELSE Keyed(IF target = <<>> THEN {} ELSE target[1].enum)

PatchValue(c, sc, v, where) ==
  LET Unknown(a, m) == [i \in DOMAIN m.k |-> ~a.sent /\ Open(m.k[i])]
      At(m) == where \o [i \in DOMAIN m.k |-> IF Open(m.k[i]) THEN "{{}}" ELSE m.k[i].t]
  IN FoldLeft(LAMBDA a, m : PatchEntry(a, sc, m, At(m), Unknown(a, m), ResolvePatch(sc.patch, m.k, Unknown(a, m))),
              c, v.of)

(* The type of a condition inside an operator is the filter's own.         *)
TypeWritten(sc, t, f) ==
  IF t.name = "FilterOperator" /\ f.name = "conditions" /\ sc.filter.kind = "union" THEN Arr(sc.filter)
  ELSE f.type

ObjectValue(c, sc, t, v, where) ==
  LET Held(a, m, f) == Value(UseCapability(a, f), Within(sc, f), TypeWritten(sc, t, f), m.v,
                             Append(where, KeyText(m.k)), FALSE)
      Written(a, m, f) == IF f = <<>> THEN Err(a, "no such property to write") ELSE Held(a, m, f[1])
      Clashed == FoldLeft(LAMBDA a, i : Err(a, "header given twice"), c, SetToSeq(HeaderClashes(t.name, v)))
      Members(fields) ==
        IF fields = <<>> THEN PatchValue(c, sc, v, where)
        ELSE FoldLeft(LAMBDA a, m : Written(a, m, WrittenField(t.name, fields, KeyText(m.k))), Clashed, v.of)
  IN IF v.j # "obj" THEN Err(c, "not an object")
     ELSE IF t.name = "Comparator" /\ sc.sort # "" THEN ComparatorValue(c, sc, v, where)
     ELSE Members(Objects[t.name])

Value(c, sc, t, v, where, whole) ==
  IF ~c.sent /\ v.j = "param" THEN Use(c, v.s, t, where, FALSE)
  ELSE IF ~c.sent /\ v.j = "opt" THEN OptionalParam(c, v.s, t, where, whole)
  ELSE IF ~c.sent /\ v.j = "embedded" THEN Err(c, "a parameter inside a string")
  ELSE IF v.j = "null" THEN IF t.null \/ t.kind = "any" THEN c ELSE Err(c, "may not be null")
  ELSE CASE t.kind = "any"    -> c
         [] t.kind = "union"  -> UnionValue(c, sc, t, v, where)
         [] t.kind = "array"  -> ArrayValue(c, sc, t, v, where)
         [] t.kind = "map"    -> MapValue(c, sc, t, v, where)
         [] t.kind = "object" -> ObjectValue(c, sc, t, v, where)
         [] OTHER             -> Primitive(c, sc, t, v)

-----------------------------------------------------------------------------
(***************************************************************************)
(* The calls of a request.                                                 *)
(***************************************************************************)
Given(call, arg)  == \E i \in DOMAIN call.args : call.args[i].k = arg /\ ~call.args[i].ref
Refers(call, arg) == \E i \in DOMAIN call.args : call.args[i].k = arg /\ call.args[i].ref
ArgOf(call, arg)  == call.args[CHOOSE i \in DOMAIN call.args : call.args[i].k = arg].v

RefFrom(v) == v.s
RefName(v) == v.of[1].v.s
RefPath(v) == [i \in DOMAIN v.of[1].k |-> v.of[1].k[i].t]

(* The argument selecting properties is left out or null, as against given *)
(* by a parameter or another call, whose list cannot be known.             *)
ListedLiterally(call, arg) ==
  \/ arg = ""
  \/ /\ ~Refers(call, arg)
     /\ Given(call, arg) => ArgOf(call, arg).j = "null"

IsDynamic(s) == ~HasField(Objects[s.type], s.prop)

(* Mutant: what the call fetches of nested records is not looked at.       *)
UnfetchedOfRecords(from, s) ==
  LET m == from.m IN
  /\ s.type = m.data
  /\ \/ s.prop \in m.nulls
     \/ /\ from.props = All => ListedLiterally(from, m.properties) /\ (IsDynamic(s) \/ s.prop \in m.onlyWhenAsked)
        /\ ~(s.prop = "id" /\ m.returnsID)
        /\ s.prop \notin from.props /\ \A p \in from.props : s.prop \notin AnsweredAs(s.type, p)

(* A property a reference reads is one the call it reads from fetches.     *)
Unfetched(from, s) ==
  LET m == from.m
      ofRecord == s.type = m.data
      fetched  == IF ofRecord THEN from.props ELSE from.nested
      arg      == IF ofRecord THEN m.properties ELSE m.nested
      unlisted == IsDynamic(s) \/ (ofRecord /\ s.prop \in m.onlyWhenAsked)
      asked    == {p \in fetched : s.prop \in AnsweredAs(s.type, p)} # {} \/ s.prop \in fetched
  IN /\ s.type \in {m.data, m.nestedType}
     /\ \/ ofRecord /\ s.prop \in m.nulls
        \/ /\ fetched = All => ListedLiterally(from, arg) /\ unlisted
           /\ ~(s.prop = "id" /\ m.returnsID)
           /\ ~asked

CheckFetched(c, from, sel) ==
  IF \E i \in DOMAIN sel : Unfetched(from, sel[i]) THEN Err(c, "reads what is not fetched") ELSE c

(* A back reference: to an earlier call, by its method's name, selecting   *)
(* what is fetched and of a type the argument takes.                       *)
ResultRef(c, id, type, v) ==
  LET Selecting(from, got) ==
        IF ~got.ok THEN Err(c, "selects nothing")
        ELSE IF Assignable(got.type, type) THEN CheckFetched(c, from, got.sel)
        ELSE Err(CheckFetched(c, from, got.sel), "selects another type")
      From(from) ==
        IF from.id = id THEN Err(c, "refers to itself")
        ELSE IF RefName(v) # from.m.name THEN Err(c, "refers by another name")
        ELSE Selecting(from, ResolvePath(from.m, RefPath(v)))
  IN IF \E i \in DOMAIN c.calls : c.calls[i].id = RefFrom(v)
       THEN From(c.calls[CHOOSE i \in DOMAIN c.calls : c.calls[i].id = RefFrom(v)])
       ELSE Err(c, "refers to no earlier call")

(* An argument written as a set of properties, as the list it holds.       *)
IsPropertySet(c, m, a) == ~c.sent /\ ~a.ref /\ a.v.j = "set" /\ a.k \in {m.properties, m.nested}
SetNamed(c, m, a) ==
  IF a.v.s \in DOMAIN c.sets /\ c.sets[a.v.s].type = (IF a.k = m.nested THEN m.nestedType ELSE m.data)
    THEN c.sets[a.v.s] ELSE NoSet
PropertyArray(names) ==
  Node("arr", "", LET s == SetToSeq(names) IN [i \in DOMAIN s |-> [k |-> <<>>, v |-> Node("str", s[i], <<>>)]])

ArgField(m, arg) == IF HasField(m.args, arg) THEN FieldOf(m.args, arg) ELSE F(arg, AnyType)

(* One argument of the call being read, which is the last of c.calls.      *)
Latest(c) == c.calls[Len(c.calls)]
Keep(c, a, v) ==
  [c EXCEPT !.calls[Len(c.calls)].args = Append(@, [k |-> a.k, ref |-> a.ref, v |-> v])]
KeepSet(c, m, a, set) ==
  IF set = NoSet THEN Err(c, "no such set of properties of the type")
  ELSE [Keep(c, a, PropertyArray(set.props)) EXCEPT
          !.calls[Len(c.calls)].set = IF a.k = m.nested THEN @ ELSE set,
          !.calls[Len(c.calls)].nestedSet = IF a.k = m.nested THEN set ELSE @]
CheckAccountGiven(c, a) ==
  IF ~c.sent /\ a.v.j = "opt" /\ a.k = "accountId" THEN Err(c, "an account cannot be left out") ELSE c

Argument(c, a) ==
  LET call == Latest(c)
      m    == call.m
      Taken(b, field) ==
        IF a.ref THEN Keep(ResultRef(b, call.id, field.type, a.v), a, a.v)
        ELSE IF IsPropertySet(c, m, a) THEN KeepSet(b, m, a, SetNamed(c, m, a))
        ELSE CheckAccountGiven(
               Keep(Value(b, [Within(NoScope, field) EXCEPT !.creation = field.creationIDs], field.type, a.v,
                          <<call.id, a.k>>, TRUE), a, a.v), a)
      Known(field) == Taken(UseCapability(c, field), field)
  IN IF a.k = "_comment" THEN IF IsString(a.v) THEN c ELSE Err(c, "comment is no string")
     ELSE IF m.args # <<>> /\ ~HasField(m.args, a.k) THEN Err(c, "no such argument")
     ELSE Known(ArgField(m, a.k))

Arguments(c, args) ==
  FoldLeft(LAMBDA d, i : IF \E j \in 1..(i - 1) : args[j].k = args[i].k THEN Err(d, "argument set twice")
                         ELSE Argument(d, args[i]),
           c, [i \in DOMAIN args |-> i])

(* The properties a call selects of a type, where the request states them: *)
(* the method's defaults where it states none, all where it cannot be      *)
(* known. Null in the data model's sense is never asked for.               *)
Selected(c, call, arg, type, defaults, nulls) ==
  LET Using(d, ps) == [d EXCEPT !.used = @ \cup ({f.capability : f \in {g \in Range(Objects[type]) : g.name \in ps}}
                                                 \ {""})]
      Of(d, ps, props) == [c |-> Using(d, ps), props |-> props]
      Good(stated, bad, open) ==
        Of([c EXCEPT !.errs = @ \o [i \in 1..Cardinality(bad) |-> "property cannot be selected"]],
           stated \ bad, IF open = {} THEN stated \ bad ELSE All)
      Checked(stated, open) == Good(stated, {p \in stated : ~CheckProperty(type, p) \/ p \in nulls}, open)
      Listed(given, open) ==
        Checked({given[i].v.s : i \in {j \in DOMAIN given : open = {} \/ j < Min(open)}}, open)
      Written(given) == Listed(given, {i \in DOMAIN given : given[i].v.j # "str"})
  IN IF arg = "" THEN [c |-> c, props |-> All]
     ELSE IF defaults # All /\ ListedLiterally(call, arg) THEN Of(c, defaults, defaults)
     ELSE IF ~Given(call, arg) \/ ArgOf(call, arg).j # "arr" THEN [c |-> c, props |-> All]
     ELSE Written(ArgOf(call, arg).of)

Properties(c, call) == Selected(c, call, call.m.properties, call.m.data, call.m.defaults, call.m.nulls)

FetchesNested(call) ==
  \/ call.props = All
  \/ \E f \in Range(Objects[call.m.data]) : f.name \in call.props /\ Mentions(f.type, call.m.nestedType)

NestedProperties(c, call) ==
  Selected(c, call, call.m.nested, call.m.nestedType,
           IF FetchesNested(call) THEN call.m.nestedDefaults ELSE All, {})

(* A set is one record type wherever it is asked for.                      *)
HasID(type) == HasField(Objects[type], "id")
CheckPropertySetUse(c) ==
  LET call == Latest(c) IN
  IF call.set = NoSet THEN c
  ELSE IF ~call.m.returnsID /\ HasID(call.set.type) THEN Err(c, "a set of records with an id")
  ELSE IF call.set.props \cap (call.m.nulls \cup call.m.nullables) # {} THEN Err(c, "a set with nulls")
  ELSE IF call.nested # All THEN Err(c, "a set narrowed besides") ELSE c

(* A call enters the request, its arguments are read, and the properties   *)
(* they select are kept with it.                                           *)
Entered(c, w) ==
  [c EXCEPT !.calls = Append(@, [id |-> w.id, m |-> MethodNamed(w.method), args |-> <<>>, props |-> All,
                                 unknown |-> FALSE, nested |-> All, set |-> NoSet, nestedSet |-> NoSet])]

KeepProperties(c) ==
  LET call == Latest(c)
      Then(p) == [p.c EXCEPT !.calls[Len(c.calls)].props = p.props,
                             !.calls[Len(c.calls)].unknown =
                               /\ p.props = All /\ call.m.properties # ""
                               /\ ~ListedLiterally(call, call.m.properties)]
  IN Then(Properties(c, call))
KeepNestedProperties(c) ==
  LET Then(p) == [p.c EXCEPT !.calls[Len(c.calls)].nested = p.props] IN Then(NestedProperties(c, Latest(c)))

MethodCall(c, w) ==
  IF w.method \notin MethodNames THEN Err(c, "unknown method")
  ELSE IF \E i \in DOMAIN c.calls : c.calls[i].id = w.id THEN Err(c, "call id used twice")
  ELSE CheckPropertySetUse(KeepNestedProperties(KeepProperties(Arguments(Entered(c, w), w.args))))

-----------------------------------------------------------------------------
(***************************************************************************)
(* A request file: its calls, and the members the generator reads.         *)
(***************************************************************************)
NeededBy(c) == {Core} \cup {c.calls[i].m.capability : i \in DOMAIN c.calls} \cup c.used

ResolveUsing(c, declared) ==
  LET missing == (NeededBy(c) \ {Core}) \ declared IN
  IF declared = {} \/ missing = {} THEN c ELSE Err(c, "capability not declared")

HasCall(c, id)   == \E i \in DOMAIN c.calls : c.calls[i].id = id
CallNamed(c, id) == c.calls[CHOOSE i \in DOMAIN c.calls : c.calls[i].id = id]

ReturnsWindow(m)  == m.data # "" /\ HasField(m.args, "position")
                     /\ HasField(m.response, "position") /\ HasField(m.response, "ids")
ReportsChanges(m) == m.data # "" /\ HasField(m.args, "sinceState")
                     /\ HasField(m.response, "newState") /\ HasField(m.response, "hasMoreChanges")

(* What a request sent again and again cannot carry.                       *)
CheckLooping(c, file, id) ==
  ErrIf(ErrIf(c, file.createdIds, "a loop carries no creation ids"),
        file.returns \notin {"", id}, "a loop returns the call it follows")

(* Where each request of a loop goes on from is a parameter.               *)
LoopParameter(call, arg) ==
  IF Given(call, arg) /\ ArgOf(call, arg).j \in {"param", "opt"} THEN ArgOf(call, arg).s ELSE ""

Followed(c, file, id, arg) ==
  ErrIf(CheckLooping(c, file, id), LoopParameter(CallNamed(c, id), arg) = "", "a loop needs a parameter")

Watch(c, file) ==
  IF file.watches = "" THEN c
  ELSE IF ~HasCall(c, file.watches) THEN Err(c, "no call to watch")
  ELSE IF ~ReportsChanges(CallNamed(c, file.watches).m) THEN Err(c, "cannot be watched")
  ELSE ErrIf(Followed(c, file, file.watches, "sinceState"),
             Refers(CallNamed(c, file.watches), "accountId"), "whose events is not known")

PageArgument(m) == IF ReturnsWindow(m) THEN "position" ELSE "sinceState"
Pages(c, file) ==
  LET m == CallNamed(c, file.pages).m IN
  IF file.pages = "" THEN c
  ELSE IF ~HasCall(c, file.pages) THEN Err(c, "no call to page")
  ELSE IF ~ReturnsWindow(m) /\ ~ReportsChanges(m) THEN Err(c, "cannot be paged")
  ELSE ErrIf(Followed(c, file, file.pages, PageArgument(m)), file.watches # "", "a watch asks again already")

(* The parameter where each request of the loop begins.                    *)
LoopStart(c, file) ==
  IF HasCall(c, file.watches) THEN LoopParameter(CallNamed(c, file.watches), "sinceState")
  ELSE IF HasCall(c, file.pages)
    THEN LoopParameter(CallNamed(c, file.pages), PageArgument(CallNamed(c, file.pages).m))
  ELSE ""

CheckOptional(c, file) ==
  LET bad == {i \in DOMAIN c.params : c.params[i].optional /\
                (Cardinality(c.params[i].places) > 1 \/ c.params[i].name = LoopStart(c, file))} IN
  IF bad = {} THEN c ELSE Err(c, "parameter cannot be left out")

Returned(c, file) ==
  IF file.returns # "" /\ (file.createdIds \/ ~HasCall(c, file.returns)) THEN Err(c, "cannot return it") ELSE c

Parse(file, sets) ==
  LET Whole(c) == CheckOptional(Pages(Watch(Returned(ResolveUsing(c, file.using), file), file), file), file) IN
  IF file.calls = <<>> THEN Err(NewChecker(FALSE, sets), "no method calls")
  ELSE Whole(FoldLeft(MethodCall, NewChecker(FALSE, sets), file.calls))

(* One call of a request that arrives, with the capabilities it uses.      *)
RequestCheckCall(c, w, using) ==
  LET Declared(d) ==
        ErrIf(d, Len(d.calls) > Len(c.calls) /\ ~(({Latest(d).m.capability} \cup d.used) \subseteq {Core} \cup using),
              "capability not declared")
  IN Declared(MethodCall([c EXCEPT !.used = {}], w))

-----------------------------------------------------------------------------
(***************************************************************************)
(* Calls that repeat an earlier one.                                       *)
(***************************************************************************)
(* What a call asks, its references to calls found to repeat another read  *)
(* as to the other ("same" maps a call's id to the earliest's).            *)
Asks(call, same) ==
  [method |-> call.m.name,
   args |-> {LET a == call.args[i] IN
             IF a.ref /\ RefFrom(a.v) \in DOMAIN same THEN [a EXCEPT !.v.s = same[a.v.s]] ELSE a
             : i \in DOMAIN call.args}]

(* Mutant: a call that may change data is passed over.                     *)
RepeatsPastChanges(calls) ==
  LET Next1(a, call) ==
        LET asks == Asks(call, a.same)
            hit  == {e \in a.asked : e.asks = asks}
        IN IF ~call.m.readsOnly THEN a
           ELSE IF hit # {}
             THEN LET e == CHOOSE x \in hit : TRUE IN
                  [a EXCEPT !.repeats = @ \cup {<<call.id, e.id>>}, !.same = @ @@ (call.id :> e.id)]
           ELSE [a EXCEPT !.asked = @ \cup {[asks |-> asks, id |-> call.id]}]
  IN FoldLeft(Next1, [asked |-> {}, same |-> <<>>, repeats |-> {}], calls).repeats

RepeatsOf(calls) ==
  LET Next1(a, call) ==
        LET asks == Asks(call, a.same)
            hit  == {e \in a.asked : e.asks = asks}
        IN IF ~call.m.readsOnly THEN [a EXCEPT !.asked = {}]
           ELSE IF hit # {}
             THEN LET e == CHOOSE x \in hit : TRUE IN
                  [a EXCEPT !.repeats = @ \cup {<<call.id, e.id>>}, !.same = @ @@ (call.id :> e.id)]
           ELSE [a EXCEPT !.asked = @ \cup {[asks |-> asks, id |-> call.id]}]
  IN FoldLeft(Next1, [asked |-> {}, same |-> <<>>, repeats |-> {}], calls).repeats
=============================================================================
