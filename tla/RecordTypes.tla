---------------------------- MODULE RecordTypes ----------------------------
(***************************************************************************)
(* The types generated for what a request is answered with (internal/gen   *)
(* and its rust, ts and shared packages): which calls share a type, the    *)
(* properties each type holds, and what of an answer each language's type  *)
(* reads. A type is a set of members; a member says of its property        *)
(* whether it may be left out of what the server sends and whether it may  *)
(* be null there. Lists of properties are compared as sets: the instances  *)
(* list any one in one order only.                                         *)
(***************************************************************************)
EXTENDS PropertySets

Languages == {"go", "ts", "rust"}

Member(name, type, left, null) == [name |-> name, type |-> type, left |-> left, null |-> null]

-----------------------------------------------------------------------------
(***************************************************************************)
(* The plan: which calls take types of their own, and which writes them.   *)
(***************************************************************************)
(* A type of its own though the call names no properties: the shared one   *)
(* would describe the records wrongly.                                     *)
OpenRecord(call) ==
  /\ call.props = All
  /\ \/ call.m.nulls # {} \/ call.m.nullables # {}
     \/ call.m.onlyWhenAsked # {} /\ ~call.unknown

Narrows(call) == call.props # All \/ call.nested # All \/ OpenRecord(call)

Narrowing(call) ==
  [method |-> call.m.name, set |-> call.set, props |-> call.props, unknown |-> call.unknown,
   nestedSet |-> call.nestedSet, nested |-> call.nested]

(* The first call of the request that narrows what it fetches as call i.   *)
SameNarrowing(calls, i) ==
  CHOOSE j \in 1..i : /\ Narrows(calls[j]) /\ Narrowing(calls[j]) = Narrowing(calls[i])
                      /\ \A x \in 1..(j - 1) : Narrowing(calls[x]) # Narrowing(calls[i])

NoType == <<>>
PlanCall(calls, i) ==
  LET c     == calls[i]
      first == IF Narrows(c) THEN SameNarrowing(calls, i) ELSE i
  IN [record |-> IF ~Narrows(c) THEN NoType
                 ELSE IF c.set # NoSet THEN <<"set", c.set.name>> ELSE <<"record", first>>,
      nested |-> IF c.nestedSet # NoSet THEN <<"set", c.nestedSet.name>>
                 ELSE IF c.nested # All THEN <<"nested", first>> ELSE NoType,
      writes |-> Narrows(c) /\ first = i]

-----------------------------------------------------------------------------
(***************************************************************************)
(* The properties a record type holds.                                     *)
(***************************************************************************)
RecordProperties(type, props, withID) ==
  (IF withID THEN {"id"} ELSE {}) \cup UNION {AnsweredAs(type, p) : p \in props}

RecordFields(call) ==
  IF call.props # All THEN call.props
  ELSE NamesOf(Objects[call.m.data])
         \ (call.m.nulls \cup IF call.unknown THEN {} ELSE call.m.onlyWhenAsked)

MayBeAbsent(call, nm) == call.props = All /\ (nm # "id" \/ ~call.m.returnsID)

(* Mutant: every form a property comes back in is there.                   *)
PickedByNobody(type, props, nm) == FALSE

(* One of several fields the server picks from to answer a property.       *)
PickedByServer(type, props, nm) ==
  nm \notin props /\ \E p \in props : nm \in AnsweredAs(type, p)

(* What a set adds to the one it extends, and all of one that extends none.*)
SetProperties(sets, nm) ==
  LET s     == sets[nm]
      hasID == HasField(Objects[s.type], "id")
  IN IF s.extends = "" THEN RecordProperties(s.type, s.own, hasID)
     ELSE RecordProperties(s.type, s.own, FALSE)
            \ RecordProperties(s.type, Inherited(sets, s.extends), hasID)

-----------------------------------------------------------------------------
(***************************************************************************)
(* Go: what is left out, and null, read as a type's zero value.            *)
(***************************************************************************)
GoMember(nm, t) == Member(nm, t, TRUE, TRUE)

GoRecordField(type, fields, asked, nm, absent) ==
  IF HasField(fields, nm) THEN GoMember(nm, FieldOf(fields, nm).type)
  ELSE IF nm \in DOMAIN HeaderProperties THEN GoMember(nm, HeaderProperties[nm].type)
  ELSE GoMember(nm, AnyType)

GoRuntimeField(f, sent)   == GoMember(f.name, f.type)
GoResponseTypes(m)        == {GoMember(f.name, f.type) : f \in Range(m.response)}

-----------------------------------------------------------------------------
(***************************************************************************)
(* TypeScript: a member is there unless marked optional, and null only     *)
(* where its type says so.                                                 *)
(***************************************************************************)
TsMember(nm, t, optional) == Member(nm, t, optional, t.null)

TsRecordField(type, fields, asked, nm, absent) ==
  IF HasField(fields, nm)
    THEN TsMember(nm, FieldOf(fields, nm).type, absent \/ PickedByServer(type, asked, nm))
  ELSE IF nm \in DOMAIN HeaderProperties THEN TsMember(nm, HeaderProperties[nm].type, absent)
  ELSE Member(nm, AnyType, absent, TRUE)

TsRuntimeField(f, sent) == TsMember(f.name, f.type, ~sent \/ f.optional)
TsResponseTypes(m)      == {TsMember(f.name, f.type, FALSE) : f \in Range(m.response)}

-----------------------------------------------------------------------------
(***************************************************************************)
(* Rust: a member left out is read where it is an Option or may default;   *)
(* null, where it is an Option.                                            *)
(***************************************************************************)
HasEmptyForm(t) == t.null \/ t.kind \in {"array", "map"}
RustMember(nm, t, optional, lenient) ==
  Member(nm, t, optional \/ (lenient /\ HasEmptyForm(t)), optional \/ t.null)

RustDynamicMember(nm) == Member(nm, AnyType, TRUE, TRUE)

RustRecordField(type, fields, asked, nm, absent) ==
  IF HasField(fields, nm)
    THEN RustMember(nm, FieldOf(fields, nm).type, absent \/ PickedByServer(type, asked, nm), TRUE)
  ELSE IF nm \in DOMAIN HeaderProperties THEN RustMember(nm, HeaderProperties[nm].type, FALSE, TRUE)
  ELSE RustDynamicMember(nm)

RustOmittable(f, sent)    == IF sent THEN f.optional ELSE ~f.required
RustRuntimeField(f, sent) == RustMember(f.name, f.type, RustOmittable(f, sent), sent)
RustResponseTypes(m)      == {RustMember(f.name, f.type, FALSE, TRUE) : f \in Range(m.response)}

-----------------------------------------------------------------------------
(***************************************************************************)
(* The types, of members written by a language's Field.                    *)
(***************************************************************************)
RecordWith(Field(_, _, _, _, _), call) ==
  LET asked == RecordFields(call) IN
  {Field(call.m.data, RecordObject(call.m), asked, nm, MayBeAbsent(call, nm)) :
     nm \in RecordProperties(call.m.data, asked, call.m.returnsID)}
GoRecordTypes(call)   == RecordWith(GoRecordField, call)
TsRecordTypes(call)   == RecordWith(TsRecordField, call)
RustRecordTypes(call) == RecordWith(RustRecordField, call)

NestedWith(Field(_, _, _, _, _), call) ==
  {Field(call.m.nestedType, Objects[call.m.nestedType], call.nested, nm, FALSE) : nm \in call.nested}
GoNestedType(call)   == NestedWith(GoRecordField, call)
TsNestedType(call)   == NestedWith(TsRecordField, call)
RustNestedType(call) == NestedWith(RustRecordField, call)

(* A set holds the members of the set it extends, and those it adds.       *)
SetWith(Field(_, _, _, _, _), sets, nm) ==
  UNION {{Field(sets[s].type, Objects[sets[s].type], sets[s].own, p, FALSE) : p \in SetProperties(sets, s)} :
           s \in Range(Chain(sets, nm))}
GoPropertySet(sets, nm)   == SetWith(GoRecordField, sets, nm)
TsPropertySet(sets, nm)   == SetWith(TsRecordField, sets, nm)
RustPropertySet(sets, nm) == SetWith(RustRecordField, sets, nm)

RuntimeWith(Field(_, _), fields, sent) == {Field(f, sent) : f \in Range(fields)}

In(lang, go, ts, rust) == CASE lang = "go" -> go [] lang = "ts" -> ts [] OTHER -> rust

(* What an object is written as in the answer to call i: its own type for  *)
(* the records of a call that narrows them, for their nested objects and   *)
(* for the response that holds them; or the runtime's.                     *)
TypeNamed(lang, calls, i, sets, name) ==
  LET c     == calls[i]
      Of(t) == CASE t[1] = "record" -> In(lang, GoRecordTypes(calls[t[2]]), TsRecordTypes(calls[t[2]]),
                                                RustRecordTypes(calls[t[2]]))
                 [] t[1] = "nested" -> In(lang, GoNestedType(calls[t[2]]), TsNestedType(calls[t[2]]),
                                                RustNestedType(calls[t[2]]))
                 [] OTHER -> In(lang, GoPropertySet(sets, t[2]), TsPropertySet(sets, t[2]),
                                      RustPropertySet(sets, t[2]))
      Runtime(fields, sent) ==
        In(lang, RuntimeWith(GoRuntimeField, fields, sent), RuntimeWith(TsRuntimeField, fields, sent),
                 RuntimeWith(RustRuntimeField, fields, sent))
      Own(plan) == IF name = c.m.data THEN plan.record
                   ELSE IF name = c.m.nestedType THEN plan.nested ELSE NoType
      Named(plan) ==
        IF name = "Response" /\ plan.record # NoType
          THEN In(lang, GoResponseTypes(c.m), TsResponseTypes(c.m), RustResponseTypes(c.m))
        ELSE IF Own(plan) # NoType THEN Of(Own(plan))
        ELSE IF name = "Response" THEN Runtime(c.m.response, TRUE) ELSE Runtime(Objects[name], FALSE)
  IN Named(PlanCall(calls, i))

(* Whether the type an answer comes in reads it, and drops no property of  *)
(* it but what only the caller knows was asked for.                        *)
RECURSIVE ReadAs(_, _, _, _, _, _)
ReadAs(lang, calls, i, sets, v, t) ==
  LET Each(e) == \A x \in DOMAIN v.of : IF v.of[x].v.j = "null" THEN e.null \/ lang = "go"
                                        ELSE ReadAs(lang, calls, i, sets, v.of[x].v, e)
      Members(type) ==
        /\ \A mb \in type : mb.left \/ mb.name \in KeysOf(v)
        /\ \A k \in KeysOf(v) \ {mb.name : mb \in type} : t.name = calls[i].m.data /\ calls[i].unknown
        /\ \A mb \in type : mb.name \in KeysOf(v) =>
             IF MemberOf(v, mb.name).j = "null" THEN mb.null
             ELSE ReadAs(lang, calls, i, sets, MemberOf(v, mb.name), mb.type)
  IN CASE t.kind = "any"                            -> TRUE
       [] t.kind = "union"                          -> \E x \in DOMAIN t.of : ReadAs(lang, calls, i, sets, v, t.of[x])
       [] t.kind = "array"                          -> v.j = "arr" /\ Each(t.of[1])
       [] t.kind = "map"                            -> v.j = "obj" /\ Each(t.of[2])
       [] t.kind = "object" /\ t.name # "PatchObject" ->
            v.j = "obj" /\ Members(TypeNamed(lang, calls, i, sets, t.name))
       [] t.kind = "object" /\ t.name = "PatchObject" -> v.j = "obj"
       [] t.name = "Boolean"                        -> v.j = "bool"
       [] t.name \in {"Int", "UnsignedInt"}         -> v.j = "int"
       [] OTHER                                     -> v.j = "str"

-----------------------------------------------------------------------------
(***************************************************************************)
(* What a generated file declares. Go writes a nested type with the record *)
(* type that holds it, the others for every call that has one.             *)
(***************************************************************************)
NestedOf(calls) == [i \in DOMAIN calls |-> PlanCall(calls, i).nested]
OfTheRequest(types) == SelectSeq(types, LAMBDA t : t # NoType /\ t[1] # "set")

GoNestedTypes(calls) ==
  OfTheRequest([i \in DOMAIN calls |-> IF PlanCall(calls, i).writes /\ PlanCall(calls, i).record[1] # "set"
                                       THEN NestedOf(calls)[i] ELSE NoType])
TsNestedTypes(calls)   == OfTheRequest(NestedOf(calls))
RustNestedTypes(calls) == OfTheRequest(NestedOf(calls))
=============================================================================
