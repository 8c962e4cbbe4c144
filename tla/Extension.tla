------------------------------ MODULE Extension ------------------------------
(***************************************************************************)
(* Extending the catalogue with a vendor's schema (internal/spec,          *)
(* schema.go): the names a schema claims, the types and methods it adds,   *)
(* and the checks in between. What is loaded is [objects, methods, status],*)
(* which goes on as "ok", or ends "refused" with a message, or "panics".   *)
(* A method is named by its type and its verb, and kept with the prefix    *)
(* its arguments' and its response's objects are named after.              *)
(***************************************************************************)
EXTENDS Catalog, FiniteSetsExt

CONSTANTS Alike,        \* names a generator writes as one: each to the one it is written as
          Malformed     \* names that are no names

Written(name) == IF name \in DOMAIN Alike THEN Alike[name] ELSE name

Verbs == [get |-> "Get", changes |-> "Changes", set |-> "Set", copy |-> "Copy", query |-> "Query",
          queryChanges |-> "QueryChanges", parse |-> "Parse", fetch |-> "Fetch", echo |-> "Echo", check |-> "Check"]
StandardMethods == {"get", "changes", "set", "copy", "query", "queryChanges"}

MethodName(type, verb)     == type \o "/" \o verb
TypeNamePrefix(type, verb) == Written(type) \o Verbs[verb]
StandardPrefix(type, verb) == type \o Verbs[verb]
ArgumentsName(p) == p \o "Arguments"
ResponseName(p)  == p \o "Response"

-----------------------------------------------------------------------------
(***************************************************************************)
(* The names a schema will claim, before anything is registered; each with *)
(* the place that claims it.                                               *)
(***************************************************************************)
Claim(kind, i, k, name) == [kind |-> kind, i |-> i, k |-> k, name |-> name]
ClaimedBy(i, k, prefix) == {Claim("arguments", i, k, ArgumentsName(prefix)), Claim("response", i, k, ResponseName(prefix))}

TypeClaims(sc) == {Claim("type", i, 0, sc.types[i].name) : i \in DOMAIN sc.types}
StandardClaims(sc) ==
  UNION {UNION {ClaimedBy(i, k, StandardPrefix(sc.types[i].name, sc.types[i].methods[k])) :
                  k \in DOMAIN sc.types[i].methods} : i \in DOMAIN sc.types}
OwnClaims(sc) ==
  UNION {ClaimedBy(i, 0, TypeNamePrefix(sc.methods[i].type, sc.methods[i].verb)) : i \in DOMAIN sc.methods}

Claims(sc) == TypeClaims(sc) \cup StandardClaims(sc) \cup OwnClaims(sc)

CheckTypeName(name) ==
  name \notin Malformed /\ Written(name) \notin {"Id", "String", "Boolean", "Int", "UnsignedInt", "UTCDate", "LocalDateTime", "Any"}

MethodsNamed(a, sc) ==
  /\ \A t \in Range(sc.types) :
       /\ CheckTypeName(t.name)
       /\ \A v \in Range(t.methods) : v \in StandardMethods /\ MethodName(t.name, v) \notin DOMAIN a.methods
  /\ \A m \in Range(sc.methods) : MethodName(m.type, m.verb) \notin Malformed \cup DOMAIN a.methods

Unused(a, name) == \A n \in DOMAIN a.objects : Written(name) # Written(n)

(* Mutant: a schema's names are held to the catalogue's only.              *)
ReserveAgainstCatalogue(a, sc) ==
  MethodsNamed(a, sc) /\ \A x \in Claims(sc) : Unused(a, x.name)

(* A name that is claimed is no other's, of the catalogue or the schema.   *)
ReserveNames(a, sc) ==
  /\ MethodsNamed(a, sc)
  /\ \A x \in Claims(sc) :
       /\ Unused(a, x.name)
       /\ \A y \in Claims(sc) : Written(x.name) = Written(y.name) => x = y

-----------------------------------------------------------------------------
(***************************************************************************)
(* Types and methods, one at a time.                                       *)
(***************************************************************************)
Loaded(objects, methods, status) == [objects |-> objects, methods |-> methods, status |-> status]
Ended(a, status) == Loaded(a.objects, a.methods, status)
Refuse(a)        == Ended(a, "refused")

Object(fields, sort, dynamic) == [fields |-> fields, sort |-> sort, dynamic |-> dynamic]
Plain(fields) == Object(fields, <<>>, {})

Including(f, x, y) == [z \in DOMAIN f \cup {x} |-> IF z = x THEN y ELSE f[z]]

AddObject(a, name, o) ==
  IF name \in DOMAIN a.objects THEN Ended(a, "panics")
  ELSE Loaded(Including(a.objects, name, o), a.methods, a.status)

(* A method, and the objects of its arguments and its response.            *)
AddMethod(a, name, prefix, m) ==
  LET b == AddObject(AddObject(a, ArgumentsName(prefix), Plain(m.args)), ResponseName(prefix), Plain(m.response)) IN
  IF b.status # "ok" \/ name \in DOMAIN a.methods THEN Ended(b, "panics")
  ELSE Loaded(b.objects, Including(b.methods, name, [shape |-> m, prefix |-> prefix]), b.status)

ArgumentsOf(a, name) == a.objects[ArgumentsName(a.methods[name].prefix)].fields
ResponseOf(a, name)  == a.objects[ResponseName(a.methods[name].prefix)].fields

ClashingField(fields, name) == \E f \in Range(fields) : Written(f.name) = Written(name)

SchemaFieldsHold(fields) ==
  \A i \in DOMAIN fields :
    /\ fields[i].name # "" /\ fields[i].type.kind # "unparsable"
    /\ \A j \in 1..(i - 1) : Written(fields[j].name) # Written(fields[i].name)

AddSchemaType(a, t) ==
  IF \/ t.name \in DOMAIN a.objects
     \/ ~SchemaFieldsHold(t.fields)
     \/ \E d \in t.dynamic : d \in {"", ":"} \/ HasField(t.fields, d)
     \/ \E p \in DOMAIN t.sort : p = "" \/ ~SchemaFieldsHold(t.sort[p])
    THEN Refuse(a)
  ELSE AddObject(a, t.name, Object(t.fields, t.sort, t.dynamic))

Standard(type, verb, capability) ==
  LET name == MethodName(type, verb) IN
  CASE verb = "get"     -> RegisterGet(name, type, capability)
    [] verb = "changes" -> RegisterChanges(name, type, capability)
    [] verb = "set"     -> RegisterSet(name, type, capability)
    [] verb = "copy"    -> RegisterCopy(name, type, capability)
    [] verb = "query"   -> RegisterQuery(name, type, capability)
    [] OTHER            -> RegisterQueryChanges(name, type, capability)

AddStandard(a, type, verbs, verb, capability) ==
  IF a.status # "ok" \/ verb \notin verbs THEN a
  ELSE AddMethod(a, MethodName(type, verb), StandardPrefix(type, verb), Standard(type, verb, capability))

RegisterStandard(a, type, verbs, capability) ==
  LET Add(b, verb) == AddStandard(b, type, verbs, verb, capability)
  IN Add(Add(Add(Add(Add(Add(a, "get"), "changes"), "set"), "copy"), "query"), "queryChanges")

(* Arguments added to a type's methods, by verb: to each, or to none.      *)
AppendArguments(a, type, args) ==
  LET AddedTo(name) == {v \in DOMAIN args : name = ArgumentsName(a.methods[MethodName(type, v)].prefix)}
      Appended(o, more) == Object(o.fields \o more, o.sort, o.dynamic)
  IN [name \in DOMAIN a.objects |->
        IF AddedTo(name) = {} THEN a.objects[name]
        ELSE Appended(a.objects[name], args[CHOOSE v \in AddedTo(name) : TRUE])]

AddArguments(a, type, args) ==
  LET Fit(v) == /\ MethodName(type, v) \in DOMAIN a.methods
                /\ SchemaFieldsHold(args[v])
                /\ \A f \in Range(args[v]) : ~ClashingField(ArgumentsOf(a, MethodName(type, v)), f.name)
  IN IF \E v \in DOMAIN args : ~Fit(v) THEN Refuse(a)
     ELSE Loaded(AppendArguments(a, type, args), a.methods, a.status)

AddSchemaMethods(a, t, capability) ==
  LET b == RegisterStandard(a, t.name, Range(t.methods), capability) IN
  IF t.methods = <<>> THEN a
  ELSE IF /\ Range(t.methods) \cap {"query", "queryChanges"} # {}
          /\ FilterConditionOf(t.name) \notin DOMAIN a.objects
    THEN Refuse(a)
  ELSE IF b.status # "ok" THEN b ELSE AddArguments(b, t.name, t.args)

(* A list of records or a map to them, or of such lists or maps: no type   *)
(* nests deeper than this looks (NestingAssumption).                       *)
HeldIn(t) == IF t.kind \in {"array", "map"} THEN t.of[Len(t.of)] ELSE t
HoldsRecords(t, data) ==
  LET twice == HeldIn(HeldIn(t)) IN
  /\ t.kind \in {"array", "map"}
  /\ data \in {HeldIn(t).name, twice.name, HeldIn(twice).name, HeldIn(HeldIn(twice)).name}

(* The lists of properties a method states: each names properties of the   *)
(* records, and what is returned as null is neither a default nor an id.   *)
CheckMethodPropertyLists(o, m) ==
  LET lists == {m.defaults, m.nulls, m.nullables} \ {All} IN
  /\ lists # {} => m.properties # ""
  /\ \A l \in lists : \A p \in l :
       \/ HasField(o.fields, p)
       \/ l # m.nullables /\ p \in o.dynamic
  /\ m.nulls # All => \A p \in m.nulls : (m.defaults # All => p \notin m.defaults) /\ ~(p = "id" /\ m.returnsID)
  /\ m.nullables # All => \A p \in m.nullables : ~FieldOf(o.fields, p).type.null /\ ~(p = "id" /\ m.returnsID)

SchemaMethodHolds(a, m) ==
  LET o == IF m.data \in DOMAIN a.objects THEN a.objects[m.data] ELSE Plain(<<>>) IN
  /\ m.data # "" => m.data \in DOMAIN a.objects
  /\ m.properties # "" => m.data # "" /\ HasField(m.args, m.properties) /\ m.result # ""
  /\ m.result # "" => HasField(m.response, m.result)
  /\ m.returnsID => m.properties # "" /\ m.result # "" /\ HasField(o.fields, "id")
  /\ CheckMethodPropertyLists(o, m)
  /\ m.result # "" /\ m.data # "" => HoldsRecords(FieldOf(m.response, m.result).type, m.data)

AddSchemaMethod(a, m) ==
  LET name == MethodName(m.type, m.verb) IN
  IF \/ name \in DOMAIN a.methods
     \/ ~SchemaFieldsHold(m.args) \/ ~SchemaFieldsHold(m.response) \/ ~SchemaMethodHolds(a, m)
    THEN Refuse(a)
  ELSE AddMethod(a, name, TypeNamePrefix(m.type, m.verb), m)

-----------------------------------------------------------------------------
(***************************************************************************)
(* A schema as a whole.                                                    *)
(***************************************************************************)
(* A type and what it is built of; the objects among these.                *)
WithParts(types) == types \cup UNION {Range(t.of) : t \in types}
TypesIn(t)   == WithParts(WithParts(WithParts(WithParts({t}))))
TypeNames(t) == {u.name : u \in {x \in TypesIn(t) : x.kind = "object"}}

CheckReferences(a) ==
  \A o \in Range(a.objects) : \A f \in Range(o.fields) :
    /\ TypeNames(f.type) \subseteq DOMAIN a.objects
    /\ {f.patchTarget, f.sortTarget} \subseteq DOMAIN a.objects \cup {""}

WithReferencesChecked(a) == IF a.status = "ok" /\ ~CheckReferences(a) THEN Refuse(a) ELSE a

(* Mutant: a type's methods are registered as soon as it is.               *)
ExtendTypeByType(a, sc, n) ==
  LET types == Len(sc.types) IN
  IF a.status # "ok" THEN a
  ELSE IF n > 2 * types THEN AddSchemaMethod(a, sc.methods[n - 2 * types])
  ELSE IF n % 2 = 1 THEN AddSchemaType(a, sc.types[(n + 1) \div 2])
  ELSE AddSchemaMethods(a, sc.types[n \div 2], sc.capability)

(* Types come first and all at once, so that they may refer to each other  *)
(* however they like; then what each asks for, then the schema's methods.  *)
Steps(sc) == 2 * Len(sc.types) + Len(sc.methods)

ExtendStep(a, sc, n) ==
  LET types == Len(sc.types) IN
  IF a.status # "ok" THEN a
  ELSE IF n <= types THEN AddSchemaType(a, sc.types[n])
  ELSE IF n <= 2 * types THEN AddSchemaMethods(a, sc.types[n - types], sc.capability)
  ELSE AddSchemaMethod(a, sc.methods[n - 2 * types])

Extend(a, sc) ==
  LET upTo[n \in 0..Steps(sc)] == IF n = 0 THEN a ELSE ExtendStep(upTo[n - 1], sc, n)
  IN IF sc.capability \in Malformed \/ ~ReserveNames(a, sc) THEN Refuse(a)
     ELSE WithReferencesChecked(upTo[Steps(sc)])

-----------------------------------------------------------------------------
(***************************************************************************)
(* The catalogue of the specifications.                                    *)
(***************************************************************************)
VendorTypes == {"Note"}
SpecifiedObjects == [n \in DOMAIN Objects \ VendorTypes |-> Object(Objects[n], SortsBy(n), {})]
Specified(m) == m.data \notin VendorTypes
PrefixOf(m) ==
  LET tv == CHOOSE x \in (DOMAIN Objects \cup {"Blob", "Core"}) \X DOMAIN Verbs : MethodName(x[1], x[2]) = m.name
  IN TypeNamePrefix(tv[1], tv[2])

StandardCatalog ==
  FoldSet(LAMBDA m, a : AddMethod(a, m.name, PrefixOf(m), m),
          Loaded(SpecifiedObjects, <<>>, "ok"), {m \in Methods : Specified(m)})
=============================================================================
