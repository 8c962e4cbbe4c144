----------------------------- MODULE JsonSchema -----------------------------
(***************************************************************************)
(* The JSON Schema jmapc writes for request files                          *)
(* (internal/jsonschema), as what it takes: each operator is the schema    *)
(* the builder's function of that name writes, applied to a node of a      *)
(* file. A definition written once and referred to is an operator used     *)
(* twice.                                                                  *)
(***************************************************************************)
EXTENDS RequestFile

(* What a property says about its value beyond its type.                   *)
NoContext    == [enum |-> {}, sort |-> ""]
ContextOf(f) == [enum |-> f.enum, sort |-> f.sortTarget]

IsObject(v)  == v.j = "obj"
Closed(v, names) == IsObject(v) /\ KeysOf(v) \subseteq names

SchemaPrimitive(t, ctx, v) ==
  CASE t.name = "Boolean"     -> v.j = "bool"
    [] t.name = "Int"         -> v.j = "int" /\ v.s # "frac"
    [] t.name = "UnsignedInt" -> v.j = "int" /\ v.s \notin {"frac", "neg"}
    [] ctx.enum # {}          -> v.j = "str" /\ v.s \in ctx.enum
    [] t.name = "String"      -> IsString(v)
    [] OTHER                  -> v.j = "str" /\ ValidText(t.name, v.s)

(* The filter of a query: its conditions are filters themselves.           *)
Conditions(t) == {t.of[i].name : i \in DOMAIN t.of} \ {"FilterOperator"}
IsFilter(t)   == UnionMentions(t, "FilterOperator")
                 /\ Conditions(t) # {} /\ Conditions(t) \subseteq {FilterConditionOf(o) : o \in DOMAIN Objects}

RECURSIVE SchemaValue(_, _, _)

SchemaFields(fields, v) ==
  /\ Closed(v, NamesOf(fields))
  /\ \A i \in DOMAIN v.of : LET f == FieldOf(fields, KeyText(v.of[i].k)) IN
       SchemaValue(f.type, ContextOf(f), v.of[i].v)

(* A type with no properties names none of its members; a patch's pointers *)
(* begin without a slash.                                                  *)
SchemaObject(name, v) ==
  IF Objects[name] = <<>>
    THEN IsObject(v) /\ \A i \in DOMAIN v.of : v.of[i].k[1] # Seg("")
    ELSE SchemaFields(Objects[name], v)

RECURSIVE SchemaFilter(_, _)
SchemaFilter(condition, v) ==
  \/ v.j = "param"
  \/ SchemaObject(condition, v)
  \/ /\ Closed(v, NamesOf(Objects["FilterOperator"]))
     /\ \A i \in DOMAIN v.of :
          LET f == FieldOf(Objects["FilterOperator"], KeyText(v.of[i].k))
              held == v.of[i].v
          IN IF f.name = "conditions"
               THEN held.j = "arr" /\ \A n \in DOMAIN held.of : SchemaFilter(condition, held.of[n].v)
               ELSE SchemaValue(f.type, ContextOf(f), held)

SchemaComparator(target, v) ==
  LET by    == SortsBy(target)
      extra == FlattenSeq(SetToSeq({by[p] : p \in DOMAIN by}))
      rest  == SelectSeq(Objects["Comparator"], LAMBDA f : f.name # "property") \o extra
      Named(nm) == nm.j = "param" \/ (nm.j = "str" /\ nm.s \in DOMAIN by)
  IN IF by = <<>> THEN SchemaObject("Comparator", v)
     ELSE /\ Closed(v, {"property"} \cup NamesOf(rest))
          /\ \A i \in DOMAIN v.of :
               LET k == KeyText(v.of[i].k) IN
               IF k = "property" THEN Named(v.of[i].v)
               ELSE SchemaValue(FieldOf(rest, k).type, ContextOf(FieldOf(rest, k)), v.of[i].v)

SchemaNamed(name, ctx, v) ==
  IF name = "Comparator" /\ ctx.sort # "" THEN SchemaComparator(ctx.sort, v) ELSE SchemaObject(name, v)

RECURSIVE SchemaCore(_, _, _)
SchemaCore(t, ctx, v) ==
  CASE t.kind = "any"    -> TRUE
    [] t.kind = "union"  -> IF IsFilter(t) THEN SchemaFilter(CHOOSE c \in Conditions(t) : TRUE, v)
                            ELSE \E i \in DOMAIN t.of : SchemaCore(t.of[i], ctx, v)
    [] t.kind = "array"  -> v.j = "arr" /\ \A i \in DOMAIN v.of : SchemaValue(t.of[1], ctx, v.of[i].v)
    [] t.kind = "map"    -> /\ IsObject(v)
                            /\ ctx.enum # {} => KeysOf(v) \subseteq ctx.enum
                            /\ \A i \in DOMAIN v.of : SchemaValue(t.of[2], NoContext, v.of[i].v)
    [] t.kind = "object" -> SchemaNamed(t.name, ctx, v)
    [] OTHER             -> SchemaPrimitive(t, ctx, v)

(* Anywhere a value may go, a parameter may go instead.                    *)
SchemaValue(t, ctx, v) ==
  t.kind = "any" \/ v.j = "param" \/ (v.j = "null" /\ t.null) \/ SchemaCore(t, ctx, v)

-----------------------------------------------------------------------------
(***************************************************************************)
(* The arguments of a call, and the calls of a file.                       *)
(***************************************************************************)
ListOfNames(type, v) ==
  v.j = "arr" /\ \A i \in DOMAIN v.of :
    LET e == v.of[i].v IN
    e.j = "param" \/ (e.j = "str" /\ (HasField(Objects[type], e.s) \/ AcceptsDynamic(type, e.s)))

(* Mutant: no set of properties where a list may be.                       *)
PropertyNamesListed(type, v) == v.j \in {"null", "param"} \/ ListOfNames(type, v)

(* An argument that selects properties of a type by name.                  *)
PropertyNames(type, v) == v.j \in {"null", "param", "set"} \/ ListOfNames(type, v)

(* Only a whole argument may be left out.                                  *)
SchemaProperty(m, f, v) ==
  \/ v.j = "opt"
  \/ IF f.name = m.properties /\ m.data # "" THEN PropertyNames(m.data, v)
     ELSE IF f.name = m.nested /\ m.nestedType # "" THEN PropertyNames(m.nestedType, v)
     ELSE SchemaValue(f.type, ContextOf(f), v)

(* The one object that takes what the data model does not describe: a      *)
(* comment, and the back references that stand in for arguments.           *)
SchemaArguments(m, args) ==
  \A a \in Range(args) :
    \/ a.k = "_comment" /\ ~a.ref /\ IsString(a.v)
    \/ a.ref /\ RefName(a.v) \in MethodNames
    \/ ~a.ref /\ HasField(m.args, a.k) /\ SchemaProperty(m, FieldOf(m.args, a.k), a.v)

SchemaCall(w) == w.method \in MethodNames /\ SchemaArguments(MethodNamed(w.method), w.args)

SchemaTakes(file) == file.calls # <<>> /\ \A w \in Range(file.calls) : SchemaCall(w)

(* What the schema refuses although the parser takes it: the arguments of  *)
(* a method that names none, a header field written as a property, and a   *)
(* parameter where the schema asks for one of a fixed set of keys, or for  *)
(* the list of a filter operator's conditions, or a null among these.      *)
RECURSIVE Entries(_)
Entries(v) == UNION {{v.of[i]} \cup Entries(v.of[i].v) : i \in DOMAIN v.of}

OpenUnderEnum == {"roles"}
NotDescribed(w) ==
  \/ MethodNamed(w.method).args = <<>>
  \/ \E a \in Range(w.args) : ~a.ref /\ \E m \in Entries(a.v) : m.k # <<>> /\
       \/ KeyText(m.k) \in DOMAIN HeaderProperties
       \/ KeyText(m.k) \in OpenUnderEnum /\ \E i \in DOMAIN m.v.of : Open(m.v.of[i].k[1])
       \/ KeyText(m.k) = "conditions" /\ (m.v.j = "param" \/ \E i \in DOMAIN m.v.of : m.v.of[i].v.j = "null")
=============================================================================
