------------------------------- MODULE Project -------------------------------
(***************************************************************************)
(* The catalogue of a project: the schemas it names are loaded onto the    *)
(* catalogue of the specifications one after another, and the first that   *)
(* is refused ends the command (cmd/jmapc, loadCatalogue).                 *)
(***************************************************************************)
EXTENDS Extension

CONSTANT Schemas        \* the schemas of vendor extensions a project may name

VARIABLES schemas,      \* the schemas named so far, in order
          catalogue     \* what they have been loaded to

project == <<schemas, catalogue>>

(* What is read from a file is records, and lists of them.                 *)
IsList(s) == s \in Seq(Range(s))
ASSUME SchemasAssumption ==
  \A sc \in Schemas :
    /\ {"types", "methods", "capability"} \subseteq DOMAIN sc
    /\ IsList(sc.types) /\ IsList(sc.methods)
    /\ \A t \in Range(sc.types) :
         IsList(t.fields) /\ IsList(t.methods) /\ \A v \in DOMAIN t.args : IsList(t.args[v])
    /\ \A m \in Range(sc.methods) : IsList(m.args) /\ IsList(m.response)

(* Bound: no type a schema writes nests deeper than TypesIn and            *)
(* HoldsRecords look, four lists or maps within each other.                *)
FieldsStated(sc) ==
  UNION {Range(t.fields) \cup UNION {Range(t.args[v]) : v \in DOMAIN t.args}
                         \cup UNION {Range(t.sort[p]) : p \in DOMAIN t.sort} : t \in Range(sc.types)}
  \cup UNION {Range(m.args) \cup Range(m.response) : m \in Range(sc.methods)}
ASSUME NestingAssumption ==
  \A sc \in Schemas : \A f \in FieldsStated(sc) : WithParts(TypesIn(f.type)) = TypesIn(f.type)

(* A type is named with letters and digits, or refused (checkTypeName):    *)
(* without a slash, so a method's name tells its type and verb. And no     *)
(* arguments or response are named as a filter's conditions are.           *)
TypesNamed == (UNION {{t.name : t \in Range(sc.types)} : sc \in Schemas}) \ Malformed
VerbsNamed == StandardMethods \cup UNION {UNION {DOMAIN t.args : t \in Range(sc.types)} : sc \in Schemas}
ASSUME NamesAssumption ==
  /\ \A s, t \in TypesNamed : \A v, w \in VerbsNamed :
       MethodName(s, v) = MethodName(t, w) => s = t /\ v = w
  /\ \A s, t \in TypesNamed : \A v \in StandardMethods :
       FilterConditionOf(s) \notin {ArgumentsName(StandardPrefix(t, v)), ResponseName(StandardPrefix(t, v))}

(* No two arguments of a standard method are written as one, nor two       *)
(* members of its answer.                                                  *)
ASSUME StandardsAssumption ==
  \A sc \in Schemas : \A t \in Range(sc.types) : \A v \in StandardMethods :
    LET m == Standard(t.name, v, sc.capability)
    IN \A fields \in {m.args, m.response} : IsList(fields) /\ SchemaFieldsHold(fields)

-----------------------------------------------------------------------------
(***************************************************************************)
(* What the parser and the generators rely on.                             *)
(***************************************************************************)
NamesApart(a) == \A x, y \in DOMAIN a.objects : Written(x) = Written(y) => x = y

(* No two methods have their arguments in one object.                      *)
MethodsApart(a) ==
  \A m, n \in DOMAIN a.methods :
    ArgumentsName(a.methods[m].prefix) = ArgumentsName(a.methods[n].prefix) => m = n

FieldsHold(a) ==
  \A o \in Range(a.objects) : SchemaFieldsHold(o.fields)

TypesDefined(a) ==
  \A o \in Range(a.objects) : \A f \in Range(o.fields) : TypeNames(f.type) \subseteq DOMAIN a.objects

(* A method's arguments and its response are objects of the catalogue. Of  *)
(* one that selects properties it is known which records these are of and  *)
(* where its answer has them; those it returns the id of have one, but for *)
(* a type's /get, which the schema asks for whatever the type has.         *)
MethodHolds(a, n) ==
  LET m == a.methods[n].shape
      prefix == a.methods[n].prefix
  IN /\ {ArgumentsName(prefix), ResponseName(prefix)} \subseteq DOMAIN a.objects
     /\ m.properties # "" =>
          /\ m.data \in DOMAIN a.objects
          /\ HasField(ArgumentsOf(a, n), m.properties)
          /\ HasField(ResponseOf(a, n), m.result)
          /\ HoldsRecords(FieldOf(ResponseOf(a, n), m.result).type, m.data)
          /\ m.returnsID => HasField(a.objects[m.data].fields, "id") \/ n = MethodName(m.data, "get")

Sound(a) ==
  /\ NamesApart(a) /\ MethodsApart(a) /\ FieldsHold(a) /\ TypesDefined(a)
  /\ \A n \in DOMAIN a.methods : MethodHolds(a, n)

(* As the catalogue is before any schema.                                  *)
Formed(a) ==
  a = Loaded([x \in DOMAIN a.objects |-> a.objects[x]], [n \in DOMAIN a.methods |-> a.methods[n]], a.status)
ASSUME StandardAssumption ==
  /\ StandardCatalog.status = "ok" /\ Formed(StandardCatalog) /\ Sound(StandardCatalog)
  /\ \A o \in Range(StandardCatalog.objects) : IsList(o.fields)

-----------------------------------------------------------------------------
ProjectInit == schemas = <<>> /\ catalogue = StandardCatalog

ExtendCatalogue ==
  /\ catalogue.status = "ok"
  /\ \E sc \in Schemas : schemas' = Append(schemas, sc) /\ catalogue' = Extend(catalogue, sc)

ProjectSpec == ProjectInit /\ [][ExtendCatalogue]_project

-----------------------------------------------------------------------------
(* What the parser and the generators rely on holds of every catalogue     *)
(* that a schema has come to, however its types refer to each other: no    *)
(* name is registered twice or written as another, and of a method with    *)
(* arguments that select properties it is known which records these are    *)
(* of, and where its answer has them.                                      *)
ExtensionHolds ==
  [][catalogue' # catalogue =>
       /\ catalogue'.status # "panics"
       /\ catalogue'.status = "ok" => Sound(catalogue')]_project

(* The order a schema's types are written in decides nothing: they may     *)
(* refer to each other however they like.                                  *)
Ordered(sc, p) == [sc EXCEPT !.types = [i \in DOMAIN sc.types |-> sc.types[p[i]]]]

SchemaOrderFree ==
  [][\A sc \in Schemas :
       schemas' = Append(schemas, sc) =>
         \A p \in Bijection(DOMAIN sc.types, DOMAIN sc.types) :
           LET b == Extend(catalogue, Ordered(sc, p))
           IN catalogue'.status = b.status /\ (b.status = "ok" => catalogue' = b)]_project
=============================================================================
