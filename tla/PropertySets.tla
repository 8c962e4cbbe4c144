---------------------------- MODULE PropertySets ----------------------------
(***************************************************************************)
(* The file of named sets of properties (internal/request/properties.go):  *)
(* each set narrows a data type, and may extend another set. Entries are   *)
(* [name, type, extends, props], in the order they are declared.           *)
(***************************************************************************)
EXTENDS RequestFile

EmptySet == [type |-> "", extends |-> "", own |-> {}]

(* A set and the sets it extends, as far as they are resolved.             *)
RECURSIVE Chain(_, _)
Chain(sets, nm) ==
  <<nm>> \o IF sets[nm].extends = "" THEN <<>> ELSE Chain(sets, sets[nm].extends)

BaseType(sets, nm)  == sets[Last(Chain(sets, nm))].type
Inherited(sets, nm) == IF nm = "" THEN {} ELSE UNION {sets[n].own : n \in Range(Chain(sets, nm))}

(* Extending nm's base would close a circle.                               *)
ExtendsCycle(sets, nm, base) == nm \in Range(Chain(sets, base))

AnsweredBy(type, held, p) == \E q \in held : AnsweredAs(type, q) # {q} /\ p \in AnsweredAs(type, q)

(* One set settled: what it extends, the type it narrows, its properties.  *)
Resolve(a, e) ==
  LET known == e.extends \in DOMAIN a.sets
      base  == IF e.extends = "" \/ ~known \/ e.extends = e.name THEN ""
               ELSE IF ExtendsCycle(a.sets, e.name, e.extends) THEN "" ELSE e.extends
      type  == IF base = "" THEN e.type ELSE BaseType(a.sets, base)
      held  == Inherited(a.sets, base)
      bad   == \/ e.extends # "" /\ base = ""
               \/ base # "" /\ e.type \notin {"", type}
               \/ type \notin DOMAIN Objects
               \/ e.props = <<>>
               \/ \E i \in DOMAIN e.props :
                    \/ e.props[i] \in held \cup {e.props[j] : j \in 1..(i - 1)}
                    \/ ~CheckProperty(type, e.props[i])
                    \/ AnsweredBy(type, held, e.props[i])
  IN [sets |-> [a.sets EXCEPT ![e.name] =
                  [type |-> type, extends |-> base,
                   own |-> IF bad THEN {} ELSE Range(e.props)]],
      refused |-> a.refused \/ bad]

(* Every name is known before any set is resolved.                         *)
ParsePropertySets(file) ==
  FoldLeft(Resolve,
           [sets |-> [n \in {file[i].name : i \in DOMAIN file} |-> EmptySet], refused |-> FALSE], file)

(* The sets a request file may name, as it sees them.                      *)
SetsOf(parsed) ==
  [n \in DOMAIN parsed.sets |-> [name |-> n, type |-> parsed.sets[n].type, props |-> Inherited(parsed.sets, n)]]
=============================================================================
