---------------------------- MODULE Invocations ----------------------------
(***************************************************************************)
(* The arguments of a call with the caller's values in them: as the        *)
(* compiler builds a request to send it at once (internal/wire), and as    *)
(* the functions generated in Go, TypeScript and Rust state it             *)
(* (internal/gen). A value a caller leaves out is not in vals.             *)
(***************************************************************************)
EXTENDS RequestFile

StrNode(s) == Node("str", s, <<>>)
Item(v)    == [k |-> <<>>, v |-> v]
Undefined  == Node("undefined", "", <<>>)

KeyWith(vals, k) ==
  [i \in DOMAIN k |-> IF Open(k[i]) /\ k[i].p \in DOMAIN vals THEN Seg(vals[k[i].p].s) ELSE k[i]]

(* Of two members that come to one name the later is sent.                 *)
LaterSent(members) ==
  LET last == {i \in DOMAIN members : \A j \in DOMAIN members : j > i => members[j].k # members[i].k}
  IN [i \in 1..Cardinality(last) |-> members[CHOOSE j \in last : Cardinality({x \in last : x < j}) = i - 1]]

(* A node with values in its parameters' places, and what a parameter left *)
(* out is written as where it has none.                                    *)
RECURSIVE Filled(_, _, _)
Filled(vals, none, v) ==
  LET filled == [i \in DOMAIN v.of |-> [k |-> KeyWith(vals, v.of[i].k), v |-> Filled(vals, none, v.of[i].v)]]
  IN CASE v.j \in {"param", "opt"} -> IF v.s \in DOMAIN vals THEN vals[v.s] ELSE none
       [] v.j = "obj"              -> [v EXCEPT !.of = LaterSent(filled)]
       [] OTHER                    -> [v EXCEPT !.of = filled]

(* JSON has no undefined: a member that is undefined is not sent, and an   *)
(* item that is undefined is null.                                         *)
RECURSIVE Sent(_)
Sent(v) ==
  CASE v.j = "obj" -> [v EXCEPT !.of = LET there == SelectSeq(@, LAMBDA mb : mb.v # Undefined)
                                       IN [i \in DOMAIN there |-> [there[i] EXCEPT !.v = Sent(@)]]]
    [] v.j = "arr" -> [v EXCEPT !.of = [i \in DOMAIN @ |-> [@[i] EXCEPT !.v = IF @ = Undefined THEN NullNode ELSE Sent(@)]]]
    [] OTHER       -> v

LeftOut(vals, a)  == ~a.ref /\ a.v.j = "opt" /\ a.v.s \notin DOMAIN vals
IsOptional(a)     == ~a.ref /\ a.v.j = "opt"
ArgWith(a, v)     == IF a.ref THEN a ELSE [a EXCEPT !.v = v]
AccountArg(id)    == <<[k |-> "accountId", ref |-> FALSE, v |-> StrNode(id)]>>

-----------------------------------------------------------------------------
(* As the compiler sends it.                                               *)
BuildNode(vals, v) == Filled(vals, NullNode, v)
BuildArgs(vals, args) ==
  LET there == SelectSeq(args, LAMBDA a : ~LeftOut(vals, a))
  IN [i \in DOMAIN there |-> ArgWith(there[i], BuildNode(vals, there[i].v))]

(* Go: those always there in one literal, and each of the others put in    *)
(* after where its parameter is not nil.                                   *)
GoExpr(vals, v) == Filled(vals, NullNode, v)
GoArgVars(vals, args) ==
  LET stated == SelectSeq(args, LAMBDA a : ~IsOptional(a))
      put    == SelectSeq(args, LAMBDA a : IsOptional(a) /\ a.v.s \in DOMAIN vals)
  IN [i \in DOMAIN stated |-> ArgWith(stated[i], GoExpr(vals, stated[i].v))]
     \o [i \in DOMAIN put |-> ArgWith(put[i], vals[put[i].v.s])]
GoInvocation(vals, args) ==
  IF \E a \in Range(args) : IsOptional(a) THEN GoArgVars(vals, args)
  ELSE [i \in DOMAIN args |-> ArgWith(args[i], GoExpr(vals, args[i].v))]

(* TypeScript: in the order they are written, those left out spread away.  *)
TsExpr(vals, v) == Sent(Filled(vals, Undefined, v))
TsInvocation(vals, args) ==
  LET there == SelectSeq(args, LAMBDA a : ~IsOptional(a) \/ a.v.s \in DOMAIN vals)
  IN [i \in DOMAIN there |-> ArgWith(there[i], TsExpr(vals, there[i].v))]

(* Rust: as Go, a parameter left out being None.                           *)
RustExpr(vals, v) == Filled(vals, NullNode, v)
RustBuiltArgs(vals, args) ==
  LET stated == SelectSeq(args, LAMBDA a : ~IsOptional(a))
      put    == SelectSeq(args, LAMBDA a : IsOptional(a) /\ a.v.s \in DOMAIN vals)
  IN [i \in DOMAIN stated |-> ArgWith(stated[i], RustExpr(vals, stated[i].v))]
     \o [i \in DOMAIN put |-> ArgWith(put[i], vals[put[i].v.s])]
RustInvocation(vals, args) ==
  IF \E a \in Range(args) : IsOptional(a) THEN RustBuiltArgs(vals, args)
  ELSE [i \in DOMAIN args |-> ArgWith(args[i], RustExpr(vals, args[i].v))]
=============================================================================
