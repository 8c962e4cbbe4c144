----------------------------- MODULE MCExchange -----------------------------
(***************************************************************************)
(* Requests of one to three calls: one get, two gets one of which has a    *)
(* "~" in its id, a get another call refers to, and a get beside a set,    *)
(* a get that names a record twice, one that does not encode and one that  *)
(* needs a capability; and sessions that take one or two objects and one   *)
(* to three calls, or state no number.                                     *)
(***************************************************************************)
EXTENDS Exchange

Get(id, ids) == [id |-> id, name |-> "get", ids |-> ids, ref |-> NoRef]
From(id, ref) == [id |-> id, name |-> "get", ids |-> <<>>, ref |-> ref]
Destroy(id, ids) == [id |-> id, name |-> "set", ids |-> ids, ref |-> NoRef]
A == <<"a", <<>>>>
B == <<"b", <<>>>>
A1 == <<"a", <<1>>>>
Request(calls) == [using |-> {"core"}, calls |-> calls, encodes |-> TRUE]

MCRequests ==
  {Request(<<Get(A, <<1, 2, 3>>)>>),
   Request(<<Get(A, <<1, 2, 3>>), Get(A1, <<2, 3>>)>>),
   Request(<<Get(A, <<1, 2, 3>>), From(B, A)>>),
   Request(<<Get(A, <<1, 2>>), Destroy(B, <<2>>)>>),
   Request(<<Get(A, <<1, 2, 1>>)>>),
   [using |-> {"core"}, calls |-> <<Get(A, <<1>>)>>, encodes |-> FALSE],
   [using |-> {"core", "mail"}, calls |-> <<Get(A, <<1, 2>>)>>, encodes |-> TRUE]}

Stating(objects, calls, size) == [caps |-> {"core"}, objects |-> objects, calls |-> calls, size |-> size]

MCSessions == {Stating(1, 2, 9), Stating(2, 1, 3), Stating(1, 3, 9), Stating(0, 0, 0)}

==============================================================================
