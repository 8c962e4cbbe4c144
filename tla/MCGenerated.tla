----------------------------- MODULE MCGenerated -----------------------------
(***************************************************************************)
(* The requests of the example package, and others that it has none like:  *)
(* with a call that implies another, without an account, walked without    *)
(* one and walked through changes; sessions that lack each of what verify  *)
(* looks for.                                                              *)
(***************************************************************************)
EXTENDS Generated, Examples

R(name, using, primaries, calls, returns, pages) ==
  [name |-> name, using |-> using, primaries |-> primaries,
   calls |-> [i \in DOMAIN calls |-> Makes(calls[i][1], calls[i][2])],
   returns |-> returns, pages |-> pages]

MCRequests == Package \cup {
  R("Set",    <<"core", "mail">>, <<>>,       << <<"set", "mail">>, <<"get", "mail">> >>, 1, ""),
  R("Quota",  <<"core", "mail", "quota">>, <<"mail", "quota">>,
              << <<"copy", "mail">>, <<"get", "quota">> >>, 2, ""),
  R("Listed", <<"core">>, <<>>, << <<"query", "mail">>, <<"get", "mail">> >>, 0, "query"),
  R("Since",  <<"core">>, <<>>, << <<"changes", "mail">> >>, 1, "changes") }

S(caps, max, primary, accounts) == [caps |-> caps, max |-> max, primary |-> primary, accounts |-> accounts]
Others     == {"quota", "blob", "sieve", "submission", "calendars", "contacts", "principals", "mdn"}
Accounted  == {"mail"} \cup Others
Everything == {"core", "smimeverify"} \cup Accounted
Primary(m, q) == [cap \in Accounted |-> IF cap = "mail" THEN m ELSE q]

MCSessions == {
  S(Everything, 0, Primary("A", "A"), [a \in {"A"} |-> {}]),
  S({"core", "mail"}, 2, [cap \in {"mail"} |-> "A"], [a \in {"A"} |-> {"mail"}]),
  S(Everything, 1, Primary("A", "B"), [a \in {"A", "B"} |-> IF a = "A" THEN Everything ELSE {"mail"}]),
  S(Everything, 0, Primary("A", "B"), [a \in {"A", "B"} |-> IF a = "A" THEN Everything ELSE {"mail"}]),
  S(Everything, 3, [cap \in Others |-> "A"], [a \in {"A"} |-> Everything]),
  S(Everything, 0, Primary("", "A"), [a \in {"A"} |-> Everything]) }

MCOptions == {[strict |-> TRUE, apiURL |-> FALSE], [strict |-> TRUE, apiURL |-> TRUE],
              [strict |-> FALSE, apiURL |-> FALSE]}

MCStarts == {-2, 0, 4}
=============================================================================
