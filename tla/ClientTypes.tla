----------------------------- MODULE ClientTypes -----------------------------
(***************************************************************************)
(* What the generated clients of every language share: the shape of a      *)
(* response, of what a generated function comes to, and of a walk.         *)
(*                                                                         *)
(* A session says which capabilities the server has (caps), how many calls *)
(* it takes at once (max, 0 unstated), the primary account of a capability *)
(* and what each account supports. A request lists its capabilities        *)
(* (using), those whose primary account it takes (primaries), its calls,   *)
(* each with the earlier ones whose results it refers to (refs), and the   *)
(* call it returns (0: all of them). A response gives for each call the    *)
(* entries that carry its id, in order, by what they are to the client: an *)
(* answer, one that refuses a record, one that is not what it is read as   *)
(* (garbled), or an error.                                                 *)
(***************************************************************************)
EXTENDS Integers, Sequences, FiniteSets, FiniteSetsExt, SequencesExt

(* The entry a call id finds: the first, where a server sent several.      *)
First(resp, i) == IF resp[i] = <<>> THEN "absent" ELSE resp[i][1]

(* Whether a method answers with records it refused, a blob not uploaded   *)
(* and a notification not sent among them.                                 *)
SetErrorFields(method) == method \in {"set", "copy", "upload", "send"}
Lists(req, i)     == SetErrorFields(req.calls[i].method)

(* The calls a function gives, and those it reads for their refusals.      *)
Given(req) == IF req.returns = 0 THEN DOMAIN req.calls ELSE {req.returns}
Aside(req) == {i \in DOMAIN req.calls \ Given(req) : Lists(req, i)}

(* The records refused in the calls that were read.                        *)
Refused(req, resp) ==
  {<<"refused", i>> : i \in {j \in Given(req) \cup Aside(req) :
                               Lists(req, j) /\ First(resp, j) = "refused"}}

Gives(value, errors) == [value |-> value, errors |-> errors]
Fails(errors)        == Gives({}, errors)

(* The first problem of a list of sets of problems.                        *)
FirstOf(problems) ==
  LET at == {k \in DOMAIN problems : problems[k] # {}}
  IN IF at = {} THEN {} ELSE problems[Min(at)]
=============================================================================
