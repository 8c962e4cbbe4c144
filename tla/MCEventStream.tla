---------------------------- MODULE MCEventStream ----------------------------
(***************************************************************************)
(* Two streams over a server with up to three events of every kind.        *)
(***************************************************************************)
EXTENDS EventStream

==============================================================================
