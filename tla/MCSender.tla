------------------------------- MODULE MCSender -------------------------------
(***************************************************************************)
(* A few requests sharing a token source, and a server that goes through a *)
(* few tokens.                                                             *)
(***************************************************************************)
EXTENDS Sender

CONSTANTS r1, r2

==============================================================================
