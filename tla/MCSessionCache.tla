---------------------------- MODULE MCSessionCache ----------------------------
(***************************************************************************)
(* The session cache with a few callers and a server whose session goes    *)
(* through a few versions.                                                 *)
(***************************************************************************)
EXTENDS SessionCache

CONSTANTS c1, c2

==============================================================================
