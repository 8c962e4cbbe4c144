------------------------------- MODULE MCWatch -------------------------------
(***************************************************************************)
(* A watch with a way back, a server that goes through a few states, and   *)
(* connections that fail a few times.                                      *)
(***************************************************************************)
EXTENDS Watch

==============================================================================
