------------------------------ MODULE MCLimiter ------------------------------
(***************************************************************************)
(* The limiter on small instances: three callers, and a server that states *)
(* no limit, one or two.                                                   *)
(***************************************************************************)
EXTENDS Limiter

CONSTANTS c1, c2, c3

==============================================================================
