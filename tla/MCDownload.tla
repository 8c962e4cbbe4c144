----------------------------- MODULE MCDownload -----------------------------
(***************************************************************************)
(* A blob of none to three octets, asked for whole, in ones and in twos,    *)
(* and for more than an int64 counts.                                      *)
(***************************************************************************)
EXTENDS Download

==============================================================================
