--------------------------- MODULE MCPushReceiver ---------------------------
(***************************************************************************)
(* A receiver with and without keys, with and without a lifetime of its    *)
(* own, and as many troubles as make one be lost and made again.           *)
(***************************************************************************)
EXTENDS PushReceiver

MCLifetimes == {NoExpiry, 12}

==============================================================================
