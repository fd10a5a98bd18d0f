--------------------------- MODULE MCAiRetention ---------------------------
(***************************************************************************)
(* Instances of AiRetention.                                               *)
(***************************************************************************)
EXTENDS AiRetention

CONSTANTS u1
=============================================================================
