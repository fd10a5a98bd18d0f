----------------------------- MODULE MCFancyHub -----------------------------
(***************************************************************************)
(* Instances of FancyHub.                                                  *)
(***************************************************************************)
EXTENDS FancyHub

CONSTANTS a1, a2
=============================================================================
