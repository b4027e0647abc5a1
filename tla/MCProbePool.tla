---------------------------- MODULE MCProbePool ----------------------------
(***************************************************************************)
(* ProbePool with a provider whose models are discovered and one whose     *)
(* models are configured.                                                  *)
(***************************************************************************)
EXTENDS ProbePool

CONSTANTS auto, fixed, m1, m2

MCOrder == <<auto, fixed>>
=============================================================================
