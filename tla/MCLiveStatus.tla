---------------------------- MODULE MCLiveStatus ----------------------------
(***************************************************************************)
(* LiveStatus with a bound on the reports stored during a visit.           *)
(***************************************************************************)
EXTENDS LiveStatus, TLC
=============================================================================
