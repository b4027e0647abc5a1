--------------------------- MODULE MCSystemUpdate ---------------------------
(***************************************************************************)
(* SystemUpdate with two channels of different versions.                   *)
(***************************************************************************)
EXTENDS SystemUpdate, TLC

MCRelease == [c \in Channels |-> IF c = "stable" THEN 1 ELSE 2]
=============================================================================
