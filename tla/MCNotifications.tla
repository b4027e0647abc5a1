-------------------------- MODULE MCNotifications --------------------------
(***************************************************************************)
(* Notifications with two observations for a failure and one for a         *)
(* recovery.  In a behaviour about an alert there is an edit and a         *)
(* trouble, or a provider is added, or gets a new connection, and one is   *)
(* deleted: then a list of connections comes back.                         *)
(***************************************************************************)
EXTENDS Notifications, TLC

FewDisturbances ==
  [about : {"global", "rule"}, edits : {1}, connections : {0}, deletions : {0},
   troubles : {1}]
  \union
  [about : {"rule"}, edits : {0}, connections : {1}, deletions : {1}, troubles : {0}]
  \union
  [about : {"global"}, edits : {0}, connections : {1}, deletions : {1}, troubles : {1}]
  \union
  [about : {"notice"}, edits : {1}, connections : {0}, deletions : {0}, troubles : {3}]
=============================================================================
