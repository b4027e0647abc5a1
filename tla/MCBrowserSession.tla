-------------------------- MODULE MCBrowserSession --------------------------
(***************************************************************************)
(* BrowserSession with two users, both administrators at first.            *)
(***************************************************************************)
EXTENDS BrowserSession, TLC

CONSTANTS u1, u2, page1
=============================================================================
