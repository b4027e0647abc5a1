---------------------------- MODULE MCAdminPages ----------------------------
\* Small constants for TLC.  A behaviour has two checks and one press of a button, or
\* one check and failing requests with it.
EXTENDS AdminPages, TLC

Allowed == {[tasks |-> 2, troubles |-> 0, presses |-> 1],
            [tasks |-> 1, troubles |-> 1, presses |-> 2]}
=============================================================================
