-------------------------- MODULE MCEventScheduler --------------------------
(* TLC instance of EventScheduler. *)
EXTENDS EventScheduler

CONSTANTS e1, e2, e3

ThreeEvents == {e1, e2, e3}
=============================================================================
