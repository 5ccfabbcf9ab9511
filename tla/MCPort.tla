------------------------------- MODULE MCPort -------------------------------
(* TLC instance of Port: every class, up to three units and an occupancy   *)
(* of three cycles.                                                        *)
EXTENDS Port
=============================================================================
