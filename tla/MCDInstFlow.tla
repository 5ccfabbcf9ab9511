---------------------------- MODULE MCDInstFlow ----------------------------
(* A ring of two slots that has to grow twice, with replays in between.     *)
EXTENDS DInstFlow
=============================================================================
