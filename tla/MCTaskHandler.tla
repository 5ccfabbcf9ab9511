--------------------------- MODULE MCTaskHandler ---------------------------
(* TLC instances of TaskHandler. *)
EXTENDS TaskHandler

CONSTANTS t1, t2, t3

TwoThreads == {t1, t2}
ThreeThreads == {t1, t2, t3}
=============================================================================
