------------------------------ MODULE MCCache -------------------------------
(* Instances of module Cache for TLC.                                      *)
EXTENDS Cache, TLC

CONSTANTS c1, c2, a1, a2, a3, e1, e2, r1, r2, r3, r4

OneL1 == {c1}
TwoL1s == {c1, c2}

\* Two lines share an MSHR entry.
TwoLineHash == [c \in Caches |-> a1 :> e1 @@ a2 :> e1]

AllFull == [c \in Caches |-> "full"]
MixedKinds == [c \in Caches |-> IF c = c2 THEN "blocking" ELSE "full"]
FullOverNone == [c \in Caches |-> IF c = L2 THEN "none" ELSE "full"]

AllInclusive == [c \in Caches |-> TRUE]
L2NotInclusive == [c \in Caches |-> c # L2]

\* One line per cache: every fill evicts.
TinyWays == [c \in Caches |-> 1]

\* Requests are interchangeable, and so are the lines: TwoLineHash maps both
\* to one entry.
Symmetry == Permutations({r1, r2, r3, r4} \cap Req) \cup Permutations(Addr)
=============================================================================
