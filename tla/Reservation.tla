---------------------------- MODULE Reservation ----------------------------
(***************************************************************************)
(* What a port promises: nUnits units, each busy for ocp cycles with every *)
(* slot it serves.  A request gets the earliest slot, from the current     *)
(* cycle on, at which a unit is free for all of its ocp cycles.  The slots *)
(* given so far determine the next one, so two ports that implement this   *)
(* answer every sequence of requests alike.                                *)
(***************************************************************************)
EXTENDS Integers, Sequences, FiniteSets

VARIABLES globalClock,
          nUnits, ocp,  \* the port's parameters; they do not change
          slots         \* the slots given so far, in the order of the requests

\* The requests served in cycle t, and whether a slot may start then.  A port
\* without units or without occupancy has no limit.
Users(t) == {i \in 1..Len(slots) : slots[i] <= t /\ t < slots[i] + ocp}

Limited == nUnits > 0 /\ ocp > 0

Fits(t) == Limited => \A u \in t..t + ocp - 1 : Cardinality(Users(u)) < nUnits

Earliest(t) == t >= globalClock /\ Fits(t) /\ \A u \in globalClock..t - 1 : ~Fits(u)

Init ==
  /\ globalClock = 0 /\ slots = <<>>
  /\ nUnits \in Nat /\ ocp \in Nat

Reserve ==
  /\ Len(slots') = Len(slots) + 1
  /\ LET t == slots'[Len(slots) + 1]
     IN  t \in Nat /\ Earliest(t) /\ slots' = Append(slots, t)
  /\ UNCHANGED <<globalClock, nUnits, ocp>>

Tick == globalClock' = globalClock + 1 /\ UNCHANGED <<nUnits, ocp, slots>>

Next == Reserve \/ Tick

Spec == Init /\ [][Next]_<<globalClock, nUnits, ocp, slots>>
=============================================================================
