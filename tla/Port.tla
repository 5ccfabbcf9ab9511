-------------------------------- MODULE Port --------------------------------
(***************************************************************************)
(* The ports that model contention for every unit, cache port and bus of   *)
(* the simulator (misc/libsuc/Port.cpp).  PortGeneric::create chooses one  *)
(* of five classes from the number of units and their occupancy.  "In      *)
(* theory everything can be solved with PortNPipe": the other four are     *)
(* faster versions of it that keep one time and a counter.                 *)
(*                                                                         *)
(* Time_t and the counters are unbounded here: 2^64 cycles are not         *)
(* reached.  lock4nCycles has no caller, and those of occupySlots are in   *)
(* libnet, which is not built; both are left out.                          *)
(***************************************************************************)
EXTENDS Integers, Sequences, FiniteSets

CONSTANTS Units, Occs,   \* the values of nUnits and ocp a port may be created with
          MaxClock,      \* bound: the clock stops here
          MaxRequests    \* bound: requests to the port

ASSUME PortAssumption == Units \subseteq Nat /\ Occs \subseteq Nat /\ {MaxClock, MaxRequests} \subseteq Nat

VARIABLES globalClock,
          nUnits, ocp,     \* create()'s arguments
          lTime,           \* PortFullyPipe, PortFullyNPipe, PortPipe
          freeUnits,       \* PortFullyNPipe
          portBusyUntil,   \* PortNPipe
          slots            \* history: what nextSlot() has returned

vars == <<globalClock, nUnits, ocp, lTime, freeUnits, portBusyUntil, slots>>

Class ==
  CASE ocp = 0 \/ nUnits = 0 -> "PortUnlimited"
    [] ocp = 1 /\ nUnits = 1 -> "PortFullyPipe"
    [] ocp = 1 /\ nUnits > 1 -> "PortFullyNPipe"
    [] ocp > 1 /\ nUnits = 1 -> "PortPipe"
    [] ocp > 1 /\ nUnits > 1 -> "PortNPipe"

\* Ports are created before the clock starts.
Init ==
  /\ globalClock = 0
  /\ nUnits \in Units /\ ocp \in Occs
  /\ lTime = 0
  /\ freeUnits = nUnits
  /\ portBusyUntil = [i \in 0..nUnits - 1 |-> 0]
  /\ slots = <<>>

Later(s, t) == IF s < t THEN t ELSE s

Give(t) == slots' = Append(slots, t) /\ UNCHANGED <<globalClock, nUnits, ocp>>

UnlimitedNextSlot ==
  /\ Class = "PortUnlimited"
  /\ Give(globalClock)
  /\ UNCHANGED <<lTime, freeUnits, portBusyUntil>>

FullyPipeNextSlot ==
  /\ Class = "PortFullyPipe"
  /\ Give(Later(lTime, globalClock))
  /\ lTime' = Later(lTime, globalClock) + 1
  /\ UNCHANGED <<freeUnits, portBusyUntil>>

\* Mutants: freeUnits is decremented without a test; a new cycle starts with
\* all units free, as if it had given none.
FullyNPipeNextSlotUnguarded ==
  /\ Class = "PortFullyNPipe"
  /\ \/ lTime < globalClock /\ lTime' = globalClock /\ freeUnits' = nUnits - 1
     \/ lTime >= globalClock /\ freeUnits' = freeUnits - 1 /\ UNCHANGED lTime
  /\ Give(lTime')
  /\ UNCHANGED portBusyUntil

FullyNPipeNextSlotAllFree ==
  /\ Class = "PortFullyNPipe"
  /\ \/ lTime < globalClock /\ lTime' = globalClock /\ freeUnits' = nUnits
     \/ lTime >= globalClock /\ freeUnits > 0 /\ freeUnits' = freeUnits - 1 /\ UNCHANGED lTime
     \/ lTime >= globalClock /\ freeUnits = 0 /\ lTime' = lTime + 1 /\ freeUnits' = nUnits - 1
  /\ Give(lTime')
  /\ UNCHANGED portBusyUntil

\* lTime is the cycle of the latest slot, freeUnits what that cycle has left.
FullyNPipeNextSlot ==
  /\ Class = "PortFullyNPipe"
  /\ \/ lTime < globalClock /\ lTime' = globalClock /\ freeUnits' = nUnits - 1
     \/ lTime >= globalClock /\ freeUnits > 0 /\ freeUnits' = freeUnits - 1 /\ UNCHANGED lTime
     \/ lTime >= globalClock /\ freeUnits = 0 /\ lTime' = lTime + 1 /\ freeUnits' = nUnits - 1
  /\ Give(lTime')
  /\ UNCHANGED portBusyUntil

PipeNextSlot ==
  /\ Class = "PortPipe"
  /\ Give(Later(lTime, globalClock))
  /\ lTime' = Later(lTime, globalClock) + ocp
  /\ UNCHANGED <<freeUnits, portBusyUntil>>

\* The unit PortNPipe takes: the first that is idle, or else the first of
\* those that are free soonest.
Idle == {i \in 0..nUnits - 1 : portBusyUntil[i] < globalClock}

Soonest == {i \in 0..nUnits - 1 : \A j \in 0..nUnits - 1 : portBusyUntil[i] <= portBusyUntil[j]}

First(S) == CHOOSE i \in S : \A j \in S : i <= j

\* Mutant: without an idle unit the first is taken, although another is free
\* sooner.
BufPortFirst == IF Idle # {} THEN First(Idle) ELSE 0

BufPort == IF Idle # {} THEN First(Idle) ELSE First(Soonest)

NPipeNextSlot ==
  LET t == Later(portBusyUntil[BufPort], globalClock)
  IN  /\ Class = "PortNPipe"
      /\ Give(t)
      /\ portBusyUntil' = [portBusyUntil EXCEPT ![BufPort] = t + ocp]
      /\ UNCHANGED <<lTime, freeUnits>>

NextSlot ==
  /\ Len(slots) < MaxRequests
  /\ \/ UnlimitedNextSlot \/ FullyPipeNextSlot \/ FullyNPipeNextSlot
     \/ PipeNextSlot \/ NPipeNextSlot

\* EventScheduler::advanceClock.
AdvanceClock ==
  /\ globalClock < MaxClock
  /\ globalClock' = globalClock + 1
  /\ UNCHANGED <<nUnits, ocp, lTime, freeUnits, portBusyUntil, slots>>

Next == NextSlot \/ AdvanceClock

Spec == Init /\ [][Next]_vars

-----------------------------------------------------------------------------
(* Type invariant; PortFullyNPipe's unsigned freeUnits never exceeds the   *)
(* units.                                                                  *)
TypeOK ==
  /\ {globalClock, lTime} \subseteq Nat
  /\ nUnits \in Units /\ ocp \in Occs
  /\ freeUnits \in 0..nUnits
  /\ portBusyUntil \in [0..nUnits - 1 -> Nat]
  /\ slots \in Seq(Nat)

R == INSTANCE Reservation

(* No cycle is ever given to more requests than the port has units,        *)
(* whichever class create() chose and however requests and clock ticks     *)
(* fall.                                                                   *)
NeverOverbooked ==
  R!Limited => \A i \in 1..Len(slots) : \A t \in slots[i]..slots[i] + ocp - 1 :
    Cardinality(R!Users(t)) <= nUnits

(* Every class gives each request the earliest slot that fits: the four    *)
(* fast classes answer as PortNPipe would ("everything can be solved with  *)
(* PortNPipe"), and none leaves a free unit unused.                        *)
ImplementsReservation == R!Spec
=============================================================================
