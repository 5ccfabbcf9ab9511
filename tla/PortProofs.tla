----------------------------- MODULE PortProofs -----------------------------
(***************************************************************************)
(* Proofs about Port, for any number of units, any occupancy and any       *)
(* number of requests.                                                     *)
(*                                                                         *)
(* The invariant relates each class's few numbers to the slots it has      *)
(* given.  A single unit is busy in every cycle from now to lTime and in   *)
(* none after it.  PortFullyNPipe has filled every cycle from now to lTime *)
(* and given all but freeUnits of lTime's.  For PortNPipe the requests can *)
(* be dealt to the units so that each unit serves one request at a time,   *)
(* is busy without a gap from now to portBusyUntil and idle after it: then *)
(* a cycle's requests are as many as the units busy in it.                 *)
(***************************************************************************)
EXTENDS Port, FiniteSetTheorems, TLAPS

(* A leaf that names no prover may take SMT, then Zenon, 20 s each. *)
USE SMTT(20), ZenonT(20)

Requests == 1..Len(slots)
UnitIds == 0..nUnits - 1

(* One unit: served without a gap up to lTime, nothing after. *)
PipeInv ==
  nUnits = 1 /\ ocp > 0 =>
    /\ \A i \in Requests : slots[i] + ocp <= lTime
    /\ \A t \in globalClock..lTime - 1 : R!Users(t) # {}

(* Several units, one cycle each. *)
FullyNPipeInv ==
  nUnits > 1 /\ ocp = 1 =>
    /\ \A i \in Requests : slots[i] <= lTime
    /\ Cardinality(R!Users(lTime)) = nUnits - freeUnits
    /\ \A t \in globalClock..lTime - 1 : Cardinality(R!Users(t)) = nUnits

(* A way to deal the requests to the units. *)
Dealt(unit) ==
  /\ unit \in [Requests -> UnitIds]
  /\ \A i \in Requests : slots[i] + ocp <= portBusyUntil[unit[i]]
  /\ \A i, j \in Requests : i # j /\ unit[i] = unit[j] =>
       slots[i] + ocp <= slots[j] \/ slots[j] + ocp <= slots[i]
  /\ \A k \in UnitIds : \A t \in globalClock..portBusyUntil[k] - 1 :
       \E i \in R!Users(t) : unit[i] = k

NPipeInv == nUnits > 1 /\ ocp > 1 => \E unit : Dealt(unit)

(* No cycle has more requests than units. *)
Capacity == R!Limited => \A t \in Nat : Cardinality(R!Users(t)) <= nUnits

IInv == TypeOK /\ PipeInv /\ FullyNPipeInv /\ NPipeInv /\ Capacity

-----------------------------------------------------------------------------
(* A non-empty set of naturals has a least element. *)
LEMMA LeastNat ==
  ASSUME NEW S, S \subseteq Nat, S # {}
  PROVE  \E x \in S : \A y \in S : x <= y
<1> DEFINE Rel == {ss \in Nat \X Nat : ss[1] < ss[2]}
<1>1. IsWellFoundedOn(Rel, Nat)
  BY NatLessThanWellFounded, Zenon DEF OpToRel
<1> HIDE DEF Rel
<1>2. PICK x \in S : \A y \in S : ~(<<y, x>> \in Rel)
  BY <1>1, WFMin, Zenon
<1>3. \A y \in S : ~(y < x)
  BY <1>2, Zenon DEF Rel
<1> QED BY <1>3

(* Reservation's Cardinality is the one of the library. *)
LEMMA SameCardinality == \A S : R!Cardinality(S) = Cardinality(S)
BY DEF R!Cardinality, Cardinality, R!IsFiniteSet, IsFiniteSet

(* The search of PortNPipe finds a unit; with no unit idle it is one that  *)
(* is free soonest.                                                        *)
LEMMA BufPortFound ==
  ASSUME TypeOK, nUnits > 0
  PROVE  /\ BufPort \in UnitIds
         /\ portBusyUntil[BufPort] >= globalClock =>
              \A j \in UnitIds : portBusyUntil[BufPort] <= portBusyUntil[j]
<1> USE PortAssumption
<1>1. nUnits \in Nat /\ globalClock \in Nat /\ portBusyUntil \in [UnitIds -> Nat]
  BY DEF TypeOK, UnitIds
<1>2. UnitIds \subseteq Nat /\ UnitIds # {}
  BY <1>1 DEF UnitIds
<1>3. ASSUME NEW S, S \subseteq UnitIds, S # {} PROVE First(S) \in S
  <2>1. \E x \in S : \A y \in S : x <= y
    BY <1>2, <1>3, LeastNat, Zenon
  <2> QED BY <2>1 DEF First
<1>4. Soonest # {}
  <2> DEFINE T == {portBusyUntil[k] : k \in UnitIds}
  <2>1. T \subseteq Nat /\ T # {}
    BY <1>1, <1>2, Zenon
  <2>2. PICK x \in T : \A y \in T : x <= y
    BY <2>1, LeastNat, Zenon
  <2>3. PICK k \in UnitIds : portBusyUntil[k] = x
    BY <2>2
  <2>4. \A j \in UnitIds : portBusyUntil[k] <= portBusyUntil[j]
    BY <2>2, <2>3
  <2> QED BY <2>3, <2>4 DEF Soonest, UnitIds
<1>5. CASE Idle # {}
  <2>1. BufPort \in Idle
    BY <1>3, <1>5 DEF BufPort, Idle, UnitIds
  <2> QED BY <2>1, <1>1 DEF Idle, UnitIds
<1>6. CASE Idle = {}
  <2>1. BufPort \in Soonest
    BY <1>3, <1>4, <1>6 DEF BufPort, Soonest, UnitIds
  <2> QED BY <2>1 DEF Soonest, UnitIds
<1> QED BY <1>5, <1>6

(* A cycle's requests are finitely many. *)
LEMMA UsersFinite ==
  ASSUME TypeOK, NEW t \in Int
  PROVE  /\ R!Users(t) \subseteq Requests /\ IsFiniteSet(R!Users(t))
         /\ Cardinality(R!Users(t)) \in Nat
<1>1. Len(slots) \in Nat
  BY DEF TypeOK
<1>2. IsFiniteSet(Requests)
  BY <1>1, FS_Interval DEF Requests
<1>3. R!Users(t) \subseteq Requests
  BY DEF R!Users, Requests
<1> QED BY <1>2, <1>3, FS_Subset, FS_CardinalityType

(* What a new slot changes. *)
LEMMA UsersAppend ==
  ASSUME TypeOK, NEW t \in Nat, slots' = Append(slots, t), ocp' = ocp, NEW u \in Int
  PROVE  /\ R!Users(u)' = IF t <= u /\ u < t + ocp
                            THEN R!Users(u) \cup {Len(slots) + 1} ELSE R!Users(u)
         /\ Cardinality(R!Users(u)') = Cardinality(R!Users(u)) + (IF t <= u /\ u < t + ocp THEN 1 ELSE 0)
<1> USE PortAssumption
<1>1. Len(slots) \in Nat /\ ocp \in Nat /\ slots \in Seq(Nat)
  BY DEF TypeOK
<1>2. /\ Len(slots') = Len(slots) + 1 /\ slots'[Len(slots) + 1] = t
      /\ \A i \in 1..Len(slots) : slots'[i] = slots[i]
  BY <1>1
<1>3. R!Users(u)' = {i \in 1..Len(slots') : slots'[i] <= u /\ u < slots'[i] + ocp}
  BY DEF R!Users
<1>4. R!Users(u)' = IF t <= u /\ u < t + ocp
                      THEN R!Users(u) \cup {Len(slots) + 1} ELSE R!Users(u)
  BY <1>1, <1>2, <1>3 DEF R!Users
<1>5. Len(slots) + 1 \notin R!Users(u)
  BY <1>1 DEF R!Users
<1>6. IsFiniteSet(R!Users(u)) /\ Cardinality(R!Users(u)) \in Nat
  BY UsersFinite, Zenon
<1>7. Cardinality(R!Users(u) \cup {Len(slots) + 1}) = Cardinality(R!Users(u)) + 1
  BY <1>5, <1>6, FS_AddElement, Zenon
<1> QED BY <1>4, <1>6, <1>7

(* Reservation's test of a slot. *)
LEMMA FitsMeans ==
  ASSUME NEW t, R!Limited
  PROVE  R!Fits(t) <=> \A u \in t..t + ocp - 1 : Cardinality(R!Users(u)) < nUnits
BY SameCardinality, Zenon DEF R!Fits

(* A cycle in which a unit is idle has fewer requests than units; a cycle  *)
(* in which all are busy has as many.                                      *)
LEMMA DealtCount ==
  ASSUME TypeOK, NEW unit, Dealt(unit), ocp > 0, nUnits > 0, NEW t \in Nat
  PROVE  /\ \A k \in UnitIds : portBusyUntil[k] <= t => Cardinality(R!Users(t)) < nUnits
         /\ t >= globalClock /\ (\A k \in UnitIds : portBusyUntil[k] > t)
              => Cardinality(R!Users(t)) >= nUnits
<1> USE PortAssumption
<1>1. /\ nUnits \in Nat /\ ocp \in Nat /\ globalClock \in Nat /\ slots \in Seq(Nat)
      /\ portBusyUntil \in [UnitIds -> Nat] /\ Len(slots) \in Nat
  BY DEF TypeOK, UnitIds
<1>2. /\ R!Users(t) \subseteq Requests /\ IsFiniteSet(R!Users(t)) /\ Cardinality(R!Users(t)) \in Nat
  BY UsersFinite
<1>3. IsFiniteSet(UnitIds) /\ Cardinality(UnitIds) = nUnits
  BY <1>1, FS_Interval DEF UnitIds
<1>4. /\ unit \in [Requests -> UnitIds]
      /\ \A i \in Requests : slots[i] \in Nat
  BY <1>1 DEF Dealt, Requests
<1> DEFINE f == [i \in R!Users(t) |-> unit[i]]
<1>5. \A i, j \in R!Users(t) : unit[i] = unit[j] => i = j
  <2>1. SUFFICES ASSUME NEW i \in R!Users(t), NEW j \in R!Users(t), unit[i] = unit[j], i # j PROVE FALSE
    OBVIOUS
  <2>2. slots[i] + ocp <= slots[j] \/ slots[j] + ocp <= slots[i]
    BY <2>1, <1>2 DEF Dealt
  <2>3. /\ slots[i] <= t /\ t < slots[i] + ocp /\ slots[j] <= t /\ t < slots[j] + ocp
        /\ slots[i] \in Nat /\ slots[j] \in Nat
    BY <2>1, <1>2, <1>4 DEF R!Users
  <2>4. \A a, b, c, u \in Nat :
          ~ (/\ a + c <= b \/ b + c <= a
             /\ a <= u /\ u < a + c /\ b <= u /\ u < b + c)
    OBVIOUS
  <2>5. slots[i] \in Nat /\ slots[j] \in Nat /\ ocp \in Nat /\ t \in Nat
    BY <2>3, <1>1, Zenon
  <2> QED BY <2>2, <2>3, <2>4, <2>5, Zenon
<1>6. ASSUME NEW k \in UnitIds, portBusyUntil[k] <= t PROVE Cardinality(R!Users(t)) < nUnits
  <2>1. \A i \in R!Users(t) : unit[i] \in UnitIds \ {k}
    <3>1. SUFFICES ASSUME NEW i \in R!Users(t), unit[i] = k PROVE FALSE
      BY <1>2, <1>4
    <3>2. slots[i] + ocp <= portBusyUntil[k]
      BY <3>1, <1>2 DEF Dealt
    <3>3. t < slots[i] + ocp /\ slots[i] \in Nat
      BY <3>1, <1>2, <1>4 DEF R!Users
    <3> QED BY <3>2, <3>3, <1>1, <1>6
  <2>2. f \in Injection(R!Users(t), UnitIds \ {k})
    BY <2>1, <1>5 DEF Injection, IsInjective
  <2>3. /\ IsFiniteSet(UnitIds \ {k}) /\ Cardinality(UnitIds \ {k}) = nUnits - 1
    BY <1>3, <1>6, FS_RemoveElement
  <2>4. Cardinality(R!Users(t)) <= Cardinality(UnitIds \ {k})
    BY <2>2, <2>3, FS_Injection
  <2> QED BY <2>3, <2>4, <1>1, <1>2
<1>7. ASSUME t >= globalClock, \A k \in UnitIds : portBusyUntil[k] > t
      PROVE  Cardinality(R!Users(t)) >= nUnits
  <2>1. \A k \in UnitIds : \E i \in R!Users(t) : f[i] = k
    <3>1. SUFFICES ASSUME NEW k \in UnitIds PROVE \E i \in R!Users(t) : unit[i] = k
      OBVIOUS
    <3>2. t \in globalClock..portBusyUntil[k] - 1
      BY <1>1, <1>7
    <3> QED BY <3>2 DEF Dealt
  <2>2. f \in Surjection(R!Users(t), UnitIds)
    BY <2>1, <1>2, <1>4 DEF Surjection
  <2> QED BY <2>2, <1>2, <1>3, FS_Surjection
<1> QED BY <1>6, <1>7

(* PortFullyPipe and PortPipe: lTime, or now, is the earliest slot. *)
LEMMA PipeEarliest ==
  ASSUME IInv, nUnits = 1, ocp > 0
  PROVE  R!Earliest(Later(lTime, globalClock))
<1> USE PortAssumption
<1>1. /\ ocp \in Nat /\ globalClock \in Nat /\ lTime \in Nat /\ Len(slots) \in Nat /\ TypeOK
      /\ \A i \in Requests : slots[i] \in Nat
  BY DEF IInv, TypeOK, Requests
<1> R!Limited
  BY <1>1 DEF R!Limited
<1> DEFINE t == Later(lTime, globalClock)
<1>2. t \in Nat /\ t >= globalClock /\ t >= lTime /\ (t > globalClock => t = lTime)
  BY <1>1 DEF Later
<1>3. /\ \A i \in Requests : slots[i] + ocp <= lTime
      /\ \A u \in globalClock..lTime - 1 : R!Users(u) # {}
  BY DEF IInv, PipeInv
<1>4. \A u \in Nat : u >= lTime => Cardinality(R!Users(u)) = 0
  <2>1. SUFFICES ASSUME NEW u \in Nat, u >= lTime PROVE R!Users(u) = {}
    BY FS_EmptySet
  <2> QED BY <2>1, <1>1, <1>3 DEF R!Users, Requests
<1>5. R!Fits(t)
  BY <1>1, <1>2, <1>4, FitsMeans
<1>6. ASSUME NEW u \in globalClock..t - 1 PROVE ~R!Fits(u)
  <2>1. u \in globalClock..lTime - 1 /\ u \in Nat
    BY <1>1, <1>2, <1>6
  <2>2. R!Users(u) # {} /\ IsFiniteSet(R!Users(u)) /\ Cardinality(R!Users(u)) \in Nat
    BY <2>1, <1>1, <1>3, UsersFinite
  <2>3. Cardinality(R!Users(u)) # 0
    BY <2>2, FS_EmptySet
  <2>4. u \in u..u + ocp - 1
    BY <2>1, <1>1
  <2> QED BY <2>2, <2>3, <2>4, FitsMeans
<1> QED BY <1>2, <1>5, <1>6 DEF R!Earliest

(* PortFullyNPipe. *)
LEMMA FullyNPipeEarliest ==
  ASSUME IInv, nUnits > 1, ocp = 1, NEW t \in Nat,
         \/ lTime < globalClock /\ t = globalClock
         \/ lTime >= globalClock /\ freeUnits > 0 /\ t = lTime
         \/ lTime >= globalClock /\ freeUnits = 0 /\ t = lTime + 1
  PROVE  R!Earliest(t)
<1> USE PortAssumption
<1>0. /\ globalClock \in Nat /\ lTime \in Nat /\ TypeOK
      /\ nUnits \in Nat /\ freeUnits \in 0..nUnits /\ slots \in Seq(Nat)
  BY DEF IInv, TypeOK
<1>1. /\ globalClock \in Nat /\ lTime \in Nat /\ Len(slots) \in Nat /\ TypeOK
      /\ nUnits \in Nat /\ freeUnits \in 0..nUnits
      /\ \A i \in Requests : slots[i] \in Nat
  BY <1>0 DEF Requests
<1> R!Limited
  BY <1>1 DEF R!Limited
<1>2. /\ \A i \in Requests : slots[i] <= lTime
      /\ Cardinality(R!Users(lTime)) = nUnits - freeUnits
      /\ \A u \in globalClock..lTime - 1 : Cardinality(R!Users(u)) = nUnits
  BY DEF IInv, FullyNPipeInv
<1>3. \A u \in Nat : u > lTime => Cardinality(R!Users(u)) = 0
  <2>1. SUFFICES ASSUME NEW u \in Nat, u > lTime PROVE R!Users(u) = {}
    BY FS_EmptySet
  <2> QED BY <2>1, <1>1, <1>2 DEF R!Users, Requests
<1>4. Cardinality(R!Users(t)) < nUnits
  BY <1>1, <1>2, <1>3
<1>5. R!Fits(t)
  BY <1>4, FitsMeans
<1>6. ASSUME NEW u \in globalClock..t - 1 PROVE ~R!Fits(u)
  <2>1. Cardinality(R!Users(u)) = nUnits
    BY <1>1, <1>2, <1>6
  <2>2. u \in u..u + ocp - 1
    BY <1>1, <1>6
  <2> QED BY <2>1, <2>2, <1>1, FitsMeans
<1> QED BY <1>1, <1>5, <1>6 DEF R!Earliest

(* PortNPipe. *)
LEMMA NPipeEarliest ==
  ASSUME IInv, nUnits > 1, ocp > 1
  PROVE  R!Earliest(Later(portBusyUntil[BufPort], globalClock))
<1> USE PortAssumption
<1>1. /\ ocp \in Nat /\ globalClock \in Nat /\ nUnits \in Nat /\ TypeOK
      /\ portBusyUntil \in [UnitIds -> Nat]
  BY DEF IInv, TypeOK, UnitIds
<1> R!Limited
  BY <1>1 DEF R!Limited
<1>2. /\ BufPort \in UnitIds
      /\ portBusyUntil[BufPort] >= globalClock =>
           \A j \in UnitIds : portBusyUntil[BufPort] <= portBusyUntil[j]
  BY <1>1, BufPortFound
<1>3. PICK unit : Dealt(unit)
  BY DEF IInv, NPipeInv
<1> DEFINE t == Later(portBusyUntil[BufPort], globalClock)
<1>4. /\ t \in Nat /\ t >= globalClock /\ portBusyUntil[BufPort] <= t
      /\ t > globalClock => t = portBusyUntil[BufPort]
  BY <1>1, <1>2 DEF Later
<1> HIDE DEF t
<1>5. R!Fits(t)
  <2>1. SUFFICES ASSUME NEW u \in t..t + ocp - 1 PROVE Cardinality(R!Users(u)) < nUnits
    BY FitsMeans
  <2>2. u \in Nat /\ portBusyUntil[BufPort] <= u
    BY <2>1, <1>1, <1>2, <1>4
  <2> QED BY <2>2, <1>1, <1>2, <1>3, DealtCount
<1>6. ASSUME NEW u \in globalClock..t - 1 PROVE ~R!Fits(u)
  <2>1. /\ u \in Nat /\ u >= globalClock /\ u < t /\ t = portBusyUntil[BufPort]
    BY <1>1, <1>4, <1>6
  <2>2. \A k \in UnitIds : portBusyUntil[k] > u
    BY <2>1, <1>1, <1>2, <1>4
  <2>3. Cardinality(R!Users(u)) >= nUnits
    BY <2>1, <2>2, <1>1, <1>3, DealtCount
  <2>4. u \in u..u + ocp - 1
    BY <2>1, <1>1
  <2>5. Cardinality(R!Users(u)) \in Nat
    BY <2>1, <1>1, UsersFinite
  <2> QED BY <2>3, <2>4, <2>5, <1>1, FitsMeans
<1> QED BY <1>4, <1>5, <1>6 DEF R!Earliest, t

-----------------------------------------------------------------------------
(* The class of a port. *)
LEMMA Classes ==
  ASSUME TypeOK
  PROVE  /\ Class = "PortUnlimited" => ~R!Limited
         /\ Class = "PortFullyPipe" => nUnits = 1 /\ ocp = 1
         /\ Class = "PortFullyNPipe" => nUnits > 1 /\ ocp = 1
         /\ Class = "PortPipe" => nUnits = 1 /\ ocp > 1
         /\ Class = "PortNPipe" => nUnits > 1 /\ ocp > 1
<1>1. nUnits \in Nat /\ ocp \in Nat
  BY PortAssumption DEF TypeOK
<1> QED BY <1>1 DEF Class, R!Limited

(* Whatever the class, nextSlot returns the earliest slot that fits. *)
LEMMA SlotIsEarliest ==
  ASSUME IInv, NextSlot
  PROVE  \E t \in Nat : R!Earliest(t) /\ Give(t)
<1> USE PortAssumption
<1>1. /\ TypeOK /\ globalClock \in Nat /\ lTime \in Nat /\ nUnits \in Nat /\ ocp \in Nat
      /\ portBusyUntil \in [UnitIds -> Nat]
  BY DEF IInv, TypeOK, UnitIds
<1>2. \A s, t \in Nat : Later(s, t) \in Nat
  BY DEF Later
<1>3. CASE UnlimitedNextSlot
  <2>1. ~R!Limited /\ Give(globalClock)
    BY <1>1, <1>3, Classes DEF UnlimitedNextSlot
  <2>2. R!Earliest(globalClock)
    BY <1>1, <2>1 DEF R!Earliest, R!Fits
  <2> QED BY <1>1, <2>1, <2>2
<1>4. CASE FullyPipeNextSlot
  BY <1>1, <1>2, <1>4, Classes, PipeEarliest DEF FullyPipeNextSlot
<1>5. CASE FullyNPipeNextSlot
  <2>1. nUnits > 1 /\ ocp = 1 /\ Give(lTime')
    BY <1>1, <1>5, Classes DEF FullyNPipeNextSlot
  <2>2. /\ lTime' \in Nat
        /\ \/ lTime < globalClock /\ lTime' = globalClock
           \/ lTime >= globalClock /\ freeUnits > 0 /\ lTime' = lTime
           \/ lTime >= globalClock /\ freeUnits = 0 /\ lTime' = lTime + 1
    BY <1>1, <1>5 DEF FullyNPipeNextSlot
  <2>3. \E t \in Nat : R!Earliest(t) /\ t = lTime'
    <3>1. PICK t \in Nat : t = lTime'
      BY <2>2
    <3> QED BY <2>1, <2>2, <3>1, FullyNPipeEarliest
  <2> QED BY <2>1, <2>3
<1>6. CASE PipeNextSlot
  BY <1>1, <1>2, <1>6, Classes, PipeEarliest DEF PipeNextSlot
<1>7. CASE NPipeNextSlot
  <2>1. nUnits > 1 /\ ocp > 1 /\ Give(Later(portBusyUntil[BufPort], globalClock))
    BY <1>1, <1>7, Classes DEF NPipeNextSlot
  <2>2. portBusyUntil[BufPort] \in Nat
    BY <1>1, <2>1, BufPortFound
  <2> QED BY <1>1, <1>2, <2>1, <2>2, NPipeEarliest, Zenon
<1> QED BY <1>3, <1>4, <1>5, <1>6, <1>7 DEF NextSlot

(* A slot that fits overbooks no cycle. *)
LEMMA CapacityKept ==
  ASSUME IInv, NEW t \in Nat, R!Earliest(t), Give(t)
  PROVE  Capacity'
<1>1. /\ TypeOK /\ nUnits \in Nat /\ ocp \in Nat /\ slots' = Append(slots, t)
      /\ nUnits' = nUnits /\ ocp' = ocp
  BY PortAssumption DEF IInv, TypeOK, Give
<1>2. SUFFICES ASSUME R!Limited, NEW u \in Nat PROVE Cardinality(R!Users(u)') <= nUnits
  BY <1>1 DEF Capacity, R!Limited
<1>3. Cardinality(R!Users(u)) <= nUnits /\ Cardinality(R!Users(u)) \in Nat
  <2>1. Cardinality(R!Users(u)) <= nUnits
    BY <1>2 DEF IInv, Capacity
  <2>2. u \in Int
    BY <1>2
  <2> QED BY <1>1, <2>1, <2>2, UsersFinite
<1>4. t <= u /\ u < t + ocp => Cardinality(R!Users(u)) < nUnits
  BY <1>1, <1>2, FitsMeans DEF R!Earliest
<1> QED BY <1>1, <1>2, <1>3, <1>4, UsersAppend

(* nextSlot preserves the types. *)
LEMMA TypeKept ==
  ASSUME IInv, NextSlot
  PROVE  TypeOK'
<1> USE PortAssumption
<1>1. /\ TypeOK /\ globalClock \in Nat /\ lTime \in Nat /\ nUnits \in Nat /\ ocp \in Nat
      /\ freeUnits \in 0..nUnits /\ portBusyUntil \in [0..nUnits - 1 -> Nat] /\ slots \in Seq(Nat)
  BY DEF IInv, TypeOK
<1>2. PICK t \in Nat : Give(t)
  BY SlotIsEarliest
<1>3. slots' \in Seq(Nat) /\ globalClock' = globalClock /\ nUnits' = nUnits /\ ocp' = ocp
  BY <1>1, <1>2 DEF Give
<1>4. lTime' \in Nat /\ freeUnits' \in 0..nUnits
  BY <1>1, Classes DEF NextSlot, UnlimitedNextSlot, FullyPipeNextSlot, FullyNPipeNextSlot,
     PipeNextSlot, NPipeNextSlot, Later
<1>5. portBusyUntil' \in [0..nUnits - 1 -> Nat]
  <2>1. CASE NPipeNextSlot
    <3>1. nUnits > 0 /\ BufPort \in UnitIds
      BY <1>1, <2>1, Classes, BufPortFound DEF NPipeNextSlot
    <3> QED BY <1>1, <2>1, <3>1 DEF NPipeNextSlot, Later, UnitIds
  <2>2. CASE ~NPipeNextSlot
    BY <1>1, <2>2 DEF NextSlot, UnlimitedNextSlot, FullyPipeNextSlot, FullyNPipeNextSlot, PipeNextSlot
  <2> QED BY <2>1, <2>2
<1> QED BY <1>1, <1>3, <1>4, <1>5 DEF TypeOK

(* A single unit stays busy without a gap. *)
LEMMA PipeKept ==
  ASSUME IInv, NextSlot
  PROVE  PipeInv'
<1> USE PortAssumption
<1>1. /\ TypeOK /\ globalClock \in Nat /\ lTime \in Nat /\ nUnits \in Nat /\ ocp \in Nat
      /\ slots \in Seq(Nat) /\ Len(slots) \in Nat
  BY DEF IInv, TypeOK
<1>2. globalClock' = globalClock /\ nUnits' = nUnits /\ ocp' = ocp
  BY SlotIsEarliest DEF Give
<1>3. SUFFICES ASSUME nUnits = 1, ocp > 0
               PROVE  /\ \A i \in 1..Len(slots') : slots'[i] + ocp <= lTime'
                      /\ \A t \in globalClock..lTime' - 1 : R!Users(t)' # {}
  BY <1>2 DEF PipeInv, Requests
<1> DEFINE t == Later(lTime, globalClock)
<1>4. t \in Nat /\ t >= globalClock /\ t >= lTime /\ (t > globalClock => t = lTime)
  BY <1>1 DEF Later
<1>5. slots' = Append(slots, t) /\ lTime' = t + ocp
  <2>1. FullyPipeNextSlot \/ PipeNextSlot
    BY <1>1, <1>3, Classes
    DEF NextSlot, UnlimitedNextSlot, FullyNPipeNextSlot, NPipeNextSlot, R!Limited
  <2> QED BY <1>1, <2>1, Classes DEF FullyPipeNextSlot, PipeNextSlot, Give
<1> HIDE DEF t
<1>6. /\ \A i \in 1..Len(slots) : slots[i] + ocp <= lTime
      /\ \A u \in globalClock..lTime - 1 : R!Users(u) # {}
  BY <1>3 DEF IInv, PipeInv, Requests
<1>7. \A i \in 1..Len(slots') : slots'[i] + ocp <= lTime'
  BY <1>1, <1>4, <1>5, <1>6
<1>8. ASSUME NEW u \in globalClock..lTime' - 1 PROVE R!Users(u)' # {}
  <2>1. u \in Int /\ (u < t => u \in globalClock..lTime - 1) /\ u < t + ocp
    BY <1>1, <1>4, <1>5, <1>8
  <2>2. R!Users(u)' = IF t <= u /\ u < t + ocp
                        THEN R!Users(u) \cup {Len(slots) + 1} ELSE R!Users(u)
    BY <1>1, <1>2, <1>4, <1>5, <2>1, UsersAppend
  <2>3. CASE u < t
    <3>1. R!Users(u) # {}
      BY <1>6, <2>1, <2>3
    <3> QED BY <2>2, <3>1
  <2>4. CASE ~(u < t)
    BY <1>4, <2>1, <2>2, <2>4
  <2> QED BY <2>3, <2>4
<1> QED BY <1>7, <1>8

(* PortFullyNPipe's counter stays exact. *)
LEMMA FullyNPipeKept ==
  ASSUME IInv, NextSlot
  PROVE  FullyNPipeInv'
<1> USE PortAssumption
<1>1. /\ TypeOK /\ globalClock \in Nat /\ lTime \in Nat /\ nUnits \in Nat /\ ocp \in Nat
      /\ freeUnits \in 0..nUnits /\ slots \in Seq(Nat) /\ Len(slots) \in Nat
  BY DEF IInv, TypeOK
<1>2. globalClock' = globalClock /\ nUnits' = nUnits /\ ocp' = ocp
  BY SlotIsEarliest DEF Give
<1>3. SUFFICES ASSUME nUnits > 1, ocp = 1
               PROVE  /\ \A i \in 1..Len(slots') : slots'[i] <= lTime'
                      /\ \A t \in Nat : t = lTime' => Cardinality(R!Users(t)') = nUnits - freeUnits'
                      /\ \A t \in globalClock..lTime' - 1 : Cardinality(R!Users(t)') = nUnits
  <2>1. lTime' \in Nat
    BY TypeKept DEF TypeOK
  <2>2. \A t \in Nat : t = lTime' => R!Users(t)' = R!Users(lTime)'
    BY DEF R!Users
  <2> QED BY <1>2, <1>3, <2>1, <2>2, Zenon DEF FullyNPipeInv, Requests
<1>4. FullyNPipeNextSlot
  BY <1>1, <1>3, Classes
  DEF NextSlot, UnlimitedNextSlot, FullyPipeNextSlot, PipeNextSlot, NPipeNextSlot, R!Limited
<1>5. PICK s \in Nat : s = lTime' /\ slots' = Append(slots, s)
  BY <1>1, <1>4 DEF FullyNPipeNextSlot, Give
<1>6. /\ \/ lTime < globalClock /\ s = globalClock /\ freeUnits' = nUnits - 1
         \/ lTime >= globalClock /\ freeUnits > 0 /\ freeUnits' = freeUnits - 1 /\ s = lTime
         \/ lTime >= globalClock /\ freeUnits = 0 /\ s = lTime + 1 /\ freeUnits' = nUnits - 1
  BY <1>4, <1>5 DEF FullyNPipeNextSlot
<1>7. /\ \A i \in 1..Len(slots) : slots[i] <= lTime /\ slots[i] \in Nat
      /\ Cardinality(R!Users(lTime)) = nUnits - freeUnits
      /\ \A u \in globalClock..lTime - 1 : Cardinality(R!Users(u)) = nUnits
  BY <1>1, <1>3 DEF IInv, FullyNPipeInv, Requests
<1>8. \A i \in 1..Len(slots') : slots'[i] <= lTime'
  BY <1>1, <1>5, <1>6, <1>7
<1>9. \A u \in Nat : u > lTime => Cardinality(R!Users(u)) = 0
  <2>1. SUFFICES ASSUME NEW u \in Nat, u > lTime PROVE R!Users(u) = {}
    BY FS_EmptySet
  <2> QED BY <2>1, <1>1, <1>3, <1>7 DEF R!Users
<1>10. \A u \in Nat : Cardinality(R!Users(u)') = Cardinality(R!Users(u)) + (IF u = s THEN 1 ELSE 0)
  <2>1. SUFFICES ASSUME NEW u \in Nat
                 PROVE  Cardinality(R!Users(u)') = Cardinality(R!Users(u)) + (IF u = s THEN 1 ELSE 0)
    OBVIOUS
  <2>2. /\ u \in Int
        /\ s <= u /\ u < s + ocp => u = s
        /\ u = s => s <= u /\ u < s + ocp
    <3>1. u \in Nat /\ s \in Nat /\ ocp = 1
      BY <1>3, <1>5, <2>1
    <3> QED BY <3>1
  <2> QED BY <1>1, <1>2, <1>5, <2>2, UsersAppend, Zenon
<1>11. Cardinality(R!Users(s)') = nUnits - freeUnits'
  BY <1>1, <1>6, <1>7, <1>9, <1>10
<1>12. ASSUME NEW u \in globalClock..s - 1 PROVE Cardinality(R!Users(u)') = nUnits
  <2>1. u \in Nat /\ u # s
    BY <1>1, <1>12
  <2>2. Cardinality(R!Users(u)) = nUnits
    <3>1. u \in globalClock..lTime - 1 \/ (u = lTime /\ freeUnits = 0)
      BY <1>1, <1>6, <1>12
    <3>2. CASE u = lTime /\ freeUnits = 0
      <4>1. nUnits - freeUnits = nUnits
        BY <1>1, <3>2
      <4>2. Cardinality(R!Users(lTime)) = nUnits - freeUnits
        BY <1>7
      <4> QED BY <3>2, <4>1, <4>2
    <3> QED BY <1>7, <3>1, <3>2
  <2> QED BY <1>1, <1>10, <2>1, <2>2
<1> QED BY <1>5, <1>8, <1>11, <1>12, Zenon

(* PortNPipe's requests stay dealt: the new one goes to BufPort. *)
LEMMA NPipeKept ==
  ASSUME IInv, NextSlot
  PROVE  NPipeInv'
<1> USE PortAssumption
<1>1. /\ TypeOK /\ globalClock \in Nat /\ nUnits \in Nat /\ ocp \in Nat
      /\ slots \in Seq(Nat) /\ Len(slots) \in Nat /\ portBusyUntil \in [UnitIds -> Nat]
  BY DEF IInv, TypeOK, UnitIds
<1>2. globalClock' = globalClock /\ nUnits' = nUnits /\ ocp' = ocp
  BY SlotIsEarliest DEF Give
<1>3. SUFFICES ASSUME nUnits > 1, ocp > 1 PROVE \E unit : Dealt(unit)'
  BY <1>2 DEF NPipeInv
<1>4. NPipeNextSlot
  BY <1>1, <1>3, Classes
  DEF NextSlot, UnlimitedNextSlot, FullyPipeNextSlot, PipeNextSlot, FullyNPipeNextSlot, R!Limited
<1>5. BufPort \in UnitIds
  BY <1>1, <1>3, BufPortFound
<1>6. PICK b \in UnitIds : b = BufPort
  BY <1>5
<1>7. PICK t \in Nat : t = Later(portBusyUntil[b], globalClock)
  BY <1>1, <1>6 DEF Later
<1>8. /\ slots' = Append(slots, t)
      /\ portBusyUntil' = [portBusyUntil EXCEPT ![b] = t + ocp]
  BY <1>4, <1>6, <1>7 DEF NPipeNextSlot, Give
<1>9. portBusyUntil[b] <= t /\ t >= globalClock /\ (t > globalClock => t = portBusyUntil[b])
  BY <1>1, <1>6, <1>7 DEF Later
<1>10. PICK unit : Dealt(unit)
  BY <1>3 DEF IInv, NPipeInv
<1> DEFINE n == Len(slots) + 1
<1>11. /\ Len(slots') = n /\ slots'[n] = t /\ UnitIds' = UnitIds /\ Requests' = 1..n
       /\ \A i \in 1..Len(slots) : slots'[i] = slots[i] /\ slots[i] \in Nat
  BY <1>1, <1>2, <1>8 DEF Requests, UnitIds
<1>12. /\ unit \in [1..Len(slots) -> UnitIds]
       /\ \A i \in 1..Len(slots) : slots[i] + ocp <= portBusyUntil[unit[i]]
       /\ \A i, j \in 1..Len(slots) : i # j /\ unit[i] = unit[j] =>
            slots[i] + ocp <= slots[j] \/ slots[j] + ocp <= slots[i]
       /\ \A k \in UnitIds : \A u \in globalClock..portBusyUntil[k] - 1 :
            \E i \in R!Users(u) : unit[i] = k
  BY <1>10 DEF Dealt, Requests
<1>13. PICK next : /\ next \in [1..n -> UnitIds] /\ next[n] = b
                   /\ \A i \in 1..Len(slots) : next[i] = unit[i]
  <2> DEFINE next == [i \in 1..n |-> IF i = n THEN b ELSE unit[i]]
  <2>1. /\ next \in [1..n -> UnitIds] /\ next[n] = b
        /\ \A i \in 1..Len(slots) : next[i] = unit[i]
    BY <1>1, <1>6, <1>12
  <2> QED BY <2>1
<1>14. \A i \in 1..n : i = n \/ i \in 1..Len(slots)
  BY <1>1
<1> HIDE DEF n
<1>15. \A i \in 1..n : slots'[i] + ocp <= portBusyUntil'[next[i]]
  <2>1. SUFFICES ASSUME NEW i \in 1..Len(slots) PROVE slots[i] + ocp <= portBusyUntil'[unit[i]]
    <3>1. portBusyUntil'[b] = t + ocp
      BY <1>1, <1>8
    <3>2. slots'[n] + ocp <= portBusyUntil'[next[n]]
      BY <1>1, <1>11, <1>13, <3>1
    <3> QED BY <1>11, <1>13, <1>14, <3>2
  <2>2. unit[i] \in UnitIds /\ slots[i] + ocp <= portBusyUntil[unit[i]] /\ slots[i] \in Nat
    BY <1>11, <1>12
  <2> QED BY <1>1, <1>8, <1>9, <2>2
<1>16. \A i, j \in 1..n : i # j /\ next[i] = next[j] =>
         slots'[i] + ocp <= slots'[j] \/ slots'[j] + ocp <= slots'[i]
  <2>1. ASSUME NEW i \in 1..Len(slots), unit[i] = b PROVE slots[i] + ocp <= t
    BY <1>1, <1>9, <1>11, <1>12, <2>1
  <2>2. SUFFICES ASSUME NEW i \in 1..n, NEW j \in 1..n, i # j, next[i] = next[j]
                 PROVE  slots'[i] + ocp <= slots'[j] \/ slots'[j] + ocp <= slots'[i]
    OBVIOUS
  <2>3. CASE i = n
    BY <1>11, <1>13, <1>14, <2>1, <2>2, <2>3
  <2>4. CASE j = n
    BY <1>11, <1>13, <1>14, <2>1, <2>2, <2>4
  <2>5. CASE i # n /\ j # n
    BY <1>11, <1>12, <1>13, <1>14, <2>2, <2>5
  <2> QED BY <2>3, <2>4, <2>5
<1>17. ASSUME NEW k \in UnitIds, NEW u \in globalClock..portBusyUntil'[k] - 1
       PROVE  \E i \in R!Users(u)' : next[i] = k
  <2>1. u \in Int /\ portBusyUntil'[k] = (IF k = b THEN t + ocp ELSE portBusyUntil[k])
    BY <1>1, <1>8, <1>17
  <2>2. R!Users(u)' = IF t <= u /\ u < t + ocp
                        THEN R!Users(u) \cup {Len(slots) + 1} ELSE R!Users(u)
    BY <1>1, <1>2, <1>8, <2>1, UsersAppend
  <2>3. CASE k = b /\ t <= u
    <3>1. u < t + ocp
      BY <1>1, <1>17, <2>1, <2>3
    <3>2. n \in R!Users(u)'
      BY <2>2, <2>3, <3>1 DEF n
    <3> QED BY <3>2, <1>13, <2>3
  <2>4. CASE ~(k = b /\ t <= u)
    <3>1. u \in globalClock..portBusyUntil[k] - 1
      BY <1>1, <1>9, <1>17, <2>1, <2>4
    <3>2. PICK i \in R!Users(u) : unit[i] = k
      BY <1>12, <3>1
    <3>3. i \in 1..Len(slots) /\ i \in R!Users(u)'
      BY <2>2, <3>2 DEF R!Users
    <3> QED BY <3>2, <3>3, <1>13
  <2> QED BY <2>3, <2>4
<1>18. Dealt(next)'
  BY <1>2, <1>11, <1>13, <1>15, <1>16, <1>17 DEF Dealt
<1> QED BY <1>18

-----------------------------------------------------------------------------
(* The invariant is inductive: what each class keeps of its past agrees    *)
(* with the slots it has given.                                            *)
THEOREM PortInvariant == Spec => []IInv
<1> USE PortAssumption
<1>1. Init => IInv
  <2>1. SUFFICES ASSUME Init PROVE IInv
    OBVIOUS
  <2>2. /\ globalClock = 0 /\ nUnits \in Nat /\ ocp \in Nat /\ lTime = 0 /\ freeUnits = nUnits
        /\ portBusyUntil = [i \in UnitIds |-> 0] /\ slots = <<>> /\ Len(slots) = 0
    BY <2>1 DEF Init, UnitIds
  <2>3. TypeOK
    BY <2>1, <2>2 DEF Init, TypeOK
  <2>4. \A t \in Int : R!Users(t) = {} /\ Cardinality(R!Users(t)) = 0
    BY <2>2, FS_EmptySet DEF R!Users
  <2>5. Requests = {}
    BY <2>2 DEF Requests
  <2>6. PipeInv
    BY <2>2, <2>5 DEF PipeInv
  <2>7. FullyNPipeInv
    BY <2>2, <2>4, <2>5 DEF FullyNPipeInv
  <2>8. Dealt([i \in Requests |-> 0])
    BY <2>2, <2>5 DEF Dealt, UnitIds
  <2>9. Capacity
    BY <2>2, <2>4 DEF Capacity
  <2> QED BY <2>3, <2>6, <2>7, <2>8, <2>9 DEF IInv, NPipeInv
<1>2. IInv /\ [Next]_vars => IInv'
  <2>1. SUFFICES ASSUME IInv, [Next]_vars PROVE IInv'
    OBVIOUS
  <2>2. CASE NextSlot
    <3>1. PICK t \in Nat : R!Earliest(t) /\ Give(t)
      BY <2>1, <2>2, SlotIsEarliest
    <3> QED BY <2>1, <2>2, <3>1, TypeKept, PipeKept, FullyNPipeKept, NPipeKept, CapacityKept DEF IInv
  <2>3. CASE AdvanceClock \/ UNCHANGED vars
    <3>1. /\ globalClock \in Nat /\ globalClock' \in Nat /\ globalClock' >= globalClock
          /\ lTime \in Nat /\ portBusyUntil \in [UnitIds -> Nat] /\ TypeOK /\ nUnits \in Nat
      BY <2>1, <2>3 DEF IInv, TypeOK, AdvanceClock, vars, UnitIds
    <3>2. /\ nUnits' = nUnits /\ ocp' = ocp /\ lTime' = lTime /\ freeUnits' = freeUnits
          /\ portBusyUntil' = portBusyUntil /\ slots' = slots
      BY <2>3 DEF AdvanceClock, vars
    <3>3. /\ \A t : R!Users(t)' = R!Users(t)
          /\ R!Users(lTime)' = R!Users(lTime)
          /\ Requests' = Requests /\ UnitIds' = UnitIds /\ R!Limited' = R!Limited
      BY <3>2 DEF R!Users, Requests, UnitIds, R!Limited
    <3>4. TypeOK'
      BY <3>1, <3>2 DEF TypeOK
    <3>5. PipeInv'
      <4>1. \A t \in globalClock'..lTime - 1 : t \in globalClock..lTime - 1
        BY <3>1
      <4> QED BY <2>1, <3>2, <3>3, <4>1 DEF IInv, PipeInv
    <3>6. FullyNPipeInv'
      <4>1. \A t \in globalClock'..lTime - 1 : t \in globalClock..lTime - 1
        BY <3>1
      <4> QED BY <2>1, <3>2, <3>3, <4>1 DEF IInv, FullyNPipeInv
    <3>7. NPipeInv'
      <4>1. SUFFICES ASSUME NEW unit, Dealt(unit) PROVE Dealt(unit)'
        BY <2>1, <3>2 DEF IInv, NPipeInv
      <4>2. \A k \in UnitIds : \A t \in globalClock'..portBusyUntil[k] - 1 :
              t \in globalClock..portBusyUntil[k] - 1
        BY <3>1
      <4> QED BY <3>2, <3>3, <4>1, <4>2 DEF Dealt
    <3>8. Capacity'
      BY <2>1, <3>2, <3>3 DEF IInv, Capacity
    <3> QED BY <3>4, <3>5, <3>6, <3>7, <3>8 DEF IInv
  <2> QED BY <2>1, <2>2, <2>3 DEF Next
<1> QED BY <1>1, <1>2, PTL DEF Spec

(* Types. *)
THEOREM TypeCorrect == Spec => []TypeOK
BY PortInvariant, PTL DEF IInv

(* No port, of whatever class, units and occupancy, ever serves more       *)
(* requests in a cycle than it has units.                                  *)
THEOREM Unoverbooked == Spec => []NeverOverbooked
<1>1. IInv => NeverOverbooked
  <2>1. SUFFICES ASSUME IInv, R!Limited, NEW i \in 1..Len(slots), NEW t \in slots[i]..slots[i] + ocp - 1
                 PROVE  Cardinality(R!Users(t)) <= nUnits
    BY DEF NeverOverbooked
  <2>2. slots[i] \in Nat /\ ocp \in Nat
    <3>1. slots \in Seq(Nat) /\ ocp \in Nat
      BY <2>1, PortAssumption DEF IInv, TypeOK
    <3>2. \A j \in 1..Len(slots) : slots[j] \in Nat
      BY <3>1
    <3> QED BY <2>1, <3>1, <3>2
  <2>3. t \in Nat
    BY <2>1, <2>2
  <2> QED BY <2>1, <2>3 DEF IInv, Capacity
<1> QED BY <1>1, PortInvariant, PTL

(* Every class implements Reservation, for any units and occupancy: what   *)
(* nextSlot() returns is the earliest slot that fits, so the fast classes  *)
(* and PortNPipe answer the same requests alike.                           *)
THEOREM PortImplementsReservation == Spec => ImplementsReservation
<1> USE PortAssumption
<1>1. Init => R!Init
  BY DEF Init, R!Init
<1>2. IInv /\ [Next]_vars => [R!Next]_<<globalClock, nUnits, ocp, slots>>
  <2>1. SUFFICES ASSUME IInv, [Next]_vars PROVE [R!Next]_<<globalClock, nUnits, ocp, slots>>
    OBVIOUS
  <2>2. CASE NextSlot
    <3>1. PICK t \in Nat : R!Earliest(t) /\ Give(t)
      BY <2>1, <2>2, SlotIsEarliest
    <3>2. slots \in Seq(Nat)
      BY <2>1 DEF IInv, TypeOK
    <3>3. /\ slots' = Append(slots, t) /\ Len(slots') = Len(slots) + 1 /\ slots'[Len(slots) + 1] = t
          /\ UNCHANGED <<globalClock, nUnits, ocp>>
      BY <3>1, <3>2 DEF Give
    <3>4. R!Reserve
      BY <3>1, <3>3 DEF R!Reserve
    <3> QED BY <3>4 DEF R!Next
  <2>3. CASE AdvanceClock
    BY <2>3 DEF AdvanceClock, R!Next, R!Tick
  <2>4. CASE UNCHANGED vars
    BY <2>4 DEF vars
  <2> QED BY <2>1, <2>2, <2>3, <2>4 DEF Next
<1> QED BY <1>1, <1>2, PortInvariant, PTL DEF Spec, ImplementsReservation, R!Spec
=============================================================================
