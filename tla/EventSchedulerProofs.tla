------------------------ MODULE EventSchedulerProofs ------------------------
(***************************************************************************)
(* The event queue implements the calendar, for every ring size, set of    *)
(* callbacks and scheduling distance.                                      *)
(*                                                                         *)
(* The argument: the ring never lags the clock by more than one cycle      *)
(* (RingFollowsClock), so an event that comes due is within the ring's     *)
(* reach and its slot tells its cycle (RingInOrder); what the fast paths   *)
(* skip in the heap is not due yet (NoneOverdue).                          *)
(***************************************************************************)
EXTENDS EventScheduler, FiniteSetTheorems, TLAPS

IInv == TypeOK /\ RingInOrder /\ NoneOverdue /\ RingFollowsClock

(* The mask, without the remainder: the slot k after p. *)
LEMMA Wraps ==
  ASSUME NEW p \in Slots, NEW k \in Slots
  PROVE  /\ (p + k) % AccessSize = IF p + k < AccessSize THEN p + k ELSE p + k - AccessSize
         /\ (p + k) % AccessSize \in Slots
<1> USE SizeAssumption DEF Slots
<1>1. CASE p + k < AccessSize
  BY <1>1
<1>2. CASE p + k >= AccessSize
  BY <1>2
<1> QED BY <1>1, <1>2

(* The slot of a cycle the ring holds. *)
LEMMA PosWraps ==
  ASSUME TypeOK, NEW t \in Nat, minTime <= t, Fits(t)
  PROVE  /\ Pos(t) = IF minPos + (t - minTime) < AccessSize THEN minPos + (t - minTime)
                     ELSE minPos + (t - minTime) - AccessSize
         /\ Pos(t) \in Slots
<1>1. minPos \in Slots /\ minTime \in Nat /\ t - minTime \in Slots
  BY SizeAssumption DEF TypeOK, Slots, Fits
<1>2. minPos + t - minTime = minPos + (t - minTime)
  BY <1>1 DEF Slots
<1> QED BY <1>1, <1>2, Wraps DEF Pos

(* Two cycles the ring holds share a slot only if they are the same. *)
LEMMA PosInjective ==
  ASSUME TypeOK, NEW t \in Nat, NEW u \in Nat, minTime <= t, Fits(t), minTime <= u, Fits(u),
         Pos(t) = Pos(u)
  PROVE  t = u
<1>1. minPos \in Slots /\ minTime \in Nat
  BY DEF TypeOK
<1> QED BY <1>1, PosWraps, SizeAssumption DEF Fits, Slots

LEMMA InitInv == Init => IInv
<1> SUFFICES ASSUME Init PROVE IInv
  OBVIOUS
<1>1. TypeOK
  BY SizeAssumption, TimeAssumption DEF Init, TypeOK, Slots
<1>2. Fast = {}
  BY DEF Init, Fast
<1>3. RingInOrder
  BY <1>2, FS_EmptySet DEF Init, RingInOrder
<1> QED
  BY <1>1, <1>3, TimeAssumption DEF Init, IInv, NoneOverdue, RingFollowsClock

(* addNode keeps the ring in order. *)
LEMMA AddNodeInv ==
  ASSUME IInv, NEW e \in Events, NEW t \in Nat, minTime <= t, Fits(t), e \notin Fast,
         AddNode(e, t), time' = [time EXCEPT ![e] = t], UNCHANGED <<minTime, minPos>>
  PROVE  RingInOrder' /\ access' \in [Slots -> Seq(Events)] /\ nNodes' \in Nat
<1> DEFINE q == Pos(t)
<1>0. TypeOK /\ q \in Slots /\ access[q] \in Seq(Events)
  BY PosWraps DEF IInv, TypeOK
<1>1. /\ access' = [access EXCEPT ![q] = Append(access[q], e)]
      /\ qType' = [qType EXCEPT ![e] = "fast"] /\ nNodes' = nNodes + 1
  BY DEF AddNode
<1>2. access' \in [Slots -> Seq(Events)] /\ nNodes' \in Nat
  BY <1>0, <1>1 DEF TypeOK
<1>3. \A u : Fits(u)' = Fits(u) /\ Pos(u)' = Pos(u)
  BY DEF Fits, Pos
<1>4. ASSUME NEW p \in Slots, NEW i \in 1..Len(access'[p])
      PROVE  InSlot(p, i)'
  <2>1. CASE p = q /\ i = Len(access[q]) + 1
    <3>1. access'[p][i] = e /\ Len(access'[p]) = Len(access[q]) + 1
      BY <1>0, <1>1, <2>1 DEF TypeOK
    <3>2. time'[e] = t /\ qType'[e] = "fast"
      BY <1>0, <1>1 DEF TypeOK
    <3>3. ASSUME NEW j \in 1..Len(access'[p]), access'[p][j] = e
          PROVE  i = j
      <4>1. j \in 1..Len(access[q]) => access[q][j] = e
        BY <1>0, <1>1, <2>1, <3>3 DEF TypeOK
      <4>2. j \in 1..Len(access[q]) => e \in Fast
        BY <1>0, <4>1 DEF IInv, RingInOrder, InSlot, Fast
      <4> QED BY <1>0, <2>1, <3>1, <4>2
    <3> QED BY <1>3, <2>1, <3>1, <3>2, <3>3 DEF InSlot
  <2>2. CASE ~(p = q /\ i = Len(access[q]) + 1)
    <3>1. /\ i \in 1..Len(access[p]) /\ access'[p][i] = access[p][i]
          /\ access[p][i] \in Events
      BY <1>0, <1>1, <2>2 DEF TypeOK
    <3>2. InSlot(p, i)
      BY <3>1 DEF IInv, RingInOrder
    <3>3. access[p][i] # e
      BY <3>1, <3>2 DEF InSlot, Fast
    <3>4. /\ time'[access[p][i]] = time[access[p][i]]
          /\ qType'[access[p][i]] = "fast"
      BY <1>0, <1>1, <3>1, <3>2, <3>3 DEF TypeOK, InSlot
    <3>5. ASSUME NEW j \in 1..Len(access'[p]), access'[p][j] = access[p][i]
          PROVE  i = j
      <4>1. j \in 1..Len(access[p]) /\ access[p][j] = access[p][i]
        BY <1>0, <1>1, <3>3, <3>5 DEF TypeOK
      <4> QED BY <3>2, <4>1 DEF InSlot
    <3> QED BY <1>3, <3>1, <3>2, <3>4, <3>5 DEF InSlot
  <2> QED BY <2>1, <2>2
<1>5. ASSUME NEW f \in Fast'
      PROVE  Linked(f)'
  <2>1. CASE f = e
    <3>1. /\ time'[e] = t /\ Len(access[q]) + 1 \in 1..Len(access'[q])
          /\ access'[q][Len(access[q]) + 1] = e
      BY <1>0, <1>1 DEF TypeOK
    <3> QED BY <1>3, <2>1, <3>1 DEF Linked
  <2>2. CASE f # e
    <3>1. f \in Fast /\ time'[f] = time[f] /\ f \in Events
      BY <1>0, <1>1, <2>2 DEF TypeOK, Fast
    <3>2. PICK i \in 1..Len(access[Pos(time[f])]) : access[Pos(time[f])][i] = f
      BY <3>1 DEF IInv, RingInOrder, Linked
    <3>3. i \in 1..Len(access'[Pos(time[f])]) /\ access'[Pos(time[f])][i] = f
      BY <1>0, <1>1, <3>2 DEF TypeOK
    <3> QED BY <1>3, <3>1, <3>3 DEF Linked
  <2> QED BY <2>1, <2>2
<1>6. nNodes' = Cardinality(Fast')
  <2>1. Fast' = Fast \cup {e}
    BY <1>0, <1>1 DEF TypeOK, Fast
  <2>2. IsFiniteSet(Fast)
    BY EventsAssumption, FS_Subset DEF Fast
  <2>3. Cardinality(Fast \cup {e}) = Cardinality(Fast) + 1
    BY <2>2, FS_AddElement
  <2> QED BY <1>1, <2>1, <2>3 DEF IInv, RingInOrder
<1> QED BY <1>2, <1>4, <1>5, <1>6 DEF RingInOrder

(* An event of the ring is in the slot of its cycle. *)
LEMMA FastFacts ==
  ASSUME IInv, NEW e \in Fast
  PROVE  /\ e \in Events /\ time[e] \in Nat /\ minTime <= time[e] /\ Fits(time[e])
         /\ Pos(time[e]) \in Slots /\ access[Pos(time[e])] # <<>>
<1>1. e \in Events /\ time[e] \in Nat /\ minTime \in Nat /\ minPos \in Nat
  BY DEF Fast, IInv, TypeOK, Slots
<1>2. Pos(time[e]) \in Slots
  BY <1>1, SizeAssumption DEF Pos, Slots
<1>3. PICK i \in 1..Len(access[Pos(time[e])]) : access[Pos(time[e])][i] = e
  BY DEF IInv, RingInOrder, Linked
<1>4. InSlot(Pos(time[e]), i)
  BY <1>2, <1>3 DEF IInv, RingInOrder
<1>5. access[Pos(time[e])] # <<>>
  BY <1>3
<1> QED BY <1>1, <1>2, <1>3, <1>4, <1>5 DEF InSlot

(* Moving the front of the ring leaves the slots of the later cycles. *)
LEMMA MovePos ==
  ASSUME TypeOK, NEW k \in 0..1, minTime' = minTime + k, minPos' = SlotAfter(k),
         NEW t \in Nat, minTime + k <= t, Fits(t)
  PROVE  Pos(t)' = Pos(t) /\ Fits(t)'
<1>1. minPos \in Slots /\ minTime \in Nat /\ k \in Slots /\ t - minTime \in Slots
  BY SizeAssumption DEF TypeOK, Slots, Fits
<1>2. /\ minPos' = IF minPos + k < AccessSize THEN minPos + k ELSE minPos + k - AccessSize
      /\ minPos' \in Slots
  BY <1>1, Wraps DEF SlotAfter
<1>3. /\ t - minTime' \in Slots /\ Fits(t)'
      /\ minPos' + t - minTime' = minPos' + (t - minTime')
  BY <1>1, <1>2, SizeAssumption DEF Slots, Fits
<1>4. Pos(t)' = IF minPos' + (t - minTime') < AccessSize THEN minPos' + (t - minTime')
                ELSE minPos' + (t - minTime') - AccessSize
  BY <1>2, <1>3, Wraps DEF Pos
<1>5. Pos(t) = IF minPos + (t - minTime) < AccessSize THEN minPos + (t - minTime)
               ELSE minPos + (t - minTime) - AccessSize
  BY <1>1, PosWraps DEF Slots
<1>6. Pos(t)' = Pos(t)
  BY <1>1, <1>2, <1>3, <1>4, <1>5, SizeAssumption DEF Slots
<1> QED BY <1>3, <1>6

(* No event of the ring is before the slot the scan has reached. *)
LEMMA NotBefore ==
  ASSUME IInv, NEW k \in 0..1, \A j \in 0..k - 1 : access[SlotAfter(j)] = <<>>,
         NEW e \in Fast
  PROVE  minTime + k <= time[e]
<1>1. minTime <= time[e] /\ time[e] \in Nat /\ access[Pos(time[e])] # <<>>
  BY FastFacts
<1>2. minTime \in Nat /\ minPos \in Slots
  BY DEF IInv, TypeOK
<1>3. ASSUME k = 1, time[e] = minTime
      PROVE  FALSE
  <2>1. Pos(time[e]) = SlotAfter(0)
    BY <1>2, <1>3, SizeAssumption DEF Pos, SlotAfter, Slots
  <2> QED BY <1>1, <1>3, <2>1
<1> QED BY <1>1, <1>2, <1>3

(* The job nextJob finds is due now, and unlinking it keeps the queue in   *)
(* order.                                                                  *)
LEMMA PopInv ==
  ASSUME IInv, NEW k \in 0..globalClock - minTime,
         \A j \in 0..k - 1 : access[SlotAfter(j)] = <<>>,
         access[SlotAfter(k)] # <<>>,
         minTime' = minTime + k, minPos' = SlotAfter(k), PopHead(SlotAfter(k))
  PROVE  /\ IInv'
         /\ \E e \in Fast : time[e] = globalClock /\ qType' = [qType EXCEPT ![e] = "no"]
<1> DEFINE q == SlotAfter(k)
           h == Head(access[q])
<1>0. TypeOK /\ k \in 0..1 /\ minTime \in Nat /\ minPos \in Slots /\ globalClock \in Nat
  BY DEF IInv, TypeOK, RingFollowsClock
<1>1. q \in Slots /\ k \in Slots
  <2>1. k \in Slots
    BY <1>0, SizeAssumption DEF Slots
  <2> QED BY <1>0, <2>1, Wraps DEF SlotAfter
<1>2. /\ access[q] \in Seq(Events) /\ Len(access[q]) >= 1 /\ h = access[q][1] /\ h \in Events
      /\ 1 \in 1..Len(access[q])
  <2>1. access[q] \in Seq(Events) /\ access[q] # <<>>
    BY <1>0, <1>1 DEF TypeOK
  <2> QED BY <2>1
<1>3. InSlot(q, 1)
  BY <1>1, <1>2 DEF IInv, RingInOrder
<1>4. h \in Fast /\ time[h] \in Nat /\ minTime <= time[h] /\ Fits(time[h]) /\ q = Pos(time[h])
  BY <1>0, <1>2, <1>3 DEF InSlot, Fast, TypeOK
<1>5. time[h] = globalClock
  <2>1. minTime + k \in Nat /\ minTime <= minTime + k /\ Fits(minTime + k)
    BY <1>0, SizeAssumption DEF Fits
  <2>2. Pos(minTime + k) = q
    BY <1>0 DEF Pos, SlotAfter, Slots
  <2>3. time[h] = minTime + k
    BY <1>0, <1>4, <2>1, <2>2, PosInjective
  <2>4. globalClock <= time[h]
    BY <1>4 DEF IInv, NoneOverdue, Fast
  <2> QED BY <1>0, <2>3, <2>4
<1>6. /\ access' = [access EXCEPT ![q] = Tail(access[q])]
      /\ qType' = [qType EXCEPT ![h] = "no"] /\ nNodes' = nNodes - 1 /\ phase' = "idle"
      /\ UNCHANGED <<globalClock, time, tooFar, minTooFar>>
  BY DEF PopHead
<1>7. Fast' = Fast \ {h} /\ IsFiniteSet(Fast) /\ nNodes' = Cardinality(Fast') /\ nNodes' \in Nat
  <2>1. Fast' = Fast \ {h}
    BY <1>0, <1>2, <1>6 DEF TypeOK, Fast
  <2>2. IsFiniteSet(Fast)
    BY EventsAssumption, FS_Subset DEF Fast
  <2>3. Cardinality(Fast \ {h}) = Cardinality(Fast) - 1
    BY <1>4, <2>2, FS_RemoveElement
  <2>4. IsFiniteSet(Fast \ {h}) /\ Cardinality(Fast \ {h}) \in Nat
    BY <2>2, FS_RemoveElement, FS_CardinalityType
  <2> QED BY <1>6, <2>1, <2>2, <2>3, <2>4 DEF IInv, RingInOrder
<1>8. TypeOK'
  <2>1. access' \in [Slots -> Seq(Events)]
    BY <1>0, <1>1, <1>2, <1>6 DEF TypeOK
  <2> QED BY <1>0, <1>1, <1>6, <1>7, <2>1 DEF TypeOK
<1>9. ASSUME NEW e \in Fast
      PROVE  Pos(time[e])' = Pos(time[e]) /\ Fits(time[e])' /\ minTime' <= time[e]
  <2>1. time[e] \in Nat /\ Fits(time[e]) /\ minTime + k <= time[e]
    BY <1>0, FastFacts, NotBefore
  <2>2. time'[e] = time[e]
    BY <1>6
  <2>3. \A t \in Nat : minTime + k <= t /\ Fits(t) => Pos(t)' = Pos(t) /\ Fits(t)'
    BY <1>0, MovePos
  <2> QED BY <2>1, <2>2, <2>3 DEF Pos, Fits
<1>10. ASSUME NEW p \in Slots, NEW i \in 1..Len(access'[p])
       PROVE  InSlot(p, i)'
  <2> DEFINE r(j) == IF p = q THEN j + 1 ELSE j
  <2>1. \A j \in 1..Len(access'[p]) :
          r(j) \in 1..Len(access[p]) /\ access'[p][j] = access[p][r(j)]
    <3>1. access'[p] = IF p = q THEN Tail(access[q]) ELSE access[p]
      BY <1>0, <1>1, <1>6 DEF TypeOK
    <3>2. CASE p = q
      <4>1. \A j \in 1..Len(Tail(access[q])) :
              j + 1 \in 1..Len(access[q]) /\ Tail(access[q])[j] = access[q][j + 1]
        BY <1>2
      <4> QED BY <3>1, <3>2, <4>1
    <3>3. CASE p # q
      BY <3>1, <3>3
    <3> QED BY <3>2, <3>3
  <2>2. PICK e : e = access[p][r(i)]
    OBVIOUS
  <2>3. InSlot(p, r(i)) /\ access'[p][i] = e /\ e \in Events
    BY <1>0, <2>1, <2>2 DEF IInv, RingInOrder, TypeOK
  <2>4. /\ qType[e] = "fast" /\ p = Pos(time[e])
        /\ \A j \in 1..Len(access[p]) : access[p][j] = e => r(i) = j
    BY <2>2, <2>3 DEF InSlot
  <2>5. e # h
    <3>1. CASE p = q
      BY <1>2, <2>4, <3>1
    <3>2. CASE p # q
      BY <1>4, <2>4, <3>2
    <3> QED BY <3>1, <3>2
  <2>6. qType'[e] = "fast" /\ time'[e] = time[e] /\ e \in Fast
    BY <1>0, <1>2, <1>6, <2>3, <2>4, <2>5 DEF TypeOK, Fast
  <2>7. \A j \in 1..Len(access'[p]) : access'[p][j] = e => i = j
    <3> SUFFICES ASSUME NEW j \in 1..Len(access'[p]), access'[p][j] = e
                 PROVE  i = j
      OBVIOUS
    <3>1. r(i) = r(j)
      BY <2>1, <2>4
    <3>2. i \in Int /\ j \in Int
      OBVIOUS
    <3> QED BY <3>1, <3>2
  <2>8. p = Pos(time[e])' /\ Fits(time[e])' /\ minTime' <= time'[e]
    BY <1>9, <2>4, <2>6
  <2> QED BY <2>3, <2>6, <2>7, <2>8 DEF InSlot
<1>11. ASSUME NEW f \in Fast'
       PROVE  Linked(f)'
  <2>1. f \in Fast /\ f # h /\ f \in Events
    BY <1>7 DEF Fast
  <2>2. PICK i \in 1..Len(access[Pos(time[f])]) : access[Pos(time[f])][i] = f
    BY <2>1 DEF IInv, RingInOrder, Linked
  <2>3. Pos(time[f]) \in Slots /\ access[Pos(time[f])] \in Seq(Events)
    BY <1>0, <2>1, FastFacts DEF TypeOK
  <2>4. \E j \in 1..Len(access'[Pos(time[f])]) : access'[Pos(time[f])][j] = f
    <3>1. CASE Pos(time[f]) = q
      <4>1. i # 1 /\ i - 1 \in 1..Len(Tail(access[q])) /\ Tail(access[q])[i - 1] = f
        BY <1>2, <2>1, <2>2, <2>3, <3>1
      <4>2. access'[q] = Tail(access[q])
        BY <1>0, <1>1, <1>6 DEF TypeOK
      <4> QED BY <3>1, <4>1, <4>2
    <3>2. CASE Pos(time[f]) # q
      BY <1>0, <1>6, <2>2, <2>3, <3>2 DEF TypeOK
    <3> QED BY <3>1, <3>2
  <2>5. Pos(time[f])' = Pos(time[f])
    BY <1>9, <2>1
  <2> QED BY <2>4, <2>5 DEF Linked
<1>12. NoneOverdue'
  <2>1. \A e \in Events : qType'[e] # "no" => qType[e] # "no" /\ e # h
    BY <1>0, <1>2, <1>6 DEF TypeOK
  <2>2. \A e \in Events : qType'[e] = "far" <=> qType[e] = "far"
    BY <1>0, <1>2, <1>4, <1>6 DEF TypeOK, Fast
  <2> QED BY <1>6, <2>1, <2>2 DEF IInv, NoneOverdue
<1>13. RingFollowsClock'
  BY <1>0, <1>6 DEF IInv, RingFollowsClock
<1>14. RingInOrder'
  BY <1>7, <1>10, <1>11 DEF RingInOrder
<1> QED BY <1>4, <1>5, <1>6, <1>8, <1>12, <1>13, <1>14 DEF IInv

(* Nothing is due when the clock moves: after an empty scan. *)
LEMMA ScanTickInv ==
  ASSUME IInv, phase = "scan", NEW k \in 0..globalClock - minTime, ScanEnd(k),
         \A j \in 0..k - 1 : access[SlotAfter(j)] = <<>>,
         access[SlotAfter(k)] = <<>>,
         minTime' = minTime + k, minPos' = SlotAfter(k), TickClock
  PROVE  IInv' /\ \A e \in Events : qType[e] # "no" => globalClock < time[e]
<1>0. TypeOK /\ k \in 0..1 /\ minTime \in Nat /\ minPos \in Slots /\ globalClock \in Nat
  BY DEF IInv, TypeOK, RingFollowsClock
<1>1. SlotAfter(k) \in Slots
  <2>1. k \in Slots
    BY <1>0, SizeAssumption DEF Slots
  <2> QED BY <1>0, <2>1, Wraps DEF SlotAfter
<1>2. globalClock' = globalClock + 1 /\ globalClock < MaxClock /\ phase' = "idle"
      /\ UNCHANGED <<time, qType, nNodes, access, tooFar, minTooFar>>
  BY DEF TickClock
<1>3. minTime' = globalClock
  BY <1>0 DEF ScanEnd
<1>4. ASSUME NEW e \in Fast
      PROVE  globalClock < time[e] /\ Pos(time[e])' = Pos(time[e]) /\ Fits(time[e])'
  <2>1. /\ time[e] \in Nat /\ Fits(time[e]) /\ minTime + k <= time[e]
        /\ access[Pos(time[e])] # <<>>
    BY <1>0, FastFacts, NotBefore
  <2>2. ASSUME time[e] = minTime + k PROVE FALSE
    <3>1. Pos(time[e]) = SlotAfter(k)
      BY <1>0, <2>2 DEF Pos, SlotAfter, Slots
    <3> QED BY <2>1, <3>1
  <2>3. \A t \in Nat : minTime + k <= t /\ Fits(t) => Pos(t)' = Pos(t) /\ Fits(t)'
    BY <1>0, MovePos
  <2>4. Pos(time[e])' = Pos(time[e]) /\ Fits(time[e])'
    BY <1>2, <2>1, <2>3 DEF Pos, Fits
  <2>5. globalClock < time[e]
    BY <1>0, <2>1, <2>2 DEF ScanEnd
  <2> QED BY <2>4, <2>5
<1>5. \A e \in Events : qType[e] # "no" => globalClock < time[e]
  BY <1>0, <1>4 DEF IInv, NoneOverdue, TypeOK, Fast
<1>6. TypeOK'
  BY <1>0, <1>1, <1>2, <1>3 DEF TypeOK
<1>7. Fast' = Fast
  BY <1>2 DEF Fast
<1>8. ASSUME NEW p \in Slots, NEW i \in 1..Len(access'[p])
      PROVE  InSlot(p, i)'
  <2>1. PICK e : e = access[p][i]
    OBVIOUS
  <2>2. InSlot(p, i) /\ e \in Fast
    BY <1>0, <1>2, <2>1 DEF IInv, RingInOrder, InSlot, Fast, TypeOK
  <2>3. p = Pos(time[e])' /\ Fits(time[e])' /\ minTime' <= time'[e]
    <3>1. globalClock < time[e] /\ time[e] \in Nat
      BY <1>4, <2>2, FastFacts
    <3>2. minTime' <= time'[e]
      BY <1>0, <1>2, <1>3, <3>1
    <3>3. p = Pos(time[e])
      BY <2>1, <2>2 DEF InSlot
    <3> QED BY <1>4, <2>2, <3>2, <3>3
  <2> QED BY <1>2, <2>1, <2>2, <2>3 DEF InSlot
<1>9. ASSUME NEW f \in Fast' PROVE Linked(f)'
  <2>1. f \in Fast /\ Pos(time[f])' = Pos(time[f])
    BY <1>4, <1>7
  <2> QED BY <1>2, <2>1 DEF IInv, RingInOrder, Linked
<1>10. RingInOrder'
  BY <1>2, <1>7, <1>8, <1>9 DEF RingInOrder, IInv
<1>11. NoneOverdue'
  BY <1>0, <1>2, <1>5 DEF IInv, NoneOverdue, TypeOK
<1>12. RingFollowsClock'
  BY <1>0, <1>2, <1>3, TimeAssumption DEF IInv, RingFollowsClock
<1> QED BY <1>5, <1>6, <1>10, <1>11, <1>12 DEF IInv

(* Nothing is due when the clock moves: with an empty ring. *)
LEMMA NoneTickInv ==
  ASSUME IInv, NextJobNone
  PROVE  IInv' /\ \A e \in Events : qType[e] # "no" => globalClock < time[e]
<1>0. TypeOK /\ globalClock \in Nat
  BY DEF IInv, TypeOK
<1>1. /\ globalClock' = globalClock + 1 /\ globalClock < MaxClock /\ phase' = "idle"
      /\ minTime' = globalClock /\ minPos' = 0 /\ phase = "scan" /\ nNodes = 0
      /\ UNCHANGED <<time, qType, nNodes, access, tooFar, minTooFar>>
  BY DEF NextJobNone, TickClock
<1>2. Fast = {}
  <2>1. IsFiniteSet(Fast)
    BY EventsAssumption, FS_Subset DEF Fast
  <2>2. Cardinality(Fast) = 0
    BY <1>1 DEF IInv, RingInOrder
  <2> QED BY <2>1, <2>2, FS_EmptySet
<1>3. \A e \in Events : qType[e] # "no" => globalClock < time[e]
  BY <1>0, <1>1, <1>2 DEF IInv, NoneOverdue, TypeOK, Fast
<1>4. \A p \in Slots : \A i \in 1..Len(access[p]) : FALSE
  <2> SUFFICES ASSUME NEW p \in Slots, NEW i \in 1..Len(access[p]) PROVE FALSE
    OBVIOUS
  <2>1. InSlot(p, i) /\ access[p][i] \in Events
    BY <1>0 DEF IInv, RingInOrder, TypeOK
  <2> QED BY <1>2, <2>1 DEF InSlot, Fast
<1>5. TypeOK'
  BY <1>0, <1>1, SizeAssumption DEF TypeOK, Slots
<1>6. Fast' = Fast
  BY <1>1 DEF Fast
<1>7. RingInOrder'
  BY <1>1, <1>2, <1>4, <1>6 DEF IInv, RingInOrder
<1>8. NoneOverdue'
  BY <1>0, <1>1, <1>3 DEF IInv, NoneOverdue, TypeOK
<1>9. RingFollowsClock'
  BY <1>0, <1>1, TimeAssumption DEF IInv, RingFollowsClock
<1> QED BY <1>3, <1>5, <1>7, <1>8, <1>9 DEF IInv

(* Scheduling an event, near or far. *)
LEMMA ScheduleInv ==
  ASSUME IInv, NEW e \in Events, NEW delta \in 0..MaxDelta, Schedule(e, delta)
  PROVE  /\ IInv'
         /\ qType' \in [Events -> {"fast", "far", "no"}] /\ qType'[e] # "no"
         /\ \A f \in Events : f # e => qType'[f] = qType[f]
<1> DEFINE t == globalClock + delta
<1>0. TypeOK /\ globalClock \in Nat /\ t \in Nat /\ minTime <= t /\ globalClock <= t
      /\ minTime \in Nat /\ minTooFar \in Nat /\ delta \in Nat
  BY TimeAssumption DEF IInv, TypeOK, RingFollowsClock
<1>1. /\ phase = "idle" /\ qType[e] = "no" /\ e \notin Fast
      /\ time' = [time EXCEPT ![e] = t]
      /\ UNCHANGED <<globalClock, minTime, minPos, phase>>
  BY DEF Schedule, Fast
<1>2. CASE InsertFast(e, t)
  <2>1. Fits(t) /\ AddNode(e, t) /\ UNCHANGED <<tooFar, minTooFar>>
    BY <1>2 DEF InsertFast
  <2>2. RingInOrder' /\ access' \in [Slots -> Seq(Events)] /\ nNodes' \in Nat
    BY <1>0, <1>1, <2>1, AddNodeInv
  <2>3. qType' = [qType EXCEPT ![e] = "fast"]
    BY <2>1 DEF AddNode
  <2>4. TypeOK'
    BY <1>0, <1>1, <2>1, <2>2, <2>3 DEF TypeOK
  <2>5. NoneOverdue'
    <3>1. e \notin tooFar
      BY <1>1 DEF IInv, NoneOverdue
    <3> QED BY <1>0, <1>1, <2>1, <2>3, <3>1 DEF IInv, NoneOverdue, TypeOK
  <2>6. RingFollowsClock'
    BY <1>1, <2>1 DEF IInv, RingFollowsClock
  <2> QED BY <1>0, <2>2, <2>3, <2>4, <2>5, <2>6 DEF IInv, TypeOK
<1>3. CASE InsertTooFar(e, t)
  <2>1. /\ qType' = [qType EXCEPT ![e] = "far"] /\ tooFar' = tooFar \cup {e}
        /\ minTooFar' = Earlier(t) /\ UNCHANGED <<access, nNodes>>
    BY <1>3 DEF InsertTooFar
  <2>2. TypeOK'
    BY <1>0, <1>1, <2>1 DEF TypeOK, Earlier
  <2>3. Fast' = Fast
    BY <1>0, <1>1, <2>1 DEF Fast, TypeOK
  <2>4. \A f \in Fast : time'[f] = time[f] /\ Pos(time[f])' = Pos(time[f])
                        /\ Fits(time[f])' = Fits(time[f])
    BY <1>0, <1>1 DEF Fast, TypeOK, Pos, Fits
  <2>5. ASSUME NEW p \in Slots, NEW i \in 1..Len(access'[p]) PROVE InSlot(p, i)'
    <3>1. PICK f : f = access[p][i]
      OBVIOUS
    <3>2. InSlot(p, i) /\ f \in Fast
      BY <1>0, <2>1, <3>1 DEF IInv, RingInOrder, InSlot, Fast, TypeOK
    <3>3. /\ p = Pos(time[f])' /\ Fits(time[f])' /\ minTime' <= time'[f]
          /\ qType'[f] = "fast"
      BY <1>1, <2>3, <2>4, <3>1, <3>2 DEF InSlot, Fast
    <3> QED BY <2>1, <3>1, <3>2, <3>3 DEF InSlot
  <2>6. ASSUME NEW f \in Fast' PROVE Linked(f)'
    BY <2>1, <2>3, <2>4 DEF IInv, RingInOrder, Linked
  <2>7. RingInOrder'
    BY <2>1, <2>3, <2>5, <2>6 DEF IInv, RingInOrder
  <2>8. NoneOverdue'
    <3>1. \A f \in tooFar' : minTooFar' <= time'[f]
      BY <1>0, <1>1, <2>1 DEF IInv, NoneOverdue, TypeOK, Earlier
    <3> QED BY <1>0, <1>1, <2>1, <3>1 DEF IInv, NoneOverdue, TypeOK
  <2>9. RingFollowsClock'
    BY <1>1, <2>1 DEF IInv, RingFollowsClock
  <2> QED BY <1>0, <2>1, <2>2, <2>7, <2>8, <2>9 DEF IInv, TypeOK
<1> QED BY <1>2, <1>3 DEF Schedule

(* Moving the front of the heap to the ring. *)
LEMMA AdjustInv ==
  ASSUME IInv, NEW e \in Events, AdjustTooFar(e)
  PROVE  IInv' /\ qType' = [qType EXCEPT ![e] = "fast"] /\ qType[e] = "far"
<1>0. TypeOK /\ e \in tooFar /\ qType[e] = "far" /\ e \notin Fast /\ time[e] \in Nat
  BY DEF IInv, AdjustTooFar, Front, NoneOverdue, TypeOK, Fast
<1>1. minTime <= time[e] /\ Fits(time[e]) /\ time = [time EXCEPT ![e] = time[e]]
  BY <1>0 DEF IInv, AdjustTooFar, NoneOverdue, RingFollowsClock, TypeOK
<1>2. AddNode(e, time[e]) /\ tooFar' = tooFar \ {e}
      /\ UNCHANGED <<globalClock, time, minTime, minPos>>
  BY DEF AdjustTooFar
<1>3. RingInOrder' /\ access' \in [Slots -> Seq(Events)] /\ nNodes' \in Nat
  BY <1>0, <1>1, <1>2, AddNodeInv
<1>4. qType' = [qType EXCEPT ![e] = "fast"]
  BY <1>2 DEF AddNode
<1>5. \/ tooFar' = {} /\ minTooFar' = MaxTime /\ phase' = "scan"
      \/ tooFar' # {} /\ minTooFar' = minTooFar /\ phase' = phase /\ phase = "adjust"
  BY DEF AdjustTooFar
<1>6. TypeOK'
  BY <1>0, <1>2, <1>3, <1>4, <1>5, TimeAssumption DEF TypeOK
<1>7. NoneOverdue'
  BY <1>0, <1>2, <1>4, <1>5 DEF IInv, NoneOverdue, TypeOK
<1>8. RingFollowsClock'
  BY <1>2, <1>5 DEF IInv, RingFollowsClock
<1> QED BY <1>0, <1>3, <1>4, <1>6, <1>7, <1>8 DEF IInv

(* The steps that leave ring, clock and events alone. *)
LEMMA ControlInv ==
  ASSUME IInv, NextJobStart \/ (\E e \in Events : AdjustEnd(e)) \/ UNCHANGED vars
  PROVE  IInv' /\ UNCHANGED <<globalClock, time, qType>>
<1>1. /\ UNCHANGED <<globalClock, time, qType, minTime, minPos, nNodes, access, tooFar>>
  BY DEF NextJobStart, AdjustEnd, vars
<1>2. RingInOrder'
  BY <1>1 DEF IInv, RingInOrder, InSlot, Linked, Fast, Pos, Fits
<1>3. CASE NextJobStart
  <2>1. minTooFar' = minTooFar /\ phase' = IF minTooFar <= globalClock THEN "adjust" ELSE "scan"
    BY <1>3 DEF NextJobStart, HeapDue
  <2>2. TypeOK'
    BY <1>1, <2>1 DEF IInv, TypeOK
  <2>3. NoneOverdue'
    BY <1>1, <2>1 DEF IInv, NoneOverdue, TypeOK
  <2>4. RingFollowsClock'
    BY <1>1, <2>1, TimeAssumption DEF IInv, RingFollowsClock, TypeOK
  <2> QED BY <1>1, <1>2, <2>2, <2>3, <2>4 DEF IInv
<1>4. ASSUME NEW e \in Events, AdjustEnd(e) PROVE IInv'
  <2>1. /\ e \in tooFar /\ (\A f \in tooFar : time[e] <= time[f]) /\ ~Fits(time[e])
        /\ minTooFar' = time[e] /\ phase' = "scan"
    BY <1>4 DEF AdjustEnd, Front
  <2>2. TypeOK'
    BY <1>1, <2>1 DEF IInv, TypeOK
  <2>3. globalClock < time[e]
    BY <2>1, SizeAssumption DEF IInv, RingFollowsClock, TypeOK, Fits
  <2>4. NoneOverdue'
    BY <1>1, <2>1, <2>3 DEF IInv, NoneOverdue, TypeOK
  <2>5. RingFollowsClock'
    BY <1>1, <2>1 DEF IInv, RingFollowsClock
  <2> QED BY <1>2, <2>2, <2>4, <2>5 DEF IInv
<1>5. CASE UNCHANGED vars
  <2>1. UNCHANGED <<minTooFar, phase>>
    BY <1>5 DEF vars
  <2> QED BY <1>1, <1>2, <2>1 DEF IInv, TypeOK, NoneOverdue, RingFollowsClock
<1> QED BY <1>1, <1>3, <1>4, <1>5

(* An event that leaves the queue is a call of the calendar. *)
LEMMA PopIsCall ==
  ASSUME IInv, NEW e \in Fast, time[e] = globalClock, qType' = [qType EXCEPT ![e] = "no"],
         UNCHANGED <<globalClock, time>>
  PROVE  C!CalendarNext
<1>1. e \in Events /\ qType[e] = "fast" /\ qType \in [Events -> {"no", "fast", "far"}]
  BY DEF IInv, TypeOK, Fast
<1>2. pendingMap[e] = globalClock
  BY <1>1 DEF pendingMap
<1>3. pendingMap' = [pendingMap EXCEPT ![e] = None]
  BY <1>1 DEF pendingMap
<1> QED BY <1>1, <1>2, <1>3 DEF C!CalendarNext, C!Call

(* A clock step with nothing due is a tick of the calendar. *)
LEMMA TickIsTick ==
  ASSUME IInv, \A e \in Events : qType[e] # "no" => globalClock < time[e],
         globalClock' = globalClock + 1, UNCHANGED <<time, qType>>
  PROVE  C!CalendarNext
<1>1. globalClock \in Nat /\ time \in [Events -> Nat]
  BY DEF IInv, TypeOK
<1>2. \A e \in Events : pendingMap[e] # globalClock
  BY <1>1, NoneAssumption DEF pendingMap
<1>3. pendingMap' = pendingMap
  BY DEF pendingMap
<1> QED BY <1>2, <1>3 DEF C!CalendarNext, C!Tick

(* Every step keeps the invariant and is a step of the calendar, or none.  *)
LEMMA NextStep ==
  ASSUME IInv, [Next]_vars
  PROVE  IInv' /\ [C!CalendarNext]_(C!calendarVars)
<1>0. TypeOK /\ globalClock \in Nat /\ minTime \in Nat /\ minPos \in Slots
      /\ minTime <= globalClock
  BY DEF IInv, TypeOK, RingFollowsClock
<1>1. CASE NextJobCommon
  <2>1. /\ SlotAfter(0) = minPos /\ 0 \in 0..globalClock - minTime
        /\ minTime' = minTime + 0 /\ minPos' = SlotAfter(0)
    BY <1>0, <1>1, SizeAssumption DEF NextJobCommon, SlotAfter, Slots
  <2>2. access[SlotAfter(0)] # <<>> /\ PopHead(SlotAfter(0))
        /\ \A j \in 0..0 - 1 : access[SlotAfter(j)] = <<>>
    BY <1>1, <2>1 DEF NextJobCommon, Common
  <2>3. /\ IInv'
        /\ \E e \in Fast : time[e] = globalClock /\ qType' = [qType EXCEPT ![e] = "no"]
    BY <2>1, <2>2, PopInv
  <2>4. UNCHANGED <<globalClock, time>>
    BY <2>2 DEF PopHead
  <2> QED BY <2>3, <2>4, PopIsCall
<1>2. CASE NextJobScan
  <2>1. PICK k \in 0..globalClock - minTime :
          /\ \A j \in 0..k - 1 : access[SlotAfter(j)] = <<>>
          /\ minTime' = minTime + k /\ minPos' = SlotAfter(k)
          /\ \/ access[SlotAfter(k)] # <<>> /\ PopHead(SlotAfter(k))
             \/ access[SlotAfter(k)] = <<>> /\ ScanEnd(k) /\ TickClock
    BY <1>2 DEF NextJobScan
  <2>2. CASE access[SlotAfter(k)] # <<>> /\ PopHead(SlotAfter(k))
    <3>1. /\ IInv'
          /\ \E e \in Fast : time[e] = globalClock /\ qType' = [qType EXCEPT ![e] = "no"]
      BY <2>1, <2>2, PopInv
    <3>2. UNCHANGED <<globalClock, time>>
      BY <2>2 DEF PopHead
    <3> QED BY <3>1, <3>2, PopIsCall
  <2>3. CASE access[SlotAfter(k)] = <<>> /\ ScanEnd(k) /\ TickClock
    <3>1. phase = "scan"
      BY <1>2 DEF NextJobScan
    <3>2. IInv' /\ \A e \in Events : qType[e] # "no" => globalClock < time[e]
      BY <2>1, <2>3, <3>1, ScanTickInv
    <3>3. globalClock' = globalClock + 1 /\ UNCHANGED <<time, qType>>
      BY <2>3 DEF TickClock
    <3> QED BY <3>2, <3>3, TickIsTick
  <2> QED BY <2>1, <2>2, <2>3
<1>3. CASE NextJobNone
  <2>1. globalClock' = globalClock + 1 /\ UNCHANGED <<time, qType>>
    BY <1>3 DEF NextJobNone, TickClock
  <2> QED BY <1>3, <2>1, NoneTickInv, TickIsTick
<1>4. ASSUME NEW e \in Events, AdjustTooFar(e)
      PROVE  IInv' /\ [C!CalendarNext]_(C!calendarVars)
  <2>1. IInv' /\ qType' = [qType EXCEPT ![e] = "fast"] /\ qType[e] = "far"
    BY <1>4, AdjustInv
  <2>2. UNCHANGED <<globalClock, time>>
    BY <1>4 DEF AdjustTooFar
  <2>3. pendingMap' = pendingMap
    BY <1>0, <2>1, <2>2 DEF pendingMap, TypeOK
  <2> QED BY <2>1, <2>2, <2>3 DEF C!calendarVars
<1>5. CASE NextJobStart \/ (\E e \in Events : AdjustEnd(e)) \/ UNCHANGED vars
  <2>1. IInv' /\ UNCHANGED <<globalClock, time, qType>>
    BY <1>5, ControlInv
  <2> QED BY <2>1 DEF C!calendarVars, pendingMap
<1>6. ASSUME NEW e \in Events, NEW delta \in 0..MaxDelta, Schedule(e, delta)
      PROVE  IInv' /\ [C!CalendarNext]_(C!calendarVars)
  <2>1. /\ IInv' /\ qType' \in [Events -> {"fast", "far", "no"}] /\ qType'[e] # "no"
        /\ \A f \in Events : f # e => qType'[f] = qType[f]
    BY <1>6, ScheduleInv
  <2>2. /\ qType[e] = "no" /\ time' = [time EXCEPT ![e] = globalClock + delta]
        /\ globalClock' = globalClock
    BY <1>6 DEF Schedule
  <2>3. pendingMap[e] = None /\ pendingMap'[e] = globalClock + delta
    BY <1>0, <2>1, <2>2 DEF pendingMap, TypeOK
  <2>4. pendingMap' = [pendingMap EXCEPT ![e] = pendingMap'[e]]
    BY <1>0, <2>1, <2>2 DEF pendingMap, TypeOK
  <2>5. globalClock + delta \in Nat /\ globalClock + delta >= globalClock
    BY <1>0, TimeAssumption
  <2>6. C!Plan(e)
    BY <2>2, <2>3, <2>4, <2>5 DEF C!Plan
  <2> QED BY <2>1, <2>6 DEF C!CalendarNext
<1> QED BY <1>1, <1>2, <1>3, <1>4, <1>5, <1>6 DEF Next, NextJob

(* The invariant holds in every reachable state: the lists of the ring     *)
(* never mix two cycles and nothing TQueue holds is overdue.               *)
THEOREM QueueInvariant == Spec => [](TypeOK /\ RingInOrder /\ NoneOverdue /\ RingFollowsClock)
<1>1. Init => IInv
  BY InitInv
<1>2. IInv /\ [Next]_vars => IInv'
  BY NextStep
<1>3. IInv => TypeOK /\ RingInOrder /\ NoneOverdue /\ RingFollowsClock
  BY DEF IInv
<1> QED BY <1>1, <1>2, <1>3, PTL DEF Spec

(* EventScheduler on TQueue calls every callback once, in its own cycle,   *)
(* and never lets the clock pass a cycle with a callback left.             *)
THEOREM SchedulerImplementsCalendar == Spec => ImplementsCalendar
<1>1. Init => IInv
  BY InitInv
<1>2. Init => C!CalendarInit
  BY DEF Init, C!CalendarInit, pendingMap
<1>3. IInv /\ [Next]_vars => IInv' /\ [C!CalendarNext]_(C!calendarVars)
  BY NextStep
<1> QED BY <1>1, <1>2, <1>3, PTL DEF Spec, ImplementsCalendar, C!CalendarSpec

(* TQueue: every field keeps its type, nNodes and the heap included.       *)
THEOREM TypeCorrect == Spec => []TypeOK
BY QueueInvariant, PTL

(* addNode: however minPos and minTime move, wrap or are reset, a list of  *)
(* the ring holds events of one cycle only, the cycle its slot stands for. *)
THEOREM RingStaysInOrder == Spec => []RingInOrder
BY QueueInvariant, PTL

(* nextJob: no event is left behind in the ring or in the heap once        *)
(* advanceClock has gone past its cycle.                                   *)
THEOREM NothingOverdue == Spec => []NoneOverdue
BY QueueInvariant, PTL
=============================================================================
