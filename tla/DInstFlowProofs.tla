-------------------------- MODULE DInstFlowProofs --------------------------
(***************************************************************************)
(* The ring of EmuDInstQueue serves any program, at any initial size,      *)
(* through any mix of refills, fetches, retirements and replays.           *)
(*                                                                         *)
(* Inv is inductive: which slots hold what (WindowInOrder, ClonesAreLive)  *)
(* only stays true because the pointers never cross (HeadBetween), and     *)
(* they never cross because the queue counts the core's instructions       *)
(* exactly (CoreAccounted).                                                *)
(***************************************************************************)
EXTENDS DInstFlow, TLAPS

Inv ==
  /\ TypeOK
  /\ HeadBetween
  /\ CoreAccounted
  /\ ClonesAreLive
  /\ WindowInOrder
  /\ DeliveredUpToHead

(* What a step does to the window, the slots from tail to insertpoint. *)
WindowSame ==
  /\ Used' = Used /\ produced' = produced
  /\ \A k \in 0 .. Used - 1 : Slot(k)' = Slot(k)

WindowGains ==
  /\ Used' = Used + 1 /\ InCore' = InCore /\ ndrop' = ndrop /\ produced' = produced + 1
  /\ \A k \in 0 .. Used :
       Slot(k)' = IF k = Used THEN [inst |-> produced + 1, id |-> currentID] ELSE Slot(k)

WindowDrops ==
  /\ Used' = Used - 1 /\ InCore' = InCore - 1 /\ ndrop' = ndrop /\ produced' = produced
  /\ \A k \in 0 .. Used - 2 : Slot(k)' = Slot(k + 1)

WindowRewound ==
  /\ Used' = Used /\ InCore' = 0 /\ ndrop' = ndrop + InCore /\ produced' = produced
  /\ \A k \in 0 .. Used - 1 :
       /\ Slot(k)'.inst = Slot(k).inst
       /\ k >= InCore => Slot(k)' = Slot(k)

(* The mask, on the sums of an index and an offset the code forms. *)
LEMMA MaskWraps ==
  ASSUME NEW n \in Nat, n > 0, NEW i \in 0 .. 2 * n - 1
  PROVE  i % n = IF i < n THEN i ELSE i - n
<1>1. CASE i < n
  BY <1>1
<1>2. CASE i >= n
  BY <1>2
<1> QED BY <1>1, <1>2

(* The index k places after t. *)
LEMMA MaskSum ==
  ASSUME NEW n \in Nat, n > 0, NEW t \in 0 .. n - 1, NEW k \in 0 .. n
  PROVE  (t + k) % n = IF t + k < n THEN t + k ELSE t + k - n
<1>1. t + k \in 0 .. 2 * n - 1
  OBVIOUS
<1> QED BY <1>1, MaskWraps

(* Slot(k), without the remainder. *)
LEMMA SlotWraps ==
  ASSUME TypeOK, NEW k \in 0 .. size - 1
  PROVE  Slot(k) = trace[IF tail + k < size THEN tail + k ELSE tail + k - size]
<1>1. size \in Nat /\ size > 0 /\ tail \in 0 .. size - 1 /\ k \in 0 .. size
  BY DEF TypeOK
<1>2. (tail + k) % size = IF tail + k < size THEN tail + k ELSE tail + k - size
  BY <1>1, MaskSum
<1> QED BY <1>2 DEF Slot, Masked

(* One step along the ring. *)
LEMMA StepWraps ==
  ASSUME TypeOK, NEW i \in 0 .. size - 1
  PROVE  Masked(i + 1) = IF i + 1 = size THEN 0 ELSE i + 1
<1>1. size \in Nat /\ size > 0 /\ 1 \in 0 .. size
  BY DEF TypeOK
<1> QED BY <1>1, MaskSum DEF Masked

(* The constructor establishes Inv. *)
LEMMA InitInv == FlowInit => Inv
<1> SUFFICES ASSUME FlowInit PROVE Inv
  OBVIOUS
<1>1. TypeOK
  BY InitSizeAssumption, FlowAssumption DEF FlowInit, QueueInit, TypeOK
<1>2. InCore = 0 /\ Used = 0
  BY DEF FlowInit, QueueInit, InCore, Used, Dist
<1> QED
  BY <1>1, <1>2, InitSizeAssumption DEF FlowInit, QueueInit, Inv, HeadBetween, CoreAccounted,
     ClonesAreLive, WindowInOrder, DeliveredUpToHead, Size

(* A refill step within the ring. *)
LEMMA RefillFits ==
  ASSUME Inv, Refill, nFreeElems - 1 # 0
  PROVE  Inv' /\ WindowGains
<1> DEFINE d == [inst |-> produced + 1, id |-> currentID]
<1>0. TypeOK /\ produced \in Nat /\ currentID \in Nat /\ filling \in Nat
  BY DEF Inv, TypeOK
<1>1. /\ trace' = [trace EXCEPT ![insertpoint] = d]
      /\ insertpoint' = Masked(insertpoint + 1)
      /\ nFreeElems' = nFreeElems - 1
      /\ UNCHANGED <<size, head, tail, ndrop, live, delivered>>
      /\ produced' = produced + 1 /\ currentID' = currentID + 1 /\ filling' = filling - 1
      /\ produced < MaxInst /\ currentID < MaxID /\ filling > 0
  BY DEF Refill, Add
<1>2. insertpoint' = IF insertpoint + 1 = size THEN 0 ELSE insertpoint + 1
  BY <1>0, <1>1, StepWraps DEF TypeOK
<1>3. d \in Entry
  BY <1>0, <1>1, FlowAssumption DEF Entry
<1>4. TypeOK'
  BY <1>0, <1>1, <1>2, <1>3, FlowAssumption DEF TypeOK
<1>5. Used <= size - 2 /\ Used \in Nat /\ InCore \in Nat
  BY <1>0, <1>1 DEF Inv, HeadBetween, Size, Used, InCore, Dist, TypeOK
<1>6. Used' = Used + 1 /\ InCore' = InCore
  <2>1. /\ size' = size /\ head' = head /\ tail' = tail
        /\ insertpoint' = IF insertpoint + 1 = size THEN 0 ELSE insertpoint + 1
    BY <1>1, <1>2
  <2>2. size \in Nat /\ tail \in 0 .. size - 1 /\ insertpoint \in 0 .. size - 1
    BY <1>0 DEF TypeOK
  <2>3. (IF insertpoint >= tail THEN insertpoint - tail ELSE size - (tail - insertpoint)) <= size - 2
    BY <1>5 DEF Used, Dist
  <2> QED BY <2>1, <2>2, <2>3 DEF Used, InCore, Dist
<1>7. ASSUME NEW k \in 0 .. Used
      PROVE  Slot(k)' = IF k = Used THEN d ELSE Slot(k)
  <2>1. k \in 0 .. size - 1 /\ (k \in 0 .. size - 1)'
    BY <1>0, <1>1, <1>5 DEF TypeOK
  <2>2. Slot(k) = trace[IF tail + k < size THEN tail + k ELSE tail + k - size]
    BY <1>0, <2>1, SlotWraps
  <2>3. Slot(k)' = trace'[IF tail + k < size THEN tail + k ELSE tail + k - size]
    <3>0. size \in Nat /\ size > 0 /\ tail \in 0 .. size - 1 /\ k \in 0 .. size
      BY <1>0, <2>1 DEF TypeOK
    <3>1. (tail + k) % size = IF tail + k < size THEN tail + k ELSE tail + k - size
      BY <3>0, MaskSum
    <3>2. tail' = tail /\ size' = size
      BY <1>1
    <3> QED BY <3>1, <3>2 DEF Slot, Masked
  <2> QED
    BY <1>0, <1>1, <1>5, <2>1, <2>2, <2>3 DEF TypeOK, Used, Dist
<1>8. HeadBetween'
  BY <1>0, <1>1, <1>5, <1>6 DEF Inv, HeadBetween, Size, TypeOK
<1>9. CoreAccounted'
  BY <1>1, <1>6 DEF Inv, CoreAccounted
<1>10. ClonesAreLive'
  BY <1>0, <1>1, <1>5, <1>6, <1>7 DEF Inv, ClonesAreLive, HeadBetween
<1>11. WindowInOrder'
  <2> SUFFICES ASSUME NEW k \in 0 .. Used
               PROVE  Slot(k)' # Null /\ Slot(k)'.inst = produced' - Used' + k + 1
    BY <1>5, <1>6 DEF WindowInOrder
  <2>1. CASE k = Used
    BY <2>1, <1>0, <1>1, <1>3, <1>5, <1>6, <1>7, NullAssumption
  <2>2. CASE k # Used
    BY <2>2, <1>0, <1>1, <1>5, <1>6, <1>7 DEF Inv, WindowInOrder
  <2> QED BY <2>1, <2>2
<1>12. DeliveredUpToHead'
  BY <1>0, <1>1, <1>5, <1>6 DEF Inv, DeliveredUpToHead, TypeOK
<1>13. WindowGains
  BY <1>1, <1>6, <1>7 DEF WindowGains
<1> QED
  BY <1>4, <1>8, <1>9, <1>10, <1>11, <1>12, <1>13 DEF Inv

(* The refill step that uses the last free slot: adjust_trace. *)
LEMMA RefillGrows ==
  ASSUME Inv, Refill, nFreeElems - 1 = 0
  PROVE  Inv' /\ WindowGains
<1> DEFINE d == [inst |-> produced + 1, id |-> currentID]
           stored == [trace EXCEPT ![insertpoint] = d]
<1>0. TypeOK
  BY DEF Inv
<1>1. /\ size' = 2 * size
      /\ trace' = [i \in 0 .. 2 * size - 1 |->
                     IF i < size THEN stored[i] ELSE stored[Masked(tail + (i - size))]]
      /\ head' = IF head >= tail THEN size + head - tail ELSE size + size - (tail - head)
      /\ tail' = size /\ insertpoint' = 0 /\ nFreeElems' = size
      /\ UNCHANGED <<ndrop, live, delivered>>
  BY DEF Refill, Add, AdjustTrace
<1>2. /\ produced' = produced + 1 /\ currentID' = currentID + 1 /\ filling' = filling - 1
      /\ produced < MaxInst /\ currentID < MaxID /\ filling > 0
  BY DEF Refill
<1>3. /\ size \in Nat /\ size > 0 /\ head \in 0 .. size - 1 /\ tail \in 0 .. size - 1
      /\ insertpoint \in 0 .. size - 1
      /\ produced \in Nat /\ currentID \in Nat /\ filling \in Nat
  BY <1>0 DEF TypeOK
<1>4. d \in Entry
  BY <1>2, <1>3, FlowAssumption DEF Entry
<1>5. Used = size - 1 /\ InCore \in 0 .. size - 1
  BY <1>0, <1>3 DEF Inv, HeadBetween, Size, Used, InCore, Dist, TypeOK
<1>6. Used' = size /\ InCore' = InCore
  BY <1>1, <1>3 DEF Used, InCore, Dist
<1>7. ASSUME NEW k \in 0 .. size - 1
      PROVE  Masked(tail + k) \in 0 .. size - 1
  BY <1>3, MaskSum DEF Masked
<1>8. stored \in [0 .. size - 1 -> Entry \cup {Null}]
  BY <1>0, <1>3, <1>4 DEF TypeOK
<1>9. trace' \in [0 .. size' - 1 -> Entry \cup {Null}]
  <2> SUFFICES ASSUME NEW i \in 0 .. 2 * size - 1
               PROVE  (IF i < size THEN stored[i] ELSE stored[Masked(tail + (i - size))])
                        \in Entry \cup {Null}
    BY <1>1
  <2>1. CASE i < size
    BY <2>1, <1>8, <1>3
  <2>2. CASE i >= size
    <3>1. i - size \in 0 .. size - 1
      BY <2>2, <1>3
    <3> QED BY <3>1, <2>2, <1>3, <1>7, <1>8
  <2> QED BY <2>1, <2>2, <1>3
<1>10. TypeOK'
  <2>1. /\ size' \in Nat \ {0} /\ tail' \in 0 .. size' - 1 /\ insertpoint' \in 0 .. size' - 1
        /\ head' \in 0 .. size' - 1 /\ nFreeElems' \in 1 .. size'
    BY <1>1, <1>3
  <2>2. /\ currentID' \in 0 .. MaxID /\ produced' \in 0 .. MaxInst /\ filling' \in 0 .. MaxBatch
        /\ delivered' \in 0 .. MaxInst /\ ndrop' \in Nat /\ live' \in Seq(Entry)
    BY <1>0, <1>1, <1>2, <1>3, FlowAssumption DEF TypeOK
  <2> QED BY <1>9, <2>1, <2>2 DEF TypeOK
<1>11. ASSUME NEW k \in 0 .. size - 1
       PROVE  Slot(k)' = IF k = Used THEN d ELSE Slot(k)
  <2>1. Slot(k)' = trace'[size + k]
    <3>1. (size + k) % (2 * size) = size + k
      <4>1. 2 * size \in Nat /\ 2 * size > 0 /\ size + k \in 0 .. 2 * (2 * size) - 1 /\ size + k < 2 * size
        BY <1>3
      <4> QED BY <4>1, MaskWraps
    <3> QED BY <3>1, <1>1 DEF Slot, Masked
  <2>2. size + k \in 0 .. 2 * size - 1 /\ ~(size + k < size) /\ (size + k) - size = k
    BY <1>3
  <2>3. trace'[size + k] = stored[Masked(tail + k)]
    BY <1>1, <2>2
  <2>4. Masked(tail + k) = insertpoint <=> k = Used
    <3>1. Masked(tail + k) = IF tail + k < size THEN tail + k ELSE tail + k - size
      BY <1>3, MaskSum DEF Masked
    <3> QED BY <3>1, <1>3 DEF Used, Dist
  <2> QED
    BY <2>1, <2>3, <2>4, <1>0, <1>3, <1>7 DEF Slot, TypeOK
<1>12. HeadBetween'
  BY <1>1, <1>3, <1>5, <1>6 DEF HeadBetween, Size
<1>13. CoreAccounted'
  BY <1>1, <1>6 DEF Inv, CoreAccounted
<1>14. ClonesAreLive'
  BY <1>1, <1>3, <1>5, <1>6, <1>11 DEF Inv, ClonesAreLive
<1>15. WindowInOrder'
  <2> SUFFICES ASSUME NEW k \in 0 .. size - 1
               PROVE  Slot(k)' # Null /\ Slot(k)'.inst = produced' - Used' + k + 1
    BY <1>6 DEF WindowInOrder
  <2>1. CASE k = Used
    BY <2>1, <1>2, <1>3, <1>4, <1>5, <1>6, <1>11, NullAssumption
  <2>2. CASE k # Used
    BY <2>2, <1>2, <1>3, <1>5, <1>6, <1>11 DEF Inv, WindowInOrder
  <2> QED BY <2>1, <2>2
<1>16. DeliveredUpToHead'
  BY <1>0, <1>1, <1>2, <1>3, <1>5, <1>6 DEF Inv, DeliveredUpToHead, TypeOK
<1>17. WindowGains
  BY <1>1, <1>2, <1>3, <1>5, <1>6, <1>11 DEF WindowGains
<1> QED
  BY <1>10, <1>12, <1>13, <1>14, <1>15, <1>16, <1>17 DEF Inv

(* Handing out the head. *)
LEMMA ExecuteHeadInv ==
  ASSUME Inv, ExecuteHead
  PROVE  /\ Inv' /\ live'[Len(live')].inst <= delivered + 1
         /\ WindowSame /\ InCore < Used /\ InCore' = InCore + 1 /\ ndrop' = ndrop
<1>0. TypeOK
  BY DEF Inv
<1>1. /\ size \in Nat /\ size > 0 /\ head \in 0 .. size - 1 /\ tail \in 0 .. size - 1
      /\ insertpoint \in 0 .. size - 1 /\ live \in Seq(Entry) /\ ndrop \in Nat
      /\ produced \in Nat /\ delivered \in Nat
  BY <1>0 DEF TypeOK
<1>2. /\ head' = IF head + 1 = size THEN 0 ELSE head + 1
      /\ live' = Append(live, trace[head])
      /\ delivered' = IF trace[head].inst > delivered THEN trace[head].inst ELSE delivered
      /\ UNCHANGED <<trace, size, tail, insertpoint, ndrop, nFreeElems, currentID, produced, filling>>
      /\ head # insertpoint
  BY <1>0, <1>1, StepWraps DEF ExecuteHead, PopHead, GetHead, Empty
<1>3. /\ InCore \in 0 .. size - 1 /\ Used \in 0 .. size - 1 /\ InCore < Used
  <2>1. InCore <= Used
    BY DEF Inv, HeadBetween
  <2>2. InCore \in 0 .. size - 1 /\ Used \in 0 .. size - 1
    BY <1>1 DEF InCore, Used, Dist
  <2>3. InCore # Used
    <3>1. /\ size \in Nat /\ head \in 0 .. size - 1 /\ tail \in 0 .. size - 1
          /\ insertpoint \in 0 .. size - 1 /\ head # insertpoint
      BY <1>1, <1>2
    <3> QED BY ONLY <3>1 DEF InCore, Used, Dist
  <2> QED BY <2>1, <2>2, <2>3
<1>4. InCore' = InCore + 1 /\ Used' = Used
  BY <1>1, <1>2, <1>3 DEF InCore, Used, Dist
<1>5. Slot(InCore) = trace[head]
  BY <1>0, <1>1, <1>3, SlotWraps DEF InCore, Dist
<1>6. /\ trace[head] # Null /\ trace[head] \in Entry
      /\ trace[head].inst = produced - Used + InCore + 1
  BY <1>0, <1>1, <1>3, <1>5 DEF Inv, WindowInOrder, TypeOK
<1>7. ASSUME NEW k \in 0 .. size - 1
      PROVE  Slot(k)' = Slot(k)
  BY <1>2 DEF Slot, Masked
<1>8. TypeOK'
  <2>1. delivered' \in 0 .. MaxInst
    BY <1>0, <1>2, <1>6 DEF TypeOK, Entry
  <2> QED BY <1>0, <1>1, <1>2, <1>6, <2>1 DEF TypeOK
<1>9. HeadBetween'
  BY <1>1, <1>2, <1>3, <1>4 DEF Inv, HeadBetween, Size
<1>10. CoreAccounted' /\ Len(live) = ndrop + InCore
  BY <1>1, <1>2, <1>3, <1>4 DEF Inv, CoreAccounted
<1>11. ClonesAreLive'
  <2> SUFFICES ASSUME NEW k \in 0 .. InCore' - 1
               PROVE  Slot(k)' = live'[ndrop' + k + 1]
    BY DEF ClonesAreLive
  <2>0. k \in 0 .. InCore /\ k \in 0 .. size - 1 /\ ndrop' = ndrop /\ k \in Nat
    BY <1>1, <1>2, <1>3, <1>4
  <2>1. CASE k = InCore
    <3>1. ndrop + k + 1 = Len(live) + 1
      BY <2>1, <1>1, <1>3, <1>10
    <3>2. live'[Len(live) + 1] = trace[head]
      BY <1>1, <1>2, <1>6
    <3> QED BY <2>0, <2>1, <3>1, <3>2, <1>5, <1>7
  <2>2. CASE k # InCore
    <3>1. k \in 0 .. InCore - 1 /\ ndrop + k + 1 \in 1 .. Len(live)
      BY <2>0, <2>2, <1>1, <1>3, <1>10
    <3>2. live'[ndrop + k + 1] = live[ndrop + k + 1]
      BY <1>1, <1>2, <1>6, <3>1
    <3>3. Slot(k) = live[ndrop + k + 1]
      BY <3>1 DEF Inv, ClonesAreLive
    <3> QED BY <2>0, <3>2, <3>3, <1>7
  <2> QED BY <2>1, <2>2
<1>12. WindowInOrder'
  BY <1>1, <1>2, <1>3, <1>4, <1>7 DEF Inv, WindowInOrder
<1>13. DeliveredUpToHead' /\ trace[head].inst <= delivered + 1
  <2> DEFINE h == trace[head].inst
  <2>1. h = produced - Used + InCore + 1 /\ produced - Used + InCore <= delivered
    BY <1>6 DEF Inv, DeliveredUpToHead
  <2>2. InCore \in Nat /\ Used \in Nat
    BY <1>1, <1>3
  <2>3. h <= delivered + 1
    BY <2>1, <2>2, <1>1
  <2>4. delivered' = IF h > delivered THEN h ELSE delivered
    BY <1>2
  <2> HIDE DEF h
  <2>5. produced - Used + (InCore + 1) <= delivered'
    BY <2>1, <2>2, <2>4, <1>1
  <2>6. produced' = produced
    BY <1>2
  <2> QED BY <2>3, <2>5, <2>6, <1>4 DEF h, DeliveredUpToHead
<1>14. live'[Len(live')] = trace[head]
  BY <1>1, <1>2, <1>6
<1>15. WindowSame
  BY <1>1, <1>2, <1>3, <1>4, <1>7 DEF WindowSame
<1> QED
  BY <1>2, <1>3, <1>4, <1>8, <1>9, <1>10, <1>11, <1>12, <1>13, <1>14, <1>15 DEF Inv

(* An instruction leaves the core. *)
LEMMA DestroyInv ==
  ASSUME Inv, Destroy
  PROVE  /\ Inv' /\ Len(live') < Len(live)
         /\ \/ WindowSame /\ ndrop > 0 /\ ndrop' = ndrop - 1 /\ InCore' = InCore
            \/ WindowDrops /\ ndrop = 0 /\ InCore > 0
<1>0. TypeOK
  BY DEF Inv
<1>1. /\ size \in Nat /\ size > 0 /\ head \in 0 .. size - 1 /\ tail \in 0 .. size - 1
      /\ insertpoint \in 0 .. size - 1 /\ live \in Seq(Entry) /\ ndrop \in Nat
      /\ produced \in Nat /\ delivered \in Nat /\ nFreeElems \in 1 .. size
  BY <1>0 DEF TypeOK
<1>2. /\ live # <<>> /\ live' = Tail(live)
      /\ UNCHANGED <<trace, size, head, insertpoint, currentID, produced, filling, delivered>>
  BY DEF Destroy, AdvanceTail
<1>3. /\ live' \in Seq(Entry) /\ Len(live') = Len(live) - 1
      /\ \A i \in 1 .. Len(live) - 1 : live'[i] = live[i + 1]
  BY <1>1, <1>2
<1>4. /\ InCore \in 0 .. size - 1 /\ Used \in 0 .. size - 1 /\ InCore <= Used
      /\ Len(live) = ndrop + InCore /\ Len(live) > 0 /\ Used = size - nFreeElems
  BY <1>1, <1>2 DEF Inv, HeadBetween, CoreAccounted, InCore, Used, Dist, Size
<1>5. CASE ndrop # 0
  <2>1. ndrop' = ndrop - 1 /\ tail' = tail /\ nFreeElems' = nFreeElems
    BY <1>5 DEF Destroy, AdvanceTail
  <2>2. InCore' = InCore /\ Used' = Used
    BY <1>2, <2>1 DEF InCore, Used, Dist
  <2>3. ASSUME NEW k \in 0 .. size - 1 PROVE Slot(k)' = Slot(k)
    BY <1>2, <2>1 DEF Slot, Masked
  <2>4. TypeOK'
    BY <1>0, <1>1, <1>2, <1>3, <1>5, <2>1 DEF TypeOK
  <2>5. HeadBetween' /\ CoreAccounted' /\ DeliveredUpToHead'
    BY <1>1, <1>2, <1>3, <1>4, <2>1, <2>2
       DEF Inv, HeadBetween, CoreAccounted, DeliveredUpToHead, Size
  <2>6. ClonesAreLive'
    <3> SUFFICES ASSUME NEW k \in 0 .. InCore' - 1
                 PROVE  Slot(k)' = live'[ndrop' + k + 1]
      BY DEF ClonesAreLive
    <3>1. /\ ndrop + k \in 1 .. Len(live) - 1 /\ ndrop' + k + 1 = ndrop + k
          /\ k \in 0 .. InCore - 1 /\ k \in 0 .. size - 1
      BY <1>1, <1>4, <1>5, <2>1, <2>2
    <3>2. live'[ndrop + k] = live[ndrop + k + 1]
      BY <1>3, <3>1
    <3>3. Slot(k) = live[ndrop + k + 1]
      BY <3>1 DEF Inv, ClonesAreLive
    <3> QED BY <2>3, <3>1, <3>2, <3>3
  <2>7. WindowInOrder'
    <3> SUFFICES ASSUME NEW k \in 0 .. Used' - 1
                 PROVE  Slot(k)' # Null /\ Slot(k)'.inst = produced' - Used' + k + 1
      BY DEF WindowInOrder
    <3>1. k \in 0 .. Used - 1 /\ k \in 0 .. size - 1
      BY <1>1, <1>4, <2>2
    <3> QED BY <1>2, <2>2, <2>3, <3>1 DEF Inv, WindowInOrder
  <2>8. WindowSame /\ ndrop > 0
    BY <1>1, <1>2, <1>4, <1>5, <2>2, <2>3 DEF WindowSame
  <2> QED BY <1>3, <1>4, <2>1, <2>2, <2>4, <2>5, <2>6, <2>7, <2>8 DEF Inv
<1>6. CASE ndrop = 0
  <2>1. insertpoint # tail
    BY <1>1, <1>4, <1>6 DEF Used, Dist
  <2>2. /\ ndrop' = ndrop /\ nFreeElems' = nFreeElems + 1
        /\ tail' = IF tail + 1 = size THEN 0 ELSE tail + 1
    BY <1>0, <1>1, <1>6, <2>1, StepWraps DEF Destroy, AdvanceTail
  <2>3. InCore' = InCore - 1 /\ Used' = Used - 1
    BY <1>1, <1>2, <1>4, <1>6, <2>2 DEF InCore, Used, Dist
  <2>4. TypeOK'
    BY <1>0, <1>1, <1>2, <1>3, <1>4, <1>6, <2>2 DEF TypeOK
  <2>5. ASSUME NEW k \in 0 .. Used - 2 PROVE Slot(k)' = Slot(k + 1)
    <3>1. k + 1 \in 0 .. size - 1 /\ k \in 0 .. size - 1 /\ k \in 0 .. size
      BY <1>1, <1>4
    <3>2. Slot(k + 1) = trace[IF tail + (k + 1) < size THEN tail + (k + 1) ELSE tail + (k + 1) - size]
      BY <1>0, <3>1, SlotWraps
    <3>3. tail' \in 0 .. size - 1
      BY <1>1, <2>2
    <3>4. (tail' + k) % size = IF tail' + k < size THEN tail' + k ELSE tail' + k - size
      BY <1>1, <3>1, <3>3, MaskSum
    <3>5. Slot(k)' = trace[IF tail' + k < size THEN tail' + k ELSE tail' + k - size]
      BY <1>2, <3>4 DEF Slot, Masked
    <3> QED BY <1>1, <2>2, <3>1, <3>2, <3>5
  <2>6. HeadBetween' /\ CoreAccounted' /\ DeliveredUpToHead'
    BY <1>1, <1>2, <1>3, <1>4, <2>2, <2>3
       DEF Inv, HeadBetween, CoreAccounted, DeliveredUpToHead, Size
  <2>7. ClonesAreLive'
    <3> SUFFICES ASSUME NEW k \in 0 .. InCore' - 1
                 PROVE  Slot(k)' = live'[ndrop' + k + 1]
      BY DEF ClonesAreLive
    <3>1. /\ ndrop' + k + 1 = k + 1 /\ ndrop + (k + 1) + 1 = (k + 1) + 1
          /\ k + 1 \in 1 .. Len(live) - 1
          /\ k + 1 \in 0 .. InCore - 1 /\ k \in 0 .. Used - 2
      BY <1>1, <1>4, <1>6, <2>2, <2>3
    <3>2. live'[k + 1] = live[(k + 1) + 1]
      BY <1>3, <3>1
    <3>3. Slot(k + 1) = live[ndrop + (k + 1) + 1]
      BY <3>1 DEF Inv, ClonesAreLive
    <3> QED BY <2>5, <3>1, <3>2, <3>3
  <2>8. WindowInOrder'
    <3> SUFFICES ASSUME NEW k \in 0 .. Used' - 1
                 PROVE  Slot(k)' # Null /\ Slot(k)'.inst = produced' - Used' + k + 1
      BY DEF WindowInOrder
    <3>1. /\ k + 1 \in 0 .. Used - 1 /\ k \in 0 .. Used - 2
          /\ produced' - Used' + k + 1 = produced - Used + (k + 1) + 1
      BY <1>1, <1>2, <1>4, <2>3
    <3>2. Slot(k + 1) # Null /\ Slot(k + 1).inst = produced - Used + (k + 1) + 1
      BY <3>1 DEF Inv, WindowInOrder
    <3> QED BY <2>5, <3>1, <3>2
  <2>9. WindowDrops /\ InCore > 0
    BY <1>2, <1>4, <1>6, <2>2, <2>3, <2>5 DEF WindowDrops
  <2> QED BY <1>3, <1>4, <1>6, <2>4, <2>6, <2>7, <2>8, <2>9 DEF Inv
<1> QED BY <1>5, <1>6

(* A replay moves the head back. *)
LEMMA SyncHeadTailInv ==
  ASSUME Inv, SyncHeadTail
  PROVE  Inv' /\ WindowRewound
<1>0. TypeOK
  BY DEF Inv
<1>1. /\ size \in Nat /\ size > 0 /\ head \in 0 .. size - 1 /\ tail \in 0 .. size - 1
      /\ insertpoint \in 0 .. size - 1 /\ live \in Seq(Entry) /\ ndrop \in Nat
      /\ produced \in Nat /\ delivered \in Nat /\ currentID \in Nat
  BY <1>0 DEF TypeOK
<1>2. /\ trace' = [i \in 0 .. size - 1 |->
                     IF Dist(tail, i) < InCore THEN Clone(trace[i], currentID + Dist(tail, i)) ELSE trace[i]]
      /\ ndrop' = ndrop + InCore /\ head' = tail /\ currentID' = currentID + InCore
      /\ currentID + InCore <= MaxID
      /\ UNCHANGED <<size, tail, insertpoint, nFreeElems, produced, filling, live, delivered>>
  BY DEF SyncHeadTail, MoveHead2Tail, InCore
<1>3. InCore \in 0 .. size - 1 /\ Used \in 0 .. size - 1 /\ InCore <= Used
  BY <1>1 DEF Inv, HeadBetween, InCore, Used, Dist
<1>4. InCore' = 0 /\ Used' = Used
  BY <1>1, <1>2 DEF InCore, Used, Dist
<1>5. ASSUME NEW i \in 0 .. size - 1
      PROVE  /\ Dist(tail, i) \in 0 .. size - 1
             /\ Slot(Dist(tail, i)) = trace[i]
  <2>1. Dist(tail, i) \in 0 .. size - 1
    BY <1>1 DEF Dist
  <2> QED BY <1>0, <1>1, <2>1, SlotWraps DEF Dist
<1>6. trace' \in [0 .. size - 1 -> Entry \cup {Null}]
  <2> SUFFICES ASSUME NEW i \in 0 .. size - 1
               PROVE  trace'[i] \in Entry \cup {Null}
    BY <1>2
  <2>1. CASE Dist(tail, i) < InCore
    <3>1. trace[i] \in Entry
      BY <1>0, <1>1, <1>3, <1>5, <2>1 DEF Inv, WindowInOrder, TypeOK
    <3>0. Dist(tail, i) \in 0 .. size - 1
      BY <1>5
    <3>2. currentID + Dist(tail, i) \in 0 .. MaxID
      BY <1>1, <1>2, <1>3, <2>1, <3>0, FlowAssumption
    <3>3. Clone(trace[i], currentID + Dist(tail, i)) \in Entry
      BY <3>1, <3>2 DEF Clone, Entry
    <3> QED BY <1>2, <2>1, <3>3
  <2>2. CASE ~(Dist(tail, i) < InCore)
    BY <1>0, <1>2, <2>2 DEF TypeOK
  <2> QED BY <2>1, <2>2
<1>7. TypeOK'
  BY <1>0, <1>1, <1>2, <1>3, <1>6, FlowAssumption DEF TypeOK
<1>8. HeadBetween' /\ CoreAccounted' /\ DeliveredUpToHead'
  <2>1. /\ size' = size /\ nFreeElems' = nFreeElems /\ live' = live /\ ndrop' = ndrop + InCore
        /\ produced' = produced /\ delivered' = delivered
    BY <1>2
  <2>2. Used = Size /\ Len(live) = ndrop + InCore /\ produced - Used + InCore <= delivered
    BY DEF Inv, HeadBetween, CoreAccounted, DeliveredUpToHead
  <2>3. HeadBetween'
    BY <1>3, <1>4, <2>1, <2>2 DEF HeadBetween, Size
  <2>4. CoreAccounted'
    BY <1>1, <1>3, <1>4, <2>1, <2>2 DEF CoreAccounted
  <2>5. produced - Used + 0 <= delivered
    BY <1>1, <1>3, <2>2
  <2>6. DeliveredUpToHead'
    BY <1>4, <2>1, <2>5 DEF DeliveredUpToHead
  <2> QED BY <2>3, <2>4, <2>6
<1>9. ClonesAreLive'
  BY <1>4 DEF ClonesAreLive
<1>10. ASSUME NEW k \in 0 .. size - 1, Slot(k) # Null
       PROVE  /\ Slot(k)' # Null /\ Slot(k)'.inst = Slot(k).inst
              /\ k >= InCore => Slot(k)' = Slot(k)
  <2> DEFINE i == IF tail + k < size THEN tail + k ELSE tail + k - size
  <2>1. i \in 0 .. size - 1 /\ Dist(tail, i) = k
    BY <1>1 DEF Dist
  <2>2. Slot(k) = trace[i]
    BY <1>0, SlotWraps
  <2>3. Slot(k)' = trace'[i]
    <3>1. (tail + k) % size = i
      BY <1>1, MaskSum
    <3> QED BY <1>2, <3>1 DEF Slot, Masked
  <2>4. trace'[i] = IF k < InCore THEN Clone(trace[i], currentID + k) ELSE trace[i]
    BY <1>2, <2>1
  <2>5. CASE k < InCore
    <3>1. Clone(trace[i], currentID + k).inst = trace[i].inst
      BY DEF Clone
    <3>2. trace'[i] # Null
      <4>1. trace[i] \in Entry
        BY <1>0, <2>1, <2>2, <1>10 DEF TypeOK
      <4>2. Clone(trace[i], currentID + k) \in Entry
        BY <1>1, <1>2, <1>3, <2>5, <4>1, FlowAssumption DEF Clone, Entry
      <4> QED BY <2>4, <2>5, <4>2, NullAssumption
    <3> QED BY <1>3, <2>2, <2>3, <2>4, <2>5, <3>1, <3>2
  <2>6. CASE ~(k < InCore)
    BY <1>10, <2>2, <2>3, <2>4, <2>6
  <2> QED BY <2>5, <2>6
<1>11. WindowInOrder'
  <2> SUFFICES ASSUME NEW k \in 0 .. Used' - 1
               PROVE  Slot(k)' # Null /\ Slot(k)'.inst = produced' - Used' + k + 1
    BY DEF WindowInOrder
  <2>1. k \in 0 .. Used - 1 /\ k \in 0 .. size - 1
    BY <1>1, <1>3, <1>4
  <2>2. Slot(k) # Null /\ Slot(k).inst = produced - Used + k + 1
    BY <2>1 DEF Inv, WindowInOrder
  <2> QED BY <1>2, <1>4, <1>10, <2>1, <2>2
<1>12. WindowRewound
  <2>1. ASSUME NEW k \in 0 .. Used - 1 PROVE k \in 0 .. size - 1 /\ Slot(k) # Null
    BY <1>1, <1>3 DEF Inv, WindowInOrder
  <2> QED BY <1>2, <1>4, <1>10, <2>1 DEF WindowRewound
<1> QED BY <1>7, <1>8, <1>9, <1>11, <1>12 DEF Inv

(* The start of a refill and a stuttering step change nothing Inv reads
   but the batch that is left. *)
LEMMA StartRefillInv ==
  ASSUME Inv, StartRefill \/ UNCHANGED vars
  PROVE  Inv' /\ live' = live /\ WindowSame /\ InCore' = InCore /\ ndrop' = ndrop
<1>1. /\ UNCHANGED <<trace, size, head, tail, insertpoint, ndrop, nFreeElems>>
      /\ UNCHANGED <<currentID, produced, live, delivered>>
      /\ filling' \in 0 .. MaxBatch
  BY FlowAssumption DEF StartRefill, vars, queueVars, flowVars, Inv, TypeOK
<1>2. InCore' = InCore /\ Used' = Used /\ Size' = Size
  BY <1>1 DEF InCore, Used, Size, Dist
<1>3. \A k : Slot(k)' = Slot(k)
  BY <1>1 DEF Slot, Masked
<1>4. Inv'
  BY <1>1, <1>2, <1>3
     DEF Inv, TypeOK, HeadBetween, CoreAccounted, ClonesAreLive, WindowInOrder,
         DeliveredUpToHead
<1> QED
  BY <1>1, <1>2, <1>3, <1>4 DEF WindowSame

(* Every step of the flow preserves Inv and hands out nothing ahead of the
   program. *)
LEMMA FlowStep ==
  ASSUME Inv, [FlowNext]_vars
  PROVE  Inv' /\ (Len(live') > Len(live) => live'[Len(live')].inst <= delivered + 1)
<1>0. Len(live) \in Nat
  BY DEF Inv, TypeOK
<1>1. CASE StartRefill \/ UNCHANGED vars
  BY <1>0, <1>1, StartRefillInv
<1>2. CASE Refill
  <2>1. live' = live
    BY <1>2 DEF Refill
  <2>2. Inv'
    BY <1>2, RefillFits, RefillGrows
  <2> QED BY <1>0, <2>1, <2>2
<1>3. CASE ExecuteHead
  BY <1>3, ExecuteHeadInv
<1>4. CASE Destroy
  <2>1. Inv' /\ Len(live') < Len(live)
    BY <1>4, DestroyInv
  <2>2. Len(live') \in Nat
    BY <2>1 DEF Inv, TypeOK
  <2> QED BY <1>0, <2>1, <2>2
<1>5. CASE SyncHeadTail
  <2>1. live' = live
    BY <1>5 DEF SyncHeadTail
  <2> QED BY <1>0, <1>5, <2>1, SyncHeadTailInv
<1> QED
  BY <1>1, <1>2, <1>3, <1>4, <1>5 DEF FlowNext

(* For every ring size and every program: the pointers of EmuDInstQueue stay
   ordered tail, head, insertpoint; the free count is what they say; the core
   holds exactly what the queue believes; the window is the tail of the
   program, in order. *)
THEOREM FlowInvariant == FlowSpec => []Inv
<1>1. FlowInit => Inv
  BY InitInv
<1>2. Inv /\ [FlowNext]_vars => Inv'
  BY FlowStep
<1> QED
  BY <1>1, <1>2, PTL DEF FlowSpec

(* "The head pointer will always lie between the tail pointer and the
   insertpoint": for every ring size. *)
THEOREM HeadStaysBetween == FlowSpec => []HeadBetween
<1>1. Inv => HeadBetween
  BY DEF Inv
<1> QED
  BY <1>1, FlowInvariant, PTL

(* moveHead2Tail never clones a DInst that has gone back to the pool. *)
THEOREM OnlyLiveCloned == FlowSpec => []ClonesAreLive
<1>1. Inv => ClonesAreLive
  BY DEF Inv
<1> QED
  BY <1>1, FlowInvariant, PTL

(* executeHead never skips an instruction of the program, whatever replays
   came before. *)
THEOREM NothingSkipped == FlowSpec => NeverSkips
<1>1. Inv /\ [FlowNext]_vars =>
        [Len(live') > Len(live) => live'[Len(live')].inst <= delivered + 1]_vars
  BY FlowStep
<1> QED
  BY <1>1, FlowInvariant, PTL DEF FlowSpec, NeverSkips

(* The window's instructions are the last ones of the program, in order and
   without a gap: for every ring size. *)
THEOREM WindowStaysInOrder == FlowSpec => []WindowInOrder
<1>1. Inv => WindowInOrder
  BY DEF Inv
<1> QED
  BY <1>1, FlowInvariant, PTL

(* Every variable of the ring and its clients keeps its type. *)
THEOREM TypeCorrect == FlowSpec => []TypeOK
<1>1. Inv => TypeOK
  BY DEF Inv
<1> QED
  BY <1>1, FlowInvariant, PTL

-----------------------------------------------------------------------------
(* The refinement of ReplayStream. *)

Window == [i \in 1 .. Used |-> Slot(i - 1)]

WindowTyped ==
  /\ Used \in Nat /\ InCore \in Nat /\ ndrop \in Nat /\ produced \in Nat
  /\ Window \in Seq(Entry) /\ Len(Window) = Used /\ DOMAIN Window = 1 .. Used
  /\ \A i \in 1 .. Used : Window[i] = Slot(i - 1)

LEMMA WindowIsTyped == Inv => WindowTyped
<1> SUFFICES ASSUME Inv PROVE WindowTyped
  OBVIOUS
<1>0. TypeOK
  BY DEF Inv
<1>1. /\ Used \in 0 .. size - 1 /\ InCore \in Nat /\ ndrop \in Nat /\ size \in Nat
      /\ produced \in Nat
  BY <1>0, FlowAssumption DEF TypeOK, Used, InCore, Dist
<1>2. ASSUME NEW i \in 1 .. Used PROVE Slot(i - 1) \in Entry
  <2>1. i - 1 \in 0 .. Used - 1 /\ i - 1 \in 0 .. size - 1
    BY <1>1
  <2>2. Slot(i - 1) # Null
    BY <2>1 DEF Inv, WindowInOrder
  <2>3. Slot(i - 1) \in Entry \cup {Null}
    <3>1. Slot(i - 1) = trace[IF tail + (i - 1) < size THEN tail + (i - 1) ELSE tail + (i - 1) - size]
      BY <1>0, <2>1, SlotWraps
    <3> QED BY <1>0, <2>1, <3>1 DEF TypeOK
  <2> QED BY <2>2, <2>3
<1>3. Window \in [1 .. Used -> Entry]
  BY <1>2 DEF Window
<1> QED
  BY <1>1, <1>3 DEF Window, WindowTyped

LEMMA WindowIsTypedNext == Inv' => WindowTyped'
BY WindowIsTyped, PTL

(* Windows are equal when their slots are. *)
LEMMA SameWindow ==
  ASSUME WindowTyped, WindowTyped', WindowSame
  PROVE  Window' = Window
<1>1. Used' = Used /\ Used \in Nat /\ Len(Window) = Used /\ Len(Window') = Used
  BY DEF WindowSame, WindowTyped
<1>2. ASSUME NEW i \in 1 .. Used PROVE Window'[i] = Window[i]
  <2>1. i - 1 \in 0 .. Used - 1
    BY <1>1
  <2>2. Window[i] = Slot(i - 1)
    BY DEF WindowTyped
  <2>3. Window'[i] = Slot(i - 1)'
    BY <1>1 DEF WindowTyped
  <2>4. PICK k \in 0 .. Used - 1 : k = i - 1
    BY <2>1
  <2>5. Slot(k)' = Slot(k)
    BY DEF WindowSame
  <2> QED
    BY <2>2, <2>3, <2>4, <2>5
<1> QED
  BY <1>1, <1>2 DEF WindowTyped

(* One lemma per step: what it does to the window is a step of the stream. *)
LEMMA GainIsSupply ==
  ASSUME WindowTyped, WindowTyped', WindowGains
  PROVE  Stream!Supply
<1>1. Used' = Used + 1 /\ Used \in Nat /\ Len(Window) = Used /\ Len(Window') = Used + 1
  BY DEF WindowGains, WindowTyped
<1>2. ASSUME NEW i \in 1 .. Used + 1
      PROVE  Window'[i] = IF i = Used + 1 THEN [inst |-> produced + 1, id |-> currentID] ELSE Slot(i - 1)
  <2>1. PICK k \in 0 .. Used : k = i - 1
    BY <1>1
  <2>2. Window'[i] = Slot(i - 1)'
    BY <1>1 DEF WindowTyped
  <2>3. Slot(k)' = IF k = Used THEN [inst |-> produced + 1, id |-> currentID] ELSE Slot(k)
    BY DEF WindowGains
  <2> QED
    BY <1>1, <2>1, <2>2, <2>3
<1>3. ASSUME NEW i \in DOMAIN Window PROVE Window'[i] = Window[i]
  BY <1>1, <1>2 DEF WindowTyped
<1>4. Window'[Len(Window')].inst = produced'
  BY <1>1, <1>2 DEF WindowGains
<1> QED
  BY <1>1, <1>3, <1>4 DEF Stream!Supply, Window, WindowGains

LEMMA DropIsDiscard ==
  ASSUME WindowTyped, WindowTyped', WindowDrops, ndrop = 0, InCore > 0, InCore <= Used
  PROVE  Stream!Discard
<1>1. /\ Used' = Used - 1 /\ Used \in Nat /\ Used > 0 /\ InCore \in Nat
      /\ Len(Window) = Used /\ Len(Window') = Used - 1 /\ Window \in Seq(Entry) /\ Window' \in Seq(Entry)
  BY DEF WindowDrops, WindowTyped
<1>2. ASSUME NEW i \in 1 .. Used - 1 PROVE Window'[i] = Window[i + 1]
  <2>1. PICK k \in 0 .. Used - 2 : k = i - 1
    BY <1>1
  <2>2. Window'[i] = Slot(i - 1)'
    BY <1>1 DEF WindowTyped
  <2>3. Slot(k)' = Slot(k + 1)
    BY DEF WindowDrops
  <2>4. Window[i + 1] = Slot((i + 1) - 1) /\ (i + 1) - 1 = k + 1
    BY <1>1, <2>1 DEF WindowTyped
  <2> QED
    BY <2>1, <2>2, <2>3, <2>4
<1>3. Window' = Tail(Window)
  BY <1>1, <1>2
<1> QED
  BY <1>1, <1>3 DEF Stream!Discard, Window, WindowDrops

LEMMA RewindIsRewind ==
  ASSUME WindowTyped, WindowTyped', WindowRewound
  PROVE  Stream!Rewind
<1>1. /\ Used' = Used /\ Used \in Nat /\ InCore \in Nat
      /\ Len(Window) = Used /\ Len(Window') = Used /\ DOMAIN Window = 1 .. Used
  BY DEF WindowRewound, WindowTyped
<1>2. ASSUME NEW i \in 1 .. Used
      PROVE  Window'[i].inst = Window[i].inst /\ (i > InCore => Window'[i] = Window[i])
  <2>1. PICK k \in 0 .. Used - 1 : k = i - 1
    BY <1>1
  <2>2. Window'[i] = Slot(i - 1)'
    BY <1>1 DEF WindowTyped
  <2>3. Slot(k)'.inst = Slot(k).inst /\ (k >= InCore => Slot(k)' = Slot(k))
    BY DEF WindowRewound
  <2>4. Window[i] = Slot(i - 1)
    BY DEF WindowTyped
  <2> QED
    BY <1>1, <2>1, <2>2, <2>3, <2>4
<1> QED
  BY <1>1, <1>2 DEF Stream!Rewind, Window, WindowRewound

(* Through every growth, wrap and replay the ring is the unbounded stream
   its clients rely on: nothing is lost, repeated or reordered but by a
   replay, which starts again at the oldest instruction not yet retired. *)
THEOREM RingImplementsStream == FlowSpec => ImplementsStream
<1>1. FlowInit => Stream!StreamInit
  <2> SUFFICES ASSUME FlowInit PROVE Stream!StreamInit
    OBVIOUS
  <2>1. InCore = 0 /\ Used = 0
    BY DEF FlowInit, QueueInit, InCore, Used, Dist
  <2>2. Window = <<>>
    BY <2>1 DEF Window
  <2> QED
    BY <2>1, <2>2 DEF Stream!StreamInit, Window, FlowInit, QueueInit
<1>2. Inv /\ [FlowNext]_vars => [Stream!StreamNext]_(Stream!streamVars)
  <2> SUFFICES ASSUME Inv, [FlowNext]_vars PROVE [Stream!StreamNext]_(Stream!streamVars)
    OBVIOUS
  <2>0. WindowTyped /\ WindowTyped'
    BY FlowStep, WindowIsTyped, WindowIsTypedNext
  <2>1. CASE StartRefill \/ UNCHANGED vars
    <3>1. Window' = Window /\ InCore' = InCore /\ ndrop' = ndrop /\ produced' = produced
      BY <2>0, <2>1, StartRefillInv, SameWindow DEF WindowSame
    <3> QED
      BY <3>1 DEF Stream!streamVars, Window
  <2>2. CASE Refill
    <3>1. WindowGains
      BY <2>2, RefillFits, RefillGrows
    <3> QED
      BY <2>0, <3>1, GainIsSupply DEF Stream!StreamNext
  <2>3. CASE ExecuteHead
    <3>1. WindowSame /\ InCore < Used /\ InCore' = InCore + 1 /\ ndrop' = ndrop
      BY <2>3, ExecuteHeadInv
    <3>2. Window' = Window /\ produced' = produced
      BY <2>0, <3>1, SameWindow DEF WindowSame
    <3>3. Stream!Deliver
      BY <2>0, <3>1, <3>2 DEF Stream!Deliver, Window, WindowTyped
    <3> QED
      BY <3>3 DEF Stream!StreamNext
  <2>4. CASE Destroy
    <3>1. CASE WindowSame /\ ndrop > 0 /\ ndrop' = ndrop - 1 /\ InCore' = InCore
      <4>1. Window' = Window /\ produced' = produced
        BY <2>0, <3>1, SameWindow DEF WindowSame
      <4> QED
        BY <3>1, <4>1 DEF Stream!StreamNext, Stream!Discard, Window
    <3>2. CASE WindowDrops /\ ndrop = 0 /\ InCore > 0
      BY <2>0, <3>2, DropIsDiscard DEF Stream!StreamNext, Inv, HeadBetween
    <3> QED
      BY <2>4, <3>1, <3>2, DestroyInv
  <2>5. CASE SyncHeadTail
    <3>1. WindowRewound
      BY <2>5, SyncHeadTailInv
    <3> QED
      BY <2>0, <3>1, RewindIsRewind DEF Stream!StreamNext
  <2> QED
    BY <2>1, <2>2, <2>3, <2>4, <2>5 DEF FlowNext
<1> QED
  BY <1>1, <1>2, FlowInvariant, PTL DEF FlowSpec, ImplementsStream, Stream!StreamSpec
=============================================================================
