--------------------------- MODULE EmuDInstQueue ---------------------------
(***************************************************************************)
(* The growable ring between an emulation reader and a core                *)
(* (emul/libemulint/EmuDInstQueue.{h,cpp}).  The reader stores at          *)
(* insertpoint, the fetch engine takes at head, a destroyed instruction    *)
(* advances tail, and a replay moves head back to tail.                    *)
(*                                                                         *)
(* The class masks indices with (trace.size()-1), the size being a power   *)
(* of two; that is the remainder by the size.  The I(...) checks of the    *)
(* class are not guards here: they are what the invariants have to show.   *)
(***************************************************************************)
EXTENDS Integers, Sequences

CONSTANTS InitSize,   \* 1024 in the code
          Null        \* an unset slot of trace

ASSUME InitSizeAssumption == InitSize \in Nat \ {0}

VARIABLES trace,        \* the slots, a function on 0..size-1
          size,         \* trace.size()
          head, tail, insertpoint, ndrop, nFreeElems

queueVars == <<trace, size, head, tail, insertpoint, ndrop, nFreeElems>>

QueueInit ==
  /\ size = InitSize
  /\ trace = [i \in 0 .. InitSize - 1 |-> Null]
  /\ head = 0 /\ tail = 0 /\ insertpoint = 0 /\ ndrop = 0
  /\ nFreeElems = InitSize

\* Mutant: the index is not masked.
MaskedNoWrap(i) == i

Masked(i) == i % size

\* How far j lies ahead of i on the ring.
Dist(i, j) == IF j >= i THEN j - i ELSE size - (i - j)

Empty == head = insertpoint

\* Mutant: the slot at tail is handed out.
GetHeadTail == trace[tail]

GetHead == trace[head]

\* Mutant: head rebased as if it never lay below tail.
AdjustTraceHeadUnwrapped(tr) ==
  /\ size' = 2 * size
  /\ trace' = [i \in 0 .. 2 * size - 1 |->
                 IF i < size THEN tr[i] ELSE tr[Masked(tail + (i - size))]]
  /\ head' = size + head - tail
  /\ tail' = size
  /\ insertpoint' = 0
  /\ nFreeElems' = size

\* Mutant: head rebased one place too far.
AdjustTraceHeadOffByOne(tr) ==
  /\ size' = 2 * size
  /\ trace' = [i \in 0 .. 2 * size - 1 |->
                 IF i < size THEN tr[i] ELSE tr[Masked(tail + (i - size))]]
  /\ head' = (IF head >= tail THEN size + head - tail ELSE size + size - (tail - head)) + 1
  /\ tail' = size
  /\ insertpoint' = 0
  /\ nFreeElems' = size

\* Mutant: the slots are copied from index 0 instead of from tail.
AdjustTraceStraightCopy(tr) ==
  /\ size' = 2 * size
  /\ trace' = [i \in 0 .. 2 * size - 1 |-> tr[Masked(i)]]
  /\ head' = IF head >= tail THEN size + head - tail ELSE size + size - (tail - head)
  /\ tail' = size
  /\ insertpoint' = 0
  /\ nFreeElems' = size

\* adjust_trace: double the ring, copying it so that it starts at the old size.
AdjustTrace(tr) ==
  /\ size' = 2 * size
  /\ trace' = [i \in 0 .. 2 * size - 1 |->
                 IF i < size THEN tr[i] ELSE tr[Masked(tail + (i - size))]]
  /\ head' = IF head >= tail THEN size + head - tail ELSE size + size - (tail - head)
  /\ tail' = size
  /\ insertpoint' = 0
  /\ nFreeElems' = size

\* *getInsertPointRef() = d; add(), the ring growing when its last slot is used.
Add(d) ==
  LET stored == [trace EXCEPT ![insertpoint] = d] IN
  /\ \/ /\ nFreeElems - 1 = 0
        /\ AdjustTrace(stored)
     \/ /\ nFreeElems - 1 # 0
        /\ trace' = stored
        /\ insertpoint' = Masked(insertpoint + 1)
        /\ nFreeElems' = nFreeElems - 1
        /\ UNCHANGED <<size, head, tail>>
  /\ UNCHANGED ndrop

PopHead ==
  /\ head' = Masked(head + 1)
  /\ UNCHANGED <<trace, size, tail, insertpoint, ndrop, nFreeElems>>

\* One more instruction left the core; those whose slot a replay already
\* reused only lower ndrop.
AdvanceTail ==
  LET moves == ndrop = 0 /\ insertpoint # tail IN
  /\ ndrop' = IF ndrop # 0 THEN ndrop - 1 ELSE ndrop
  /\ tail' = IF moves THEN Masked(tail + 1) ELSE tail
  /\ nFreeElems' = IF moves THEN nFreeElems + 1 ELSE nFreeElems
  /\ UNCHANGED <<trace, size, head, insertpoint>>

\* DInst::clone: the same instruction, with an ID of its own.
Clone(d, id) == [inst |-> d.inst, id |-> id]

\* Mutant: the copies of an earlier replay are forgotten.
MoveHead2TailForgetsDrops(id) ==
  LET moved == Dist(tail, head) IN
  /\ trace' = [i \in 0 .. size - 1 |->
                 IF Dist(tail, i) < moved THEN Clone(trace[i], id + Dist(tail, i))
                                          ELSE trace[i]]
  /\ ndrop' = moved
  /\ head' = tail
  /\ UNCHANGED <<size, tail, insertpoint, nFreeElems>>

\* Every slot from tail up to head is replaced by its clone, in order; id is
\* the ID of the first clone.
MoveHead2Tail(id) ==
  LET moved == Dist(tail, head) IN
  /\ trace' = [i \in 0 .. size - 1 |->
                 IF Dist(tail, i) < moved THEN Clone(trace[i], id + Dist(tail, i))
                                          ELSE trace[i]]
  /\ ndrop' = ndrop + moved
  /\ head' = tail
  /\ UNCHANGED <<size, tail, insertpoint, nFreeElems>>

\* The number of used slots, as size() computes it.
Size == size - nFreeElems
=============================================================================
