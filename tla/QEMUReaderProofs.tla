-------------------------- MODULE QEMUReaderProofs --------------------------
(***************************************************************************)
(* The FIFO between the QEMU thread and the simulation thread, for every   *)
(* index width, batch size and program.                                    *)
(*                                                                         *)
(* Neither thread asks enough to be safe with every program: syscall()     *)
(* pushes without asking full(), and executeHead's loop does not count the *)
(* entries that it merges.  What is proved is that nothing else can go     *)
(* wrong: as long as the indices do not cross the FIFO is a channel, and   *)
(* they do not cross when the program is Modest.                           *)
(***************************************************************************)
EXTENDS QEMUReader, WellFoundedInduction, TLAPS

InBatch == cpc \in {"uop", "wait", "merge"}

(* Where the two threads are, beyond their types. *)
Pace ==
  /\ ppc # "run" => pushes < pos
  /\ InBatch => left >= 1
  /\ ppc = "push" => array[tail].seq = pushes + 1

TypeInv == TypeOK /\ Pace

-----------------------------------------------------------------------------
(* The indices. *)

LEMMA NIs == N \in Nat /\ N > 3 /\ 0 \in Index /\ Bulk \in Nat /\ Bulk >= 1 /\ Bulk <= N - 2
BY NAssumption, BulkAssumption DEF Index

LEMMA WrapIs ==
  ASSUME NEW i \in 0 .. 2 * N - 1
  PROVE  Wrap(i) = IF i < N THEN i ELSE i - N
<1>0. N \in Nat /\ N > 3
  BY NIs
<1>1. CASE i < N
  BY <1>0, <1>1 DEF Wrap
<1>2. CASE i >= N
  BY <1>0, <1>2 DEF Wrap
<1> QED BY <1>0, <1>1, <1>2

LEMMA NextIndex ==
  ASSUME NEW i \in Index
  PROVE  Wrap(i + 1) \in Index /\ Wrap(i + 1) = IF i + 1 = N THEN 0 ELSE i + 1
<1>1. i + 1 \in 0 .. 2 * N - 1
  BY NIs DEF Index
<1> QED BY <1>1, WrapIs, NIs DEF Index

(* The slot of the entry i places after the one at head. *)
LEMMA SlotIs ==
  ASSUME NEW h \in Index, NEW i \in Index
  PROVE  Wrap(h + i) \in Index /\ Wrap(h + i) = IF h + i < N THEN h + i ELSE h + i - N
<1>1. h + i \in 0 .. 2 * N - 1
  BY NIs DEF Index
<1> QED BY <1>1, WrapIs, NIs DEF Index

LEMMA Apart ==
  ASSUME NEW h \in Index, NEW t \in Index
  PROVE  /\ Wrap(t - h + N) \in Nat /\ Wrap(t - h + N) \in Index /\ Wrap(t - h + N) <= N - 1
         /\ Wrap(t - h + N) = IF t >= h THEN t - h ELSE t - h + N
<1>1. t - h + N \in 0 .. 2 * N - 1
  BY NIs DEF Index
<1> QED BY <1>1, WrapIs, NIs DEF Index

LEMMA HeadSlot ==
  ASSUME NEW h \in Index
  PROVE  Wrap(h + 0) = h
<1>1. 0 \in Index
  BY NIs
<1>2. Wrap(h + 0) = IF h + 0 < N THEN h + 0 ELSE h + 0 - N
  BY <1>1, SlotIs, Zenon
<1> QED BY <1>2, NIs DEF Index

LEMMA CountIs ==
  ASSUME head \in Index, tail \in Index
  PROVE  /\ Count \in Nat /\ Count \in Index /\ Count <= N - 1
         /\ Count = IF tail >= head THEN tail - head ELSE tail - head + N
BY Apart, Zenon DEF Count

LEMMA CountIsNext ==
  ASSUME head' \in Index, tail' \in Index
  PROVE  /\ Count' \in Nat /\ Count' \in Index /\ Count' <= N - 1
         /\ Count' = IF tail' >= head' THEN tail' - head' ELSE tail' - head' + N
BY Apart, Zenon DEF Count

(* full() is asked with room for one or two more entries. *)
LEMMA FullIs ==
  ASSUME head \in Index, tail \in Index
  PROVE  /\ Full => Count >= N - 2
         /\ ~Full => Count < N - 1
<1>1. Wrap(tail + 1) = IF tail + 1 = N THEN 0 ELSE tail + 1
  BY NextIndex
<1> QED BY <1>1, CountIs, NIs DEF Index, Full

(* The slot at tail is none of those between head and tail. *)
LEMMA TailIsFree ==
  ASSUME head \in Index, tail \in Index, NEW i \in 0 .. Count - 1
  PROVE  Wrap(head + i) \in Index /\ Wrap(head + i) # tail
<1>1. i \in Index
  BY CountIs, NIs DEF Index
<1>2. Wrap(head + i) \in Index /\ Wrap(head + i) = IF head + i < N THEN head + i ELSE head + i - N
  BY <1>1, SlotIs
<1> QED BY <1>2, CountIs, NIs DEF Index

LEMMA TailIsNext ==
  ASSUME head \in Index, tail \in Index
  PROVE  Wrap(head + Count) = tail
<1>1. Wrap(head + Count) = IF head + Count < N THEN head + Count ELSE head + Count - N
  BY CountIs, SlotIs
<1> QED BY <1>1, CountIs, NIs DEF Index

(* What a push and a pop do to the number of entries. *)
LEMMA PushCount ==
  ASSUME head \in Index, tail \in Index, Count < N - 1, tail' = Wrap(tail + 1), head' = head
  PROVE  Count' = Count + 1
<1>1. tail' \in Index /\ tail' = IF tail + 1 = N THEN 0 ELSE tail + 1
  BY NextIndex
<1> QED BY <1>1, CountIs, CountIsNext, NIs DEF Index

LEMMA PopCount ==
  ASSUME head \in Index, tail \in Index, Count > 0, head' = Wrap(head + 1), tail' = tail
  PROVE  Count' = Count - 1
<1>1. head' \in Index /\ head' = IF head + 1 = N THEN 0 ELSE head + 1
  BY NextIndex
<1> QED BY <1>1, CountIs, CountIsNext, NIs DEF Index

LEMMA PopShifts ==
  ASSUME head \in Index, tail \in Index, head' = Wrap(head + 1), NEW i \in 0 .. Count - 2
  PROVE  Wrap(head' + i) = Wrap(head + (i + 1))
<1>1. head' \in Index /\ head' = IF head + 1 = N THEN 0 ELSE head + 1
  BY NextIndex
<1>2. i \in Index /\ i + 1 \in Index
  BY CountIs, NIs DEF Index
<1>3. Wrap(head' + i) = IF head' + i < N THEN head' + i ELSE head' + i - N
  BY <1>1, <1>2, SlotIs
<1>4. Wrap(head + (i + 1)) = IF head + (i + 1) < N THEN head + (i + 1) ELSE head + (i + 1) - N
  BY <1>2, SlotIs
<1> QED BY <1>1, <1>2, <1>3, <1>4, NIs DEF Index

-----------------------------------------------------------------------------
(* Types. *)

LEMMA ProgIs ==
  ASSUME prog \in Programs
  PROVE  prog \in Seq(Instr) /\ Len(prog) \in Nat /\ \A i \in 1 .. Len(prog) : prog[i] \in Instr
<1>1. prog \in Seq(Instr)
  BY ProgramsAssumption
<1> QED BY <1>1

LEMMA InitTyped == Init => TypeInv
<1> SUFFICES ASSUME Init PROVE TypeInv
  OBVIOUS
<1>1. Blank \in Items
  BY DEF Blank, Items, Uops
<1>2. array \in [Index -> Items]
  BY <1>1 DEF Init, FifoInit
<1>3. prog \in Programs /\ Len(prog) \in Nat
  BY ProgIs DEF Init
<1>4. pos \in 0 .. Len(prog) /\ pushes \in 0 .. pos /\ left \in 0 .. Bulk
  BY <1>3, NIs DEF Init
<1>5. Pace
  BY DEF Init, Pace, InBatch
<1> QED BY <1>2, <1>3, <1>4, <1>5, NIs DEF Init, FifoInit, TypeInv, TypeOK

(* What CreateDInst does to the simulation thread's variables. *)
LEMMA CreateTyped ==
  ASSUME TypeOK, NEW e \in Items, NEW k \in Nat, CreateDInst(e, k)
  PROVE  /\ ruffer' \in Seq(Nat \X Nat) /\ created' \in Seq(Nat \X Nat)
         /\ first' \in BOOLEAN /\ last_PC' \in Nat /\ j' \in Nat \ {0} /\ cpc' = "uop"
<1>1. /\ e.seq \in Nat /\ e.pc \in Nat /\ e.uops \in Uops /\ Len(e.uops) \in Nat
  BY DEF Items, Uops
<1>2. <<e.seq, k>> \in Nat \X Nat
  BY <1>1
<1>3. ruffer' \in Seq(Nat \X Nat) /\ created' \in Seq(Nat \X Nat)
  BY <1>2 DEF CreateDInst, TypeOK
<1>4. first' \in BOOLEAN /\ last_PC' \in Nat /\ cpc' = "uop"
  BY <1>1 DEF CreateDInst, TypeOK, IsMemOrRet
<1>5. j' \in Nat \ {0}
  BY <1>1 DEF CreateDInst
<1> QED BY <1>3, <1>4, <1>5

(* The parts of TypeInv that the QEMU thread and the simulation thread     *)
(* write.                                                                  *)
QemuTyped ==
  /\ tail \in Index /\ array \in [Index -> Items] /\ prog \in Programs
  /\ ppc \in {"run", "sleep", "fill", "push"}
  /\ pos \in 0 .. Len(prog) /\ pushes \in 0 .. pos
  /\ ppc # "run" => pushes < pos
  /\ ppc = "push" => array[tail].seq = pushes + 1

SimTyped ==
  /\ head \in Index /\ last_PC \in Nat
  /\ ruffer \in Seq(Nat \X Nat) /\ created \in Seq(Nat \X Nat)
  /\ cpc \in {"idle", "uop", "wait", "merge", "hand"}
  /\ left \in 0 .. Bulk /\ j \in Nat \ {0} /\ first \in BOOLEAN
  /\ InBatch => left >= 1

LEMMA TypeParts == TypeInv <=> QemuTyped /\ SimTyped /\ active \in BOOLEAN
BY DEF TypeInv, TypeOK, Pace, QemuTyped, SimTyped

LEMMA TypePartsNext == QemuTyped' /\ SimTyped' /\ active' \in BOOLEAN => TypeInv'
BY DEF TypeInv, TypeOK, Pace, QemuTyped, SimTyped

LEMMA QemuTypedStep ==
  ASSUME QemuTyped, QemuStep
  PROVE  QemuTyped' /\ UNCHANGED <<head, simVars, active>>
<1>0. /\ prog \in Seq(Instr) /\ Len(prog) \in Nat /\ \A i \in 1 .. Len(prog) : prog[i] \in Instr
      /\ pos \in Nat /\ pushes \in Nat
  BY ProgIs DEF QemuTyped
<1>1. CASE Execute
  BY <1>0, <1>1 DEF QemuTyped, Execute, fifoVars
<1>2. CASE Wakeup
  BY <1>0, <1>2 DEF QemuTyped, Wakeup, fifoVars
<1>3. CASE Fill
  <2>1. prog[pos] \in Instr
    BY <1>0, <1>3 DEF Fill, QemuTyped
  <2> DEFINE x == [pc |-> prog[pos].pc, uops |-> prog[pos].uops, addr |-> prog[pos].addr, seq |-> pushes + 1]
  <2>2. x \in Items /\ x.seq = pushes + 1
    BY <1>0, <2>1 DEF Instr, Items
  <2>3. /\ array' = [array EXCEPT ![tail] = x] /\ UNCHANGED <<head, tail, prog, pos, pushes, simVars, active>>
        /\ ppc' \in {"run", "push"} /\ ppc = "fill"
    BY <1>3 DEF Fill, SetTail
  <2> HIDE DEF x
  <2>4. array' \in [Index -> Items] /\ array'[tail].seq = pushes + 1
    BY <2>2, <2>3 DEF QemuTyped
  <2> QED BY <2>3, <2>4 DEF QemuTyped
<1>4. CASE Publish
  <2>1. tail' \in Index
    BY <1>4, NextIndex DEF Publish, Push, QemuTyped
  <2> QED BY <1>0, <1>4, <2>1 DEF Publish, Push, QemuTyped
<1> QED BY <1>1, <1>2, <1>3, <1>4 DEF QemuStep

LEMMA SimTypedStep ==
  ASSUME TypeInv, SimStep
  PROVE  SimTyped' /\ UNCHANGED <<array, tail, qemuVars, active>>
<1>0. /\ SimTyped /\ TypeOK /\ left \in Nat /\ j \in Nat /\ head \in Index
      /\ HeadRef \in Items /\ NextHeadRef \in Items /\ Wrap(head + 1) \in Index
  BY TypeParts, NextIndex, NIs DEF TypeInv, TypeOK, HeadRef, NextHeadRef
<1>1. CASE StartBatch
  BY <1>0, <1>1, NIs DEF StartBatch, SimTyped, InBatch, fifoVars
<1>2. CASE EndEntry
  BY <1>0, <1>2, NIs DEF EndEntry, Pop, SimTyped, InBatch
<1>3. CASE Uop
  <2>1. ASSUME CreateDInst(HeadRef, j) PROVE SimTyped' /\ UNCHANGED <<array, tail, qemuVars, active>>
    BY <1>0, <1>3, <2>1, CreateTyped DEF Uop, SimTyped, InBatch, fifoVars
  <2> QED BY <1>0, <1>3, <2>1 DEF Uop, SimTyped, InBatch, fifoVars
<1>4. CASE WaitUntilFifoFull
  BY <1>0, <1>4 DEF WaitUntilFifoFull, SimTyped, InBatch, fifoVars
<1>5. CASE Merge
  <2>1. PICK e \in Items, k \in Nat : CreateDInst(e, k)
    <3>1. Len(NextHeadRef.uops) \in Nat
      BY <1>0 DEF Items, Uops
    <3> QED BY <1>0, <1>5, <3>1 DEF Merge
  <2>2. /\ ruffer' \in Seq(Nat \X Nat) /\ created' \in Seq(Nat \X Nat)
        /\ first' \in BOOLEAN /\ last_PC' \in Nat /\ j' \in Nat \ {0} /\ cpc' = "uop"
    BY <1>0, <2>1, CreateTyped
  <2>3. head' \in Index /\ UNCHANGED <<array, tail, qemuVars, left, active>> /\ cpc = "merge"
    BY <1>0, <1>5 DEF Merge, Pop, fifoVars
  <2> QED BY <1>0, <2>2, <2>3 DEF SimTyped, InBatch
<1>6. CASE HandOut
  <2>1. Tail(ruffer) \in Seq(Nat \X Nat)
    BY <1>0, <1>6 DEF HandOut, SimTyped
  <2> QED BY <1>0, <1>6, <2>1 DEF HandOut, SimTyped, InBatch, fifoVars
<1> QED BY <1>1, <1>2, <1>3, <1>4, <1>5, <1>6 DEF SimStep

LEMMA TypeStep == TypeInv /\ [Next]_vars => TypeInv'
<1> SUFFICES ASSUME TypeInv, [Next]_vars PROVE TypeInv'
  OBVIOUS
<1>0. QemuTyped /\ SimTyped /\ active \in BOOLEAN
  BY TypeParts
<1>1. CASE QemuStep
  <2>1. QemuTyped' /\ SimTyped' /\ active' \in BOOLEAN
    BY <1>0, <1>1, QemuTypedStep DEF SimTyped, InBatch, simVars
  <2> QED BY <2>1, TypePartsNext
<1>2. CASE SimStep
  <2>1. QemuTyped' /\ SimTyped' /\ active' \in BOOLEAN
    BY <1>0, <1>2, SimTypedStep DEF QemuTyped, qemuVars
  <2> QED BY <2>1, TypePartsNext
<1>3. CASE SamplerToggle \/ UNCHANGED vars
  <2>1. QemuTyped' /\ SimTyped' /\ active' \in BOOLEAN
    BY <1>0, <1>3 DEF SamplerToggle, vars, QemuTyped, SimTyped, InBatch, qemuVars, simVars, fifoVars
  <2> QED BY <2>1, TypePartsNext
<1> QED BY <1>1, <1>2, <1>3 DEF Next

(* The types, with where the two threads are: an entry is filled before it *)
(* is published, under the number it is published with, and a batch that   *)
(* runs has entries left to take.                                          *)
THEOREM TypeInvariant == Spec => []TypeInv
<1> QED BY InitTyped, TypeStep, PTL DEF Spec

(* Every variable keeps its type: in particular the batch loop's counter   *)
(* of executeHead never runs below zero, and no more entries are published *)
(* than instructions were executed.                                        *)
THEOREM TypeCorrect == Spec => []TypeOK
<1>1. TypeInv => TypeOK
  BY DEF TypeInv
<1> QED BY <1>1, TypeInvariant, PTL

-----------------------------------------------------------------------------
(* The FIFO as a channel. *)

Held == [i \in 1 .. Count |-> array[Wrap(head + i - 1)]]

HeldTyped ==
  /\ Held \in Seq(Items) /\ Len(Held) = Count /\ DOMAIN Held = 1 .. Count /\ Count \in Nat
  /\ \A i \in 1 .. Count : Held[i] = array[Wrap(head + i - 1)]

LEMMA HeldIsTyped == TypeInv => HeldTyped
<1> SUFFICES ASSUME TypeInv PROVE HeldTyped
  OBVIOUS
<1>0. head \in Index /\ tail \in Index /\ array \in [Index -> Items] /\ Count \in Nat
  BY CountIs DEF TypeInv, TypeOK
<1>1. ASSUME NEW i \in 1 .. Count PROVE array[Wrap(head + i - 1)] \in Items
  <2>1. PICK k \in 0 .. Count - 1 : k = i - 1 /\ head + k = head + i - 1
    BY <1>0 DEF Index
  <2> QED BY <1>0, <2>1, TailIsFree
<1> HIDE DEF Held
<1>2. Held = [i \in 1 .. Count |-> array[Wrap(head + i - 1)]]
  BY DEF Held
<1> QED BY <1>0, <1>1, <1>2 DEF HeldTyped

LEMMA HeldIsTypedNext == TypeInv' => HeldTyped'
<1>1. TypeInv => HeldTyped
  BY HeldIsTyped
<1> QED BY <1>1, PTL

(* The step does nothing to the FIFO, writes the slot at tail, publishes   *)
(* it, or pops.                                                            *)
Keeps ==
  /\ head' = head /\ tail' = tail /\ pushes' = pushes
  /\ \/ array' = array
     \/ \E x \in Items : array' = [array EXCEPT ![tail] = x]

Pushes ==
  /\ ppc = "push" /\ tail' = Wrap(tail + 1) /\ head' = head /\ array' = array
  /\ pushes' = pushes + 1

Pops ==
  /\ InBatch /\ head' = Wrap(head + 1) /\ tail' = tail /\ array' = array
  /\ pushes' = pushes

LEMMA FifoStep ==
  ASSUME TypeInv, [Next]_vars
  PROVE  Keeps \/ Pushes \/ Pops
<1>1. CASE Execute \/ Wakeup
  BY <1>1 DEF Execute, Wakeup, fifoVars, Keeps
<1>2. CASE Fill
  <2>0. prog[pos] \in Instr /\ pushes + 1 \in Nat
    BY <1>2, ProgIs DEF Fill, TypeInv, TypeOK, Pace
  <2> DEFINE x == [pc |-> prog[pos].pc, uops |-> prog[pos].uops, addr |-> prog[pos].addr, seq |-> pushes + 1]
  <2>1. x \in Items
    BY <2>0 DEF Instr, Items
  <2> QED BY <1>2, <2>1 DEF Fill, SetTail, Keeps
<1>3. CASE Publish
  BY <1>3 DEF Publish, Push, Pushes
<1>4. CASE EndEntry
  BY <1>4 DEF EndEntry, Pop, Pops, InBatch, qemuVars
<1>5. CASE Merge
  BY <1>5 DEF Merge, Pop, Pops, Keeps, InBatch, qemuVars, fifoVars
<1>6. CASE StartBatch \/ Uop \/ WaitUntilFifoFull \/ HandOut
  BY <1>6 DEF StartBatch, Uop, WaitUntilFifoFull, HandOut, Keeps, qemuVars, fifoVars
<1>7. CASE SamplerToggle \/ UNCHANGED vars
  BY <1>7 DEF SamplerToggle, vars, Keeps, qemuVars, fifoVars
<1> QED BY <1>1, <1>2, <1>3, <1>4, <1>5, <1>6, <1>7 DEF Next, QemuStep, SimStep

LEMMA KeepsHeld ==
  ASSUME TypeInv, TypeInv', Keeps
  PROVE  Held' = Held /\ Count' = Count
<1>0. /\ head \in Index /\ tail \in Index /\ array \in [Index -> Items] /\ Count \in Nat
      /\ Count' = Count /\ head' = head
  BY CountIs DEF TypeInv, TypeOK, Keeps, Count
<1>1. ASSUME NEW i \in 1 .. Count
      PROVE  array'[Wrap(head + i - 1)] = array[Wrap(head + i - 1)]
  <2>1. PICK k \in 0 .. Count - 1 : k = i - 1 /\ head + k = head + i - 1
    BY <1>0 DEF Index
  <2>2. Wrap(head + k) \in Index /\ Wrap(head + k) # tail
    BY <1>0, TailIsFree
  <2> QED BY <1>0, <2>1, <2>2 DEF Keeps
<1> QED BY <1>0, <1>1 DEF Held

LEMMA PushesHeld ==
  ASSUME TypeInv, TypeInv', StaysInFIFO, Pushes
  PROVE  Channel!Send
<1>0. /\ head \in Index /\ tail \in Index /\ Count < N - 1 /\ Count \in Nat
      /\ HeldTyped /\ HeldTyped' /\ pushes' = pushes + 1 /\ head' = head /\ array' = array
      /\ tail' = Wrap(tail + 1) /\ array[tail].seq = pushes + 1
  BY CountIs, HeldIsTyped, HeldIsTypedNext DEF TypeInv, TypeOK, Pushes, StaysInFIFO, Pace
<1>1. Count' = Count + 1
  BY <1>0, PushCount
<1>2. ASSUME NEW i \in 1 .. Count PROVE Held'[i] = Held[i]
  BY <1>0, <1>1 DEF HeldTyped
<1>3. Held'[Count + 1] = array[tail]
  <2>1. Held'[Count + 1] = array[Wrap(head + (Count + 1) - 1)]
    BY <1>0, <1>1 DEF HeldTyped
  <2>2. head + (Count + 1) - 1 = head + Count
    BY <1>0 DEF Index
  <2> QED BY <1>0, <2>1, <2>2, TailIsNext
<1>4. /\ Len(Held) < N - 1 /\ Len(Held') = Len(Held) + 1
      /\ \A i \in DOMAIN Held : Held'[i] = Held[i]
      /\ Held'[Len(Held')].seq = pushes'
  BY <1>0, <1>1, <1>2, <1>3 DEF HeldTyped
<1> QED BY <1>0, <1>4 DEF Channel!Send, Held

LEMMA PopsHeld ==
  ASSUME TypeInv, TypeInv', StaysInFIFO, Pops
  PROVE  Channel!Receive
<1>0. /\ head \in Index /\ tail \in Index /\ Count > 0 /\ Count \in Nat
      /\ HeldTyped /\ HeldTyped' /\ pushes' = pushes /\ tail' = tail /\ array' = array
      /\ head' = Wrap(head + 1)
  <2>1. Count >= left /\ left >= 1 /\ left \in Nat
    BY NIs DEF Pops, StaysInFIFO, InBatch, TypeInv, TypeOK, Pace
  <2>2. head \in Index /\ tail \in Index
    BY DEF TypeInv, TypeOK
  <2>3. Count \in Nat
    BY <2>2, CountIs
  <2> QED BY <2>1, <2>2, <2>3, HeldIsTyped, HeldIsTypedNext DEF Pops
<1>1. Count' = Count - 1
  BY <1>0, PopCount
<1>2. ASSUME NEW i \in 1 .. Count - 1 PROVE Held'[i] = Held[i + 1]
  <2>1. PICK k \in 0 .. Count - 2 : k = i - 1
    BY <1>0
  <2>2. Wrap(head' + k) = Wrap(head + (k + 1))
    BY <1>0, PopShifts
  <2>3. head' \in Index
    BY <1>0, NextIndex
  <2>4. head' + k = head' + i - 1 /\ head + (k + 1) = head + (i + 1) - 1
    BY <1>0, <2>1, <2>3 DEF Index
  <2> QED BY <1>0, <1>1, <2>2, <2>4 DEF HeldTyped
<1>3. Held' = Tail(Held) /\ Held # <<>>
  BY <1>0, <1>1, <1>2 DEF HeldTyped
<1> QED BY <1>0, <1>3 DEF Channel!Receive, Held

(* As long as neither thread runs past the other, the FIFO between them is *)
(* a channel: every entry published is received once, unchanged and in     *)
(* order.  A slot that is filled in place, or an index that wraps, never   *)
(* disturbs an entry that waits.                                           *)
THEOREM ChannelWhileInFIFO == Spec /\ []StaysInFIFO => ImplementsChannel
<1>1. Init => Channel!ChannelInit
  <2> SUFFICES ASSUME Init PROVE Channel!ChannelInit
    OBVIOUS
  <2>1. Count = 0
    BY CountIs, NIs DEF Init, FifoInit
  <2> QED BY <2>1 DEF Channel!ChannelInit, Init
<1>2. TypeInv /\ TypeInv' /\ StaysInFIFO /\ [Next]_vars
        => [Channel!Send \/ Channel!Receive]_<<Held, pushes>>
  <2> SUFFICES ASSUME TypeInv, TypeInv', StaysInFIFO, [Next]_vars
               PROVE  [Channel!Send \/ Channel!Receive]_<<Held, pushes>>
    OBVIOUS
  <2>1. CASE Keeps
    BY <2>1, KeepsHeld DEF Keeps
  <2>2. CASE Pushes
    BY <2>2, PushesHeld
  <2>3. CASE Pops
    BY <2>3, PopsHeld
  <2> QED BY <2>1, <2>2, <2>3, FifoStep
<1> QED BY <1>1, <1>2, TypeInvariant, PTL DEF Spec, ImplementsChannel, Channel!ChannelSpec, Held

-----------------------------------------------------------------------------
(* Which instruction an entry came from. *)

INSTANCE FiniteSetTheorems

Shown(p, i) == {k \in 1 .. i : p[k].uops # <<>>}

LEMMA ShownIs ==
  ASSUME NEW i \in Nat
  PROVE  IsFiniteSet(Shown(prog, i)) /\ Number(prog, i) = Cardinality(Shown(prog, i)) /\ Number(prog, i) \in Nat
<1>1. IsFiniteSet(1 .. i)
  BY FS_Interval
<1>2. Shown(prog, i) \in SUBSET (1 .. i)
  BY DEF Shown
<1>3. IsFiniteSet(Shown(prog, i))
  BY <1>1, <1>2, FS_Subset, Zenon
<1>4. Number(prog, i) = Cardinality(Shown(prog, i))
  BY DEF Number, Shown
<1> QED BY <1>3, <1>4, FS_CardinalityType, Zenon

LEMMA NumberStep ==
  ASSUME NEW i \in Nat
  PROVE  Number(prog, i + 1) = IF prog[i + 1].uops # <<>> THEN Number(prog, i) + 1 ELSE Number(prog, i)
<1>1. /\ IsFiniteSet(Shown(prog, i)) /\ Number(prog, i) = Cardinality(Shown(prog, i))
      /\ Number(prog, i + 1) = Cardinality(Shown(prog, i + 1))
  BY ShownIs
<1>2. i + 1 \notin Shown(prog, i)
  BY DEF Shown
<1>3. CASE prog[i + 1].uops # <<>>
  <2>1. Shown(prog, i + 1) = Shown(prog, i) \cup {i + 1}
    BY <1>3 DEF Shown
  <2>2. Cardinality(Shown(prog, i) \cup {i + 1}) = Cardinality(Shown(prog, i)) + 1
    BY <1>1, <1>2, FS_AddElement, Zenon
  <2> QED BY <1>1, <1>3, <2>1, <2>2, Zenon
<1>4. CASE prog[i + 1].uops = <<>>
  <2>1. Shown(prog, i + 1) = Shown(prog, i)
    BY <1>4 DEF Shown
  <2> QED BY <1>1, <1>4, <2>1, Zenon
<1> QED BY <1>3, <1>4

LEMMA NumberGrows ==
  ASSUME NEW i \in Nat, NEW k \in Nat, i <= k
  PROVE  Number(prog, i) <= Number(prog, k)
<1>1. /\ IsFiniteSet(Shown(prog, k)) /\ Number(prog, i) = Cardinality(Shown(prog, i)) /\ Number(prog, k) = Cardinality(Shown(prog, k))
  BY ShownIs
<1>2. Shown(prog, i) \in SUBSET Shown(prog, k)
  BY DEF Shown
<1> QED BY <1>1, <1>2, FS_Subset, Zenon

LEMMA NumberNone == Number(prog, 0) = 0
<1>1. {k \in 1 .. 0 : prog[k].uops # <<>>} = {}
  OBVIOUS
<1> QED BY <1>1, FS_EmptySet, Zenon DEF Number

LEMMA NumberSplits ==
  ASSUME NEW i \in Nat, NEW k \in Nat, i < k, prog[k].uops # <<>>
  PROVE  Number(prog, i) < Number(prog, k)
<1>1. PICK l \in Nat : k = l + 1 /\ i <= l
  <2>1. k - 1 \in Nat /\ k = (k - 1) + 1 /\ i <= k - 1
    OBVIOUS
  <2> QED BY <2>1
<1>2. Number(prog, i) <= Number(prog, l)
  BY <1>1, NumberGrows
<1>3. Number(prog, k) = Number(prog, l) + 1
  BY <1>1, NumberStep, Zenon
<1>4. Number(prog, i) \in Nat /\ Number(prog, l) \in Nat
  BY ShownIs
<1> QED BY <1>2, <1>3, <1>4

LEMMA PlaceIs ==
  ASSUME NEW i \in 1 .. Len(prog), prog[i].uops # <<>>, Len(prog) \in Nat
  PROVE  Place(prog, Number(prog, i)) = i
<1>1. ASSUME NEW k \in 1 .. Len(prog), prog[k].uops # <<>>, Number(prog, k) = Number(prog, i)
      PROVE  k = i
  <2>1. i \in Nat /\ k \in Nat /\ Number(prog, i) \in Nat /\ Number(prog, k) \in Nat
    BY ShownIs
  <2>2. CASE i < k
    <3>1. Number(prog, i) < Number(prog, k)
      BY <1>1, <2>1, <2>2, NumberSplits
    <3> QED BY <1>1, <2>1, <3>1
  <2>3. CASE k < i
    <3>1. Number(prog, k) < Number(prog, i)
      BY <2>1, <2>3, NumberSplits
    <3> QED BY <1>1, <2>1, <3>1
  <2> QED BY <2>1, <2>2, <2>3
<1> QED BY <1>1, Zenon DEF Place

-----------------------------------------------------------------------------
(* Modest programs. *)

(* Entries popped so far; entry s is the s-th that was published. *)
Taken == pushes - Count

OfEntry(p, a, s) ==
  /\ a.pc = p[Place(p, s)].pc /\ a.uops = p[Place(p, s)].uops /\ a.addr = p[Place(p, s)].addr
  /\ a.seq = s /\ a.uops # <<>>

Counted ==
  /\ ppc = "run" => pushes = Number(prog, pos)
  /\ ppc # "run" => pushes = Number(prog, pos - 1)
  /\ ppc = "push" => prog[pos].uops # <<>>

Contents ==
  /\ Count <= pushes
  /\ \A i \in 0 .. Count - 1 : OfEntry(prog, array[Wrap(head + i)], Taken + 1 + i)
  /\ ppc = "push" => OfEntry(prog, array[tail], pushes + 1)

Room == ppc \in {"fill", "push"} => Count < N - 1

(* The load multiples among the entries after the b-th up to the c-th, and *)
(* a batch that started when b entries had been popped: every entry popped *)
(* without being counted was one of those.                                 *)
Mult(p, b, c) == {s \in b + 1 .. c : s < Number(p, Len(p)) /\ Multiple(p, s)}

Since(b) ==
  /\ b <= Taken /\ Taken - b <= N - 3
  /\ pushes - b >= N - 2
  /\ Taken - b <= Bulk - left + Cardinality(Mult(prog, b, Taken))

Batch == InBatch => \E b \in Nat : Since(b)

Loads(e, k) == k <= Len(e.uops) /\ (e.uops[k] = "ret" \/ (e.uops[k] = "mem" /\ e.addr))

Merging == cpc \in {"wait", "merge"} => Loads(HeadRef, j)

Inv == TypeInv /\ Modest(prog) /\ Counted /\ Contents /\ Room /\ Batch /\ Merging

LEMMA Ranges ==
  ASSUME TypeInv
  PROVE  /\ head \in Index /\ tail \in Index /\ array \in [Index -> Items]
         /\ Count \in Nat /\ Count <= N - 1 /\ pushes \in Nat /\ pos \in Nat /\ Len(prog) \in Nat
         /\ pushes <= pos /\ pos <= Len(prog) /\ Taken \in Int /\ left \in Nat /\ left <= Bulk /\ j \in Nat
         /\ N \in Nat /\ N > 3 /\ Bulk \in Nat /\ Bulk <= N - 2 /\ Taken = pushes - Count
<1>1. head \in Index /\ tail \in Index /\ array \in [Index -> Items] /\ Len(prog) \in Nat
  BY ProgIs DEF TypeInv, TypeOK
<1>2. Count \in Nat /\ Count <= N - 1
  BY <1>1, CountIs
<1> QED BY <1>1, <1>2, NIs DEF TypeInv, TypeOK, Taken

LEMMA MultCount ==
  ASSUME NEW b \in Nat, NEW c \in Nat
  PROVE  /\ IsFiniteSet(Mult(prog, b, c)) /\ Cardinality(Mult(prog, b, c)) \in Nat
         /\ c + 1 < Number(prog, Len(prog)) /\ Multiple(prog, c + 1) /\ b <= c =>
              Cardinality(Mult(prog, b, c + 1)) = Cardinality(Mult(prog, b, c)) + 1
         /\ Cardinality(Mult(prog, b, c)) <= Cardinality(Mult(prog, b, c + 1))
<1>1. ASSUME NEW d \in Nat PROVE IsFiniteSet(Mult(prog, b, d))
  <2>1. IsFiniteSet(b + 1 .. d)
    BY FS_Interval
  <2>2. Mult(prog, b, d) \in SUBSET (b + 1 .. d)
    BY DEF Mult
  <2> QED BY <2>1, <2>2, FS_Subset, Zenon
<1>2. IsFiniteSet(Mult(prog, b, c)) /\ IsFiniteSet(Mult(prog, b, c + 1))
  BY <1>1
<1>3. ASSUME c + 1 < Number(prog, Len(prog)), Multiple(prog, c + 1), b <= c
      PROVE  Cardinality(Mult(prog, b, c + 1)) = Cardinality(Mult(prog, b, c)) + 1
  <2>1. Mult(prog, b, c + 1) = Mult(prog, b, c) \cup {c + 1} /\ c + 1 \notin Mult(prog, b, c)
    BY <1>3 DEF Mult
  <2> QED BY <1>2, <2>1, FS_AddElement, Zenon
<1>4. Mult(prog, b, c) \in SUBSET Mult(prog, b, c + 1)
  BY DEF Mult
<1> QED BY <1>2, <1>3, <1>4, FS_CardinalityType, FS_Subset, Zenon

(* A batch of a Modest program always leaves an entry. *)
LEMMA OneLeft ==
  ASSUME TypeInv, Modest(prog), Contents, NEW b \in Nat, Since(b), InBatch
  PROVE  Count >= left + 1 /\ left >= 1 /\ Taken - b <= N - 3 - left
<1>0. /\ b \in 0 .. Len(prog) /\ Taken \in Nat /\ b <= Taken /\ Taken <= b + N - 3
      /\ N \in Nat /\ N > 3 /\ left >= 1 /\ left \in Nat
  <2>1. Count <= pushes /\ b <= Taken /\ Taken - b <= N - 3 /\ left >= 1
    BY Zenon DEF Contents, Since, TypeInv, Pace
  <2>2. /\ pushes \in Nat /\ Count \in Nat /\ Taken = pushes - Count /\ left \in Nat
        /\ pushes <= pos /\ pos <= Len(prog) /\ pos \in Nat /\ Len(prog) \in Nat /\ N \in Nat /\ N > 3
    BY Ranges, Zenon
  <2> QED BY <2>1, <2>2
<1>1. Cardinality({s \in b + 1 .. b + N - 3 : s < Number(prog, Len(prog)) /\ Multiple(prog, s)}) <= N - 3 - Bulk
  BY <1>0, Zenon DEF Modest
<1>2. PICK w \in Nat : w = b + N - 3
  BY <1>0
<1>3. Cardinality(Mult(prog, b, w)) <= N - 3 - Bulk
  BY <1>1, <1>2, Zenon DEF Mult
<1>4. Mult(prog, b, Taken) \in SUBSET Mult(prog, b, w)
  BY <1>0, <1>2 DEF Mult
<1>5. IsFiniteSet(Mult(prog, b, w)) /\ Cardinality(Mult(prog, b, w)) \in Nat /\ Cardinality(Mult(prog, b, Taken)) \in Nat
  BY <1>0, MultCount, Zenon
<1>6. Cardinality(Mult(prog, b, Taken)) <= Cardinality(Mult(prog, b, w))
  BY <1>4, <1>5, FS_Subset, Zenon
<1>7. Taken - b <= Bulk - left + Cardinality(Mult(prog, b, Taken)) /\ pushes - b >= N - 2
  BY DEF Since
<1>8. PICK m \in Nat : m = Cardinality(Mult(prog, b, Taken)) /\ m <= N - 3 - Bulk
  <2>1. PICK m \in Nat, u \in Nat : m = Cardinality(Mult(prog, b, Taken)) /\ u = Cardinality(Mult(prog, b, w))
    BY <1>5, Zenon
  <2>2. m <= u /\ u <= N - 3 - Bulk
    BY <1>3, <1>6, <2>1, Zenon
  <2>3. m <= N - 3 - Bulk
    BY <2>2, NIs
  <2> QED BY <2>1, <2>3, Zenon
<1>9. Taken - b <= Bulk - left + m
  BY <1>7, <1>8, Zenon
<1>10. pushes \in Nat /\ Count \in Nat /\ Taken = pushes - Count /\ Bulk \in Nat
  BY Ranges, Zenon
<1>11. N \in Nat /\ left \in Nat /\ Taken \in Nat /\ m <= N - 3 - Bulk /\ pushes - b >= N - 2 /\ left >= 1
  BY <1>0, <1>7, <1>8, Zenon
<1> QED BY <1>9, <1>10, <1>11

LEMMA ModestStays == Inv => StaysInFIFO
<1> SUFFICES ASSUME Inv PROVE StaysInFIFO
  OBVIOUS
<1>1. ASSUME InBatch PROVE Count >= left
  <2>1. PICK b \in Nat : Since(b)
    BY <1>1 DEF Inv, Batch
  <2>2. Count >= left + 1
    BY <1>1, <2>1, OneLeft DEF Inv
  <2> QED BY <2>2, Ranges DEF Inv
<1> QED BY <1>1 DEF StaysInFIFO, InBatch, Inv, Room

LEMMA ModestInit == Init /\ Modest(prog) => Inv
<1> SUFFICES ASSUME Init, Modest(prog) PROVE Inv
  OBVIOUS
<1>0. TypeInv /\ N \in Nat /\ N > 3
  BY InitTyped, NIs
<1>1. head = 0 /\ tail = 0 /\ pushes = 0 /\ pos = 0 /\ ppc = "run" /\ cpc = "idle"
  BY DEF Init, FifoInit
<1>2. Count = 0
  BY <1>0, <1>1, CountIs, NIs
<1>3. Counted
  BY <1>1, NumberNone DEF Counted
<1>4. Contents
  BY <1>1, <1>2 DEF Contents
<1> QED BY <1>0, <1>1, <1>3, <1>4 DEF Inv, Room, Batch, InBatch, Merging

(* The entries that wait are not touched by what Keeps allows. *)
LEMMA KeepsSlots ==
  ASSUME TypeInv, Keeps
  PROVE  /\ Count' = Count /\ Taken' = Taken
         /\ \A i \in 0 .. Count - 1 : array'[Wrap(head + i)] = array[Wrap(head + i)]
         /\ Count > 0 => HeadRef' = HeadRef
<1>0. head \in Index /\ tail \in Index /\ array \in [Index -> Items] /\ Count \in Nat
  BY Ranges
<1>1. Count' = Count /\ Taken' = Taken
  BY DEF Keeps, Count, Taken
<1>2. ASSUME NEW i \in 0 .. Count - 1 PROVE array'[Wrap(head + i)] = array[Wrap(head + i)]
  <2>1. Wrap(head + i) \in Index /\ Wrap(head + i) # tail
    BY <1>0, TailIsFree
  <2> QED BY <1>0, <2>1 DEF Keeps
<1>3. ASSUME Count > 0 PROVE HeadRef' = HeadRef
  <2>1. 0 \in 0 .. Count - 1 /\ 0 \in Index
    BY <1>0, <1>3, NIs
  <2>2. Wrap(head + 0) = head
    BY <1>0, HeadSlot
  <2>3. array'[head] = array[head]
    BY <1>2, <2>1, <2>2
  <2> QED BY <2>3 DEF HeadRef, Keeps
<1> QED BY <1>1, <1>2, <1>3

(* A step that only moves the QEMU thread, writing at most the slot at     *)
(* tail, leaves what the simulation thread relies on.                      *)
LEMMA SimUndisturbed ==
  ASSUME Inv, TypeInv', Keeps, UNCHANGED <<prog, cpc, left, j>>
  PROVE  /\ Modest(prog)' /\ Batch' /\ Merging' /\ Count' = Count /\ Taken' = Taken
         /\ Count' <= pushes'
         /\ \A i \in 0 .. Count' - 1 : OfEntry(prog, array[Wrap(head + i)], Taken + 1 + i)'
<1>0. TypeInv /\ Modest(prog) /\ Contents /\ Batch /\ Merging /\ Count <= pushes
  BY DEF Inv, Contents
<1>1. /\ Count' = Count /\ Taken' = Taken /\ head' = head /\ pushes' = pushes
      /\ \A i \in 0 .. Count - 1 : array'[Wrap(head + i)] = array[Wrap(head + i)]
      /\ Count > 0 => HeadRef' = HeadRef
  BY <1>0, KeepsSlots DEF Keeps
<1>2. Modest(prog)'
  BY <1>0
<1>3. \A i \in 0 .. Count' - 1 : OfEntry(prog, array[Wrap(head + i)], Taken + 1 + i)'
  <2>1. ASSUME NEW i \in 0 .. Count - 1
        PROVE  OfEntry(prog, array[Wrap(head + i)], Taken + 1 + i)'
    <3>1. OfEntry(prog, array[Wrap(head + i)], Taken + 1 + i)
      BY <1>0 DEF Contents
    <3> QED BY <1>1, <3>1
  <2> QED BY <1>1, <2>1
<1>4. Batch'
  <2>1. ASSUME NEW b \in Nat, Since(b) PROVE Since(b)'
    BY <1>1, <2>1 DEF Since
  <2> QED BY <1>0, <2>1, Zenon DEF Batch, InBatch
<1>5. Merging'
  <2>1. ASSUME cpc \in {"wait", "merge"} PROVE Count > 0
    <3>1. InBatch
      BY <2>1 DEF InBatch
    <3>2. PICK b \in Nat : Since(b)
      BY <1>0, <3>1 DEF Batch
    <3>3. Count >= left + 1 /\ left >= 1
      BY <1>0, <3>1, <3>2, OneLeft
    <3> QED BY <1>0, <3>3, Ranges
  <2> QED BY <1>0, <1>1, <2>1, Zenon DEF Merging, Loads
<1> QED BY <1>0, <1>1, <1>2, <1>3, <1>4, <1>5

LEMMA BeforePos ==
  ASSUME TypeInv, ppc # "run"
  PROVE  pos \in 1 .. Len(prog) /\ pos - 1 \in Nat /\ (pos - 1) + 1 = pos
<1>1. pushes < pos
  BY DEF TypeInv, Pace
<1>2. pushes \in Nat /\ pos \in Nat /\ Len(prog) \in Nat /\ pos <= Len(prog)
  BY Ranges, Zenon
<1> QED BY <1>1, <1>2

LEMMA QemuModest ==
  ASSUME Inv, TypeInv', QemuStep
  PROVE  Inv'
<1>0. /\ TypeInv /\ Modest(prog) /\ Counted /\ Contents /\ Room /\ Batch /\ Merging
      /\ head \in Index /\ tail \in Index /\ pos \in Nat /\ pushes \in Nat /\ Len(prog) \in Nat
      /\ Count \in Nat /\ array \in [Index -> Items]
  BY Ranges, Zenon DEF Inv
<1>1. CASE Execute
  <2>1. /\ Keeps /\ UNCHANGED <<prog, cpc, left, j, array, tail>> /\ ppc = "run" /\ pos < Len(prog)
        /\ pos' = pos + 1 /\ pushes' = pushes
        /\ ppc' = IF prog[pos + 1].op = "inst" /\ Full THEN "sleep" ELSE "fill"
    BY <1>1 DEF Execute, Keeps, fifoVars, simVars
  <2>2. /\ Modest(prog)' /\ Batch' /\ Merging' /\ Count' = Count /\ Count' <= pushes'
        /\ \A i \in 0 .. Count' - 1 : OfEntry(prog, array[Wrap(head + i)], Taken + 1 + i)'
    BY <2>1, SimUndisturbed, Zenon
  <2>3. pos + 1 \in 1 .. Len(prog) /\ pos' - 1 = pos
    BY <1>0, <2>1
  <2>4. prog[pos + 1].op = "inst"
    BY <1>0, <2>3, Zenon DEF Modest
  <2>5. Room'
    BY <1>0, <2>1, <2>2, <2>4, FullIs DEF Room
  <2>6. Counted'
    BY <1>0, <2>1, <2>3 DEF Counted
  <2>7. Contents'
    BY <2>1, <2>2, Zenon DEF Contents
  <2> QED BY <2>2, <2>5, <2>6, <2>7, Zenon DEF Inv
<1>2. CASE Wakeup
  <2>1. /\ Keeps /\ UNCHANGED <<prog, pos, pushes, cpc, left, j>> /\ ppc = "sleep" /\ ~Full /\ ppc' = "fill"
    BY <1>2 DEF Wakeup, Keeps, fifoVars, simVars
  <2>2. /\ Modest(prog)' /\ Batch' /\ Merging' /\ Count' = Count /\ Count' <= pushes'
        /\ \A i \in 0 .. Count' - 1 : OfEntry(prog, array[Wrap(head + i)], Taken + 1 + i)'
    BY <2>1, SimUndisturbed, Zenon
  <2>5. Room'
    BY <1>0, <2>1, <2>2, FullIs DEF Room
  <2>6. Counted'
    BY <1>0, <2>1 DEF Counted
  <2>7. Contents'
    BY <2>1, <2>2 DEF Contents
  <2> QED BY <2>2, <2>5, <2>6, <2>7, Zenon DEF Inv
<1>3. CASE Fill
  <2>0. /\ pos \in 1 .. Len(prog) /\ pos - 1 \in Nat /\ (pos - 1) + 1 = pos /\ ppc = "fill"
        /\ pushes = Number(prog, pos - 1) /\ Number(prog, pos - 1) \in Nat
    <3>1. ppc = "fill" /\ ppc # "run"
      BY <1>3 DEF Fill
    <3>2. pos \in 1 .. Len(prog) /\ pos - 1 \in Nat /\ (pos - 1) + 1 = pos
      BY <1>0, <3>1, BeforePos
    <3> QED BY <1>0, <3>1, <3>2, ShownIs, Zenon DEF Counted
  <2> DEFINE x == [pc |-> prog[pos].pc, uops |-> prog[pos].uops, addr |-> prog[pos].addr, seq |-> pushes + 1]
  <2>1. /\ array' = [array EXCEPT ![tail] = x] /\ UNCHANGED <<head, tail, prog, pos, pushes, cpc, left, j>>
        /\ ppc' = IF prog[pos].uops = <<>> THEN "run" ELSE "push"
    BY <1>3 DEF Fill, SetTail, simVars
  <2>2. Keeps
    <3>1. prog[pos] \in Instr
      BY <1>0, <2>0, ProgIs DEF TypeInv, TypeOK
    <3>2. x \in Items
      BY <1>0, <3>1 DEF Instr, Items
    <3> QED BY <2>1, <3>2 DEF Keeps
  <2>3. /\ Modest(prog)' /\ Batch' /\ Merging' /\ Count' = Count /\ Count' <= pushes'
        /\ \A i \in 0 .. Count' - 1 : OfEntry(prog, array[Wrap(head + i)], Taken + 1 + i)'
    BY <2>1, <2>2, SimUndisturbed
  <2>4. Number(prog, pos) = IF prog[pos].uops # <<>> THEN pushes + 1 ELSE pushes
    BY <2>0, NumberStep, Zenon
  <2>5. Room'
    BY <1>0, <2>0, <2>1, <2>3 DEF Room
  <2>6. Counted'
    BY <2>0, <2>1, <2>4 DEF Counted
  <2>7. ASSUME prog[pos].uops # <<>> PROVE OfEntry(prog, array'[tail], pushes + 1)
    <3>1. Place(prog, pushes + 1) = pos
      BY <1>0, <2>0, <2>4, <2>7, PlaceIs, Zenon
    <3>2. array'[tail] = x
      BY <1>0, <2>1
    <3>3. /\ x.pc = prog[pos].pc /\ x.uops = prog[pos].uops /\ x.addr = prog[pos].addr
          /\ x.seq = pushes + 1
      OBVIOUS
    <3> HIDE DEF x
    <3> QED BY <2>7, <3>1, <3>2, <3>3, Zenon DEF OfEntry
  <2>8. ppc' = "push" => OfEntry(prog, array[tail], pushes + 1)'
    BY <2>1, <2>7
  <2>9. Contents'
    BY <2>3, <2>8, Zenon DEF Contents
  <2> QED BY <2>3, <2>5, <2>6, <2>9, Zenon DEF Inv
<1>4. CASE Publish
  <2>1. /\ tail' = Wrap(tail + 1) /\ UNCHANGED <<head, array, prog, pos, cpc, left, j>> /\ pushes' = pushes + 1
        /\ ppc = "push" /\ ppc' = "run"
    BY <1>4 DEF Publish, Push, simVars
  <2>2. Count < N - 1 /\ Count' = Count + 1
    <3>1. Count < N - 1
      BY <1>0, <2>1 DEF Room
    <3> QED BY <1>0, <2>1, <3>1, PushCount
  <2>3. Taken' = Taken /\ Taken = pushes - Count /\ Taken + 1 + Count = pushes + 1 /\ Count <= pushes
    BY <1>0, <2>1, <2>2 DEF Taken, Contents
  <2>4. Counted'
    <3>1. ppc # "run"
      BY <2>1
    <3>2. /\ pos - 1 \in Nat /\ (pos - 1) + 1 = pos /\ pushes = Number(prog, pos - 1)
          /\ prog[pos].uops # <<>>
      BY <1>0, <2>1, <3>1, BeforePos DEF Counted
    <3>3. Number(prog, pos) = pushes + 1
      BY <3>2, NumberStep, Zenon
    <3> QED BY <2>1, <3>3 DEF Counted
  <2>5. Contents'
    <3>1. ASSUME NEW i \in 0 .. Count
          PROVE  OfEntry(prog, array[Wrap(head + i)], Taken + 1 + i)
      <4>1. CASE i = Count
        <5>1. Wrap(head + i) = tail
          BY <1>0, <4>1, TailIsNext
        <5> QED BY <1>0, <2>1, <2>3, <4>1, <5>1, Zenon DEF Contents
      <4>2. CASE i # Count
        <5>1. i \in 0 .. Count - 1
          BY <1>0, <4>2
        <5> QED BY <1>0, <5>1, Zenon DEF Contents
      <4> QED BY <4>1, <4>2
    <3>2. \A i \in 0 .. Count' - 1 : OfEntry(prog, array[Wrap(head + i)], Taken + 1 + i)'
      <4>1. ASSUME NEW i \in 0 .. Count' - 1
            PROVE  OfEntry(prog, array[Wrap(head + i)], Taken + 1 + i)'
        <5>1. i \in 0 .. Count
          BY <1>0, <2>2
        <5>2. OfEntry(prog, array[Wrap(head + i)], Taken + 1 + i)
          BY <3>1, <5>1
        <5> QED BY <2>1, <2>3, <5>2
      <4> QED BY <4>1
    <3>3. Count' <= pushes' /\ ppc' # "push"
      BY <1>0, <2>1, <2>2, <2>3
    <3> QED BY <3>2, <3>3, Zenon DEF Contents
  <2>6. Batch'
    <3>1. ASSUME NEW b \in Nat, Since(b) PROVE Since(b)'
      <4>1. pushes - b >= N - 2 => pushes' - b >= N - 2
        BY <1>0, <2>1, NIs
      <4> QED BY <2>1, <2>3, <3>1, <4>1 DEF Since
    <3> QED BY <1>0, <2>1, <3>1, Zenon DEF Batch, InBatch
  <2>7. Merging' /\ Room' /\ Modest(prog)'
    BY <1>0, <2>1 DEF Merging, Room, HeadRef
  <2> QED BY <2>4, <2>5, <2>6, <2>7, Zenon DEF Inv
<1> QED BY <1>1, <1>2, <1>3, <1>4 DEF QemuStep

(* A pop shifts the entries that wait by one. *)
LEMMA PopModest ==
  ASSUME Inv, TypeInv', Pops, UNCHANGED <<prog, pos, ppc>>
  PROVE  /\ Count >= 2 /\ Count > left /\ Count' = Count - 1 /\ Taken' = Taken + 1
         /\ Modest(prog)' /\ Counted' /\ Contents' /\ Room'
<1>0. /\ TypeInv /\ Modest(prog) /\ Counted /\ Contents /\ Room /\ Batch
      /\ head \in Index /\ tail \in Index /\ pushes \in Nat /\ Count \in Nat /\ left \in Nat /\ N \in Nat
  BY Ranges, Zenon DEF Inv
<1>1. /\ InBatch /\ head' = Wrap(head + 1) /\ tail' = tail /\ array' = array /\ pushes' = pushes
  BY DEF Pops
<1>2. PICK b \in Nat : Since(b)
  BY <1>0, <1>1 DEF Batch
<1>3. Count >= left + 1 /\ left >= 1
  BY <1>0, <1>1, <1>2, OneLeft
<1>4. Count >= 2 /\ Count > left /\ Count > 0
  BY <1>0, <1>3
<1>5. Count' = Count - 1
  BY <1>0, <1>1, <1>4, PopCount
<1>6. Taken' = Taken + 1 /\ Taken \in Int /\ Count' <= pushes'
  BY <1>0, <1>1, <1>5 DEF Taken, Contents
<1>7. ASSUME NEW i \in 0 .. Count' - 1
      PROVE  OfEntry(prog, array[Wrap(head + i)], Taken + 1 + i)'
  <2>1. i \in 0 .. Count - 2 /\ i + 1 \in 0 .. Count - 1 /\ (Taken + 1) + 1 + i = Taken + 1 + (i + 1)
    BY <1>0, <1>5, <1>6
  <2>2. Wrap(head' + i) = Wrap(head + (i + 1))
    BY <1>0, <1>1, <2>1, PopShifts
  <2>3. OfEntry(prog, array[Wrap(head + (i + 1))], Taken + 1 + (i + 1))
    BY <1>0, <2>1, Zenon DEF Contents
  <2> QED BY <1>1, <1>6, <2>1, <2>2, <2>3
<1>8. Contents'
  BY <1>0, <1>1, <1>6, <1>7, Zenon DEF Contents
<1>9. Room'
  BY <1>0, <1>5 DEF Room
<1>10. Counted' /\ Modest(prog)'
  BY <1>0, <1>1 DEF Counted
<1> QED BY <1>4, <1>5, <1>6, <1>8, <1>9, <1>10

(* The entry that Merge takes without counting it was a load multiple's.   *)
LEMMA MergeIsMultiple ==
  ASSUME Inv, cpc = "merge", NextHeadRef.pc = HeadRef.pc, Count >= 2
  PROVE  Taken + 1 < Number(prog, Len(prog)) /\ Multiple(prog, Taken + 1)
<1>0. /\ TypeInv /\ Counted /\ Contents /\ Merging
      /\ head \in Index /\ tail \in Index /\ pushes \in Nat /\ Count \in Nat /\ pos \in Nat /\ Len(prog) \in Nat
      /\ pos <= Len(prog) /\ Taken = pushes - Count /\ Taken \in Int /\ j \in Nat
  BY Ranges, Zenon DEF Inv
<1>1. OfEntry(prog, HeadRef, Taken + 1)
  <2>1. 0 \in 0 .. Count - 1 /\ Taken + 1 + 0 = Taken + 1
    BY <1>0
  <2>2. OfEntry(prog, array[Wrap(head + 0)], Taken + 1 + 0)
    BY <1>0, <2>1, Zenon DEF Contents
  <2> QED BY <1>0, <2>1, <2>2, HeadSlot, Zenon DEF HeadRef
<1>2. OfEntry(prog, NextHeadRef, (Taken + 1) + 1)
  <2>1. 1 \in 0 .. Count - 1
    BY <1>0
  <2>2. OfEntry(prog, array[Wrap(head + 1)], (Taken + 1) + 1)
    BY <1>0, <2>1, Zenon DEF Contents
  <2> QED BY <2>2, Zenon DEF NextHeadRef
<1>3. pushes <= Number(prog, Len(prog))
  <2>1. CASE ppc = "run"
    <3>1. Number(prog, pos) <= Number(prog, Len(prog))
      BY <1>0, NumberGrows
    <3> QED BY <1>0, <2>1, <3>1, Zenon DEF Counted
  <2>2. CASE ppc # "run"
    <3>1. pos - 1 \in Nat /\ pos - 1 <= Len(prog)
      BY <1>0, <2>2, BeforePos
    <3>2. Number(prog, pos - 1) <= Number(prog, Len(prog))
      BY <1>0, <3>1, NumberGrows
    <3> QED BY <1>0, <2>2, <3>2, Zenon DEF Counted
  <2> QED BY <2>1, <2>2
<1>4. Taken + 1 < Number(prog, Len(prog))
  <2>1. Number(prog, Len(prog)) \in Nat
    BY <1>0, ShownIs
  <2> QED BY <1>0, <1>3, <2>1
<1>5. Loads(HeadRef, j) /\ j \in 1 .. Len(HeadRef.uops)
  <2>1. Loads(HeadRef, j)
    BY <1>0, Zenon DEF Merging
  <2>2. HeadRef \in Items /\ j \in Nat \ {0}
    BY <1>0 DEF TypeInv, TypeOK, HeadRef
  <2>3. Len(HeadRef.uops) \in Nat
    BY <2>2 DEF Items, Uops
  <2> QED BY <2>1, <2>2, <2>3 DEF Loads
<1>6. Multiple(prog, Taken + 1)
  <2>1. prog[Place(prog, Taken + 1)].pc = prog[Place(prog, (Taken + 1) + 1)].pc
    BY <1>1, <1>2, Zenon DEF OfEntry
  <2>2. HeadRef.uops = prog[Place(prog, Taken + 1)].uops /\ HeadRef.addr = prog[Place(prog, Taken + 1)].addr
    BY <1>1, Zenon DEF OfEntry
  <2>3. PICK u \in {"mem", "ret"} : HeadRef.uops[j] = u /\ (u = "ret" \/ HeadRef.addr)
    BY <1>5, Zenon DEF Loads
  <2> QED BY <1>5, <2>1, <2>2, <2>3, Zenon DEF Multiple
<1> QED BY <1>4, <1>6

LEMMA SimModest ==
  ASSUME Inv, TypeInv', SimStep
  PROVE  Inv'
<1>0. /\ TypeInv /\ Modest(prog) /\ Counted /\ Contents /\ Room /\ Batch /\ Merging
      /\ head \in Index /\ tail \in Index /\ pushes \in Nat /\ Count \in Nat /\ left \in Nat /\ N \in Nat /\ N > 3
      /\ Taken = pushes - Count /\ Bulk \in Nat /\ left <= Bulk
  BY Ranges, Zenon DEF Inv
<1>1. UNCHANGED <<array, tail, prog, pos, ppc, pushes>>
  BY SimTypedStep, Zenon DEF Inv, qemuVars
<1>2. ASSUME head' = head
      PROVE  /\ Keeps /\ Modest(prog)' /\ Counted' /\ Contents' /\ Room' /\ Taken' = Taken
             /\ HeadRef' = HeadRef
  <2>1. Keeps /\ Count' = Count /\ Taken' = Taken /\ HeadRef' = HeadRef
    BY <1>1, <1>2 DEF Keeps, Count, Taken, HeadRef
  <2>2. Contents'
    BY <1>0, <1>1, <1>2, <2>1 DEF Contents
  <2> QED BY <1>0, <1>1, <2>1, <2>2 DEF Counted, Room
<1>3. ASSUME NEW b \in Nat, Since(b), Taken' = Taken, left' = left PROVE Since(b)'
  BY <1>1, <1>3 DEF Since
<1>4. CASE StartBatch
  <2>1. head' = head /\ Full /\ left' = Bulk /\ cpc' = "uop"
    BY <1>4 DEF StartBatch, fifoVars
  <2>2. Count >= N - 2 /\ Taken \in Nat
    BY <1>0, <2>1, FullIs DEF Contents
  <2>3. Cardinality(Mult(prog, Taken, Taken)) \in Nat
    BY <2>2, MultCount, Zenon
  <2>4. PICK m \in Nat : m = Cardinality(Mult(prog, Taken, Taken))
    BY <2>3
  <2>5. /\ Taken <= Taken /\ Taken - Taken <= N - 3 /\ pushes - Taken >= N - 2
        /\ Taken - Taken <= Bulk - Bulk + m
    BY <1>0, <2>2
  <2>6. Taken' = Taken /\ Modest(prog)' /\ Counted' /\ Contents' /\ Room'
    BY <1>2, <2>1
  <2>7. PICK b \in Nat : b = Taken
    BY <2>2
  <2>8. Since(b)'
    BY <1>1, <2>1, <2>4, <2>5, <2>6, <2>7 DEF Since
  <2> QED BY <2>1, <2>6, <2>8 DEF Inv, Batch, Merging
<1>5. CASE EndEntry
  <2>1. Pops /\ left' = left - 1 /\ cpc' \in {"hand", "uop"} /\ InBatch
    BY <1>5 DEF EndEntry, Pop, Pops, InBatch, qemuVars
  <2>2. Taken' = Taken + 1 /\ Modest(prog)' /\ Counted' /\ Contents' /\ Room'
    BY <1>1, <2>1, PopModest
  <2>3. PICK b \in Nat : Since(b)
    BY <1>0, <2>1 DEF Batch
  <2>4. Taken - b <= N - 3 - left /\ left >= 1 /\ Taken \in Nat
    BY <1>0, <2>1, <2>3, OneLeft DEF Contents
  <2>5. PICK m \in Nat, u \in Nat :
          m = Cardinality(Mult(prog, b, Taken)) /\ u = Cardinality(Mult(prog, b, Taken + 1)) /\ m <= u
    <3>1. Taken + 1 \in Nat
      BY <2>4
    <3> QED BY <2>4, <3>1, MultCount, Zenon
  <2>6. b <= Taken /\ pushes - b >= N - 2 /\ Taken - b <= Bulk - left + m
    BY <2>3, <2>5, Zenon DEF Since
  <2>7. /\ b <= Taken + 1 /\ (Taken + 1) - b <= N - 3
        /\ (Taken + 1) - b <= Bulk - (left - 1) + u
    BY <1>0, <2>4, <2>5, <2>6
  <2>8. Since(b)'
    BY <1>1, <2>1, <2>2, <2>5, <2>6, <2>7 DEF Since
  <2> QED BY <2>1, <2>2, <2>8 DEF Inv, Batch, Merging
<1>6. CASE Uop
  <2>1. /\ head' = head /\ left' = left /\ InBatch
        /\ cpc' \in {"uop", "wait", "merge"}
        /\ cpc' \in {"wait", "merge"} => Loads(HeadRef, j) /\ j' = j
    <3>1. head' = head /\ left' = left /\ InBatch /\ cpc = "uop" /\ j <= Len(HeadRef.uops)
      BY <1>6 DEF Uop, InBatch, fifoVars
    <3>2. CASE CreateDInst(HeadRef, j)
      BY <3>1, <3>2 DEF CreateDInst
    <3>3. CASE IsMem(HeadRef, j) /\ ~HeadRef.addr /\ cpc' = cpc
      BY <3>1, <3>3
    <3>4. CASE /\ IsMemOrRet(HeadRef, j) /\ ~(IsMem(HeadRef, j) /\ ~HeadRef.addr)
               /\ cpc' \in {"wait", "merge"} /\ j' = j
      BY <3>1, <3>4 DEF Loads, IsMem, IsMemOrRet
    <3> QED BY <1>6, <3>2, <3>3, <3>4 DEF Uop
  <2>2. Taken' = Taken /\ HeadRef' = HeadRef /\ Modest(prog)' /\ Counted' /\ Contents' /\ Room'
    BY <1>2, <2>1
  <2>3. Batch'
    BY <1>0, <1>3, <2>1, <2>2, Zenon DEF Batch
  <2>4. Merging'
    BY <2>1, <2>2, Zenon DEF Merging, Loads
  <2> QED BY <2>2, <2>3, <2>4, Zenon DEF Inv
<1>7. CASE WaitUntilFifoFull
  <2>1. /\ head' = head /\ left' = left /\ j' = j /\ cpc = "wait" /\ cpc' \in {"merge", "idle"}
    BY <1>7 DEF WaitUntilFifoFull, fifoVars
  <2>2. Taken' = Taken /\ HeadRef' = HeadRef /\ Modest(prog)' /\ Counted' /\ Contents' /\ Room'
    BY <1>2, <2>1
  <2>3. InBatch /\ Loads(HeadRef, j)
    BY <1>0, <2>1 DEF InBatch, Merging
  <2>4. Batch'
    BY <1>0, <1>3, <2>1, <2>2, <2>3, Zenon DEF Batch
  <2>5. Merging'
    BY <2>1, <2>2, <2>3, Zenon DEF Merging, Loads
  <2> QED BY <2>2, <2>4, <2>5, Zenon DEF Inv
<1>8. CASE Merge
  <2>1. /\ cpc = "merge" /\ InBatch /\ left' = left /\ cpc' = "uop"
        /\ \/ head' = head
           \/ Pops /\ NextHeadRef.pc = HeadRef.pc
    BY <1>8 DEF Merge, CreateDInst, Pop, Pops, InBatch, qemuVars, fifoVars
  <2>2. Merging'
    BY <2>1 DEF Merging
  <2>3. CASE head' = head
    <3>1. Taken' = Taken /\ Modest(prog)' /\ Counted' /\ Contents' /\ Room'
      BY <1>2, <2>3
    <3>2. Batch'
      BY <1>0, <1>3, <2>1, <3>1, Zenon DEF Batch
    <3> QED BY <2>2, <3>1, <3>2, Zenon DEF Inv
  <2>4. CASE Pops /\ NextHeadRef.pc = HeadRef.pc
    <3>1. Count >= 2 /\ Taken' = Taken + 1 /\ Modest(prog)' /\ Counted' /\ Contents' /\ Room'
      BY <1>1, <2>4, PopModest
    <3>2. Taken + 1 < Number(prog, Len(prog)) /\ Multiple(prog, Taken + 1)
      BY <2>1, <2>4, <3>1, MergeIsMultiple
    <3>3. PICK b \in Nat : Since(b)
      BY <1>0, <2>1 DEF Batch
    <3>4. Taken - b <= N - 3 - left /\ left >= 1 /\ Taken \in Nat
      BY <1>0, <2>1, <3>3, OneLeft DEF Contents
    <3>5. b <= Taken /\ pushes - b >= N - 2
      BY <3>3, Zenon DEF Since
    <3>6. PICK m \in Nat : m = Cardinality(Mult(prog, b, Taken)) /\ Cardinality(Mult(prog, b, Taken + 1)) = m + 1
      BY <3>2, <3>4, <3>5, MultCount, Zenon
    <3>7. Taken - b <= Bulk - left + m
      BY <3>3, <3>6, Zenon DEF Since
    <3>8. /\ b <= Taken + 1 /\ (Taken + 1) - b <= N - 3
          /\ (Taken + 1) - b <= Bulk - left + (m + 1)
      BY <1>0, <3>4, <3>5, <3>7
    <3>9. Since(b)'
      BY <1>1, <2>1, <3>1, <3>5, <3>6, <3>8 DEF Since
    <3> QED BY <2>2, <3>1, <3>9, Zenon DEF Inv, Batch
  <2> QED BY <2>1, <2>3, <2>4
<1>9. CASE HandOut
  <2>1. head' = head /\ cpc' = "idle"
    BY <1>9 DEF HandOut, fifoVars
  <2> QED BY <1>2, <2>1 DEF Inv, Batch, Merging, InBatch
<1> QED BY <1>4, <1>5, <1>6, <1>7, <1>8, <1>9 DEF SimStep

LEMMA ModestStep == Inv /\ TypeInv' /\ [Next]_vars => Inv'
<1> SUFFICES ASSUME Inv, TypeInv', [Next]_vars PROVE Inv'
  OBVIOUS
<1>1. CASE SamplerToggle \/ UNCHANGED vars
  <2>1. UNCHANGED <<head, tail, array, prog, pos, ppc, pushes, cpc, left, j>>
    BY <1>1 DEF SamplerToggle, vars, fifoVars, qemuVars, simVars
  <2>2. Keeps
    BY <2>1 DEF Keeps
  <2>3. /\ Modest(prog)' /\ Batch' /\ Merging' /\ Count' = Count /\ Count' <= pushes'
        /\ \A i \in 0 .. Count' - 1 : OfEntry(prog, array[Wrap(head + i)], Taken + 1 + i)'
    BY <2>1, <2>2, SimUndisturbed, Zenon
  <2>4. Counted' /\ Room'
    BY <2>1, <2>3 DEF Inv, Counted, Room
  <2>5. Contents'
    BY <2>1, <2>3 DEF Inv, Contents
  <2> QED BY <2>3, <2>4, <2>5, Zenon DEF Inv
<1> QED BY <1>1, QemuModest, SimModest DEF Next

(* When the program makes no system call, and among any N - 3 consecutive  *)
(* entries at most N - 3 - Bulk are followed by another of the same load   *)
(* multiple (48 among 253 in the code), neither thread runs past the       *)
(* other, however they interleave, whenever the sampler pauses the flow    *)
(* and however often a batch is abandoned: queueInstruction always finds   *)
(* its slot free, and executeHead's loop, which pops without asking        *)
(* empty(), never takes what is not published.                             *)
THEOREM NeitherRunsPast == Spec /\ Modest(prog) => []StaysInFIFO
<1> QED BY ModestInit, ModestStep, ModestStays, TypeInvariant, PTL DEF Spec

(* For those programs the FIFO is a channel without any further condition. *)
THEOREM ReaderImplementsChannel == Spec /\ Modest(prog) => ImplementsChannel
<1> QED BY NeitherRunsPast, ChannelWhileInFIFO, PTL

-----------------------------------------------------------------------------
(* The DInsts that executeHead creates. *)

(* The DInst a may be created before b.  A batch that is abandoned while   *)
(* the flow is paused starts its entry again, so only without pauses is an *)
(* entry's progress kept.                                                  *)
Precedes(a, b) == a[1] <= b[1] /\ (~MayPause => Before(a, b))

(* w is a micro-operation of an entry that the program p publishes. *)
IsUop(p, w) ==
  /\ w[1] \in 1 .. Number(p, Len(p))
  /\ w[2] \in 1 .. Len(p[Place(p, w[1])].uops)

(* Every DInst comes from a published entry and is one of its uops; the    *)
(* DInsts follow the program and, when the sampler never pauses the flow,  *)
(* no uop is created twice.                                                *)
CreatedInOrder ==
  /\ \A n \in DOMAIN created : IsUop(prog, created[n])
  /\ \A m, n \in DOMAIN created : m < n => Precedes(created[m], created[n])

(* The uop executeHead is at. *)
Point == <<Taken + 1, IF InBatch THEN j ELSE 1>>

Ahead == \A n \in DOMAIN created : Precedes(created[n], Point)

Running == ~MayPause => active

CreatedInv == CreatedInOrder /\ Ahead /\ Running

LEMMA PrecedesTrans ==
  ASSUME NEW a \in Int \X Int, NEW b \in Int \X Int, NEW c \in Int \X Int,
         Precedes(a, b), Precedes(b, c) \/ b = c
  PROVE  Precedes(a, c)
BY DEF Precedes, Before

LEMMA PublishedBound ==
  ASSUME TypeInv, Counted
  PROVE  pushes <= Number(prog, Len(prog)) /\ Number(prog, Len(prog)) \in Nat
<1>0. pos \in Nat /\ Len(prog) \in Nat /\ pos <= Len(prog)
  BY Ranges, Zenon
<1>1. CASE ppc = "run"
  <2>1. Number(prog, pos) <= Number(prog, Len(prog))
    BY <1>0, NumberGrows
  <2> QED BY <1>0, <1>1, <2>1, ShownIs, Zenon DEF Counted
<1>2. CASE ppc # "run"
  <2>1. pos - 1 \in Nat /\ pos - 1 <= Len(prog)
    BY <1>0, <1>2, BeforePos
  <2>2. Number(prog, pos - 1) <= Number(prog, Len(prog))
    BY <1>0, <2>1, NumberGrows
  <2> QED BY <1>0, <1>2, <2>2, ShownIs, Zenon DEF Counted
<1> QED BY <1>1, <1>2

(* The entry i places behind the head, 0 or 1, in a batch. *)
LEMMA AtHead ==
  ASSUME Inv, InBatch
  PROVE  /\ Taken \in Nat /\ Count >= 2
         /\ OfEntry(prog, HeadRef, Taken + 1) /\ OfEntry(prog, NextHeadRef, Taken + 2)
         /\ Taken + 2 <= Number(prog, Len(prog)) /\ Number(prog, Len(prog)) \in Nat
<1>0. /\ TypeInv /\ Modest(prog) /\ Counted /\ Contents /\ Batch
      /\ head \in Index /\ pushes \in Nat /\ Count \in Nat /\ left \in Nat /\ Taken = pushes - Count
  BY Ranges, Zenon DEF Inv
<1>1. PICK b \in Nat : Since(b)
  BY <1>0 DEF Batch
<1>2. Count >= left + 1 /\ left >= 1
  BY <1>0, <1>1, OneLeft
<1>3. Count >= 2 /\ Taken \in Nat /\ 0 \in 0 .. Count - 1 /\ 1 \in 0 .. Count - 1
  BY <1>0, <1>2 DEF Contents
<1>4. OfEntry(prog, array[Wrap(head + 0)], Taken + 1 + 0) /\ OfEntry(prog, array[Wrap(head + 1)], Taken + 1 + 1)
  BY <1>0, <1>3, Zenon DEF Contents
<1>5. Taken + 1 + 0 = Taken + 1 /\ Taken + 1 + 1 = Taken + 2
  BY <1>3
<1>6. OfEntry(prog, HeadRef, Taken + 1) /\ OfEntry(prog, NextHeadRef, Taken + 2)
  BY <1>0, <1>4, <1>5, HeadSlot DEF HeadRef, NextHeadRef
<1>7. pushes <= Number(prog, Len(prog)) /\ Number(prog, Len(prog)) \in Nat
  BY <1>0, PublishedBound
<1> QED BY <1>0, <1>3, <1>6, <1>7

LEMMA PointIs ==
  ASSUME TypeInv, TypeInv'
  PROVE  Point \in Int \X Int /\ Point' \in Int \X Int
<1>1. Count \in Nat /\ pushes \in Nat /\ j \in Nat
  BY Ranges, Zenon
<1>2. Count' \in Nat /\ pushes' \in Nat /\ j' \in Nat
  <2>1. head' \in Index /\ tail' \in Index /\ prog' \in Programs /\ j' \in Nat
        /\ pos' \in 0 .. Len(prog') /\ pushes' \in 0 .. pos'
    BY DEF TypeInv, TypeOK
  <2> QED BY <2>1, CountIsNext
<1>3. Point \in Int \X Int
  BY <1>1 DEF Point, Taken
<1>4. Point' \in Int \X Int
  BY <1>2 DEF Point, Taken
<1> QED BY <1>3, <1>4

(* One DInst is created: it is a uop of its entry, those created before    *)
(* precede it, and executeHead is past it.                                 *)
LEMMA CreateNext ==
  ASSUME Inv, CreatedInv, Inv', UNCHANGED <<prog, active>>, NEW w \in Nat \X Nat,
         created' = Append(created, w), IsUop(prog, w),
         Precedes(Point, w) \/ Point = w, Precedes(w, Point')
  PROVE  CreatedInv'
<1>0. /\ created \in Seq(Nat \X Nat) /\ Point \in Int \X Int /\ Point' \in Int \X Int
      /\ w \in Int \X Int
  <2>1. TypeInv /\ TypeInv'
    BY Zenon DEF Inv
  <2>2. Point \in Int \X Int /\ Point' \in Int \X Int
    BY <2>1, PointIs, Zenon
  <2>3. created \in Seq(Nat \X Nat)
    BY <2>1, Zenon DEF TypeInv, TypeOK
  <2>4. w \in Int \X Int
    OBVIOUS
  <2> QED BY <2>2, <2>3, <2>4, Zenon
<1>1. /\ DOMAIN created' = 1 .. Len(created) + 1 /\ Len(created) \in Nat
      /\ DOMAIN created = 1 .. Len(created)
      /\ \A n \in DOMAIN created : created'[n] = created[n] /\ created[n] \in Int \X Int
      /\ created'[Len(created) + 1] = w
  BY <1>0
<1>2. ASSUME NEW n \in DOMAIN created PROVE Precedes(created[n], w) /\ Precedes(created[n], Point')
  <2>1. Precedes(created[n], Point) /\ created[n] \in Int \X Int
    BY <1>1 DEF CreatedInv, Ahead
  <2>2. Precedes(created[n], w)
    BY <1>0, <2>1, PrecedesTrans
  <2>3. Precedes(created[n], Point')
    BY <1>0, <2>1, <2>2, PrecedesTrans
  <2> QED BY <2>2, <2>3
<1>3. \A n \in DOMAIN created' : n \in DOMAIN created \/ n = Len(created) + 1
  BY <1>1
<1>4. \A n \in DOMAIN created' : IsUop(prog, created'[n]) /\ Precedes(created'[n], Point')
  BY <1>1, <1>2, <1>3, Zenon DEF CreatedInv, CreatedInOrder
<1>5. ASSUME NEW m \in DOMAIN created', NEW n \in DOMAIN created', m < n
      PROVE  Precedes(created'[m], created'[n])
  <2>1. m \in DOMAIN created
    BY <1>1, <1>5
  <2> QED BY <1>1, <1>2, <1>3, <1>5, <2>1, Zenon DEF CreatedInv, CreatedInOrder
<1> QED BY <1>4, <1>5, Zenon DEF CreatedInv, CreatedInOrder, Ahead, Running

(* A step that creates nothing and does not move the point back.           *)
LEMMA CreateNone ==
  ASSUME Inv, CreatedInv, Inv', UNCHANGED <<prog, created>>, Running',
         Precedes(Point, Point') \/ Point = Point' \/ (MayPause /\ Point[1] = Point'[1])
  PROVE  CreatedInv'
<1>0. /\ created \in Seq(Nat \X Nat) /\ Point \in Int \X Int /\ Point' \in Int \X Int
  <2>1. TypeInv /\ TypeInv'
    BY Zenon DEF Inv
  <2>2. Point \in Int \X Int /\ Point' \in Int \X Int
    BY <2>1, PointIs, Zenon
  <2>3. created \in Seq(Nat \X Nat)
    BY <2>1, Zenon DEF TypeInv, TypeOK
  <2> QED BY <2>2, <2>3, Zenon
<1>1. ASSUME NEW n \in DOMAIN created PROVE Precedes(created[n], Point')
  <2>1. Precedes(created[n], Point) /\ created[n] \in Int \X Int
    BY <1>0 DEF CreatedInv, Ahead
  <2>2. CASE Precedes(Point, Point') \/ Point = Point'
    BY <1>0, <2>1, <2>2, PrecedesTrans
  <2>3. CASE MayPause /\ Point[1] = Point'[1]
    BY <2>1, <2>3 DEF Precedes
  <2> QED BY <2>2, <2>3
<1> QED BY <1>1 DEF CreatedInv, CreatedInOrder, Ahead

LEMMA SimCreates ==
  ASSUME Inv, CreatedInv, Inv', SimStep
  PROVE  CreatedInv'
<1>0. TypeInv /\ TypeInv' /\ Running
  BY DEF Inv, CreatedInv
<1>1. UNCHANGED <<array, tail, prog, pos, ppc, pushes, active>>
  BY <1>0, SimTypedStep, Zenon DEF qemuVars
<1>2. Running' /\ prog' = prog
  BY <1>0, <1>1 DEF Running
<1>3. Taken \in Int /\ j \in Nat \ {0} /\ j' \in Nat \ {0}
  BY <1>0, Ranges DEF TypeInv, TypeOK
<1>4. ASSUME head' = head PROVE Taken' = Taken
  BY <1>1, <1>4 DEF Taken, Count
<1>5. ASSUME Pops PROVE Taken' = Taken + 1
  <2>1. UNCHANGED <<prog, pos, ppc>>
    BY <1>1
  <2> QED BY <1>0, <1>5, <2>1, PopModest, Zenon
<1>6. CASE StartBatch
  <2>1. head' = head /\ created' = created /\ ~InBatch /\ j' = 1
    BY <1>6 DEF StartBatch, fifoVars, InBatch
  <2>2. Point' = Point
    BY <1>4, <2>1 DEF Point
  <2> QED BY <1>2, <2>1, <2>2, CreateNone
<1>7. CASE EndEntry
  <2>1. Pops /\ created' = created
    BY <1>7 DEF EndEntry, Pop, Pops, InBatch, qemuVars
  <2>2. Precedes(Point, Point')
    BY <1>3, <1>5, <2>1 DEF Point, Precedes, Before
  <2> QED BY <1>2, <2>1, <2>2, CreateNone
<1>8. CASE HandOut
  <2>1. head' = head /\ created' = created /\ ~InBatch /\ ~InBatch'
    BY <1>8 DEF HandOut, fifoVars, InBatch
  <2>2. Point' = Point
    BY <1>4, <2>1 DEF Point
  <2> QED BY <1>2, <2>1, <2>2, CreateNone
<1>9. CASE WaitUntilFifoFull
  <2>1. /\ head' = head /\ created' = created /\ InBatch /\ j' = j
        /\ cpc' = IF Full \/ (active /\ ~IsEmpty) THEN "merge" ELSE "idle"
    BY <1>9 DEF WaitUntilFifoFull, fifoVars, InBatch
  <2>2. CASE MayPause
    <3>1. Point'[1] = Point[1]
      BY <1>4, <2>1 DEF Point
    <3> QED BY <1>2, <2>1, <2>2, <3>1, CreateNone
  <2>3. CASE ~MayPause
    <3>1. Count >= 2 /\ head \in Index /\ tail \in Index
      BY <1>0, <2>1, AtHead, Ranges
    <3>2. ~IsEmpty
      BY <3>1, CountIs, NIs DEF IsEmpty, Index
    <3>3. InBatch'
      BY <1>0, <2>1, <2>3, <3>2 DEF Running, InBatch
    <3>4. Point' = Point
      BY <1>4, <2>1, <3>3 DEF Point
    <3> QED BY <1>2, <2>1, <3>4, CreateNone
  <2> QED BY <2>2, <2>3
<1>10. ASSUME InBatch, head' = head, CreateDInst(HeadRef, j), j <= Len(HeadRef.uops)
       PROVE  CreatedInv'
  <2>1. /\ Taken \in Nat /\ OfEntry(prog, HeadRef, Taken + 1)
        /\ Taken + 2 <= Number(prog, Len(prog)) /\ Number(prog, Len(prog)) \in Nat
    BY <1>10, AtHead
  <2>2. Len(HeadRef.uops) \in Nat
    <3>1. HeadRef \in Items
      BY <1>0 DEF TypeInv, TypeOK, HeadRef
    <3> QED BY <3>1 DEF Items, Uops
  <2>3. PICK w \in Nat \X Nat : w = <<Taken + 1, j>>
    <3>1. Taken + 1 \in Nat /\ j \in Nat
      BY <1>3, <2>1
    <3> QED BY <3>1, Zenon
  <2>4. created' = Append(created, w) /\ j' \in Nat /\ j' > j /\ InBatch'
    <3>1. HeadRef.seq = Taken + 1
      BY <2>1 DEF OfEntry
    <3>2. created' = Append(created, <<HeadRef.seq, j>>) /\ cpc' = "uop" /\ j' \in {Len(HeadRef.uops) + 1, j + 1}
      BY <1>10 DEF CreateDInst
    <3>3. j' > j
      BY <1>3, <1>10, <2>2, <3>2
    <3>4. created' = Append(created, w)
      BY <2>3, <3>1, <3>2, Zenon
    <3>5. InBatch'
      BY <3>2 DEF InBatch
    <3>6. j' \in Nat
      BY <1>3
    <3> QED BY <3>3, <3>4, <3>5, <3>6, Zenon
  <2>5. IsUop(prog, w)
    <3>1. HeadRef.uops = prog[Place(prog, Taken + 1)].uops
      BY <2>1 DEF OfEntry
    <3>2. w[1] = Taken + 1 /\ w[2] = j /\ Taken + 1 \in 1 .. Number(prog, Len(prog)) /\ j \in 1 .. Len(HeadRef.uops)
      BY <1>3, <1>10, <2>1, <2>2, <2>3
    <3> QED BY <3>1, <3>2, Zenon DEF IsUop
  <2>6. Point = w
    BY <1>10, <2>3 DEF Point
  <2>7. Precedes(w, Point')
    <3>1. Point' = <<Taken + 1, j'>>
      BY <1>4, <1>10, <2>4, Zenon DEF Point
    <3>2. w[1] <= Point'[1] /\ w[1] = Point'[1] /\ w[2] < Point'[2]
      BY <1>3, <2>1, <2>3, <2>4, <3>1
    <3> QED BY <3>2, Zenon DEF Precedes, Before
  <2> QED BY <1>1, <2>4, <2>5, <2>6, <2>7, CreateNext
<1>11. CASE Uop
  <2>1. head' = head /\ InBatch /\ cpc = "uop" /\ j <= Len(HeadRef.uops)
    BY <1>11 DEF Uop, InBatch, fifoVars
  <2>2. CASE CreateDInst(HeadRef, j)
    BY <1>10, <2>1, <2>2
  <2>3. CASE created' = created /\ j' = j + 1 /\ cpc' = cpc
    <3>1. Precedes(Point, Point')
      BY <1>3, <1>4, <2>1, <2>3 DEF Point, Precedes, Before, InBatch
    <3> QED BY <1>2, <2>3, <3>1, CreateNone
  <2>4. CASE created' = created /\ j' = j /\ cpc' \in {"wait", "merge"}
    <3>1. Point' = Point
      BY <1>4, <2>1, <2>4 DEF Point, InBatch
    <3> QED BY <1>2, <2>4, <3>1, CreateNone
  <2> QED BY <1>11, <2>2, <2>3, <2>4 DEF Uop
<1>12. CASE Merge
  <2>1. InBatch /\ j <= Len(HeadRef.uops)
    BY <1>12 DEF Merge, InBatch, Inv, Merging, Loads
  <2>2. CASE head' = head /\ CreateDInst(HeadRef, j)
    BY <1>10, <2>1, <2>2
  <2>3. CASE Pops /\ CreateDInst(NextHeadRef, IF Len(NextHeadRef.uops) < j THEN Len(NextHeadRef.uops) ELSE j)
    <3>1. /\ Taken \in Nat /\ OfEntry(prog, NextHeadRef, Taken + 2)
          /\ Taken + 2 <= Number(prog, Len(prog)) /\ Number(prog, Len(prog)) \in Nat
      BY <2>1, AtHead
    <3>2. NextHeadRef.uops \in Seq({"mem", "ret", "ctl", "alu"}) /\ NextHeadRef.uops # <<>>
      <4>1. NextHeadRef \in Items
        BY <1>0, NextIndex DEF TypeInv, TypeOK, NextHeadRef
      <4> QED BY <3>1, <4>1 DEF Items, Uops, OfEntry
    <3>3. PICK k \in Nat : k = IF Len(NextHeadRef.uops) < j THEN Len(NextHeadRef.uops) ELSE j
      BY <1>3, <3>2
    <3>4. k \in 1 .. Len(NextHeadRef.uops)
      BY <1>3, <3>2, <3>3
    <3>5. PICK w \in Nat \X Nat : w = <<Taken + 2, k>>
      <4>1. Taken + 2 \in Nat
        BY <3>1
      <4> QED BY <4>1, Zenon
    <3>6. created' = Append(created, w) /\ j' > k /\ InBatch'
      <4>1. NextHeadRef.seq = Taken + 2
        BY <3>1 DEF OfEntry
      <4>2. CreateDInst(NextHeadRef, k)
        BY <2>3, <3>3, Zenon
      <4>3. created' = Append(created, <<NextHeadRef.seq, k>>) /\ cpc' = "uop" /\ j' \in {Len(NextHeadRef.uops) + 1, k + 1}
        BY <4>2 DEF CreateDInst
      <4>4. Len(NextHeadRef.uops) \in Nat
        BY <3>2
      <4>5. j' > k
        BY <3>4, <4>3, <4>4
      <4> QED BY <3>5, <4>1, <4>3, <4>5 DEF InBatch
    <3>7. IsUop(prog, w)
      BY <3>1, <3>4, <3>5 DEF IsUop, OfEntry
    <3>8. Precedes(Point, w)
      BY <2>1, <3>1, <3>5 DEF Point, Precedes, Before
    <3>9. Precedes(w, Point')
      BY <1>3, <1>5, <2>3, <3>1, <3>5, <3>6 DEF Point, Precedes, Before
    <3> QED BY <1>1, <3>6, <3>7, <3>8, <3>9, CreateNext
  <2>4. \/ head' = head /\ CreateDInst(HeadRef, j)
        \/ Pop /\ CreateDInst(NextHeadRef, IF Len(NextHeadRef.uops) < j THEN Len(NextHeadRef.uops) ELSE j)
    BY <1>12 DEF Merge, fifoVars
  <2>5. Pop => Pops
    BY <1>1, <2>1 DEF Pop, Pops
  <2> QED BY <2>2, <2>3, <2>4, <2>5, Zenon
<1> QED BY <1>6, <1>7, <1>8, <1>9, <1>11, <1>12 DEF SimStep

LEMMA CreatedStep == Inv /\ CreatedInv /\ Inv' /\ [Next]_vars => CreatedInv'
<1> SUFFICES ASSUME Inv, CreatedInv, Inv', [Next]_vars PROVE CreatedInv'
  OBVIOUS
<1>0. TypeInv /\ TypeInv' /\ Running
  BY DEF Inv, CreatedInv
<1>1. CASE QemuStep
  <2>1. UNCHANGED <<prog, created, active, cpc, j>>
    BY <1>1 DEF QemuStep, Execute, Wakeup, Fill, Publish, simVars
  <2>2. Taken' = Taken
    <3>1. CASE Publish
      <4>1. Count < N - 1
        BY <3>1 DEF Publish, Inv, Room
      <4>2. tail' = Wrap(tail + 1) /\ head' = head /\ pushes' = pushes + 1
        BY <3>1 DEF Publish, Push
      <4>3. head \in Index /\ tail \in Index /\ Count \in Nat /\ pushes \in Nat
        BY <1>0, Ranges, Zenon
      <4>4. Count' = Count + 1
        BY <4>1, <4>2, <4>3, PushCount, Zenon
      <4> QED BY <4>2, <4>3, <4>4 DEF Taken
    <3>2. CASE Execute \/ Wakeup \/ Fill
      BY <3>2 DEF Execute, Wakeup, Fill, SetTail, fifoVars, Taken, Count
    <3> QED BY <1>1, <3>1, <3>2 DEF QemuStep
  <2>3. Point' = Point /\ Running'
    BY <1>0, <2>1, <2>2 DEF Point, InBatch, Running
  <2> QED BY <2>1, <2>3, CreateNone
<1>2. CASE SamplerToggle \/ UNCHANGED vars
  <2>1. UNCHANGED <<prog, created, cpc, j, head, tail, pushes>> /\ Running'
    BY <1>0, <1>2 DEF SamplerToggle, vars, fifoVars, qemuVars, simVars, Running
  <2>2. Point' = Point
    BY <2>1 DEF Point, InBatch, Taken, Count
  <2> QED BY <2>1, <2>2, CreateNone
<1> QED BY <1>1, <1>2, SimCreates DEF Next

(* QEMUReader::executeHead: for a program that keeps the threads apart,    *)
(* whatever is merged, skipped or waited for, every DInst it creates is a  *)
(* micro-operation of an entry that QEMU published, in the order of the    *)
(* program, and, when the sampler does not pause the flow, none twice.     *)
THEOREM CreatedFollowProgram == Spec /\ Modest(prog) => []CreatedInOrder
<1>1. Init => CreatedInv
  BY DEF Init, CreatedInv, CreatedInOrder, Ahead, Running
<1>2. CreatedInv => CreatedInOrder
  BY DEF CreatedInv
<1> QED BY <1>1, <1>2, ModestInit, ModestStep, CreatedStep, TypeInvariant, PTL DEF Spec

=============================================================================
