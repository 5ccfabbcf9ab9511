----------------------------- MODULE QEMUReader -----------------------------
(***************************************************************************)
(* The two threads that meet in QEMUReader for one flow.  A QEMU thread    *)
(* executes a program and queues what it executes in the FIFO; the         *)
(* simulation thread takes entries out in batches (executeHead), cracks    *)
(* them into DInsts and hands those out one at a time.                     *)
(*                                                                         *)
(* An instruction is [pc, op, uops, addr]: op tells an instruction from a  *)
(* system call, uops is what it cracks into ("mem", "ret" for a function   *)
(* return, "ctl" for other control, "alu"), addr is FALSE when             *)
(* rinst->getAddr() is 0.  An entry of the FIFO also has seq, its place among the entries   *)
(* published.  A load multiple of n registers arrives as n entries of one  *)
(* pc that all crack into the same n memory uops.                          *)
(***************************************************************************)
EXTENDS ThreadSafeFIFO, Sequences, FiniteSets

CONSTANTS Programs,   \* what the QEMU thread may execute
          Bulk,       \* entries taken by one batch: size() - 32
          MinReal,    \* 16
          MayPause    \* whether the sampler deactivates flow 0

ASSUME BulkAssumption == Bulk \in 1 .. N - 2 /\ MinReal \in Nat

Uops == Seq({"mem", "ret", "ctl", "alu"})

Instr == [op : {"inst", "sys"}, pc : Nat, uops : Uops, addr : BOOLEAN]
Items == [pc : Nat, uops : Uops, addr : BOOLEAN, seq : Nat]

ASSUME ProgramsAssumption == \A p \in Programs : p \in Seq(Instr)

VARIABLES prog, pos,    \* the program, and how much of it is executed
          ppc,          \* the QEMU thread: "run", "sleep", "fill" or "push"
          cpc,          \* the simulation thread: "idle", "uop", "wait", "merge", "hand"
          left, j,      \* executeHead: entries left in the batch, uop index from 1
          first, last_PC,
          ruffer,       \* DInsts created and not handed out, as <<seq, uop>>
          created,      \* every DInst created so far
          pushes,       \* entries published so far
          active        \* qsamplerlist[0]->isActive(0)

qemuVars == <<prog, pos, ppc, pushes>>
simVars  == <<cpc, left, j, first, last_PC, ruffer, created>>
vars     == <<fifoVars, qemuVars, simVars, active>>

Blank == [pc |-> 0, uops |-> <<>>, addr |-> FALSE, seq |-> 0]

Init ==
  /\ FifoInit(Blank)
  /\ prog \in Programs /\ pos = 0 /\ ppc = "run" /\ pushes = 0
  /\ cpc = "idle" /\ left = 0 /\ j = 1 /\ first = TRUE /\ last_PC = 0
  /\ ruffer = <<>> /\ created = <<>>
  /\ active = TRUE
-----------------------------------------------------------------------------
(* The QEMU thread. *)

\* queueInstruction is called: it goes to sleep when the FIFO is full.  A
\* system call is queued by syscall(), which does not look.
Execute ==
  /\ ppc = "run" /\ pos < Len(prog)
  /\ pos' = pos + 1
  /\ ppc' = IF prog[pos + 1].op = "inst" /\ Full THEN "sleep" ELSE "fill"
  /\ UNCHANGED <<fifoVars, prog, pushes, simVars, active>>

\* Mutant: sleep until the FIFO has drained.
WakeupWhenEmpty ==
  /\ ppc = "sleep" /\ IsEmpty
  /\ ppc' = "fill"
  /\ UNCHANGED <<fifoVars, prog, pos, pushes, simVars, active>>

\* The spin loop sees room, wakeup_from_sleep.
Wakeup ==
  /\ ppc = "sleep" /\ ~Full
  /\ ppc' = "fill"
  /\ UNCHANGED <<fifoVars, prog, pos, pushes, simVars, active>>

\* The slot at tail is written in place; nothing is published when the
\* instruction cracks into no uop.
Fill ==
  /\ ppc = "fill"
  /\ LET i == prog[pos] IN
     /\ SetTail([pc |-> i.pc, uops |-> i.uops, addr |-> i.addr, seq |-> pushes + 1])
     /\ ppc' = IF i.uops = <<>> THEN "run" ELSE "push"
  /\ UNCHANGED <<prog, pos, pushes, simVars, active>>

Publish ==
  /\ ppc = "push"
  /\ Push
  /\ pushes' = pushes + 1
  /\ ppc' = "run"
  /\ UNCHANGED <<prog, pos, simVars, active>>
-----------------------------------------------------------------------------
(* The simulation thread: executeHead. *)

\* Mutant: a batch starts as soon as there is something.
StartBatchEarly ==
  /\ cpc = "idle" /\ ruffer = <<>> /\ ~IsEmpty
  /\ cpc' = "uop" /\ left' = Bulk /\ j' = 1
  /\ first' = TRUE /\ last_PC' = 0
  /\ UNCHANGED <<fifoVars, qemuVars, ruffer, created, active>>

\* The ring is empty and the FIFO full; otherwise executeHead returns 0.
StartBatch ==
  /\ cpc = "idle" /\ ruffer = <<>> /\ Full
  /\ cpc' = "uop" /\ left' = Bulk /\ j' = 1
  /\ first' = TRUE /\ last_PC' = 0
  /\ UNCHANGED <<fifoVars, qemuVars, ruffer, created, active>>

\* All uops of the entry are done: pop, without asking whether it is there.
EndEntry ==
  /\ cpc = "uop" /\ j > Len(HeadRef.uops)
  /\ Pop
  /\ left' = left - 1 /\ j' = 1
  /\ cpc' = IF left = 1 THEN "hand" ELSE "uop"
  /\ UNCHANGED <<qemuVars, first, last_PC, ruffer, created, active>>

IsMem(e, k) == e.uops[k] = "mem"
IsMemOrRet(e, k) == e.uops[k] \in {"mem", "ret"}

\* Mutant: the taken exit in the middle does not break the loop.
CreateDInstNoExit(e, k) ==
  /\ ruffer'  = Append(ruffer, <<e.seq, k>>)
  /\ created' = Append(created, <<e.seq, k>>)
  /\ first'   = IF IsMemOrRet(e, k) THEN FALSE ELSE (e.pc # last_PC \/ first)
  /\ last_PC' = e.pc
  /\ j' = k + 1
  /\ cpc' = "uop"

\* DInst::create for uop k of e, add(), and on to the next uop; a taken
\* crack-exit branch in the middle ends the entry.
CreateDInst(e, k) ==
  LET exits == e.uops[k] \in {"ctl", "ret"} /\ k # Len(e.uops) /\ ~e.addr IN
  /\ ruffer'  = Append(ruffer, <<e.seq, k>>)
  /\ created' = Append(created, <<e.seq, k>>)
  /\ first'   = IF IsMemOrRet(e, k) THEN FALSE ELSE (e.pc # last_PC \/ first)
  /\ last_PC' = e.pc
  /\ j' = IF exits THEN Len(e.uops) + 1 ELSE k + 1
  /\ cpc' = "uop"

\* One uop of the entry at head.
Uop ==
  /\ cpc = "uop" /\ j <= Len(HeadRef.uops)
  /\ LET e == HeadRef IN
     \/ /\ IsMem(e, j) /\ ~e.addr             \* continue
        /\ j' = j + 1
        /\ UNCHANGED <<cpc, first, last_PC, ruffer, created>>
     \/ /\ IsMemOrRet(e, j) /\ ~(IsMem(e, j) /\ ~e.addr) /\ ~first  \* perhaps a load multiple
        /\ cpc' = IF RealSize < MinReal THEN "wait" ELSE "merge"
        /\ UNCHANGED <<j, first, last_PC, ruffer, created>>
     \/ /\ ~IsMemOrRet(e, j) \/ (first /\ ~(IsMem(e, j) /\ ~e.addr))
        /\ CreateDInst(e, j)
  /\ UNCHANGED <<fifoVars, qemuVars, left, active>>

\* wait_until_FIFO_full, whose result 0 makes executeHead return without pop.
WaitUntilFifoFull ==
  /\ cpc = "wait"
  /\ cpc' = IF Full \/ (active /\ ~IsEmpty) THEN "merge" ELSE "idle"
  /\ UNCHANGED <<fifoVars, qemuVars, left, j, first, last_PC, ruffer, created, active>>

\* An entry of the same pc follows: go on with it.
Merge ==
  /\ cpc = "merge"
  /\ LET e == HeadRef
         e2 == NextHeadRef
     IN \/ /\ e2.pc = e.pc
           /\ Pop
           /\ CreateDInst(e2, IF Len(e2.uops) < j THEN Len(e2.uops) ELSE j)
        \/ /\ e2.pc # e.pc
           /\ UNCHANGED fifoVars
           /\ CreateDInst(e, j)
  /\ UNCHANGED <<qemuVars, left, active>>

\* getHead and popHead: after a batch, or from what earlier ones left.
HandOut ==
  /\ cpc \in {"idle", "hand"} /\ ruffer # <<>>
  /\ ruffer' = Tail(ruffer)
  /\ cpc' = "idle"
  /\ UNCHANGED <<fifoVars, qemuVars, left, j, first, last_PC, created, active>>

\* The sampler pauses flow 0, or resumes it.
SamplerToggle ==
  /\ MayPause
  /\ active' = ~active
  /\ UNCHANGED <<fifoVars, qemuVars, simVars>>

QemuStep == Execute \/ Wakeup \/ Fill \/ Publish
SimStep  == StartBatch \/ EndEntry \/ Uop \/ WaitUntilFifoFull \/ Merge \/ HandOut
Next     == QemuStep \/ SimStep \/ SamplerToggle

Spec == Init /\ [][Next]_vars

\* Both threads are scheduled by the operating system.
FairSpec == Spec /\ WF_vars(QemuStep) /\ WF_vars(SimStep)
-----------------------------------------------------------------------------
\* Every variable has its type.
TypeOK ==
  /\ head \in Index /\ tail \in Index
  /\ array \in [Index -> Items]
  /\ prog \in Programs /\ last_PC \in Nat
  /\ ruffer \in Seq(Nat \X Nat) /\ created \in Seq(Nat \X Nat)
  /\ ppc \in {"run", "sleep", "fill", "push"}
  /\ cpc \in {"idle", "uop", "wait", "merge", "hand"}
  /\ pos \in 0 .. Len(prog) /\ pushes \in 0 .. pos
  /\ left \in 0 .. Bulk /\ j \in Nat \ {0}
  /\ first \in BOOLEAN /\ active \in BOOLEAN

\* Neither thread runs past the other: tsfifo[fid].push() never makes tail
\* catch up with head, which would turn a full FIFO into an empty one, and
\* executeHead's batch loop, which pops without asking empty(), never takes
\* more than has been published.
StaysInFIFO ==
  /\ ppc = "push" => Count < N - 1
  /\ cpc \in {"uop", "wait", "merge"} => Count >= left

\* The place in the program of the s-th entry published, and whether the
\* entry after it may be taken for the next one of its load multiple.
Number(p, i) == Cardinality({k \in 1 .. i : p[k].uops # <<>>})
Place(p, s) == CHOOSE i \in 1 .. Len(p) : p[i].uops # <<>> /\ Number(p, i) = s
Multiple(p, s) ==
  /\ p[Place(p, s)].pc = p[Place(p, s + 1)].pc
  /\ \E u \in {"mem", "ret"}, k \in 1 .. Len(p[Place(p, s)].uops) :
       p[Place(p, s)].uops[k] = u /\ (u = "ret" \/ p[Place(p, s)].addr)

\* The programs that keep the threads apart: no system call, and few enough
\* load multiples that a batch, whose loop does not count the entries it
\* merges, leaves one entry in a FIFO that was full.
Modest(p) ==
  /\ \A i \in 1 .. Len(p) : p[i].op = "inst"
  /\ \A b \in 0 .. Len(p) :
       Cardinality({s \in b + 1 .. b + N - 3 : s < Number(p, Len(p)) /\ Multiple(p, s)}) <= N - 3 - Bulk

\* "I(rinst->getNumInst()!=0)" at the head of executeHead's loop.
EntryHasUops == cpc = "uop" /\ j = 1 => HeadRef.uops # <<>>

\* The published entries, and which of them belong to one load multiple.
Published == SelectSeq(prog, LAMBDA i : i.uops # <<>>)
Before(a, b) == a[1] < b[1] \/ (a[1] = b[1] /\ a[2] < b[2])
InGroup(s) ==
  Cardinality({t \in 1 .. s : \A r \in t .. s : Published[r].pc = Published[s].pc})
MemRank(i, k) == Cardinality({l \in 1 .. k : IsMemOrRet(i, l)})

\* The reference: uop k is built from entry s when s is the entry QEMU made
\* for it (the r-th of its group for the r-th memory uop and what follows it),
\* unless it is a memory uop without address or behind a taken exit.
Wanted ==
  {w \in (1 .. Len(Published)) \X (1 .. 3) :
     LET s == w[1]
         k == w[2]
         i == Published[s]
     IN
     /\ k <= Len(i.uops)
     /\ ~(i.uops[k] = "mem" /\ ~i.addr)
     /\ ~\E l \in 1 .. k - 1 : i.uops[l] \in {"ctl", "ret"} /\ ~i.addr
     /\ MemRank(i, k) > 0 /\ i.addr => InGroup(s) = MemRank(i, k)
     /\ MemRank(i, k) = 0 /\ MemRank(i, Len(i.uops)) > 0 => InGroup(s) = 1}

\* The DInsts executeHead creates are the program's uops, each once, in
\* order, each from the entry that holds its address.
CreatedIsProgram ==
  \A n \in 1 .. Len(created) :
    /\ created[n] \in Wanted
    /\ Cardinality({w \in Wanted : Before(w, created[n])}) = n - 1

\* The FIFO implements a channel that neither loses, repeats nor reorders.
Channel == INSTANCE InstChannel WITH
             Capacity <- N - 1,
             queue <- [i \in 1 .. Count |-> array[Wrap(head + i - 1)]],
             sent <- pushes
ImplementsChannel == Channel!ChannelSpec

\* The two threads never wait for each other: the program runs to its end.
ProgramEnds == <>(pos = Len(prog) /\ ppc = "run")
=============================================================================
