--------------------------- MODULE SamplerProofs ---------------------------
(***************************************************************************)
(* Proofs about SamplerSkipSim, for any number of flows, any batch, any    *)
(* nInstSkip and nInstMax.                                                 *)
(*                                                                         *)
(* For a shared sampler the argument is short: only flow 0's thread adds   *)
(* to the counters, stop() moves phasenInst into the statistics under its  *)
(* lock, and every other write to phasenInst makes it smaller.             *)
(*                                                                         *)
(* For the sampler of one flow, SingleInv says at each point of the thread *)
(* what is in the statistics, in the phase and in totalnInst; that a       *)
(* stopped sampler is only seen on the way to the next phase or to the     *)
(* end; and that once enough is skipped, a thread still in rabbit mode is  *)
(* on its way to startTiming with its own flow's number.                   *)
(***************************************************************************)
EXTENDS SamplerSkipSim, FiniteSetTheorems, TLAPS

(* Only flow 0 counts, and only in execute(). *)
CounterIsFlow0 ==
  \A f \in flows :
    /\ th[f].pc \in {"add_phase", "add_total"} => f = 0 /\ th[f].fid = 0
    /\ th[f].then \notin {"add_phase", "add_total"}

Types == flows \subseteq 0..NEmuls - 1 /\ TypeOK

Thread == [pc : Pcs, fid : Fids, then : Pcs, arg : Modes, left : 0..NEmuls]

(* What a step of f's thread does to th. *)
Moves(f, pc, fid, then, arg) ==
  /\ th' \in [flows -> Thread]
  /\ th'[f].pc = pc /\ th'[f].fid = fid /\ th'[f].then = then /\ th'[f].arg = arg
  /\ \A g \in flows \ {f} : th'[g] = th[g]

IInv == Types /\ CounterIsFlow0 /\ NeverOverCounted

(* Enough is skipped and the mode is still rabbit. *)
Late == mode = "Rabbit" /\ totalnInst >= NInstSkip

(* One thread, at every point of its program. *)
Counted(f) ==
  CASE th[f].pc = "add_total" -> Sampled + phasenInst = totalnInst + local_icount[f]
    [] th[f].pc = "stopping"  -> Sampled = totalnInst
    [] OTHER                  -> Sampled + phasenInst = totalnInst

Ends == {"term", "finish", "gone"}

Stopped(f) ==
  /\ stopJustCalled =>
       /\ phasenInst = 0
       /\ \/ th[f].pc \in {"start", "again", "begin", "mark"} \cup Ends
          \/ th[f].pc = "guest" /\ terminated
          \/ th[f].pc = "stop" /\ terminated /\ th[f].then = "finish"
  /\ th[f].pc \in {"start", "again", "begin", "mark"} => stopJustCalled
  /\ done # {} =>
       /\ stopJustCalled
       /\ th[f].pc \in Ends \cup {"guest", "stop"}

Returns(f) ==
  /\ th[f].pc \in {"stop", "stopping"} => th[f].then \in {"start", "again", "mark", "finish"}
  /\ th[f].pc = "begin" => th[f].then \in {"power", "guest", "sync"}
  /\ th[f].pc = "term" => th[f].then \in {"guest", "gone"}

Switched(f) ==
  /\ f # 0 => totalnInst = 0
  /\ mode = "Rabbit" => NInstSkip > 0
  /\ mode = "Timing" => tb[f] = "single"
  /\ th[f].pc = "switch" => totalnInst >= NInstSkip
  /\ th[f].pc \in {"power", "sync", "again"} => mode = "Timing"
  /\ th[f].pc \in {"stop", "stopping"} /\ th[f].then = "again" => mode = "Timing"
  /\ th[f].pc \in {"stop", "stopping"} /\ th[f].then = "start" => th[f].fid = f
  /\ th[f].pc = "start" => th[f].fid = f
  /\ th[f].pc = "begin" => th[f].arg = "Timing" /\ tb[f] = "single"
  /\ Late =>
       \/ th[f].pc \in {"test", "switch"} /\ th[f].fid = f
       \/ th[f].pc \in {"stop", "stopping"} /\ th[f].then # "again"
       \/ th[f].pc \in {"start", "begin", "mark"} \cup Ends
       \/ th[f].pc = "guest" /\ terminated

SingleInv ==
  \A f \in flows : flows = {f} => Counted(f) /\ Stopped(f) /\ Returns(f) /\ Switched(f)

-----------------------------------------------------------------------------
(* Types.                                                                  *)

LEMMA CrewSize == ASSUME flows \subseteq 0..NEmuls - 1 PROVE Cardinality(flows) \in 0..NEmuls
<1> USE SamplerAssumption
<1>1. IsFiniteSet(0..NEmuls - 1) /\ Cardinality(0..NEmuls - 1) = NEmuls
  BY FS_Interval
<1>2. IsFiniteSet(flows) /\ Cardinality(flows) <= NEmuls
  BY <1>1, FS_Subset
<1> QED
  BY <1>2, FS_CardinalityType

LEMMA Members ==
  /\ "guest" \in Pcs /\ "add_phase" \in Pcs /\ "add_total" \in Pcs /\ "test" \in Pcs
  /\ "switch" \in Pcs /\ "start" \in Pcs /\ "begin" \in Pcs /\ "stop" \in Pcs
  /\ "stopping" \in Pcs /\ "power" \in Pcs /\ "sync" \in Pcs /\ "again" \in Pcs
  /\ "mark" \in Pcs /\ "term" \in Pcs /\ "finish" \in Pcs /\ "gone" \in Pcs
  /\ "Rabbit" \in Modes /\ "Timing" \in Modes
BY DEF Pcs, Modes

LEMMA ThreadType == ASSUME Types PROVE flows \subseteq 0..NEmuls - 1 /\ th \in [flows -> Thread]
BY DEF Types, TypeOK, Thread

LEMMA GotoMoves ==
  ASSUME Types, NEW f \in flows, NEW pc \in Pcs, Goto(f, pc)
  PROVE  Moves(f, pc, th[f].fid, th[f].then, th[f].arg)
BY ThreadType DEF Goto, Moves, Thread

LEMMA CallMoves ==
  ASSUME Types, NEW f \in flows, NEW pc \in Pcs, NEW then \in Pcs, Call(f, pc, then)
  PROVE  Moves(f, pc, th[f].fid, then, th[f].arg)
BY ThreadType DEF Call, Moves, Thread

LEMMA QueueStep == ASSUME IInv, SingleInv, NEW f \in flows, Queue(f) PROVE IInv' /\ SingleInv'
<1> USE DEF samplerVars, Moves
<1>0. Types /\ f \in 0..NEmuls - 1 /\ flows' = flows
  BY DEF IInv, Types, Queue, Icounts, Counts
<1>1. \E fid \in {f, f + 1} :
         \/ fid # 0 /\ Moves(f, "test", fid, th[f].then, th[f].arg) /\ UNCHANGED local_icount
         \/ /\ fid = 0 /\ local_icount' \in [flows -> Nat]
            /\ \/ Moves(f, "add_phase", fid, th[f].then, th[f].arg)
               \/ fid \in done /\ Moves(f, "guest", fid, th[f].then, th[f].arg)
               \/ fid \notin done /\ Moves(f, "test", fid, th[f].then, th[f].arg)
  <2>1. PICK fid \in {f, f + 1}, n \in Icounts(f, MaxBlock) :
          \/ /\ fid # 0
             /\ th' = [th EXCEPT ![f].pc = "test", ![f].fid = fid]
             /\ UNCHANGED local_icount
          \/ /\ fid = 0
             /\ local_icount' = [local_icount EXCEPT ![f] = @ + n]
             /\ th' = [th EXCEPT ![f].fid = fid,
                                 ![f].pc = IF local_icount[f] + n >= Batch THEN "add_phase"
                                           ELSE IF fid \in done THEN "guest" ELSE "test"]
    BY DEF Queue, Counts
  <2>2. fid \in Fids /\ n \in Nat
    BY <1>0, SamplerAssumption, SkipSimAssumption DEF Fids, Icounts
  <2>3. ASSUME NEW pc \in Pcs, th' = [th EXCEPT ![f].pc = pc, ![f].fid = fid]
        PROVE  Moves(f, pc, fid, th[f].then, th[f].arg)
    BY <1>0, <2>2, <2>3, ThreadType DEF Thread
  <2>4. ASSUME NEW pc \in Pcs, th' = [th EXCEPT ![f].fid = fid, ![f].pc = pc]
        PROVE  Moves(f, pc, fid, th[f].then, th[f].arg)
    BY <1>0, <2>2, <2>4, ThreadType DEF Thread
  <2>5. CASE fid # 0
    <3>1. Moves(f, "test", fid, th[f].then, th[f].arg) /\ UNCHANGED local_icount
      BY <2>1, <2>3, <2>5, Members
    <3> QED
      BY <2>5, <3>1
  <2>6. CASE fid = 0
    <3>1. local_icount' \in [flows -> Nat]
      BY <1>0, <2>1, <2>2, <2>6 DEF Types, TypeOK
    <3>2. \/ Moves(f, "add_phase", fid, th[f].then, th[f].arg)
          \/ fid \in done /\ Moves(f, "guest", fid, th[f].then, th[f].arg)
          \/ fid \notin done /\ Moves(f, "test", fid, th[f].then, th[f].arg)
      BY <2>1, <2>4, <2>6, Members
    <3> QED
      BY <2>6, <3>1, <3>2
  <2> QED
    BY <2>5, <2>6
<1>2. Types'
  BY <1>0, <1>1, SamplerAssumption, SkipSimAssumption DEF Types, TypeOK, Queue, Icounts, Counts, Thread
<1>3. CounterIsFlow0'
  BY <1>0, <1>1, Members DEF IInv, CounterIsFlow0, Queue, Icounts, Counts
<1>4. NeverOverCounted'
  BY <1>0, <1>1, <1>2 DEF IInv, Types, TypeOK, CounterIsFlow0, NeverOverCounted, Sampled, InFlight, Queue, Icounts, Counts, Modes
<1>5. ASSUME flows = {f} PROVE Counted(f)' /\ Stopped(f)' /\ Returns(f)' /\ Switched(f)'
  <2>0. Counted(f) /\ Stopped(f) /\ Returns(f) /\ Switched(f)
    BY <1>5 DEF SingleInv
  <2>1. Counted(f)'
    BY <1>0, <1>1, <2>0 DEF Types, TypeOK, Counted, Sampled, Queue, Icounts, Counts, Modes, Stopped, Returns, Ends
  <2>2. Stopped(f)'
    BY <1>0, <1>1, <2>0 DEF Types, TypeOK, Stopped, Returns, Queue, Icounts, Counts, Ends
  <2>3. Returns(f)'
    BY <1>0, <1>1, <2>0 DEF Returns, Queue, Icounts, Counts
  <2>4. Switched(f)'
    BY <1>0, <1>1, <2>0, SkipSimAssumption DEF IInv, CounterIsFlow0, Types, TypeOK, Switched, Late, Stopped, Returns, Queue, Icounts, Counts, Ends, Modes
  <2> QED
    BY <2>1, <2>2, <2>3, <2>4
<1> QED
  BY <1>0, <1>2, <1>3, <1>4, <1>5 DEF IInv, SingleInv

LEMMA ExecutePhaseStep == ASSUME IInv, SingleInv, NEW f \in flows, ExecutePhase(f) PROVE IInv' /\ SingleInv'
<1> USE DEF samplerVars, Moves
<1>0. Types /\ f \in 0..NEmuls - 1 /\ flows' = flows
  BY DEF IInv, Types, ExecutePhase, AddPhase
<1>1. Moves(f, "add_total", th[f].fid, th[f].then, th[f].arg)
  BY <1>0, ThreadType, Members, GotoMoves DEF ExecutePhase, AddPhase, Thread
<1>2. Types'
  BY <1>0, <1>1, SamplerAssumption, SkipSimAssumption DEF Types, TypeOK, ExecutePhase, AddPhase, Thread
<1>3. CounterIsFlow0'
  BY <1>0, <1>1, Members DEF IInv, CounterIsFlow0, ExecutePhase, AddPhase
<1>4. NeverOverCounted'
  BY <1>0, <1>1, <1>2 DEF IInv, Types, TypeOK, CounterIsFlow0, NeverOverCounted, Sampled, InFlight, ExecutePhase, AddPhase, Modes
<1>5. ASSUME flows = {f} PROVE Counted(f)' /\ Stopped(f)' /\ Returns(f)' /\ Switched(f)'
  <2>0. Counted(f) /\ Stopped(f) /\ Returns(f) /\ Switched(f)
    BY <1>5 DEF SingleInv
  <2>1. Counted(f)'
    BY <1>0, <1>1, <2>0 DEF Types, TypeOK, Counted, Sampled, ExecutePhase, AddPhase, Modes, Stopped, Returns, Ends
  <2>2. Stopped(f)'
    BY <1>0, <1>1, <2>0 DEF Types, TypeOK, Stopped, Returns, ExecutePhase, AddPhase, Ends
  <2>3. Returns(f)'
    BY <1>0, <1>1, <2>0 DEF Returns, ExecutePhase, AddPhase
  <2>4. Switched(f)'
    BY <1>0, <1>1, <2>0, SkipSimAssumption DEF IInv, CounterIsFlow0, Types, TypeOK, Switched, Late, Stopped, Returns, ExecutePhase, AddPhase, Ends, Modes
  <2> QED
    BY <2>1, <2>2, <2>3, <2>4
<1> QED
  BY <1>0, <1>2, <1>3, <1>4, <1>5 DEF IInv, SingleInv

LEMMA ExecuteTotalStep == ASSUME IInv, SingleInv, NEW f \in flows, ExecuteTotal(f) PROVE IInv' /\ SingleInv'
<1> USE DEF samplerVars, Moves
<1>0. Types /\ f \in 0..NEmuls - 1 /\ flows' = flows
  BY DEF IInv, Types, ExecuteTotal, AddTotal
<1>1. \/ th[f].fid \in done /\ Moves(f, "guest", th[f].fid, th[f].then, th[f].arg)
      \/ th[f].fid \notin done /\ Moves(f, "test", th[f].fid, th[f].then, th[f].arg)
  BY <1>0, ThreadType, Members, GotoMoves DEF ExecuteTotal, AddTotal, Thread
<1>2. Types'
  BY <1>0, <1>1, SamplerAssumption, SkipSimAssumption DEF Types, TypeOK, ExecuteTotal, AddTotal, Thread
<1>3. CounterIsFlow0'
  BY <1>0, <1>1, Members DEF IInv, CounterIsFlow0, ExecuteTotal, AddTotal
<1>4. NeverOverCounted'
  BY <1>0, <1>1, <1>2 DEF IInv, Types, TypeOK, CounterIsFlow0, NeverOverCounted, Sampled, InFlight, ExecuteTotal, AddTotal, Modes
<1>5. ASSUME flows = {f} PROVE Counted(f)' /\ Stopped(f)' /\ Returns(f)' /\ Switched(f)'
  <2>0. Counted(f) /\ Stopped(f) /\ Returns(f) /\ Switched(f)
    BY <1>5 DEF SingleInv
  <2>1. Counted(f)'
    BY <1>0, <1>1, <2>0 DEF Types, TypeOK, Counted, Sampled, ExecuteTotal, AddTotal, Modes, Stopped, Returns, Ends
  <2>2. Stopped(f)'
    BY <1>0, <1>1, <2>0 DEF Types, TypeOK, Stopped, Returns, ExecuteTotal, AddTotal, Ends
  <2>3. Returns(f)'
    BY <1>0, <1>1, <2>0 DEF Returns, ExecuteTotal, AddTotal
  <2>4. Switched(f)'
    BY <1>0, <1>1, <2>0, SkipSimAssumption DEF IInv, CounterIsFlow0, Types, TypeOK, Switched, Late, Stopped, Returns, ExecuteTotal, AddTotal, Ends, Modes
  <2> QED
    BY <2>1, <2>2, <2>3, <2>4
<1> QED
  BY <1>0, <1>2, <1>3, <1>4, <1>5 DEF IInv, SingleInv

LEMMA TestStep == ASSUME IInv, SingleInv, NEW f \in flows, Test(f) PROVE IInv' /\ SingleInv'
<1> USE DEF samplerVars, Moves
<1>0. Types /\ f \in 0..NEmuls - 1 /\ flows' = flows
  BY DEF IInv, Types, Test
<1>1. \/ Moves(f, "stop", th[f].fid, "mark", th[f].arg)
      \/ NInstSkip > totalnInst /\ Moves(f, "guest", th[f].fid, th[f].then, th[f].arg)
      \/ NInstSkip <= totalnInst /\ Moves(f, "switch", th[f].fid, th[f].then, th[f].arg)
  BY <1>0, ThreadType, Members, GotoMoves, CallMoves DEF Test, Thread
<1>2. Types'
  BY <1>0, <1>1, SamplerAssumption, SkipSimAssumption DEF Types, TypeOK, Test, Thread
<1>3. CounterIsFlow0'
  BY <1>0, <1>1, Members DEF IInv, CounterIsFlow0, Test
<1>4. NeverOverCounted'
  BY <1>0, <1>1, <1>2 DEF IInv, Types, TypeOK, CounterIsFlow0, NeverOverCounted, Sampled, InFlight, Test, Modes
<1>5. ASSUME flows = {f} PROVE Counted(f)' /\ Stopped(f)' /\ Returns(f)' /\ Switched(f)'
  <2>0. Counted(f) /\ Stopped(f) /\ Returns(f) /\ Switched(f)
    BY <1>5 DEF SingleInv
  <2>1. Counted(f)'
    BY <1>0, <1>1, <2>0 DEF Types, TypeOK, Counted, Sampled, Test, Modes, Stopped, Returns, Ends
  <2>2. Stopped(f)'
    BY <1>0, <1>1, <2>0 DEF Types, TypeOK, Stopped, Returns, Test, Ends
  <2>3. Returns(f)'
    BY <1>0, <1>1, <2>0 DEF Returns, Test
  <2>4. Switched(f)'
    BY <1>0, <1>1, <2>0, SkipSimAssumption DEF IInv, CounterIsFlow0, Types, TypeOK, Switched, Late, Stopped, Returns, Test, Ends, Modes
  <2> QED
    BY <2>1, <2>2, <2>3, <2>4
<1> QED
  BY <1>0, <1>2, <1>3, <1>4, <1>5 DEF IInv, SingleInv

LEMMA SwitchStep == ASSUME IInv, SingleInv, NEW f \in flows, Switch(f) PROVE IInv' /\ SingleInv'
<1> USE DEF samplerVars, Moves
<1>0. Types /\ f \in 0..NEmuls - 1 /\ flows' = flows
  BY DEF IInv, Types, Switch
<1>1. \/ mode = "Rabbit" /\ Moves(f, "stop", th[f].fid, "start", th[f].arg)
      \/ mode # "Rabbit" /\ Moves(f, Queued, th[f].fid, th[f].then, th[f].arg)
  BY <1>0, ThreadType, Members, GotoMoves, CallMoves DEF Switch, Queued, Thread
<1>2. Types'
  BY <1>0, <1>1, SamplerAssumption, SkipSimAssumption DEF Types, TypeOK, Switch, Thread
<1>3. CounterIsFlow0'
  BY <1>0, <1>1, Members DEF IInv, CounterIsFlow0, Switch, Queued
<1>4. NeverOverCounted'
  BY <1>0, <1>1, <1>2 DEF IInv, Types, TypeOK, CounterIsFlow0, NeverOverCounted, Sampled, InFlight, Switch, Queued, Modes
<1>5. ASSUME flows = {f} PROVE Counted(f)' /\ Stopped(f)' /\ Returns(f)' /\ Switched(f)'
  <2>0. Counted(f) /\ Stopped(f) /\ Returns(f) /\ Switched(f)
    BY <1>5 DEF SingleInv
  <2>1. Counted(f)'
    BY <1>0, <1>1, <2>0 DEF Types, TypeOK, Counted, Sampled, Switch, Queued, Modes, Stopped, Returns, Ends
  <2>2. Stopped(f)'
    BY <1>0, <1>1, <2>0 DEF Types, TypeOK, Stopped, Returns, Switch, Queued, Ends
  <2>3. Returns(f)'
    BY <1>0, <1>1, <2>0 DEF Returns, Switch, Queued
  <2>4. Switched(f)'
    BY <1>0, <1>1, <2>0, SkipSimAssumption DEF IInv, CounterIsFlow0, Types, TypeOK, Switched, Late, Stopped, Returns, Switch, Queued, Ends, Modes
  <2> QED
    BY <2>1, <2>2, <2>3, <2>4
<1> QED
  BY <1>0, <1>2, <1>3, <1>4, <1>5 DEF IInv, SingleInv

LEMMA StartStep == ASSUME IInv, SingleInv, NEW f \in flows, Start(f) PROVE IInv' /\ SingleInv'
<1> USE DEF samplerVars, Moves
<1>0. Types /\ f \in 0..NEmuls - 1 /\ flows' = flows
  BY DEF IInv, Types, Start, StartTiming
<1>1. Moves(f, "begin", th[f].fid, Queued, "Timing")
  BY <1>0, ThreadType, Members, SamplerAssumption DEF Start, StartTiming, Queued, Types, TypeOK, Moves, Thread, Goto, Call, Fids
<1>2. Types'
  BY <1>0, <1>1, SamplerAssumption, SkipSimAssumption DEF Types, TypeOK, Start, StartTiming, Thread
<1>3. CounterIsFlow0'
  BY <1>0, <1>1, Members DEF IInv, CounterIsFlow0, Start, StartTiming, Queued
<1>4. NeverOverCounted'
  BY <1>0, <1>1, <1>2 DEF IInv, Types, TypeOK, CounterIsFlow0, NeverOverCounted, Sampled, InFlight, Start, StartTiming, Queued, Modes
<1>5. ASSUME flows = {f} PROVE Counted(f)' /\ Stopped(f)' /\ Returns(f)' /\ Switched(f)'
  <2>0. Counted(f) /\ Stopped(f) /\ Returns(f) /\ Switched(f)
    BY <1>5 DEF SingleInv
  <2>1. Counted(f)'
    BY <1>0, <1>1, <2>0 DEF Types, TypeOK, Counted, Sampled, Start, StartTiming, Queued, Modes, Stopped, Returns, Ends
  <2>2. Stopped(f)'
    BY <1>0, <1>1, <2>0 DEF Types, TypeOK, Stopped, Returns, Start, StartTiming, Queued, Ends
  <2>3. Returns(f)'
    BY <1>0, <1>1, <2>0 DEF Returns, Start, StartTiming, Queued
  <2>4. Switched(f)'
    BY <1>0, <1>1, <2>0, SkipSimAssumption DEF IInv, CounterIsFlow0, Types, TypeOK, Switched, Late, Stopped, Returns, Start, StartTiming, Queued, Ends, Modes
  <2> QED
    BY <2>1, <2>2, <2>3, <2>4
<1> QED
  BY <1>0, <1>2, <1>3, <1>4, <1>5 DEF IInv, SingleInv

LEMMA BeginStep == ASSUME IInv, SingleInv, NEW f \in flows, Begin(f) PROVE IInv' /\ SingleInv'
<1> USE DEF samplerVars, Moves
<1>0. Types /\ f \in 0..NEmuls - 1 /\ flows' = flows
  BY DEF IInv, Types, Begin, BeginTiming
<1>1. Moves(f, th[f].then, th[f].fid, th[f].then, th[f].arg)
  BY <1>0, ThreadType, Members, GotoMoves DEF Begin, BeginTiming, Thread
<1>2. Types'
  BY <1>0, <1>1, SamplerAssumption, SkipSimAssumption DEF Types, TypeOK, Begin, BeginTiming, Thread
<1>3. CounterIsFlow0'
  BY <1>0, <1>1, Members DEF IInv, CounterIsFlow0, Begin, BeginTiming
<1>4. NeverOverCounted'
  BY <1>0, <1>1, <1>2 DEF IInv, Types, TypeOK, CounterIsFlow0, NeverOverCounted, Sampled, InFlight, Begin, BeginTiming, Modes
<1>5. ASSUME flows = {f} PROVE Counted(f)' /\ Stopped(f)' /\ Returns(f)' /\ Switched(f)'
  <2>0. Counted(f) /\ Stopped(f) /\ Returns(f) /\ Switched(f)
    BY <1>5 DEF SingleInv
  <2>1. Counted(f)'
    BY <1>0, <1>1, <2>0 DEF Types, TypeOK, Counted, Sampled, Begin, BeginTiming, Modes, Stopped, Returns, Ends
  <2>2. Stopped(f)'
    BY <1>0, <1>1, <2>0 DEF Types, TypeOK, Stopped, Returns, Begin, BeginTiming, Ends
  <2>3. Returns(f)'
    BY <1>0, <1>1, <2>0 DEF Returns, Begin, BeginTiming
  <2>4. Switched(f)'
    BY <1>0, <1>1, <2>0, SkipSimAssumption DEF IInv, CounterIsFlow0, Types, TypeOK, Switched, Late, Stopped, Returns, Begin, BeginTiming, Ends, Modes
  <2> QED
    BY <2>1, <2>2, <2>3, <2>4
<1> QED
  BY <1>0, <1>2, <1>3, <1>4, <1>5 DEF IInv, SingleInv

LEMMA StopStep == ASSUME IInv, SingleInv, NEW f \in flows, Stop(f) PROVE IInv' /\ SingleInv'
<1> USE DEF samplerVars, Moves
<1>0. Types /\ f \in 0..NEmuls - 1 /\ flows' = flows
  BY DEF IInv, Types, Stop, StopAgain, StopEnter
<1>1. \/ stopJustCalled /\ Moves(f, th[f].then, th[f].fid, th[f].then, th[f].arg)
      \/ ~stopJustCalled /\ Moves(f, "stopping", th[f].fid, th[f].then, th[f].arg)
  BY <1>0, ThreadType, Members, GotoMoves DEF Stop, StopAgain, StopEnter, Thread
<1>2. Types'
  <2>1. CASE StopAgain(f)
    BY <1>0, <1>1, <2>1, SamplerAssumption, SkipSimAssumption DEF Types, TypeOK, Stop, StopAgain, Thread
  <2>2. CASE StopEnter(f)
    <3>1. iusage' \in [Modes -> Nat] /\ stop_lock' \in flows \cup {NoThread}
      BY <1>0, <2>2 DEF Types, TypeOK, StopEnter
    <3> QED
      BY <1>0, <1>1, <2>2, <3>1 DEF Types, TypeOK, Stop, StopEnter, Thread
  <2> QED
    BY <2>1, <2>2 DEF Stop
<1>3. CounterIsFlow0'
  BY <1>0, <1>1, Members DEF IInv, CounterIsFlow0, Stop, StopAgain, StopEnter
<1>4. NeverOverCounted'
  <2>0. InFlight' = InFlight /\ totalnInst' = totalnInst /\ phasenInst' = phasenInst
    BY <1>0, <1>1 DEF IInv, CounterIsFlow0, InFlight, Stop, StopAgain, StopEnter
  <2>1. CASE StopAgain(f)
    BY <2>0, <2>1 DEF IInv, NeverOverCounted, Sampled, StopAgain
  <2>2. CASE StopEnter(f)
    <3>1. stop_lock = NoThread /\ stop_lock' # NoThread
      BY <1>0, <2>2, SkipSimAssumption DEF StopEnter
    <3>2. Sampled' = Sampled + phasenInst
      BY <1>0, <2>2 DEF Types, TypeOK, Sampled, StopEnter, Modes
    <3> QED
      BY <2>0, <3>1, <3>2 DEF IInv, NeverOverCounted
  <2> QED
    BY <2>1, <2>2 DEF Stop
<1>5. ASSUME flows = {f} PROVE Counted(f)' /\ Stopped(f)' /\ Returns(f)' /\ Switched(f)'
  <2>0. Counted(f) /\ Stopped(f) /\ Returns(f) /\ Switched(f)
    BY <1>5 DEF SingleInv
  <2>1. Counted(f)'
    BY <1>0, <1>1, <2>0 DEF Types, TypeOK, Counted, Sampled, Stop, StopAgain, StopEnter, Modes, Stopped, Returns, Ends
  <2>2. Stopped(f)'
    BY <1>0, <1>1, <2>0 DEF Types, TypeOK, Stopped, Returns, Stop, StopAgain, StopEnter, Ends
  <2>3. Returns(f)'
    BY <1>0, <1>1, <2>0 DEF Returns, Stop, StopAgain, StopEnter
  <2>4. Switched(f)'
    BY <1>0, <1>1, <2>0, SkipSimAssumption DEF IInv, CounterIsFlow0, Types, TypeOK, Switched, Late, Stopped, Returns, Stop, StopAgain, StopEnter, Ends, Modes
  <2> QED
    BY <2>1, <2>2, <2>3, <2>4
<1> QED
  BY <1>0, <1>2, <1>3, <1>4, <1>5 DEF IInv, SingleInv

LEMMA StoppingStep == ASSUME IInv, SingleInv, NEW f \in flows, Stopping(f) PROVE IInv' /\ SingleInv'
<1> USE DEF samplerVars, Moves
<1>0. Types /\ f \in 0..NEmuls - 1 /\ flows' = flows
  BY DEF IInv, Types, Stopping, StopExit
<1>1. Moves(f, th[f].then, th[f].fid, th[f].then, th[f].arg)
  BY <1>0, ThreadType, Members, GotoMoves DEF Stopping, StopExit, Thread
<1>2. Types'
  BY <1>0, <1>1, SamplerAssumption, SkipSimAssumption DEF Types, TypeOK, Stopping, StopExit, Thread
<1>3. CounterIsFlow0'
  BY <1>0, <1>1, Members DEF IInv, CounterIsFlow0, Stopping, StopExit
<1>4. NeverOverCounted'
  BY <1>0, <1>1, <1>2 DEF IInv, Types, TypeOK, CounterIsFlow0, NeverOverCounted, Sampled, InFlight, Stopping, StopExit, Modes
<1>5. ASSUME flows = {f} PROVE Counted(f)' /\ Stopped(f)' /\ Returns(f)' /\ Switched(f)'
  <2>0. Counted(f) /\ Stopped(f) /\ Returns(f) /\ Switched(f)
    BY <1>5 DEF SingleInv
  <2>1. Counted(f)'
    BY <1>0, <1>1, <2>0 DEF Types, TypeOK, Counted, Sampled, Stopping, StopExit, Modes, Stopped, Returns, Ends
  <2>2. Stopped(f)'
    BY <1>0, <1>1, <2>0 DEF Types, TypeOK, Stopped, Returns, Stopping, StopExit, Ends
  <2>3. Returns(f)'
    BY <1>0, <1>1, <2>0 DEF Returns, Stopping, StopExit
  <2>4. Switched(f)'
    BY <1>0, <1>1, <2>0, SkipSimAssumption DEF IInv, CounterIsFlow0, Types, TypeOK, Switched, Late, Stopped, Returns, Stopping, StopExit, Ends, Modes
  <2> QED
    BY <2>1, <2>2, <2>3, <2>4
<1> QED
  BY <1>0, <1>2, <1>3, <1>4, <1>5 DEF IInv, SingleInv

LEMMA PowerStep == ASSUME IInv, SingleInv, NEW f \in flows, Power(f) PROVE IInv' /\ SingleInv'
<1> USE DEF samplerVars, Moves
<1>0. Types /\ f \in 0..NEmuls - 1 /\ flows' = flows
  BY DEF IInv, Types, Power
<1>1. \/ Moves(f, "guest", th[f].fid, th[f].then, th[f].arg)
      \/ Moves(f, "sync", th[f].fid, th[f].then, th[f].arg)
  <2>1. CASE Goto(f, "guest")
    BY <1>0, <2>1, GotoMoves, Members
  <2>2. ASSUME NEW n \in 0..NEmuls, th' = [th EXCEPT ![f].pc = "sync", ![f].left = n]
        PROVE  Moves(f, "sync", th[f].fid, th[f].then, th[f].arg)
    BY <1>0, <2>2, ThreadType, Members DEF Thread
  <2>3. (IF terminated THEN 0 ELSE Cardinality(flows)) \in 0..NEmuls
    BY <1>0, CrewSize, SamplerAssumption DEF Types
  <2> QED
    BY <2>1, <2>2, <2>3 DEF Power
<1>2. Types'
  BY <1>0, <1>1, SamplerAssumption, SkipSimAssumption DEF Types, TypeOK, Power, Thread
<1>3. CounterIsFlow0'
  BY <1>0, <1>1, Members DEF IInv, CounterIsFlow0, Power
<1>4. NeverOverCounted'
  BY <1>0, <1>1, <1>2 DEF IInv, Types, TypeOK, CounterIsFlow0, NeverOverCounted, Sampled, InFlight, Power, Modes
<1>5. ASSUME flows = {f} PROVE Counted(f)' /\ Stopped(f)' /\ Returns(f)' /\ Switched(f)'
  <2>0. Counted(f) /\ Stopped(f) /\ Returns(f) /\ Switched(f)
    BY <1>5 DEF SingleInv
  <2>1. Counted(f)'
    BY <1>0, <1>1, <2>0 DEF Types, TypeOK, Counted, Sampled, Power, Modes, Stopped, Returns, Ends
  <2>2. Stopped(f)'
    BY <1>0, <1>1, <2>0 DEF Types, TypeOK, Stopped, Returns, Power, Ends
  <2>3. Returns(f)'
    BY <1>0, <1>1, <2>0 DEF Returns, Power
  <2>4. Switched(f)'
    BY <1>0, <1>1, <2>0, SkipSimAssumption DEF IInv, CounterIsFlow0, Types, TypeOK, Switched, Late, Stopped, Returns, Power, Ends, Modes
  <2> QED
    BY <2>1, <2>2, <2>3, <2>4
<1> QED
  BY <1>0, <1>2, <1>3, <1>4, <1>5 DEF IInv, SingleInv

LEMMA SyncStatsStep == ASSUME IInv, SingleInv, NEW f \in flows, SyncStats(f) PROVE IInv' /\ SingleInv'
<1> USE DEF samplerVars, Moves
<1>0. Types /\ f \in 0..NEmuls - 1 /\ flows' = flows
  BY DEF IInv, Types, SyncStats
<1>1. \/ phasenInst = 0 /\ Moves(f, "sync", th[f].fid, "again", th[f].arg)
      \/ phasenInst # 0 /\ Moves(f, "stop", th[f].fid, "again", th[f].arg)
  <2>1. ASSUME NEW n \in 0..NEmuls, NEW pc \in Pcs,
               th' = [th EXCEPT ![f].left = n, ![f].pc = pc, ![f].then = "again"]
        PROVE  Moves(f, pc, th[f].fid, "again", th[f].arg)
    BY <1>0, <2>1, ThreadType, Members DEF Thread
  <2>2. th[f].left - 1 \in 0..NEmuls
    BY <1>0, ThreadType, SamplerAssumption DEF SyncStats, Thread
  <2>3. th' = [th EXCEPT ![f].left = th[f].left - 1,
                         ![f].pc = IF phasenInst = 0 THEN "sync" ELSE "stop",
                         ![f].then = "again"]
    BY <1>0, ThreadType DEF SyncStats, Thread
  <2> QED
    BY <2>1, <2>2, <2>3, Members
<1>2. Types'
  BY <1>0, <1>1, SamplerAssumption, SkipSimAssumption DEF Types, TypeOK, SyncStats, Thread
<1>3. CounterIsFlow0'
  BY <1>0, <1>1, Members DEF IInv, CounterIsFlow0, SyncStats
<1>4. NeverOverCounted'
  BY <1>0, <1>1, <1>2 DEF IInv, Types, TypeOK, CounterIsFlow0, NeverOverCounted, Sampled, InFlight, SyncStats, Modes
<1>5. ASSUME flows = {f} PROVE Counted(f)' /\ Stopped(f)' /\ Returns(f)' /\ Switched(f)'
  <2>0. Counted(f) /\ Stopped(f) /\ Returns(f) /\ Switched(f)
    BY <1>5 DEF SingleInv
  <2>1. Counted(f)'
    BY <1>0, <1>1, <2>0 DEF Types, TypeOK, Counted, Sampled, SyncStats, Modes, Stopped, Returns, Ends
  <2>2. Stopped(f)'
    BY <1>0, <1>1, <2>0 DEF Types, TypeOK, Stopped, Returns, SyncStats, Ends
  <2>3. Returns(f)'
    BY <1>0, <1>1, <2>0 DEF Returns, SyncStats
  <2>4. Switched(f)'
    BY <1>0, <1>1, <2>0, SkipSimAssumption DEF IInv, CounterIsFlow0, Types, TypeOK, Switched, Late, Stopped, Returns, SyncStats, Ends, Modes
  <2> QED
    BY <2>1, <2>2, <2>3, <2>4
<1> QED
  BY <1>0, <1>2, <1>3, <1>4, <1>5 DEF IInv, SingleInv

LEMMA SyncAgainStep == ASSUME IInv, SingleInv, NEW f \in flows, SyncAgain(f) PROVE IInv' /\ SingleInv'
<1> USE DEF samplerVars, Moves
<1>0. Types /\ f \in 0..NEmuls - 1 /\ flows' = flows
  BY DEF IInv, Types, SyncAgain
<1>1. Moves(f, "begin", th[f].fid, "sync", mode)
  BY <1>0, ThreadType, Members, SamplerAssumption DEF SyncAgain, Types, TypeOK, Moves, Thread, Goto, Call, Fids
<1>2. Types'
  BY <1>0, <1>1, SamplerAssumption, SkipSimAssumption DEF Types, TypeOK, SyncAgain, Thread
<1>3. CounterIsFlow0'
  BY <1>0, <1>1, Members DEF IInv, CounterIsFlow0, SyncAgain
<1>4. NeverOverCounted'
  BY <1>0, <1>1, <1>2 DEF IInv, Types, TypeOK, CounterIsFlow0, NeverOverCounted, Sampled, InFlight, SyncAgain, Modes
<1>5. ASSUME flows = {f} PROVE Counted(f)' /\ Stopped(f)' /\ Returns(f)' /\ Switched(f)'
  <2>0. Counted(f) /\ Stopped(f) /\ Returns(f) /\ Switched(f)
    BY <1>5 DEF SingleInv
  <2>1. Counted(f)'
    BY <1>0, <1>1, <2>0 DEF Types, TypeOK, Counted, Sampled, SyncAgain, Modes, Stopped, Returns, Ends
  <2>2. Stopped(f)'
    BY <1>0, <1>1, <2>0 DEF Types, TypeOK, Stopped, Returns, SyncAgain, Ends
  <2>3. Returns(f)'
    BY <1>0, <1>1, <2>0 DEF Returns, SyncAgain
  <2>4. Switched(f)'
    BY <1>0, <1>1, <2>0, SkipSimAssumption DEF IInv, CounterIsFlow0, Types, TypeOK, Switched, Late, Stopped, Returns, SyncAgain, Ends, Modes
  <2> QED
    BY <2>1, <2>2, <2>3, <2>4
<1> QED
  BY <1>0, <1>2, <1>3, <1>4, <1>5 DEF IInv, SingleInv

LEMMA CalcStatsStep == ASSUME IInv, SingleInv, NEW f \in flows, CalcStats(f) PROVE IInv' /\ SingleInv'
<1> USE DEF samplerVars, Moves
<1>0. Types /\ f \in 0..NEmuls - 1 /\ flows' = flows
  BY DEF IInv, Types, CalcStats
<1>1. Moves(f, "guest", th[f].fid, th[f].then, th[f].arg)
  BY <1>0, ThreadType, Members, GotoMoves DEF CalcStats, Thread
<1>2. Types'
  BY <1>0, <1>1, SamplerAssumption, SkipSimAssumption DEF Types, TypeOK, CalcStats, Thread
<1>3. CounterIsFlow0'
  BY <1>0, <1>1, Members DEF IInv, CounterIsFlow0, CalcStats
<1>4. NeverOverCounted'
  BY <1>0, <1>1, <1>2 DEF IInv, Types, TypeOK, CounterIsFlow0, NeverOverCounted, Sampled, InFlight, CalcStats, Modes
<1>5. ASSUME flows = {f} PROVE Counted(f)' /\ Stopped(f)' /\ Returns(f)' /\ Switched(f)'
  <2>0. Counted(f) /\ Stopped(f) /\ Returns(f) /\ Switched(f)
    BY <1>5 DEF SingleInv
  <2>1. Counted(f)'
    BY <1>0, <1>1, <2>0 DEF Types, TypeOK, Counted, Sampled, CalcStats, Modes, Stopped, Returns, Ends
  <2>2. Stopped(f)'
    BY <1>0, <1>1, <2>0 DEF Types, TypeOK, Stopped, Returns, CalcStats, Ends
  <2>3. Returns(f)'
    BY <1>0, <1>1, <2>0 DEF Returns, CalcStats
  <2>4. Switched(f)'
    BY <1>0, <1>1, <2>0, SkipSimAssumption DEF IInv, CounterIsFlow0, Types, TypeOK, Switched, Late, Stopped, Returns, CalcStats, Ends, Modes
  <2> QED
    BY <2>1, <2>2, <2>3, <2>4
<1> QED
  BY <1>0, <1>2, <1>3, <1>4, <1>5 DEF IInv, SingleInv

LEMMA MarkStep == ASSUME IInv, SingleInv, NEW f \in flows, Mark(f) PROVE IInv' /\ SingleInv'
<1> USE DEF samplerVars, Moves
<1>0. Types /\ f \in 0..NEmuls - 1 /\ flows' = flows
  BY DEF IInv, Types, Mark, MarkDone
<1>1. Moves(f, "term", th[f].fid, "guest", th[f].arg)
  BY <1>0, ThreadType, Members, CallMoves DEF Mark, MarkDone, Thread
<1>2. Types'
  BY <1>0, <1>1, SamplerAssumption, SkipSimAssumption DEF Types, TypeOK, Mark, MarkDone, Thread
<1>3. CounterIsFlow0'
  BY <1>0, <1>1, Members DEF IInv, CounterIsFlow0, Mark, MarkDone
<1>4. NeverOverCounted'
  BY <1>0, <1>1, <1>2 DEF IInv, Types, TypeOK, CounterIsFlow0, NeverOverCounted, Sampled, InFlight, Mark, MarkDone, Modes
<1>5. ASSUME flows = {f} PROVE Counted(f)' /\ Stopped(f)' /\ Returns(f)' /\ Switched(f)'
  <2>0. Counted(f) /\ Stopped(f) /\ Returns(f) /\ Switched(f)
    BY <1>5 DEF SingleInv
  <2>1. Counted(f)'
    BY <1>0, <1>1, <2>0 DEF Types, TypeOK, Counted, Sampled, Mark, MarkDone, Modes, Stopped, Returns, Ends
  <2>2. Stopped(f)'
    BY <1>0, <1>1, <2>0 DEF Types, TypeOK, Stopped, Returns, Mark, MarkDone, Ends
  <2>3. Returns(f)'
    BY <1>0, <1>1, <2>0 DEF Returns, Mark, MarkDone
  <2>4. Switched(f)'
    BY <1>0, <1>1, <2>0, SkipSimAssumption DEF IInv, CounterIsFlow0, Types, TypeOK, Switched, Late, Stopped, Returns, Mark, MarkDone, Ends, Modes
  <2> QED
    BY <2>1, <2>2, <2>3, <2>4
<1> QED
  BY <1>0, <1>2, <1>3, <1>4, <1>5 DEF IInv, SingleInv

LEMMA TerminateStep == ASSUME IInv, SingleInv, NEW f \in flows, Terminate(f) PROVE IInv' /\ SingleInv'
<1> USE DEF samplerVars, Moves
<1>0. Types /\ f \in 0..NEmuls - 1 /\ flows' = flows
  BY DEF IInv, Types, Terminate
<1>1. Moves(f, th[f].then, th[f].fid, th[f].then, th[f].arg)
  BY <1>0, ThreadType, Members, GotoMoves DEF Terminate, Thread
<1>2. Types'
  BY <1>0, <1>1, SamplerAssumption, SkipSimAssumption DEF Types, TypeOK, Terminate, Thread
<1>3. CounterIsFlow0'
  BY <1>0, <1>1, Members DEF IInv, CounterIsFlow0, Terminate
<1>4. NeverOverCounted'
  BY <1>0, <1>1, <1>2 DEF IInv, Types, TypeOK, CounterIsFlow0, NeverOverCounted, Sampled, InFlight, Terminate, Modes
<1>5. ASSUME flows = {f} PROVE Counted(f)' /\ Stopped(f)' /\ Returns(f)' /\ Switched(f)'
  <2>0. Counted(f) /\ Stopped(f) /\ Returns(f) /\ Switched(f)
    BY <1>5 DEF SingleInv
  <2>1. Counted(f)'
    BY <1>0, <1>1, <2>0 DEF Types, TypeOK, Counted, Sampled, Terminate, Modes, Stopped, Returns, Ends
  <2>2. Stopped(f)'
    BY <1>0, <1>1, <2>0 DEF Types, TypeOK, Stopped, Returns, Terminate, Ends
  <2>3. Returns(f)'
    BY <1>0, <1>1, <2>0 DEF Returns, Terminate
  <2>4. Switched(f)'
    BY <1>0, <1>1, <2>0, SkipSimAssumption DEF IInv, CounterIsFlow0, Types, TypeOK, Switched, Late, Stopped, Returns, Terminate, Ends, Modes
  <2> QED
    BY <2>1, <2>2, <2>3, <2>4
<1> QED
  BY <1>0, <1>2, <1>3, <1>4, <1>5 DEF IInv, SingleInv

LEMMA FinishThreadStep == ASSUME IInv, SingleInv, NEW f \in flows, FinishThread(f) PROVE IInv' /\ SingleInv'
<1> USE DEF samplerVars, Moves
<1>0. Types /\ f \in 0..NEmuls - 1 /\ flows' = flows
  BY DEF IInv, Types, FinishThread
<1>1. Moves(f, "stop", th[f].fid, "gone", th[f].arg)
  BY <1>0, ThreadType, Members, CallMoves DEF FinishThread, Thread
<1>2. Types'
  BY <1>0, <1>1, SamplerAssumption, SkipSimAssumption DEF Types, TypeOK, FinishThread, Thread
<1>3. CounterIsFlow0'
  BY <1>0, <1>1, Members DEF IInv, CounterIsFlow0, FinishThread
<1>4. NeverOverCounted'
  BY <1>0, <1>1, <1>2 DEF IInv, Types, TypeOK, CounterIsFlow0, NeverOverCounted, Sampled, InFlight, FinishThread, Modes
<1>5. flows # {f}
  BY DEF FinishThread
<1> QED
  BY <1>0, <1>2, <1>3, <1>4, <1>5 DEF IInv, SingleInv

LEMMA FinishStep == ASSUME IInv, SingleInv, NEW f \in flows, Finish(f) PROVE IInv' /\ SingleInv'
<1> USE DEF samplerVars, Moves
<1>0. Types /\ f \in 0..NEmuls - 1 /\ flows' = flows
  BY DEF IInv, Types, Finish
<1>1. Moves(f, "stop", th[f].fid, "finish", th[f].arg)
  BY <1>0, ThreadType, Members, CallMoves DEF Finish, Thread
<1>2. Types'
  BY <1>0, <1>1, SamplerAssumption, SkipSimAssumption DEF Types, TypeOK, Finish, Thread
<1>3. CounterIsFlow0'
  BY <1>0, <1>1, Members DEF IInv, CounterIsFlow0, Finish
<1>4. NeverOverCounted'
  BY <1>0, <1>1, <1>2 DEF IInv, Types, TypeOK, CounterIsFlow0, NeverOverCounted, Sampled, InFlight, Finish, Modes
<1>5. ASSUME flows = {f} PROVE Counted(f)' /\ Stopped(f)' /\ Returns(f)' /\ Switched(f)'
  <2>0. Counted(f) /\ Stopped(f) /\ Returns(f) /\ Switched(f)
    BY <1>5 DEF SingleInv
  <2>1. Counted(f)'
    BY <1>0, <1>1, <2>0 DEF Types, TypeOK, Counted, Sampled, Finish, Modes, Stopped, Returns, Ends
  <2>2. Stopped(f)'
    BY <1>0, <1>1, <2>0 DEF Types, TypeOK, Stopped, Returns, Finish, Ends
  <2>3. Returns(f)'
    BY <1>0, <1>1, <2>0 DEF Returns, Finish
  <2>4. Switched(f)'
    BY <1>0, <1>1, <2>0, SkipSimAssumption DEF IInv, CounterIsFlow0, Types, TypeOK, Switched, Late, Stopped, Returns, Finish, Ends, Modes
  <2> QED
    BY <2>1, <2>2, <2>3, <2>4
<1> QED
  BY <1>0, <1>2, <1>3, <1>4, <1>5 DEF IInv, SingleInv

LEMMA FinishEndStep == ASSUME IInv, SingleInv, NEW f \in flows, FinishEnd(f) PROVE IInv' /\ SingleInv'
<1> USE DEF samplerVars, Moves
<1>0. Types /\ f \in 0..NEmuls - 1 /\ flows' = flows
  BY DEF IInv, Types, FinishEnd
<1>1. Moves(f, "term", th[f].fid, "gone", th[f].arg)
  BY <1>0, ThreadType, Members, CallMoves DEF FinishEnd, Thread
<1>2. Types'
  BY <1>0, <1>1, SamplerAssumption, SkipSimAssumption DEF Types, TypeOK, FinishEnd, Thread
<1>3. CounterIsFlow0'
  BY <1>0, <1>1, Members DEF IInv, CounterIsFlow0, FinishEnd
<1>4. NeverOverCounted'
  BY <1>0, <1>1, <1>2 DEF IInv, Types, TypeOK, CounterIsFlow0, NeverOverCounted, Sampled, InFlight, FinishEnd, Modes
<1>5. ASSUME flows = {f} PROVE Counted(f)' /\ Stopped(f)' /\ Returns(f)' /\ Switched(f)'
  <2>0. Counted(f) /\ Stopped(f) /\ Returns(f) /\ Switched(f)
    BY <1>5 DEF SingleInv
  <2>1. Counted(f)'
    BY <1>0, <1>1, <2>0 DEF Types, TypeOK, Counted, Sampled, FinishEnd, Modes, Stopped, Returns, Ends
  <2>2. Stopped(f)'
    BY <1>0, <1>1, <2>0 DEF Types, TypeOK, Stopped, Returns, FinishEnd, Ends
  <2>3. Returns(f)'
    BY <1>0, <1>1, <2>0 DEF Returns, FinishEnd
  <2>4. Switched(f)'
    BY <1>0, <1>1, <2>0, SkipSimAssumption DEF IInv, CounterIsFlow0, Types, TypeOK, Switched, Late, Stopped, Returns, FinishEnd, Ends, Modes
  <2> QED
    BY <2>1, <2>2, <2>3, <2>4
<1> QED
  BY <1>0, <1>2, <1>3, <1>4, <1>5 DEF IInv, SingleInv

LEMMA TerminateElsewhereStep == ASSUME IInv, SingleInv, TerminateElsewhere PROVE IInv' /\ SingleInv'
<1> USE DEF samplerVars, TerminateElsewhere
<1>1. Types'
  BY DEF IInv, Types, TypeOK
<1>2. CounterIsFlow0' /\ NeverOverCounted'
  BY DEF IInv, CounterIsFlow0, NeverOverCounted, Sampled, InFlight
<1>3. ASSUME NEW f \in flows, flows = {f} PROVE Counted(f)' /\ Stopped(f)' /\ Returns(f)' /\ Switched(f)'
  <2>0. Counted(f) /\ Stopped(f) /\ Returns(f) /\ Switched(f)
    BY <1>3 DEF SingleInv
  <2>1. Counted(f)' /\ Returns(f)'
    BY <2>0 DEF Counted, Sampled, Returns
  <2>2. Stopped(f)' /\ Switched(f)'
    BY <2>0 DEF Stopped, Switched, Late
  <2> QED
    BY <2>1, <2>2
<1> QED
  BY <1>1, <1>2, <1>3 DEF IInv, SingleInv

LEMMA UnchangedStep == ASSUME IInv, SingleInv, UNCHANGED vars PROVE IInv' /\ SingleInv'
<1> USE DEF vars, samplerVars, threadVars
<1>1. IInv'
  BY DEF IInv, Types, TypeOK, CounterIsFlow0, NeverOverCounted, Sampled, InFlight
<1>2. SingleInv'
  BY DEF SingleInv, Counted, Sampled, Stopped, Returns, Switched, Late
<1> QED
  BY <1>1, <1>2

-----------------------------------------------------------------------------
(* The theorems.                                                           *)

LEMMA InitInv == Init => IInv /\ SingleInv
<1> SUFFICES ASSUME Init PROVE IInv /\ SingleInv
  OBVIOUS
<1> USE SamplerAssumption, SkipSimAssumption
<1>1. flows \subseteq 0..NEmuls - 1
  BY DEF Init
<1>2. th \in [flows -> Thread]
  BY <1>1, Members DEF Init, Thread, Fids
<1>3. mode \in Modes /\ iusage \in [Modes -> Nat] /\ tb \in [Fids -> {"block", "single"}]
  BY DEF Init, SamplerInit, Modes
<1>4. Types
  BY <1>1, <1>2, <1>3 DEF Init, SamplerInit, Types, TypeOK, Thread
<1>5. CounterIsFlow0 /\ NeverOverCounted
  BY <1>1 DEF Init, SamplerInit, CounterIsFlow0, NeverOverCounted, Sampled, InFlight, Modes
<1>6. ASSUME NEW f \in flows, flows = {f} PROVE Counted(f) /\ Stopped(f) /\ Returns(f) /\ Switched(f)
  <2>1. (CHOOSE x \in flows : \A g \in flows : g <= x) = f
    BY <1>1, <1>6
  <2>2. NInstSkip = 0 => tb[f] = "single"
    BY <1>1, <2>1 DEF Init, SamplerInit, Fids
  <2>3. Counted(f) /\ Stopped(f) /\ Returns(f)
    BY DEF Init, SamplerInit, Counted, Sampled, Modes, Stopped, Returns
  <2>4. Switched(f)
    BY <2>2 DEF Init, SamplerInit, Switched, Late
  <2> QED
    BY <2>3, <2>4
<1> QED
  BY <1>4, <1>5, <1>6 DEF IInv, SingleInv

(* The invariants of the shared sampler and of a flow's own are inductive. *)
THEOREM SamplerInvariant == Spec => [](IInv /\ SingleInv)
<1>1. IInv /\ SingleInv /\ [Next]_vars => (IInv /\ SingleInv)'
  <2> SUFFICES ASSUME IInv, SingleInv, [Next]_vars PROVE (IInv /\ SingleInv)'
    OBVIOUS
  <2>1. CASE TerminateElsewhere
    BY <2>1, TerminateElsewhereStep
  <2>2. ASSUME NEW f \in flows, Step(f) PROVE (IInv /\ SingleInv)'
    BY <2>2, QueueStep, ExecutePhaseStep, ExecuteTotalStep, TestStep, SwitchStep,
       StartStep, BeginStep, StopStep, StoppingStep, PowerStep,
       SyncStatsStep, SyncAgainStep, CalcStatsStep, MarkStep, TerminateStep,
       FinishThreadStep, FinishStep, FinishEndStep DEF Step
  <2>3. CASE UNCHANGED vars
    BY <2>3, UnchangedStep
  <2> QED
    BY <2>1, <2>2, <2>3 DEF Next
<1> QED
  BY InitInv, <1>1, PTL DEF Spec

(* Every sampler variable keeps its type. *)
THEOREM TypeCorrect == Spec => []TypeOK
<1>1. IInv => TypeOK
  BY DEF IInv, Types
<1> QED
  BY <1>1, SamplerInvariant, PTL

(* However many threads share a sampler, and however their execute(),      *)
(* stop() and beginTiming() interleave, the statistics never count an      *)
(* instruction twice.                                                      *)
THEOREM NothingCountedTwice == Spec => []NeverOverCounted
<1>1. IInv => NeverOverCounted
  BY DEF IInv
<1> QED
  BY <1>1, SamplerInvariant, PTL

(* A flow's own sampler loses no counted instruction through the switch,   *)
(* syncStats, markDone and the exit.                                       *)
THEOREM NothingLost == Spec => []CountedExactly
<1>1. SingleInv => CountedExactly
  BY DEF SingleInv, CountedExactly, Counted
<1> QED
  BY <1>1, SamplerInvariant, PTL

(* A flow's own sampler is in timing mode only once QEMU reports that      *)
(* flow's instructions one by one.                                         *)
THEOREM TimingIsOneByOne == Spec => []OneByOneInTiming
<1>1. SingleInv => OneByOneInTiming
  BY DEF SingleInv, OneByOneInTiming, Switched
<1> QED
  BY <1>1, SamplerInvariant, PTL
=============================================================================
