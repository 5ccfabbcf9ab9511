--------------------------- MODULE SamplerSkipSim ---------------------------
(***************************************************************************)
(* SamplerSkipSim: the guest runs in rabbit mode for nInstSkip             *)
(* instructions and in timing mode from then on, up to nInstMax.  It is    *)
(* the one sampler that implements the queue() QEMUReader_queue_inst       *)
(* calls.                                                                  *)
(*                                                                         *)
(* The guest threads of the flows in "flows" share the sampler: one flow   *)
(* when each cpuemul has its own, all of them when "shared" is set.  A     *)
(* thread also runs the code of its flow's prefetch core, which it queues  *)
(* as flow f + 1.  Each step below is one unlocked access, or one stretch  *)
(* under a lock.                                                           *)
(***************************************************************************)
EXTENDS EmuSampler, FiniteSets

CONSTANTS Crews,      \* the sets of flows that may share the sampler
          NInstSkip, NInstMax,
          MaxBlock,   \* bound: instructions in a translation block
          MaxInst,    \* bound: no instruction is queued once this many are counted
          DoPower     \* doPower

ASSUME SkipSimAssumption ==
  /\ Crews \subseteq (SUBSET (0..NEmuls - 1)) \ {{}}
  /\ NInstSkip \in Nat /\ NInstMax \in Nat /\ MaxBlock \in Nat \ {0} /\ MaxInst \in Nat /\ DoPower \in BOOLEAN
  /\ NoThread \notin 0..NEmuls - 1

VARIABLES flows,         \* who shares the sampler; never changes
          th,            \* per thread: where it is, the fid it queued as, where
                         \* stop() or beginTiming() returns to, beginTiming's
                         \* argument, and the maps syncStats has left
          local_icount,  \* per thread
          terminated,    \* TaskHandler::terminate_all
          endSimSiged,
          mode_lock

threadVars == <<flows, th, local_icount, terminated, endSimSiged, mode_lock>>
vars == <<samplerVars, threadVars>>

Init ==
  /\ flows \in Crews
  /\ SamplerInit(NInstSkip, CHOOSE f \in flows : \A g \in flows : g <= f)
  /\ th = [f \in flows |-> [pc |-> "guest", fid |-> f, then |-> "guest", arg |-> "Timing", left |-> 0]]
  /\ local_icount = [f \in flows |-> 0]
  /\ terminated = FALSE /\ endSimSiged = FALSE /\ mode_lock = NoThread

Goto(f, pc) == th' = [th EXCEPT ![f].pc = pc]

Call(f, pc, then) == th' = [th EXCEPT ![f].pc = pc, ![f].then = then]

\* Where a thread is after emul->queueInstruction.
Queued == IF DoPower THEN "power" ELSE "guest"

-----------------------------------------------------------------------------
(* queue().                                                                *)

\* Mutant: the prefetch core's instructions are counted too.
CountsAll(fid) == TRUE

\* Only flow 0 calls execute().
Counts(fid) == fid = 0

\* queue() is entered, as flow fid and with n instructions; execute() counts
\* them in the thread and returns if the batch is not full.
Queue(f) ==
  /\ th[f].pc = "guest" /\ ~terminated
  /\ \E fid \in {f, f + 1}, n \in Icounts(f, MaxBlock) :
       \/ /\ ~Counts(fid)
          /\ th' = [th EXCEPT ![f].pc = "test", ![f].fid = fid]
          /\ UNCHANGED local_icount
       \/ /\ Counts(fid) /\ totalnInst < MaxInst
          /\ local_icount' = [local_icount EXCEPT ![f] = @ + n]
          /\ th' = [th EXCEPT ![f].fid = fid,
                              ![f].pc = IF local_icount[f] + n >= Batch THEN "add_phase"
                                        ELSE IF fid \in done THEN "guest" ELSE "test"]
  /\ UNCHANGED <<samplerVars, flows, terminated, endSimSiged, mode_lock>>

ExecutePhase(f) ==
  /\ th[f].pc = "add_phase"
  /\ AddPhase(local_icount[f]) /\ Goto(f, "add_total")
  /\ UNCHANGED <<flows, local_icount, terminated, endSimSiged, mode_lock>>

ExecuteTotal(f) ==
  /\ th[f].pc = "add_total"
  /\ AddTotal(local_icount[f])
  /\ local_icount' = [local_icount EXCEPT ![f] = 0]
  /\ Goto(f, IF th[f].fid \in done THEN "guest" ELSE "test")
  /\ UNCHANGED <<flows, terminated, endSimSiged, mode_lock>>

\* The tests of nInstMax and nInstSkip.
Test(f) ==
  /\ th[f].pc = "test"
  /\ \/ /\ NInstMax <= totalnInst \/ endSimSiged
        /\ Call(f, "stop", "mark")
     \/ /\ ~(NInstMax <= totalnInst \/ endSimSiged) /\ NInstSkip > totalnInst
        /\ Goto(f, "guest")
     \/ /\ ~(NInstMax <= totalnInst \/ endSimSiged) /\ NInstSkip <= totalnInst
        /\ Goto(f, "switch")
  /\ UNCHANGED <<samplerVars, flows, local_icount, terminated, endSimSiged, mode_lock>>

\* Mutant: timing starts without stopping the rabbit phase.
SwitchUnstopped(f) ==
  /\ th[f].pc = "switch"
  /\ \/ mode = "Rabbit" /\ Goto(f, "start")
     \/ mode # "Rabbit" /\ Goto(f, Queued)
  /\ UNCHANGED <<samplerVars, flows, local_icount, terminated, endSimSiged, mode_lock>>

\* if (mode == EmuRabbit) { stop(); startTiming(fid); }, without a lock.
Switch(f) ==
  /\ th[f].pc = "switch"
  /\ \/ mode = "Rabbit" /\ Call(f, "stop", "start")
     \/ mode # "Rabbit" /\ Goto(f, Queued)
  /\ UNCHANGED <<samplerVars, flows, local_icount, terminated, endSimSiged, mode_lock>>

Start(f) ==
  /\ th[f].pc = "start"
  /\ StartTiming(th[f].fid)
  /\ th' = [th EXCEPT ![f].pc = "begin", ![f].arg = "Timing", ![f].then = Queued]
  /\ UNCHANGED <<flows, local_icount, terminated, endSimSiged, mode_lock>>

Begin(f) ==
  /\ th[f].pc = "begin"
  /\ BeginTiming(th[f].arg) /\ Goto(f, th[f].then)
  /\ UNCHANGED <<flows, local_icount, terminated, endSimSiged, mode_lock>>

-----------------------------------------------------------------------------
(* stop(), for whoever called it.                                          *)

Stop(f) ==
  /\ th[f].pc = "stop"
  /\ \/ StopAgain(f) /\ Goto(f, th[f].then)
     \/ StopEnter(f) /\ Goto(f, "stopping")
  /\ UNCHANGED <<flows, local_icount, terminated, endSimSiged, mode_lock>>

Stopping(f) ==
  /\ th[f].pc = "stopping"
  /\ StopExit /\ Goto(f, th[f].then)
  /\ UNCHANGED <<flows, local_icount, terminated, endSimSiged, mode_lock>>

-----------------------------------------------------------------------------
(* The power model, called from queue() under mode_lock.                   *)

\* callPowerModel says no, or, if an interval's instructions have been counted,
\* yes and TaskHandler::syncStats is entered: it goes over the maps, and those
\* of this sampler's flows lead here.
Power(f) ==
  /\ th[f].pc = "power" /\ mode_lock = NoThread
  /\ \/ Goto(f, "guest") /\ UNCHANGED mode_lock
     \/ /\ totalnInst > 0
        /\ mode_lock' = f
        /\ th' = [th EXCEPT ![f].pc = "sync", ![f].left = IF terminated THEN 0 ELSE Cardinality(flows)]
  /\ UNCHANGED <<samplerVars, flows, local_icount, terminated, endSimSiged>>

\* Mutant: the loop over the maps does not end.
SyncStatsOneMore(f) ==
  /\ th[f].pc = "sync"
  /\ th' = [th EXCEPT ![f].left = @ - 1,
                      ![f].pc = IF phasenInst = 0 THEN "sync" ELSE "stop",
                      ![f].then = "again"]
  /\ UNCHANGED <<samplerVars, flows, local_icount, terminated, endSimSiged, mode_lock>>

\* SamplerBase::syncStats of the next map: a phase with instructions is
\* stopped and begun again.
SyncStats(f) ==
  /\ th[f].pc = "sync" /\ th[f].left > 0
  /\ th' = [th EXCEPT ![f].left = @ - 1,
                      ![f].pc = IF phasenInst = 0 THEN "sync" ELSE "stop",
                      ![f].then = "again"]
  /\ UNCHANGED <<samplerVars, flows, local_icount, terminated, endSimSiged, mode_lock>>

\* beginTiming(mode): the argument is read before the call.
SyncAgain(f) ==
  /\ th[f].pc = "again"
  /\ th' = [th EXCEPT ![f].pc = "begin", ![f].arg = mode, ![f].then = "sync"]
  /\ UNCHANGED <<samplerVars, flows, local_icount, terminated, endSimSiged, mode_lock>>

\* calcStats, whose result may ask for the end of the simulation.
CalcStats(f) ==
  /\ th[f].pc = "sync" /\ th[f].left = 0
  /\ endSimSiged' \in BOOLEAN
  /\ mode_lock' = NoThread /\ Goto(f, "guest")
  /\ UNCHANGED <<samplerVars, flows, local_icount, terminated>>

-----------------------------------------------------------------------------
(* The ends: markDone, and QEMU's exit of a thread or of the program.      *)

Mark(f) ==
  /\ th[f].pc = "mark"
  /\ MarkDone /\ Call(f, "term", "guest")
  /\ UNCHANGED <<flows, local_icount, terminated, endSimSiged, mode_lock>>

Terminate(f) ==
  /\ th[f].pc = "term"
  /\ terminated' = TRUE /\ Goto(f, th[f].then)
  /\ UNCHANGED <<samplerVars, flows, local_icount, endSimSiged, mode_lock>>

\* QEMUReader_finish_thread: the thread is not the last one.
FinishThread(f) ==
  /\ th[f].pc = "guest"
  /\ \E g \in flows \ {f} : th[g].pc # "gone"
  /\ Call(f, "stop", "gone")
  /\ UNCHANGED <<samplerVars, flows, local_icount, terminated, endSimSiged, mode_lock>>

\* QEMUReader_finish: stop, pauseThread, terminate.
Finish(f) ==
  /\ th[f].pc = "guest"
  /\ Call(f, "stop", "finish")
  /\ UNCHANGED <<samplerVars, flows, local_icount, terminated, endSimSiged, mode_lock>>

FinishEnd(f) ==
  /\ th[f].pc = "finish"
  /\ Call(f, "term", "gone")
  /\ UNCHANGED <<samplerVars, flows, local_icount, terminated, endSimSiged, mode_lock>>

\* A thread of another sampler's flow ends the program.
TerminateElsewhere ==
  /\ flows # 0..NEmuls - 1
  /\ terminated' = TRUE
  /\ UNCHANGED <<samplerVars, flows, th, local_icount, endSimSiged, mode_lock>>

-----------------------------------------------------------------------------
Step(f) ==
  \/ Queue(f) \/ ExecutePhase(f) \/ ExecuteTotal(f) \/ Test(f) \/ Switch(f)
  \/ Start(f) \/ Begin(f) \/ Stop(f) \/ Stopping(f)
  \/ Power(f) \/ SyncStats(f) \/ SyncAgain(f) \/ CalcStats(f)
  \/ Mark(f) \/ Terminate(f) \/ FinishThread(f) \/ Finish(f) \/ FinishEnd(f)

Next == TerminateElsewhere \/ \E f \in flows : Step(f)

Spec == Init /\ [][Next]_vars

\* Host threads are scheduled, and a guest thread goes on executing.
FairSpec == Spec /\ \A f \in 0..NEmuls - 1 : WF_vars(f \in flows /\ Step(f))

-----------------------------------------------------------------------------
Pcs == {"guest", "add_phase", "add_total", "test", "switch", "start", "begin", "stop",
        "stopping", "power", "sync", "again", "mark", "term", "finish", "gone"}

(* Type invariant. *)
TypeOK ==
  /\ mode \in Modes /\ phasenInst \in Nat /\ totalnInst \in Nat
  /\ stopJustCalled \in BOOLEAN /\ terminated \in BOOLEAN /\ endSimSiged \in BOOLEAN
  /\ iusage \in [Modes -> Nat]
  /\ stop_lock \in flows \cup {NoThread} /\ mode_lock \in flows \cup {NoThread}
  /\ done \subseteq 0..NEmuls - 1 /\ tb \in [Fids -> {"block", "single"}]
  /\ th \in [flows -> [pc : Pcs, fid : Fids, then : Pcs, arg : Modes, left : 0..NEmuls]]
  /\ local_icount \in [flows -> Nat]

\* Instructions in the statistics, and instructions of a batch that is in
\* phasenInst and not yet in totalnInst.
Sampled == iusage["Rabbit"] + iusage["Timing"]
InFlight == IF 0 \in flows /\ th[0].pc = "add_total" THEN local_icount[0] ELSE 0

(* stop() called by several threads, beginTiming() racing with it and      *)
(* execute() adding to the phase meanwhile may lose instructions, but the  *)
(* statistics never count one twice.                                       *)
NeverOverCounted ==
  /\ Sampled <= totalnInst + InFlight
  /\ stop_lock = NoThread => Sampled + phasenInst <= totalnInst + InFlight

(* The default, a sampler per flow: whenever the guest runs, and after     *)
(* markDone or exit, every instruction counted is in the statistics or in  *)
(* the current phase, through the switch, syncStats and the end.           *)
CountedExactly ==
  \A f \in flows : flows = {f} /\ th[f].pc \in {"guest", "gone"} =>
    Sampled + phasenInst = totalnInst

(* A sampler per flow: in timing mode QEMU reports instructions one by one *)
(* (execute()'s GI(mode==EmuTiming, icount==1)), although the prefetch     *)
(* core queues under another flow's number.                                *)
OneByOneInTiming ==
  \A f \in flows : flows = {f} /\ mode = "Timing" => tb[f] = "single"

(* Once nInstMax instructions are counted, whoever counted them gets to    *)
(* markDone and the simulation is terminated, whatever the other threads   *)
(* do with the sampler's locks.                                            *)
Terminates == (totalnInst >= NInstMax) ~> terminated
=============================================================================
