----------------------------- MODULE EmuSampler -----------------------------
(***************************************************************************)
(* The state and the operations of a sampler (EmuSampler.cpp): which mode  *)
(* the guest runs in, and how many instructions were executed in each.     *)
(*                                                                         *)
(* execute() counts in a thread-local counter and adds it, a batch at a    *)
(* time, to phasenInst (this phase) and then to totalnInst.  stop() ends a *)
(* phase: it adds phasenInst to the mode's iusage.  beginTiming() starts   *)
(* the next one.  stop() holds stop_lock; execute() and beginTiming() do   *)
(* not.  Wall-clock time, the CPI estimate, nSamples and inTiming (read by *)
(* the time-based samplers only) are left out.                             *)
(***************************************************************************)
EXTENDS Integers

CONSTANTS NEmuls,    \* emul->getNumEmuls()
          Batch,     \* the 100 of execute()
          NoThread   \* stop_lock is free

ASSUME SamplerAssumption == NEmuls \in Nat \ {0} /\ Batch \in Nat \ {0}

VARIABLES mode, phasenInst, totalnInst, stopJustCalled,
          iusage,        \* instructions executed in each mode, as statistics
          stop_lock,
          done,          \* the flows markDone has marked
          tb             \* QEMU's translation mode of each flow

samplerVars == <<mode, phasenInst, totalnInst, stopJustCalled, iusage, stop_lock, done, tb>>

Modes == {"Rabbit", "Timing"}

\* Flow numbers; the prefetch core of flow f queues as flow f + 1.
Fids == 0..NEmuls

\* The constructor, then startRabbit(fid), or startTiming(fid) if nothing is
\* skipped.  QEMU starts with large translation blocks ("block").
SamplerInit(skip, fid) ==
  /\ mode = IF skip > 0 THEN "Rabbit" ELSE "Timing"
  /\ phasenInst = 0 /\ totalnInst = 0 /\ stopJustCalled = FALSE
  /\ iusage = [m \in Modes |-> 0]
  /\ stop_lock = NoThread
  /\ done = {}
  /\ tb = [f \in Fids |-> IF skip = 0 /\ f = fid THEN "single" ELSE "block"]

\* Instructions that one call of queue() may report: a whole block in rabbit.
Icounts(f, block) == IF tb[f] = "single" THEN {1} ELSE 1..block

\* execute()'s two atomic additions, for n instructions counted locally.
AddPhase(n) ==
  /\ phasenInst' = phasenInst + n
  /\ UNCHANGED <<mode, totalnInst, stopJustCalled, iusage, stop_lock, done, tb>>

AddTotal(n) ==
  /\ totalnInst' = totalnInst + n
  /\ UNCHANGED <<mode, phasenInst, stopJustCalled, iusage, stop_lock, done, tb>>

\* Mutant: the early return of stop() keeps the lock.
StopAgainLocked(t) ==
  /\ stop_lock = NoThread /\ stopJustCalled
  /\ stop_lock' = t
  /\ UNCHANGED <<mode, phasenInst, totalnInst, stopJustCalled, iusage, done, tb>>

\* stop() when the phase is already stopped: lock, return, unlock.
StopAgain(t) ==
  /\ stop_lock = NoThread /\ stopJustCalled
  /\ UNCHANGED samplerVars

\* stop() otherwise, first half: lock and add the phase to the mode's count.
StopEnter(t) ==
  /\ stop_lock = NoThread /\ ~stopJustCalled
  /\ stop_lock' = t
  /\ iusage' = [iusage EXCEPT ![mode] = @ + phasenInst]
  /\ UNCHANGED <<mode, phasenInst, totalnInst, stopJustCalled, done, tb>>

\* Mutant: the phase is not reset.
StopExitKeepsPhase ==
  /\ stopJustCalled' = TRUE /\ stop_lock' = NoThread
  /\ UNCHANGED <<mode, phasenInst, totalnInst, iusage, done, tb>>

\* Second half: whatever execute() added to phasenInst in between is dropped.
StopExit ==
  /\ phasenInst' = 0 /\ stopJustCalled' = TRUE /\ stop_lock' = NoThread
  /\ UNCHANGED <<mode, totalnInst, iusage, done, tb>>

\* startTiming(fid) up to beginTiming: QEMU reports fid's instructions one by
\* one from now on.
StartTiming(fid) ==
  /\ tb' = [tb EXCEPT ![fid] = "single"]
  /\ UNCHANGED <<mode, phasenInst, totalnInst, stopJustCalled, iusage, stop_lock, done>>

BeginTiming(m) ==
  /\ mode' = m /\ phasenInst' = 0 /\ stopJustCalled' = FALSE
  /\ UNCHANGED <<totalnInst, iusage, stop_lock, done, tb>>

\* markDone between its stop() and its terminate().  The last flow is not
\* marked.
MarkDone ==
  /\ done' = done \cup (0..NEmuls - 2)
  /\ phasenInst' = 0
  /\ UNCHANGED <<mode, totalnInst, stopJustCalled, iusage, stop_lock, tb>>
=============================================================================
