---------------------------- MODULE TaskHandler ----------------------------
(***************************************************************************)
(* simu/libcore/TaskHandler.cpp together with the flow-id pool of          *)
(* emul/libqemuint/QEMUEmulInterface.cpp: how the guest threads that QEMU  *)
(* runs are given simulated flows (one core each), put to sleep, woken and *)
(* terminated, while the simulator thread walks the list of running flows. *)
(*                                                                         *)
(* Guest threads are host threads.  resumeThread, pauseThread and the last *)
(* statement of terminate hold TaskHandler's mutex ("lock"); getFid holds  *)
(* nothing (its mutex calls are commented out): every flow its loops read  *)
(* and its write are steps of their own.  So are boot's reads of           *)
(* running_size and of running[i], and terminate's write of terminate_all. *)
(* The loop that shifts running[], under the mutex, and the one that       *)
(* clears the active flags are one step each.                              *)
(***************************************************************************)
EXTENDS Integers, FiniteSetsExt

CONSTANTS Threads,    \* guest threads
          Main,       \* the one QEMU starts with, already bound to flow 0
          NFlows,     \* emulas.size()
          MaxLate,    \* bound: guest calls begun after terminate_all is set
          FidNull,    \* FID_NULL / UINT32_MAX: "no previous flow"
          NoThread    \* the mutex is free

ASSUME FlowsAssumption ==
    /\ Main \in Threads /\ NoThread \notin Threads
    /\ NFlows \in Nat \ {0} /\ MaxLate \in Nat /\ FidNull \notin 0..NFlows
    /\ IsFiniteSet(Threads) /\ Cardinality(Threads) <= NFlows

VARIABLES
    pool,       \* fidFreePool
    active,     \* allmaps[f].active
    simu,       \* allmaps[f].simu->active (and psimu's, always set with it)
    list,       \* running and running_size; running is a fixed array
    terminate,  \* terminate_all
    cleared,    \* some terminate() has returned
    lock,       \* owner of TaskHandler::mutex
    th,         \* per guest thread: where it is, its flow, getFid's last_fid
    scan,       \* per guest thread in getFid: how far it is, what it has found
    boot,       \* the simulator thread: where it is, i, and the local fid
    exited,     \* getFid called exit(-11)
    late        \* guest calls begun after terminate_all was set

vars == <<pool, active, simu, list, terminate, cleared, lock, th, scan, boot, exited, late>>

Flows == 0..NFlows - 1

Unlocked == lock = NoThread

\* The entries of running[] below running_size.
Prefix(l) == [k \in 1..l.size |-> l.run[k - 1]]

\* getFid's locals before its loops.
Fresh == [k |-> 0, found |-> FidNull]

\* QEMUEmulInterface's constructor and TaskHandler::plugEnd: flow 0 is taken
\* and active, running[i] = i with only the first entry counted.  Every
\* GProcessor starts with its own active flag set.
Init ==
    /\ pool = [f \in Flows |-> IF f = 0 THEN "TAKEN" ELSE "FREE"]
    /\ active = [f \in Flows |-> f = 0]
    /\ simu = [f \in Flows |-> TRUE]
    /\ list = [run |-> [i \in Flows |-> i], size |-> 1]
    /\ terminate = FALSE /\ cleared = FALSE /\ exited = FALSE /\ late = 0
    /\ lock = NoThread
    /\ th = [t \in Threads |->
               [pc |-> IF t = Main THEN "run" ELSE "unborn", fid |-> 0, last |-> FidNull, then |-> "gone"]]
    /\ scan = [t \in Threads |-> Fresh]
    /\ boot = [pc |-> "round", i |-> 0, fid |-> 0]

\* Thread t, at pc, begins a call.
Begin(t, pc) ==
    /\ ~exited /\ th[t].pc = pc
    /\ ~terminate \/ late < MaxLate
    /\ late' = IF terminate THEN late + 1 ELSE late

Goto(t, pc, fid, last) ==
    th' = [th EXCEPT ![t] = [pc |-> pc, fid |-> fid, last |-> last, then |-> "gone"]]

-----------------------------------------------------------------------------
(* QEMUReader_resumeThread: getFid, then TaskHandler::resumeThread.        *)

\* A thread between clone_func's lock and unlock of clone_lock.
Cloning(t) == th[t].last = FidNull /\ th[t].pc \in {"scan", "take", "resume", "append"}

\* do_fork and clone_func (QEMU): the child asks for a flow with last_fid =
\* UINT32_MAX, holding clone_lock, so clones ask one at a time.
Clone(t, u) ==
    /\ Begin(t, "run") /\ th[u].pc = "unborn"
    /\ \A v \in Threads : ~Cloning(v)
    /\ Goto(u, "scan", 0, FidNull)
    /\ UNCHANGED <<pool, active, simu, list, terminate, cleared, lock, scan, boot, exited>>

\* The futex returns: the thread asks for a flow, preferring its last one.
Wake(t) ==
    /\ Begin(t, "wait")
    /\ Goto(t, "scan", 0, th[t].fid)
    /\ UNCHANGED <<pool, active, simu, list, terminate, cleared, lock, scan, boot, exited>>

\* getFid's two loops, one after the other: turn k reads one entry of the
\* pool, in search of a FREED flow and then of a FREE one.
LastTurn == 2 * NFlows - 1
FlowOf(k) == IF k < NFlows THEN k ELSE k - NFlows
Sought(k) == IF k < NFlows THEN "FREED" ELSE "FREE"
Hit(t) == pool[FlowOf(scan[t].k)] = Sought(scan[t].k)

\* fid2, or fid1 while there is no fid2: the first hit.
Found(t) == IF Hit(t) /\ scan[t].found = FidNull THEN FlowOf(scan[t].k) ELSE scan[t].found

\* The last flow of the thread is taken as soon as it is hit.
Again(t) == Hit(t) /\ th[t].last = FlowOf(scan[t].k)

\* A turn after which the search goes on.
GetFidScan(t) ==
    /\ ~exited /\ th[t].pc = "scan"
    /\ ~Again(t) /\ scan[t].k < LastTurn
    /\ scan' = [scan EXCEPT ![t] = [k |-> scan[t].k + 1, found |-> Found(t)]]
    /\ UNCHANGED <<pool, active, simu, list, terminate, cleared, lock, th, boot, exited, late>>

\* The turn that decides; with nothing to choose getFid calls exit(-11).
GetFidChoose(t) ==
    LET fid == IF Again(t) THEN th[t].last ELSE Found(t) IN
    /\ ~exited /\ th[t].pc = "scan"
    /\ Again(t) \/ scan[t].k = LastTurn
    /\ exited' = (fid = FidNull)
    /\ Goto(t, "take", IF fid = FidNull THEN 0 ELSE fid, th[t].last)
    /\ scan' = [scan EXCEPT ![t] = Fresh]
    /\ UNCHANGED <<pool, active, simu, list, terminate, cleared, lock, boot, late>>

\* getFid's write.  Another thread may have taken the flow since the scan.
GetFidTake(t) ==
    /\ ~exited /\ th[t].pc = "take"
    /\ pool' = [pool EXCEPT ![th[t].fid] = "TAKEN"]
    /\ Goto(t, "resume", th[t].fid, th[t].last)
    /\ UNCHANGED <<active, simu, list, terminate, cleared, lock, scan, boot, exited, late>>

\* Mutant: terminate_all is not tested.
RefusedIfActive(f) == active[f]

\* resumeThread's test: an active flow, or termination, returns flow 0.
Refused(f) == active[f] \/ terminate

\* resumeThread takes the mutex and makes its test.
ResumeTest(t) ==
    /\ ~exited /\ th[t].pc = "resume" /\ Unlocked
    /\ \/ /\ Refused(th[t].fid)
          /\ Goto(t, "run", 0, FidNull) /\ UNCHANGED lock
       \/ /\ ~Refused(th[t].fid)
          /\ lock' = t /\ Goto(t, "append", th[t].fid, th[t].last)
    /\ UNCHANGED <<pool, active, simu, list, terminate, cleared, scan, boot, exited, late>>

Appended(l, f) == [run |-> [l.run EXCEPT ![l.size] = f], size |-> l.size + 1]

\* The rest of resumeThread, up to its unlock.
ResumeAppend(t) ==
    /\ ~exited /\ th[t].pc = "append"
    /\ LET f == th[t].fid IN
         /\ active' = [active EXCEPT ![f] = TRUE]
         /\ simu' = [simu EXCEPT ![f] = TRUE]
         /\ list' = Appended(list, f)
         /\ Goto(t, "run", f, FidNull)
    /\ lock' = NoThread
    /\ UNCHANGED <<pool, terminate, cleared, scan, boot, exited, late>>

-----------------------------------------------------------------------------
(* pauseThread and its removeFromRunning.  syncRunning, the other caller of *)
(* removeFromRunning, is never called: SamplerBase's call is commented out. *)

\* removeFromRunning's loop: the entries after f move down by one.  The array
\* is not cleared, so the last entry stays behind when running_size drops.
Positions(l, f) == {i \in 0..l.size - 1 : l.run[i] = f}

\* Mutant: the shift starts one entry too late.
ShiftedLate(l, f) ==
    IF Positions(l, f) = {} THEN l.run
    ELSE LET i == Min(Positions(l, f)) + 1
         IN  [j \in Flows |-> IF j \in i..l.size - 2 THEN l.run[j + 1] ELSE l.run[j]]

Shifted(l, f) ==
    IF Positions(l, f) = {} THEN l.run
    ELSE LET i == Min(Positions(l, f))
         IN  [j \in Flows |-> IF j \in i..l.size - 2 THEN l.run[j + 1] ELSE l.run[j]]

\* Mutant: running_size is left alone.
ShrunkNot(l) == l

\* Its running_size--, after the shift.
Shrunk(l) == [l EXCEPT !.size = @ - 1]

\* pauseThread takes the mutex and does nothing for an inactive flow;
\* otherwise it enters removeFromRunning, which shifts the array.  "then" is
\* where the thread goes on: sys_futex, pthread_exit, or terminate.
Pause(t, then) ==
    /\ Begin(t, "run") /\ Unlocked
    /\ LET f == th[t].fid IN
       \/ /\ ~active[f]
          /\ Goto(t, then, f, FidNull) /\ UNCHANGED <<lock, list>>
       \/ /\ active[f]
          /\ list' = [list EXCEPT !.run = Shifted(list, f)]
          /\ lock' = t
          /\ th' = [th EXCEPT ![t].pc = IF Positions(list, f) = {} THEN "free" ELSE "shrink",
                              ![t].then = then]
    /\ UNCHANGED <<pool, active, simu, terminate, cleared, scan, boot, exited>>

\* Mutant: the flow is never given back to the pool.
FreedNever(f) == pool

\* freeFid, called only if the flow is still active.
Freed(f) == IF active[f] THEN [pool EXCEPT ![f] = "FREED"] ELSE pool

\* running_size--, freeFid, and the rest of pauseThread up to its unlock.
PauseShrink(t) ==
    /\ ~exited /\ th[t].pc \in {"shrink", "free"}
    /\ LET f == th[t].fid IN
         /\ list' = IF th[t].pc = "shrink" THEN Shrunk(list) ELSE list
         /\ pool' = Freed(f)
         /\ active' = [active EXCEPT ![f] = FALSE]
         /\ simu' = [simu EXCEPT ![f] = FALSE]
         /\ Goto(t, th[t].then, f, FidNull)
    /\ lock' = NoThread
    /\ UNCHANGED <<terminate, cleared, scan, boot, exited, late>>

\* A futex wait; the exit of one thread (QEMUReader_finish_thread); the exit
\* of the program (QEMUReader_finish, which pauses and then terminates).
FutexWait(t) == Pause(t, "wait")
FinishThread(t) == Pause(t, "gone")
Finish(t) == Pause(t, "term")

-----------------------------------------------------------------------------
(* terminate: terminate_all and the active flags without the mutex, then   *)
(* running_size = 0 with it.                                               *)

\* EmuSampler::markDone: a sampler that has counted enough instructions calls
\* terminate from queue(), which first tests isTerminated(); the thread then
\* goes on running.
MarkDone(t) ==
    /\ Begin(t, "run") /\ ~terminate
    /\ th' = [th EXCEPT ![t].pc = "term", ![t].then = "run"]
    /\ UNCHANGED <<pool, active, simu, list, terminate, cleared, lock, scan, boot, exited>>

TerminateFlag(t) ==
    /\ ~exited /\ th[t].pc = "term"
    /\ terminate' = TRUE
    /\ th' = [th EXCEPT ![t].pc = "term_maps"]
    /\ UNCHANGED <<pool, active, simu, list, cleared, lock, scan, boot, exited, late>>

TerminateMaps(t) ==
    /\ ~exited /\ th[t].pc = "term_maps"
    /\ active' = [f \in Flows |-> FALSE]
    /\ th' = [th EXCEPT ![t].pc = "term_list"]
    /\ UNCHANGED <<pool, simu, list, terminate, cleared, lock, scan, boot, exited, late>>

TerminateList(t) ==
    /\ ~exited /\ th[t].pc = "term_list" /\ Unlocked
    /\ list' = [list EXCEPT !.size = 0]
    /\ cleared' = TRUE
    /\ Goto(t, th[t].then, th[t].fid, FidNull)
    /\ UNCHANGED <<pool, active, simu, terminate, lock, scan, boot, exited, late>>

-----------------------------------------------------------------------------
(* boot: the simulator thread.  The loop's test of running_size, the read  *)
(* of running[i] and the core's cycle are separate steps, none under the   *)
(* mutex.                                                                  *)

\* The for loop's test with index i.
Tested(i) == [pc |-> IF i < list.size THEN "read" ELSE "round",
              i |-> IF i < list.size THEN i ELSE 0, fid |-> 0]

\* FlowID fid = running[i].
BootRead ==
    /\ ~exited /\ boot.pc = "read"
    /\ boot' = [boot EXCEPT !.pc = "execute", !.fid = list.run[boot.i]]
    /\ UNCHANGED <<pool, active, simu, list, terminate, cleared, lock, th, scan, exited, late>>

\* Mutant: the index skips an entry.
FollowingSkips(i) == i + 2

Following(i) == i + 1

\* simu->fetch(fid) and simu->execute(), which return at once if the core's
\* own active flag is off; then i++ and the loop's test.
BootExecute ==
    /\ ~exited /\ boot.pc = "execute"
    /\ boot' = Tested(Following(boot.i))
    /\ UNCHANGED <<pool, active, simu, list, terminate, cleared, lock, th, scan, exited, late>>

\* The clock advances, the while loop tests terminate_all, and the for loop
\* starts again with its first test.
BootRound ==
    /\ ~exited /\ boot.pc = "round"
    /\ boot' = IF terminate THEN [boot EXCEPT !.pc = "done"] ELSE Tested(0)
    /\ UNCHANGED <<pool, active, simu, list, terminate, cleared, lock, th, scan, exited, late>>

-----------------------------------------------------------------------------
Boot == BootRead \/ BootExecute \/ BootRound

Terminate(t) == TerminateFlag(t) \/ TerminateMaps(t) \/ TerminateList(t)

Thread(t) ==
    \/ \E u \in Threads : Clone(t, u)
    \/ Wake(t) \/ GetFidScan(t) \/ GetFidChoose(t) \/ GetFidTake(t) \/ ResumeTest(t) \/ ResumeAppend(t)
    \/ FutexWait(t) \/ FinishThread(t) \/ Finish(t) \/ PauseShrink(t)
    \/ MarkDone(t) \/ Terminate(t)

Next == Boot \/ \E t \in Threads : Thread(t)

Spec == Init /\ [][Next]_vars

\* The simulator thread is always scheduled, and so is a guest thread that
\* holds the mutex.
FairSpec ==
    /\ Spec
    /\ WF_vars(Boot)
    /\ \A t \in Threads : WF_vars(ResumeAppend(t)) /\ WF_vars(PauseShrink(t))

-----------------------------------------------------------------------------
(* Type invariant.                                                         *)
TypeOK ==
    /\ pool \in [Flows -> {"TAKEN", "FREE", "FREED"}]
    /\ active \in [Flows -> BOOLEAN] /\ simu \in [Flows -> BOOLEAN]
    /\ list.run \in [Flows -> Flows] /\ list.size \in 0..NFlows
    /\ {terminate, cleared, exited} \subseteq BOOLEAN
    /\ lock \in Threads \cup {NoThread}
    /\ \A t \in Threads : th[t].fid \in Flows /\ {th[t].last, scan[t].found} \subseteq Flows \cup {FidNull}
    /\ \A t \in Threads : scan[t].k \in 0..LastTurn
    /\ boot.i \in Flows /\ boot.fid \in Flows

(* The list boot walks is exactly the set of active flows, each once, and  *)
(* their cores are switched on, whenever the mutex is free and no          *)
(* terminate() is in progress: even if two threads were handed the same    *)
(* flow by the unlocked getFid.                                            *)
RunningIsActive ==
    Unlocked /\ ~terminate =>
        /\ IsInjective(Prefix(list))
        /\ Range(Prefix(list)) = {f \in Flows : active[f]}
        /\ \A f \in Flows : active[f] => simu[f]

(* With a flow per guest thread, getFid never runs out of flows and exits  *)
(* while the program runs: every pause gives the flow back, and two        *)
(* threads racing for one flow do not lose another.                        *)
NeverRunsOut == exited => terminate

(* Once some terminate() has returned, the running list stays empty: a     *)
(* resumeThread that had already passed its test of terminate_all holds    *)
(* the mutex, so running_size = 0 comes after its append.                  *)
StaysEmpty == cleared => list.size = 0

(* The core of flow f is being simulated. *)
Simulated(f) == boot.pc = "execute" /\ boot.fid = f /\ simu[f]

(* boot walks the array while pauses shift entries to positions it has     *)
(* already passed; a flow that stays active is nevertheless simulated      *)
(* again and again.                                                        *)
NoStarvation ==
    \A f \in Flows :
        [](active[f] => <>(~active[f] \/ Simulated(f) \/ terminate \/ exited))

(* getFid's comment and assertion: "we should get the same FID except for  *)
(* the first call": a thread that wakes from a futex gets its flow back.   *)
SameFidAgain ==
    \A t \in Threads : th[t].pc = "resume" /\ th[t].last # FidNull => th[t].fid = th[t].last
=============================================================================
