--------------------------- MODULE EventScheduler ---------------------------
(***************************************************************************)
(* The event queue that drives the simulated hardware: EventScheduler of   *)
(* misc/libsuc/callback.h on top of TQueue of misc/libsuc/TQueue.h.        *)
(*                                                                         *)
(* TQueue is a ring of AccessSize lists, one per cycle from minTime on     *)
(* ("fast"), and a heap for what is further away ("tooFar").  The loops of *)
(* nextJob and adjustTooFar are steps of their own here (phase), which     *)
(* nothing interleaves: the queue belongs to one thread.                   *)
(***************************************************************************)
EXTENDS Integers, Sequences, FiniteSets

CONSTANTS Events,       \* callback objects
          AccessSize,   \* slots of the ring, a power of two in the code
          MaxTime,      \* "no event": minTooFar when the heap is empty
          MaxClock,     \* bound: last cycle
          MaxDelta,     \* bound: how far ahead an event is scheduled.  The
                        \* casts to uint32_t are exact below 2^32
          None          \* pending[e] of the abstract calendar, no event

ASSUME EventsAssumption == IsFiniteSet(Events)
ASSUME SizeAssumption == AccessSize \in Nat /\ AccessSize > 1
ASSUME TimeAssumption ==
    /\ MaxTime \in Nat /\ MaxClock \in Nat /\ MaxDelta \in Nat
    /\ MaxClock + MaxDelta < MaxTime
ASSUME NoneAssumption == None \notin Nat

VARIABLES
    globalClock,
    time, qType,        \* User::time and User::qType of each callback
    minTime, minPos,    \* the cycle and the slot at the front of the ring
    nNodes,             \* callbacks in the ring
    access,             \* the list of each slot
    tooFar, minTooFar,  \* the heap, and its earliest time
    phase               \* where advanceClock's loop is

vars == <<globalClock, time, qType, minTime, minPos, nNodes, access, tooFar, minTooFar, phase>>

Slots == 0..AccessSize - 1

\* TQueue::TQueue, reset, and globalClock's initial value.
Init ==
    /\ globalClock = 0
    /\ time = [e \in Events |-> 0]
    /\ qType = [e \in Events |-> "no"]
    /\ minTime = 0 /\ minPos = 0 /\ nNodes = 0
    /\ access = [p \in Slots |-> <<>>]
    /\ tooFar = {} /\ minTooFar = MaxTime
    /\ phase = "idle"

\* Mutant: minTime's offset is ignored.
PosAbsolute(t) == t % AccessSize

\* The slot of cycle t.
Pos(t) == (minPos + t - minTime) % AccessSize

\* Mutant: one cycle too many is held by the ring.
FitsOneMore(t) == t - minTime <= AccessSize

\* Cycle t is within the ring.
Fits(t) == t - minTime < AccessSize

\* Mutant: nNodes is not counted up.
AddNodeUncounted(e, t) ==
    /\ access' = [access EXCEPT ![Pos(t)] = Append(@, e)]
    /\ qType' = [qType EXCEPT ![e] = "fast"]
    /\ UNCHANGED nNodes

\* addNode: e goes to the end of the list of its slot.
AddNode(e, t) ==
    /\ access' = [access EXCEPT ![Pos(t)] = Append(@, e)]
    /\ qType' = [qType EXCEPT ![e] = "fast"]
    /\ nNodes' = nNodes + 1

-----------------------------------------------------------------------------
(* EventScheduler::schedule and scheduleAbs, through TQueue::insert, from  *)
(* a core's cycle or from a callback.                                      *)

InsertFast(e, t) ==
    /\ Fits(t)
    /\ AddNode(e, t)
    /\ UNCHANGED <<tooFar, minTooFar>>

Earlier(t) == IF minTooFar > t THEN t ELSE minTooFar

InsertTooFar(e, t) ==
    /\ ~Fits(t)
    /\ qType' = [qType EXCEPT ![e] = "far"]
    /\ tooFar' = tooFar \cup {e}
    /\ minTooFar' = Earlier(t)
    /\ UNCHANGED <<access, nNodes>>

Schedule(e, delta) ==
    /\ phase = "idle" /\ qType[e] = "no"
    /\ time' = [time EXCEPT ![e] = globalClock + delta]
    /\ InsertFast(e, globalClock + delta) \/ InsertTooFar(e, globalClock + delta)
    /\ UNCHANGED <<globalClock, minTime, minPos, phase>>

-----------------------------------------------------------------------------
(* advanceClock: nextJob(globalClock) and call() until there is no job,    *)
(* then globalClock++.                                                     *)

\* The end of nextJob with a job: the head of slot p is unlinked, and called.
PopHead(p) ==
    /\ access' = [access EXCEPT ![p] = Tail(@)]
    /\ qType' = [qType EXCEPT ![Head(access[p])] = "no"]
    /\ nNodes' = nNodes - 1
    /\ phase' = "idle"
    /\ UNCHANGED <<globalClock, time, tooFar, minTooFar>>

Common == access[minPos] # <<>> /\ minTime = globalClock

\* nextJob's common case.
NextJobCommon ==
    /\ phase = "idle" /\ Common
    /\ PopHead(minPos)
    /\ UNCHANGED <<minTime, minPos>>

\* Mutant: the heap is looked at one cycle late.
HeapDueLate == minTooFar < globalClock

HeapDue == minTooFar <= globalClock

\* Otherwise the heap is looked at first.
NextJobStart ==
    /\ phase = "idle" /\ ~Common
    /\ phase' = IF HeapDue THEN "adjust" ELSE "scan"
    /\ UNCHANGED <<globalClock, time, qType, minTime, minPos, nNodes, access, tooFar, minTooFar>>

Front(e) == e \in tooFar /\ \A f \in tooFar : time[e] <= time[f]

\* One round of adjustTooFar's loop: the front of the heap moves to the ring.
AdjustTooFar(e) ==
    /\ phase = "adjust" /\ Front(e) /\ Fits(time[e])
    /\ AddNode(e, time[e])
    /\ tooFar' = tooFar \ {e}
    /\ IF tooFar' = {} THEN minTooFar' = MaxTime /\ phase' = "scan"
                       ELSE UNCHANGED <<minTooFar, phase>>
    /\ UNCHANGED <<globalClock, time, minTime, minPos>>

\* The loop ends at an event that is still too far.
AdjustEnd(e) ==
    /\ phase = "adjust" /\ Front(e) /\ ~Fits(time[e])
    /\ minTooFar' = time[e]
    /\ phase' = "scan"
    /\ UNCHANGED <<globalClock, time, qType, minTime, minPos, nNodes, access, tooFar>>

\* nextJob with nothing to do, and globalClock++.
TickClock ==
    /\ globalClock < MaxClock
    /\ globalClock' = globalClock + 1
    /\ phase' = "idle"
    /\ UNCHANGED <<time, qType, nNodes, access, tooFar, minTooFar>>

\* The ring is empty: it starts again at this cycle.
NextJobNone ==
    /\ phase = "scan" /\ nNodes = 0
    /\ minTime' = globalClock /\ minPos' = 0
    /\ TickClock

\* The scan has reached the current cycle.
ScanEnd(k) == k = globalClock - minTime

SlotAfter(k) == (minPos + k) % AccessSize

\* The scan of the ring moves k slots on, over empty ones, and stops at a job
\* or at the current cycle.
NextJobScan ==
    /\ phase = "scan" /\ nNodes # 0
    /\ \E k \in 0..globalClock - minTime :
         /\ \A j \in 0..k - 1 : access[SlotAfter(j)] = <<>>
         /\ minTime' = minTime + k /\ minPos' = SlotAfter(k)
         /\ \/ access[SlotAfter(k)] # <<>> /\ PopHead(SlotAfter(k))
            \/ access[SlotAfter(k)] = <<>> /\ ScanEnd(k) /\ TickClock

NextJob ==
    \/ NextJobCommon \/ NextJobStart \/ NextJobNone \/ NextJobScan
    \/ \E e \in Events : AdjustTooFar(e) \/ AdjustEnd(e)

Next == NextJob \/ \E e \in Events, delta \in 0..MaxDelta : Schedule(e, delta)

Spec == Init /\ [][Next]_vars

-----------------------------------------------------------------------------
(* Type invariant. *)
TypeOK ==
    /\ globalClock \in Nat /\ minTime \in Nat /\ minPos \in Slots /\ nNodes \in Nat
    /\ time \in [Events -> Nat] /\ qType \in [Events -> {"no", "fast", "far"}]
    /\ access \in [Slots -> Seq(Events)]
    /\ tooFar \subseteq Events /\ minTooFar \in Nat
    /\ phase \in {"idle", "adjust", "scan"}

\* What the i-th event of slot p is.
InSlot(p, i) ==
    LET e == access[p][i] IN
    /\ qType[e] = "fast" /\ minTime <= time[e] /\ Fits(time[e]) /\ p = Pos(time[e])
    /\ \A j \in 1..Len(access[p]) : access[p][j] = e => i = j

\* Where an event of the ring is.
Linked(e) == \E i \in 1..Len(access[Pos(time[e])]) : access[Pos(time[e])][i] = e

Fast == {e \in Events : qType[e] = "fast"}

(* Every list of the ring holds the events of one cycle, the cycle of its  *)
(* slot, each event once, and nNodes counts them: wrapping minPos, moving  *)
(* minTime and emptying the heap into the ring never mix two cycles.       *)
RingInOrder ==
    /\ \A p \in Slots : \A i \in 1..Len(access[p]) : InSlot(p, i)
    /\ \A e \in Fast : Linked(e)
    /\ nNodes = Cardinality(Fast)

(* minTooFar never hides an event of the heap, and no event is overdue:    *)
(* the fast paths of nextJob that skip the heap lose nothing.              *)
NoneOverdue ==
    /\ \A e \in Events : qType[e] = "far" <=> e \in tooFar
    /\ \A e \in tooFar : minTooFar <= time[e]
    /\ \A e \in Events : qType[e] # "no" => globalClock <= time[e]
    /\ phase = "scan" => \A e \in tooFar : globalClock < time[e]

(* The ring starts at the current cycle or the one before, and             *)
(* adjustTooFar is only called with something in the heap, as it asserts.  *)
RingFollowsClock ==
    /\ minTime <= globalClock /\ globalClock <= minTime + 1 /\ globalClock <= MaxClock
    /\ tooFar = {} => minTooFar = MaxTime
    /\ phase = "adjust" => tooFar # {}

pendingMap == [e \in Events |-> IF qType[e] = "no" THEN None ELSE time[e]]

C == INSTANCE Calendar WITH clock <- globalClock, pending <- pendingMap

(* Every callback is called exactly once, in the cycle it was scheduled    *)
(* for, and the clock never passes a cycle with a callback left.           *)
ImplementsCalendar == C!CalendarSpec
=============================================================================
