----------------------------- MODULE DInstFlow -----------------------------
(***************************************************************************)
(* The instruction queue with its two clients, which share one thread:     *)
(*  - the reader (QEMUReader::executeHead) refills an empty queue with a   *)
(*    batch of new DInsts and then hands its head to the fetch engine;     *)
(*  - the core destroys instructions in order (DInst::destroy ends in      *)
(*    reexecuteTail) and, when a replay has drained its ROBs, calls        *)
(*    syncHeadTail while later instructions are still in its front end.    *)
(* An entry is [inst, id]: which instruction of the program it is, and     *)
(* DInst::ID, new for every DInst and so for every clone.                  *)
(***************************************************************************)
EXTENDS EmuDInstQueue

CONSTANTS MaxInst,    \* bound on the instructions the program executes
          MaxID,      \* bound on DInst::currentID
          MaxBatch    \* DInsts one refill may create, 1..MaxBatch

ASSUME FlowAssumption == MaxInst \in Nat /\ MaxID \in Nat /\ MaxBatch \in Nat

VARIABLES currentID,    \* DInst::currentID, the next ID
          produced,     \* instructions of the program turned into DInsts
          filling,      \* DInsts the running refill still has to create
          live,         \* DInsts in the core, oldest first
          delivered     \* the furthest instruction handed out so far

flowVars == <<currentID, produced, filling, live, delivered>>
vars == <<queueVars, flowVars>>

Entry == [inst : 1 .. MaxInst, id : 0 .. MaxID]

ASSUME NullAssumption == Null \notin Entry

FlowInit ==
  /\ QueueInit
  /\ currentID = 0 /\ produced = 0 /\ filling = 0 /\ live = <<>> /\ delivered = 0

\* executeHead finds the queue empty and the FIFO full.
StartRefill ==
  /\ filling = 0 /\ Empty
  /\ \E n \in 1 .. MaxBatch : filling' = n
  /\ UNCHANGED <<queueVars, currentID, produced, live, delivered>>

\* One DInst::create and add() of the batch.
Refill ==
  /\ filling > 0 /\ produced < MaxInst /\ currentID < MaxID
  /\ Add([inst |-> produced + 1, id |-> currentID])
  /\ produced' = produced + 1
  /\ currentID' = currentID + 1
  /\ filling' = filling - 1
  /\ UNCHANGED <<live, delivered>>

\* executeHead: getHead, popHead, and the DInst enters the front end.
ExecuteHead ==
  /\ filling = 0 /\ ~Empty
  /\ live' = Append(live, GetHead)
  /\ delivered' = IF GetHead.inst > delivered THEN GetHead.inst ELSE delivered
  /\ PopHead
  /\ UNCHANGED <<currentID, produced, filling>>

\* DInst::destroy at retirement: DInst::scrap calls reexecuteTail.
Destroy ==
  /\ filling = 0 /\ live # <<>>
  /\ live' = Tail(live)
  /\ AdvanceTail
  /\ UNCHANGED <<currentID, produced, filling, delivered>>

\* syncHeadTail.  OoOProcessor::execute calls it once a replay has drained
\* both ROBs; the ring is right whatever the core still holds.
SyncHeadTail ==
  /\ filling = 0 /\ currentID + Dist(tail, head) <= MaxID
  /\ MoveHead2Tail(currentID)
  /\ currentID' = currentID + Dist(tail, head)
  /\ UNCHANGED <<produced, filling, live, delivered>>

FlowNext ==
  \/ StartRefill
  \/ Refill
  \/ ExecuteHead
  \/ Destroy
  \/ SyncHeadTail

FlowSpec == FlowInit /\ [][FlowNext]_vars
-----------------------------------------------------------------------------
\* The slot k places after tail.
Slot(k) == trace[Masked(tail + k)]

InCore == Dist(tail, head)
Used   == Dist(tail, insertpoint)

\* Every variable has its type; in particular trace is a total function on
\* the ring's indices, whatever the ring has grown to.
TypeOK ==
  /\ size \in Nat \ {0}
  /\ trace \in [0 .. size - 1 -> Entry \cup {Null}]
  /\ head \in 0 .. size - 1 /\ tail \in 0 .. size - 1 /\ insertpoint \in 0 .. size - 1
  /\ ndrop \in Nat /\ nFreeElems \in 1 .. size
  /\ currentID \in 0 .. MaxID /\ produced \in 0 .. MaxInst
  /\ filling \in 0 .. MaxBatch /\ delivered \in 0 .. MaxInst
  /\ live \in Seq(Entry)

\* EmuDInstQueue.cpp: "The head pointer will always lie between the tail
\* pointer and the insertpoint", and the free count is what the pointers say,
\* so a ring that is full is never mistaken for one that is empty.
HeadBetween ==
  /\ InCore <= Used
  /\ Used = Size

\* The queue's idea of what is in the core agrees with the core: replayed
\* copies that still have to leave, plus the slots between tail and head.
CoreAccounted == Len(live) = ndrop + InCore

\* The slots between tail and head are exactly the youngest DInsts of the
\* core, so moveHead2Tail only clones DInsts that are not back in the pool.
ClonesAreLive == \A k \in 0 .. InCore - 1 : Slot(k) = live[ndrop + k + 1]

\* The window holds the last instructions of the program, in order and
\* without a gap, through every growth of the ring and every replay.
WindowInOrder ==
  \A k \in 0 .. Used - 1 : Slot(k) # Null /\ Slot(k).inst = produced - Used + k + 1

\* Everything before head has been handed out at some time.
DeliveredUpToHead == produced - Used + InCore <= delivered

\* What executeHead hands out never runs ahead: no instruction is skipped.
NeverSkips == [][Len(live') > Len(live) => live'[Len(live')].inst <= delivered + 1]_vars

\* The ring implements the unbounded stream.
Stream == INSTANCE ReplayStream WITH
            window  <- [i \in 1 .. Used |-> Slot(i - 1)],
            fetched <- InCore,
            stale   <- ndrop

\* Every step of the ring with its clients is a step of ReplayStream.
ImplementsStream == Stream!StreamSpec
=============================================================================
