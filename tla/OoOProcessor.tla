---------------------------- MODULE OoOProcessor ----------------------------
(***************************************************************************)
(* One out-of-order core of simu/libcore with what it is built from: the   *)
(* fetch engine, the bucket pipeline, rename, the functional units with    *)
(* their load/store queue and store sets, the ROB and the retirement ROB,  *)
(* and the replay of a load that overtook a store.                         *)
(*                                                                         *)
(* TaskHandler::boot runs fetch() and execute() once a cycle and then lets *)
(* the event queue call back: "stage" is where the cycle is, and between   *)
(* two cycles any callbacks that are due run, in any order and number.     *)
(* The instruction stream is that of ReplayStream, which the ring of       *)
(* EmuDInstQueue implements: `window` may still be fetched again, the      *)
(* first `fetched` of it are in the core, after `stale` older copies.      *)
(*                                                                         *)
(* A DInst is [n, id]: its place in the program (which gives its opcode,   *)
(* address and pc) and DInst::ID.  Left out: register dependences and port *)
(* contention (an instruction may execute at any time after rename), the   *)
(* SCOORE variants, throttling and statistics.                             *)
(***************************************************************************)
EXTENDS Pipeline, StoreSet

CONSTANTS Programs,       \* the programs considered: sequences of [op, addr]
          FetchWidth, IssueWidth, RetireWidth, InstQueueSize, MaxROBSize,
          Entries,        \* free entries at the start: [ld, st, br, win, reg]
          Serialize,      \* cpusimu.serialize
          Threshold,      \* forwardProg_threshold
          MaxBatch,       \* bound: instructions per refill of the stream
          MaxItems,       \* bound: buckets the front end starts
          MaxReplays      \* bound: replays, see MayOvertake

Ops == {"ld", "st", "br", "alu"}

Resources == {"ld", "st", "br", "win", "reg"}

ASSUME CoreAssumption ==
  /\ FetchWidth \in Nat \ {0} /\ IssueWidth \in Nat \ {0} /\ RetireWidth \in Nat \ {0}
  /\ InstQueueSize \in Nat /\ InstQueueSize >= FetchWidth /\ MaxROBSize \in Nat \ {0}
  /\ {Serialize, Threshold, MaxBatch, MaxItems, MaxReplays} \subseteq Nat
  /\ Entries \in [Resources -> Nat \ {0}]
  /\ \A p \in Programs : p \in Seq([op : Ops, addr : Nat]) /\ DOMAIN p \subseteq PCs

VARIABLES
  prog, window, fetched, stale, produced, currentID,
  stage, busy,
  missInst, lastd, lockFetch,  \* FetchEngine: blocked, by whom; DInst::fetch
  bpredTimers,                 \* unBlockFetchBPredDelay callbacks scheduled
  instQueue, spaceInInstQueue, slots,
  ROB, rROB, executing, executed, writes, performed, marked,
  free, lsq, src3, serialize_for, last_serialized,
  flushing, replayRecovering, replayID, lastReplay,
  replays, cleared

streamVars == <<prog, window, fetched, stale, produced, currentID>>
fetchVars  == <<missInst, lastd, lockFetch, bpredTimers>>
queueVars  == <<instQueue, spaceInInstQueue, slots>>
instVars   == <<ROB, rROB, executing, executed, writes, performed, marked>>
unitVars   == <<free, lsq, src3, serialize_for, last_serialized>>
replayVars == <<flushing, replayRecovering, replayID, lastReplay, replays>>
coreVars   == <<queueVars, instVars, unitVars, replayVars, setVars>>
vars == <<streamVars, stage, busy, fetchVars, pipeVars, coreVars, cleared>>

Op(d)    == prog[d.n].op
Addr(d)  == prog[d.n].addr
IsMem(d) == Op(d) \in {"ld", "st"}
HasDst(d) == Op(d) \in {"ld", "alu"}
Ids(s)   == {s[i].id : i \in DOMAIN s}

Init ==
  /\ prog \in Programs
  /\ window = <<>> /\ fetched = 0 /\ stale = 0 /\ produced = 0 /\ currentID = 0
  /\ stage = "fetch" /\ busy = FALSE
  /\ missInst = FALSE /\ lastd = NoInst /\ lockFetch = {} /\ bpredTimers = {}
  /\ PipelineInit /\ StoreSetInit
  /\ instQueue = <<>> /\ spaceInInstQueue = InstQueueSize /\ slots = 0
  /\ ROB = <<>> /\ rROB = <<>>
  /\ executing = {} /\ executed = {} /\ writes = {} /\ performed = {} /\ marked = {}
  /\ free = Entries /\ lsq = {} /\ src3 = {}
  /\ serialize_for = 0 /\ last_serialized = NoInst
  /\ flushing = FALSE /\ replayRecovering = FALSE
  /\ replayID = 0 /\ lastReplay = 0 /\ replays = 0 /\ cleared = FALSE
-----------------------------------------------------------------------------
(* OoOProcessor::fetch and FetchEngine.                                    *)

FetchBlocked ==
  /\ stage = "fetch" /\ missInst
  /\ busy' = TRUE /\ stage' = "decode"
  /\ UNCHANGED <<streamVars, fetchVars, pipeVars, coreVars, cleared>>

FetchNoBucket ==
  /\ stage = "fetch" /\ ~missInst
  /\ ~Available \/ maxItemCntr = MaxItems
  /\ stage' = "decode"
  /\ UNCHANGED <<streamVars, busy, fetchVars, pipeVars, coreVars, cleared>>

BranchEndsUnlocked(d, how) ==
  /\ missInst' = (how # "taken")
  /\ lastd' = IF how = "taken" THEN lastd ELSE d.id
  /\ bpredTimers' = IF how = "delay" THEN bpredTimers \cup {d.id} ELSE bpredTimers
  /\ UNCHANGED lockFetch

\* How processBranch ends the loop of realfetch after the branch d: "taken"
\* only ends it (maxBB), "delay" blocks fetch until a callback, "miss" until
\* the branch executes.
BranchEnds(d, how) ==
  /\ missInst' = (how # "taken")
  /\ lastd' = IF how = "taken" THEN lastd ELSE d.id
  /\ bpredTimers' = IF how = "delay" THEN bpredTimers \cup {d.id} ELSE bpredTimers
  /\ lockFetch' = IF how = "miss" THEN lockFetch \cup {d.id} ELSE lockFetch

\* realfetch takes k instructions from the stream: until the bucket is full,
\* executeHead returns 0, or a branch ends the loop.  The bucket then goes
\* to the instruction cache, or when it is empty to a timer.
FetchBucket(k) ==
  LET insts == SubSeq(window, fetched + 1, fetched + k)
  IN /\ stage = "fetch" /\ ~missInst /\ maxItemCntr < MaxItems
     /\ k <= Len(window) - fetched
     /\ \/ /\ k = FetchWidth \/ k = Len(window) - fetched
           /\ UNCHANGED fetchVars
        \/ /\ k > 0 /\ Op(insts[k]) = "br"
           /\ \E how \in {"taken", "delay", "miss"} : BranchEnds(insts[k], how)
     /\ NewItem(insts)
     /\ fetched' = fetched + k
     /\ busy' = (busy \/ k > 0)
     /\ stage' = "decode"
     /\ UNCHANGED <<prog, window, stale, produced, currentID, coreVars, cleared>>

Fetch == FetchBlocked \/ FetchNoBucket \/ \E k \in 0 .. FetchWidth : FetchBucket(k)
-----------------------------------------------------------------------------
(* OoOProcessor::execute.                                                  *)

NotBusy ==
  /\ stage = "decode" /\ ~busy
  /\ stage' = "events"
  /\ UNCHANGED <<streamVars, busy, fetchVars, pipeVars, coreVars, cleared>>

RoomForOne == spaceInInstQueue >= 1

RoomInQueue == spaceInInstQueue >= FetchWidth

Decode ==
  /\ stage = "decode" /\ busy
  /\ IF RoomInQueue /\ HasNextItem
     THEN /\ instQueue' = Append(instQueue, Head(buffer))
          /\ spaceInInstQueue' = spaceInInstQueue - Len(Head(buffer).insts)
          /\ NextItem
     ELSE UNCHANGED <<instQueue, spaceInInstQueue, pipeVars>>
  /\ stage' = "rename"
  /\ UNCHANGED <<streamVars, busy, fetchVars, slots, instVars, unitVars, replayVars,
                 setVars, cleared>>

Drained == ROB = <<>> /\ rROB = <<>>

\* syncHeadTail: the instructions the core still holds become stale copies,
\* and their slots in the window get new DInsts.
SyncHeadTail ==
  /\ window' = [i \in DOMAIN window |->
                  IF i <= fetched THEN [window[i] EXCEPT !.id = currentID + i - 1]
                                  ELSE window[i]]
  /\ currentID' = currentID + fetched
  /\ stale' = stale + fetched
  /\ fetched' = 0
  /\ UNCHANGED <<prog, produced>>

Recovered ==
  /\ stage = "rename" /\ replayRecovering /\ Drained
  /\ SyncHeadTail
  /\ replayRecovering' = FALSE /\ flushing' = FALSE
  /\ serialize_for' = IF lastReplay + Threshold > replayID THEN Serialize ELSE serialize_for
  /\ lastReplay' = replayID
  /\ replays' = replays + 1
  /\ slots' = IssueWidth /\ stage' = "issue"
  /\ UNCHANGED <<busy, fetchVars, pipeVars, instQueue, spaceInInstQueue, instVars, free,
                 lsq, src3, last_serialized, replayID, setVars, cleared>>

Recovering ==
  /\ stage = "rename" /\ replayRecovering /\ ~Drained
  /\ stage' = "retire"
  /\ UNCHANGED <<streamVars, busy, fetchVars, pipeVars, coreVars, cleared>>

Rename ==
  /\ stage = "rename" /\ ~replayRecovering
  /\ slots' = IssueWidth /\ stage' = "issue"
  /\ UNCHANGED <<streamVars, busy, fetchVars, pipeVars, instQueue, spaceInInstQueue,
                 instVars, unitVars, replayVars, setVars, cleared>>

\* addInst's own limit, Cluster::canIssue and the unit's canIssue.
CanIssue(d) ==
  /\ Len(ROB) + Len(rROB) < MaxROBSize
  /\ free.reg > 0 /\ free.win > 0
  /\ Op(d) \in {"ld", "st", "br"} => free[Op(d)] > 0

\* What a renamed instruction takes: newEntry, a register if it writes one,
\* and an entry of its unit.
Take(f, d) ==
  [r \in DOMAIN f |->
     f[r] - (IF r = "win" \/ r = Op(d) \/ (r = "reg" /\ HasDst(d)) THEN 1 ELSE 0)]

\* Who d has to wait for: the last one of its store set, else while
\* serialize_for runs the memory instruction renamed before it.
Src3(d) ==
  LET set == IF IsMem(d) THEN StoreSetSource(d.n) ELSE NoInst
  IN IF set # NoInst THEN {set}
     ELSE IF serialize_for > 0 /\ IsMem(d) /\ last_serialized \notin executed \cup {NoInst}
          THEN {last_serialized} ELSE {}

SerializeNext(d) ==
  /\ serialize_for' = IF serialize_for > 0 THEN serialize_for - 1 ELSE 0
  /\ last_serialized' =
       IF serialize_for > 0 /\ IsMem(d) /\ StoreSetSource(d.n) = NoInst
       THEN d.id ELSE last_serialized

\* GProcessor::issue and addInst for the oldest instruction of instQueue.
AddInst ==
  /\ stage = "issue" /\ instQueue # <<>> /\ slots > 0
  /\ LET d == Head(Head(instQueue).insts)
     IN /\ CanIssue(d)
        /\ free' = Take(free, d)
        /\ IF IsMem(d)
           THEN /\ lsq' = lsq \cup {[id |-> d.id, n |-> d.n, ssid |-> GetSSID(d.n)]}
                /\ StoreSetInsert(d.id, d.n)
           ELSE UNCHANGED <<lsq, setVars>>
        /\ src3' = src3 \cup (Src3(d) \X {d.id})
        /\ SerializeNext(d)
        /\ ROB' = Append(ROB, d)
  /\ IF Len(Head(instQueue).insts) = 1
     THEN instQueue' = Tail(instQueue) /\ DoneItem
     ELSE instQueue' = [instQueue EXCEPT ![1].insts = Tail(@)] /\ UNCHANGED pipeVars
  /\ spaceInInstQueue' = spaceInInstQueue + 1
  /\ slots' = slots - 1
  /\ UNCHANGED <<streamVars, stage, busy, fetchVars, rROB, executing, executed, writes,
                 performed, marked, replayVars, cleared>>

IssueEnds ==
  /\ stage = "issue"
  /\ IF instQueue = <<>> THEN ~Drained
     ELSE slots = 0 \/ ~CanIssue(Head(Head(instQueue).insts))
  /\ stage' = "retire"
  /\ UNCHANGED <<streamVars, busy, fetchVars, pipeVars, coreVars, cleared>>

NothingToDo ==
  /\ stage = "issue" /\ instQueue = <<>> /\ Drained
  /\ busy' = HasOutstandingItems
  /\ stage' = "events"
  /\ UNCHANGED <<streamVars, fetchVars, pipeVars, coreVars, cleared>>
-----------------------------------------------------------------------------
(* OoOProcessor::retire.                                                   *)

\* The first loop may move k instructions: all before the first that has not
\* executed, or before a store the cache does not accept.  While flushing,
\* preretire never refuses.
Preretires(k) ==
  /\ \A i \in 1 .. k : ROB[i].id \in executed
  /\ k < Len(ROB) =>
       \/ ROB[k + 1].id \notin executed
       \/ Op(ROB[k + 1]) = "st" /\ ~flushing

\* How many of r the second loop retires: stores wait for their write.
Retires(r, perf) ==
  Cardinality({i \in 1 .. Len(r) :
    i <= RetireWidth /\ \A j \in 1 .. i : Op(r[j]) = "st" => r[j].id \in perf})

\* reexecuteTail for j instructions.
ReexecuteTail(j) ==
  LET old == IF j < stale THEN j ELSE stale
  IN /\ stale' = stale - old
     /\ window' = SubSeq(window, j - old + 1, Len(window))
     /\ fetched' = fetched - (j - old)
     /\ UNCHANGED <<prog, produced, currentID>>

\* Mutant: the entry of a store is not given back.
GiveBackLoads(f, s) ==
  [r \in DOMAIN f |->
     f[r] + Cardinality({i \in DOMAIN s :
              (r = "ld" /\ r = Op(s[i])) \/ (r = "reg" /\ HasDst(s[i]))})]

\* What retiring the instructions of s gives back.
GiveBack(f, s) ==
  [r \in DOMAIN f |->
     f[r] + Cardinality({i \in DOMAIN s :
              (r \in {"ld", "st"} /\ r = Op(s[i])) \/ (r = "reg" /\ HasDst(s[i]))})]

FlushesFrom(s) == \E i \in DOMAIN s : s[i].id \in marked

Retire(k) ==
  LET moved == SubSeq(ROB, 1, k)
      sts   == {moved[i].id : i \in {m \in DOMAIN moved : Op(moved[m]) = "st"}}
      perf  == IF flushing THEN performed \cup sts ELSE performed
      r     == rROB \o moved
      j     == Retires(r, perf)
      gone  == SubSeq(r, 1, j)
  IN /\ stage = "retire"
     /\ Preretires(k)
     /\ ROB' = SubSeq(ROB, k + 1, Len(ROB))
     /\ rROB' = SubSeq(r, j + 1, Len(r))
     /\ writes' = IF flushing THEN writes ELSE writes \cup sts
     /\ performed' = perf \ Ids(gone)
     /\ executed' = executed \ Ids(gone)
     /\ marked' = marked \ Ids(gone)
     /\ free' = GiveBack(free, gone)
     /\ lsq' = {e \in lsq : e.id \notin Ids(gone)}
     /\ flushing' = (flushing \/ FlushesFrom(gone))
     /\ last_serialized' = IF last_serialized \in Ids(gone) THEN NoInst ELSE last_serialized
     /\ ReexecuteTail(j)
     /\ stage' = "events"
     /\ UNCHANGED <<busy, fetchVars, pipeVars, queueVars, executing, src3, serialize_for,
                    replayRecovering, replayID, lastReplay, replays, setVars, cleared>>
-----------------------------------------------------------------------------
(* Callbacks.                                                              *)

MarkFetched ==
  /\ stage = "events"
  /\ \E b \in requested : ReadyItem(b)
  /\ UNCHANGED <<streamVars, stage, busy, fetchVars, coreVars, cleared>>

Waiting(d) == d.id \notin executing \cup executed

\* Program order inside the core, oldest first.
InROBs == rROB \o ROB

\* Bound: after MaxReplays replays no more loads overtake a store they
\* depend on.
MayOvertake(d) ==
  \/ replays < MaxReplays
  \/ Op(d) # "ld"
  \/ \A i \in DOMAIN ROB :
       (\E k \in i + 1 .. Len(ROB) : ROB[k] = d) /\ Op(ROB[i]) = "st" /\ Addr(ROB[i]) = Addr(d)
         => ~Waiting(ROB[i])

\* Resource::executing of every unit but FUStore: an ExecutingCluster frees
\* the window entry.
Executing(d) ==
  /\ stage = "events" /\ Op(d) # "st" /\ Waiting(d) /\ MayOvertake(d)
  /\ \A p \in src3 : p[2] # d.id
  /\ executing' = executing \cup {d.id}
  /\ free' = [free EXCEPT !.win = @ + 1]
  /\ UNCHANGED <<streamVars, stage, busy, fetchVars, pipeVars, queueVars, ROB, rROB,
                 executed, writes, performed, marked, lsq, src3, serialize_for,
                 last_serialized, replayVars, setVars, cleared>>

\* FUBranch::executed unblocks fetch if it was this branch it waited for.
UnBlockFetch(d) ==
  IF d.id \in lockFetch
  THEN missInst' = FALSE /\ lockFetch' = lockFetch \ {d.id} /\ UNCHANGED <<lastd, bpredTimers>>
  ELSE UNCHANGED fetchVars

SsidOf(id) == (CHOOSE e \in lsq : e.id = id).ssid

\* Resource::executed of a load, branch or ALU instruction (for a load also
\* performed, called by the cache): dependents may go.
Executed(d) ==
  /\ stage = "events" /\ d.id \in executing
  /\ executing' = executing \ {d.id}
  /\ executed' = executed \cup {d.id}
  /\ src3' = {p \in src3 : p[1] # d.id}
  /\ IF Op(d) = "ld" THEN StoreSetRemove(d.id, SsidOf(d.id)) ELSE UNCHANGED setVars
  /\ IF Op(d) = "br"
     THEN free' = [free EXCEPT !.br = @ + 1] /\ UnBlockFetch(d)
     ELSE UNCHANGED <<free, fetchVars>>
  /\ UNCHANGED <<streamVars, stage, busy, pipeVars, queueVars, ROB, rROB, writes,
                 performed, marked, lsq, serialize_for, last_serialized, replayVars, cleared>>

\* LSQFull::executing of a store: the loads of the same word that it takes
\* for younger ones, by ID, and that have executed.
Overtaken(d) ==
  {e \in lsq : /\ prog[e.n].op = "ld" /\ prog[e.n].addr = Addr(d)
               /\ e.id > d.id /\ e.id \in executed}

ReplayUnmarked(id) ==
  /\ replayID' = IF replayID < id THEN id ELSE replayID
  /\ replayRecovering' = TRUE
  /\ UNCHANGED marked

\* replay(target).
Replay(id) ==
  IF serialize_for > 0
  THEN UNCHANGED <<marked, replayID, replayRecovering>>
  ELSE /\ marked' = marked \cup {id}
       /\ replayID' = IF replayID < id THEN id ELSE replayID
       /\ replayRecovering' = TRUE

\* FUStore::executing and executed in one go; of several loads the one with
\* the largest ID is replayed.
ExecuteStore(d) ==
  /\ stage = "events" /\ Op(d) = "st" /\ Waiting(d)
  /\ \A p \in src3 : p[2] # d.id
  /\ executed' = executed \cup {d.id}
  /\ src3' = {p \in src3 : p[1] # d.id}
  /\ free' = [free EXCEPT !.win = @ + 1]
  /\ IF Overtaken(d) = {}
     THEN /\ StoreSetRemove(d.id, SsidOf(d.id))
          /\ UNCHANGED <<marked, replayID, replayRecovering>>
     ELSE LET e == CHOOSE e \in Overtaken(d) : \A o \in Overtaken(d) : o.id <= e.id
          IN /\ Replay(e.id)
             /\ StldViolation(e.n, e.ssid, d.n, d.id, SsidOf(d.id))
  /\ UNCHANGED <<streamVars, stage, busy, fetchVars, pipeVars, queueVars, ROB, rROB,
                 executing, writes, performed, lsq, serialize_for, last_serialized, flushing,
                 lastReplay, replays, cleared>>

\* The cache has performed a store's write.
Performed ==
  /\ stage = "events"
  /\ \E id \in writes : writes' = writes \ {id} /\ performed' = performed \cup {id}
  /\ UNCHANGED <<streamVars, stage, busy, fetchVars, pipeVars, queueVars, ROB, rROB,
                 executing, executed, marked, unitVars, replayVars, setVars, cleared>>

UnBlockFetchBPredDelay ==
  /\ stage = "events"
  /\ \E id \in bpredTimers : bpredTimers' = bpredTimers \ {id}
  /\ missInst' = FALSE
  /\ UNCHANGED <<streamVars, stage, busy, lastd, lockFetch, pipeVars, coreVars, cleared>>

\* QEMUReader::executeHead refills an empty stream.
Refill ==
  /\ stage = "events" /\ fetched = Len(window) /\ produced < Len(prog)
  /\ \E k \in 1 .. MaxBatch :
       /\ produced + k <= Len(prog)
       /\ window' = window \o [i \in 1 .. k |-> [n |-> produced + i, id |-> currentID + i - 1]]
       /\ produced' = produced + k
       /\ currentID' = currentID + k
  /\ UNCHANGED <<prog, fetched, stale, stage, busy, fetchVars, pipeVars, coreVars, cleared>>

\* clearStoreSetsTimer; bound: once.
ClearStoreSetsTimer ==
  /\ stage = "events" /\ ~cleared
  /\ ClearStoreSets
  /\ cleared' = TRUE
  /\ UNCHANGED <<streamVars, stage, busy, fetchVars, pipeVars, queueVars, instVars,
                 unitVars, replayVars>>

EndCycle ==
  /\ stage = "events"
  /\ PipelineTick
  /\ stage' = "fetch"
  /\ UNCHANGED <<streamVars, busy, fetchVars, coreVars, cleared>>

\* What the event queue owes the core: every callback that is scheduled.
Callback ==
  \/ MarkFetched
  \/ \E i \in DOMAIN ROB : Executing(ROB[i]) \/ Executed(ROB[i]) \/ ExecuteStore(ROB[i])
  \/ Performed
  \/ UnBlockFetchBPredDelay

Cycle ==
  \/ Fetch
  \/ NotBusy \/ Decode
  \/ Recovered \/ Recovering \/ Rename
  \/ AddInst \/ IssueEnds \/ NothingToDo
  \/ \E k \in 0 .. Len(ROB) : Retire(k)
  \/ EndCycle

Next == Cycle \/ Callback \/ Refill \/ ClearStoreSetsTimer

Spec == Init /\ [][Next]_vars
\* The loop of TaskHandler::boot goes on, the event queue runs every callback
\* it holds, and the data cache does not refuse writes for ever.
FairSpec ==
  /\ Spec
  /\ WF_vars(Cycle)
  /\ SF_vars(Callback)
  /\ SF_vars(\E k \in 1 .. Len(ROB) : Retire(k))
-----------------------------------------------------------------------------
\* The buckets in use, in the order in which they give up their instructions:
\* those of instQueue and buffer first.
InLine == instQueue \o buffer
Elems(s) == {s[i] : i \in DOMAIN s}
Buckets == requested \cup received \cup Elems(InLine)

\* The instructions in the buckets of B from number m on, as pairs of a bucket
\* and a place in it.
Inside(B, m) == UNION {{b.id} \X DOMAIN b.insts : b \in {c \in B : c.id >= m}}

\* Everything in the core.
CoreIds == Ids(InROBs) \cup UNION {Ids(b.insts) : b \in Buckets}

Holders(r) ==
  Cardinality({i \in DOMAIN InROBs : (r = "reg" /\ HasDst(InROBs[i])) \/ r = Op(InROBs[i])})

DInst == [n : DOMAIN prog, id : Nat]
Bucket == [id : Nat, insts : Seq(DInst), wait : Nat]

\* Every variable has its type; the counters stay within what was there at the
\* start.
TypeOK ==
  /\ prog \in Programs
  /\ window \in Seq(DInst) /\ \A i \in DOMAIN window : window[i].id < currentID
  /\ fetched \in 0 .. Len(window) /\ stale \in Nat
  /\ produced \in 0 .. Len(prog) /\ currentID \in Nat
  /\ stage \in {"fetch", "decode", "rename", "issue", "retire", "events"}
  /\ {busy, missInst, flushing, replayRecovering, cleared} \subseteq BOOLEAN
  /\ lastd \in Nat \cup {NoInst} /\ lockFetch \subseteq Nat /\ bpredTimers \subseteq Nat
  /\ bucketPool \in 0 .. BucketPoolMaxSize /\ nIRequests \in 0 .. MaxIRequests
  /\ requested \subseteq Bucket /\ received \subseteq Bucket
  /\ buffer \in Seq(Bucket) /\ instQueue \in Seq(Bucket)
  /\ maxItemCntr \in Nat /\ minItemCntr \in 0 .. maxItemCntr
  /\ spaceInInstQueue \in 0 .. InstQueueSize /\ slots \in 0 .. IssueWidth
  /\ ROB \in Seq(DInst) /\ rROB \in Seq(DInst) /\ Len(ROB) + Len(rROB) <= MaxROBSize
  /\ executing \cup executed \cup writes \cup performed \cup marked \subseteq Nat
  /\ free \in [Resources -> Nat] /\ \A r \in Resources : free[r] <= Entries[r]
  /\ lsq \subseteq [id : Nat, n : DOMAIN prog, ssid : Sets \cup {NoSet}]
  /\ src3 \subseteq Nat \X Nat
  /\ {serialize_for, replayID, lastReplay, replays} \subseteq Nat
  /\ last_serialized \in Nat \cup {NoInst}
  /\ SSIT \in [Sets -> Sets \cup {NoSet}] /\ LFST \in [Sets -> Nat \cup {NoInst}]
  /\ rnd \in 0 .. StoreSetSize

\* Pipeline.h: it receives "the IData out-of-order, and it orders so that the
\* execution is correct".  What the core holds, oldest first, is what the
\* stream believes to be in it: the stale copies, then the first `fetched`
\* instructions of the window, each once and in program order.  DInstFlow
\* takes this for granted when it destroys the oldest DInst.
HeldInOrder ==
  /\ \A i, k \in DOMAIN InLine : i < k => InLine[i].id < InLine[k].id
  /\ \A i \in DOMAIN InLine, b \in requested \cup received : InLine[i].id < b.id
  /\ Len(InROBs) + Cardinality(Inside(Buckets, 0)) = stale + fetched
  /\ \A i \in stale + 1 .. Len(InROBs) : InROBs[i] = window[i - stale]
  /\ \A b \in Buckets : \A i \in DOMAIN b.insts :
       LET younger == Len(b.insts) - i + Cardinality(Inside(Buckets, b.id + 1))
       IN younger < fetched => b.insts[i] = window[fetched - younger]

\* Nothing the core hands out is lost or returned twice: buckets, requests of
\* the instruction cache and room in the queue; and, also across a replay, the
\* units' entries, of which the free ones are those no instruction in the ROBs
\* holds, while the load/store queue holds the memory instructions.
ResourcesAccounted ==
  /\ bucketPool + Cardinality(requested) + Cardinality(received) + Len(buffer)
       + Len(instQueue) = BucketPoolMaxSize
  /\ nIRequests + Cardinality(requested) = MaxIRequests
  /\ spaceInInstQueue + Cardinality(Inside(Elems(instQueue), 0)) = InstQueueSize
  /\ \A r \in {"ld", "st", "reg"} : free[r] + Holders(r) = Entries[r]
  /\ free.br + Cardinality({i \in DOMAIN InROBs : /\ Op(InROBs[i]) = "br"
                                                /\ InROBs[i].id \notin executed}) = Entries.br
  /\ free.win + Cardinality({i \in DOMAIN InROBs : Waiting(InROBs[i])}) = Entries.win
  /\ {e.id : e \in lsq} = {InROBs[i].id : i \in {k \in DOMAIN InROBs : IsMem(InROBs[k])}}

\* While fetch is blocked exactly one waker is left, and it is lastd's: a
\* callback that is scheduled, or a branch still to execute in the core
\* (FetchEngine.cpp: I(lastd == dinst); DInst::destroy: I(!fetch)).
BlockedHasWaker ==
  /\ lockFetch \cup bpredTimers = (IF missInst THEN {lastd} ELSE {})
  /\ lockFetch \cap bpredTimers = {}
  /\ lockFetch \subseteq CoreIds \ executed

\* OoOProcessor.cpp: I(flushing) once a replay has drained the ROBs.  The
\* load it was for is still to retire, or has set flushing.
RecoveryFlushes ==
  /\ replayRecovering /\ Drained => flushing
  /\ flushing => replayRecovering

\* StoreSet.cpp: I(!lfs_dinst->isExecuted()).  An entry of LFST, a bare
\* pointer, is a renamed instruction that has not executed.
LastFetchedIsLive ==
  \A s \in Sets : LFST[s] # NoInst => LFST[s] \in Ids(ROB) \ executed

\* Everything that enters the core leaves it, whatever order the caches
\* answer in, whatever blocks fetch, and although it may be replayed (at
\* most MaxReplays times, see MayOvertake).
EventuallyDrains == CoreIds # {} ~> CoreIds = {}
=============================================================================
