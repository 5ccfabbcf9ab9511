------------------------------ MODULE Pipeline ------------------------------
(***************************************************************************)
(* simu/libcore/Pipeline.{h,cpp}: the buckets between the fetch engine and *)
(* the instruction queue.  A bucket is [id, insts, wait]: its pipeId, the  *)
(* DInsts in it, and the cycles until clock + PipeLength, which readyItem  *)
(* sets.  The instruction cache answers in any order; readyItem holds what *)
(* comes early in the priority queue `received`.                           *)
(***************************************************************************)
EXTENDS Integers, Sequences, FiniteSets

CONSTANTS PipeLength,     \* decodeDelay + renameDelay
          MaxIRequests    \* maxIRequests

ASSUME PipelineAssumption == PipeLength \in Nat /\ MaxIRequests \in Nat

VARIABLES bucketPool,     \* how many buckets are in the pool
          nIRequests,     \* requests that may still be started
          requested,      \* buckets whose markFetched has not been called
          received,       \* markFetched came before that of an older bucket
          buffer,         \* in order, waiting for PipeLength to pass
          maxItemCntr, minItemCntr

pipeVars == <<bucketPool, nIRequests, requested, received, buffer, maxItemCntr, minItemCntr>>

BucketPoolMaxSize == PipeLength + 1 + MaxIRequests

PipelineInit ==
  /\ bucketPool = BucketPoolMaxSize
  /\ nIRequests = MaxIRequests
  /\ requested = {} /\ received = {} /\ buffer = <<>>
  /\ maxItemCntr = 0 /\ minItemCntr = 0

Available == nIRequests # 0 /\ bucketPool # 0

\* newItem, and the bucket leaves with insts for the instruction cache.
NewItem(insts) ==
  /\ Available
  /\ nIRequests' = nIRequests - 1
  /\ bucketPool' = bucketPool - 1
  /\ requested' = requested \cup {[id |-> maxItemCntr, insts |-> insts, wait |-> 0]}
  /\ maxItemCntr' = maxItemCntr + 1
  /\ UNCHANGED <<received, buffer, minItemCntr>>

FollowingNone(id) == {}

\* The buckets clearItems pops: the received ones whose ids follow id with
\* nothing missing in between.
Following(id) ==
  {b \in received : \A i \in id + 1 .. b.id : \E c \in received : c.id = i}

ClearItems(id) == {b \in Following(id) : b.id > id}

ById(S) ==
  CHOOSE s \in [1 .. Cardinality(S) -> S] : \A i, k \in DOMAIN s : i < k => s[i].id < s[k].id

InTurnAlways(b) == TRUE

\* Is the bucket the one all older buckets have been waiting for?
InTurn(b) == b.id = minItemCntr

\* IBucket::markFetched and readyItem: an empty bucket goes straight back to
\* the pool.
ReadyItem(r) ==
  LET b     == [r EXCEPT !.wait = PipeLength]
      ready == {b} \cup ClearItems(b.id)
      full  == {c \in ready : c.insts # <<>>}
  IN /\ requested' = requested \ {r}
     /\ nIRequests' = nIRequests + 1
     /\ IF InTurn(b)
        THEN /\ minItemCntr' = minItemCntr + Cardinality(ready)
             /\ received' = received \ ready
             /\ buffer' = buffer \o ById(full)
             /\ bucketPool' = bucketPool + Cardinality(ready \ full)
        ELSE /\ received' = received \cup {b}
             /\ UNCHANGED <<minItemCntr, buffer, bucketPool>>
     /\ UNCHANGED maxItemCntr

HasNextItem == buffer # <<>> /\ Head(buffer).wait = 0

\* nextItem hands Head(buffer) over.
NextItem ==
  /\ buffer' = Tail(buffer)
  /\ UNCHANGED <<bucketPool, nIRequests, requested, received, maxItemCntr, minItemCntr>>

\* doneItem: an emptied bucket returns.
DoneItem ==
  /\ bucketPool' = bucketPool + 1
  /\ UNCHANGED <<nIRequests, requested, received, buffer, maxItemCntr, minItemCntr>>

HasOutstandingItems == buffer # <<>> \/ received # {} \/ nIRequests < MaxIRequests

\* globalClock advances.
Older(b) == [b EXCEPT !.wait = IF b.wait > 0 THEN b.wait - 1 ELSE 0]

PipelineTick ==
  /\ buffer' = [i \in DOMAIN buffer |-> Older(buffer[i])]
  /\ received' = {Older(b) : b \in received}
  /\ UNCHANGED <<bucketPool, nIRequests, requested, maxItemCntr, minItemCntr>>
=============================================================================
