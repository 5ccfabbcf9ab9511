------------------------- MODULE TaskHandlerProofs -------------------------
(***************************************************************************)
(* TaskHandler's safety properties for any number of guest threads and any *)
(* number of flows that is not smaller.                                    *)
(*                                                                         *)
(* RunningIsActive speaks of the moments when the mutex is free.  ListInv  *)
(* adds what its holder may rely on: resumeThread has found its flow       *)
(* inactive, so the list has room, and pauseThread has shifted the array   *)
(* and not yet lowered running_size.  OwnerInv says that a taken flow      *)
(* belongs to a thread that runs as it or is about to.  ScanInv is the     *)
(* counting argument for getFid, whose search reads one flow at a time     *)
(* while the others take and free them: every flow that was ever used is   *)
(* kept by some thread, and a thread that has read its last flow and found *)
(* it taken keeps none, so a FREE one is left over, and FREE flows that    *)
(* the search has passed do not come back.                                 *)
(***************************************************************************)
EXTENDS TaskHandler, FiniteSetTheorems, WellFoundedInduction, TLAPS

Pcs == {"unborn", "run", "scan", "take", "resume", "append", "wait", "gone", "term",
        "shrink", "free", "term_maps", "term_list"}

ThreadStates == [pc : Pcs, fid : Flows, last : Flows \cup {FidNull},
                 then : {"run", "wait", "gone", "term"}]

Scans == [k : 0..LastTurn, found : Flows \cup {FidNull}]

Types ==
    /\ pool \in [Flows -> {"TAKEN", "FREE", "FREED"}]
    /\ active \in [Flows -> BOOLEAN] /\ simu \in [Flows -> BOOLEAN]
    /\ list \in [run : [Flows -> Flows], size : 0..NFlows]
    /\ terminate \in BOOLEAN /\ cleared \in BOOLEAN /\ exited \in BOOLEAN
    /\ lock \in Threads \cup {NoThread}
    /\ th \in [Threads -> ThreadStates]
    /\ scan \in [Threads -> Scans]
    /\ boot \in [pc : {"round", "read", "execute", "done"}, i : Flows, fid : Flows]

\* Who holds the mutex, and what terminate() has done before each of its steps.
LockInv ==
    /\ \A t \in Threads : lock = t <=> th[t].pc \in {"append", "shrink", "free"}
    /\ \A t \in Threads : th[t].pc \in {"term_maps", "term_list"} => terminate
    /\ cleared => terminate

\* The first n entries of running[] are the flows in A, each once.
Lists(run, n, A) ==
    /\ \A i, j \in 0..n - 1 : run[i] = run[j] => i = j
    /\ \A i \in 0..n - 1 : run[i] \in A
    /\ \A f \in A : \E i \in 0..n - 1 : run[i] = f

ActiveFlows == {f \in Flows : active[f]}

ListInv ==
    /\ \A t \in Threads :
         /\ th[t].pc = "append" => list.size < NFlows /\ ~cleared
         /\ th[t].pc = "shrink" => list.size > 0
    /\ cleared => list.size = 0
    /\ ~terminate =>
         /\ \A f \in Flows : active[f] => simu[f]
         /\ (\A t \in Threads : th[t].pc # "shrink") => Lists(list.run, list.size, ActiveFlows)
         /\ \A t \in Threads :
              /\ th[t].pc = "append" => ~active[th[t].fid]
              /\ th[t].pc = "shrink" =>
                   Lists(list.run, list.size - 1, ActiveFlows \ {th[t].fid})
              /\ th[t].pc # "free"

\* Threads that run as their flow, and threads that are about to.
Holds(t, f) == th[t].fid = f /\ th[t].pc \in {"run", "shrink", "free", "term"}
Claims(t, f) == th[t].fid = f /\ th[t].pc \in {"resume", "append"}

OwnerInv ==
    /\ exited => terminate
    /\ ~terminate => \A f \in Flows :
         /\ active[f] => \E t \in Threads : Holds(t, f)
         /\ pool[f] = "TAKEN" => active[f] \/ \E t \in Threads : Claims(t, f)

\* A used flow is kept by its thread while that sleeps, and after it has
\* woken until its search comes to the flow.
Keeps(t, f) ==
    IF th[t].pc = "scan" THEN th[t].last = f /\ scan[t].k <= f
    ELSE th[t].fid = f /\ th[t].pc # "unborn"

Used(f) == pool[f] # "FREE"

\* What a thread knows of its own flow, and of the flows its search has passed.
Knows(t) ==
    /\ th[t].pc # "scan" => scan[t] = Fresh
    /\ th[t].pc \notin {"scan", "take"} => Used(th[t].fid)
    /\ th[t].pc = "scan" /\ th[t].last # FidNull => Used(th[t].last)
    /\ th[t].pc = "scan" /\ scan[t].found = FidNull =>
         \A f \in Flows : NFlows + f < scan[t].k => Used(f)

ScanInv ==
    /\ Used(0)
    /\ \A t \in Threads : Knows(t)
    /\ ~terminate => \A f \in Flows : Used(f) => \E t \in Threads : Keeps(t, f)

IInv == Types /\ LockInv /\ ListInv /\ OwnerInv /\ ScanInv

-----------------------------------------------------------------------------
(* What the operators of the model return.                                 *)

(* A non-empty set of naturals has a least element. *)
LEMMA Least ==
  ASSUME NEW S, S \subseteq Nat, S # {}
  PROVE  \E x \in S : \A y \in S : x <= y
<1> DEFINE R == {ss \in Nat \X Nat : ss[1] < ss[2]}
<1>1. IsWellFoundedOn(R, Nat)
  BY NatLessThanWellFounded, Zenon DEF OpToRel
<1> HIDE DEF R
<1>2. PICK x \in S : \A y \in S : ~(<<y, x>> \in R)
  BY <1>1, WFMin, Zenon
<1>3. \A y \in S : ~(y < x)
  BY <1>2, Zenon DEF R
<1> QED BY <1>3

LEMMA FlowIndex == \A i \in Nat : i < NFlows => i \in Flows
BY FlowsAssumption DEF Flows

LEMMA FreshScan == Fresh \in Scans
<1>1. 0 \in 0..LastTurn
  BY FlowsAssumption DEF LastTurn
<1> QED BY <1>1 DEF Fresh, Scans

(* What a turn of getFid's search finds. *)
LEMMA ScanTurn ==
  ASSUME Types, NEW t \in Threads
  PROVE  /\ scan[t].k \in 0..LastTurn /\ FlowOf(scan[t].k) \in Flows
         /\ Found(t) \in Flows \cup {FidNull}
         /\ Found(t) = FidNull => scan[t].found = FidNull /\ ~Hit(t)
<1>1. scan[t].k \in 0..LastTurn /\ scan[t].found \in Flows \cup {FidNull}
  BY DEF Types, Scans
<1>2. FlowOf(scan[t].k) \in Flows
  BY <1>1, FlowsAssumption DEF FlowOf, LastTurn, Flows
<1>3. FidNull \notin Flows
  BY FlowsAssumption DEF Flows
<1> QED BY <1>1, <1>2, <1>3, Zenon DEF Found

(* The position removeFromRunning finds. *)
LEMMA MinPosition ==
  ASSUME NEW l \in [run : [Flows -> Flows], size : 0..NFlows], NEW f, Positions(l, f) # {}
  PROVE  /\ Min(Positions(l, f)) \in 0..l.size - 1
         /\ l.run[Min(Positions(l, f))] = f
<1>1. Positions(l, f) \subseteq Nat
  BY FlowsAssumption DEF Positions
<1>2. \E x \in Positions(l, f) : \A y \in Positions(l, f) : x <= y
  BY <1>1, Least
<1>3. Min(Positions(l, f)) \in Positions(l, f)
  BY <1>2 DEF Min
<1> QED BY <1>3 DEF Positions

LEMMA ShiftedType ==
  ASSUME NEW l \in [run : [Flows -> Flows], size : 0..NFlows], NEW f
  PROVE  Shifted(l, f) \in [Flows -> Flows]
<1>1. CASE Positions(l, f) = {}
  BY <1>1 DEF Shifted
<1>2. CASE Positions(l, f) # {}
  <2> DEFINE i == Min(Positions(l, f))
  <2>1. i \in 0..l.size - 1
    BY <1>2, MinPosition
  <2>2. Shifted(l, f) = [j \in Flows |-> IF j \in i..l.size - 2 THEN l.run[j + 1] ELSE l.run[j]]
    BY <1>2 DEF Shifted
  <2> HIDE DEF i
  <2>3. ASSUME NEW j \in Flows, j \in i..l.size - 2
        PROVE  l.run[j + 1] \in Flows
    <3>1. j + 1 \in Flows
      BY <2>1, <2>3, FlowsAssumption DEF Flows
    <3> QED BY <3>1
  <2> QED BY <2>2, <2>3
<1> QED BY <1>1, <1>2

LEMMA FlowCount == IsFiniteSet(Flows) /\ Cardinality(Flows) = NFlows
BY FS_Interval, FlowsAssumption DEF Flows

(* A list of distinct flows that misses one has room for it. *)
LEMMA Room ==
  ASSUME NEW run \in [Flows -> Flows], NEW n \in 0..NFlows, NEW A, NEW f \in Flows \ A,
         Lists(run, n, A)
  PROVE  n < NFlows
<1> DEFINE g == [i \in 0..n - 1 |-> run[i]]
           T == Flows \ {f}
<1>1. \A i \in 0..n - 1 : i \in Flows
  BY FlowsAssumption DEF Flows
<1>2. g \in Injection(0..n - 1, T)
  BY <1>1 DEF Lists, Injection, IsInjective
<1>4. IsFiniteSet(T) /\ Cardinality(T) = NFlows - 1
  BY FlowCount, FS_RemoveElement
<1>5. Cardinality(0..n - 1) = n
  BY FS_Interval, FlowsAssumption
<1>6. Cardinality(0..n - 1) <= Cardinality(T)
  BY <1>2, <1>4, FS_Injection
<1> QED BY <1>4, <1>5, <1>6, FlowsAssumption

LEMMA AppendedLists ==
  ASSUME NEW run \in [Flows -> Flows], NEW n \in 0..NFlows - 1, NEW A, NEW f \in Flows \ A,
         Lists(run, n, A)
  PROVE  Lists([run EXCEPT ![n] = f], n + 1, A \cup {f})
<1> DEFINE r == [run EXCEPT ![n] = f]
<1>1. n \in Flows /\ \A i \in 0..n : i \in Flows /\ (i \in 0..n - 1 \/ i = n)
  BY FlowIndex, FlowsAssumption
<1>2. r[n] = f /\ \A i \in 0..n - 1 : r[i] = run[i]
  BY <1>1, FlowsAssumption
<1>3. (n + 1) - 1 = n /\ n \in 0..n /\ \A i \in 0..n - 1 : i \in 0..n
  BY FlowsAssumption
<1> HIDE DEF r
<1> SUFFICES Lists(r, n + 1, A \cup {f})
  BY DEF r
<1> QED BY <1>1, <1>2, <1>3 DEF Lists

(* removeFromRunning's shift takes the flow out of the list. *)
LEMMA ShiftedLists ==
  ASSUME NEW l \in [run : [Flows -> Flows], size : 0..NFlows], NEW A, NEW f \in A,
         Lists(l.run, l.size, A)
  PROVE  /\ Positions(l, f) # {} /\ l.size > 0
         /\ Lists(Shifted(l, f), l.size - 1, A \ {f})
<1> DEFINE p == Min(Positions(l, f))
           r == Shifted(l, f)
           n == l.size
<1>1. Positions(l, f) # {}
  BY DEF Lists, Positions
<1>2. p \in 0..n - 1 /\ l.run[p] = f
  BY <1>1, MinPosition
<1>3. r = [j \in Flows |-> IF j \in p..n - 2 THEN l.run[j + 1] ELSE l.run[j]]
  BY <1>1 DEF Shifted
<1> HIDE DEF p, r
<1>n. n \in 1..NFlows /\ p \in Nat /\ p < n
  BY <1>2, FlowsAssumption
<1>4. \A i \in 0..n - 2 : i \in Flows /\ r[i] = IF i >= p THEN l.run[i + 1] ELSE l.run[i]
  BY <1>n, <1>3, FlowsAssumption DEF Flows
<1>5. ASSUME NEW i \in 0..n - 2, NEW j \in 0..n - 2, r[i] = r[j]
      PROVE  i = j
  <2> DEFINE ii == IF i >= p THEN i + 1 ELSE i
             jj == IF j >= p THEN j + 1 ELSE j
  <2>1. ii \in 0..n - 1 /\ jj \in 0..n - 1 /\ r[i] = l.run[ii] /\ r[j] = l.run[jj]
    BY <1>4, <1>n
  <2>2. ii = jj
    BY <1>5, <2>1, Zenon DEF Lists
  <2> QED BY <2>2, <1>n
<1>6. ASSUME NEW i \in 0..n - 2
      PROVE  r[i] \in A \ {f}
  <2> DEFINE ii == IF i >= p THEN i + 1 ELSE i
  <2>1. ii \in 0..n - 1 /\ r[i] = l.run[ii] /\ ii # p
    BY <1>4, <1>n
  <2> HIDE DEF ii
  <2> QED BY <2>1, <1>2 DEF Lists
<1>7. ASSUME NEW g \in A \ {f}
      PROVE  \E i \in 0..n - 2 : r[i] = g
  <2>1. PICK k \in 0..n - 1 : l.run[k] = g
    BY DEF Lists
  <2>2. k # p
    BY <2>1, <1>2
  <2>3. CASE k < p
    <3>1. k \in 0..n - 2 /\ r[k] = g
      BY <2>1, <2>3, <1>4, <1>n
    <3> QED BY <3>1
  <2>4. CASE k > p
    <3>1. k - 1 \in 0..n - 2 /\ k - 1 >= p /\ (k - 1) + 1 = k
      BY <2>4, <1>n
    <3>2. r[k - 1] = g
      BY <2>1, <3>1, <1>4
    <3> QED BY <3>1, <3>2
  <2> QED BY <2>2, <2>3, <2>4, <1>n
<1>8. (n - 1) - 1 = n - 2
  BY <1>n
<1>9. Lists(r, n - 1, A \ {f})
  BY <1>5, <1>6, <1>7, <1>8 DEF Lists
<1> QED BY <1>1, <1>n, <1>9 DEF r

-----------------------------------------------------------------------------
(* The initial state.                                                      *)

LEMMA InitInv == Init => IInv
<1> SUFFICES ASSUME Init PROVE IInv
  OBVIOUS
<1>0. NFlows \in Nat /\ NFlows > 0 /\ 0 \in Flows /\ Main \in Threads /\ NoThread \notin Threads
  BY FlowsAssumption DEF Flows
<1>1. Types
  <2>1. list \in [run : [Flows -> Flows], size : 0..NFlows]
    BY <1>0 DEF Init
  <2>2. th \in [Threads -> ThreadStates]
    BY <1>0 DEF Init, Pcs, ThreadStates
  <2>3. boot \in [pc : {"round", "read", "execute", "done"}, i : Flows, fid : Flows]
    BY <1>0 DEF Init
  <2>4. active \in [Flows -> BOOLEAN] /\ simu \in [Flows -> BOOLEAN]
    BY DEF Init
  <2>5. Fresh \in Scans
    BY FreshScan
  <2> QED BY <2>1, <2>2, <2>3, <2>4, <2>5, Zenon DEF Init, Types
<1>2. LockInv
  BY <1>0 DEF Init, LockInv
<1>3. Lists(list.run, list.size, ActiveFlows)
  <2>1. list.size = 1 /\ list.run[0] = 0 /\ 0..list.size - 1 = {0}
    BY <1>0 DEF Init
  <2>2. ActiveFlows = {0}
    BY <1>0, Zenon DEF Init, ActiveFlows
  <2> QED BY <2>1, <2>2 DEF Lists
<1>4. ListInv
  BY <1>0, <1>3 DEF Init, ListInv
<1>5. Holds(Main, 0)
  BY <1>0 DEF Init, Holds
<1>6. OwnerInv
  BY <1>0, <1>5, Zenon DEF Init, OwnerInv
<1>7. ScanInv
  <2>1. \A f \in Flows : Used(f) <=> f = 0
    BY <1>0 DEF Init, Used
  <2>2. \A t \in Threads : th[t].pc # "scan" /\ th[t].fid = 0 /\ scan[t] = Fresh
    BY <1>0 DEF Init
  <2>3. Keeps(Main, 0)
    BY <1>0, <2>2 DEF Init, Keeps
  <2> QED BY <1>0, <2>1, <2>2, <2>3, Zenon DEF ScanInv, Knows
<1> QED BY <1>1, <1>2, <1>4, <1>6, <1>7 DEF IInv

-----------------------------------------------------------------------------
(* Types.                                                                  *)

LEMMA TypesNext == IInv /\ [Next]_vars => Types'
<1> SUFFICES ASSUME IInv, [Next]_vars PROVE Types'
  OBVIOUS
<1>0. /\ Types /\ NFlows \in Nat
      /\ \A t \in Threads : /\ th[t].pc = "append" => list.size < NFlows
                            /\ th[t].pc = "shrink" => list.size > 0
  BY FlowsAssumption DEF IInv, ListInv
<1>s. list.size \in 0..NFlows /\ NFlows \in Nat /\ 0 \in Flows
  BY FlowsAssumption, <1>0 DEF Types, Flows
<1>i. list.run \in [Flows -> Flows] /\ boot.i \in Flows /\ 0 \in Flows
  BY <1>0, <1>s DEF Types
<1>t. \A t \in Threads : /\ th[t].pc \in Pcs /\ th[t].fid \in Flows
                         /\ th[t].last \in Flows \cup {FidNull}
                         /\ th[t].then \in {"run", "wait", "gone", "term"} /\ th[t].then \in Pcs
  BY <1>0 DEF Types, ThreadStates, Pcs
<1>g. ASSUME NEW t \in Threads, NEW r \in ThreadStates, th' = [th EXCEPT ![t] = r]
      PROVE  th' \in [Threads -> ThreadStates]
  BY <1>0, <1>g DEF Types
<1>m. ASSUME NEW t \in Threads, NEW pc \in Pcs, NEW fid \in Flows, NEW last \in Flows \cup {FidNull},
             NEW then \in {"run", "wait", "gone", "term"}
      PROVE  [pc |-> pc, fid |-> fid, last |-> last, then |-> then] \in ThreadStates
  BY DEF ThreadStates
<1>e. ASSUME NEW t \in Threads, NEW pc \in Pcs, NEW then \in {"run", "wait", "gone", "term"}
      PROVE  /\ [th[t] EXCEPT !.pc = pc] \in ThreadStates
             /\ [th[t] EXCEPT !.pc = pc, !.then = then] \in ThreadStates
  BY <1>0, ZenonT(40) DEF Types, ThreadStates
<1>1. ASSUME NEW t \in Threads, NEW u \in Threads, Clone(t, u) PROVE Types'
  <2>1. th' \in [Threads -> ThreadStates]
    BY <1>1, <1>i, <1>g, <1>m, Zenon DEF Clone, Goto, Pcs
  <2> QED BY <1>0, <1>1, <2>1 DEF Clone, Types
<1>2. ASSUME NEW t \in Threads, Wake(t) PROVE Types'
  <2>1. th' \in [Threads -> ThreadStates]
    BY <1>2, <1>i, <1>t, <1>g, <1>m, Zenon DEF Wake, Goto, Pcs
  <2> QED BY <1>0, <1>2, <2>1 DEF Wake, Types
<1>3. ASSUME NEW t \in Threads, GetFidScan(t) PROVE Types'
  <2>4. scan[t].k \in 0..LastTurn /\ scan[t].k < LastTurn /\ Found(t) \in Flows \cup {FidNull}
    BY <1>0, <1>3, ScanTurn, Zenon DEF GetFidScan
  <2>1. scan[t].k + 1 \in 0..LastTurn /\ Found(t) \in Flows \cup {FidNull}
    BY <1>s, <2>4 DEF LastTurn
  <2>2. [k |-> scan[t].k + 1, found |-> Found(t)] \in Scans
    BY <2>1, Zenon DEF Scans
  <2>3. scan' \in [Threads -> Scans]
    BY <1>0, <1>3, <2>2, Zenon DEF GetFidScan, Types
  <2> QED BY <1>0, <1>3, <2>3 DEF GetFidScan, Types
<1>15. ASSUME NEW t \in Threads, GetFidChoose(t) PROVE Types'
  <2> DEFINE fid == IF Again(t) THEN th[t].last ELSE Found(t)
             take == IF fid = FidNull THEN 0 ELSE fid
  <2>1. take \in Flows
    BY <1>0, <1>t, <1>i, ScanTurn, Zenon
  <2>2. Goto(t, "take", take, th[t].last) /\ exited' \in BOOLEAN
    BY <1>15 DEF GetFidChoose
  <2> HIDE DEF take
  <2>3. th' \in [Threads -> ThreadStates]
    BY <1>t, <1>g, <1>m, <2>1, <2>2, Zenon DEF Goto, Pcs
  <2>4. Fresh \in Scans
    BY FreshScan
  <2>5. scan' \in [Threads -> Scans]
    BY <1>0, <1>15, <2>4, Zenon DEF GetFidChoose, Types
  <2> QED BY <1>0, <1>15, <2>2, <2>3, <2>5 DEF GetFidChoose, Types
<1>4. ASSUME NEW t \in Threads, GetFidTake(t) PROVE Types'
  <2>1. th' \in [Threads -> ThreadStates]
    BY <1>4, <1>t, <1>g, <1>m, Zenon DEF GetFidTake, Goto, Pcs
  <2>2. pool' \in [Flows -> {"TAKEN", "FREE", "FREED"}]
    BY <1>0, <1>4, Zenon DEF GetFidTake, Types
  <2> QED BY <1>0, <1>4, <2>1, <2>2 DEF GetFidTake, Types
<1>5. ASSUME NEW t \in Threads, ResumeTest(t) PROVE Types'
  <2>1. th' \in [Threads -> ThreadStates]
    BY <1>5, <1>i, <1>t, <1>g, <1>m, Zenon DEF ResumeTest, Goto, Pcs
  <2> QED BY <1>0, <1>5, <2>1 DEF ResumeTest, Types
<1>6. ASSUME NEW t \in Threads, ResumeAppend(t) PROVE Types'
  <2>1. list.size < NFlows
    BY <1>0, <1>6 DEF ResumeAppend
  <2>2. list.size + 1 \in 0..NFlows
    BY <1>s, <2>1
  <2>3. list' \in [run : [Flows -> Flows], size : 0..NFlows]
    BY <1>i, <1>t, <1>6, <2>2, Zenon DEF ResumeAppend, Appended
  <2>4. th' \in [Threads -> ThreadStates]
    BY <1>6, <1>t, <1>g, <1>m, Zenon DEF ResumeAppend, Goto, Pcs
  <2>5. active' \in [Flows -> BOOLEAN] /\ simu' \in [Flows -> BOOLEAN]
    BY <1>0, <1>6, Zenon DEF ResumeAppend, Types
  <2> QED BY <1>0, <1>6, <2>3, <2>4, <2>5 DEF ResumeAppend, Types
<1>7. ASSUME NEW t \in Threads, NEW then \in {"wait", "gone", "term"}, Pause(t, then) PROVE Types'
  <2>1. Shifted(list, th[t].fid) \in [Flows -> Flows]
    BY <1>0, ShiftedType DEF Types
  <2>2. list' \in [run : [Flows -> Flows], size : 0..NFlows]
    BY <1>0, <1>7, <2>1 DEF Pause, Types
  <2>3. th' \in [Threads -> ThreadStates]
    <3>1. CASE ~active[th[t].fid]
      BY <3>1, <1>7, <1>t, <1>g, <1>m, Zenon DEF Pause, Goto, Pcs
    <3>2. CASE active[th[t].fid]
      <4> DEFINE pc == IF Positions(list, th[t].fid) = {} THEN "free" ELSE "shrink"
      <4>1. pc \in Pcs
        BY DEF Pcs
      <4>2. th' = [th EXCEPT ![t].pc = pc, ![t].then = then]
        BY <1>7, <3>2 DEF Pause
      <4> HIDE DEF pc
      <4>3. th' = [th EXCEPT ![t] = [th[t] EXCEPT !.pc = pc, !.then = then]]
        BY <4>2, <1>0, Zenon DEF Types
      <4> QED BY <4>1, <4>3, <1>e, <1>g, Zenon
    <3> QED BY <3>1, <3>2
  <2> QED BY <1>0, <1>7, <2>2, <2>3 DEF Pause, Types
<1>8. ASSUME NEW t \in Threads, PauseShrink(t) PROVE Types'
  <2>1. th[t].pc = "shrink" => list.size - 1 \in 0..NFlows
    BY <1>0, <1>s
  <2>2. list' \in [run : [Flows -> Flows], size : 0..NFlows]
    BY <1>0, <1>8, <2>1 DEF PauseShrink, Shrunk, Types
  <2>3. pool' \in [Flows -> {"TAKEN", "FREE", "FREED"}]
    BY <1>0, <1>8, Zenon DEF PauseShrink, Freed, Types
  <2>4. th' \in [Threads -> ThreadStates]
    BY <1>8, <1>t, <1>g, <1>m, Zenon DEF PauseShrink, Goto
  <2>5. active' \in [Flows -> BOOLEAN] /\ simu' \in [Flows -> BOOLEAN]
    BY <1>0, <1>8, Zenon DEF PauseShrink, Types
  <2> QED BY <1>0, <1>8, <2>2, <2>3, <2>4, <2>5 DEF PauseShrink, Types
<1>9. ASSUME NEW t \in Threads, MarkDone(t) PROVE Types'
  <2>1. th' = [th EXCEPT ![t].pc = "term", ![t].then = "run"]
    BY <1>9 DEF MarkDone
  <2>3. th' = [th EXCEPT ![t] = [th[t] EXCEPT !.pc = "term", !.then = "run"]]
    BY <2>1, <1>0, Zenon DEF Types
  <2>2. th' \in [Threads -> ThreadStates]
    BY <2>3, <1>e, <1>g, Zenon DEF Pcs
  <2> QED BY <1>0, <1>9, <2>2 DEF MarkDone, Types
<1>10. ASSUME NEW t \in Threads, TerminateFlag(t) PROVE Types'
  <2>1. th' = [th EXCEPT ![t].pc = "term_maps"]
    BY <1>10 DEF TerminateFlag
  <2>2. th' \in [Threads -> ThreadStates]
    BY <2>1, <1>0 DEF Types, ThreadStates, Pcs
  <2> QED BY <1>0, <1>10, <2>2 DEF TerminateFlag, Types
<1>11. ASSUME NEW t \in Threads, TerminateMaps(t) PROVE Types'
  <2>1. th' = [th EXCEPT ![t].pc = "term_list"]
    BY <1>11 DEF TerminateMaps
  <2>2. th' \in [Threads -> ThreadStates]
    BY <2>1, <1>0 DEF Types, ThreadStates, Pcs
  <2>3. active' \in [Flows -> BOOLEAN]
    BY <1>11 DEF TerminateMaps
  <2> QED BY <1>0, <1>11, <2>2, <2>3 DEF TerminateMaps, Types
<1>12. ASSUME NEW t \in Threads, TerminateList(t) PROVE Types'
  <2>1. th' \in [Threads -> ThreadStates]
    BY <1>12, <1>t, <1>g, <1>m, Zenon DEF TerminateList, Goto
  <2>2. list' \in [run : [Flows -> Flows], size : 0..NFlows]
    BY <1>0, <1>s, <1>12 DEF TerminateList, Types
  <2> QED BY <1>0, <1>12, <2>1, <2>2 DEF TerminateList, Types
<1>13. ASSUME Boot PROVE Types'
  <2> DEFINE BT == [pc : {"round", "read", "execute", "done"}, i : Flows, fid : Flows]
  <2>1. \A i \in Nat : i < list.size => i \in Flows
    BY <1>s DEF Flows
  <2>2. \A i \in Nat : Tested(i) \in BT
    BY <1>i, <2>1 DEF Tested
  <2>3. boot.i + 1 \in Nat /\ 0 \in Nat
    BY <1>s, <1>i, SMTT(30) DEF Flows
  <2>4. list.run[boot.i] \in Flows /\ boot \in BT
    BY <1>0, <1>i DEF Types
  <2>5. boot' \in BT
    BY <1>13, <2>2, <2>3, <2>4, Zenon DEF Boot, BootRead, BootExecute, BootRound, Following
  <2> QED BY <1>0, <1>13, <2>5 DEF Boot, BootRead, BootExecute, BootRound, Types
<1>14. CASE UNCHANGED vars
  BY <1>0, <1>14 DEF vars, Types
<1> QED
  BY <1>1, <1>2, <1>3, <1>4, <1>5, <1>6, <1>7, <1>8, <1>9, <1>10, <1>11, <1>12, <1>13, <1>14, <1>15
  DEF Next, Thread, Terminate, FutexWait, FinishThread, Finish

-----------------------------------------------------------------------------
(* The mutex and the order of terminate()'s steps.                         *)

(* Thread t, and no other, moves to pc. *)
Moves(t, pc) == th'[t].pc = pc /\ \A u \in Threads \ {t} : th'[u] = th[u]

LEMMA Move ==
  ASSUME Types, NEW t \in Threads, NEW pc, NEW fid, NEW last, NEW then
  PROVE  /\ Goto(t, pc, fid, last) => Moves(t, pc) /\ th'[t].fid = fid /\ th'[t].last = last
         /\ \/ th' = [th EXCEPT ![t].pc = pc]
            \/ th' = [th EXCEPT ![t].pc = pc, ![t].then = then]
            => Moves(t, pc) /\ th'[t].fid = th[t].fid
<1>1. th \in [Threads -> ThreadStates] /\ th[t] \in ThreadStates
  BY DEF Types
<1> QED BY <1>1 DEF Goto, ThreadStates, Moves

(* Where the threads are after each action. *)
LEMMA ThreadSteps ==
  ASSUME Types, NEW t \in Threads
  PROVE  /\ \A u \in Threads : Clone(t, u) => Moves(u, "scan") /\ th'[u].last = FidNull
         /\ Wake(t) => Moves(t, "scan") /\ th'[t].last = th[t].fid
         /\ GetFidChoose(t) => Moves(t, "take")
         /\ GetFidTake(t) => Moves(t, "resume") /\ th'[t].fid = th[t].fid
         /\ ResumeAppend(t) => Moves(t, "run") /\ th'[t].fid = th[t].fid
         /\ PauseShrink(t) => Moves(t, th[t].then) /\ th'[t].fid = th[t].fid
         /\ MarkDone(t) => Moves(t, "term") /\ th'[t].fid = th[t].fid
         /\ TerminateFlag(t) => Moves(t, "term_maps") /\ th'[t].fid = th[t].fid
         /\ TerminateMaps(t) => Moves(t, "term_list") /\ th'[t].fid = th[t].fid
         /\ TerminateList(t) => Moves(t, th[t].then) /\ th'[t].fid = th[t].fid
<1>1. \A u \in Threads : Clone(t, u) => Moves(u, "scan") /\ th'[u].last = FidNull
  BY Move, Zenon DEF Clone
<1>2. Wake(t) => Moves(t, "scan") /\ th'[t].last = th[t].fid
  BY Move, Zenon DEF Wake
<1>3. GetFidChoose(t) => Moves(t, "take")
  BY Move, Zenon DEF GetFidChoose
<1>4. GetFidTake(t) => Moves(t, "resume") /\ th'[t].fid = th[t].fid
  BY Move, Zenon DEF GetFidTake
<1>5. ResumeAppend(t) => Moves(t, "run") /\ th'[t].fid = th[t].fid
  BY Move, Zenon DEF ResumeAppend
<1>6. PauseShrink(t) => Moves(t, th[t].then) /\ th'[t].fid = th[t].fid
  BY Move, Zenon DEF PauseShrink
<1>7. MarkDone(t) => Moves(t, "term") /\ th'[t].fid = th[t].fid
  BY Move, Zenon DEF MarkDone
<1>8. TerminateFlag(t) => Moves(t, "term_maps") /\ th'[t].fid = th[t].fid
  BY Move, Zenon DEF TerminateFlag
<1>9. TerminateMaps(t) => Moves(t, "term_list") /\ th'[t].fid = th[t].fid
  BY Move, Zenon DEF TerminateMaps
<1>10. TerminateList(t) => Moves(t, th[t].then) /\ th'[t].fid = th[t].fid
  BY Move, Zenon DEF TerminateList
<1> QED BY <1>1, <1>2, <1>3, <1>4, <1>5, <1>6, <1>7, <1>8, <1>9, <1>10, Zenon

(* resumeThread's two outcomes. *)
LEMMA ResumeSteps ==
  ASSUME Types, NEW t \in Threads, ResumeTest(t)
  PROVE  \/ Refused(th[t].fid) /\ Moves(t, "run") /\ th'[t].fid = 0 /\ lock' = lock
         \/ ~Refused(th[t].fid) /\ Moves(t, "append") /\ th'[t].fid = th[t].fid /\ lock' = t
BY Move, Zenon DEF ResumeTest

(* pauseThread's two outcomes. *)
LEMMA PauseSteps ==
  ASSUME Types, NEW t \in Threads, NEW then, Pause(t, then)
  PROVE  \/ /\ ~active[th[t].fid] /\ Moves(t, then) /\ th'[t].fid = th[t].fid
            /\ lock' = lock /\ list' = list
         \/ /\ active[th[t].fid] /\ lock' = t /\ th'[t].fid = th[t].fid
            /\ Moves(t, IF Positions(list, th[t].fid) = {} THEN "free" ELSE "shrink")
            /\ list' = [list EXCEPT !.run = Shifted(list, th[t].fid)]
<1> DEFINE pc == IF Positions(list, th[t].fid) = {} THEN "free" ELSE "shrink"
<1>1. \/ /\ ~active[th[t].fid] /\ Goto(t, then, th[t].fid, FidNull) /\ lock' = lock /\ list' = list
      \/ /\ active[th[t].fid] /\ th' = [th EXCEPT ![t].pc = pc, ![t].then = then]
         /\ lock' = t /\ list' = [list EXCEPT !.run = Shifted(list, th[t].fid)]
  BY Zenon DEF Pause
<1> HIDE DEF pc
<1>2. \/ /\ ~active[th[t].fid] /\ Moves(t, then) /\ th'[t].fid = th[t].fid
         /\ lock' = lock /\ list' = list
      \/ /\ active[th[t].fid] /\ lock' = t /\ th'[t].fid = th[t].fid
         /\ Moves(t, pc) /\ list' = [list EXCEPT !.run = Shifted(list, th[t].fid)]
  BY <1>1, Move, ZenonT(40)
<1> QED BY <1>2 DEF pc

LEMMA LockNext == IInv /\ [Next]_vars => LockInv'
<1> SUFFICES ASSUME IInv, [Next]_vars PROVE LockInv'
  OBVIOUS
<1>0. Types /\ LockInv /\ NoThread \notin Threads
  BY FlowsAssumption DEF IInv
<1>t. \A t \in Threads : th[t].then \in {"run", "wait", "gone", "term"}
  BY <1>0 DEF Types, ThreadStates
<1>1. ASSUME NEW t \in Threads, NEW u \in Threads, Clone(t, u) PROVE LockInv'
  BY <1>0, <1>1, ThreadSteps DEF Clone, LockInv, Moves
<1>2. ASSUME NEW t \in Threads, Wake(t) PROVE LockInv'
  BY <1>0, <1>2, ThreadSteps, SMTT(30) DEF Wake, Begin, LockInv, Moves
<1>3. ASSUME NEW t \in Threads, GetFidScan(t) PROVE LockInv'
  BY <1>0, <1>3 DEF GetFidScan, LockInv
<1>15. ASSUME NEW t \in Threads, GetFidChoose(t) PROVE LockInv'
  <2>1. Moves(t, "take") /\ UNCHANGED <<lock, terminate, cleared>> /\ th[t].pc = "scan"
    BY <1>0, <1>15, ThreadSteps, Zenon DEF GetFidChoose
  <2> QED BY <1>0, <2>1, SMTT(30) DEF LockInv, Moves
<1>4. ASSUME NEW t \in Threads, GetFidTake(t) PROVE LockInv'
  <2>1. Moves(t, "resume") /\ UNCHANGED <<lock, terminate, cleared>> /\ th[t].pc = "take"
    BY <1>0, <1>4, ThreadSteps, Zenon DEF GetFidTake
  <2> QED BY <1>0, <2>1, SMTT(30) DEF LockInv, Moves
<1>5. ASSUME NEW t \in Threads, ResumeTest(t) PROVE LockInv'
  BY <1>0, <1>5, ResumeSteps DEF ResumeTest, Unlocked, LockInv, Moves
<1>6. ASSUME NEW t \in Threads, ResumeAppend(t) PROVE LockInv'
  <2>1. Moves(t, "run") /\ lock' = NoThread /\ UNCHANGED <<terminate, cleared>> /\ th[t].pc = "append"
    BY <1>0, <1>6, ThreadSteps, Zenon DEF ResumeAppend
  <2> QED BY <1>0, <2>1 DEF LockInv, Moves
<1>7. ASSUME NEW t \in Threads, NEW then \in {"wait", "gone", "term"}, Pause(t, then) PROVE LockInv'
  <2>1. \/ Moves(t, then) /\ lock' = lock
        \/ (Moves(t, "free") \/ Moves(t, "shrink")) /\ lock' = t
    BY <1>0, <1>7, PauseSteps
  <2>2. UNCHANGED <<terminate, cleared>> /\ th[t].pc = "run" /\ lock = NoThread
    BY <1>7, Zenon DEF Pause, Begin, Unlocked
  <2> QED BY <1>0, <2>1, <2>2 DEF LockInv, Moves
<1>8. ASSUME NEW t \in Threads, PauseShrink(t) PROVE LockInv'
  <2>1. Moves(t, th[t].then) /\ lock' = NoThread /\ UNCHANGED <<terminate, cleared>>
    BY <1>0, <1>8, ThreadSteps, Zenon DEF PauseShrink
  <2>2. th[t].pc \in {"shrink", "free"}
    BY <1>8 DEF PauseShrink
  <2> QED BY <1>0, <1>t, <2>1, <2>2 DEF LockInv, Moves
<1>9. ASSUME NEW t \in Threads, MarkDone(t) PROVE LockInv'
  <2>1. Moves(t, "term") /\ UNCHANGED <<lock, terminate, cleared>> /\ th[t].pc = "run"
    BY <1>0, <1>9, ThreadSteps, Zenon DEF MarkDone, Begin
  <2> QED BY <1>0, <2>1 DEF LockInv, Moves
<1>10. ASSUME NEW t \in Threads, TerminateFlag(t) PROVE LockInv'
  BY <1>0, <1>10, ThreadSteps DEF TerminateFlag, LockInv, Moves
<1>11. ASSUME NEW t \in Threads, TerminateMaps(t) PROVE LockInv'
  BY <1>0, <1>11, ThreadSteps DEF TerminateMaps, LockInv, Moves
<1>12. ASSUME NEW t \in Threads, TerminateList(t) PROVE LockInv'
  BY <1>0, <1>t, <1>12, ThreadSteps DEF TerminateList, LockInv, Moves
<1>13. ASSUME Boot PROVE LockInv'
  BY <1>0, <1>13 DEF Boot, BootRead, BootExecute, BootRound, LockInv
<1>14. CASE UNCHANGED vars
  BY <1>0, <1>14 DEF vars, LockInv
<1> QED
  BY <1>1, <1>2, <1>3, <1>4, <1>5, <1>6, <1>7, <1>8, <1>9, <1>10, <1>11, <1>12, <1>13, <1>14, <1>15
  DEF Next, Thread, Terminate, FutexWait, FinishThread, Finish

-----------------------------------------------------------------------------
(* The running list.                                                       *)

(* A step that neither enters nor leaves the code under the mutex. *)
LEMMA ListQuiet ==
  ASSUME IInv, NEW t \in Threads, NEW pc, Moves(t, pc), UNCHANGED <<list, active, simu, terminate, cleared>>,
         pc \notin {"append", "shrink", "free"}, th[t].pc \notin {"append", "shrink", "free"}
  PROVE  ListInv'
<1>1. ListInv
  BY DEF IInv
<1>2. ActiveFlows' = ActiveFlows
  BY DEF ActiveFlows
<1>3. \A u \in Threads : /\ th'[u].pc \in {"append", "shrink", "free"} => th'[u] = th[u]
                         /\ th[u].pc = "shrink" => th'[u].pc = "shrink"
  BY DEF Moves
<1> QED BY <1>1, <1>2, <1>3 DEF ListInv

LEMMA ListResume ==
  ASSUME IInv, NEW t \in Threads, ResumeTest(t)
  PROVE  ListInv'
<1>0. /\ Types /\ LockInv /\ ListInv /\ lock = NoThread /\ th[t].pc = "resume"
      /\ UNCHANGED <<list, active, simu, terminate, cleared>>
  BY DEF IInv, ResumeTest, Unlocked
<1>1. CASE Refused(th[t].fid) /\ Moves(t, "run")
  BY <1>0, <1>1, ListQuiet, SMTT(30)
<1>2. CASE ~Refused(th[t].fid) /\ Moves(t, "append") /\ th'[t].fid = th[t].fid /\ lock' = t
  <2>1. ~terminate /\ ~active[th[t].fid] /\ ~cleared
    BY <1>0, <1>2 DEF Refused, LockInv
  <2>2. \A u \in Threads : th[u].pc \notin {"append", "shrink", "free"}
    BY <1>0, FlowsAssumption DEF LockInv
  <2>3. Lists(list.run, list.size, ActiveFlows)
    BY <1>0, <2>1, <2>2 DEF ListInv
  <2>4. list.run \in [Flows -> Flows] /\ list.size \in 0..NFlows /\ th[t].fid \in Flows \ ActiveFlows
    BY <1>0, <2>1 DEF Types, ThreadStates, ActiveFlows
  <2>5. list.size < NFlows
    BY <2>3, <2>4, Room, SMTT(30)
  <2>6. ActiveFlows' = ActiveFlows
    BY <1>0 DEF ActiveFlows
  <2>7. \A u \in Threads : th'[u].pc \notin {"shrink", "free"} /\ (th'[u].pc = "append" => u = t)
    BY <1>2, <2>2 DEF Moves
  <2> QED BY <1>0, <1>2, <2>1, <2>3, <2>5, <2>6, <2>7, SMTT(30) DEF ListInv
<1> QED BY <1>0, <1>1, <1>2, ResumeSteps

LEMMA ListAppend ==
  ASSUME IInv, NEW t \in Threads, ResumeAppend(t)
  PROVE  ListInv'
<1> DEFINE f == th[t].fid
<1>0. Types /\ LockInv /\ ListInv /\ th[t].pc = "append" /\ Moves(t, "run")
  BY ThreadSteps, Zenon DEF IInv, ResumeAppend
<1>1. /\ active' = [active EXCEPT ![f] = TRUE] /\ simu' = [simu EXCEPT ![f] = TRUE]
      /\ list' = [run |-> [list.run EXCEPT ![list.size] = f], size |-> list.size + 1]
      /\ UNCHANGED <<terminate, cleared>>
  BY DEF ResumeAppend, Appended
<1>2. /\ active \in [Flows -> BOOLEAN] /\ simu \in [Flows -> BOOLEAN] /\ f \in Flows
      /\ list.run \in [Flows -> Flows] /\ list.size \in 0..NFlows
  BY <1>0 DEF Types, ThreadStates
<1>3. list.size < NFlows /\ ~cleared
  BY <1>0 DEF ListInv
<1>4. \A u \in Threads : th'[u].pc \notin {"append", "shrink", "free"}
  <2>1. lock = t
    BY <1>0 DEF LockInv
  <2> QED BY <1>0, <2>1 DEF LockInv, Moves
<1>5. ASSUME ~terminate
      PROVE  /\ \A g \in Flows : active'[g] => simu'[g]
             /\ Lists(list'.run, list'.size, ActiveFlows')
  <2>1. \A u \in Threads : th[u].pc # "shrink"
    BY <1>0 DEF LockInv
  <2>2. Lists(list.run, list.size, ActiveFlows) /\ ~active[f] /\ \A g \in Flows : active[g] => simu[g]
    BY <1>0, <1>5, <2>1, Zenon DEF ListInv
  <2>3. f \in Flows \ ActiveFlows /\ list.size \in 0..NFlows - 1
    BY <1>2, <1>3, <2>2, FlowsAssumption DEF ActiveFlows
  <2>4. ActiveFlows' = ActiveFlows \cup {f}
    BY <1>1, <1>2 DEF ActiveFlows
  <2>5. Lists([list.run EXCEPT ![list.size] = f], list.size + 1, ActiveFlows \cup {f})
    BY <1>2, <2>2, <2>3, AppendedLists
  <2>6. \A g \in Flows : active'[g] => simu'[g]
    BY <1>1, <1>2, <2>2
  <2> QED BY <1>1, <2>4, <2>5, <2>6
<1> QED BY <1>1, <1>3, <1>4, <1>5, SMTT(30) DEF ListInv

LEMMA ListPause ==
  ASSUME IInv, NEW t \in Threads, NEW then \in {"wait", "gone", "term"}, Pause(t, then)
  PROVE  ListInv'
<1> DEFINE f == th[t].fid
<1>0. /\ Types /\ LockInv /\ ListInv /\ th[t].pc = "run" /\ lock = NoThread
      /\ UNCHANGED <<active, simu, terminate, cleared>>
  BY Zenon DEF IInv, Pause, Begin, Unlocked
<1>1. \A u \in Threads : th[u].pc \notin {"append", "shrink", "free"}
  BY <1>0, FlowsAssumption DEF LockInv
<1>2. CASE Moves(t, then) /\ list' = list
  BY <1>0, <1>2, ListQuiet
<1>3. CASE /\ active[f] /\ th'[t].fid = f
           /\ Moves(t, IF Positions(list, f) = {} THEN "free" ELSE "shrink")
           /\ list' = [list EXCEPT !.run = Shifted(list, f)]
  <2>1. list \in [run : [Flows -> Flows], size : 0..NFlows] /\ f \in Flows
    BY <1>0 DEF Types, ThreadStates
  <2>2. list'.run = Shifted(list, f) /\ list'.size = list.size
    BY <1>3, <2>1
  <2>3. \A u \in Threads : th'[u].pc \in {"append", "shrink", "free"} => u = t /\ th'[u].pc # "append"
    BY <1>1, <1>3 DEF Moves
  <2>4. th'[t].pc = "shrink" => list.size > 0
    <3>1. Positions(list, f) # {} => list.size > 0
      BY <2>1 DEF Positions
    <3> QED BY <1>3, <3>1 DEF Moves
  <2>5. ActiveFlows' = ActiveFlows
    BY <1>0 DEF ActiveFlows
  <2>6. ASSUME ~terminate
        PROVE  /\ th'[t].pc = "shrink"
               /\ Lists(list'.run, list'.size - 1, ActiveFlows' \ {f})
    <3>1. Lists(list.run, list.size, ActiveFlows)
      BY <1>0, <1>1, <2>6 DEF ListInv
    <3>2. f \in ActiveFlows
      BY <1>3, <2>1 DEF ActiveFlows
    <3>3. Positions(list, f) # {} /\ Lists(Shifted(list, f), list.size - 1, ActiveFlows \ {f})
      BY <2>1, <3>1, <3>2, ShiftedLists
    <3>4. th'[t].pc = "shrink"
      BY <1>3, <3>3 DEF Moves
    <3> QED BY <2>2, <2>5, <3>3, <3>4
  <2> QED BY <1>0, <1>3, <2>2, <2>3, <2>4, <2>6, Zenon DEF ListInv
<1>4. \/ Moves(t, then) /\ list' = list
      \/ /\ active[f] /\ th'[t].fid = f
         /\ Moves(t, IF Positions(list, f) = {} THEN "free" ELSE "shrink")
         /\ list' = [list EXCEPT !.run = Shifted(list, f)]
  BY <1>0, PauseSteps, Zenon
<1> QED BY <1>2, <1>3, <1>4

LEMMA ListShrink ==
  ASSUME IInv, NEW t \in Threads, PauseShrink(t)
  PROVE  ListInv'
<1> DEFINE f == th[t].fid
<1>0. Types /\ LockInv /\ ListInv /\ Moves(t, th[t].then) /\ th[t].pc \in {"shrink", "free"}
  BY ThreadSteps, Zenon DEF IInv, PauseShrink
<1>1. /\ active' = [active EXCEPT ![f] = FALSE] /\ simu' = [simu EXCEPT ![f] = FALSE]
      /\ list' = IF th[t].pc = "shrink" THEN [list EXCEPT !.size = @ - 1] ELSE list
      /\ UNCHANGED <<terminate, cleared>>
  BY DEF PauseShrink, Shrunk
<1>2. /\ active \in [Flows -> BOOLEAN] /\ simu \in [Flows -> BOOLEAN] /\ f \in Flows
      /\ list \in [run : [Flows -> Flows], size : 0..NFlows]
      /\ th[t].then \in {"run", "wait", "gone", "term"}
  BY <1>0 DEF Types, ThreadStates
<1>3. \A u \in Threads : th'[u].pc \notin {"append", "shrink", "free"}
  <2>1. lock = t
    BY <1>0 DEF LockInv
  <2> QED BY <1>0, <1>2, <2>1 DEF LockInv, Moves
<1>4. cleared' => list'.size = 0
  <2>1. th[t].pc = "shrink" => ~cleared
    BY <1>0 DEF ListInv
  <2> QED BY <1>0, <1>1, <2>1 DEF ListInv
<1>5. ASSUME ~terminate
      PROVE  /\ \A g \in Flows : active'[g] => simu'[g]
             /\ Lists(list'.run, list'.size, ActiveFlows')
  <2>1. /\ th[t].pc = "shrink" /\ Lists(list.run, list.size - 1, ActiveFlows \ {f})
        /\ \A g \in Flows : active[g] => simu[g]
    BY <1>0, <1>5 DEF ListInv
  <2>2. ActiveFlows' = ActiveFlows \ {f}
    BY <1>1, <1>2 DEF ActiveFlows
  <2>3. list'.run = list.run /\ list'.size = list.size - 1
    BY <1>1, <1>2, <2>1
  <2>4. \A g \in Flows : active'[g] => simu'[g]
    BY <1>1, <1>2, <2>1
  <2> QED BY <2>1, <2>2, <2>3, <2>4, SMTT(30)
<1> QED BY <1>1, <1>3, <1>4, <1>5, SMTT(30) DEF ListInv

LEMMA ListNext == IInv /\ [Next]_vars => ListInv'
<1> SUFFICES ASSUME IInv, [Next]_vars PROVE ListInv'
  OBVIOUS
<1>0. Types /\ LockInv /\ ListInv
  BY DEF IInv
<1>1. ASSUME NEW t \in Threads, NEW u \in Threads, Clone(t, u) PROVE ListInv'
  <2>1. th[u].pc = "unborn" /\ Moves(u, "scan") /\ UNCHANGED <<list, active, simu, terminate, cleared>>
    BY <1>0, <1>1, ThreadSteps, Zenon DEF Clone
  <2> QED BY <2>1, ListQuiet
<1>2. ASSUME NEW t \in Threads, Wake(t) PROVE ListInv'
  <2>1. th[t].pc = "wait" /\ Moves(t, "scan") /\ UNCHANGED <<list, active, simu, terminate, cleared>>
    BY <1>0, <1>2, ThreadSteps, Zenon DEF Wake, Begin
  <2> QED BY <2>1, ListQuiet
<1>3. ASSUME NEW t \in Threads, GetFidChoose(t) PROVE ListInv'
  <2>1. th[t].pc = "scan" /\ Moves(t, "take") /\ UNCHANGED <<list, active, simu, terminate, cleared>>
    BY <1>0, <1>3, ThreadSteps, Zenon DEF GetFidChoose
  <2> QED BY <2>1, ListQuiet
<1>4. ASSUME NEW t \in Threads, GetFidTake(t) PROVE ListInv'
  <2>1. th[t].pc = "take" /\ Moves(t, "resume") /\ UNCHANGED <<list, active, simu, terminate, cleared>>
    BY <1>0, <1>4, ThreadSteps, Zenon DEF GetFidTake
  <2> QED BY <2>1, ListQuiet
<1>5. ASSUME NEW t \in Threads, MarkDone(t) PROVE ListInv'
  <2>1. th[t].pc = "run" /\ Moves(t, "term") /\ UNCHANGED <<list, active, simu, terminate, cleared>>
    BY <1>0, <1>5, ThreadSteps, Zenon DEF MarkDone, Begin
  <2> QED BY <2>1, ListQuiet
<1>6. ASSUME NEW t \in Threads, TerminateFlag(t) PROVE ListInv'
  <2>1. Moves(t, "term_maps") /\ UNCHANGED <<list, cleared>> /\ terminate' = TRUE
    BY <1>0, <1>6, ThreadSteps, Zenon DEF TerminateFlag
  <2> QED BY <1>0, <2>1 DEF ListInv, Moves
<1>7. ASSUME NEW t \in Threads, TerminateMaps(t) PROVE ListInv'
  <2>1. Moves(t, "term_list") /\ UNCHANGED <<list, cleared, terminate>> /\ th[t].pc = "term_maps"
    BY <1>0, <1>7, ThreadSteps, Zenon DEF TerminateMaps
  <2>2. terminate
    BY <1>0, <2>1 DEF LockInv
  <2> QED BY <1>0, <2>1, <2>2 DEF ListInv, Moves
<1>8. ASSUME NEW t \in Threads, TerminateList(t) PROVE ListInv'
  <2>1. /\ Moves(t, th[t].then) /\ UNCHANGED terminate /\ th[t].pc = "term_list" /\ lock = NoThread
        /\ list' = [list EXCEPT !.size = 0]
    BY <1>0, <1>8, ThreadSteps, Zenon DEF TerminateList, Unlocked
  <2>2. terminate
    BY <1>0, <2>1 DEF LockInv
  <2>3. \A u \in Threads : th[u].pc \notin {"append", "shrink", "free"}
    BY <1>0, <2>1, FlowsAssumption DEF LockInv
  <2>4. list'.size = 0 /\ th[t].then \in {"run", "wait", "gone", "term"}
    BY <1>0, <2>1, SMTT(30) DEF Types, ThreadStates
  <2> QED BY <2>1, <2>2, <2>3, <2>4 DEF ListInv, Moves
<1>9. CASE Boot \/ (\E t \in Threads : GetFidScan(t)) \/ UNCHANGED vars
  <2>1. UNCHANGED <<list, active, simu, terminate, cleared, th>>
    BY <1>9 DEF Boot, BootRead, BootExecute, BootRound, GetFidScan, vars
  <2>2. ActiveFlows' = ActiveFlows
    BY <2>1 DEF ActiveFlows
  <2> QED BY <1>0, <2>1, <2>2 DEF ListInv
<1> QED
  BY <1>1, <1>2, <1>3, <1>4, <1>5, <1>6, <1>7, <1>8, <1>9,
     ListResume, ListAppend, ListPause, ListShrink
  DEF Next, Thread, Terminate, FutexWait, FinishThread, Finish

-----------------------------------------------------------------------------
(* The flow-id pool.                                                       *)

(* A thread that keeps no flow leaves one that was never used: the others  *)
(* are too few to keep them all.                                           *)
LEMMA NotAllUsed ==
  ASSUME IInv, ~terminate, NEW t \in Threads, \A f \in Flows : ~Keeps(t, f)
  PROVE  \E f \in Flows : ~Used(f)
<1> DEFINE T == Threads \ {t}
           kept(u) == IF th[u].pc = "scan" THEN th[u].last ELSE th[u].fid
           g == [f \in Flows |-> CHOOSE u \in T : kept(u) = f]
<1> SUFFICES ASSUME \A f \in Flows : Used(f) PROVE FALSE
  OBVIOUS
<1>1. ASSUME NEW f \in Flows PROVE \E u \in T : kept(u) = f
  <2>1. PICK u \in Threads : Keeps(u, f)
    BY DEF IInv, ScanInv
  <2>2. u \in T
    BY <2>1
  <2> QED BY <2>1, <2>2 DEF Keeps
<1> HIDE DEF kept
<1>2. \A f \in Flows : g[f] \in T /\ kept(g[f]) = f
  BY <1>1
<1> HIDE DEF g
<1>3. g \in [Flows -> T]
  BY <1>2 DEF g
<1>4. g \in Injection(Flows, T)
  BY <1>2, <1>3 DEF Injection, IsInjective
<1>5. IsFiniteSet(T) /\ Cardinality(T) = Cardinality(Threads) - 1 /\ Cardinality(Threads) \in Nat
  BY FlowsAssumption, FS_RemoveElement, FS_CardinalityType
<1>6. Cardinality(Flows) <= Cardinality(T)
  BY <1>4, <1>5, FS_Injection, SMTT(30)
<1> QED BY <1>5, <1>6, FlowCount, FlowsAssumption

(* getFid's search ends with a flow while the program runs. *)
LEMMA SearchSucceeds ==
  ASSUME IInv, ~terminate, NEW t \in Threads, GetFidChoose(t)
  PROVE  ~exited'
<1> SUFFICES ASSUME exited' PROVE FALSE
  OBVIOUS
<1>0. Types /\ ScanInv /\ th[t].pc = "scan" /\ FidNull \notin Flows
  BY FlowsAssumption DEF IInv, GetFidChoose, Flows
<1>1. ~Again(t)
  BY <1>0, ScanTurn, Zenon DEF GetFidChoose, Again
<1>2. scan[t].k = LastTurn /\ scan[t].found = FidNull /\ ~Hit(t)
  BY <1>0, <1>1, ScanTurn, Zenon DEF GetFidChoose
<1>3. Used(NFlows - 1)
  BY <1>2, FlowsAssumption DEF Hit, FlowOf, Sought, LastTurn, Used
<1>4. ASSUME NEW f \in Flows PROVE Used(f)
  <2>1. f = NFlows - 1 \/ NFlows + f < scan[t].k
    BY <1>2, FlowsAssumption DEF Flows, LastTurn
  <2>2. NFlows + f < scan[t].k => Used(f)
    BY <1>0, <1>2, Zenon DEF ScanInv, Knows
  <2> QED BY <1>3, <2>1, <2>2, Zenon
<1>5. ASSUME NEW f \in Flows PROVE ~Keeps(t, f)
  <2>1. ~(scan[t].k <= f)
    BY <1>2, FlowsAssumption DEF Flows, LastTurn
  <2> QED BY <1>0, <2>1, Zenon DEF Keeps
<1> QED BY <1>4, <1>5, NotAllUsed, Zenon

(* A step that neither makes nor breaks an ownership of an active or taken *)
(* flow.                                                                   *)
LEMMA OwnerQuiet ==
  ASSUME IInv, NEW t \in Threads, NEW pc, Moves(t, pc), UNCHANGED <<active, pool, terminate>>,
         exited' => terminate,
         \A f \in Flows : Claims(t, f) => Claims(t, f)' \/ active[f],
         \A f \in Flows : Holds(t, f) => Holds(t, f)' \/ ~active[f]
  PROVE  OwnerInv'
<1>1. ASSUME NEW f \in Flows, NEW u \in Threads, u # t
      PROVE  (Claims(u, f) => Claims(u, f)') /\ (Holds(u, f) => Holds(u, f)')
  <2>1. th'[u] = th[u]
    BY <1>1 DEF Moves
  <2> QED BY <2>1 DEF Claims, Holds
<1>2. \A f \in Flows : /\ (\E u \in Threads : Claims(u, f)) => active[f] \/ \E u \in Threads : Claims(u, f)'
                       /\ (\E u \in Threads : Holds(u, f)) => ~active[f] \/ \E u \in Threads : Holds(u, f)'
  BY <1>1
<1>3. OwnerInv
  BY DEF IInv
<1> QED BY <1>2, <1>3 DEF OwnerInv

LEMMA OwnerNext == IInv /\ [Next]_vars => OwnerInv'
<1> SUFFICES ASSUME IInv, [Next]_vars PROVE OwnerInv'
  OBVIOUS
<1>0. Types /\ LockInv /\ ListInv /\ OwnerInv /\ (exited => terminate)
  BY DEF IInv, OwnerInv
<1>a. active \in [Flows -> BOOLEAN] /\ \A t \in Threads : th[t].fid \in Flows
  BY <1>0 DEF Types, ThreadStates
<1>1. ASSUME NEW t \in Threads, NEW u \in Threads, Clone(t, u) PROVE OwnerInv'
  <2>1. th[u].pc = "unborn" /\ Moves(u, "scan") /\ UNCHANGED <<active, pool, terminate, exited>>
    BY <1>0, <1>1, ThreadSteps, Zenon DEF Clone
  <2> QED BY <1>0, <2>1, OwnerQuiet DEF Claims, Holds
<1>2. ASSUME NEW t \in Threads, Wake(t) PROVE OwnerInv'
  <2>1. th[t].pc = "wait" /\ Moves(t, "scan") /\ UNCHANGED <<active, pool, terminate, exited>>
    BY <1>0, <1>2, ThreadSteps, Zenon DEF Wake, Begin
  <2> QED BY <1>0, <2>1, OwnerQuiet DEF Claims, Holds
<1>3. ASSUME NEW t \in Threads, GetFidChoose(t) PROVE OwnerInv'
  <2>1. th[t].pc = "scan" /\ Moves(t, "take") /\ UNCHANGED <<active, pool, terminate>>
    BY <1>0, <1>3, ThreadSteps, Zenon DEF GetFidChoose
  <2>2. exited' => terminate
    BY <1>3, SearchSucceeds
  <2> QED BY <1>0, <2>1, <2>2, OwnerQuiet DEF Claims, Holds
<1>4. ASSUME NEW t \in Threads, GetFidTake(t) PROVE OwnerInv'
  <2>1. th[t].pc = "take" /\ Moves(t, "resume") /\ UNCHANGED <<active, terminate, exited>>
    BY <1>0, <1>4, ThreadSteps, Zenon DEF GetFidTake
  <2>2. th'[t].fid = th[t].fid /\ pool' = [pool EXCEPT ![th[t].fid] = "TAKEN"]
    BY <1>0, <1>4, ThreadSteps, Zenon DEF GetFidTake
  <2>3. \A f \in Flows, u \in Threads : /\ Claims(u, f) => Claims(u, f)'
                                        /\ Holds(u, f) => Holds(u, f)'
    BY <2>1 DEF Moves, Claims, Holds
  <2>4. \A f \in Flows : f = th[t].fid => Claims(t, f)'
    BY <2>1, <2>2 DEF Moves, Claims
  <2>5. \A f \in Flows : f # th[t].fid => pool'[f] = pool[f]
    BY <1>0, <2>2, SMTT(30) DEF Types
  <2> SUFFICES ASSUME ~terminate, NEW f \in Flows
               PROVE  /\ active'[f] => \E u \in Threads : Holds(u, f)'
                      /\ pool'[f] = "TAKEN" => active'[f] \/ \E u \in Threads : Claims(u, f)'
    BY <1>0, <2>1, SMTT(30) DEF OwnerInv
  <2>6. active'[f] => \E u \in Threads : Holds(u, f)'
    BY <1>0, <2>1, <2>3, SMTT(30) DEF OwnerInv
  <2>7. pool'[f] = "TAKEN" => active'[f] \/ \E u \in Threads : Claims(u, f)'
    BY <1>0, <2>1, <2>3, <2>4, <2>5 DEF OwnerInv
  <2> QED BY <2>6, <2>7
<1>5. ASSUME NEW t \in Threads, ResumeTest(t) PROVE OwnerInv'
  <2>1. th[t].pc = "resume" /\ UNCHANGED <<active, pool, terminate, exited>>
    BY <1>5, Zenon DEF ResumeTest
  <2>2. CASE terminate
    BY <1>0, <2>1, <2>2 DEF OwnerInv
  <2>3. CASE ~terminate /\ active[th[t].fid] /\ Moves(t, "run")
    BY <1>0, <2>1, <2>3, OwnerQuiet, SMTT(30) DEF Claims, Holds
  <2>4. CASE Moves(t, "append") /\ th'[t].fid = th[t].fid
    <3>1. \A f \in Flows : (Claims(t, f) => Claims(t, f)') /\ ~Holds(t, f)
      BY <2>1, <2>4 DEF Moves, Claims, Holds
    <3> QED BY <1>0, <2>1, <2>4, <3>1, OwnerQuiet
  <2> QED BY <1>0, <1>5, <2>2, <2>3, <2>4, ResumeSteps DEF Refused
<1>6. ASSUME NEW t \in Threads, ResumeAppend(t) PROVE OwnerInv'
  <2>1. th[t].pc = "append" /\ Moves(t, "run") /\ th'[t].fid = th[t].fid
    BY <1>0, <1>6, ThreadSteps, Zenon DEF ResumeAppend
  <2>2. active' = [active EXCEPT ![th[t].fid] = TRUE] /\ UNCHANGED <<pool, terminate, exited>>
    BY <1>6, Zenon DEF ResumeAppend
  <2>3. \A f \in Flows, u \in Threads :
          /\ Claims(u, f) => Claims(u, f)' \/ f = th[t].fid
          /\ Holds(u, f) => Holds(u, f)'
    BY <2>1 DEF Moves, Claims, Holds
  <2>4. \A f \in Flows : f = th[t].fid => Holds(t, f)' /\ active'[f]
    BY <1>a, <2>1, <2>2 DEF Moves, Holds
  <2>5. \A f \in Flows : f # th[t].fid => active'[f] = active[f]
    BY <1>a, <2>2
  <2> SUFFICES ASSUME ~terminate, NEW f \in Flows
               PROVE  /\ active'[f] => \E u \in Threads : Holds(u, f)'
                      /\ pool'[f] = "TAKEN" => active'[f] \/ \E u \in Threads : Claims(u, f)'
    BY <1>0, <2>2 DEF OwnerInv
  <2>6. CASE f = th[t].fid
    BY <2>4, <2>6, SMTT(30)
  <2>7. CASE f # th[t].fid
    BY <1>0, <2>2, <2>3, <2>5, <2>7 DEF OwnerInv
  <2> QED BY <2>6, <2>7
<1>7. ASSUME NEW t \in Threads, NEW then \in {"wait", "gone", "term"}, Pause(t, then) PROVE OwnerInv'
  <2>1. th[t].pc = "run" /\ UNCHANGED <<active, pool, terminate, exited>>
    BY <1>7, Zenon DEF Pause, Begin
  <2>2. CASE ~active[th[t].fid] /\ Moves(t, then)
    <3>1. \A f \in Flows : ~Claims(t, f) /\ (Holds(t, f) => ~active[f])
      BY <2>1, <2>2, SMTT(30) DEF Claims, Holds
    <3> QED BY <1>0, <2>1, <2>2, <3>1, OwnerQuiet
  <2>3. CASE (Moves(t, "free") \/ Moves(t, "shrink")) /\ th'[t].fid = th[t].fid
    <3>1. \A f \in Flows : ~Claims(t, f) /\ (Holds(t, f) => Holds(t, f)')
      BY <2>1, <2>3, SMTT(30) DEF Claims, Holds, Moves
    <3> QED BY <1>0, <2>1, <2>3, <3>1, OwnerQuiet
  <2> QED BY <1>0, <1>7, <2>2, <2>3, PauseSteps
<1>8. ASSUME NEW t \in Threads, PauseShrink(t) PROVE OwnerInv'
  <2>1. th[t].pc \in {"shrink", "free"} /\ Moves(t, th[t].then)
    BY <1>0, <1>8, ThreadSteps, Zenon DEF PauseShrink
  <2>2. /\ active' = [active EXCEPT ![th[t].fid] = FALSE] /\ UNCHANGED <<terminate, exited>>
        /\ pool' = IF active[th[t].fid] THEN [pool EXCEPT ![th[t].fid] = "FREED"] ELSE pool
    BY <1>8 DEF PauseShrink, Freed
  <2>3. \A f \in Flows, u \in Threads :
          /\ Claims(u, f) => Claims(u, f)'
          /\ Holds(u, f) => Holds(u, f)' \/ f = th[t].fid
    BY <2>1 DEF Moves, Claims, Holds
  <2>4. \A f \in Flows : IF f = th[t].fid THEN ~active'[f]
                         ELSE active'[f] = active[f] /\ pool'[f] = pool[f]
    BY <1>0, <1>a, <2>2 DEF Types
  <2>5. \A f \in Flows : f = th[t].fid /\ active[f] => pool'[f] = "FREED"
    BY <1>0, <1>a, <2>2 DEF Types
  <2>6. ~active[th[t].fid] => pool' = pool
    BY <2>2
  <2> SUFFICES ASSUME ~terminate, NEW f \in Flows
               PROVE  /\ active'[f] => \E u \in Threads : Holds(u, f)'
                      /\ pool'[f] = "TAKEN" => active'[f] \/ \E u \in Threads : Claims(u, f)'
    BY <1>0, <2>2, SMTT(30) DEF OwnerInv
  <2>7. CASE f = th[t].fid /\ active[f]
    BY <2>4, <2>5, <2>7, SMTT(30)
  <2>8. CASE f = th[t].fid /\ ~active[f]
    BY <1>0, <2>3, <2>4, <2>6, <2>8, SMTT(30) DEF OwnerInv
  <2>9. CASE f # th[t].fid
    BY <1>0, <2>3, <2>4, <2>9, SMTT(30) DEF OwnerInv
  <2> QED BY <2>7, <2>8, <2>9
<1>9. ASSUME NEW t \in Threads, MarkDone(t) PROVE OwnerInv'
  <2>1. /\ th[t].pc = "run" /\ Moves(t, "term") /\ th'[t].fid = th[t].fid
        /\ UNCHANGED <<active, pool, terminate, exited>>
    BY <1>0, <1>9, ThreadSteps, Zenon DEF MarkDone, Begin
  <2>2. \A f \in Flows : ~Claims(t, f) /\ (Holds(t, f) => Holds(t, f)')
    BY <2>1 DEF Claims, Holds, Moves
  <2> QED BY <1>0, <2>1, <2>2, OwnerQuiet
<1>10. ASSUME NEW t \in Threads, Terminate(t) PROVE OwnerInv'
  <2>1. terminate'
    BY <1>0, <1>10 DEF Terminate, TerminateFlag, TerminateMaps, TerminateList, LockInv
  <2> QED BY <2>1 DEF OwnerInv
<1>11. CASE Boot \/ (\E t \in Threads : GetFidScan(t)) \/ UNCHANGED vars
  <2>1. UNCHANGED <<active, pool, terminate, exited, th>>
    BY <1>11 DEF Boot, BootRead, BootExecute, BootRound, GetFidScan, vars
  <2> QED BY <1>0, <2>1 DEF OwnerInv, Claims, Holds
<1> QED
  BY <1>1, <1>2, <1>3, <1>4, <1>5, <1>6, <1>7, <1>8, <1>9, <1>10, <1>11, SMTT(30)
  DEF Next, Thread, FutexWait, FinishThread, Finish

-----------------------------------------------------------------------------
(* The searches for a flow.                                                *)

(* A step of thread t that leaves no used flow unkept. *)
LEMMA ScanMove ==
  ASSUME IInv, NEW t \in Threads, \A u \in Threads \ {t} : th'[u] = th[u] /\ scan'[u] = scan[u],
         terminate => terminate', Knows(t)',
         \A f \in Flows : Used(f) => Used(f)',
         \A f \in Flows : Used(f)' => Used(f) \/ Keeps(t, f)',
         ~terminate => \A f \in Flows : Keeps(t, f) => Keeps(t, f)' \/ \E u \in Threads \ {t} : Keeps(u, f)
  PROVE  ScanInv'
<1>0. Types /\ ScanInv /\ 0 \in Flows
  BY FlowsAssumption DEF IInv, Flows
<1>1. \A u \in Threads \ {t}, f \in Flows : Keeps(u, f)' <=> Keeps(u, f)
  BY Zenon DEF Keeps
<1>2. ASSUME NEW u \in Threads \ {t} PROVE Knows(u)'
  <2>1. Knows(u) /\ th[u].fid \in Flows /\ (th[u].last # FidNull => th[u].last \in Flows)
    BY <1>0 DEF ScanInv, Types, ThreadStates
  <2>2. th'[u] = th[u] /\ scan'[u] = scan[u]
    OBVIOUS
  <2>3. \A f \in Flows : Used(f) => pool'[f] # "FREE"
    BY Zenon DEF Used
  <2>4. /\ th[u].pc \notin {"scan", "take"} => pool'[th[u].fid] # "FREE"
        /\ th[u].pc = "scan" /\ th[u].last # FidNull => pool'[th[u].last] # "FREE"
        /\ th[u].pc = "scan" /\ scan[u].found = FidNull =>
             \A f \in Flows : NFlows + f < scan[u].k => pool'[f] # "FREE"
    BY <2>1, <2>3, Zenon DEF Knows
  <2> QED BY <2>1, <2>2, <2>4, Zenon DEF Knows, Used
<1>3. ASSUME ~terminate', NEW f \in Flows, Used(f)'
      PROVE  \E u \in Threads : Keeps(u, f)'
  <2>1. CASE Keeps(t, f)'
    BY <2>1, Zenon
  <2>2. CASE ~Keeps(t, f)'
    <3>1. ~terminate /\ Used(f)
      BY <1>3, <2>2, Zenon
    <3>2. PICK u \in Threads : Keeps(u, f)
      BY <1>0, <3>1, Zenon DEF ScanInv
    <3>3. Keeps(t, f) => \E v \in Threads \ {t} : Keeps(v, f)
      BY <2>2, <3>1, Zenon
    <3> QED BY <1>1, <3>2, <3>3, Zenon
  <2> QED BY <2>1, <2>2, Zenon
<1>4. Used(0)'
  BY <1>0, Zenon DEF ScanInv
<1>5. \A u \in Threads : Knows(u)'
  BY <1>2, Zenon
<1> QED BY <1>3, <1>4, <1>5, Zenon DEF ScanInv

(* A thread that goes on with the flow it has. *)
LEMMA ScanSame ==
  ASSUME IInv, NEW t \in Threads, NEW pc, Moves(t, pc), scan' = scan, terminate => terminate',
         \A f \in Flows : Used(f)' <=> Used(f), th'[t].fid = th[t].fid,
         th[t].pc \notin {"scan", "take", "unborn"}, pc \notin {"scan", "take", "unborn"}
  PROVE  ScanInv'
<1>1. th[t].fid \in Flows
  BY DEF IInv, Types, ThreadStates
<1>2. Used(th[t].fid) /\ scan[t] = Fresh
  BY Zenon DEF IInv, ScanInv, Knows
<1>3. th'[t].pc = pc
  BY DEF Moves
<1>4. \A f \in Flows : Keeps(t, f) => Keeps(t, f)'
  BY <1>3, Zenon DEF Keeps
<1>5. pool'[th[t].fid] # "FREE"
  BY <1>1, <1>2, Zenon DEF Used
<1>6. Knows(t)'
  BY <1>2, <1>3, <1>5, Zenon DEF Knows, Used
<1>7. \A u \in Threads \ {t} : th'[u] = th[u] /\ scan'[u] = scan[u]
  BY DEF Moves
<1> QED BY <1>4, <1>6, <1>7, ScanMove, Zenon

LEMMA ScanNext == IInv /\ [Next]_vars => ScanInv'
<1> SUFFICES ASSUME IInv, [Next]_vars PROVE ScanInv'
  OBVIOUS
<1>0. Types /\ LockInv /\ OwnerInv /\ ScanInv /\ 0 \in Flows /\ FidNull \notin Flows
  BY FlowsAssumption DEF IInv, Flows
<1>t. \A t \in Threads : /\ th[t].fid \in Flows /\ th[t].last \in Flows \cup {FidNull}
                         /\ th[t].then \in {"run", "wait", "gone", "term"}
  BY <1>0 DEF Types, ThreadStates
<1>k. \A t \in Threads : Knows(t)
  BY <1>0 DEF ScanInv
<1>f. Fresh.k = 0 /\ Fresh.found = FidNull /\ \A f \in Flows : 0 <= f /\ ~(NFlows + f < 0)
  BY FlowsAssumption DEF Fresh, Flows
<1>u. ASSUME pool' = pool PROVE \A f \in Flows : Used(f)' <=> Used(f)
  BY <1>u, Zenon DEF Used
<1>1. ASSUME NEW t \in Threads, NEW u \in Threads, Clone(t, u) PROVE ScanInv'
  <2>1. /\ th[u].pc = "unborn" /\ Moves(u, "scan") /\ th'[u].last = FidNull
        /\ UNCHANGED <<pool, scan, terminate>>
    BY <1>0, <1>1, ThreadSteps, Zenon DEF Clone
  <2>2. scan'[u] = Fresh /\ th'[u].pc = "scan" /\ \A v \in Threads \ {u} : th'[v] = th[v] /\ scan'[v] = scan[v]
    BY <1>k, <2>1, Zenon DEF Knows, Moves
  <2>3. Knows(u)'
    BY <1>f, <2>1, <2>2, Zenon DEF Knows
  <2>4. \A f \in Flows : ~Keeps(u, f)
    BY <2>1, Zenon DEF Keeps
  <2> QED BY <1>u, <2>1, <2>2, <2>3, <2>4, ScanMove, Zenon
<1>2. ASSUME NEW t \in Threads, Wake(t) PROVE ScanInv'
  <2>1. /\ th[t].pc = "wait" /\ Moves(t, "scan") /\ th'[t].last = th[t].fid
        /\ UNCHANGED <<pool, scan, terminate>>
    BY <1>0, <1>2, ThreadSteps, Zenon DEF Wake, Begin
  <2>2. scan'[t] = Fresh /\ th'[t].pc = "scan" /\ \A v \in Threads \ {t} : th'[v] = th[v] /\ scan'[v] = scan[v]
    BY <1>k, <2>1, Zenon DEF Knows, Moves
  <2>3. pool'[th[t].fid] # "FREE"
    BY <1>k, <2>1, Zenon DEF Knows, Used
  <2>4. Knows(t)'
    BY <1>f, <2>1, <2>2, <2>3, Zenon DEF Knows, Used
  <2>5. \A f \in Flows : Keeps(t, f) => Keeps(t, f)'
    BY <1>f, <2>1, <2>2, Zenon DEF Keeps
  <2> QED BY <1>u, <2>1, <2>2, <2>4, <2>5, ScanMove, Zenon
<1>3. ASSUME NEW t \in Threads, GetFidScan(t) PROVE ScanInv'
  <2> DEFINE k == scan[t].k
             f == FlowOf(k)
  <2>1. /\ th[t].pc = "scan" /\ ~Again(t) /\ k < LastTurn /\ UNCHANGED <<pool, th, terminate>>
        /\ scan' = [scan EXCEPT ![t] = [k |-> k + 1, found |-> Found(t)]]
    BY <1>3, Zenon DEF GetFidScan
  <2>2. /\ scan'[t].k = k + 1 /\ scan'[t].found = Found(t)
        /\ \A v \in Threads \ {t} : th'[v] = th[v] /\ scan'[v] = scan[v]
    BY <1>0, <2>1 DEF Types
  <2>3. k \in 0..LastTurn /\ f \in Flows /\ (Found(t) = FidNull => scan[t].found = FidNull /\ ~Hit(t))
    BY <1>0, ScanTurn
  <2>4. ASSUME Found(t) = FidNull, NEW g \in Flows, NFlows + g < k + 1 PROVE Used(g)
    <3>1. NFlows + g < k \/ (k = NFlows + g /\ f = g /\ Sought(k) = "FREE")
      BY <2>3, <2>4, FlowsAssumption DEF Flows, FlowOf, Sought, LastTurn
    <3>2. NFlows + g < k => Used(g)
      BY <1>k, <2>1, <2>3, <2>4, Zenon DEF Knows
    <3>3. f = g /\ Sought(k) = "FREE" => Used(g)
      BY <2>3, <2>4, Zenon DEF Hit, Used
    <3> QED BY <3>1, <3>2, <3>3, Zenon
  <2>5. Knows(t)'
    <3>1. th[t].last # FidNull => pool'[th[t].last] # "FREE"
      BY <1>k, <2>1, Zenon DEF Knows, Used
    <3>2. Found(t) = FidNull => \A g \in Flows : NFlows + g < k + 1 => pool'[g] # "FREE"
      BY <2>1, <2>4, Zenon DEF Used
    <3>3. th'[t] = th[t] /\ th[t].pc = "scan"
      BY <2>1
    <3> HIDE DEF k
    <3> QED BY <2>2, <3>1, <3>2, <3>3, Zenon DEF Knows, Used
  <2>6. ASSUME ~terminate, NEW g \in Flows, Keeps(t, g), ~Keeps(t, g)'
        PROVE  \E u \in Threads \ {t} : Keeps(u, g)
    <3>1. th[t].last = g /\ k <= g /\ ~(k + 1 <= g)
      BY <2>1, <2>2, <2>6, Zenon DEF Keeps
    <3>2. k = g /\ f = g /\ Sought(k) = "FREED"
      BY <2>3, <3>1, FlowsAssumption DEF Flows, FlowOf, Sought, LastTurn
    <3>3. pool[g] # "FREED" /\ pool[g] # "FREE"
      BY <1>0, <1>k, <2>1, <3>1, <3>2, Zenon DEF Again, Hit, Knows, Used
    <3>4. pool[g] = "TAKEN"
      BY <1>0, <3>3 DEF Types
    <3>5. PICK u \in Threads : Holds(u, g) \/ Claims(u, g)
      BY <1>0, <2>6, <3>4, Zenon DEF OwnerInv
    <3>6. u # t /\ Keeps(u, g)
      BY <2>1, <3>5 DEF Holds, Claims, Keeps
    <3> QED BY <3>6, Zenon
  <2> QED BY <1>u, <2>1, <2>2, <2>5, <2>6, ScanMove, Zenon
<1>4. ASSUME NEW t \in Threads, GetFidChoose(t) PROVE ScanInv'
  <2>1. /\ th[t].pc = "scan" /\ Moves(t, "take") /\ UNCHANGED <<pool, terminate>>
        /\ scan' = [scan EXCEPT ![t] = Fresh]
    BY <1>0, <1>4, ThreadSteps, Zenon DEF GetFidChoose
  <2>2. /\ scan'[t] = Fresh /\ th'[t].pc = "take"
        /\ \A v \in Threads \ {t} : th'[v] = th[v] /\ scan'[v] = scan[v]
    BY <1>0, <2>1 DEF Types, Moves
  <2>3. Knows(t)'
    BY <2>2, Zenon DEF Knows
  <2>4. ASSUME NEW f \in Flows, Keeps(t, f) PROVE Keeps(t, f)'
    <3>1. th[t].last = f /\ scan[t].k <= f
      BY <2>1, <2>4, Zenon DEF Keeps
    <3>2. Again(t)
      BY <1>4, <3>1, FlowsAssumption DEF GetFidChoose, LastTurn, Flows
    <3>3. Goto(t, "take", IF f = FidNull THEN 0 ELSE f, th[t].last)
      BY <1>4, <3>1, <3>2, Zenon DEF GetFidChoose
    <3>4. th'[t].fid = f
      BY <1>0, <3>3, Move, Zenon
    <3> QED BY <2>2, <3>4, Zenon DEF Keeps
  <2> QED BY <1>u, <2>1, <2>2, <2>3, <2>4, ScanMove, Zenon
<1>5. ASSUME NEW t \in Threads, GetFidTake(t) PROVE ScanInv'
  <2>1. /\ th[t].pc = "take" /\ Moves(t, "resume") /\ th'[t].fid = th[t].fid
        /\ UNCHANGED <<scan, terminate>> /\ pool' = [pool EXCEPT ![th[t].fid] = "TAKEN"]
    BY <1>0, <1>5, ThreadSteps, Zenon DEF GetFidTake
  <2>2. /\ scan'[t] = Fresh /\ th'[t].pc = "resume"
        /\ \A v \in Threads \ {t} : th'[v] = th[v] /\ scan'[v] = scan[v]
    BY <1>k, <2>1, Zenon DEF Knows, Moves
  <2>3. pool'[th[t].fid] # "FREE" /\ \A f \in Flows : f # th[t].fid => pool'[f] = pool[f]
    BY <1>0, <1>t, <2>1 DEF Types
  <2>4. Knows(t)'
    BY <2>1, <2>2, <2>3, Zenon DEF Knows, Used
  <2>5. \A f \in Flows : Keeps(t, f)' <=> f = th[t].fid
    BY <2>1, <2>2, Zenon DEF Keeps
  <2>6. \A f \in Flows : Keeps(t, f) => f = th[t].fid
    BY <2>1, Zenon DEF Keeps
  <2>7. \A f \in Flows : (Used(f) => Used(f)') /\ (Used(f)' => Used(f) \/ f = th[t].fid)
    BY <2>3, Zenon DEF Used
  <2> QED BY <2>1, <2>2, <2>4, <2>5, <2>6, <2>7, ScanMove, Zenon
<1>6. ASSUME NEW t \in Threads, ResumeTest(t) PROVE ScanInv'
  <2>1. th[t].pc = "resume" /\ UNCHANGED <<pool, scan, active, terminate>>
    BY <1>6, Zenon DEF ResumeTest
  <2>2. CASE Refused(th[t].fid) /\ Moves(t, "run") /\ th'[t].fid = 0
    <3>1. /\ scan'[t] = Fresh /\ th'[t].pc = "run"
          /\ \A v \in Threads \ {t} : th'[v] = th[v] /\ scan'[v] = scan[v]
      BY <1>k, <2>1, <2>2, Zenon DEF Knows, Moves
    <3>2. pool'[0] # "FREE"
      BY <1>0, <2>1, Zenon DEF ScanInv, Used
    <3>3. Knows(t)'
      BY <2>2, <3>1, <3>2, Zenon DEF Knows, Used
    <3>4. ASSUME ~terminate, NEW f \in Flows, Keeps(t, f)
          PROVE  \E u \in Threads \ {t} : Keeps(u, f)
      <4>1. f = th[t].fid /\ active[f]
        BY <2>1, <2>2, <3>4, Zenon DEF Keeps, Refused
      <4>2. PICK u \in Threads : Holds(u, f)
        BY <1>0, <3>4, <4>1, Zenon DEF OwnerInv
      <4>3. u # t /\ Keeps(u, f)
        BY <2>1, <4>2 DEF Holds, Keeps
      <4> QED BY <4>3, Zenon
    <3> QED BY <1>u, <2>1, <3>1, <3>3, <3>4, ScanMove, Zenon
  <2>3. CASE Moves(t, "append") /\ th'[t].fid = th[t].fid
    BY <1>u, <2>1, <2>3, ScanSame
  <2> QED BY <1>0, <1>6, <2>2, <2>3, ResumeSteps, Zenon
<1>7. ASSUME NEW t \in Threads, ResumeAppend(t) PROVE ScanInv'
  <2>1. /\ th[t].pc = "append" /\ Moves(t, "run") /\ th'[t].fid = th[t].fid
        /\ UNCHANGED <<pool, scan, terminate>>
    BY <1>0, <1>7, ThreadSteps, Zenon DEF ResumeAppend
  <2> QED BY <1>u, <2>1, ScanSame
<1>8. ASSUME NEW t \in Threads, NEW then \in {"wait", "gone", "term"}, Pause(t, then) PROVE ScanInv'
  <2>1. th[t].pc = "run" /\ UNCHANGED <<pool, scan, terminate>>
    BY <1>8, Zenon DEF Pause, Begin
  <2>2. /\ th'[t].fid = th[t].fid
        /\ Moves(t, then) \/ Moves(t, "free") \/ Moves(t, "shrink")
    BY <1>0, <1>8, PauseSteps
  <2> QED BY <1>u, <2>1, <2>2, ScanSame
<1>9. ASSUME NEW t \in Threads, PauseShrink(t) PROVE ScanInv'
  <2>1. /\ th[t].pc \in {"shrink", "free"} /\ Moves(t, th[t].then) /\ th'[t].fid = th[t].fid
        /\ UNCHANGED <<scan, terminate>> /\ pool' = Freed(th[t].fid)
    BY <1>0, <1>9, ThreadSteps, Zenon DEF PauseShrink
  <2>2. pool[th[t].fid] # "FREE"
    BY <1>k, <2>1 DEF Knows, Used
  <2>3. \A f \in Flows : Used(f)' <=> Used(f)
    BY <1>0, <1>t, <2>1, <2>2 DEF Types, Freed, Used
  <2> QED BY <1>t, <2>1, <2>3, ScanSame
<1>10. ASSUME NEW t \in Threads, MarkDone(t) PROVE ScanInv'
  <2>1. /\ th[t].pc = "run" /\ Moves(t, "term") /\ th'[t].fid = th[t].fid
        /\ UNCHANGED <<pool, scan, terminate>>
    BY <1>0, <1>10, ThreadSteps, Zenon DEF MarkDone, Begin
  <2> QED BY <1>u, <2>1, ScanSame
<1>11. ASSUME NEW t \in Threads, TerminateFlag(t) PROVE ScanInv'
  <2>1. /\ th[t].pc = "term" /\ Moves(t, "term_maps") /\ th'[t].fid = th[t].fid
        /\ UNCHANGED <<pool, scan>> /\ terminate'
    BY <1>0, <1>11, ThreadSteps, Zenon DEF TerminateFlag
  <2> QED BY <1>u, <2>1, ScanSame
<1>12. ASSUME NEW t \in Threads, TerminateMaps(t) PROVE ScanInv'
  <2>1. /\ th[t].pc = "term_maps" /\ Moves(t, "term_list") /\ th'[t].fid = th[t].fid
        /\ UNCHANGED <<pool, scan, terminate>>
    BY <1>0, <1>12, ThreadSteps, Zenon DEF TerminateMaps
  <2> QED BY <1>u, <2>1, ScanSame
<1>13. ASSUME NEW t \in Threads, TerminateList(t) PROVE ScanInv'
  <2>1. /\ th[t].pc = "term_list" /\ Moves(t, th[t].then) /\ th'[t].fid = th[t].fid
        /\ UNCHANGED <<pool, scan, terminate>>
    BY <1>0, <1>13, ThreadSteps, Zenon DEF TerminateList
  <2> QED BY <1>t, <1>u, <2>1, ScanSame
<1>14. CASE Boot \/ UNCHANGED vars
  <2>1. UNCHANGED <<pool, terminate, th, scan>>
    BY <1>14 DEF Boot, BootRead, BootExecute, BootRound, vars
  <2> QED BY <1>0, <2>1 DEF ScanInv, Knows, Keeps, Used
<1> QED
  BY <1>1, <1>2, <1>3, <1>4, <1>5, <1>6, <1>7, <1>8, <1>9, <1>10, <1>11, <1>12, <1>13, <1>14, SMTT(30)
  DEF Next, Thread, Terminate, FutexWait, FinishThread, Finish

-----------------------------------------------------------------------------
(* The theorems.                                                           *)

(* Every state TaskHandler reaches satisfies the inductive invariant. *)
THEOREM TaskInvariant == Spec => []IInv
<1>1. IInv /\ [Next]_vars => IInv'
  BY TypesNext, LockNext, ListNext, OwnerNext, ScanNext DEF IInv
<1> QED BY InitInv, <1>1, PTL DEF Spec

(* running[] never overflows and every index and flow number stays in      *)
(* range: resumeThread appends without a test of its own, and boot indexes *)
(* running[] and allmaps[] with what it read without the mutex.            *)
THEOREM TypeCorrect == Spec => []TypeOK
<1>1. IInv => TypeOK
  BY SMTT(30) DEF IInv, Types, ThreadStates, Scans, TypeOK
<1> QED BY <1>1, TaskInvariant, PTL

(* Whenever the mutex is free and terminate() has not begun, the list boot *)
(* walks is the set of active flows, each once, with its core switched on, *)
(* for any number of threads and flows and although getFid may hand one    *)
(* flow to several threads.                                                *)
THEOREM ListIsActive == Spec => []RunningIsActive
<1>1. IInv => RunningIsActive
  <2> SUFFICES ASSUME IInv, Unlocked, ~terminate
               PROVE  /\ IsInjective(Prefix(list))
                      /\ Range(Prefix(list)) = {f \in Flows : active[f]}
                      /\ \A f \in Flows : active[f] => simu[f]
    BY DEF RunningIsActive
  <2>1. \A t \in Threads : th[t].pc # "shrink"
    BY FlowsAssumption DEF IInv, LockInv, Unlocked
  <2>2. Lists(list.run, list.size, ActiveFlows) /\ \A f \in Flows : active[f] => simu[f]
    BY <2>1 DEF IInv, ListInv
  <2>3. list.size \in Nat
    BY DEF IInv, Types
  <2> DEFINE p == Prefix(list)
  <2>4. DOMAIN p = 1..list.size /\ \A k \in 1..list.size : p[k] = list.run[k - 1]
    BY DEF Prefix
  <2> HIDE DEF p
  <2>6. \A k \in 1..list.size : k - 1 \in 0..list.size - 1
    BY <2>3
  <2>7. \A i \in 0..list.size - 1 : i + 1 \in 1..list.size /\ (i + 1) - 1 = i
    BY <2>3
  <2>8. \A j, k \in 1..list.size : p[j] = p[k] => j = k
    BY <2>2, <2>3, <2>4, <2>6 DEF Lists
  <2>9. {p[k] : k \in 1..list.size} = ActiveFlows
    BY <2>2, <2>4, <2>6, <2>7, SMTT(30) DEF Lists
  <2> QED BY <2>2, <2>4, <2>8, <2>9 DEF p, IsInjective, Range, ActiveFlows
<1> QED BY <1>1, TaskInvariant, PTL

(* With a flow per thread, getFid never finds every flow taken while the   *)
(* program runs, whatever the threads that race in it do.                  *)
THEOREM FlowsSuffice == Spec => []NeverRunsOut
<1>1. IInv => NeverRunsOut
  BY DEF IInv, OwnerInv, NeverRunsOut
<1> QED BY <1>1, TaskInvariant, PTL

(* Once a terminate() has returned, no resumeThread or pauseThread that    *)
(* was under way puts anything back in the list.                           *)
THEOREM EmptyForGood == Spec => []StaysEmpty
<1>1. IInv => StaysEmpty
  BY DEF IInv, ListInv, StaysEmpty
<1> QED BY <1>1, TaskInvariant, PTL
=============================================================================
