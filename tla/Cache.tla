------------------------------- MODULE Cache --------------------------------
(***************************************************************************)
(* A two-level hierarchy of caches (simu/libmem/Cache.cpp) with their      *)
(* MSHRs, the routing between them (simu/libcore/MRouter.cpp) and the      *)
(* requests (simu/libcore/MemRequest.h): the first-level caches L1s share  *)
(* L2, and below L2 is the memory (simu/libmem/NICECache.cpp), which       *)
(* answers every busRead.                                                  *)
(*                                                                         *)
(* A message is a scheduled callback.  Delays depend on hit latencies and  *)
(* port contention, so messages are delivered in any order.  A request is  *)
(* in one place at a time, its record says where:                          *)
(*   idle     not issued yet                                               *)
(*   cpu      the read or write event of its home cache is scheduled       *)
(*   queued   a callback in the MSHR of cache at                           *)
(*   busRead  travelling down to cache at (or to Mem)                      *)
(*   pushUp   the answer, travelling up to cache at                        *)
(*   done     acknowledged                                                 *)
(* Invalidations and writebacks are counted in ctl.  The acknowledgement   *)
(* of an invalidation changes no cache state and is not kept.  Cache::read *)
(* and write acknowledge an access to address zero (a predicated ARM       *)
(* instruction) at once, without a lookup: Addr has only other addresses.  *)
(*                                                                         *)
(* The simulator is single threaded: an event handler runs to its end.     *)
(* The chain of callbacks that one retire() starts is cut into a step per  *)
(* callback; busy says which MSHR entry is being retired, and no other     *)
(* event is handled in between.                                            *)
(***************************************************************************)
EXTENDS MSHR, FiniteSets

CONSTANTS
  L1s, L2, Mem,
  Addr,       \* line addresses
  Req,        \* requests
  PCores,     \* the L1s of the cores with coreID # 0
  Hash,       \* Hash[c][a]: the entry of address a in the MSHR of cache c (calcEntry)
  Kind,       \* Kind[c]: the class of the MSHR of cache c
  Inclusive,  \* Inclusive[c]: the configuration's "inclusive"
  Llc,        \* the configuration's "llc" of L2
  Ways,       \* Ways[c]: lines of cache c
  MaxReads, MaxWrites, \* maxPendingReads, maxPendingWrites
  MaxWarm,    \* bound: number of warm-up accesses
  NotBusy

Caches == L1s \cup {L2}
Up(c) == IF c = L2 THEN L1s ELSE {}
Down(c) == IF c = L2 THEN Mem ELSE L2

ASSUME CacheAssumption ==
  /\ L2 \notin L1s /\ Mem \notin Caches
  /\ NoCb \notin Req /\ IsFiniteSet(Req)
  /\ Hash \in [Caches -> [Addr -> Entries]]
  /\ Kind \in [Caches -> {"full", "blocking", "none"}]
  /\ NotBusy \notin Caches \X Entries

\* BlockingMSHR has one list, overflow, for all the addresses of its cache.
ASSUME OverflowAssumption ==
  \A c \in Caches : Kind[c] = "blocking" => \A a, b \in Addr : Hash[c][a] = Hash[c][b]

VARIABLES
  line,           \* line[c][a]: CState of the line, "I" when absent
  mshr,           \* mshr[c]
  req,            \* req[r]
  ctl,            \* how many of each invalidation and writeback are in flight
  pendingReads, pendingWrites, \* per first-level cache
  busy,           \* the <<cache, entry>> being retired, or NotBusy
  warmed,         \* number of warm-up accesses so far
  ok              \* FALSE once an assertion of the code has failed

vars == <<line, mshr, req, ctl, pendingReads, pendingWrites, busy, warmed, ok>>

\* The accesses a core can make.  The loads of a core with coreID # 0 are
\* marked as prefetches, and its stores are turned into plain reads
\* ("prevent Pcore from writing to the memory heirarchy").
Accesses ==
  {x \in [op : {"read", "write"}, pf : BOOLEAN, addr : Addr, home : L1s] :
     IF x.home \in PCores THEN x.op = "read" ELSE ~x.pf}

Messages == [kind : {"invalidate", "writeback"}, addr : Addr, at : Caches]

Init ==
  /\ line = [c \in Caches |-> [a \in Addr |-> "I"]]
  /\ mshr = [c \in Caches |-> MshrInit]
  /\ \E access \in [Req -> Accesses] :
       req = [r \in Req |-> [op |-> access[r].op, pf |-> access[r].pf, addr |-> access[r].addr,
                             home |-> access[r].home, kind |-> "idle", at |-> access[r].home]]
  /\ ctl = [m \in Messages |-> 0]
  /\ pendingReads = [c \in L1s |-> 0]
  /\ pendingWrites = [c \in L1s |-> 0]
  /\ busy = NotBusy
  /\ warmed = 0
  /\ ok = TRUE

Entry(c, r) == Hash[c][req[r].addr]
At(r, kind, c) == req[r].kind = kind /\ req[r].at = c
Moved(r, kind, c) == [req EXCEPT ![r].kind = kind, ![r].at = c]

\* cacheBank->readLine and the conditions of doRead, doWrite and doBusRead
\* that decide what happens to a request.  A first-level cache has L2 below
\* it, so its own "llc" is off and its upgrades always go down.
Lookup(c, r) ==
  LET s == line[c][req[r].addr] IN
  IF s = "I" THEN "miss"
  ELSE IF req[r].op = "read" \/ s # "S" THEN "hit"
  ELSE IF c \in L1s THEN "upgrade"
  ELSE IF ~Inclusive[c] THEN "hit"
  ELSE IF Cardinality(Up(c)) > 1 \/ ~Llc THEN "upgrade"
  ELSE "assert"

\* The line after the lookup.  A write hit makes it modified, except in a
\* lower level that is not inclusive; an upgrade gives the line up.
LineAfter(c, r) ==
  LET a == req[r].addr IN
  CASE Lookup(c, r) = "upgrade" -> [line EXCEPT ![c][a] = "I"]
    [] Lookup(c, r) = "hit" /\ req[r].op = "write" /\ (c \in L1s \/ Inclusive[c])
                                -> [line EXCEPT ![c][a] = "M"]
    [] OTHER                    -> line

\* Each message of the set is scheduled once more.
Sent(messages) == [m \in Messages |-> IF m \in messages THEN ctl[m] + 1 ELSE ctl[m]]

\* MRouter::sendInvalidateOthers, and sendInvalidateAll when skip is no L1.
InvalidatesTo(c, a, skip) ==
  {[kind |-> "invalidate", addr |-> a, at |-> u] : u \in Up(c) \ {skip}}

UpgradeInvalidates(c, r) ==
  IF Lookup(c, r) = "upgrade" /\ Cardinality(Up(c)) > 1
    THEN InvalidatesTo(c, req[r].addr, req[r].home)
    ELSE {}

\* Mutant: a retried request does not leave the count.
PendingAfterNoRetry(pending, op, c, r, retrying) ==
  IF c \in L1s /\ req[r].op = op
    THEN [pending EXCEPT ![c] = @ + (IF Lookup(c, r) = "miss" THEN 1 ELSE 0)]
    ELSE pending

\* pendingReads and pendingWrites: a retried request leaves the count, a
\* miss enters it.  Only doRead and doWrite, the home cache's, touch them.
PendingAfter(pending, op, c, r, retrying) ==
  IF c \in L1s /\ req[r].op = op
    THEN [pending EXCEPT ![c] = @ - (IF retrying THEN 1 ELSE 0)
                                  + (IF Lookup(c, r) = "miss" THEN 1 ELSE 0)]
    ELSE pending

\* A hit answers: mreq->ack at the home cache, router->fwdPushUp below it.
Answered(c, r) == IF c \in L1s THEN Moved(r, "done", c) ELSE Moved(r, "pushUp", req[r].home)

\* The common body of doRead, doWrite and doBusRead for a request that is
\* not being retried.
Access(c, r) ==
  LET e == Entry(c, r)
      what == Lookup(c, r)
      waits == what = "miss" /\ ~CanIssue(Kind[c], mshr[c], e)
  IN
  /\ line' = LineAfter(c, r)
  /\ ctl' = Sent(UpgradeInvalidates(c, r))
  /\ pendingReads' = PendingAfter(pendingReads, "read", c, r, FALSE)
  /\ pendingWrites' = PendingAfter(pendingWrites, "write", c, r, FALSE)
  /\ mshr' = IF what \in {"miss", "upgrade"}
               THEN [mshr EXCEPT ![c] = AddEntry(Kind[c], @, e, IF waits THEN r ELSE NoCb)]
               ELSE mshr
  /\ req' = CASE waits         -> Moved(r, "queued", c)
              [] what = "hit"  -> Answered(c, r)
              [] what = "assert" -> req
              [] OTHER         -> Moved(r, "busRead", Down(c))
  /\ ok' = (what # "assert")
  /\ UNCHANGED <<busy, warmed>>

Runs == ok /\ busy = NotBusy

CanAcceptRead(c, a) == pendingReads[c] < MaxReads /\ CanAccept(Kind[c], mshr[c], Hash[c][a])
CanAcceptWrite(c, a) == pendingWrites[c] < MaxWrites /\ CanAccept(Kind[c], mshr[c], Hash[c][a])

\* FULoad::cacheDispatched, FUStore::preretire: the core asks its cache and
\* then schedules the access.  For a store of a core with coreID # 0,
\* FUStore::executing schedules a read without asking.
Issue(r) ==
  /\ Runs
  /\ req[r].kind = "idle"
  /\ \/ req[r].op = "read" /\ CanAcceptRead(req[r].home, req[r].addr)
     \/ req[r].op = "write" /\ CanAcceptWrite(req[r].home, req[r].addr)
     \/ req[r].home \in PCores /\ ~req[r].pf
  /\ req' = Moved(r, "cpu", req[r].home)
  /\ UNCHANGED <<line, mshr, ctl, pendingReads, pendingWrites, busy, warmed, ok>>

DoRead(r) == Runs /\ req[r].kind = "cpu" /\ req[r].op = "read" /\ Access(req[r].home, r)
DoWrite(r) == Runs /\ req[r].kind = "cpu" /\ req[r].op = "write" /\ Access(req[r].home, r)
DoBusRead(r) == Runs /\ At(r, "busRead", L2) /\ Access(L2, r)

\* The memory below the last cache, a NICECache, answers every busRead.
MemBusRead(r) ==
  /\ Runs
  /\ At(r, "busRead", Mem)
  /\ req' = Moved(r, "pushUp", L2)
  /\ UNCHANGED <<line, mshr, ctl, pendingReads, pendingWrites, busy, warmed, ok>>

\* The lines allocateLine may displace for address a: none if a way is
\* free, otherwise or also any valid line (the LRU order is not modelled, and
\* findLine2Replace prefers the oldest line to an invalid one).
Victims(c) ==
  LET valid == {b \in Addr : line[c][b] # "I"}
  IN  {{b} : b \in valid} \cup (IF Cardinality(valid) < Ways[c] THEN {{}} ELSE {})

\* displaceLine: invalidate the copies above, write a modified line back.
DisplaceMessages(c, gone) ==
  LET wb == {b \in gone : line[c][b] = "M" /\ Down(c) # Mem}
  IN  UNION {IF Inclusive[c] THEN InvalidatesTo(c, b, c) ELSE {} : b \in gone}
      \cup {[kind |-> "writeback", addr |-> b, at |-> Down(c)] : b \in wb}

FillState(r) ==
  IF req[r].op = "write" THEN "M" ELSE IF req[r].pf THEN "S" ELSE "E"

\* mshr->retire(addr) starts.
RetiringNothing(r) == NotBusy

Retiring(r) == <<req[r].at, Entry(req[r].at, r)>>

\* The answer reaches cache c: the line is allocated, and the requests that
\* wait on its MSHR entry are woken by the retire() that follows.
DoPushUp(r) ==
  LET c == req[r].at
      a == req[r].addr
      atHome == c = req[r].home
  IN
  /\ Runs
  /\ req[r].kind = "pushUp"
  /\ \E gone \in IF line[c][a] = "I" THEN Victims(c) ELSE {{}} :
       /\ line' = [line EXCEPT ![c] = [b \in Addr |-> IF b = a THEN FillState(r)
                                                      ELSE IF b \in gone THEN "I" ELSE @[b]]]
       /\ ctl' = Sent(DisplaceMessages(c, gone))
  /\ req' = IF atHome THEN Moved(r, "done", c) ELSE Moved(r, "pushUp", req[r].home)
  /\ pendingReads' = IF atHome /\ req[r].op = "read" THEN [pendingReads EXCEPT ![c] = @ - 1] ELSE pendingReads
  /\ pendingWrites' = IF atHome /\ req[r].op = "write" THEN [pendingWrites EXCEPT ![c] = @ - 1] ELSE pendingWrites
  /\ busy' = Retiring(r)
  /\ UNCHANGED <<mshr, warmed, ok>>

\* retire() finds no callback to call, and returns.
RetireEnds ==
  /\ ok /\ busy # NotBusy
  /\ LET c == busy[1] IN
     /\ NextCb(Kind[c], mshr[c], busy[2]) = 0
     /\ mshr' = [mshr EXCEPT ![c] = RetireLast(Kind[c], @, busy[2])]
  /\ busy' = NotBusy
  /\ UNCHANGED <<line, req, ctl, pendingReads, pendingWrites, warmed, ok>>

\* retire() calls the next callback: doRead, doWrite or doBusRead with
\* retrying.  If it hits it retires the entry in its turn, otherwise it goes
\* down as a miss of its own and retire() returns.
RetireCalls ==
  /\ ok /\ busy # NotBusy
  /\ LET c == busy[1]
         e == busy[2]
         k == Kind[c]
         i == NextCb(k, mshr[c], e)
         r == mshr[c].cc[e][i]
         taken == TakeNext(k, mshr[c], e, i)
         what == Lookup(c, r)
     IN
     /\ i > 0
     /\ line' = LineAfter(c, r)
     /\ ctl' = Sent(UpgradeInvalidates(c, r))
     /\ pendingReads' = PendingAfter(pendingReads, "read", c, r, TRUE)
     /\ pendingWrites' = PendingAfter(pendingWrites, "write", c, r, TRUE)
     /\ ok' = (what # "assert")
     /\ UNCHANGED warmed
     /\ CASE what = "hit" ->
               /\ mshr' = [mshr EXCEPT ![c] = taken]
               /\ req' = Answered(c, r)
               /\ UNCHANGED busy
          [] what \in {"miss", "upgrade"} ->
               /\ mshr' = [mshr EXCEPT ![c] = Settle(k, AddEntry(k, taken, e, NoCb), e)]
               /\ req' = Moved(r, "busRead", Down(c))
               /\ busy' = NotBusy
          [] what = "assert" -> UNCHANGED <<mshr, req, busy>>

\* An invalidation reaches a first-level cache; a cache that is not
\* inclusive only acknowledges it.
DoInvalidate(m) ==
  /\ Runs
  /\ m.kind = "invalidate"
  /\ line' = IF Inclusive[m.at] THEN [line EXCEPT ![m.at][m.addr] = "I"] ELSE line
  /\ ctl' = [ctl EXCEPT ![m] = @ - 1]
  /\ UNCHANGED <<mshr, req, pendingReads, pendingWrites, busy, warmed, ok>>

\* A writeback reaches L2: the line becomes modified if it is there.
DoPushDown(m) ==
  /\ Runs
  /\ m.kind = "writeback"
  /\ line' = IF line[m.at][m.addr] # "I" THEN [line EXCEPT ![m.at][m.addr] = "M"] ELSE line
  /\ ctl' = [ctl EXCEPT ![m] = @ - 1]
  /\ UNCHANGED <<mshr, req, pendingReads, pendingWrites, busy, warmed, ok>>

\* Warm-up: ffread fills the missing levels with a shared line and ffwrite
\* with an exclusive one.  A displaced line is simply dropped.
Filled(c, a, gone, s) ==
  [b \in Addr |-> IF b = a THEN s ELSE IF b \in gone THEN "I" ELSE line[c][b]]

FF(c, a, s) ==
  /\ Runs /\ warmed < MaxWarm
  /\ warmed' = warmed + 1
  /\ line[c][a] = "I"
  /\ \E gone \in Victims(c), gone2 \in IF line[L2][a] = "I" THEN Victims(L2) ELSE {{}} :
       line' = [line EXCEPT ![c] = Filled(c, a, gone, s),
                            ![L2] = IF @[a] = "I" THEN Filled(L2, a, gone2, s) ELSE @]
  /\ UNCHANGED <<mshr, req, ctl, pendingReads, pendingWrites, busy, ok>>

FFRead(c, a) == FF(c, a, "S")
FFWrite(c, a) == FF(c, a, "E")

Handle(r) == DoRead(r) \/ DoWrite(r) \/ DoBusRead(r) \/ MemBusRead(r) \/ DoPushUp(r)
Retire == RetireEnds \/ RetireCalls

Next ==
  \/ \E r \in Req : Issue(r) \/ DoRead(r) \/ DoWrite(r) \/ DoBusRead(r) \/ MemBusRead(r) \/ DoPushUp(r)
  \/ RetireEnds
  \/ RetireCalls
  \/ \E m \in {x \in Messages : ctl[x] > 0} : DoInvalidate(m) \/ DoPushDown(m)
  \/ \E c \in L1s, a \in Addr : FFRead(c, a) \/ FFWrite(c, a)

Spec == Init /\ [][Next]_vars

\* Every scheduled event is executed (EventScheduler::advanceClock), and a
\* handler that has started runs to its end.
FairSpec == Spec /\ WF_vars(Retire) /\ \A r \in Req : WF_vars(Handle(r))

-----------------------------------------------------------------------------
\* Every variable has its type.
TypeOK ==
  /\ line \in [Caches -> [Addr -> {"M", "E", "S", "I"}]]
  /\ mshr \in [Caches -> [nFree : Int, nUse : [Entries -> Nat],
                          cc : [Entries -> Seq(Req \cup {NoCb})]]]
  /\ req \in [Req -> [op : {"read", "write"}, pf : BOOLEAN, addr : Addr, home : L1s,
                      kind : {"idle", "cpu", "queued", "busRead", "pushUp", "done"},
                      at : Caches \cup {Mem}]]
  /\ pendingReads \in [L1s -> Int] /\ pendingWrites \in [L1s -> Int]
  /\ busy \in (Caches \X Entries) \cup {NotBusy}
  /\ ok \in BOOLEAN
  /\ ctl \in [Messages -> Nat] /\ warmed \in Nat

\* The uses of the entries of an MSHR, one pair for each.
Uses(c) == UNION {{e} \X (1 .. mshr[c].nUse[e]) : e \in Entries}

\* The free count of a full MSHR and the uses of its entries always add up
\* to its size, and no callback waits on an entry that is not in use: retire()
\* gives back exactly what addEntry took, whatever the nesting of callbacks
\* (MSHR.cpp: "I(nFreeEntries <= nEntries)" and
\* "GI(entry[pos].nUse==0, entry[pos].cc.empty())").
EntriesAddUp ==
  \A c \in Caches : Kind[c] = "full" =>
    /\ mshr[c].nFree = NEntries - Cardinality(Uses(c))
    /\ \A e \in Entries : Len(mshr[c].cc[e]) <= mshr[c].nUse[e]

\* The answer to request r will pass through cache c and retire its entry.
Below(c, r) ==
  \/ At(r, "pushUp", c)
  \/ At(r, "busRead", Mem)
  \/ /\ c = req[r].home
     /\ At(r, "busRead", L2) \/ At(r, "queued", L2) \/ At(r, "pushUp", L2)

\* No lost wake-up: while an MSHR entry is in use, a request of that entry
\* is below the cache, and its answer will retire the entry.  An entry
\* without one would make every later miss on it wait for ever.
WaitersWillBeWoken ==
  \A c \in Caches, e \in Entries :
    (busy # <<c, e>> /\ (mshr[c].nUse[e] > 0 \/ mshr[c].cc[e] # <<>>))
      => \E r \in Req : Entry(c, r) = e /\ (c = L2 \/ req[r].home = c) /\ Below(c, r)

Outstanding(c, op) ==
  {r \in Req : req[r].home = c /\ req[r].op = op /\ req[r].kind \in {"queued", "busRead", "pushUp"}}

\* Every request is counted where it is: the callbacks in the MSHRs are
\* exactly the requests that are queued, each one once; pendingReads counts
\* the read misses of the cache that are not answered; pendingWrites never
\* counts more than the writes that are not answered.
RequestsCounted ==
  /\ \A r \in Req, c \in Caches :
       Cardinality({i \in DOMAIN mshr[c].cc[Entry(c, r)] : mshr[c].cc[Entry(c, r)][i] = r})
         = IF At(r, "queued", c) THEN 1 ELSE 0
  /\ \A c \in L1s : /\ pendingReads[c] = Cardinality(Outstanding(c, "read"))
                    /\ pendingWrites[c] <= Cardinality(Outstanding(c, "write"))

\* Cache::doBusRead: "I(l->isModified() || l->isExclusive())" when a write is about
\* to hit in an inclusive cache.
WriteHitsOwnedLine == ok

\* Every access a core issues is acknowledged.
EveryAccessAnswered ==
  \A r \in Req : req[r].kind = "cpu" ~> req[r].kind = "done"
=============================================================================
