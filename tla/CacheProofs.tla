---------------------------- MODULE CacheProofs -----------------------------
(***************************************************************************)
(* Proofs about Cache, for any number of first-level caches, requests and  *)
(* addresses, any hash into any number of MSHR entries and any mix of MSHR *)
(* classes.                                                                *)
(*                                                                         *)
(* That an MSHR entry in use will be retired is inductive only together    *)
(* with what the lists of callbacks hold: each callback is a request of    *)
(* the entry that is queued there and nowhere else, so the request that    *)
(* retire() sends down again, or answers, is never the one another entry   *)
(* counts on.                                                              *)
(***************************************************************************)
EXTENDS Cache, WellFoundedInduction, TLAPS

(* A leaf that names no prover may take SMT, then Zenon, 20 s each. *)
USE SMTT(20), ZenonT(20)

(* The types of what the requests go through. *)
Typed ==
  /\ line \in [Caches -> [Addr -> {"M", "E", "S", "I"}]]
  /\ mshr \in [Caches -> [nFree : Int, nUse : [Entries -> Nat],
                          cc : [Entries -> Seq(Req \cup {NoCb})]]]
  /\ req \in [Req -> [op : {"read", "write"}, pf : BOOLEAN, addr : Addr, home : L1s,
                      kind : {"idle", "cpu", "queued", "busRead", "pushUp", "done"},
                      at : Caches \cup {Mem}]]
  /\ pendingReads \in [L1s -> Int] /\ pendingWrites \in [L1s -> Int]
  /\ busy \in (Caches \X Entries) \cup {NotBusy}
  /\ ok \in BOOLEAN

(* The messages on their way are counted, and so are the warm-up accesses. *)
Scheduled == ctl \in [Messages -> Nat] /\ warmed \in Nat

Use(c, e) == mshr[c].nUse[e]
Cc(c, e) == mshr[c].cc[e]

(* What an entry of each class of MSHR may hold. *)
EntryOK(c, e) ==
  /\ Kind[c] = "full" =>
       /\ Len(Cc(c, e)) <= Use(c, e)
       /\ \A i \in 1 .. Len(Cc(c, e)) : Cc(c, e)[i] # NoCb
  /\ Kind[c] = "blocking" => Use(c, e) = 0
  /\ Kind[c] = "none" => Use(c, e) = 0 /\ Cc(c, e) = <<>>

(* Every callback is a queued request of the entry, and there once. *)
ListOK(c, e) ==
  \A i \in 1 .. Len(Cc(c, e)) : Cc(c, e)[i] # NoCb =>
    /\ Cc(c, e)[i] \in Req
    /\ Entry(c, Cc(c, e)[i]) = e
    /\ At(Cc(c, e)[i], "queued", c)
    /\ \A j \in 1 .. Len(Cc(c, e)) : Cc(c, e)[j] = Cc(c, e)[i] => i = j

(* A queued request is in the list of its entry. *)
Listed(r, c) ==
  At(r, "queued", c) => \E i \in 1 .. Len(Cc(c, Entry(c, r))) : Cc(c, Entry(c, r))[i] = r

(* Where a request can be. *)
Placed(r) ==
  /\ req[r].kind \in {"idle", "cpu", "done"} => req[r].at = req[r].home
  /\ req[r].kind = "queued" => req[r].at = req[r].home \/ req[r].at = L2
  /\ req[r].kind = "busRead" => req[r].at = L2 \/ req[r].at = Mem
  /\ req[r].kind = "pushUp" => req[r].at = req[r].home \/ req[r].at = L2

Lists ==
  /\ \A c \in Caches, e \in Entries : EntryOK(c, e) /\ ListOK(c, e)
  /\ \A r \in Req : Placed(r)
  /\ \A r \in Req, c \in Caches : Listed(r, c)

IInv == Typed /\ Lists /\ WaitersWillBeWoken

-----------------------------------------------------------------------------
Places == Caches \cup {Mem}
ReqKinds == {"idle", "cpu", "queued", "busRead", "pushUp", "done"}
OneReq == [op : {"read", "write"}, pf : BOOLEAN, addr : Addr, home : L1s,
           kind : {"idle", "cpu", "queued", "busRead", "pushUp", "done"}, at : Places]
ReqType == [Req -> OneReq]
OneMshr == [nFree : Int, nUse : [Entries -> Nat], cc : [Entries -> Seq(Req \cup {NoCb})]]
MshrType == [Caches -> OneMshr]

(* Request r goes to cache c, in a message or a queue of kind k; no other  *)
(* request moves.                                                          *)
Goes(r, k, c) ==
  /\ req' \in ReqType
  /\ req'[r].kind = k /\ req'[r].at = c
  /\ \A q \in Req : /\ req'[q].op = req[q].op /\ req'[q].addr = req[q].addr
                    /\ req'[q].home = req[q].home
  /\ \A q \in Req : q # r => req'[q].kind = req[q].kind /\ req'[q].at = req[q].at

(* Only entry e of the MSHR of cache c changes. *)
EntryStep(c, e, use, list) ==
  /\ mshr' \in MshrType
  /\ mshr'[c].nUse[e] = use /\ mshr'[c].cc[e] = list
  /\ \A d \in Caches, f \in Entries : d # c \/ f # e =>
       mshr'[d].nUse[f] = mshr[d].nUse[f] /\ mshr'[d].cc[f] = mshr[d].cc[f]

LEMMA Types ==
  ASSUME Typed
  PROVE  /\ req \in ReqType /\ mshr \in MshrType
         /\ \A r \in Req : /\ req[r].home \in L1s /\ req[r].home \in Caches
                           /\ req[r].home # L2 /\ req[r].addr \in Addr
                           /\ req[r].op \in {"read", "write"}
                           /\ \A c \in Caches : Entry(c, r) \in Entries
                           /\ req[r].at \in Places /\ req[r].kind \in ReqKinds
         /\ \A c \in Caches, e \in Entries :
              Use(c, e) \in Nat /\ Cc(c, e) \in Seq(Req \cup {NoCb})
         /\ \A c \in Caches : mshr[c] \in OneMshr
<1>1. req \in ReqType /\ mshr \in MshrType
  BY Zenon DEF Typed, OneReq, ReqType, MshrType, OneMshr, Places
<1>2. ASSUME NEW r \in Req
      PROVE  /\ req[r].home \in L1s /\ req[r].home \in Caches
             /\ req[r].home # L2 /\ req[r].addr \in Addr
             /\ req[r].op \in {"read", "write"}
             /\ \A c \in Caches : Entry(c, r) \in Entries
             /\ req[r].at \in Places /\ req[r].kind \in ReqKinds
  BY <1>1, CacheAssumption DEF OneReq, ReqType, Entry, Caches, ReqKinds
<1>3. \A c \in Caches : mshr[c] \in OneMshr
  BY <1>1, Zenon DEF MshrType
<1>4. \A c \in Caches, e \in Entries :
        Use(c, e) \in Nat /\ Cc(c, e) \in Seq(Req \cup {NoCb})
  BY <1>3, Zenon DEF OneMshr, Use, Cc
<1> QED BY <1>1, <1>2, <1>3, <1>4, Zenon

LEMMA MovedGoes ==
  ASSUME Typed, NEW r \in Req, NEW k \in ReqKinds, NEW c \in Places, req' = Moved(r, k, c)
  PROVE  Goes(r, k, c)
<1>1. req \in ReqType
  BY Types, Zenon
<1>2. req[r] \in OneReq
  BY <1>1, Zenon DEF ReqType
<1>3. PICK q : q = [req[r] EXCEPT !.kind = k, !.at = c]
  BY Zenon
<1>4. /\ q \in OneReq /\ q.kind = k /\ q.at = c
      /\ q.op = req[r].op /\ q.addr = req[r].addr /\ q.home = req[r].home
  BY <1>2, <1>3, Zenon DEF OneReq, ReqKinds
<1>5. req' = [req EXCEPT ![r] = q]
  BY <1>3, Zenon DEF Moved
<1>6. req' \in ReqType /\ req'[r] = q /\ \A p \in Req : p # r => req'[p] = req[p]
  BY <1>1, <1>4, <1>5, Zenon DEF ReqType
<1> QED BY <1>4, <1>6, Zenon DEF Goes

(* What keeps the lists: a request that is not queued moves and the MSHRs  *)
(* do not change.                                                          *)
LEMMA KeepLists ==
  ASSUME IInv, NEW r \in Req, NEW k \in ReqKinds, NEW c \in Places, Goes(r, k, c),
         mshr' = mshr, req[r].kind # "queued", k # "queued", Placed(r)'
  PROVE  Lists'
<1>1. \A q \in Req, b \in Caches : Entry(b, q)' = Entry(b, q)
  BY Zenon DEF Goes, Entry
<1>2. \A q \in Req, d \in Caches : At(q, "queued", d)' <=> At(q, "queued", d)
  BY Zenon DEF Goes, At
<1>3. ASSUME NEW d \in Caches, NEW e \in Entries PROVE EntryOK(d, e)' /\ ListOK(d, e)'
  BY <1>1, <1>2, <1>3 DEF IInv, Lists, EntryOK, ListOK, Cc, Use
<1>4. ASSUME NEW q \in Req PROVE Placed(q)'
  <2>1. Placed(q)
    BY Zenon DEF IInv, Lists
  <2> QED BY <2>1, Zenon DEF Placed, Goes
<1>5. ASSUME NEW q \in Req, NEW d \in Caches PROVE Listed(q, d)'
  BY <1>1, <1>2 DEF IInv, Lists, Listed, Cc
<1> QED BY <1>3, <1>4, <1>5, Zenon DEF Lists

(* What keeps every entry's waker: a request stays below the caches that   *)
(* count on it until its answer starts retire(), and an entry comes into   *)
(* use with a request of its own below.                                    *)
LEMMA WokenStep ==
  ASSUME IInv, NEW r \in Req, NEW k \in ReqKinds, NEW c \in Places, Goes(r, k, c),
         \A d \in Caches : Below(d, r) /\ (d = L2 \/ req[r].home = d) =>
           Below(d, r)' \/ busy' = <<d, Entry(d, r)>>,
         \A d \in Caches, f \in Entries :
           busy' # <<d, f>> /\ (mshr'[d].nUse[f] > 0 \/ mshr'[d].cc[f] # <<>>) =>
             \/ busy # <<d, f>> /\ (mshr[d].nUse[f] > 0 \/ mshr[d].cc[f] # <<>>)
             \/ f = Entry(d, r) /\ (d = L2 \/ req[r].home = d) /\ Below(d, r)'
  PROVE  WaitersWillBeWoken'
<1>1. \A q \in Req, b \in Caches : Entry(b, q)' = Entry(b, q)
  BY Zenon DEF Goes, Entry
<1> SUFFICES ASSUME NEW d \in Caches, NEW f \in Entries,
                    busy' # <<d, f>>, mshr'[d].nUse[f] > 0 \/ mshr'[d].cc[f] # <<>>
             PROVE  \E q \in Req : Entry(d, q)' = f /\ (d = L2 \/ req'[q].home = d) /\ Below(d, q)'
  BY Zenon DEF WaitersWillBeWoken
<1>2. CASE f = Entry(d, r) /\ (d = L2 \/ req[r].home = d) /\ Below(d, r)'
  BY <1>1, <1>2, Zenon DEF Goes
<1>3. CASE busy # <<d, f>> /\ (mshr[d].nUse[f] > 0 \/ mshr[d].cc[f] # <<>>)
  <2>1. PICK q \in Req : Entry(d, q) = f /\ (d = L2 \/ req[q].home = d) /\ Below(d, q)
    BY <1>3, Zenon DEF IInv, WaitersWillBeWoken
  <2>2. CASE q = r
    BY <1>1, <2>1, <2>2, Zenon DEF Goes
  <2>3. CASE q # r
    <3>1. Below(d, q)'
      BY <2>1, <2>3, Zenon DEF Goes, Below, At
    <3> QED BY <1>1, <2>1, <3>1, Zenon DEF Goes
  <2> QED BY <2>2, <2>3, Zenon
<1> QED BY <1>2, <1>3, Zenon

-----------------------------------------------------------------------------
(* A non-empty set of naturals has a least element. *)
LEMMA LeastNat ==
  ASSUME NEW S, S \subseteq Nat, S # {}
  PROVE  \E x \in S : \A y \in S : x <= y
<1> DEFINE Rel == {ss \in Nat \X Nat : ss[1] < ss[2]}
<1>1. IsWellFoundedOn(Rel, Nat)
  BY NatLessThanWellFounded, Zenon DEF OpToRel
<1> HIDE DEF Rel
<1>2. PICK x \in S : \A y \in S : ~(<<y, x>> \in Rel)
  BY <1>1, WFMin, Zenon
<1>3. \A y \in S : ~(y < x)
  BY <1>2, Zenon DEF Rel
<1> QED BY <1>3

(* retire() picks the first callback of the list, if it picks one. *)
FirstCb(c, e, i) ==
  \/ /\ i = 0
     /\ \/ Kind[c] = "none"
        \/ Kind[c] = "full" /\ Use(c, e) = 0
        \/ \A j \in 1 .. Len(Cc(c, e)) : Cc(c, e)[j] = NoCb
  \/ /\ i \in 1 .. Len(Cc(c, e)) /\ Cc(c, e)[i] # NoCb
     /\ \A j \in 1 .. Len(Cc(c, e)) : Cc(c, e)[j] # NoCb => i <= j
     /\ Kind[c] # "none" /\ (Kind[c] = "full" => Use(c, e) > 0)

LEMMA NextCbFirst ==
  ASSUME Typed, NEW c \in Caches, NEW e \in Entries
  PROVE  FirstCb(c, e, NextCb(Kind[c], mshr[c], e))
<1> DEFINE cbs == {i \in DOMAIN mshr[c].cc[e] : mshr[c].cc[e][i] # NoCb}
<1>1. /\ Cc(c, e) = mshr[c].cc[e] /\ Use(c, e) = mshr[c].nUse[e]
      /\ Use(c, e) \in Nat /\ Cc(c, e) \in Seq(Req \cup {NoCb})
  BY Types, Zenon DEF Cc, Use
<1>2. DOMAIN mshr[c].cc[e] = 1 .. Len(Cc(c, e)) /\ Len(Cc(c, e)) \in Nat
  BY <1>1
<1>3. CASE Kind[c] = "none" \/ (Kind[c] = "full" /\ mshr[c].nUse[e] = 0) \/ cbs = {}
  <2>1. NextCb(Kind[c], mshr[c], e) = 0
    BY <1>3, Zenon DEF NextCb
  <2> QED BY <1>1, <1>2, <1>3, <2>1, Zenon DEF FirstCb
<1>4. CASE ~(Kind[c] = "none" \/ (Kind[c] = "full" /\ mshr[c].nUse[e] = 0) \/ cbs = {})
  <2>1. NextCb(Kind[c], mshr[c], e) = CHOOSE i \in cbs : \A j \in cbs : i <= j
    BY <1>4, Zenon DEF NextCb
  <2>2. \E i \in cbs : \A j \in cbs : i <= j
    <3>1. cbs \subseteq Nat /\ cbs # {}
      BY <1>2, <1>4
    <3> HIDE DEF cbs
    <3> QED BY <3>1, LeastNat, Zenon
  <2>3. /\ NextCb(Kind[c], mshr[c], e) \in cbs
        /\ \A j \in cbs : NextCb(Kind[c], mshr[c], e) <= j
    <3> HIDE DEF cbs
    <3> QED BY <2>1, <2>2, Zenon
  <2> QED BY <1>1, <1>2, <1>4, <2>3, SMTT(30) DEF FirstCb
<1> QED BY <1>3, <1>4, Zenon

(* MSHR m becomes t, which differs from m in entry e only. *)
Becomes(m, t, e, use, list) ==
  /\ t \in OneMshr
  /\ \A f \in Entries : f # e => t.nUse[f] = m.nUse[f] /\ t.cc[f] = m.cc[f]
  /\ t.nUse[e] = use /\ t.cc[e] = list

LEMMA BecomesTwice ==
  ASSUME NEW m, NEW t, NEW a, NEW e \in Entries, NEW u1, NEW l1, NEW u2, NEW l2,
         Becomes(m, t, e, u1, l1), Becomes(t, a, e, u2, l2)
  PROVE  Becomes(m, a, e, u2, l2)
BY Zenon DEF Becomes

(* One MSHR of the hierarchy is replaced. *)
LEMMA OneMshrChanges ==
  ASSUME Typed, NEW c \in Caches, NEW e \in Entries, NEW m, NEW use, NEW list,
         Becomes(mshr[c], m, e, use, list), mshr' = [mshr EXCEPT ![c] = m]
  PROVE  EntryStep(c, e, use, list)
<1>1. mshr \in MshrType
  BY Types, Zenon
<1>2. m \in OneMshr
  BY Zenon DEF Becomes
<1>3. mshr' \in MshrType /\ mshr'[c] = m /\ \A d \in Caches : d # c => mshr'[d] = mshr[d]
  BY <1>1, <1>2, Zenon DEF MshrType
<1> QED BY <1>3 DEF EntryStep, Becomes

(* An MSHR with new contents. *)
Put(m, n, u, q) == [m EXCEPT !.nFree = n, !.nUse = u, !.cc = q]

LEMMA MshrFields ==
  ASSUME NEW m \in OneMshr, NEW e \in Entries
  PROVE  /\ m.nFree \in Int /\ m.nUse \in [Entries -> Nat] /\ m.nUse[e] \in Nat
         /\ m.cc \in [Entries -> Seq(Req \cup {NoCb})] /\ m.cc[e] \in Seq(Req \cup {NoCb})
BY Zenon DEF OneMshr

(* addEntry, for an MSHR m that may already have changed. *)
LEMMA AddEntryStep ==
  ASSUME NEW kind \in {"full", "blocking", "none"}, NEW m \in OneMshr, NEW e \in Entries,
         NEW cb \in Req \cup {NoCb}
  PROVE  Becomes(m, AddEntry(kind, m, e, cb), e,
                 IF kind = "full" THEN m.nUse[e] + 1 ELSE m.nUse[e],
                 IF kind = "none" \/ (kind = "full" /\ cb = NoCb) THEN m.cc[e]
                 ELSE Append(m.cc[e], cb))
<1> DEFINE list == IF cb = NoCb THEN m.cc[e] ELSE Append(m.cc[e], cb)
           more == [m.nUse EXCEPT ![e] = m.nUse[e] + 1]
           put(q) == [m.cc EXCEPT ![e] = q]
<1>0. m.nFree \in Int /\ m.nUse \in [Entries -> Nat]
  BY MshrFields, Zenon
<1>1. /\ list \in Seq(Req \cup {NoCb}) /\ Append(m.cc[e], cb) \in Seq(Req \cup {NoCb})
      /\ more \in [Entries -> Nat] /\ m.nFree - 1 \in Int
  BY MshrFields
<1>2. \A q \in Seq(Req \cup {NoCb}) : put(q) \in [Entries -> Seq(Req \cup {NoCb})]
  BY MshrFields, Zenon
<1>3. CASE kind = "full"
  <2>1. AddEntry(kind, m, e, cb) = Put(m, m.nFree - 1, more, put(list))
    BY <1>3, Zenon DEF AddEntry, FullAddEntry, OneMshr, Put
  <2>2. /\ AddEntry(kind, m, e, cb) \in OneMshr
        /\ AddEntry(kind, m, e, cb).nUse = more /\ AddEntry(kind, m, e, cb).cc = put(list)
    <3>1. put(list) \in [Entries -> Seq(Req \cup {NoCb})]
      BY <1>1, <1>2, Zenon
    <3> HIDE DEF list, more, put
    <3> QED BY <1>1, <3>1, <2>1, Zenon DEF Put, OneMshr
  <2> QED BY <1>3, <2>2, MshrFields, Zenon DEF Becomes
<1>4. CASE kind = "blocking"
  <2>1. AddEntry(kind, m, e, cb) = Put(m, m.nFree, m.nUse, put(Append(m.cc[e], cb)))
    BY <1>4, Zenon DEF AddEntry, BlockingAddEntry, OneMshr, Put
  <2>2. /\ AddEntry(kind, m, e, cb) \in OneMshr
        /\ AddEntry(kind, m, e, cb).nUse = m.nUse
        /\ AddEntry(kind, m, e, cb).cc = put(Append(m.cc[e], cb))
    <3>1. put(Append(m.cc[e], cb)) \in [Entries -> Seq(Req \cup {NoCb})]
      BY <1>1, <1>2, Zenon
    <3> HIDE DEF put
    <3> QED BY <1>0, <3>1, <2>1, Zenon DEF Put, OneMshr
  <2> QED BY <1>4, <2>2, MshrFields, Zenon DEF Becomes
<1>5. CASE kind = "none"
  BY <1>5, Zenon DEF AddEntry, Becomes
<1> QED BY <1>3, <1>4, <1>5, Zenon

(* retire() up to the callback. *)
LEMMA TakeNextStep ==
  ASSUME NEW kind \in {"full", "blocking"}, NEW m \in OneMshr, NEW e \in Entries,
         NEW i \in 1 .. Len(m.cc[e]), kind = "full" => m.nUse[e] > 0
  PROVE  Becomes(m, TakeNext(kind, m, e, i), e,
                 IF kind = "full" THEN m.nUse[e] - 1 ELSE m.nUse[e],
                 SubSeq(m.cc[e], i + 1, Len(m.cc[e])))
<1> DEFINE rest == SubSeq(m.cc[e], i + 1, Len(m.cc[e]))
           left == [m.cc EXCEPT ![e] = rest]
           less == [m.nUse EXCEPT ![e] = m.nUse[e] - 1]
<1>1. rest \in Seq(Req \cup {NoCb})
  BY MshrFields
<1> HIDE DEF rest
<1>2. left \in [Entries -> Seq(Req \cup {NoCb})] /\ m.nFree + 1 \in Int
  BY <1>1, MshrFields
<1>3. CASE kind = "full"
  <2>1. TakeNext(kind, m, e, i) = Put(m, m.nFree + 1, less, left)
    BY <1>3, Zenon DEF TakeNext, OneMshr, Put, rest
  <2>2. m.nUse[e] - 1 \in Nat
    BY <1>3, MshrFields
  <2>3. less \in [Entries -> Nat]
    BY <2>2, MshrFields, Zenon
  <2>4. /\ TakeNext(kind, m, e, i) \in OneMshr
        /\ TakeNext(kind, m, e, i).nUse = less /\ TakeNext(kind, m, e, i).cc = left
    <3> HIDE DEF left, less
    <3> QED BY <1>2, <2>3, <2>1, Zenon DEF Put, OneMshr
  <2> QED BY <1>3, <2>4, MshrFields, SMTT(30) DEF Becomes, rest
<1>4. CASE kind = "blocking"
  <2>1. TakeNext(kind, m, e, i) = Put(m, m.nFree, m.nUse, left)
    BY <1>4, Zenon DEF TakeNext, OneMshr, Put, rest
  <2>2. /\ TakeNext(kind, m, e, i) \in OneMshr
        /\ TakeNext(kind, m, e, i).nUse = m.nUse /\ TakeNext(kind, m, e, i).cc = left
    <3>1. m.nFree \in Int /\ m.nUse \in [Entries -> Nat]
      BY MshrFields, Zenon
    <3> HIDE DEF left
    <3> QED BY <1>2, <3>1, <2>1, Zenon DEF Put, OneMshr
  <2> QED BY <1>4, <2>2, MshrFields, Zenon DEF Becomes, rest
<1> QED BY <1>3, <1>4, Zenon

(* Every use of an entry is given back. *)
LEMMA ReleaseStep ==
  ASSUME NEW m \in OneMshr, NEW e \in Entries
  PROVE  /\ Release(m, e) \in OneMshr
         /\ Release(m, e).nUse = [m.nUse EXCEPT ![e] = 0]
         /\ Release(m, e).cc = m.cc
<1>1. Release(m, e) = Put(m, m.nFree + m.nUse[e], [m.nUse EXCEPT ![e] = 0], m.cc)
  BY Zenon DEF Release, OneMshr, Put
<1>2. /\ m.nFree + m.nUse[e] \in Int /\ [m.nUse EXCEPT ![e] = 0] \in [Entries -> Nat]
      /\ m.cc \in [Entries -> Seq(Req \cup {NoCb})]
  BY MshrFields
<1> QED BY <1>2, <1>1, Zenon DEF Put, OneMshr

(* retire() after a callback that was a miss. *)
LEMMA SettleStep ==
  ASSUME NEW kind \in {"full", "blocking"}, NEW m \in OneMshr, NEW e \in Entries
  PROVE  Becomes(m, Settle(kind, m, e), e,
                 IF kind = "full" /\ m.cc[e] = <<>> THEN 0 ELSE m.nUse[e], m.cc[e])
<1>1. CASE kind = "full" /\ m.cc[e] = <<>>
  <2>1. Settle(kind, m, e) = Release(m, e)
    BY <1>1, Zenon DEF Settle
  <2>2. /\ Settle(kind, m, e) \in OneMshr /\ Settle(kind, m, e).cc = m.cc
        /\ Settle(kind, m, e).nUse = [m.nUse EXCEPT ![e] = 0]
    BY <2>1, ReleaseStep, Zenon
  <2> QED BY <1>1, <2>2, MshrFields, Zenon DEF Becomes
<1>2. CASE ~(kind = "full" /\ m.cc[e] = <<>>)
  <2>1. Settle(kind, m, e) = m
    BY <1>2, Zenon DEF Settle
  <2> QED BY <1>2, <2>1, Zenon DEF Becomes
<1> QED BY <1>1, <1>2, Zenon

(* retire() without a callback. *)
LEMMA RetireLastStep ==
  ASSUME NEW kind \in {"full", "blocking", "none"}, NEW m \in OneMshr, NEW e \in Entries
  PROVE  Becomes(m, RetireLast(kind, m, e), e,
                 IF kind = "full" THEN 0 ELSE m.nUse[e],
                 IF kind = "blocking" THEN <<>> ELSE m.cc[e])
<1>1. CASE kind = "full" /\ m.nUse[e] > 0
  <2> DEFINE less == [m.nUse EXCEPT ![e] = m.nUse[e] - 1]
             n == Put(m, m.nFree + 1, less, m.cc)
  <2>1. [m EXCEPT !.nFree = @ + 1, !.nUse[e] = @ - 1] = n
    BY Zenon DEF OneMshr, Put
  <2>2. m.nUse[e] - 1 \in Nat /\ m.nFree + 1 \in Int
    BY <1>1, MshrFields
  <2>3. less \in [Entries -> Nat]
    BY <2>2, MshrFields, Zenon
  <2>4. n \in OneMshr /\ n.nUse = less /\ n.cc = m.cc
    <3>1. m.cc \in [Entries -> Seq(Req \cup {NoCb})]
      BY MshrFields, Zenon
    <3> HIDE DEF less
    <3> QED BY <2>2, <2>3, <3>1, Zenon DEF Put, OneMshr
  <2>5. RetireLast(kind, m, e) = Release(n, e)
    BY <1>1, <2>1, Zenon DEF RetireLast
  <2> HIDE DEF n
  <2>6. /\ Release(n, e) \in OneMshr /\ Release(n, e).nUse = [n.nUse EXCEPT ![e] = 0]
        /\ Release(n, e).cc = m.cc
    BY <2>4, ReleaseStep, Zenon
  <2> QED BY <1>1, <2>4, <2>5, <2>6, MshrFields, Zenon DEF Becomes
<1>2. CASE kind = "blocking"
  <2> DEFINE none == [m.cc EXCEPT ![e] = <<>>]
  <2>1. RetireLast(kind, m, e) = Put(m, m.nFree, m.nUse, none)
    BY <1>2, Zenon DEF RetireLast, OneMshr, Put
  <2>2. none \in [Entries -> Seq(Req \cup {NoCb})]
    BY MshrFields
  <2>3. /\ RetireLast(kind, m, e) \in OneMshr /\ RetireLast(kind, m, e).nUse = m.nUse
        /\ RetireLast(kind, m, e).cc = none
    <3>1. m.nFree \in Int /\ m.nUse \in [Entries -> Nat]
      BY MshrFields, Zenon
    <3> HIDE DEF none
    <3> QED BY <2>2, <3>1, <2>1, Zenon DEF Put, OneMshr
  <2> QED BY <1>2, <2>3, MshrFields, Zenon DEF Becomes
<1>3. CASE kind = "none" \/ (kind = "full" /\ ~(m.nUse[e] > 0))
  <2>1. RetireLast(kind, m, e) = m
    BY <1>3, Zenon DEF RetireLast
  <2> QED BY <1>3, <2>1, MshrFields DEF Becomes
<1> QED BY <1>1, <1>2, <1>3, Zenon

-----------------------------------------------------------------------------
(* What keeps the lists when one entry changes: the entry is right again   *)
(* and the request that moved was queued nowhere else.                     *)
LEMMA ListsStep ==
  ASSUME IInv, NEW r \in Req, NEW k \in ReqKinds, NEW to \in Places, Goes(r, k, to),
         NEW c \in Caches, NEW e \in Entries, e = Entry(c, r),
         NEW use, NEW list, EntryStep(c, e, use, list),
         req[r].kind = "queued" => req[r].at = c,
         k = "queued" => to = c,
         Placed(r)', EntryOK(c, e)', ListOK(c, e)',
         \A q \in Req : Entry(c, q) = e => Listed(q, c)'
  PROVE  Lists'
<1>1. \A q \in Req, b \in Caches : Entry(b, q)' = Entry(b, q)
  BY Zenon DEF Goes, Entry
<1>2. ASSUME NEW d \in Caches, NEW f \in Entries PROVE EntryOK(d, f)' /\ ListOK(d, f)'
  <2>1. CASE d = c /\ f = e
    BY <1>1, <2>1 DEF EntryOK, ListOK, Use, Cc
  <2>2. CASE ~(d = c /\ f = e)
    <3>1. mshr'[d].nUse[f] = mshr[d].nUse[f] /\ mshr'[d].cc[f] = mshr[d].cc[f]
      BY <2>2, Zenon DEF EntryStep
    <3>2. EntryOK(d, f)'
      BY <3>1, Zenon DEF IInv, Lists, EntryOK, Use, Cc
    <3>3. ListOK(d, f)
      BY Zenon DEF IInv, Lists
    <3>4. ASSUME NEW q \in Req, Entry(d, q) = f, At(q, "queued", d)
          PROVE  At(q, "queued", d)'
      <4>1. q # r
        BY <2>2, <3>4, Zenon DEF At
      <4> QED BY <3>4, <4>1, Zenon DEF Goes, At
    <3>5. ListOK(d, f)'
      <4>1. Cc(d, f)' = Cc(d, f)
        BY <3>1, Zenon DEF Cc
      <4>2. \A q \in Req : Entry(d, q)' = Entry(d, q)
        BY <1>1, Zenon
      <4> QED BY <3>3, <3>4, <4>1, <4>2, ZenonT(60) DEF ListOK
    <3> QED BY <3>2, <3>5, Zenon
  <2> QED BY <2>1, <2>2, Zenon
<1>3. ASSUME NEW q \in Req PROVE Placed(q)'
  <2>1. Placed(q)
    BY Zenon DEF IInv, Lists
  <2> QED BY <2>1, Zenon DEF Placed, Goes
<1>4. ASSUME NEW q \in Req, NEW d \in Caches PROVE Listed(q, d)'
  <2>1. CASE d = c /\ Entry(d, q) = e
    BY <2>1, Zenon
  <2>2. CASE ~(d = c /\ Entry(d, q) = e)
    <3>1. mshr'[d].cc[Entry(d, q)] = mshr[d].cc[Entry(d, q)]
      <4>1. Entry(d, q) \in Entries
        BY Types, Zenon DEF IInv
      <4> QED BY <2>2, <4>1, Zenon DEF EntryStep
    <3>2. At(q, "queued", d)' => At(q, "queued", d)
      BY <2>2, Zenon DEF At, Goes
    <3>3. Listed(q, d)
      BY Zenon DEF IInv, Lists
    <3> QED BY <1>1, <3>1, <3>2, <3>3, Zenon DEF Listed, Cc
  <2> QED BY <2>1, <2>2, Zenon
<1> QED BY <1>2, <1>3, <1>4, Zenon DEF Lists

LEMMA LookupIs ==
  ASSUME NEW c, NEW r
  PROVE  Lookup(c, r) \in {"miss", "hit", "upgrade", "assert"}
BY Zenon DEF Lookup

(* The requests that doRead, doWrite and doBusRead handle. *)
Arrived(c, r) ==
  \/ req[r].kind = "cpu" /\ c = req[r].home
  \/ At(r, "busRead", L2) /\ c = L2

(* The caches that count on a request: its home while it is below it, and  *)
(* L2 while it is below L2.                                                *)
LEMMA WhoCounts ==
  ASSUME IInv, NEW r \in Req, NEW d \in Caches, Below(d, r), d = L2 \/ req[r].home = d
  PROVE  \/ req[r].kind = "pushUp" /\ (req[r].at = d \/ req[r].at = L2)
         \/ req[r].kind = "busRead" /\ (req[r].at = Mem \/ (req[r].at = L2 /\ d # L2))
         \/ req[r].kind = "queued" /\ req[r].at = L2 /\ d # L2
<1>1. req[r].home # L2
  BY Types, Zenon DEF IInv
<1> QED BY <1>1, Zenon DEF Below, At

LEMMA DownIs ==
  /\ \A c \in Caches : Down(c) \in Places /\ (c = L2 => Down(c) = Mem) /\ (c # L2 => Down(c) = L2)
  /\ L2 \in Caches /\ L2 # Mem /\ Mem \notin Caches /\ L2 \notin L1s
BY CacheAssumption, Zenon DEF Down, Places, Caches

(* A hit, of a request that has just arrived. *)
LEMMA AnsweredKeeps ==
  ASSUME IInv, NEW c \in Caches, NEW r \in Req, Arrived(c, r),
         mshr' = mshr, req' = Answered(c, r), busy' = busy
  PROVE  Lists' /\ WaitersWillBeWoken' /\ req' \in ReqType
<1>0. /\ Typed /\ req[r].home \in L1s /\ req[r].home \in Caches /\ req[r].home # L2
      /\ req[r].home \in Places
  BY Types, Zenon DEF IInv, Places
<1>1. CASE c \in L1s
  <2>1. req' = Moved(r, "done", c) /\ c = req[r].home /\ req[r].kind = "cpu"
    BY <1>1, DownIs, Zenon DEF Answered, Arrived
  <2>2. Goes(r, "done", c)
    BY <1>0, <2>1, MovedGoes, Zenon DEF ReqKinds, Places
  <2>3. Placed(r)'
    BY <2>1, <2>2, Zenon DEF Goes, Placed
  <2>4. Lists'
    BY <1>0, <2>1, <2>2, <2>3, KeepLists, Zenon DEF ReqKinds, Places
  <2>5. \A d \in Caches : ~(Below(d, r) /\ (d = L2 \/ req[r].home = d))
    BY <2>1, WhoCounts, Zenon
  <2>6. WaitersWillBeWoken'
    BY <1>0, <2>1, <2>2, <2>5, WokenStep, Zenon DEF ReqKinds, Places
  <2> QED BY <2>2, <2>4, <2>6, Zenon DEF Goes
<1>2. CASE c \notin L1s
  <2>1. req' = Moved(r, "pushUp", req[r].home) /\ At(r, "busRead", L2)
    BY <1>0, <1>2, Zenon DEF Answered, Arrived
  <2>2. Goes(r, "pushUp", req[r].home)
    BY <1>0, <2>1, MovedGoes, Zenon DEF ReqKinds
  <2>3. Placed(r)'
    BY <2>2, Zenon DEF Goes, Placed
  <2>4. Lists'
    BY <1>0, <2>1, <2>2, <2>3, KeepLists, Zenon DEF ReqKinds, At
  <2>5. ASSUME NEW d \in Caches, Below(d, r), d = L2 \/ req[r].home = d PROVE Below(d, r)'
    <3>1. d = req[r].home
      BY <2>1, <2>5, WhoCounts, DownIs, Zenon DEF At
    <3> QED BY <2>2, <3>1, Zenon DEF Below, At, Goes
  <2>6. WaitersWillBeWoken'
    BY <1>0, <2>2, <2>5, WokenStep, Zenon DEF ReqKinds
  <2> QED BY <2>2, <2>4, <2>6, Zenon DEF Goes
<1> QED BY <1>1, <1>2, Zenon

LEMMA NoCbIsNone == \A r \in Req : r # NoCb
BY CacheAssumption, Zenon

LEMMA NotBusyIs == \A d \in Caches, f \in Entries : NotBusy # <<d, f>>
BY CacheAssumption

LEMMA KindIs == \A c \in Caches : Kind[c] \in {"full", "blocking", "none"}
BY CacheAssumption, Zenon

(* addEntry of a cache's MSHR. *)
LEMMA AddEntryOf ==
  ASSUME Typed, NEW c \in Caches, NEW e \in Entries, NEW cb \in Req \cup {NoCb},
         mshr' = [mshr EXCEPT ![c] = AddEntry(Kind[c], mshr[c], e, cb)]
  PROVE  EntryStep(c, e, IF Kind[c] = "full" THEN Use(c, e) + 1 ELSE Use(c, e),
                   IF Kind[c] = "none" \/ (Kind[c] = "full" /\ cb = NoCb)
                   THEN Cc(c, e) ELSE Append(Cc(c, e), cb))
<1>1. mshr[c] \in OneMshr /\ Kind[c] \in {"full", "blocking", "none"}
  BY Types, KindIs, Zenon
<1>2. Becomes(mshr[c], AddEntry(Kind[c], mshr[c], e, cb), e,
              IF Kind[c] = "full" THEN mshr[c].nUse[e] + 1 ELSE mshr[c].nUse[e],
              IF Kind[c] = "none" \/ (Kind[c] = "full" /\ cb = NoCb) THEN mshr[c].cc[e]
              ELSE Append(mshr[c].cc[e], cb))
  BY <1>1, AddEntryStep, Zenon
<1> QED BY <1>2, OneMshrChanges, Zenon DEF Use, Cc

(* A miss that has to wait for the entry of its line. *)
LEMMA QueuedKeeps ==
  ASSUME IInv, busy = NotBusy, busy' = busy,
         NEW c \in Caches, NEW r \in Req, Arrived(c, r),
         ~CanIssue(Kind[c], mshr[c], Entry(c, r)),
         mshr' = [mshr EXCEPT ![c] = AddEntry(Kind[c], mshr[c], Entry(c, r), r)],
         req' = Moved(r, "queued", c)
  PROVE  Lists' /\ WaitersWillBeWoken' /\ req' \in ReqType /\ mshr' \in MshrType
<1>a. PICK e \in Entries : e = Entry(c, r)
  BY Types, Zenon DEF IInv
<1> DEFINE use == IF Kind[c] = "full" THEN Use(c, e) + 1 ELSE Use(c, e)
           list == Append(Cc(c, e), r)
<1>0. /\ Typed /\ req[r].home \in Caches /\ req[r].home # L2
      /\ Use(c, e) \in Nat /\ Cc(c, e) \in Seq(Req \cup {NoCb})
      /\ EntryOK(c, e) /\ ListOK(c, e)
  BY Types, Zenon DEF IInv, Lists
<1>1. /\ Kind[c] = "full" \/ Kind[c] = "blocking"
      /\ Use(c, e) > 0 \/ Cc(c, e) # <<>>
  BY <1>a, <1>0, KindIs DEF CanIssue, Use, Cc
<1>2. r # NoCb
  BY NoCbIsNone, Zenon
<1>3. EntryStep(c, e, use, list)
  <2>1. EntryStep(c, e, use, IF Kind[c] = "none" \/ (Kind[c] = "full" /\ r = NoCb)
                             THEN Cc(c, e) ELSE Append(Cc(c, e), r))
    BY <1>a, <1>0, AddEntryOf, Zenon
  <2>2. list = IF Kind[c] = "none" \/ (Kind[c] = "full" /\ r = NoCb)
               THEN Cc(c, e) ELSE Append(Cc(c, e), r)
    BY <1>1, <1>2, Zenon
  <2> QED BY <2>1, <2>2, Zenon
<1>4. Goes(r, "queued", c)
  BY <1>0, MovedGoes, Zenon DEF ReqKinds, Places
<1>5. /\ Len(list) = Len(Cc(c, e)) + 1 /\ list[Len(list)] = r
      /\ \A j \in 1 .. Len(Cc(c, e)) : list[j] = Cc(c, e)[j]
      /\ Len(Cc(c, e)) \in Nat
  BY <1>0, SMTT(30)
<1>6. \A q \in Req, b \in Caches : Entry(b, q)' = Entry(b, q)
  BY <1>4, Zenon DEF Goes, Entry
<1>7. Cc(c, e)' = list /\ Use(c, e)' = use
  BY <1>3, ZenonT(40) DEF EntryStep, Cc, Use
<1> HIDE DEF list, use
<1>8. EntryOK(c, e)'
  <2>1. Kind[c] = "full" => Len(Cc(c, e)) <= Use(c, e)
    BY <1>0, Zenon DEF EntryOK
  <2>2. Kind[c] = "full" => \A j \in 1 .. Len(list) : list[j] # NoCb
    BY <1>0, <1>2, <1>5, SMTT(30) DEF EntryOK
  <2>3. Kind[c] = "blocking" => use = 0
    BY <1>0, Zenon DEF EntryOK, use
  <2>4. Kind[c] = "full" => Len(list) <= use
    <3>1. Kind[c] = "full" => use = Use(c, e) + 1
      BY Zenon DEF use
    <3>2. Len(Cc(c, e)) \in Nat /\ Use(c, e) \in Nat /\ Len(list) = Len(Cc(c, e)) + 1
      BY <1>0, <1>5, Zenon
    <3> QED BY <2>1, <3>1, <3>2
  <2>5. Kind[c] # "none"
    BY <1>1, Zenon
  <2>6. Cc(c, e)' = list /\ Use(c, e)' = use
    BY <1>7, Zenon
  <2> QED BY <2>2, <2>3, <2>4, <2>5, <2>6, ZenonT(40) DEF EntryOK
<1>9. ListOK(c, e)'
  <2>1. \A j \in 1 .. Len(Cc(c, e)) : Cc(c, e)[j] # r
    <3>1. ~At(r, "queued", c)
      BY Zenon DEF Arrived, At
    <3> QED BY <1>0, <1>2, <3>1, Zenon DEF ListOK
  <2>2. ASSUME NEW q \in Req, q # r, At(q, "queued", c) PROVE At(q, "queued", c)'
    BY <1>4, <2>2, Zenon DEF At, Goes
  <2>3. At(r, "queued", c)'
    BY <1>4, Zenon DEF At, Goes
  <2>4. ASSUME NEW j \in 1 .. Len(list), list[j] # NoCb
        PROVE  /\ list[j] \in Req /\ Entry(c, list[j]) = e
               /\ list[j] = r \/ (list[j] # r /\ At(list[j], "queued", c))
               /\ \A l \in 1 .. Len(list) : list[l] = list[j] => j = l
    <3>1. CASE j = Len(list)
      BY <1>a, <1>5, <2>1, <3>1, SMTT(30)
    <3>2. CASE j # Len(list)
      <4>1. j \in 1 .. Len(Cc(c, e)) /\ list[j] = Cc(c, e)[j]
        BY <1>5, <3>2
      <4> QED BY <1>0, <1>5, <2>1, <2>4, <4>1, SMTT(30) DEF ListOK
    <3> QED BY <3>1, <3>2, Zenon
  <2>5. ASSUME NEW j \in 1 .. Len(list), list[j] # NoCb, NEW q, q = list[j]
        PROVE  q \in Req /\ Entry(c, q)' = e /\ At(q, "queued", c)'
    BY <1>6, <2>2, <2>3, <2>4, <2>5, Zenon
  <2> QED BY <1>7, <2>4, <2>5, <1>6, Zenon DEF ListOK
<1>10. ASSUME NEW q \in Req, Entry(c, q) = e PROVE Listed(q, c)'
  <2>1. Listed(q, c)
    BY Zenon DEF IInv, Lists
  <2>2. CASE q = r
    BY <1>a, <1>5, <1>6, <1>7, <1>10, <2>2, SMTT(30) DEF Listed, Cc
  <2>3. CASE q # r
    <3>1. At(q, "queued", c)' => At(q, "queued", c)
      BY <1>4, <2>3, Zenon DEF At, Goes
    <3>2. At(q, "queued", c) => \E j \in 1 .. Len(Cc(c, e)) : Cc(c, e)[j] = q
      BY <1>10, <2>1, Zenon DEF Listed
    <3>3. At(q, "queued", c) => \E j \in 1 .. Len(list) : list[j] = q
      BY <1>5, <3>2, SMTT(30)
    <3> QED BY <1>6, <1>7, <1>10, <3>1, <3>3, Zenon DEF Listed, Cc
  <2> QED BY <2>2, <2>3, Zenon
<1>11. Lists'
  <2>1. Placed(r)'
    BY <1>4, Zenon DEF Placed, Goes, Arrived
  <2>2. req[r].kind # "queued"
    BY Zenon DEF Arrived, At
  <2> QED BY <1>3, <1>4, <1>8, <1>9, <1>10, <1>a, <2>1, <2>2, ListsStep, ZenonT(40) DEF ReqKinds, Places
<1>12. WaitersWillBeWoken'
  <2>1. ASSUME NEW d \in Caches, Below(d, r), d = L2 \/ req[r].home = d PROVE Below(d, r)'
    <3>1. c = L2 /\ d # L2
      BY <2>1, WhoCounts, DownIs, Zenon DEF Arrived, At
    <3> QED BY <1>4, <2>1, <3>1, Zenon DEF Below, At, Goes
  <2>2. ASSUME NEW d \in Caches, NEW f \in Entries,
               mshr'[d].nUse[f] > 0 \/ mshr'[d].cc[f] # <<>>
        PROVE  busy # <<d, f>> /\ (mshr[d].nUse[f] > 0 \/ mshr[d].cc[f] # <<>>)
    <3>1. busy # <<d, f>>
      BY NotBusyIs, ZenonT(40)
    <3> QED BY <1>1, <1>3, <2>2, <3>1, Zenon DEF EntryStep, Use, Cc
  <2> QED BY <1>4, <2>1, <2>2, WokenStep, ZenonT(40) DEF ReqKinds, Places
<1> QED BY <1>3, <1>4, <1>11, <1>12, Zenon DEF Goes, EntryStep

(* A miss or an upgrade that goes down: the entry is in use, and r will    *)
(* retire it.                                                              *)
LEMMA SentIsBelow ==
  ASSUME IInv, NEW c \in Caches, NEW r \in Req, c = req[r].home \/ c = L2,
         Goes(r, "busRead", Down(c))
  PROVE  /\ Below(c, r)' /\ Placed(r)'
         /\ \A d \in Caches : req[r].home = d /\ c = L2 => Below(d, r)'
<1>1. req[r].home # L2 /\ req[r].home \in Caches
  BY Types, Zenon DEF IInv
<1>2. (c = L2 => Down(c) = Mem) /\ (c # L2 => Down(c) = L2)
  BY DownIs, Zenon
<1> QED BY <1>1, <1>2, Zenon DEF Below, At, Goes, Placed

LEMMA SentKeeps ==
  ASSUME IInv, busy = NotBusy, busy' = busy,
         NEW c \in Caches, NEW r \in Req, Arrived(c, r),
         mshr' = [mshr EXCEPT ![c] = AddEntry(Kind[c], mshr[c], Entry(c, r), NoCb)],
         req' = Moved(r, "busRead", Down(c))
  PROVE  Lists' /\ WaitersWillBeWoken' /\ req' \in ReqType /\ mshr' \in MshrType
<1>a. PICK e \in Entries : e = Entry(c, r)
  BY Types, Zenon DEF IInv
<1> DEFINE use == IF Kind[c] = "full" THEN Use(c, e) + 1 ELSE Use(c, e)
           list == IF Kind[c] = "blocking" THEN Append(Cc(c, e), NoCb) ELSE Cc(c, e)
<1>0. /\ Typed /\ req[r].home \in Caches /\ req[r].home # L2
      /\ Use(c, e) \in Nat /\ Cc(c, e) \in Seq(Req \cup {NoCb})
      /\ EntryOK(c, e) /\ ListOK(c, e) /\ Down(c) \in Places
  BY Types, DownIs, Zenon DEF IInv, Lists
<1>1. EntryStep(c, e, use, list)
  <2>1. EntryStep(c, e, use, IF Kind[c] = "none" \/ (Kind[c] = "full" /\ NoCb = NoCb)
                             THEN Cc(c, e) ELSE Append(Cc(c, e), NoCb))
    BY <1>a, <1>0, AddEntryOf, Zenon
  <2>2. list = IF Kind[c] = "none" \/ (Kind[c] = "full" /\ NoCb = NoCb)
               THEN Cc(c, e) ELSE Append(Cc(c, e), NoCb)
    BY KindIs, Zenon
  <2> QED BY <2>1, <2>2, Zenon
<1>2. Goes(r, "busRead", Down(c))
  BY <1>0, MovedGoes, Zenon DEF ReqKinds
<1>3. /\ Len(list) \in Nat
      /\ \A j \in 1 .. Len(list) : list[j] # NoCb => j \in 1 .. Len(Cc(c, e))
      /\ \A j \in 1 .. Len(Cc(c, e)) : j \in 1 .. Len(list) /\ list[j] = Cc(c, e)[j]
      /\ Kind[c] # "blocking" => list = Cc(c, e)
  BY <1>0, SMTT(30)
<1>4. \A q \in Req, b \in Caches : Entry(b, q)' = Entry(b, q)
  BY <1>2, Zenon DEF Goes, Entry
<1>5. Cc(c, e)' = list /\ Use(c, e)' = use
  BY <1>1, Zenon DEF EntryStep, Cc, Use
<1> HIDE DEF list
<1>6. EntryOK(c, e)'
  BY <1>0, <1>3, <1>5, SMTT(30) DEF EntryOK
<1> HIDE DEF use
<1>7. req[r].kind # "queued"
  BY Zenon DEF Arrived, At
<1>8. \A q \in Req : At(q, "queued", c)' <=> At(q, "queued", c)
  BY <1>2, <1>7, Zenon DEF At, Goes
<1>9. ListOK(c, e)'
  BY <1>0, <1>3, <1>4, <1>5, <1>8, Zenon DEF ListOK
<1>10. ASSUME NEW q \in Req, Entry(c, q) = e PROVE Listed(q, c)'
  <2>1. Listed(q, c)
    BY Zenon DEF IInv, Lists
  <2>2. At(q, "queued", c) => \E j \in 1 .. Len(list) : list[j] = q
    BY <1>3, <1>10, <2>1, Zenon DEF Listed
  <2> QED BY <1>4, <1>5, <1>8, <1>10, <2>2, Zenon DEF Listed, Cc
<1>11. c = req[r].home \/ c = L2
  BY Zenon DEF Arrived
<1>12. Lists'
  <2>1. Placed(r)'
    BY <1>2, <1>11, SentIsBelow, Zenon
  <2> QED BY <1>a, <1>0, <1>1, <1>2, <1>6, <1>7, <1>9, <1>10, <2>1, ListsStep, ZenonT(40) DEF ReqKinds
<1>13. WaitersWillBeWoken'
  <2>1. ASSUME NEW d \in Caches, Below(d, r), d = L2 \/ req[r].home = d PROVE Below(d, r)'
    <3>1. c = L2 /\ d # L2
      BY <2>1, WhoCounts, DownIs, Zenon DEF Arrived, At
    <3> QED BY <1>2, <1>11, <2>1, <3>1, SentIsBelow, Zenon
  <2>2. ASSUME NEW d \in Caches, NEW f \in Entries,
               mshr'[d].nUse[f] > 0 \/ mshr'[d].cc[f] # <<>>
        PROVE  \/ busy # <<d, f>> /\ (mshr[d].nUse[f] > 0 \/ mshr[d].cc[f] # <<>>)
               \/ f = Entry(d, r) /\ (d = L2 \/ req[r].home = d) /\ Below(d, r)'
    <3>1. busy # <<d, f>>
      BY NotBusyIs, ZenonT(40)
    <3>2. CASE d = c /\ f = e
      BY <1>a, <1>2, <1>11, <3>2, SentIsBelow, ZenonT(40)
    <3>3. CASE ~(d = c /\ f = e)
      BY <1>1, <2>2, <3>1, <3>3, Zenon DEF EntryStep
    <3> QED BY <3>2, <3>3, Zenon
  <2> QED BY <1>0, <1>2, <2>1, <2>2, WokenStep, ZenonT(40) DEF ReqKinds
<1> QED BY <1>1, <1>2, <1>12, <1>13, Zenon DEF Goes, EntryStep

(* retire() with no callback left frees the entry, and no request is       *)
(* queued on it.                                                           *)
LEMMA RetireEndsKeeps ==
  ASSUME IInv, RetireEnds
  PROVE  IInv'
<1>1. PICK c \in Caches, e \in Entries : busy = <<c, e>>
  BY DEF IInv, Typed, RetireEnds
<1>2. /\ NextCb(Kind[c], mshr[c], e) = 0
      /\ mshr' = [mshr EXCEPT ![c] = RetireLast(Kind[c], mshr[c], e)]
      /\ busy' = NotBusy /\ req' = req /\ line' = line /\ ok' = ok
      /\ pendingReads' = pendingReads /\ pendingWrites' = pendingWrites
  BY <1>1, Zenon DEF RetireEnds
<1>3. /\ Typed /\ Use(c, e) \in Nat /\ Cc(c, e) \in Seq(Req \cup {NoCb})
      /\ EntryOK(c, e) /\ mshr[c] \in OneMshr
  BY Types, Zenon DEF IInv, Lists
<1>4. \/ Kind[c] = "none"
      \/ Kind[c] = "full" /\ Use(c, e) = 0
      \/ \A j \in 1 .. Len(Cc(c, e)) : Cc(c, e)[j] = NoCb
  <2>1. FirstCb(c, e, 0)
    BY <1>2, <1>3, NextCbFirst, Zenon
  <2> QED BY <2>1 DEF FirstCb
<1>5. /\ \A j \in 1 .. Len(Cc(c, e)) : Cc(c, e)[j] = NoCb
      /\ Kind[c] # "blocking" => Cc(c, e) = <<>>
      /\ Kind[c] # "full" => Use(c, e) = 0
  <2>1. CASE Kind[c] = "none"
    BY <1>3, <2>1, SMTT(30) DEF EntryOK
  <2>2. CASE Kind[c] = "blocking"
    BY <1>3, <1>4, <2>2, Zenon DEF EntryOK
  <2>3. CASE Kind[c] = "full"
    <3>1. Len(Cc(c, e)) = 0
      BY <1>3, <1>4, <2>3 DEF EntryOK
    <3> QED BY <1>3, <2>3, <3>1, SMTT(30)
  <2> QED BY <2>1, <2>2, <2>3, KindIs, Zenon
<1>6. EntryStep(c, e, 0, <<>>)
  <2>1. Becomes(mshr[c], RetireLast(Kind[c], mshr[c], e), e,
                IF Kind[c] = "full" THEN 0 ELSE mshr[c].nUse[e],
                IF Kind[c] = "blocking" THEN <<>> ELSE mshr[c].cc[e])
    BY <1>3, KindIs, RetireLastStep, Zenon
  <2>2. /\ (IF Kind[c] = "full" THEN 0 ELSE mshr[c].nUse[e]) = 0
        /\ (IF Kind[c] = "blocking" THEN <<>> ELSE mshr[c].cc[e]) = <<>>
    BY <1>5, Zenon DEF Use, Cc
  <2>3. Becomes(mshr[c], RetireLast(Kind[c], mshr[c], e), e, 0, <<>>)
    BY <2>1, <2>2, Zenon
  <2> QED BY <1>2, <1>3, <2>3, OneMshrChanges, Zenon
<1>7. Typed'
  <2>1. mshr' \in MshrType
    BY <1>6, Zenon DEF EntryStep
  <2> QED BY <1>2, <1>3, <2>1, Zenon DEF Typed, MshrType, OneMshr
<1>8. Lists'
  <2>1. ASSUME NEW d \in Caches, NEW f \in Entries PROVE EntryOK(d, f)' /\ ListOK(d, f)'
    <3>1. CASE d = c /\ f = e
      <4>1. mshr'[d].nUse[f] = 0 /\ mshr'[d].cc[f] = <<>>
        BY <1>6, <3>1, Zenon DEF EntryStep
      <4> QED BY <4>1, SMTT(30) DEF EntryOK, ListOK, Cc, Use
    <3>2. CASE ~(d = c /\ f = e)
      <4>1. mshr'[d].nUse[f] = mshr[d].nUse[f] /\ mshr'[d].cc[f] = mshr[d].cc[f]
        BY <1>6, <3>2, Zenon DEF EntryStep
      <4>2. EntryOK(d, f) /\ ListOK(d, f)
        BY Zenon DEF IInv, Lists
      <4>3. EntryOK(d, f)'
        BY <4>1, <4>2, Zenon DEF EntryOK, Cc, Use
      <4>4. \A q \in Req : Entry(d, q)' = Entry(d, q) /\ (At(q, "queued", d)' <=> At(q, "queued", d))
        BY <1>2, Zenon DEF Entry, At
      <4>5. ListOK(d, f)'
        BY <4>1, <4>2, <4>4 DEF ListOK, Cc
      <4> QED BY <4>3, <4>5, Zenon
    <3> QED BY <3>1, <3>2, Zenon
  <2>2. ASSUME NEW q \in Req, NEW d \in Caches PROVE Listed(q, d)'
    <3>1. Listed(q, d) /\ Entry(d, q) \in Entries
      BY Types, Zenon DEF IInv, Lists
    <3>2. CASE d = c /\ Entry(d, q) = e
      <4>1. ~At(q, "queued", c)
        BY <1>5, <3>1, <3>2, NoCbIsNone, Zenon DEF Listed
      <4> QED BY <1>2, <3>2, <4>1, Zenon DEF Listed, At
    <3>3. CASE ~(d = c /\ Entry(d, q) = e)
      <4>1. mshr'[d].cc[Entry(d, q)] = mshr[d].cc[Entry(d, q)]
        BY <1>6, <3>1, <3>3, Zenon DEF EntryStep
      <4> QED BY <1>2, <3>1, <4>1, Zenon DEF Listed, Entry, At, Cc
    <3> QED BY <3>2, <3>3, Zenon
  <2>3. \A q \in Req : Placed(q)'
    BY <1>2, Zenon DEF IInv, Lists, Placed
  <2> QED BY <2>1, <2>2, <2>3, Zenon DEF Lists
<1>9. WaitersWillBeWoken'
  <2> SUFFICES ASSUME NEW d \in Caches, NEW f \in Entries,
                      mshr'[d].nUse[f] > 0 \/ mshr'[d].cc[f] # <<>>
               PROVE  \E r \in Req : Entry(d, r)' = f /\ (d = L2 \/ req'[r].home = d) /\ Below(d, r)'
    BY Zenon DEF WaitersWillBeWoken
  <2>1. ~(d = c /\ f = e)
    BY <1>6, SMTT(30) DEF EntryStep
  <2>2. /\ mshr'[d].nUse[f] = mshr[d].nUse[f] /\ mshr'[d].cc[f] = mshr[d].cc[f]
        /\ busy # <<d, f>>
    BY <1>1, <1>6, <2>1, Zenon DEF EntryStep
  <2>3. PICK r \in Req : Entry(d, r) = f /\ (d = L2 \/ req[r].home = d) /\ Below(d, r)
    BY <2>2, Zenon DEF IInv, WaitersWillBeWoken
  <2> QED BY <1>2, <2>3, Zenon DEF Entry, Below, At
<1> QED BY <1>7, <1>8, <1>9, Zenon DEF IInv

(* retire() takes the first callback, of r, out of the list: the list that *)
(* is left, with or without an item of r's own, is right when r has moved. *)
(* Taking the callback at position i, the first one, from list q leaves    *)
(* list: the items after i, and perhaps an item without callback.          *)
Leaves(q, i, list) ==
  /\ i \in 1 .. Len(q) /\ Len(list) \in Nat
  /\ \A j \in 1 .. Len(q) : q[j] # NoCb => i <= j
  /\ \A j \in 1 .. Len(list) : list[j] # NoCb => i + j \in 1 .. Len(q) /\ list[j] = q[i + j]
  /\ \A j \in i + 1 .. Len(q) : j - i \in 1 .. Len(list) /\ list[j - i] = q[j]

LEMMA Shorter ==
  ASSUME NEW n \in Nat, NEW i \in 1 .. n, NEW u \in Nat, n <= u, NEW l, l = n - i
  PROVE  l <= u /\ l <= u - 1
OBVIOUS

LEMMA BackAgain ==
  ASSUME NEW u \in Nat
  PROVE  u - 1 + 1 = u
OBVIOUS

LEMMA Padded ==
  ASSUME NEW S, NEW q \in Seq(S), NEW x \in S, NEW l, l = Append(q, x)
  PROVE  /\ Len(l) \in Nat
         /\ \A j \in 1 .. Len(l) : l[j] # x => j \in 1 .. Len(q) /\ l[j] = q[j]
         /\ \A j \in 1 .. Len(q) : j \in 1 .. Len(l) /\ l[j] = q[j]
OBVIOUS

LEMMA LenIs ==
  ASSUME NEW S, NEW q \in Seq(S)
  PROVE  Len(q) \in Nat
OBVIOUS

LEMMA Beyond ==
  ASSUME NEW n \in Nat, NEW m \in Nat, NEW i \in 1 .. n, NEW j \in 1 .. m
  PROVE  i + j # i
OBVIOUS

LEMMA Cancel ==
  ASSUME NEW n \in Nat, NEW m \in Nat, NEW i \in 1 .. n, NEW j \in 1 .. m, NEW l \in 1 .. m,
         i + j = i + l
  PROVE  j = l
OBVIOUS

LEMMA TakenEntry ==
  ASSUME IInv, NEW c \in Caches, NEW e \in Entries, NEW i,
         NEW r \in Req, r = Cc(c, e)[i],
         NEW k \in ReqKinds \ {"queued"}, NEW to \in Places, Goes(r, k, to),
         NEW use, NEW list, EntryStep(c, e, use, list), Leaves(Cc(c, e), i, list),
         EntryOK(c, e)', Placed(r)'
  PROVE  /\ e = Entry(c, r) /\ (req[r].kind = "queued" => req[r].at = c)
         /\ ListOK(c, e)'
         /\ \A q \in Req : Entry(c, q) = e => Listed(q, c)'
<1>0. Typed /\ ListOK(c, e)
  BY Zenon DEF IInv, Lists
<1>1. /\ Cc(c, e) \in Seq(Req \cup {NoCb}) /\ Len(Cc(c, e)) \in Nat /\ ListOK(c, e)
  <2>1. Cc(c, e) \in Seq(Req \cup {NoCb})
    BY <1>0, Types, Zenon
  <2>2. Len(Cc(c, e)) \in Nat
    BY <2>1
  <2> QED BY <1>0, <2>1, <2>2, Zenon
<1>a. /\ i \in 1 .. Len(Cc(c, e)) /\ Len(list) \in Nat
      /\ \A j \in 1 .. Len(Cc(c, e)) : Cc(c, e)[j] # NoCb => i <= j
  BY Zenon DEF Leaves
<1>b. \A j \in 1 .. Len(list) : list[j] # NoCb =>
        i + j \in 1 .. Len(Cc(c, e)) /\ list[j] = Cc(c, e)[i + j]
  BY Zenon DEF Leaves
<1>c. \A j \in i + 1 .. Len(Cc(c, e)) :
        j - i \in 1 .. Len(list) /\ list[j - i] = Cc(c, e)[j]
  BY Zenon DEF Leaves
<1>2. r # NoCb
  BY NoCbIsNone, Zenon
<1>3. /\ Entry(c, r) = e /\ At(r, "queued", c)
      /\ \A j \in 1 .. Len(Cc(c, e)) : Cc(c, e)[j] = r => i = j
  BY <1>1, <1>2, <1>a, Zenon DEF ListOK
<1>4. \A q \in Req, b \in Caches : Entry(b, q)' = Entry(b, q)
  BY Zenon DEF Goes, Entry
<1>5. Cc(c, e)' = list
  BY Zenon DEF EntryStep, Cc
<1>6. \A q \in Req : q # r => (At(q, "queued", c)' <=> At(q, "queued", c))
  BY Zenon DEF At, Goes
<1>7. ListOK(c, e)'
  <2>1. ASSUME NEW j \in 1 .. Len(list), list[j] # NoCb
        PROVE  /\ list[j] \in Req /\ list[j] # r
               /\ Entry(c, list[j]) = e /\ At(list[j], "queued", c)
               /\ \A l \in 1 .. Len(list) : list[l] = list[j] => j = l
    <3>1. i + j \in 1 .. Len(Cc(c, e)) /\ list[j] = Cc(c, e)[i + j] /\ i + j # i
      BY <1>1, <1>a, <1>b, <2>1, Beyond, Zenon
    <3>2. /\ list[j] \in Req /\ Entry(c, list[j]) = e /\ At(list[j], "queued", c)
          /\ \A l \in 1 .. Len(Cc(c, e)) : Cc(c, e)[l] = list[j] => i + j = l
      BY <1>1, <2>1, <3>1, ZenonT(40) DEF ListOK
    <3>3. list[j] # r
      BY <1>3, <3>1, Zenon
    <3>4. ASSUME NEW l \in 1 .. Len(list), list[l] = list[j] PROVE j = l
      <4>1. i + l \in 1 .. Len(Cc(c, e)) /\ Cc(c, e)[i + l] = list[j]
        BY <1>b, <2>1, <3>4, Zenon
      <4>2. i + j = i + l
        BY <3>2, <4>1, Zenon
      <4> QED BY <1>1, <1>a, <4>2, Cancel, Zenon
    <3> QED BY <3>2, <3>3, <3>4, Zenon
  <2>2. ASSUME NEW j \in 1 .. Len(list), list[j] # NoCb, NEW q, q = list[j]
        PROVE  q \in Req /\ Entry(c, q)' = e /\ At(q, "queued", c)'
    BY <1>4, <1>6, <2>1, <2>2, Zenon
  <2> QED BY <1>5, <2>1, <2>2, Zenon DEF ListOK
<1>8. ASSUME NEW q \in Req, Entry(c, q) = e PROVE Listed(q, c)'
  <2>1. Listed(q, c)
    BY Zenon DEF IInv, Lists
  <2>2. CASE q = r
    BY <2>2, Zenon DEF Listed, At, Goes
  <2>3. CASE q # r /\ At(q, "queued", c)
    <3>1. PICK j \in 1 .. Len(Cc(c, e)) : Cc(c, e)[j] = q
      BY <1>8, <2>1, <2>3, Zenon DEF Listed
    <3>2. i <= j /\ i # j
      BY <1>a, <2>3, <3>1, NoCbIsNone, Zenon
    <3>3. j \in i + 1 .. Len(Cc(c, e))
      BY <1>1, <1>a, <3>2
    <3>4. \E l \in 1 .. Len(list) : list[l] = q
      BY <1>c, <3>1, <3>3, Zenon
    <3> QED BY <1>4, <1>5, <1>8, <3>4, Zenon DEF Listed, Cc
  <2>4. CASE q # r /\ ~At(q, "queued", c)
    BY <1>6, <2>4, Zenon DEF Listed
  <2> QED BY <2>2, <2>3, <2>4, Zenon
<1>9. e = Entry(c, r) /\ (req[r].kind = "queued" => req[r].at = c)
  BY <1>3, Zenon DEF At
<1>10. \A q \in Req : Entry(c, q) = e => Listed(q, c)'
  BY <1>8, ZenonT(40)
<1> QED BY <1>7, <1>9, <1>10, Zenon

LEMMA TakenLists ==
  ASSUME IInv, NEW c \in Caches, NEW e \in Entries, NEW i,
         NEW r \in Req, r = Cc(c, e)[i],
         NEW k \in ReqKinds \ {"queued"}, NEW to \in Places, Goes(r, k, to),
         NEW use, NEW list, EntryStep(c, e, use, list), Leaves(Cc(c, e), i, list),
         EntryOK(c, e)', Placed(r)'
  PROVE  Lists'
<1>1. k \in ReqKinds /\ (k = "queued" => to = c)
  BY Zenon
<1>2. /\ e = Entry(c, r) /\ (req[r].kind = "queued" => req[r].at = c)
      /\ ListOK(c, e)' /\ \A q \in Req : Entry(c, q) = e => Listed(q, c)'
  BY TakenEntry, Zenon
<1> QED BY <1>1, <1>2, ListsStep, Zenon

(* The state in which retire() calls the callback of r. *)
LEMMA Called ==
  ASSUME IInv, NEW c \in Caches, NEW e \in Entries, NEW i,
         i = NextCb(Kind[c], mshr[c], e), i > 0
  PROVE  /\ i \in 1 .. Len(Cc(c, e)) /\ Cc(c, e)[i] \in Req
         /\ \A j \in 1 .. Len(Cc(c, e)) : Cc(c, e)[j] # NoCb => i <= j
         /\ Kind[c] \in {"full", "blocking"}
         /\ Kind[c] = "full" => Use(c, e) > 0
         /\ Entry(c, Cc(c, e)[i]) = e /\ At(Cc(c, e)[i], "queued", c)
         /\ c = req[Cc(c, e)[i]].home \/ c = L2
<1>1. /\ Typed /\ Cc(c, e) \in Seq(Req \cup {NoCb}) /\ ListOK(c, e)
  BY Types, Zenon DEF IInv, Lists
<1>2. /\ i \in 1 .. Len(Cc(c, e)) /\ Cc(c, e)[i] # NoCb
      /\ \A j \in 1 .. Len(Cc(c, e)) : Cc(c, e)[j] # NoCb => i <= j
      /\ Kind[c] # "none" /\ (Kind[c] = "full" => Use(c, e) > 0)
  <2>1. FirstCb(c, e, i)
    BY <1>1, NextCbFirst, Zenon
  <2>2. i # 0
    OBVIOUS
  <2> QED BY <2>1, <2>2, Zenon DEF FirstCb
<1>3. Cc(c, e)[i] \in Req /\ Entry(c, Cc(c, e)[i]) = e /\ At(Cc(c, e)[i], "queued", c)
  BY <1>1, <1>2, ZenonT(40) DEF ListOK
<1>4. PICK r \in Req : r = Cc(c, e)[i]
  BY <1>3, Zenon
<1>5. Placed(r)
  BY Zenon DEF IInv, Lists
<1>6. c = req[r].home \/ c = L2
  BY <1>3, <1>4, <1>5, Zenon DEF Placed, At
<1> QED BY <1>2, <1>3, <1>4, <1>6, KindIs, Zenon

LEMMA RestIs ==
  ASSUME NEW S, NEW s \in Seq(S), NEW i \in 1 .. Len(s)
  PROVE  LET rest == SubSeq(s, i + 1, Len(s)) IN
         /\ rest \in Seq(S) /\ Len(rest) = Len(s) - i
         /\ \A j \in 1 .. Len(rest) : i + j \in 1 .. Len(s) /\ rest[j] = s[i + j]
         /\ \A j \in i + 1 .. Len(s) : j - i \in 1 .. Len(rest) /\ rest[j - i] = s[j]
<1> DEFINE rest == SubSeq(s, i + 1, Len(s))
<1>1. rest \in Seq(S) /\ Len(rest) = Len(s) - i
  OBVIOUS
<1>2. \A j \in 1 .. Len(rest) : i + j \in 1 .. Len(s) /\ rest[j] = s[i + j]
  OBVIOUS
<1> HIDE DEF rest
<1>3. \A j \in i + 1 .. Len(s) : j - i \in 1 .. Len(rest) /\ i + (j - i) = j
  BY <1>1
<1>4. \A j \in i + 1 .. Len(s) : rest[j - i] = s[j]
  BY <1>2, <1>3, Zenon
<1> QED BY <1>1, <1>2, <1>3, <1>4, Zenon DEF rest

(* TakeNext of a cache's MSHR. *)
LEMMA TakeNextOf ==
  ASSUME IInv, NEW c \in Caches, NEW e \in Entries, NEW i,
         i = NextCb(Kind[c], mshr[c], e), i > 0
  PROVE  Becomes(mshr[c], TakeNext(Kind[c], mshr[c], e, i), e,
                 IF Kind[c] = "full" THEN Use(c, e) - 1 ELSE Use(c, e),
                 SubSeq(Cc(c, e), i + 1, Len(Cc(c, e))))
<1>1. /\ i \in 1 .. Len(Cc(c, e)) /\ Kind[c] \in {"full", "blocking"}
      /\ Kind[c] = "full" => Use(c, e) > 0
  BY Called, Zenon
<1>2. mshr[c] \in OneMshr
  BY Types, Zenon DEF IInv
<1>3. i \in 1 .. Len(mshr[c].cc[e]) /\ (Kind[c] = "full" => mshr[c].nUse[e] > 0)
  BY <1>1, Zenon DEF Use, Cc
<1> QED BY <1>1, <1>2, <1>3, TakeNextStep, ZenonT(40) DEF Use, Cc

(* A callback that hits. *)
LEMMA CalledHit ==
  ASSUME IInv, NEW c \in Caches, NEW e \in Entries, NEW i,
         i = NextCb(Kind[c], mshr[c], e), i > 0,
         NEW r, r = Cc(c, e)[i],
         busy = <<c, e>>, busy' = busy,
         mshr' = [mshr EXCEPT ![c] = TakeNext(Kind[c], mshr[c], e, i)],
         req' = Answered(c, r)
  PROVE  Lists' /\ WaitersWillBeWoken' /\ req' \in ReqType /\ mshr' \in MshrType
<1> DEFINE t == TakeNext(Kind[c], mshr[c], e, i)
           rest == SubSeq(Cc(c, e), i + 1, Len(Cc(c, e)))
           use == IF Kind[c] = "full" THEN Use(c, e) - 1 ELSE Use(c, e)
<1>0. /\ Typed /\ Use(c, e) \in Nat /\ Cc(c, e) \in Seq(Req \cup {NoCb}) /\ EntryOK(c, e)
  BY Types, ZenonT(40) DEF IInv, Lists
<1>1. /\ i \in 1 .. Len(Cc(c, e)) /\ r \in Req
      /\ \A j \in 1 .. Len(Cc(c, e)) : Cc(c, e)[j] # NoCb => i <= j
      /\ Kind[c] \in {"full", "blocking"}
      /\ Kind[c] = "full" => Use(c, e) > 0
      /\ Entry(c, r) = e /\ At(r, "queued", c) /\ (c = req[r].home \/ c = L2)
  BY Called
<1>2. req[r].home \in L1s /\ req[r].home \in Caches /\ req[r].home # L2 /\ L2 \notin L1s
  BY <1>0, <1>1, Types, DownIs, Zenon
<1>3. EntryStep(c, e, use, rest)
  BY <1>0, TakeNextOf, OneMshrChanges, Zenon
<1>4. /\ rest \in Seq(Req \cup {NoCb}) /\ Len(rest) = Len(Cc(c, e)) - i
      /\ \A j \in 1 .. Len(rest) : i + j \in 1 .. Len(Cc(c, e)) /\ rest[j] = Cc(c, e)[i + j]
      /\ \A j \in i + 1 .. Len(Cc(c, e)) : j - i \in 1 .. Len(rest) /\ rest[j - i] = Cc(c, e)[j]
  BY <1>0, <1>1, RestIs, ZenonT(40)
<1> HIDE DEF rest
<1>5. EntryOK(c, e)'
  <2>1. Cc(c, e)' = rest /\ Use(c, e)' = use
    BY <1>3, Zenon DEF EntryStep, Cc, Use
  <2>2. Kind[c] = "full" => \A j \in 1 .. Len(rest) : rest[j] # NoCb
    BY <1>0, <1>4 DEF EntryOK
  <2>3. Kind[c] = "full" => Len(Cc(c, e)) <= Use(c, e)
    BY <1>0, Zenon DEF EntryOK
  <2>4. Kind[c] = "full" => Len(rest) <= use
    <3>1. Len(Cc(c, e)) \in Nat
      BY <1>0
    <3> QED BY <1>0, <1>1, <1>4, <2>3, <3>1, Shorter, Zenon
  <2>5. Kind[c] = "blocking" => use = 0
    BY <1>0, <1>1, ZenonT(40) DEF EntryOK
  <2> QED BY <1>1, <2>1, <2>2, <2>4, <2>5, Zenon DEF EntryOK
<1> HIDE DEF use
<1>6. PICK k \in {"done", "pushUp"}, to \in Caches : Goes(r, k, to) /\ to = req[r].home
        /\ (k = "done" => c # L2)
  <2>1. CASE c \in L1s
    <3>1. req' = Moved(r, "done", c) /\ c = req[r].home
      BY <1>1, <1>2, <2>1, Zenon DEF Answered
    <3>2. Goes(r, "done", c)
      BY <1>0, <1>1, <3>1, MovedGoes, Zenon DEF ReqKinds, Places
    <3> QED BY <1>2, <2>1, <3>1, <3>2, Zenon
  <2>2. CASE c \notin L1s
    <3>1. req' = Moved(r, "pushUp", req[r].home)
      BY <2>2, Zenon DEF Answered
    <3>2. Goes(r, "pushUp", req[r].home)
      BY <1>0, <1>1, <1>2, <3>1, MovedGoes, Zenon DEF ReqKinds, Places
    <3> QED BY <1>2, <3>2, ZenonT(40)
  <2> QED BY <2>1, <2>2, Zenon
<1>7. k \in ReqKinds \ {"queued"} /\ k \in ReqKinds /\ to \in Places
  BY Zenon DEF ReqKinds, Places
<1>8. Lists'
  <2>1. Placed(r)'
    BY <1>1, <1>6, ZenonT(40) DEF Placed, Goes
  <2>2. /\ Len(rest) \in Nat
        /\ \A j \in 1 .. Len(rest) : rest[j] # NoCb =>
             i + j \in 1 .. Len(Cc(c, e)) /\ rest[j] = Cc(c, e)[i + j]
    BY <1>4, SMTT(30)
  <2>3. \A j \in i + 1 .. Len(Cc(c, e)) : j - i \in 1 .. Len(rest) /\ rest[j - i] = Cc(c, e)[j]
    BY <1>4, Zenon
  <2>4. Leaves(Cc(c, e), i, rest)
    BY <1>1, <2>2, <2>3, Zenon DEF Leaves
  <2> QED BY <1>1, <1>3, <1>5, <1>6, <1>7, <2>1, <2>4, TakenLists, Zenon
<1>9. WaitersWillBeWoken'
  <2>1. ASSUME NEW d \in Caches, Below(d, r), d = L2 \/ req[r].home = d PROVE Below(d, r)'
    <3>1. c = L2 /\ d = req[r].home
      BY <1>1, <2>1, WhoCounts, Zenon DEF At
    <3> QED BY <1>1, <1>6, <3>1, Zenon DEF Below, At, Goes
  <2>2. ASSUME NEW d \in Caches, NEW f \in Entries, busy' # <<d, f>>,
               mshr'[d].nUse[f] > 0 \/ mshr'[d].cc[f] # <<>>
        PROVE  busy # <<d, f>> /\ (mshr[d].nUse[f] > 0 \/ mshr[d].cc[f] # <<>>)
    BY <1>3, <2>2, Zenon DEF EntryStep
  <2> QED BY <1>1, <1>6, <1>7, <2>1, <2>2, WokenStep, ZenonT(40)
<1> QED BY <1>3, <1>6, <1>8, <1>9, Zenon DEF Goes, EntryStep

(* A callback that goes down as a miss or an upgrade of its own. *)
LEMMA CalledMiss ==
  ASSUME IInv, NEW c \in Caches, NEW e \in Entries, NEW i,
         i = NextCb(Kind[c], mshr[c], e), i > 0,
         NEW r, r = Cc(c, e)[i],
         busy = <<c, e>>, busy' = NotBusy,
         mshr' = [mshr EXCEPT ![c] =
                    Settle(Kind[c], AddEntry(Kind[c], TakeNext(Kind[c], mshr[c], e, i), e, NoCb), e)],
         req' = Moved(r, "busRead", Down(c))
  PROVE  Lists' /\ WaitersWillBeWoken' /\ req' \in ReqType /\ mshr' \in MshrType
<1> DEFINE t == TakeNext(Kind[c], mshr[c], e, i)
           a == AddEntry(Kind[c], t, e, NoCb)
           b == Settle(Kind[c], a, e)
           rest == SubSeq(Cc(c, e), i + 1, Len(Cc(c, e)))
           list == IF Kind[c] = "full" THEN rest ELSE Append(rest, NoCb)
           use == IF Kind[c] = "full" THEN (IF rest = <<>> THEN 0 ELSE Use(c, e)) ELSE Use(c, e)
<1>0. /\ Typed /\ Use(c, e) \in Nat /\ Cc(c, e) \in Seq(Req \cup {NoCb}) /\ EntryOK(c, e)
  BY Types, Zenon DEF IInv, Lists
<1>1. /\ i \in 1 .. Len(Cc(c, e)) /\ r \in Req
      /\ \A j \in 1 .. Len(Cc(c, e)) : Cc(c, e)[j] # NoCb => i <= j
      /\ Kind[c] \in {"full", "blocking"}
      /\ Kind[c] = "full" => Use(c, e) > 0
      /\ Entry(c, r) = e /\ At(r, "queued", c) /\ (c = req[r].home \/ c = L2)
  BY Called, ZenonT(40)
<1>2. EntryStep(c, e, use, list)
  <2> DEFINE less == IF Kind[c] = "full" THEN Use(c, e) - 1 ELSE Use(c, e)
             addU == IF Kind[c] = "full" THEN t.nUse[e] + 1 ELSE t.nUse[e]
             addL == IF Kind[c] = "none" \/ (Kind[c] = "full" /\ NoCb = NoCb) THEN t.cc[e]
                     ELSE Append(t.cc[e], NoCb)
             setU == IF Kind[c] = "full" /\ a.cc[e] = <<>> THEN 0 ELSE a.nUse[e]
  <2>1. Becomes(mshr[c], t, e, less, rest)
    BY TakeNextOf, Zenon
  <2>2. t \in OneMshr /\ t.nUse[e] = less /\ t.cc[e] = rest
    BY <2>1, Zenon DEF Becomes
  <2> HIDE DEF t, rest
  <2>3. Becomes(t, a, e, addU, addL)
    <3>1. Kind[c] \in {"full", "blocking", "none"} /\ NoCb \in Req \cup {NoCb}
      BY KindIs, Zenon
    <3> QED BY <2>2, <3>1, AddEntryStep, Zenon
  <2>4. a \in OneMshr /\ a.nUse[e] = addU /\ a.cc[e] = addL
    <3> HIDE DEF addU, addL, a
    <3> QED BY <2>3, Zenon DEF Becomes
  <2> HIDE DEF a
  <2>5. Becomes(a, b, e, setU, a.cc[e])
    BY <1>1, <2>4, SettleStep, Zenon
  <2>6. mshr' = [mshr EXCEPT ![c] = b]
    BY Zenon DEF t, a
  <2> HIDE DEF b
  <2>7. setU = use /\ a.cc[e] = list
    <3>1. CASE Kind[c] = "full"
      <4>1. a.cc[e] = rest /\ a.nUse[e] = Use(c, e) - 1 + 1
        BY <2>2, <2>4, <3>1, Zenon
      <4>2. a.nUse[e] = Use(c, e)
        BY <1>0, <4>1, BackAgain, Zenon
      <4> QED BY <3>1, <4>1, <4>2, Zenon
    <3>2. CASE Kind[c] = "blocking"
      <4>1. a.cc[e] = Append(rest, NoCb) /\ a.nUse[e] = Use(c, e)
        BY <2>2, <2>4, <3>2, Zenon
      <4> QED BY <3>2, <4>1, Zenon
    <3> QED BY <1>1, <3>1, <3>2, Zenon
  <2> HIDE DEF less, addU, addL, setU, use, list
  <2>8. Becomes(mshr[c], a, e, addU, addL)
    BY <2>1, <2>3, BecomesTwice, Zenon
  <2>9. Becomes(mshr[c], b, e, use, list)
    <3>1. Becomes(a, b, e, use, list)
      BY <2>5, <2>7, Zenon
    <3> QED BY <2>8, <3>1, BecomesTwice, Zenon
  <2> QED BY <1>0, <2>6, <2>9, OneMshrChanges, Zenon
<1>3. /\ rest \in Seq(Req \cup {NoCb}) /\ Len(rest) = Len(Cc(c, e)) - i
      /\ \A j \in 1 .. Len(rest) : i + j \in 1 .. Len(Cc(c, e)) /\ rest[j] = Cc(c, e)[i + j]
      /\ \A j \in i + 1 .. Len(Cc(c, e)) : j - i \in 1 .. Len(rest) /\ rest[j - i] = Cc(c, e)[j]
  BY <1>0, <1>1, RestIs, Zenon
<1> HIDE DEF rest, t, a, b
<1>4. /\ Len(list) \in Nat
      /\ \A j \in 1 .. Len(list) : list[j] # NoCb => j \in 1 .. Len(rest) /\ list[j] = rest[j]
      /\ \A j \in 1 .. Len(rest) : j \in 1 .. Len(list) /\ list[j] = rest[j]
      /\ Kind[c] = "full" => list = rest
  <2>1. CASE Kind[c] = "full"
    <3>1. list = rest
      BY <2>1, Zenon
    <3> HIDE DEF list
    <3> QED BY <1>3, <3>1, LenIs, Zenon
  <2>2. CASE Kind[c] = "blocking"
    <3>1. list = Append(rest, NoCb)
      BY <2>2, Zenon
    <3> HIDE DEF list
    <3>2. NoCb \in Req \cup {NoCb}
      BY Zenon
    <3>3. Kind[c] # "full"
      BY <2>2, Zenon
    <3>4. rest \in Seq(Req \cup {NoCb})
      BY <1>3, ZenonT(40)
    <3>5. /\ Len(list) \in Nat
          /\ \A j \in 1 .. Len(list) : list[j] # NoCb => j \in 1 .. Len(rest) /\ list[j] = rest[j]
          /\ \A j \in 1 .. Len(rest) : j \in 1 .. Len(list) /\ list[j] = rest[j]
      BY <3>1, <3>2, <3>4, Padded
    <3> QED BY <3>3, <3>5, Zenon
  <2> QED BY <1>1, <2>1, <2>2, Zenon
<1> HIDE DEF list
<1>5. EntryOK(c, e)'
  <2>1. Cc(c, e)' = list /\ Use(c, e)' = use
    BY <1>2, Zenon DEF EntryStep, Cc, Use
  <2>2. Kind[c] = "full" => \A j \in 1 .. Len(rest) : rest[j] # NoCb
    BY <1>0, <1>3, SMTT(30) DEF EntryOK
  <2>a. Kind[c] = "full" => Len(Cc(c, e)) <= Use(c, e)
    BY <1>0, Zenon DEF EntryOK
  <2>b. Len(Cc(c, e)) \in Nat /\ Len(<<>>) = 0
    BY <1>0
  <2>c. Kind[c] = "full" => Len(rest) <= Use(c, e)
    BY <1>0, <1>1, <1>3, <2>a, <2>b, Shorter, Zenon
  <2>3. Kind[c] = "full" => Len(rest) <= use
    <3>1. CASE rest = <<>>
      <4>1. Len(rest) <= 0
        BY <2>b, <3>1
      <4> QED BY <3>1, <4>1, Zenon
    <3>2. CASE rest # <<>>
      BY <2>c, <3>2, Zenon
    <3> QED BY <3>1, <3>2, Zenon
  <2>4. Kind[c] = "blocking" => use = 0
    BY <1>0, Zenon DEF EntryOK
  <2> QED BY <1>1, <1>4, <2>1, <2>2, <2>3, <2>4, Zenon DEF EntryOK
<1> HIDE DEF use
<1>6. Down(c) \in Places
  BY DownIs, Zenon
<1>7. Goes(r, "busRead", Down(c))
  BY <1>0, <1>1, <1>6, MovedGoes, Zenon DEF ReqKinds
<1>8. "busRead" \in ReqKinds \ {"queued"} /\ "busRead" \in ReqKinds
  BY Zenon DEF ReqKinds
<1>9. Below(c, r)' /\ Placed(r)' /\ \A d \in Caches : req[r].home = d /\ c = L2 => Below(d, r)'
  BY <1>1, <1>7, SentIsBelow, Zenon
<1>10. Lists'
  <2>1. \A j \in 1 .. Len(list) : list[j] # NoCb =>
          i + j \in 1 .. Len(Cc(c, e)) /\ list[j] = Cc(c, e)[i + j]
    BY <1>3, <1>4, Zenon
  <2>2. \A j \in i + 1 .. Len(Cc(c, e)) : j - i \in 1 .. Len(list) /\ list[j - i] = Cc(c, e)[j]
    BY <1>3, <1>4, Zenon
  <2>3. Leaves(Cc(c, e), i, list)
    BY <1>1, <1>4, <2>1, <2>2, Zenon DEF Leaves
  <2> QED BY <1>1, <1>2, <1>5, <1>6, <1>7, <1>8, <1>9, <2>3, TakenLists, Zenon
<1>11. WaitersWillBeWoken'
  <2>1. ASSUME NEW d \in Caches, Below(d, r), d = L2 \/ req[r].home = d PROVE Below(d, r)'
    <3>1. c = L2 /\ d = req[r].home
      BY <1>1, <2>1, WhoCounts, Zenon DEF At
    <3> QED BY <1>9, <3>1, Zenon
  <2>2. ASSUME NEW d \in Caches, NEW f \in Entries,
               mshr'[d].nUse[f] > 0 \/ mshr'[d].cc[f] # <<>>
        PROVE  \/ busy # <<d, f>> /\ (mshr[d].nUse[f] > 0 \/ mshr[d].cc[f] # <<>>)
               \/ f = Entry(d, r) /\ (d = L2 \/ req[r].home = d) /\ Below(d, r)'
    <3>1. CASE d = c /\ f = e
      BY <1>1, <1>9, <3>1, Zenon
    <3>2. CASE ~(d = c /\ f = e)
      BY <1>2, <2>2, <3>2, Zenon DEF EntryStep
    <3> QED BY <3>1, <3>2, Zenon
  <2> QED BY <1>1, <1>6, <1>7, <1>8, <2>1, <2>2, WokenStep, Zenon
<1> QED BY <1>2, <1>7, <1>10, <1>11, Zenon DEF Goes, EntryStep

-----------------------------------------------------------------------------
LineType == [Caches -> [Addr -> {"M", "E", "S", "I"}]]

(* The rest of the state: lines, counts, the entry being retired. *)
RestTyped ==
  /\ line \in LineType
  /\ pendingReads \in [L1s -> Int] /\ pendingWrites \in [L1s -> Int]
  /\ busy \in (Caches \X Entries) \cup {NotBusy}
  /\ ok \in BOOLEAN

LEMMA TypeParts == Typed <=> RestTyped /\ req \in ReqType /\ mshr \in MshrType
BY Zenon DEF Typed, RestTyped, LineType, OneReq, ReqType, MshrType, OneMshr, Places

LEMMA TypePartsNext == (RestTyped /\ req \in ReqType /\ mshr \in MshrType)' => Typed'
BY TypeParts, PTL

LEMMA LineSet ==
  ASSUME NEW c, NEW a, NEW v \in {"M", "E", "S", "I"}, line \in LineType
  PROVE  [line EXCEPT ![c][a] = v] \in LineType
BY Zenon DEF LineType

LEMMA LineAfterType ==
  ASSUME Typed, NEW c \in Caches, NEW r \in Req
  PROVE  LineAfter(c, r) \in LineType
<1>1. line \in LineType /\ req[r].addr \in Addr
  BY Types, TypeParts, Zenon DEF RestTyped
<1>2. PICK a \in Addr : a = req[r].addr
  BY <1>1, Zenon
<1>3. [line EXCEPT ![c][a] = "I"] \in LineType /\ [line EXCEPT ![c][a] = "M"] \in LineType
  BY <1>1, LineSet, Zenon
<1>4. LineAfter(c, r) \in {line, [line EXCEPT ![c][a] = "I"], [line EXCEPT ![c][a] = "M"]}
  BY <1>2, Zenon DEF LineAfter
<1> QED BY <1>1, <1>3, <1>4, Zenon

LEMMA PendingAfterType ==
  ASSUME NEW pending \in [L1s -> Int], NEW op, NEW c, NEW r, NEW retrying
  PROVE  PendingAfter(pending, op, c, r, retrying) \in [L1s -> Int]
<1> DEFINE n == (IF retrying THEN 1 ELSE 0)
           p == (IF Lookup(c, r) = "miss" THEN 1 ELSE 0)
<1>1. n \in Int /\ p \in Int
  OBVIOUS
<1> HIDE DEF n, p
<1>2. CASE c \in L1s /\ req[r].op = op
  <2>1. PendingAfter(pending, op, c, r, retrying) = [pending EXCEPT ![c] = @ - n + p]
    BY <1>2, Zenon DEF PendingAfter, n, p
  <2> QED BY <1>1, <1>2, <2>1
<1>3. CASE ~(c \in L1s /\ req[r].op = op)
  BY <1>3, Zenon DEF PendingAfter
<1> QED BY <1>2, <1>3, Zenon

(* Nothing the lists and the requests are about changes. *)
LEMMA SameKeeps ==
  ASSUME IInv, RestTyped', UNCHANGED <<mshr, req, busy>>
  PROVE  IInv'
<1>1. req' \in ReqType /\ mshr' \in MshrType
  BY Types, Zenon DEF IInv
<1>2. Lists'
  <2>1. \A q \in Req, b \in Caches : Entry(b, q)' = Entry(b, q)
    BY Zenon DEF Entry
  <2>2. \A q \in Req, d \in Caches : At(q, "queued", d)' <=> At(q, "queued", d)
    BY Zenon DEF At
  <2>3. ASSUME NEW d \in Caches, NEW e \in Entries PROVE EntryOK(d, e)' /\ ListOK(d, e)'
    <3>1. EntryOK(d, e) /\ ListOK(d, e)
      BY Zenon DEF IInv, Lists
    <3>2. EntryOK(d, e)'
      BY <3>1, Zenon DEF EntryOK, Cc, Use
    <3> QED BY <2>1, <2>2, <3>1, <3>2, Zenon DEF ListOK, Cc
  <2>4. ASSUME NEW q \in Req PROVE Placed(q)'
    BY Zenon DEF IInv, Lists, Placed
  <2>5. ASSUME NEW q \in Req, NEW d \in Caches PROVE Listed(q, d)'
    <3>1. Listed(q, d) /\ Entry(d, q)' = Entry(d, q)
      BY <2>1, Zenon DEF IInv, Lists
    <3>2. At(q, "queued", d)' <=> At(q, "queued", d)
      BY <2>2, Zenon
    <3> QED BY <3>1, <3>2, Zenon DEF Listed, Cc
  <2> QED BY <2>3, <2>4, <2>5, Zenon DEF Lists
<1>3. WaitersWillBeWoken'
  BY DEF IInv, WaitersWillBeWoken, Below, Entry, At
<1> QED BY <1>1, <1>2, <1>3, TypePartsNext, Zenon DEF IInv

(* doRead, doWrite and doBusRead. *)
LEMMA AccessKeeps ==
  ASSUME IInv, busy = NotBusy, NEW c \in Caches, NEW r \in Req, Arrived(c, r), Access(c, r)
  PROVE  IInv'
<1>0. Typed /\ RestTyped /\ req \in ReqType /\ mshr \in MshrType
  BY TypeParts, Zenon DEF IInv
<1>1. RestTyped'
  <2>1. line' \in LineType
    BY <1>0, LineAfterType, Zenon DEF Access
  <2>2. pendingReads' \in [L1s -> Int] /\ pendingWrites' \in [L1s -> Int]
    BY <1>0, PendingAfterType, Zenon DEF Access, RestTyped
  <2>3. ok' \in BOOLEAN /\ busy' = busy
    BY Zenon DEF Access
  <2> QED BY <1>0, <2>1, <2>2, <2>3, Zenon DEF RestTyped
<1>2. Lists' /\ WaitersWillBeWoken' /\ req' \in ReqType /\ mshr' \in MshrType
  <2> DEFINE what == Lookup(c, r)
             waits == what = "miss" /\ ~CanIssue(Kind[c], mshr[c], Entry(c, r))
  <2>1. /\ busy' = busy
        /\ mshr' = IF what \in {"miss", "upgrade"}
                   THEN [mshr EXCEPT ![c] = AddEntry(Kind[c], mshr[c], Entry(c, r),
                                                     IF waits THEN r ELSE NoCb)]
                   ELSE mshr
        /\ req' = CASE waits         -> Moved(r, "queued", c)
                    [] what = "hit"  -> Answered(c, r)
                    [] what = "assert" -> req
                    [] OTHER         -> Moved(r, "busRead", Down(c))
    BY Zenon DEF Access
  <2>2. what \in {"miss", "hit", "upgrade", "assert"}
    BY LookupIs, Zenon
  <2> HIDE DEF what
  <2>3. CASE what = "hit"
    <3>1. mshr' = mshr /\ req' = Answered(c, r)
      BY <2>1, <2>3, Zenon
    <3> QED BY <1>0, <2>1, <3>1, AnsweredKeeps, Zenon
  <2>4. CASE what = "assert"
    <3>1. mshr' = mshr /\ req' = req
      BY <2>1, <2>4, Zenon
    <3>2. IInv'
      BY <1>1, <2>1, <3>1, SameKeeps, Zenon
    <3> QED BY <1>0, <3>1, <3>2, Zenon DEF IInv
  <2>5. CASE waits
    <3>1. mshr' = [mshr EXCEPT ![c] = AddEntry(Kind[c], mshr[c], Entry(c, r), r)]
      BY <2>1, <2>5, Zenon
    <3>2. req' = Moved(r, "queued", c) /\ ~CanIssue(Kind[c], mshr[c], Entry(c, r))
      BY <2>1, <2>5, Zenon
    <3> QED BY <2>1, <3>1, <3>2, QueuedKeeps, Zenon
  <2>6. CASE what \in {"miss", "upgrade"} /\ ~waits
    <3>1. mshr' = [mshr EXCEPT ![c] = AddEntry(Kind[c], mshr[c], Entry(c, r), NoCb)]
      BY <2>1, <2>6, Zenon
    <3>2. req' = Moved(r, "busRead", Down(c))
      BY <2>1, <2>6, Zenon
    <3> QED BY <2>1, <3>1, <3>2, SentKeeps, Zenon
  <2> QED BY <2>2, <2>3, <2>4, <2>5, <2>6, Zenon
<1> QED BY <1>1, <1>2, TypePartsNext, Zenon DEF IInv

(* A request that is not queued moves on, and no MSHR changes. *)
LEMMA MoveKeeps ==
  ASSUME IInv, RestTyped', mshr' = mshr, NEW r \in Req, NEW k \in ReqKinds \ {"queued"},
         NEW to \in Places, req' = Moved(r, k, to), req[r].kind # "queued",
         Goes(r, k, to) => Placed(r)',
         Goes(r, k, to) =>
           \A d \in Caches : Below(d, r) /\ (d = L2 \/ req[r].home = d) =>
             Below(d, r)' \/ busy' = <<d, Entry(d, r)>>,
         \A d \in Caches, f \in Entries : busy' # <<d, f>> => busy # <<d, f>>
  PROVE  IInv'
<1>0. Typed /\ mshr \in MshrType /\ k \in ReqKinds /\ k # "queued"
  BY TypeParts, Zenon DEF IInv
<1>1. Goes(r, k, to)
  BY <1>0, MovedGoes, ZenonT(40)
<1>2. Lists'
  BY <1>0, <1>1, KeepLists, Zenon
<1>3. WaitersWillBeWoken'
  <2>1. \A d \in Caches, f \in Entries :
          busy' # <<d, f>> /\ (mshr'[d].nUse[f] > 0 \/ mshr'[d].cc[f] # <<>>) =>
            busy # <<d, f>> /\ (mshr[d].nUse[f] > 0 \/ mshr[d].cc[f] # <<>>)
    BY Zenon
  <2> QED BY <1>0, <1>1, <2>1, WokenStep, ZenonT(40)
<1>4. req' \in ReqType /\ mshr' \in MshrType
  BY <1>0, <1>1, ZenonT(40) DEF Goes
<1> QED BY <1>2, <1>3, <1>4, TypePartsNext, Zenon DEF IInv

LEMMA IssueKeeps ==
  ASSUME IInv, NEW r \in Req, Issue(r)
  PROVE  IInv'
<1>0. /\ Typed /\ RestTyped /\ req[r].home \in Places
  BY Types, TypeParts, Zenon DEF IInv, Places
<1>1. /\ req' = Moved(r, "cpu", req[r].home) /\ mshr' = mshr /\ busy' = busy
      /\ req[r].kind = "idle"
  BY Zenon DEF Issue
<1>2. RestTyped'
  BY <1>0, ZenonT(40) DEF Issue, RestTyped
<1>3. Goes(r, "cpu", req[r].home) => Placed(r)'
  BY Zenon DEF Goes, Placed
<1>4. \A d \in Caches : ~(Below(d, r) /\ (d = L2 \/ req[r].home = d))
  BY <1>1, WhoCounts, Zenon
<1> QED BY <1>0, <1>1, <1>2, <1>3, <1>4, MoveKeeps, Zenon DEF ReqKinds

LEMMA MemBusReadKeeps ==
  ASSUME IInv, NEW r \in Req, MemBusRead(r)
  PROVE  IInv'
<1>0. /\ Typed /\ RestTyped /\ L2 \in Places /\ req[r].home # L2
  BY Types, TypeParts, DownIs, Zenon DEF IInv, Places
<1>1. /\ req' = Moved(r, "pushUp", L2) /\ mshr' = mshr /\ busy' = busy
      /\ At(r, "busRead", Mem)
  BY Zenon DEF MemBusRead
<1>2. RestTyped'
  BY <1>0, Zenon DEF MemBusRead, RestTyped
<1>3. Goes(r, "pushUp", L2) => Placed(r)'
  BY Zenon DEF Goes, Placed
<1>4. Goes(r, "pushUp", L2) =>
        \A d \in Caches : Below(d, r) /\ (d = L2 \/ req[r].home = d) => Below(d, r)'
  BY Zenon DEF Goes, Below, At
<1> QED BY <1>0, <1>1, <1>2, <1>3, <1>4, MoveKeeps, ZenonT(40) DEF ReqKinds, At

LEMMA OneLess ==
  ASSUME NEW f \in [L1s -> Int], NEW c
  PROVE  [f EXCEPT ![c] = @ - 1] \in [L1s -> Int]
<1>1. CASE c \in L1s
  BY <1>1
<1>2. CASE c \notin L1s
  BY <1>2, Zenon
<1> QED BY <1>1, <1>2, Zenon

LEMMA DoPushUpKeeps ==
  ASSUME IInv, NEW r \in Req, DoPushUp(r)
  PROVE  IInv'
<1>0. /\ Typed /\ RestTyped /\ req[r].home \in Places /\ req[r].home \in L1s
      /\ req[r].home # L2 /\ (\A d \in Caches : Entry(d, r) \in Entries) /\ Placed(r) /\ req[r].addr \in Addr
      /\ req[r].home \in Caches
  BY Types, TypeParts, Zenon DEF IInv, Lists, Places
<1>1. /\ mshr' = mshr /\ busy = NotBusy /\ busy' = <<req[r].at, Entry(req[r].at, r)>>
      /\ req[r].kind = "pushUp" /\ ok' = ok
      /\ req' = IF req[r].at = req[r].home THEN Moved(r, "done", req[r].at)
                ELSE Moved(r, "pushUp", req[r].home)
  BY Zenon DEF DoPushUp, Retiring, Runs
<1>2. req[r].at \in Caches /\ (req[r].at = req[r].home \/ req[r].at = L2)
  BY <1>0, <1>1, DownIs, Zenon DEF Placed
<1>3. RestTyped'
  <2>2. PICK gone :
          line' = [line EXCEPT ![req[r].at] =
                     [b \in Addr |-> IF b = req[r].addr THEN FillState(r)
                                    ELSE IF b \in gone THEN "I" ELSE @[b]]]
    BY Zenon DEF DoPushUp
  <2>3. FillState(r) \in {"M", "E", "S", "I"}
    BY Zenon DEF FillState
  <2>4. line' \in LineType
    BY <1>0, <1>2, <2>2, <2>3, Zenon DEF RestTyped, LineType
  <2>5. pendingReads' \in [L1s -> Int] /\ pendingWrites' \in [L1s -> Int]
    <3>1. pendingReads \in [L1s -> Int] /\ pendingWrites \in [L1s -> Int]
      BY <1>0, Zenon DEF RestTyped
    <3>2. \/ pendingReads' = pendingReads
          \/ pendingReads' = [pendingReads EXCEPT ![req[r].at] = @ - 1]
      BY Zenon DEF DoPushUp
    <3>3. \/ pendingWrites' = pendingWrites
          \/ pendingWrites' = [pendingWrites EXCEPT ![req[r].at] = @ - 1]
      BY Zenon DEF DoPushUp
    <3>4. pendingReads' \in [L1s -> Int]
      BY <3>1, <3>2, OneLess
    <3>5. pendingWrites' \in [L1s -> Int]
      BY <3>1, <3>3, OneLess
    <3> QED BY <3>4, <3>5, Zenon
  <2> QED BY <1>0, <1>1, <1>2, <2>4, <2>5, Zenon DEF RestTyped
<1>4. \A d \in Caches, f \in Entries : busy # <<d, f>>
  BY <1>1, NotBusyIs, Zenon
<1>5. CASE req[r].at = req[r].home
  <2>1. req' = Moved(r, "done", req[r].home)
    BY <1>1, <1>5, ZenonT(40)
  <2>2. Goes(r, "done", req[r].home) => Placed(r)'
    BY Zenon DEF Goes, Placed
  <2>3. ASSUME NEW d \in Caches, Below(d, r), d = L2 \/ req[r].home = d
        PROVE  busy' = <<d, Entry(d, r)>>
    <3>1. d = req[r].home
      BY <1>0, <1>1, <1>5, <2>3, WhoCounts, Zenon
    <3> QED BY <1>1, <1>5, <3>1, ZenonT(40)
  <2> QED BY <1>0, <1>1, <1>3, <1>4, <2>1, <2>2, <2>3, MoveKeeps, Zenon DEF ReqKinds
<1>6. CASE req[r].at # req[r].home
  <2>1. req' = Moved(r, "pushUp", req[r].home) /\ req[r].at = L2
    BY <1>1, <1>2, <1>6, Zenon
  <2>2. Goes(r, "pushUp", req[r].home) => Placed(r)'
    BY Zenon DEF Goes, Placed
  <2>3. ASSUME Goes(r, "pushUp", req[r].home),
               NEW d \in Caches, Below(d, r), d = L2 \/ req[r].home = d
        PROVE  Below(d, r)' \/ busy' = <<d, Entry(d, r)>>
    <3>1. CASE d = L2
      BY <1>1, <2>1, <3>1, Zenon
    <3>2. CASE d = req[r].home
      BY <2>3, <3>2, Zenon DEF Goes, Below, At
    <3> QED BY <2>3, <3>1, <3>2, Zenon
  <2> QED BY <1>0, <1>1, <1>3, <1>4, <2>1, <2>2, <2>3, MoveKeeps, Zenon DEF ReqKinds
<1> QED BY <1>5, <1>6, Zenon

LEMMA InvalidateKeeps ==
  ASSUME IInv, NEW m, DoInvalidate(m) \/ DoPushDown(m)
  PROVE  IInv'
<1>0. RestTyped
  BY TypeParts, Zenon DEF IInv
<1>1. /\ line' \in {line, [line EXCEPT ![m.at][m.addr] = "I"], [line EXCEPT ![m.at][m.addr] = "M"]}
      /\ UNCHANGED <<mshr, req, pendingReads, pendingWrites, busy, ok>>
  BY Zenon DEF DoInvalidate, DoPushDown
<1>2. line \in LineType
  BY <1>0, Zenon DEF RestTyped
<1>3. /\ [line EXCEPT ![m.at][m.addr] = "I"] \in LineType
      /\ [line EXCEPT ![m.at][m.addr] = "M"] \in LineType
  BY <1>2, LineSet, Zenon
<1>4. line' \in LineType
  BY <1>1, <1>2, <1>3, Zenon
<1>5. RestTyped'
  BY <1>0, <1>1, <1>4, Zenon DEF RestTyped
<1> QED BY <1>1, <1>5, SameKeeps, Zenon

LEMMA FFKeeps ==
  ASSUME IInv, NEW c \in L1s, NEW a \in Addr, NEW s \in {"S", "E"}, FF(c, a, s)
  PROVE  IInv'
<1> DEFINE Row == [Addr -> {"M", "E", "S", "I"}]
<1>0. RestTyped /\ c \in Caches /\ L2 \in Caches /\ c # L2
  BY TypeParts, DownIs, Zenon DEF IInv, Caches
<1>1. PICK gone, gone2 :
        line' = [line EXCEPT ![c] = Filled(c, a, gone, s),
                             ![L2] = IF @[a] = "I" THEN Filled(L2, a, gone2, s) ELSE @]
  BY Zenon DEF FF
<1>2. line \in LineType /\ line[c] \in Row /\ line[L2] \in Row
  BY <1>0, Zenon DEF RestTyped, LineType
<1>3. Filled(c, a, gone, s) \in Row /\ Filled(L2, a, gone2, s) \in Row
  BY <1>2, Zenon DEF Filled
<1>4. PICK x \in Row : x = Filled(c, a, gone, s)
  BY <1>3, Zenon
<1>5. PICK y \in Row : y = IF line[L2][a] = "I" THEN Filled(L2, a, gone2, s) ELSE line[L2]
  BY <1>2, <1>3, Zenon
<1>6. line' = [line EXCEPT ![c] = x, ![L2] = y]
  BY <1>0, <1>1, <1>4, <1>5, Zenon
<1>7. line' \in LineType
  BY <1>2, <1>6, Zenon DEF LineType
<1>8. UNCHANGED <<mshr, req, pendingReads, pendingWrites, busy, ok>>
  BY Zenon DEF FF
<1>9. RestTyped'
  BY <1>0, <1>7, <1>8, Zenon DEF RestTyped
<1> QED BY <1>8, <1>9, SameKeeps, Zenon

(* retire() calls the next callback. *)
LEMMA RetireCallsKeeps ==
  ASSUME IInv, RetireCalls
  PROVE  IInv'
<1>0. Typed /\ RestTyped /\ busy # NotBusy
  BY TypeParts, Zenon DEF IInv, RetireCalls
<1>1. PICK c \in Caches, e \in Entries : busy = <<c, e>>
  BY <1>0, SMTT(30) DEF RestTyped
<1>2. PICK i : i = NextCb(Kind[c], mshr[c], e)
  BY Zenon
<1>3. PICK r : r = Cc(c, e)[i]
  BY Zenon
<1>4. /\ i > 0
      /\ line' = LineAfter(c, r)
      /\ pendingReads' = PendingAfter(pendingReads, "read", c, r, TRUE)
      /\ pendingWrites' = PendingAfter(pendingWrites, "write", c, r, TRUE)
      /\ ok' = (Lookup(c, r) # "assert")
      /\ CASE Lookup(c, r) = "hit" ->
                /\ mshr' = [mshr EXCEPT ![c] = TakeNext(Kind[c], mshr[c], e, i)]
                /\ req' = Answered(c, r)
                /\ UNCHANGED busy
           [] Lookup(c, r) \in {"miss", "upgrade"} ->
                /\ mshr' = [mshr EXCEPT ![c] =
                     Settle(Kind[c], AddEntry(Kind[c], TakeNext(Kind[c], mshr[c], e, i), e, NoCb), e)]
                /\ req' = Moved(r, "busRead", Down(c))
                /\ busy' = NotBusy
           [] Lookup(c, r) = "assert" -> UNCHANGED <<mshr, req, busy>>
  BY <1>1, <1>2, <1>3, Zenon DEF RetireCalls, Cc
<1>5. r \in Req
  BY <1>2, <1>3, <1>4, Called, Zenon
<1>6. line' \in LineType
  BY <1>0, <1>4, <1>5, LineAfterType, Zenon
<1>7. pendingReads' \in [L1s -> Int] /\ pendingWrites' \in [L1s -> Int]
  BY <1>0, <1>4, PendingAfterType, Zenon DEF RestTyped
<1>8. Lookup(c, r) \in {"miss", "hit", "upgrade", "assert"}
  BY LookupIs, Zenon
<1>9. busy' = busy \/ busy' = NotBusy
  BY <1>4, <1>8, Zenon
<1>10. RestTyped'
  BY <1>0, <1>4, <1>6, <1>7, <1>9, Zenon DEF RestTyped
<1>11. CASE Lookup(c, r) = "hit"
  <2>1. /\ mshr' = [mshr EXCEPT ![c] = TakeNext(Kind[c], mshr[c], e, i)]
        /\ req' = Answered(c, r) /\ busy' = busy
    BY <1>4, <1>11, Zenon
  <2>2. Lists' /\ WaitersWillBeWoken' /\ req' \in ReqType /\ mshr' \in MshrType
    BY <1>1, <1>2, <1>3, <1>4, <2>1, CalledHit, ZenonT(40)
  <2> QED BY <1>10, <2>2, TypePartsNext, Zenon DEF IInv
<1>12. CASE Lookup(c, r) \in {"miss", "upgrade"}
  <2>1. /\ mshr' = [mshr EXCEPT ![c] =
             Settle(Kind[c], AddEntry(Kind[c], TakeNext(Kind[c], mshr[c], e, i), e, NoCb), e)]
        /\ req' = Moved(r, "busRead", Down(c)) /\ busy' = NotBusy
    BY <1>4, <1>12, Zenon
  <2>2. Lists' /\ WaitersWillBeWoken' /\ req' \in ReqType /\ mshr' \in MshrType
    BY <1>1, <1>2, <1>3, <1>4, <2>1, CalledMiss, Zenon
  <2> QED BY <1>10, <2>2, TypePartsNext, Zenon DEF IInv
<1>13. CASE Lookup(c, r) = "assert"
  <2>1. UNCHANGED <<mshr, req, busy>>
    BY <1>4, <1>13, Zenon
  <2> QED BY <1>10, <2>1, SameKeeps, Zenon
<1> QED BY <1>8, <1>11, <1>12, <1>13, Zenon

LEMMA InitHolds == Init => IInv
<1> SUFFICES ASSUME Init PROVE IInv
  BY Zenon
<1>1. PICK access \in [Req -> Accesses] :
        req = [r \in Req |-> [op |-> access[r].op, pf |-> access[r].pf, addr |-> access[r].addr,
                              home |-> access[r].home, kind |-> "idle", at |-> access[r].home]]
  BY Zenon DEF Init
<1>2. \A r \in Req : /\ access[r].op \in {"read", "write"} /\ access[r].pf \in BOOLEAN
                     /\ access[r].addr \in Addr /\ access[r].home \in L1s
  BY Zenon DEF Accesses
<1>3. req \in ReqType
  BY <1>1, <1>2, Zenon DEF OneReq, ReqType, Places, Caches
<1>4. \A r \in Req : req[r].kind = "idle" /\ req[r].at = req[r].home
  BY <1>1, Zenon
<1>5. /\ mshr \in MshrType
      /\ \A c \in Caches, e \in Entries : mshr[c].nUse[e] = 0 /\ mshr[c].cc[e] = <<>>
  <2>1. MshrInit \in OneMshr
    BY MshrAssumption, SMTT(30) DEF MshrInit, OneMshr
  <2>2. \A e \in Entries : MshrInit.nUse[e] = 0 /\ MshrInit.cc[e] = <<>>
    BY Zenon DEF MshrInit
  <2>3. mshr = [c \in Caches |-> MshrInit]
    BY Zenon DEF Init
  <2> QED BY <2>1, <2>2, <2>3, Zenon DEF MshrType
<1>6. RestTyped
  BY DEF Init, RestTyped, LineType
<1>7. Typed
  BY <1>3, <1>5, <1>6, TypeParts, Zenon
<1>8. Lists
  <2>1. ASSUME NEW c \in Caches, NEW e \in Entries PROVE EntryOK(c, e) /\ ListOK(c, e)
    BY <1>5, SMTT(30) DEF EntryOK, ListOK, Cc, Use
  <2>2. ASSUME NEW r \in Req PROVE Placed(r)
    BY <1>4, Zenon DEF Placed
  <2>3. ASSUME NEW r \in Req, NEW c \in Caches PROVE Listed(r, c)
    BY <1>4, Zenon DEF Listed, At
  <2> QED BY <2>1, <2>2, <2>3, Zenon DEF Lists
<1>9. WaitersWillBeWoken
  BY <1>5, SMTT(30) DEF WaitersWillBeWoken
<1> QED BY <1>7, <1>8, <1>9, Zenon DEF IInv

LEMMA NextKeeps == IInv /\ [Next]_vars => IInv'
<1> SUFFICES ASSUME IInv, [Next]_vars PROVE IInv'
  BY Zenon
<1>0. RestTyped /\ Typed
  BY TypeParts, Zenon DEF IInv
<1>1. ASSUME NEW r \in Req, Issue(r) PROVE IInv'
  BY <1>1, IssueKeeps, Zenon
<1>2. ASSUME NEW r \in Req, DoRead(r) \/ DoWrite(r) PROVE IInv'
  <2>1. /\ busy = NotBusy /\ req[r].kind = "cpu" /\ Access(req[r].home, r)
        /\ req[r].home \in Caches /\ req[r].home \in L1s /\ Placed(r)
    BY <1>0, <1>2, Types, Zenon DEF DoRead, DoWrite, Runs, IInv, Lists
  <2>2. PICK c \in Caches : c = req[r].home
    BY <2>1, Zenon
  <2>3. Arrived(c, r)
    BY <2>1, <2>2, Zenon DEF Arrived, Placed, At
  <2> QED BY <2>1, <2>2, <2>3, AccessKeeps, Zenon
<1>3. ASSUME NEW r \in Req, DoBusRead(r) PROVE IInv'
  <2>1. busy = NotBusy /\ At(r, "busRead", L2) /\ Access(L2, r) /\ L2 \in Caches
    BY <1>3, DownIs, Zenon DEF DoBusRead, Runs
  <2>2. Arrived(L2, r)
    BY <2>1, Zenon DEF Arrived, At
  <2> QED BY <2>1, <2>2, AccessKeeps, Zenon
<1>4. ASSUME NEW r \in Req, MemBusRead(r) PROVE IInv'
  BY <1>4, MemBusReadKeeps, Zenon
<1>5. ASSUME NEW r \in Req, DoPushUp(r) PROVE IInv'
  BY <1>5, DoPushUpKeeps, Zenon
<1>6. CASE RetireEnds
  BY <1>6, RetireEndsKeeps, Zenon
<1>7. CASE RetireCalls
  BY <1>7, RetireCallsKeeps, Zenon
<1>8. ASSUME NEW m, DoInvalidate(m) \/ DoPushDown(m) PROVE IInv'
  BY <1>8, InvalidateKeeps, Zenon
<1>9. ASSUME NEW c \in L1s, NEW a \in Addr, FFRead(c, a) \/ FFWrite(c, a) PROVE IInv'
  BY <1>9, FFKeeps, Zenon DEF FFRead, FFWrite
<1>10. CASE UNCHANGED vars
  <2>1. UNCHANGED <<mshr, req, busy>> /\ RestTyped'
    BY <1>0, <1>10, Zenon DEF vars, RestTyped
  <2> QED BY <2>1, SameKeeps, Zenon
<1> QED BY <1>1, <1>2, <1>3, <1>4, <1>5, <1>6, <1>7, <1>8, <1>9, <1>10, Zenon DEF Next

(* The caches stay typed, and their lists of callbacks stay in step with   *)
(* the queued requests.                                                    *)
THEOREM CacheInvariant == Spec => []IInv
<1> QED BY InitHolds, NextKeeps, PTL DEF Spec

LEMMA ScheduledKeeps == Scheduled /\ [Next]_vars => Scheduled'
<1> SUFFICES ASSUME Scheduled, [Next]_vars PROVE Scheduled'
  BY Zenon
<1>1. \A messages : Sent(messages) \in [Messages -> Nat]
  BY DEF Sent, Scheduled
<1>2. ASSUME NEW c, NEW r \in Req, Access(c, r) PROVE Scheduled'
  BY <1>1, <1>2, Zenon DEF Access, Scheduled
<1>3. ASSUME NEW r \in Req, DoRead(r) \/ DoWrite(r) \/ DoBusRead(r) PROVE Scheduled'
  BY <1>2, <1>3, Zenon DEF DoRead, DoWrite, DoBusRead
<1>4. ASSUME NEW r \in Req, Issue(r) \/ MemBusRead(r) PROVE Scheduled'
  BY <1>4, Zenon DEF Issue, MemBusRead, Scheduled
<1>5. ASSUME NEW r \in Req, DoPushUp(r) PROVE Scheduled'
  BY <1>1, <1>5, Zenon DEF DoPushUp, Scheduled
<1>6. CASE RetireEnds
  BY <1>6, Zenon DEF RetireEnds, Scheduled
<1>7. CASE RetireCalls
  BY <1>1, <1>7, Zenon DEF RetireCalls, Scheduled
<1>8. ASSUME NEW m \in Messages, ctl[m] > 0, DoInvalidate(m) \/ DoPushDown(m) PROVE Scheduled'
  <2>1. ctl' = [ctl EXCEPT ![m] = @ - 1] /\ warmed' = warmed
    BY <1>8, Zenon DEF DoInvalidate, DoPushDown
  <2> QED BY <1>8, <2>1 DEF Scheduled
<1>9. ASSUME NEW c \in L1s, NEW a \in Addr, FFRead(c, a) \/ FFWrite(c, a) PROVE Scheduled'
  <2>1. warmed' = warmed + 1 /\ ctl' = ctl
    BY <1>9, Zenon DEF FFRead, FFWrite, FF
  <2> QED BY <2>1 DEF Scheduled
<1>10. CASE UNCHANGED vars
  BY <1>10, Zenon DEF vars, Scheduled
<1>11. CASE \E m \in {x \in Messages : ctl[x] > 0} : DoInvalidate(m) \/ DoPushDown(m)
  BY <1>8, <1>11, Zenon
<1> QED BY <1>3, <1>4, <1>5, <1>6, <1>7, <1>9, <1>10, <1>11, Zenon DEF Next

(* Every step of the caches, their MSHRs, the memory and warm-up leaves    *)
(* every variable with its type; no message is delivered more often than   *)
(* it was sent.                                                            *)
THEOREM TypeCorrect == Spec => []TypeOK
<1>1. Init => Scheduled
  BY SMTT(30) DEF Init, Scheduled
<1>2. IInv /\ Scheduled => TypeOK
  BY Zenon DEF IInv, Typed, Scheduled, TypeOK
<1> QED BY <1>1, <1>2, CacheInvariant, ScheduledKeeps, PTL DEF Spec

(* No wake-up is ever lost: at every moment, an MSHR entry that is in use  *)
(* or holds callbacks is being retired, or a request of that entry is on   *)
(* its way below the cache and its pushUp will start the retire().         *)
THEOREM NoLostWakeUp == Spec => []WaitersWillBeWoken
<1>1. IInv => WaitersWillBeWoken
  BY Zenon DEF IInv
<1> QED BY <1>1, CacheInvariant, PTL
=============================================================================
