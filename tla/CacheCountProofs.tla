-------------------------- MODULE CacheCountProofs --------------------------
(***************************************************************************)
(* Proofs about what Cache counts, for any number of first-level caches,   *)
(* requests and addresses, any hash into any number of MSHR entries and    *)
(* any mix of MSHR classes: the uses of the entries of a full MSHR, and    *)
(* the accesses of a first-level cache that are not answered.              *)
(*                                                                         *)
(* Both counts are Cardinalities, so each step's lemma says which one      *)
(* element the step adds to or takes from the set counted; the invariant   *)
(* of CacheProofs says that the element was not there, or was.             *)
(***************************************************************************)
EXTENDS CacheProofs, FiniteSetTheorems

(* A leaf that names no prover may take SMT, then Zenon, 20 s each. *)
USE SMTT(20), ZenonT(20)

(* The uses that the use counts n stand for, one pair for each. *)
UsesOf(n) == UNION {{e} \X (1 .. n[e]) : e \in Entries}

IsUse(n, x, f, i) == i \in 1 .. n[f] /\ x = <<f, i>>

LEMMA UseIs ==
  ASSUME NEW n, NEW x \in UsesOf(n)
  PROVE  \E f \in Entries, i \in Nat : IsUse(n, x, f, i)
BY DEF UsesOf, IsUse

LEMMA UseIn ==
  ASSUME NEW n, NEW f \in Entries, NEW i \in 1 .. n[f]
  PROVE  <<f, i>> \in UsesOf(n)
BY DEF UsesOf

LEMMA OneUseMore ==
  ASSUME NEW n \in [Entries -> Nat], NEW e \in Entries, IsFiniteSet(UsesOf(n)),
         NEW k, k = [n EXCEPT ![e] = n[e] + 1]
  PROVE  IsFiniteSet(UsesOf(k)) /\ Cardinality(UsesOf(k)) = Cardinality(UsesOf(n)) + 1
<1> DEFINE u == <<e, n[e] + 1>>
<1>1. n[e] \in Nat /\ k[e] = n[e] + 1 /\ \A f \in Entries : f # e => k[f] = n[f]
  BY Zenon
<1>2. u \notin UsesOf(n)
  <2> SUFFICES ASSUME u \in UsesOf(n) PROVE FALSE
    BY Zenon
  <2>1. PICK f \in Entries, i \in Nat : IsUse(n, u, f, i)
    BY UseIs, Zenon
  <2>2. i \in 1 .. n[f] /\ f = e /\ i = n[e] + 1
    BY <2>1, Zenon DEF IsUse
  <2> QED BY <1>1, <2>2, SMTT(30)
<1>3. ASSUME NEW x PROVE x \in UsesOf(k) <=> x \in UsesOf(n) \cup {u}
  <2>1. ASSUME x \in UsesOf(k) PROVE x \in UsesOf(n) \cup {u}
    <3>0. PICK f \in Entries, i \in Nat : IsUse(k, x, f, i)
      BY <2>1, UseIs, Zenon
    <3>1. i \in 1 .. k[f] /\ x = <<f, i>>
      BY <3>0, Zenon DEF IsUse
    <3>2. i \in 1 .. n[f] \/ (f = e /\ i = n[e] + 1)
      BY <1>1, <3>1
    <3> QED BY <3>1, <3>2, UseIn, Zenon
  <2>2. ASSUME x \in UsesOf(n) PROVE x \in UsesOf(k)
    <3>0. PICK f \in Entries, i \in Nat : IsUse(n, x, f, i)
      BY <2>2, UseIs, Zenon
    <3>1. i \in 1 .. n[f] /\ x = <<f, i>>
      BY <3>0, Zenon DEF IsUse
    <3>2. i \in 1 .. k[f]
      BY <1>1, <3>1
    <3> QED BY <3>1, <3>2, UseIn, Zenon
  <2>3. u \in UsesOf(k)
    <3>1. n[e] + 1 \in 1 .. k[e]
      BY <1>1
    <3> QED BY <3>1, UseIn, Zenon
  <2> QED BY <2>1, <2>2, <2>3, Zenon
<1>4. UsesOf(k) = UsesOf(n) \cup {u}
  BY <1>3, Zenon
<1> HIDE DEF u
<1>5. /\ IsFiniteSet(UsesOf(n) \cup {u})
      /\ Cardinality(UsesOf(n) \cup {u}) = IF u \in UsesOf(n) THEN Cardinality(UsesOf(n))
                                           ELSE Cardinality(UsesOf(n)) + 1
  BY FS_AddElement, Zenon
<1> QED BY <1>2, <1>4, <1>5, Zenon

LEMMA OneUseLess ==
  ASSUME NEW n \in [Entries -> Nat], NEW e \in Entries, IsFiniteSet(UsesOf(n)),
         n[e] > 0, NEW k, k = [n EXCEPT ![e] = n[e] - 1]
  PROVE  IsFiniteSet(UsesOf(k)) /\ Cardinality(UsesOf(k)) = Cardinality(UsesOf(n)) - 1
<1> DEFINE u == <<e, n[e]>>
<1>1. n[e] \in Nat /\ k[e] = n[e] - 1 /\ \A f \in Entries : f # e => k[f] = n[f]
  BY Zenon
<1>2. u \in UsesOf(n)
  BY <1>1, UseIn, UseIs, SMTT(30)
<1>3. ASSUME NEW x PROVE x \in UsesOf(k) <=> x \in UsesOf(n) \ {u}
  <2>1. ASSUME x \in UsesOf(k) PROVE x \in UsesOf(n) \ {u}
    <3>0. PICK f \in Entries, i \in Nat : IsUse(k, x, f, i)
      BY <2>1, UseIs, Zenon
    <3>1. i \in 1 .. k[f] /\ x = <<f, i>>
      BY <3>0, Zenon DEF IsUse
    <3>2. i \in 1 .. n[f] /\ ~(f = e /\ i = n[e])
      BY <1>1, <3>1, SMTT(30)
    <3> QED BY <3>1, <3>2, UseIn, Zenon
  <2>2. ASSUME x \in UsesOf(n), x # u PROVE x \in UsesOf(k)
    <3>0. PICK f \in Entries, i \in Nat : IsUse(n, x, f, i)
      BY <2>2, UseIs, Zenon
    <3>1. i \in 1 .. n[f] /\ x = <<f, i>>
      BY <3>0, Zenon DEF IsUse
    <3>2. f # e \/ i # n[e]
      BY <2>2, <3>1, Zenon
    <3>3. i \in 1 .. k[f]
      BY <1>1, <3>1, <3>2, SMTT(30)
    <3> QED BY <3>1, <3>3, UseIn, Zenon
  <2> QED BY <2>1, <2>2, Zenon
<1>4. UsesOf(k) = UsesOf(n) \ {u}
  BY <1>3, Zenon
<1> HIDE DEF u
<1>5. /\ IsFiniteSet(UsesOf(n) \ {u})
      /\ Cardinality(UsesOf(n) \ {u}) = IF u \in UsesOf(n) THEN Cardinality(UsesOf(n)) - 1
                                         ELSE Cardinality(UsesOf(n))
  BY FS_RemoveElement, Zenon
<1> QED BY <1>2, <1>4, <1>5, Zenon

LEMMA NoUseLeft ==
  ASSUME NEW n \in [Entries -> Nat], NEW e \in Entries, IsFiniteSet(UsesOf(n)),
         NEW k, k = [n EXCEPT ![e] = 0]
  PROVE  IsFiniteSet(UsesOf(k)) /\ Cardinality(UsesOf(k)) = Cardinality(UsesOf(n)) - n[e]
<1> DEFINE own == {e} \X (1 .. n[e])
<1>1. n[e] \in Nat /\ k[e] = 0 /\ \A f \in Entries : f # e => k[f] = n[f]
  BY Zenon
<1>2. ASSUME NEW x PROVE x \in UsesOf(n) <=> x \in UsesOf(k) \cup own
  <2>1. ASSUME x \in UsesOf(n) PROVE x \in UsesOf(k) \cup own
    <3>0. PICK f \in Entries, i \in Nat : IsUse(n, x, f, i)
      BY <2>1, UseIs, Zenon
    <3>1. i \in 1 .. n[f] /\ x = <<f, i>>
      BY <3>0, Zenon DEF IsUse
    <3>2. CASE f = e
      BY <3>1, <3>2, Zenon
    <3>3. CASE f # e
      BY <1>1, <3>1, <3>3, UseIn, Zenon
    <3> QED BY <3>2, <3>3, Zenon
  <2>2. ASSUME x \in UsesOf(k) PROVE x \in UsesOf(n)
    <3>0. PICK f \in Entries, i \in Nat : IsUse(k, x, f, i)
      BY <2>2, UseIs, Zenon
    <3>1. i \in 1 .. k[f] /\ x = <<f, i>>
      BY <3>0, Zenon DEF IsUse
    <3>2. i \in 1 .. n[f]
      BY <1>1, <3>1, SMTT(30)
    <3> QED BY <3>1, <3>2, UseIn, Zenon
  <2>3. ASSUME x \in own PROVE x \in UsesOf(n)
    BY <2>3, UseIn
  <2> QED BY <2>1, <2>2, <2>3, Zenon
<1>3. UsesOf(n) = UsesOf(k) \cup own
  BY <1>2, Zenon
<1>4. UsesOf(k) \cap own = {}
  <2>1. ASSUME NEW x, x \in UsesOf(k), x \in own PROVE FALSE
    <3>0. PICK f \in Entries, i \in Nat : IsUse(k, x, f, i)
      BY <2>1, UseIs, Zenon
    <3>1. i \in 1 .. k[f] /\ x = <<f, i>>
      BY <3>0, Zenon DEF IsUse
    <3>2. f = e
      BY <2>1, <3>1, Zenon
    <3> QED BY <1>1, <3>1, <3>2, SMTT(30)
  <2> QED BY <2>1, Zenon
<1>5. IsFiniteSet(own) /\ Cardinality(own) = n[e]
  <2>1. IsFiniteSet(1 .. n[e]) /\ Cardinality(1 .. n[e]) = n[e]
    BY <1>1, FS_Interval
  <2>2. IsFiniteSet({e}) /\ Cardinality({e}) = 1
    BY FS_Singleton, Zenon
  <2>3. IsFiniteSet(own) /\ Cardinality(own) = Cardinality({e}) * Cardinality(1 .. n[e])
    BY <2>1, <2>2, FS_Product, Zenon
  <2> QED BY <1>1, <2>1, <2>2, <2>3, SMTT(30)
<1> HIDE DEF own
<1>6. IsFiniteSet(UsesOf(k))
  BY <1>3, FS_Subset, Zenon
<1>7. /\ Cardinality(UsesOf(n)) = Cardinality(UsesOf(k)) + Cardinality(own)
                                   - Cardinality(UsesOf(k) \cap own)
      /\ Cardinality(UsesOf(k) \cap own) = 0
  BY <1>3, <1>4, <1>5, <1>6, FS_Union, FS_EmptySet, ZenonT(40)
<1>8. Cardinality(UsesOf(k)) \in Nat
  BY <1>6, FS_CardinalityType, Zenon
<1> QED BY <1>1, <1>5, <1>6, <1>7, <1>8, SMTT(30)

(* The free count and the uses of an MSHR add up. *)
Balanced(m) ==
  IsFiniteSet(UsesOf(m.nUse)) /\ m.nFree = NEntries - Cardinality(UsesOf(m.nUse))

LEMMA StillBalanced ==
  ASSUME NEW m \in OneMshr, Balanced(m), NEW t, NEW n \in Int, t.nFree = m.nFree + n,
         IsFiniteSet(UsesOf(t.nUse)), Cardinality(UsesOf(t.nUse)) = Cardinality(UsesOf(m.nUse)) - n
  PROVE  Balanced(t)
<1>1. m.nFree = NEntries - Cardinality(UsesOf(m.nUse)) /\ NEntries \in Nat
  BY MshrAssumption, Zenon DEF Balanced
<1>2. Cardinality(UsesOf(m.nUse)) \in Nat
  BY FS_CardinalityType, Zenon DEF Balanced
<1>3. t.nFree = NEntries - Cardinality(UsesOf(t.nUse))
  BY <1>1, <1>2
<1> QED BY <1>3, Zenon DEF Balanced

LEMMA AddEntryBalances ==
  ASSUME NEW m \in OneMshr, NEW e \in Entries, NEW cb, Balanced(m)
  PROVE  Balanced(AddEntry("full", m, e, cb))
<1> DEFINE more == [m.nUse EXCEPT ![e] = m.nUse[e] + 1]
           q == [m.cc EXCEPT ![e] = IF cb = NoCb THEN m.cc[e] ELSE Append(m.cc[e], cb)]
<1>1. AddEntry("full", m, e, cb) = Put(m, m.nFree - 1, more, q)
  BY Zenon DEF AddEntry, FullAddEntry, OneMshr, Put
<1> HIDE DEF q
<1>2. PICK t : t = AddEntry("full", m, e, cb)
  BY Zenon
<1>3. t.nFree = m.nFree - 1 /\ t.nUse = more
  BY <1>1, <1>2, ZenonT(40) DEF Put, OneMshr
<1>4. m.nUse \in [Entries -> Nat] /\ m.nFree \in Int /\ IsFiniteSet(UsesOf(m.nUse))
  BY MshrFields, Zenon DEF Balanced
<1>5. IsFiniteSet(UsesOf(t.nUse)) /\ Cardinality(UsesOf(t.nUse)) = Cardinality(UsesOf(m.nUse)) + 1
  BY <1>3, <1>4, OneUseMore, ZenonT(40)
<1>6. Cardinality(UsesOf(m.nUse)) \in Nat
  BY <1>4, FS_CardinalityType, Zenon
<1>7. /\ -1 \in Int /\ t.nFree = m.nFree + -1
      /\ Cardinality(UsesOf(t.nUse)) = Cardinality(UsesOf(m.nUse)) - (-1)
  BY <1>3, <1>4, <1>5, <1>6, SMTT(30)
<1> QED BY <1>2, <1>5, <1>7, StillBalanced, Zenon

LEMMA OneLessBalances ==
  ASSUME NEW m \in OneMshr, NEW e \in Entries, Balanced(m), m.nUse[e] > 0,
         NEW t, t.nFree = m.nFree + 1, t.nUse = [m.nUse EXCEPT ![e] = m.nUse[e] - 1]
  PROVE  Balanced(t)
<1>1. m.nUse \in [Entries -> Nat] /\ IsFiniteSet(UsesOf(m.nUse))
  BY MshrFields, Zenon DEF Balanced
<1>2. IsFiniteSet(UsesOf(t.nUse)) /\ Cardinality(UsesOf(t.nUse)) = Cardinality(UsesOf(m.nUse)) - 1
  BY <1>1, OneUseLess, ZenonT(40)
<1>3. 1 \in Int
  OBVIOUS
<1> QED BY <1>2, <1>3, StillBalanced, ZenonT(40)

LEMMA TakeNextBalances ==
  ASSUME NEW m \in OneMshr, NEW e \in Entries, NEW i, Balanced(m), m.nUse[e] > 0
  PROVE  Balanced(TakeNext("full", m, e, i))
<1> DEFINE less == [m.nUse EXCEPT ![e] = m.nUse[e] - 1]
           q == [m.cc EXCEPT ![e] = SubSeq(m.cc[e], i + 1, Len(m.cc[e]))]
<1>1. TakeNext("full", m, e, i) = Put(m, m.nFree + 1, less, q)
  BY Zenon DEF TakeNext, OneMshr, Put
<1> HIDE DEF q
<1>2. PICK t : t = TakeNext("full", m, e, i)
  BY Zenon
<1>3. t.nFree = m.nFree + 1 /\ t.nUse = less
  BY <1>1, <1>2, Zenon DEF Put, OneMshr
<1> QED BY <1>2, <1>3, OneLessBalances, Zenon

LEMMA ReleaseBalances ==
  ASSUME NEW m \in OneMshr, NEW e \in Entries, Balanced(m)
  PROVE  Balanced(Release(m, e))
<1> DEFINE none == [m.nUse EXCEPT ![e] = 0]
<1>1. PICK t : t = Release(m, e)
  BY Zenon
<1>2. t.nFree = m.nFree + m.nUse[e] /\ t.nUse = none
  BY <1>1, Zenon DEF Release, OneMshr
<1>3. /\ m.nUse \in [Entries -> Nat] /\ IsFiniteSet(UsesOf(m.nUse))
      /\ m.nUse[e] \in Int
  BY MshrFields DEF Balanced
<1>4. /\ IsFiniteSet(UsesOf(t.nUse))
      /\ Cardinality(UsesOf(t.nUse)) = Cardinality(UsesOf(m.nUse)) - m.nUse[e]
  BY <1>2, <1>3, NoUseLeft, Zenon
<1> QED BY <1>1, <1>2, <1>3, <1>4, StillBalanced, ZenonT(40)

LEMMA RetireLastBalances ==
  ASSUME NEW m \in OneMshr, NEW e \in Entries, Balanced(m)
  PROVE  Balanced(RetireLast("full", m, e))
<1>1. CASE m.nUse[e] > 0
  <2> DEFINE less == [m.nUse EXCEPT ![e] = m.nUse[e] - 1]
  <2>1. PICK t : t = Put(m, m.nFree + 1, less, m.cc)
    BY Zenon
  <2>2. RetireLast("full", m, e) = Release(t, e)
    <3>1. [m EXCEPT !.nFree = @ + 1, !.nUse[e] = @ - 1] = t
      BY <2>1, Zenon DEF OneMshr, Put
    <3> QED BY <1>1, <3>1, Zenon DEF RetireLast
  <2>3. m.nUse[e] - 1 \in Nat /\ m.nFree + 1 \in Int
    BY <1>1, MshrFields, SMTT(30)
  <2>4. less \in [Entries -> Nat] /\ m.cc \in [Entries -> Seq(Req \cup {NoCb})]
    BY <2>3, MshrFields, Zenon
  <2> HIDE DEF less
  <2>5. t \in OneMshr /\ t.nFree = m.nFree + 1 /\ t.nUse = less
    BY <2>1, <2>3, <2>4, Zenon DEF Put, OneMshr
  <2>6. Balanced(t)
    BY <1>1, <2>5, OneLessBalances, Zenon DEF less
  <2> QED BY <2>2, <2>5, <2>6, ReleaseBalances, Zenon
<1>2. CASE ~(m.nUse[e] > 0)
  BY <1>2, Zenon DEF RetireLast
<1> QED BY <1>1, <1>2, Zenon

(* Every full MSHR of the hierarchy is balanced. *)
AllBalanced == \A c \in Caches : Kind[c] = "full" => Balanced(mshr[c])

LEMMA OneBalances ==
  ASSUME Typed, AllBalanced, NEW c \in Caches, NEW m, Kind[c] = "full" => Balanced(m),
         mshr' = [mshr EXCEPT ![c] = m]
  PROVE  AllBalanced'
<1>1. mshr \in MshrType
  BY Types, Zenon
<1>2. ASSUME NEW d \in Caches, Kind[d] = "full" PROVE Balanced(mshr'[d])
  <2>1. mshr'[d] = IF d = c THEN m ELSE mshr[d]
    BY <1>1, Zenon DEF MshrType
  <2> QED BY <1>2, <2>1, Zenon DEF AllBalanced
<1> QED BY <1>2, ZenonT(40) DEF AllBalanced, Balanced, UsesOf

LEMMA BalancedKeeps == IInv /\ AllBalanced /\ [Next]_vars => AllBalanced'
<1> SUFFICES ASSUME IInv, AllBalanced, [Next]_vars PROVE AllBalanced'
  BY Zenon
<1>0. Typed /\ \A c \in Caches : mshr[c] \in OneMshr
  BY Types, Zenon DEF IInv
<1>1. ASSUME mshr' = mshr PROVE AllBalanced'
  BY <1>1, Zenon DEF AllBalanced, Balanced, UsesOf
<1>2. ASSUME NEW c \in Caches, NEW r \in Req, Access(c, r) PROVE AllBalanced'
  <2>1. PICK e \in Entries : e = Entry(c, r)
    BY <1>0, Types, Zenon
  <2>2. PICK cb : mshr' = mshr \/ mshr' = [mshr EXCEPT ![c] = AddEntry(Kind[c], mshr[c], e, cb)]
    BY <1>2, <2>1, Zenon DEF Access
  <2>3. Kind[c] = "full" => Balanced(AddEntry(Kind[c], mshr[c], e, cb))
    BY <1>0, AddEntryBalances, Zenon DEF AllBalanced
  <2> QED BY <1>0, <1>1, <2>2, <2>3, OneBalances, ZenonT(40)
<1>3. ASSUME NEW r \in Req, DoRead(r) \/ DoWrite(r) \/ DoBusRead(r) PROVE AllBalanced'
  <2>1. req[r].home \in Caches /\ L2 \in Caches
    BY <1>0, Types, DownIs, Zenon
  <2> QED BY <1>2, <1>3, <2>1, Zenon DEF DoRead, DoWrite, DoBusRead
<1>4. ASSUME NEW r \in Req, Issue(r) \/ MemBusRead(r) \/ DoPushUp(r) PROVE AllBalanced'
  BY <1>1, <1>4, Zenon DEF Issue, MemBusRead, DoPushUp
<1>5. CASE RetireEnds
  <2>1. PICK c \in Caches, e \in Entries : busy = <<c, e>>
    BY <1>5 DEF IInv, Typed, RetireEnds
  <2>2. mshr' = [mshr EXCEPT ![c] = RetireLast(Kind[c], mshr[c], e)]
    BY <1>5, <2>1, Zenon DEF RetireEnds
  <2>3. Kind[c] = "full" => Balanced(RetireLast(Kind[c], mshr[c], e))
    BY <1>0, RetireLastBalances, Zenon DEF AllBalanced
  <2> QED BY <1>0, <2>2, <2>3, OneBalances, ZenonT(40)
<1>6. CASE RetireCalls
  <2>0. RestTyped /\ busy # NotBusy
    BY <1>0, <1>6, TypeParts, Zenon DEF RetireCalls
  <2>1. PICK c \in Caches, e \in Entries : busy = <<c, e>>
    BY <2>0, SMTT(30) DEF RestTyped
  <2>2. PICK i : i = NextCb(Kind[c], mshr[c], e)
    BY Zenon
  <2>3. PICK r : r = mshr[c].cc[e][i]
    BY Zenon
  <2>4. PICK t : t = TakeNext(Kind[c], mshr[c], e, i)
    BY Zenon
  <2>5. i > 0
    BY <1>6, <2>1, <2>2, ZenonT(40) DEF RetireCalls
  <2>6. \/ mshr' = [mshr EXCEPT ![c] = t]
        \/ mshr' = [mshr EXCEPT ![c] = Settle(Kind[c], AddEntry(Kind[c], t, e, NoCb), e)]
        \/ mshr' = mshr
    <3>1. CASE Lookup(c, r) = "hit"
      BY <1>6, <2>1, <2>2, <2>3, <2>4, <3>1, ZenonT(40) DEF RetireCalls
    <3>2. CASE Lookup(c, r) \in {"miss", "upgrade"}
      BY <1>6, <2>1, <2>2, <2>3, <2>4, <3>2, ZenonT(40) DEF RetireCalls
    <3>3. CASE Lookup(c, r) = "assert"
      BY <1>6, <2>1, <2>2, <2>3, <2>4, <3>3, ZenonT(40) DEF RetireCalls
    <3> QED BY <3>1, <3>2, <3>3, LookupIs, ZenonT(40)
  <2>7. ASSUME Kind[c] = "full"
        PROVE  Balanced(t) /\ Balanced(Settle(Kind[c], AddEntry(Kind[c], t, e, NoCb), e))
    <3>1. i \in 1 .. Len(Cc(c, e)) /\ Use(c, e) > 0
      BY <2>2, <2>5, <2>7, Called, Zenon
    <3>2. Balanced(t)
      BY <1>0, <2>4, <2>7, <3>1, TakeNextBalances, Zenon DEF AllBalanced, Use
    <3>3. t \in OneMshr
      BY <1>0, <2>4, <2>7, <3>1, TakeNextStep, Zenon DEF Becomes, Use, Cc
    <3>4. PICK a : a = AddEntry(Kind[c], t, e, NoCb)
      BY Zenon
    <3>5. Balanced(a) /\ a \in OneMshr
      BY <2>7, <3>2, <3>3, <3>4, AddEntryBalances, AddEntryStep, Zenon DEF Becomes
    <3>6. Balanced(Settle(Kind[c], a, e))
      BY <3>5, ReleaseBalances, Zenon DEF Settle
    <3> QED BY <3>2, <3>4, <3>6, Zenon
  <2> QED BY <1>0, <1>1, <2>6, <2>7, OneBalances, Zenon
<1>7. ASSUME NEW m, DoInvalidate(m) \/ DoPushDown(m) PROVE AllBalanced'
  BY <1>1, <1>7, Zenon DEF DoInvalidate, DoPushDown
<1>8. ASSUME NEW c \in L1s, NEW a \in Addr, FFRead(c, a) \/ FFWrite(c, a) PROVE AllBalanced'
  BY <1>1, <1>8, Zenon DEF FFRead, FFWrite, FF
<1>9. CASE UNCHANGED vars
  BY <1>1, <1>9, Zenon DEF vars
<1>10. CASE Next
  BY <1>3, <1>4, <1>5, <1>6, <1>7, <1>8, <1>10, ZenonT(40) DEF Next
<1> QED BY <1>9, <1>10, Zenon

(* The books of every full MSHR balance: whatever the nesting of retire()  *)
(* and of the callbacks it calls, nFreeEntries is nEntries less the sum of *)
(* the use counts, and no entry has more callbacks than uses.              *)
THEOREM EntriesBalance == Spec => []EntriesAddUp
<1>1. Init => AllBalanced
  <2> SUFFICES ASSUME Init PROVE AllBalanced
    BY Zenon
  <2>1. mshr = [c \in Caches |-> MshrInit]
    BY Zenon DEF Init
  <2>2. MshrInit.nFree = NEntries /\ \A e \in Entries : MshrInit.nUse[e] = 0
    BY Zenon DEF MshrInit
  <2>3. UsesOf(MshrInit.nUse) = {}
    <3>1. ASSUME NEW x \in UsesOf(MshrInit.nUse) PROVE FALSE
      <4>1. PICK f \in Entries, i \in Nat : IsUse(MshrInit.nUse, x, f, i)
        BY <3>1, UseIs, Zenon
      <4> QED BY <2>2, <4>1 DEF IsUse
    <3> QED BY <3>1, Zenon
  <2>4. Balanced(MshrInit)
    BY <2>2, <2>3, FS_EmptySet, MshrAssumption, SMTT(30) DEF Balanced
  <2> QED BY <2>1, <2>4, Zenon DEF AllBalanced
<1>2. IInv /\ AllBalanced => EntriesAddUp
  BY Zenon DEF IInv, Lists, EntryOK, AllBalanced, Balanced, UsesOf, Uses, EntriesAddUp, Cc, Use
<1> QED BY <1>1, <1>2, BalancedKeeps, CacheInvariant, PTL DEF Spec

-----------------------------------------------------------------------------
(* A request that is below the cache of its core, or queued. *)
Flying(k) == k \in {"queued", "busRead", "pushUp"}

(* What a request's going from k to l adds to those of its core. *)
Change(k, l) ==
  IF Flying(l) THEN (IF Flying(k) THEN 0 ELSE 1) ELSE (IF Flying(k) THEN -1 ELSE 0)

LEMMA Joins ==
  ASSUME NEW n \in Nat, NEW k, NEW l, Flying(l)
  PROVE  /\ Flying(k) => n = n + Change(k, l)
         /\ ~Flying(k) => n + 1 = n + Change(k, l)
BY DEF Change

LEMMA Quits ==
  ASSUME NEW n \in Nat, NEW k, NEW l, ~Flying(l)
  PROVE  /\ Flying(k) => n - 1 = n + Change(k, l)
         /\ ~Flying(k) => n = n + Change(k, l)
BY DEF Change

LEMMA PlusNone ==
  ASSUME NEW n \in Nat
  PROVE  n + 0 = n
OBVIOUS

LEMMA ChangeIs ==
  ASSUME NEW k, NEW l
  PROVE  /\ Change(k, l) \in Int
         /\ Change(k, l) = (IF Flying(l) THEN 1 ELSE 0) - (IF Flying(k) THEN 1 ELSE 0)
BY DEF Change

LEMMA OutCount ==
  ASSUME Typed, NEW r \in Req, NEW k, NEW to, Goes(r, k, to), NEW d, NEW op
  PROVE  /\ IsFiniteSet(Outstanding(d, op)) /\ IsFiniteSet(Outstanding(d, op)')
         /\ Cardinality(Outstanding(d, op)) \in Nat
         /\ Cardinality(Outstanding(d, op)') =
              Cardinality(Outstanding(d, op))
                + (IF req[r].home = d /\ req[r].op = op THEN Change(req[r].kind, k) ELSE 0)
<1>1. IsFiniteSet(Outstanding(d, op)) /\ IsFiniteSet(Outstanding(d, op)')
  <2>1. IsFiniteSet(Req)
    BY CacheAssumption, Zenon
  <2>2. Outstanding(d, op) \in SUBSET Req /\ Outstanding(d, op)' \in SUBSET Req
    BY Zenon DEF Outstanding
  <2> QED BY <2>1, <2>2, FS_Subset, Zenon
<1>2. Cardinality(Outstanding(d, op)) \in Nat
  BY <1>1, FS_CardinalityType, Zenon
<1>3. \A q \in Req :
        /\ q \in Outstanding(d, op) <=> req[q].home = d /\ req[q].op = op /\ Flying(req[q].kind)
        /\ q \in Outstanding(d, op)' <=> req'[q].home = d /\ req'[q].op = op /\ Flying(req'[q].kind)
  BY Zenon DEF Outstanding, Flying
<1>4. \A q \in Req :
        q \in Outstanding(d, op)' <=>
          req[q].home = d /\ req[q].op = op /\ (IF q = r THEN Flying(k) ELSE Flying(req[q].kind))
  BY <1>3, Zenon DEF Goes
<1>5. Outstanding(d, op) \subseteq Req /\ Outstanding(d, op)' \subseteq Req
  BY Zenon DEF Outstanding
<1> DEFINE here == req[r].home = d /\ req[r].op = op
<1>6. r \in Outstanding(d, op) <=> here /\ Flying(req[r].kind)
  BY <1>3, Zenon
<1>7. CASE here /\ Flying(k)
  <2>1. Outstanding(d, op)' = Outstanding(d, op) \cup {r}
    BY <1>3, <1>4, <1>5, <1>7, Zenon
  <2>2. Cardinality(Outstanding(d, op) \cup {r}) =
          IF r \in Outstanding(d, op) THEN Cardinality(Outstanding(d, op))
          ELSE Cardinality(Outstanding(d, op)) + 1
    BY <1>1, FS_AddElement, Zenon
  <2>3. Cardinality(Outstanding(d, op)') = IF Flying(req[r].kind) THEN Cardinality(Outstanding(d, op))
                                           ELSE Cardinality(Outstanding(d, op)) + 1
    BY <1>6, <1>7, <2>1, <2>2, ZenonT(40)
  <2>4. Cardinality(Outstanding(d, op)') = Cardinality(Outstanding(d, op)) + Change(req[r].kind, k)
    BY <1>2, <1>7, <2>3, Joins, SMTT(30)
  <2> QED BY <1>1, <1>2, <1>7, <2>4, ZenonT(40)
<1>8. CASE here /\ ~Flying(k)
  <2>1. Outstanding(d, op)' = Outstanding(d, op) \ {r}
    BY <1>3, <1>4, <1>5, <1>8, Zenon
  <2>2. Cardinality(Outstanding(d, op) \ {r}) =
          IF r \in Outstanding(d, op) THEN Cardinality(Outstanding(d, op)) - 1
          ELSE Cardinality(Outstanding(d, op))
    BY <1>1, FS_RemoveElement, Zenon
  <2>3. Cardinality(Outstanding(d, op)') = IF Flying(req[r].kind) THEN Cardinality(Outstanding(d, op)) - 1
                                           ELSE Cardinality(Outstanding(d, op))
    BY <1>6, <1>8, <2>1, <2>2, ZenonT(40)
  <2>4. Cardinality(Outstanding(d, op)') = Cardinality(Outstanding(d, op)) + Change(req[r].kind, k)
    BY <1>2, <1>8, <2>3, Quits, SMTT(30)
  <2> QED BY <1>1, <1>2, <1>8, <2>4, ZenonT(40)
<1>9. CASE ~here
  <2>1. Outstanding(d, op)' = Outstanding(d, op)
    BY <1>3, <1>4, <1>5, <1>9, ZenonT(40)
  <2> QED BY <1>1, <1>2, <1>9, <2>1, PlusNone, Zenon
<1> QED BY <1>7, <1>8, <1>9, Zenon

(* pendingReads and pendingWrites count what is outstanding. *)
PendingOK ==
  \A c \in L1s : /\ pendingReads[c] = Cardinality(Outstanding(c, "read"))
                 /\ pendingWrites[c] <= Cardinality(Outstanding(c, "write"))

(* The counts of r's cache follow a change of n. *)
PendingMoves(r, n) ==
  \A d \in L1s :
    /\ pendingReads'[d] = pendingReads[d] + (IF req[r].home = d /\ req[r].op = "read" THEN n ELSE 0)
    /\ pendingWrites'[d] <= pendingWrites[d] + (IF req[r].home = d /\ req[r].op = "write" THEN n ELSE 0)

LEMMA AtMost ==
  ASSUME NEW n \in Int, NEW m \in Nat, NEW add \in Int, NEW k \in Int, n <= m, k <= n + add
  PROVE  k <= m + add
OBVIOUS

LEMMA CountMoves ==
  ASSUME Typed, Typed', PendingOK, NEW r \in Req, NEW k, NEW to, Goes(r, k, to),
         NEW n, n = Change(req[r].kind, k), PendingMoves(r, n)
  PROVE  PendingOK'
<1>0. n \in Int
  BY ChangeIs, ZenonT(40)
<1>1. ASSUME NEW d \in L1s
      PROVE  /\ pendingReads'[d] = Cardinality(Outstanding(d, "read")')
             /\ pendingWrites'[d] <= Cardinality(Outstanding(d, "write")')
  <2>1. /\ pendingReads[d] = Cardinality(Outstanding(d, "read"))
        /\ pendingWrites[d] <= Cardinality(Outstanding(d, "write"))
    BY Zenon DEF PendingOK
  <2>2. pendingWrites[d] \in Int /\ pendingWrites'[d] \in Int
    BY Zenon DEF Typed
  <2>3. Cardinality(Outstanding(d, "read")) \in Nat /\ Cardinality(Outstanding(d, "write")) \in Nat
    BY OutCount, Zenon
  <2>4. Cardinality(Outstanding(d, "read")') =
          Cardinality(Outstanding(d, "read"))
            + (IF req[r].home = d /\ req[r].op = "read" THEN Change(req[r].kind, k) ELSE 0)
    BY OutCount, Zenon
  <2>5. Cardinality(Outstanding(d, "write")') =
          Cardinality(Outstanding(d, "write"))
            + (IF req[r].home = d /\ req[r].op = "write" THEN Change(req[r].kind, k) ELSE 0)
    BY OutCount, Zenon
  <2>6. /\ pendingReads'[d] = pendingReads[d] + (IF req[r].home = d /\ req[r].op = "read" THEN n ELSE 0)
        /\ pendingWrites'[d] <= pendingWrites[d] + (IF req[r].home = d /\ req[r].op = "write" THEN n ELSE 0)
    BY Zenon DEF PendingMoves
  <2>7. pendingReads'[d] = Cardinality(Outstanding(d, "read")')
    BY <2>1, <2>4, <2>6, ZenonT(40)
  <2>8. PICK add \in Int : add = IF req[r].home = d /\ req[r].op = "write" THEN n ELSE 0
    <3>1. 0 \in Int
      OBVIOUS
    <3> QED BY <1>0, <3>1, Zenon
  <2>9. /\ Cardinality(Outstanding(d, "write")') = Cardinality(Outstanding(d, "write")) + add
        /\ pendingWrites'[d] <= pendingWrites[d] + add
    BY <2>5, <2>6, <2>8, Zenon
  <2>10. pendingWrites'[d] <= Cardinality(Outstanding(d, "write")')
    BY <2>1, <2>2, <2>3, <2>9, AtMost, Zenon
  <2> QED BY <2>7, <2>10, Zenon
<1> QED BY <1>1, Zenon DEF PendingOK

LEMMA CountStays ==
  ASSUME Typed, Typed', PendingOK, req' = req, pendingReads' = pendingReads,
         \A d \in L1s : pendingWrites'[d] <= pendingWrites[d]
  PROVE  PendingOK'
<1>1. ASSUME NEW d, NEW op
      PROVE  Outstanding(d, op)' = Outstanding(d, op) /\ IsFiniteSet(Outstanding(d, op))
  <2>1. IsFiniteSet(Req)
    BY CacheAssumption, Zenon
  <2>2. Outstanding(d, op) \in SUBSET Req
    BY Zenon DEF Outstanding
  <2> QED BY <2>1, <2>2, FS_Subset, ZenonT(40) DEF Outstanding
<1>2. ASSUME NEW d \in L1s
      PROVE  /\ pendingReads'[d] = Cardinality(Outstanding(d, "read")')
             /\ pendingWrites'[d] <= Cardinality(Outstanding(d, "write")')
  <2>1. /\ pendingReads[d] = Cardinality(Outstanding(d, "read"))
        /\ pendingWrites[d] <= Cardinality(Outstanding(d, "write"))
    BY Zenon DEF PendingOK
  <2>2. pendingWrites[d] \in Int /\ pendingWrites'[d] \in Int
    BY Zenon DEF Typed
  <2>3. Cardinality(Outstanding(d, "write")) \in Nat
    BY <1>1, FS_CardinalityType, Zenon
  <2>4. /\ Cardinality(Outstanding(d, "read")') = Cardinality(Outstanding(d, "read"))
        /\ Cardinality(Outstanding(d, "write")') = Cardinality(Outstanding(d, "write"))
    BY <1>1, Zenon
  <2> QED BY <2>1, <2>2, <2>3, <2>4, SMTT(30)
<1> QED BY <1>2, Zenon DEF PendingOK

(* A miss enters the count of its core, a retried request leaves it. *)
Gain(c, r, retrying) ==
  (IF Lookup(c, r) = "miss" THEN 1 ELSE 0) - (IF retrying THEN 1 ELSE 0)

LEMMA PendingIs ==
  ASSUME NEW p \in [L1s -> Int], NEW op, NEW c, NEW r, NEW retrying \in BOOLEAN, NEW d \in L1s
  PROVE  PendingAfter(p, op, c, r, retrying)[d] =
           p[d] + (IF d = c /\ req[r].op = op THEN Gain(c, r, retrying) ELSE 0)
<1> DEFINE n == (IF retrying THEN 1 ELSE 0)
           m == (IF Lookup(c, r) = "miss" THEN 1 ELSE 0)
<1>1. n \in Int /\ m \in Int /\ Gain(c, r, retrying) = m - n /\ p[d] \in Int
  BY DEF Gain
<1>2. PendingAfter(p, op, c, r, retrying) =
        IF c \in L1s /\ req[r].op = op THEN [p EXCEPT ![c] = p[c] - n + m] ELSE p
  BY Zenon DEF PendingAfter
<1> HIDE DEF n, m
<1> QED BY <1>1, <1>2, SMTT(30)

LEMMA ReadHits ==
  ASSUME NEW c, NEW r, req[r].op = "read"
  PROVE  Lookup(c, r) # "upgrade" /\ Lookup(c, r) # "assert"
<1>1. CASE line[c][req[r].addr] = "I"
  BY <1>1, Zenon DEF Lookup
<1>2. CASE line[c][req[r].addr] # "I"
  BY <1>2, Zenon DEF Lookup
<1> QED BY <1>1, <1>2, Zenon

(* A count p has become q: n more of the requests r with operation op, in   *)
(* cache c.                                                                *)
CountBy(p, q, op, c, r, n) ==
  \A d \in L1s : q[d] = p[d] + (IF d = c /\ req[r].op = op THEN n ELSE 0) /\ p[d] \in Int

(* The counts after an access. *)
LEMMA CountsAfter ==
  ASSUME NEW p \in [L1s -> Int], NEW op, NEW c, NEW r, NEW retrying \in BOOLEAN
  PROVE  CountBy(p, PendingAfter(p, op, c, r, retrying), op, c, r, Gain(c, r, retrying))
BY PendingIs, SMTT(30) DEF CountBy

(* The common body of doRead, doWrite and doBusRead, the first time or     *)
(* called by retire().                                                     *)
LEMMA AccessCounts ==
  ASSUME IInv, Typed', PendingOK, NEW c \in Caches, NEW r \in Req, NEW retrying \in BOOLEAN,
         c = req[r].home \/ c = L2,
         c # L2 => (Flying(req[r].kind) <=> retrying),
         c = L2 => Flying(req[r].kind),
         pendingReads' = PendingAfter(pendingReads, "read", c, r, retrying),
         pendingWrites' = PendingAfter(pendingWrites, "write", c, r, retrying),
         \/ Lookup(c, r) = "hit" /\ req' = Answered(c, r)
         \/ Lookup(c, r) = "assert" /\ req' = req
         \/ Lookup(c, r) \in {"miss", "upgrade"} /\ req' = Moved(r, "busRead", Down(c))
         \/ Lookup(c, r) = "miss" /\ req' = Moved(r, "queued", c)
  PROVE  PendingOK'
<1>0. /\ Typed /\ pendingReads \in [L1s -> Int] /\ pendingWrites \in [L1s -> Int]
      /\ req[r].home \in L1s /\ req[r].home \in Caches /\ req[r].home # L2
      /\ Down(c) \in Places /\ c \in Places /\ req[r].home \in Places /\ L2 \notin L1s
  BY Types, DownIs, Zenon DEF IInv, Typed, Places
<1> DEFINE g == Gain(c, r, retrying)
<1>1. g \in Int
  BY DEF Gain
<1>2. ASSUME NEW d \in L1s
      PROVE  /\ pendingReads'[d] = pendingReads[d] + (IF d = c /\ req[r].op = "read" THEN g ELSE 0)
             /\ pendingWrites'[d] = pendingWrites[d] + (IF d = c /\ req[r].op = "write" THEN g ELSE 0)
             /\ pendingReads[d] \in Int /\ pendingWrites[d] \in Int
  <2>1. CountBy(pendingReads, pendingReads', "read", c, r, g)
    BY <1>0, CountsAfter, Zenon
  <2>2. CountBy(pendingWrites, pendingWrites', "write", c, r, g)
    BY <1>0, CountsAfter, Zenon
  <2> QED BY <2>1, <2>2, Zenon DEF CountBy
<1>3. CASE c = L2
  <2>1. \A d \in L1s : pendingReads'[d] = pendingReads[d] + 0 /\ pendingWrites'[d] <= pendingWrites[d] + 0
    <3>1. \A d \in L1s : d # c
      BY <1>0, <1>3, Zenon
    <3> QED BY <1>2, <3>1, SMTT(30)
  <2>2. \/ req' = req
        \/ \E k \in {"pushUp", "busRead", "queued"}, to \in Places : req' = Moved(r, k, to)
    BY <1>0, <1>3, Zenon DEF Answered
  <2>3. CASE req' = req
    <3>1. pendingReads' = pendingReads /\ pendingWrites' = pendingWrites
      BY <1>0, <1>3, ZenonT(40) DEF PendingAfter
    <3>2. \A d \in L1s : pendingWrites'[d] <= pendingWrites[d]
      BY <1>0, <3>1
    <3> QED BY <1>0, <2>3, <3>1, <3>2, CountStays, ZenonT(40)
  <2>4. CASE req' # req
    <3>1. PICK k \in {"pushUp", "busRead", "queued"}, to \in Places : req' = Moved(r, k, to)
      BY <2>2, <2>4, Zenon
    <3>2. Goes(r, k, to)
      BY <1>0, <3>1, MovedGoes, ZenonT(40) DEF ReqKinds
    <3>3. 0 = Change(req[r].kind, k)
      BY <1>3, Zenon DEF Change, Flying
    <3>4. PICK n : n = Change(req[r].kind, k)
      BY Zenon
    <3>5. PendingMoves(r, n)
      <4>1. n = 0
        BY <3>3, <3>4, Zenon
      <4>2. \A P \in BOOLEAN : (IF P THEN n ELSE 0) = 0
        BY <4>1, Zenon
      <4> QED BY <2>1, <4>1, <4>2, ZenonT(40) DEF PendingMoves
    <3> QED BY <1>0, <3>2, <3>4, <3>5, CountMoves, ZenonT(40)
  <2> QED BY <2>3, <2>4, Zenon
<1>4. CASE c = req[r].home /\ c # L2
  <2>0. c \in L1s /\ Lookup(c, r) # "assert" /\ (Flying(req[r].kind) <=> retrying)
    BY <1>0, <1>4, Zenon DEF Lookup
  <2>1. PICK k \in {"done", "busRead", "queued"}, to \in Places :
          /\ req' = Moved(r, k, to)
          /\ k = "done" <=> Lookup(c, r) = "hit"
          /\ Lookup(c, r) \in {"hit", "miss", "upgrade"}
    <3>1. CASE Lookup(c, r) = "hit"
      BY <1>0, <2>0, <3>1, ZenonT(40) DEF Answered
    <3>2. CASE Lookup(c, r) \in {"miss", "upgrade"} /\ req' = Moved(r, "busRead", Down(c))
      BY <1>0, <3>2, Zenon
    <3>3. CASE Lookup(c, r) = "miss" /\ req' = Moved(r, "queued", c)
      BY <1>0, <3>3, Zenon
    <3> QED BY <2>0, <3>1, <3>2, <3>3, ZenonT(40)
  <2>2. Goes(r, k, to)
    BY <1>0, <2>1, MovedGoes, ZenonT(40) DEF ReqKinds
  <2>3. PICK n : n = Change(req[r].kind, k)
    BY Zenon
  <2>4. /\ n \in Int /\ g <= n
        /\ Lookup(c, r) # "upgrade" => g = n
    <3>1. Flying(k) <=> Lookup(c, r) # "hit"
      BY <2>1, Zenon DEF Flying
    <3>2. n = (IF Lookup(c, r) # "hit" THEN 1 ELSE 0) - (IF retrying THEN 1 ELSE 0)
      BY <2>0, <2>3, <3>1, ChangeIs, ZenonT(40)
    <3>3. Lookup(c, r) = "hit" => g = n
      BY <3>2, Zenon DEF Gain
    <3>4. Lookup(c, r) = "miss" => g = n
      BY <3>2, Zenon DEF Gain
    <3>5. Lookup(c, r) = "upgrade" => g <= n
      BY <3>2, SMTT(30) DEF Gain
    <3>6. n \in Int
      BY <3>2, SMTT(30)
    <3> HIDE DEF g
    <3>7. g = n => g <= n
      BY <3>6
    <3> QED BY <2>1, <3>3, <3>4, <3>5, <3>6, <3>7, ZenonT(40)
  <2>5. req[r].op = "read" => g = n
    BY <2>4, ReadHits, Zenon
  <2> HIDE DEF g
  <2>6. ASSUME NEW d \in L1s
        PROVE  /\ pendingReads'[d] = pendingReads[d] + (IF c = d /\ req[r].op = "read" THEN n ELSE 0)
               /\ pendingWrites'[d] <= pendingWrites[d] + (IF c = d /\ req[r].op = "write" THEN n ELSE 0)
    <3>1. /\ pendingReads'[d] = pendingReads[d] + (IF d = c /\ req[r].op = "read" THEN g ELSE 0)
          /\ pendingWrites'[d] = pendingWrites[d] + (IF d = c /\ req[r].op = "write" THEN g ELSE 0)
          /\ pendingWrites[d] \in Int
      BY <1>2, Zenon
    <3>2. pendingReads'[d] = pendingReads[d] + (IF c = d /\ req[r].op = "read" THEN n ELSE 0)
      BY <2>5, <3>1, ZenonT(40)
    <3>3. pendingWrites'[d] <= pendingWrites[d] + (IF c = d /\ req[r].op = "write" THEN n ELSE 0)
      <4>1. pendingWrites[d] + g <= pendingWrites[d] + n /\ pendingWrites[d] + 0 <= pendingWrites[d] + 0
        BY <1>1, <2>4, <3>1, SMTT(30)
      <4>2. CASE c = d /\ req[r].op = "write"
        BY <3>1, <4>1, <4>2, Zenon
      <4>3. CASE ~(c = d /\ req[r].op = "write")
        BY <3>1, <4>1, <4>3, Zenon
      <4> QED BY <4>2, <4>3, Zenon
    <3> QED BY <3>2, <3>3, Zenon
  <2>7. PendingMoves(r, n)
    BY <1>4, <2>6, Zenon DEF PendingMoves
  <2> QED BY <1>0, <2>2, <2>3, <2>7, CountMoves, ZenonT(40)
<1> QED BY <1>3, <1>4, Zenon

LEMMA PendingKeeps == IInv /\ IInv' /\ PendingOK /\ [Next]_vars => PendingOK'
<1> SUFFICES ASSUME IInv, Typed', PendingOK, [Next]_vars PROVE PendingOK'
  BY Zenon DEF IInv
<1>0. /\ Typed /\ pendingWrites \in [L1s -> Int] /\ pendingReads \in [L1s -> Int]
      /\ L2 \in Caches /\ L2 \notin L1s
  BY DownIs, Zenon DEF IInv, Typed
<1>1. ASSUME req' = req, pendingReads' = pendingReads, pendingWrites' = pendingWrites
      PROVE  PendingOK'
  <2>1. \A d \in L1s : pendingWrites'[d] <= pendingWrites[d]
    BY <1>0, <1>1
  <2> QED BY <1>0, <1>1, <2>1, CountStays, Zenon
<1>2. ASSUME NEW c \in Caches, NEW r \in Req, Arrived(c, r), Access(c, r) PROVE PendingOK'
  <2>1. /\ pendingReads' = PendingAfter(pendingReads, "read", c, r, FALSE)
        /\ pendingWrites' = PendingAfter(pendingWrites, "write", c, r, FALSE)
    BY <1>2, ZenonT(40) DEF Access
  <2>2. /\ req[r].home # L2 /\ (c = req[r].home \/ c = L2)
        /\ c # L2 => (Flying(req[r].kind) <=> FALSE)
        /\ c = L2 => Flying(req[r].kind)
    <3>1. req[r].home # L2
      BY <1>0, Types, Zenon
    <3> QED BY <1>2, <3>1, Zenon DEF Arrived, At, Flying
  <2>3. \/ Lookup(c, r) = "hit" /\ req' = Answered(c, r)
        \/ Lookup(c, r) = "assert" /\ req' = req
        \/ Lookup(c, r) \in {"miss", "upgrade"} /\ req' = Moved(r, "busRead", Down(c))
        \/ Lookup(c, r) = "miss" /\ req' = Moved(r, "queued", c)
    <3> DEFINE waits == Lookup(c, r) = "miss" /\ ~CanIssue(Kind[c], mshr[c], Entry(c, r))
    <3>1. req' = CASE waits         -> Moved(r, "queued", c)
                   [] Lookup(c, r) = "hit"  -> Answered(c, r)
                   [] Lookup(c, r) = "assert" -> req
                   [] OTHER         -> Moved(r, "busRead", Down(c))
      BY <1>2, Zenon DEF Access
    <3>2. Lookup(c, r) \in {"miss", "hit", "upgrade", "assert"}
      BY LookupIs, Zenon
    <3>3. CASE waits
      BY <3>1, <3>3, Zenon
    <3>4. CASE Lookup(c, r) = "hit"
      BY <3>1, <3>4, Zenon
    <3>5. CASE Lookup(c, r) = "assert"
      BY <3>1, <3>5, Zenon
    <3>6. CASE Lookup(c, r) \in {"miss", "upgrade"} /\ ~waits
      BY <3>1, <3>6, Zenon
    <3> QED BY <3>2, <3>3, <3>4, <3>5, <3>6, ZenonT(40)
  <2>4. FALSE \in BOOLEAN
    BY Zenon
  <2> QED BY <2>1, <2>2, <2>3, <2>4, AccessCounts, ZenonT(40)
<1>3. ASSUME NEW r \in Req, DoRead(r) \/ DoWrite(r) PROVE PendingOK'
  <2>1. req[r].kind = "cpu" /\ Access(req[r].home, r)
    BY <1>3, Zenon DEF DoRead, DoWrite
  <2>2. PICK c \in Caches : c = req[r].home
    BY <1>0, Types, Zenon
  <2>3. Arrived(c, r)
    BY <2>1, <2>2, Zenon DEF Arrived
  <2> QED BY <1>2, <2>1, <2>2, <2>3, Zenon
<1>4. ASSUME NEW r \in Req, DoBusRead(r) PROVE PendingOK'
  <2>1. Arrived(L2, r) /\ Access(L2, r)
    BY <1>4, Zenon DEF DoBusRead, Arrived
  <2> QED BY <1>0, <1>2, <2>1, Zenon
<1>5. ASSUME NEW r \in Req, NEW k \in ReqKinds, NEW to \in Places, req' = Moved(r, k, to),
             Flying(k) <=> Flying(req[r].kind),
             pendingReads' = pendingReads, pendingWrites' = pendingWrites
      PROVE  PendingOK'
  <2>1. Goes(r, k, to)
    BY <1>0, <1>5, MovedGoes, ZenonT(40)
  <2>2. PICK n : n = Change(req[r].kind, k)
    BY Zenon
  <2>3. n = 0
    BY <1>5, <2>2, Zenon DEF Change
  <2>4. PendingMoves(r, n)
    BY <1>0, <1>5, <2>3, SMTT(30) DEF PendingMoves
  <2> QED BY <1>0, <2>1, <2>2, <2>4, CountMoves, ZenonT(40)
<1>6. ASSUME NEW r \in Req, Issue(r) PROVE PendingOK'
  <2>1. req[r].home \in Places /\ "cpu" \in ReqKinds
    BY <1>0, Types, Zenon DEF Places, ReqKinds
  <2>2. Flying("cpu") <=> Flying("idle")
    BY Zenon DEF Flying
  <2> QED BY <1>5, <1>6, <2>1, <2>2, ZenonT(40) DEF Issue
<1>7. ASSUME NEW r \in Req, MemBusRead(r) PROVE PendingOK'
  <2>1. L2 \in Places /\ "pushUp" \in ReqKinds
    BY <1>0, Zenon DEF Places, ReqKinds
  <2>2. Flying("pushUp") <=> Flying("busRead")
    BY Zenon DEF Flying
  <2> QED BY <1>5, <1>7, <2>1, <2>2, ZenonT(40) DEF MemBusRead, At
<1>8. ASSUME NEW r \in Req, DoPushUp(r) PROVE PendingOK'
  <2>0. /\ req[r].home \in Places /\ "pushUp" \in ReqKinds /\ "done" \in ReqKinds
        /\ req[r].home \in L1s
    BY <1>0, Types, Zenon DEF Places, ReqKinds
  <2>1. req[r].kind = "pushUp"
    BY <1>8, Zenon DEF DoPushUp
  <2>2. CASE req[r].at # req[r].home
    <3>1. /\ req' = Moved(r, "pushUp", req[r].home)
          /\ pendingReads' = pendingReads /\ pendingWrites' = pendingWrites
      BY <1>8, <2>2, Zenon DEF DoPushUp
    <3> QED BY <1>5, <2>0, <2>1, <3>1, ZenonT(40)
  <2>3. CASE req[r].at = req[r].home
    <3> DEFINE h == req[r].home
    <3>1. /\ req' = Moved(r, "done", h)
          /\ pendingReads' = IF req[r].op = "read" THEN [pendingReads EXCEPT ![h] = @ - 1] ELSE pendingReads
          /\ pendingWrites' = IF req[r].op = "write" THEN [pendingWrites EXCEPT ![h] = @ - 1] ELSE pendingWrites
      BY <1>8, <2>3, Zenon DEF DoPushUp
    <3>2. Goes(r, "done", h)
      BY <1>0, <2>0, <3>1, MovedGoes, ZenonT(40)
    <3>3. PICK n : n = Change(req[r].kind, "done")
      BY Zenon
    <3>4. n = -1
      BY <2>1, <3>3, Zenon DEF Change, Flying
    <3>5. ASSUME NEW d \in L1s
          PROVE  /\ pendingReads'[d] = pendingReads[d] + (IF h = d /\ req[r].op = "read" THEN n ELSE 0)
                 /\ pendingWrites'[d] <= pendingWrites[d] + (IF h = d /\ req[r].op = "write" THEN n ELSE 0)
      <4>1. pendingReads[d] \in Int /\ pendingWrites[d] \in Int
        BY <1>0, Zenon
      <4>2. pendingReads'[d] = pendingReads[d] + (IF h = d /\ req[r].op = "read" THEN n ELSE 0)
        BY <1>0, <2>0, <3>1, <3>4, <4>1, SMTT(30)
      <4>3. pendingWrites'[d] = pendingWrites[d] + (IF h = d /\ req[r].op = "write" THEN n ELSE 0)
        BY <1>0, <2>0, <3>1, <3>4, <4>1, SMTT(30)
      <4>4. pendingWrites'[d] \in Int
        BY <3>4, <4>1, <4>3, SMTT(30)
      <4>5. pendingWrites'[d] <= pendingWrites'[d]
        BY <4>4
      <4> QED BY <4>2, <4>3, <4>5, Zenon
    <3>6. PendingMoves(r, n)
      BY <3>5, Zenon DEF PendingMoves
    <3> QED BY <1>0, <3>2, <3>3, <3>6, CountMoves, ZenonT(40)
  <2> QED BY <2>2, <2>3, Zenon
<1>9. CASE RetireEnds
  BY <1>1, <1>9, Zenon DEF RetireEnds
<1>10. CASE RetireCalls
  <2>0. RestTyped /\ busy # NotBusy
    BY <1>0, <1>10, TypeParts, Zenon DEF RetireCalls
  <2>1. PICK c \in Caches, e \in Entries : busy = <<c, e>>
    BY <2>0, SMTT(30) DEF RestTyped
  <2>2. PICK i : i = NextCb(Kind[c], mshr[c], e)
    BY Zenon
  <2>3. PICK r : r = Cc(c, e)[i]
    BY Zenon
  <2>4. /\ i > 0
        /\ pendingReads' = PendingAfter(pendingReads, "read", c, r, TRUE)
        /\ pendingWrites' = PendingAfter(pendingWrites, "write", c, r, TRUE)
        /\ \/ Lookup(c, r) = "hit" /\ req' = Answered(c, r)
           \/ Lookup(c, r) = "assert" /\ req' = req
           \/ Lookup(c, r) \in {"miss", "upgrade"} /\ req' = Moved(r, "busRead", Down(c))
    <3>1. /\ i > 0
          /\ pendingReads' = PendingAfter(pendingReads, "read", c, r, TRUE)
          /\ pendingWrites' = PendingAfter(pendingWrites, "write", c, r, TRUE)
          /\ CASE Lookup(c, r) = "hit" ->
                    /\ mshr' = [mshr EXCEPT ![c] = TakeNext(Kind[c], mshr[c], e, i)]
                    /\ req' = Answered(c, r)
                    /\ UNCHANGED busy
               [] Lookup(c, r) \in {"miss", "upgrade"} ->
                    /\ mshr' = [mshr EXCEPT ![c] =
                         Settle(Kind[c], AddEntry(Kind[c], TakeNext(Kind[c], mshr[c], e, i), e, NoCb), e)]
                    /\ req' = Moved(r, "busRead", Down(c))
                    /\ busy' = NotBusy
               [] Lookup(c, r) = "assert" -> UNCHANGED <<mshr, req, busy>>
      BY <1>10, <2>1, <2>2, <2>3, ZenonT(40) DEF RetireCalls, Cc
    <3>2. Lookup(c, r) \in {"miss", "hit", "upgrade", "assert"}
      BY LookupIs, Zenon
    <3> QED BY <3>1, <3>2, Zenon
  <2>5. /\ r \in Req /\ (c = req[r].home \/ c = L2) /\ Flying(req[r].kind)
    <3>1. /\ Cc(c, e)[i] \in Req /\ (c = req[Cc(c, e)[i]].home \/ c = L2)
          /\ At(Cc(c, e)[i], "queued", c)
      BY <2>2, <2>4, Called, Zenon
    <3>2. req[r].kind = "queued"
      BY <2>3, <3>1, ZenonT(40) DEF At
    <3> QED BY <2>3, <3>1, <3>2, Zenon DEF Flying
  <2>6. TRUE \in BOOLEAN
    BY Zenon
  <2> QED BY <2>4, <2>5, <2>6, AccessCounts, ZenonT(40)
<1>11. ASSUME NEW m, DoInvalidate(m) \/ DoPushDown(m) PROVE PendingOK'
  BY <1>1, <1>11, Zenon DEF DoInvalidate, DoPushDown
<1>12. ASSUME NEW c \in L1s, NEW a \in Addr, FFRead(c, a) \/ FFWrite(c, a) PROVE PendingOK'
  BY <1>1, <1>12, Zenon DEF FFRead, FFWrite, FF
<1>13. CASE UNCHANGED vars
  BY <1>1, <1>13, Zenon DEF vars
<1>14. CASE Next
  BY <1>3, <1>4, <1>6, <1>7, <1>8, <1>9, <1>10, <1>11, <1>12, <1>14, ZenonT(40) DEF Next
<1> QED BY <1>13, <1>14, Zenon

(* A callback is in its MSHR's list once while its request is queued there *)
(* and not at all otherwise.                                               *)
LEMMA EachOnce ==
  ASSUME IInv, NEW r \in Req, NEW c \in Caches
  PROVE  Cardinality({i \in DOMAIN mshr[c].cc[Entry(c, r)] : mshr[c].cc[Entry(c, r)][i] = r})
           = IF At(r, "queued", c) THEN 1 ELSE 0
<1>0. Typed /\ Lists
  BY Zenon DEF IInv
<1>1. PICK e \in Entries : e = Entry(c, r)
  BY <1>0, Types, Zenon
<1>2. ListOK(c, e) /\ Listed(r, c) /\ Cc(c, e) \in Seq(Req \cup {NoCb}) /\ r # NoCb
  <2>1. Cc(c, e) \in Seq(Req \cup {NoCb})
    BY <1>0, Types, Zenon
  <2> QED BY <1>0, <2>1, NoCbIsNone, Zenon DEF Lists
<1> DEFINE places == {i \in 1 .. Len(Cc(c, e)) : Cc(c, e)[i] = r}
<1>3. {i \in DOMAIN mshr[c].cc[Entry(c, r)] : mshr[c].cc[Entry(c, r)][i] = r} = places
  <2>1. DOMAIN Cc(c, e) = 1 .. Len(Cc(c, e))
    BY <1>2
  <2> QED BY <1>1, <2>1, Zenon DEF Cc
<1>4. CASE At(r, "queued", c)
  <2>1. PICK i \in 1 .. Len(Cc(c, e)) : Cc(c, e)[i] = r
    BY <1>1, <1>2, <1>4, Zenon DEF Listed
  <2>2. \A j \in 1 .. Len(Cc(c, e)) : Cc(c, e)[j] = r => i = j
    BY <1>2, <2>1, Zenon DEF ListOK
  <2>3. places = {i}
    BY <2>1, <2>2, Zenon
  <2> QED BY <1>3, <1>4, <2>3, FS_Singleton, Zenon
<1>5. CASE ~At(r, "queued", c)
  <2>1. ASSUME NEW i \in 1 .. Len(Cc(c, e)), Cc(c, e)[i] = r PROVE FALSE
    BY <1>2, <1>5, <2>1, ZenonT(40) DEF ListOK
  <2>2. places = {}
    BY <2>1, Zenon
  <2> QED BY <1>3, <1>5, <2>2, FS_EmptySet, Zenon
<1> QED BY <1>4, <1>5, Zenon

(* Every request is counted where it is: each queued request has exactly   *)
(* one callback, in the MSHR of the cache it waits at; pendingReads of a   *)
(* first-level cache is the number of its read misses that are not         *)
(* answered, and pendingWrites, which upgrades leave out, never exceeds    *)
(* the number of its writes that are not answered.                         *)
THEOREM EveryRequestCounted == Spec => []RequestsCounted
<1>1. Init => PendingOK
  <2> SUFFICES ASSUME Init PROVE PendingOK
    BY Zenon
  <2>1. \A r \in Req : req[r].kind = "idle"
    BY SMTT(30) DEF Init
  <2>2. ASSUME NEW c, NEW op PROVE Outstanding(c, op) = {}
    BY <2>1, Zenon DEF Outstanding
  <2>3. \A c \in L1s : pendingReads[c] = 0 /\ pendingWrites[c] = 0
    BY Zenon DEF Init
  <2>4. 0 <= 0
    OBVIOUS
  <2> QED BY <2>2, <2>3, <2>4, FS_EmptySet, ZenonT(40) DEF PendingOK
<1>2. IInv /\ PendingOK => RequestsCounted
  BY EachOnce, Zenon DEF PendingOK, RequestsCounted
<1> QED BY <1>1, <1>2, PendingKeeps, CacheInvariant, PTL DEF Spec

=============================================================================
