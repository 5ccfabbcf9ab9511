-------------------------------- MODULE MSHR --------------------------------
(***************************************************************************)
(* The miss status holding registers of a cache (simu/libmem/MSHR.cpp),    *)
(* the three classes MSHR::create chooses from: "full", "blocking" and     *)
(* "none".                                                                 *)
(*                                                                         *)
(* The state of one MSHR is a record:                                      *)
(*   nFree  nFreeEntries                                                   *)
(*   nUse   the use count of each hashed entry                             *)
(*   cc     the callbacks waiting on each entry, oldest first              *)
(* A callback is named by the request it will retry.  BlockingMSHR keeps   *)
(* one list, overflow, whose items may have no callback; the model puts it *)
(* in cc, at the one entry that OverflowAssumption of module Cache gives   *)
(* all the lines of such a cache, and NoCb stands for a missing callback.  *)
(* NoMSHR never stops a request, so its list only holds items without      *)
(* callback and is not kept.                                               *)
(*                                                                         *)
(* retire() calls the next callback, which may call retire() again.  The   *)
(* operators below are the parts of retire() before and after that call;   *)
(* module Cache runs them around the callback's own effect.                *)
(***************************************************************************)
EXTENDS Integers, Sequences

CONSTANTS
  Entries,     \* the hashed positions of FullMSHR
  NEntries,    \* nEntries
  NSubEntries, \* nSubEntries
  NoCb         \* no callback

ASSUME MshrAssumption == NEntries \in Nat /\ NSubEntries \in Nat

MshrInit ==
  [nFree |-> NEntries, nUse |-> [e \in Entries |-> 0], cc |-> [e \in Entries |-> <<>>]]

CanAccept(kind, m, e) ==
  \/ kind = "none"
  \/ kind = "blocking" /\ m.cc[e] = <<>>
  \/ kind = "full" /\ m.nFree > 0 /\ m.nUse[e] < NSubEntries

CanIssue(kind, m, e) ==
  \/ kind = "none"
  \/ kind = "blocking" /\ m.cc[e] = <<>>
  \/ kind = "full" /\ m.nUse[e] = 0

FullAddEntry(m, e, cb) ==
  [m EXCEPT !.nFree = @ - 1,
            !.nUse[e] = @ + 1,
            !.cc[e] = IF cb = NoCb THEN @ ELSE Append(@, cb)]

BlockingAddEntry(m, e, cb) == [m EXCEPT !.cc[e] = Append(@, cb)]

AddEntry(kind, m, e, cb) ==
  CASE kind = "full"     -> FullAddEntry(m, e, cb)
    [] kind = "blocking" -> BlockingAddEntry(m, e, cb)
    [] kind = "none"     -> m

\* What FullMSHR::retire does when the entry has no callback left: every use
\* of the entry is given back.
Release(m, e) == [m EXCEPT !.nFree = @ + m.nUse[e], !.nUse[e] = 0]

\* The position in the list of the next callback retire() will call, 0 if
\* it will call none.  BlockingMSHR skips the items that have no callback.
NextCb(kind, m, e) ==
  LET cbs == {i \in DOMAIN m.cc[e] : m.cc[e][i] # NoCb}
  IN  IF \/ kind = "none"
         \/ kind = "full" /\ m.nUse[e] = 0
         \/ cbs = {}
        THEN 0
        ELSE CHOOSE i \in cbs : \A j \in cbs : i <= j

\* Mutant: two uses are given back.
TakeNextTwoUses(kind, m, e, i) ==
  LET rest == SubSeq(m.cc[e], i + 1, Len(m.cc[e]))
  IN  IF kind = "full"
        THEN [m EXCEPT !.nFree = @ + 1, !.nUse[e] = @ - 2, !.cc[e] = rest]
        ELSE [m EXCEPT !.cc[e] = rest]

\* retire() up to the call of the callback at position i > 0.
TakeNext(kind, m, e, i) ==
  LET rest == SubSeq(m.cc[e], i + 1, Len(m.cc[e]))
  IN  IF kind = "full"
        THEN [m EXCEPT !.nFree = @ + 1, !.nUse[e] = @ - 1, !.cc[e] = rest]
        ELSE [m EXCEPT !.cc[e] = rest]

\* Mutant: the entry is released with callbacks left.
SettleAlways(kind, m, e) == IF kind = "full" THEN Release(m, e) ELSE m

\* retire() after the callback returned.
Settle(kind, m, e) ==
  IF kind = "full" /\ m.cc[e] = <<>> THEN Release(m, e) ELSE m

\* retire() when there is no callback to call.
RetireLast(kind, m, e) ==
  CASE kind = "full" /\ m.nUse[e] > 0 -> Release([m EXCEPT !.nFree = @ + 1, !.nUse[e] = @ - 1], e)
    [] kind = "blocking" -> [m EXCEPT !.cc[e] = <<>>]
    [] OTHER -> m
=============================================================================
