------------------------------ MODULE StoreSet ------------------------------
(***************************************************************************)
(* simu/libcore/StoreSet.{h,cpp}: the store sets that keep a load behind   *)
(* the store it once overtook.  SSIT gives a program counter its set, LFST *)
(* gives a set the last memory instruction renamed into it.  A set entry   *)
(* is a plain DInst pointer; here it is the DInst's ID.                    *)
(***************************************************************************)
EXTENDS Integers

CONSTANTS StoreSetSize,   \* entries of SSIT and of LFST
          PCs,            \* program counters of memory instructions
          HashPC,         \* hashPC
          NoInst          \* the null DInst pointer

ASSUME StoreSetAssumption ==
  /\ StoreSetSize \in Nat \ {0} /\ HashPC \in [PCs -> 0 .. StoreSetSize - 1]
  /\ NoInst \notin Nat

VARIABLES SSIT, LFST,
          rnd       \* create_id's static counter

setVars == <<SSIT, LFST, rnd>>

Sets == 0 .. StoreSetSize - 1
NoSet == -1

StoreSetInit ==
  /\ SSIT = [i \in Sets |-> NoSet]
  /\ LFST = [s \in Sets |-> NoInst]
  /\ rnd = 0

GetSSID(pc) == SSIT[HashPC[pc]]

\* create_id: after the last one it hands out 0 and leaves rnd at 0.
NewSSID == IF rnd < StoreSetSize THEN rnd ELSE 0
NextRnd == IF rnd < StoreSetSize THEN rnd + 1 ELSE 0

\* insert: d becomes the last of its set ...
StoreSetInsert(d, pc) ==
  /\ LFST' = IF GetSSID(pc) = NoSet THEN LFST ELSE [LFST EXCEPT ![GetSSID(pc)] = d]
  /\ UNCHANGED <<SSIT, rnd>>

\* ... and depends on the one that was.
StoreSetSource(pc) == IF GetSSID(pc) = NoSet THEN NoInst ELSE LFST[GetSSID(pc)]

RemovedNever(lfst, d, ssid) == lfst

\* remove, when d with set ssid has executed.
Removed(lfst, d, ssid) ==
  IF ssid # NoSet /\ lfst[ssid] = d THEN [lfst EXCEPT ![ssid] = NoInst] ELSE lfst

StoreSetRemove(d, ssid) ==
  /\ LFST' = Removed(LFST, d, ssid)
  /\ UNCHANGED <<SSIT, rnd>>

\* stldViolation of a load whose set is ldSSID and a store that now executes
\* (d, stSSID): FUStore::executing, then executed, which removes the store.
\* create_set's wipe of the PC's old set is in debug builds only.
StldViolation(ldPC, ldSSID, stPC, d, stSSID) ==
  LET fresh == ldSSID = NoSet
      ssid  == IF fresh THEN NewSSID ELSE ldSSID
      wiped == IF fresh THEN [LFST EXCEPT ![ssid] = NoInst] ELSE LFST
      inSet == IF fresh THEN [SSIT EXCEPT ![HashPC[ldPC]] = ssid] ELSE SSIT
  IN /\ SSIT' = [inSet EXCEPT ![HashPC[stPC]] = ssid]
     /\ LFST' = Removed(wiped, d, stSSID)
     /\ rnd' = IF fresh THEN NextRnd ELSE rnd

\* clearStoreSetsTimer.
ClearStoreSets ==
  /\ SSIT' = [i \in Sets |-> NoSet]
  /\ LFST' = [s \in Sets |-> NoInst]
  /\ UNCHANGED rnd
=============================================================================
