--------------------------- MODULE ThreadSafeFIFO ---------------------------
(***************************************************************************)
(* The lock-free ring between a QEMU thread, which alone moves tail, and   *)
(* the simulation thread, which alone moves head                           *)
(* (misc/libsuc/ThreadSafeFIFO.h).  The indices are 8 bits wide in the     *)
(* code; N is their range and the number of slots.                         *)
(***************************************************************************)
EXTENDS Integers

CONSTANT N   \* 256 in the code

ASSUME NAssumption == N \in Nat /\ N > 3

VARIABLES array, head, tail

fifoVars == <<array, head, tail>>

Index == 0 .. N - 1
Wrap(i) == i % N

FifoInit(blank) ==
  /\ array = [i \in Index |-> blank]
  /\ head = 0 /\ tail = 0

\* Entries between head and tail, as the two indices tell it.
Count == Wrap(tail - head + N)

\* realsize(): one less than the count, N more when the indices have wrapped.
RealSize ==
  IF head = tail THEN 0
  ELSE IF head > tail THEN N - (head - tail - 1)
  ELSE tail - head - 1

\* Mutant: full only when the next slot is the head, tested before wrapping.
FullUnwrapped == tail + 1 = head

\* (tail+2)==head is compared without wrapping to the index width, the
\* second test with it.
Full == tail + 2 = head \/ Wrap(tail + 1) = head

IsEmpty == tail = head

HeadRef == array[head]

NextHeadRef == array[Wrap(head + 1)]

\* The caller writes through getTailRef before push().
SetTail(item) ==
  /\ array' = [array EXCEPT ![tail] = item]
  /\ UNCHANGED <<head, tail>>

\* Mutant: the index is wider than the ring.
PushNoWrap ==
  /\ tail' = tail + 1
  /\ UNCHANGED <<array, head>>

Push ==
  /\ tail' = Wrap(tail + 1)
  /\ UNCHANGED <<array, head>>

Pop ==
  /\ head' = Wrap(head + 1)
  /\ UNCHANGED <<array, tail>>
=============================================================================
