---------------------------- MODULE InstChannel ----------------------------
(***************************************************************************)
(* What the FIFO promises the two threads: every published entry is        *)
(* received once, unchanged and in order, and the channel never holds more *)
(* than Capacity entries.                                                  *)
(***************************************************************************)
EXTENDS Integers, Sequences

CONSTANT Capacity

VARIABLES queue, sent

ChannelInit == queue = <<>> /\ sent = 0

Send ==
  /\ Len(queue) < Capacity
  /\ sent' = sent + 1
  /\ Len(queue') = Len(queue) + 1
  /\ \A i \in DOMAIN queue : queue'[i] = queue[i]
  /\ queue'[Len(queue')].seq = sent'

Receive ==
  /\ queue # <<>>
  /\ queue' = Tail(queue)
  /\ UNCHANGED sent

ChannelSpec == ChannelInit /\ [][Send \/ Receive]_<<queue, sent>>
=============================================================================
