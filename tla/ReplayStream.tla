---------------------------- MODULE ReplayStream ----------------------------
(***************************************************************************)
(* What the instruction queue promises its two clients: an unbounded       *)
(* stream of which a window is held, the instructions that may still be    *)
(* fetched again.  The first `fetched` of them are in the core; `stale`    *)
(* older copies are in the core as well, and leave it first.               *)
(***************************************************************************)
EXTENDS Integers, Sequences

VARIABLES window, fetched, stale,
          produced    \* how many instructions the program has executed

streamVars == <<window, fetched, stale, produced>>

StreamInit == window = <<>> /\ fetched = 0 /\ stale = 0 /\ produced = 0

\* The next instruction of the program joins the window.
Supply ==
  /\ produced' = produced + 1
  /\ Len(window') = Len(window) + 1
  /\ \A i \in DOMAIN window : window'[i] = window[i]
  /\ window'[Len(window')].inst = produced'
  /\ UNCHANGED <<fetched, stale>>

Deliver ==
  /\ fetched < Len(window)
  /\ fetched' = fetched + 1
  /\ UNCHANGED <<window, stale, produced>>

Discard ==
  \/ /\ stale > 0
     /\ stale' = stale - 1
     /\ UNCHANGED <<window, fetched, produced>>
  \/ /\ stale = 0 /\ fetched > 0
     /\ window' = Tail(window)
     /\ fetched' = fetched - 1
     /\ UNCHANGED <<stale, produced>>

\* Start over from the oldest instruction of the window: the same
\* instructions, in the same order.
Rewind ==
  /\ Len(window') = Len(window)
  /\ \A i \in DOMAIN window : window'[i].inst = window[i].inst
  /\ \A i \in DOMAIN window : i > fetched => window'[i] = window[i]
  /\ stale' = stale + fetched
  /\ fetched' = 0
  /\ UNCHANGED produced

StreamNext == Supply \/ Deliver \/ Discard \/ Rewind

StreamSpec == StreamInit /\ [][StreamNext]_streamVars
=============================================================================
