------------------------------ MODULE Calendar ------------------------------
(***************************************************************************)
(* What the event scheduler (misc/libsuc/callback.h, TQueue.h) promises:   *)
(* a callback scheduled for cycle t is called exactly once, in cycle t,    *)
(* before the clock leaves t.                                              *)
(***************************************************************************)
EXTENDS Integers

CONSTANTS Events, None

VARIABLES clock, pending    \* pending[e]: when e is to be called, or None

calendarVars == <<clock, pending>>

CalendarInit == clock = 0 /\ pending = [e \in Events |-> None]

Plan(e) ==
    /\ pending[e] = None
    /\ pending'[e] \in Nat /\ pending'[e] >= clock
    /\ pending' = [pending EXCEPT ![e] = pending'[e]]
    /\ UNCHANGED clock

Call(e) ==
    /\ pending[e] = clock
    /\ pending' = [pending EXCEPT ![e] = None]
    /\ UNCHANGED clock

Tick ==
    /\ \A e \in Events : pending[e] # clock
    /\ clock' = clock + 1
    /\ UNCHANGED pending

CalendarNext == Tick \/ \E e \in Events : Plan(e) \/ Call(e)

CalendarSpec == CalendarInit /\ [][CalendarNext]_calendarVars
=============================================================================
