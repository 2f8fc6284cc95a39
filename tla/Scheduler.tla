------------------------------ MODULE Scheduler ------------------------------
(***************************************************************************)
(* What the delivery queue expects of its time wheel, without goroutines,  *)
(* channels or timers: a bag of slots, each with a target time, out of     *)
(* which the earliest announced slot is fired once its time has come,      *)
(* until the scheduler is stopped.                                         *)
(*                                                                         *)
(* A slot is "scheduled" when it enters the bag and "announced" when the   *)
(* call that scheduled it has returned.  Only announced slots take part in *)
(* the ordering promise: while a call is still running, the scheduler may  *)
(* or may not know about its slot.                                         *)
(***************************************************************************)
EXTENDS Naturals

VARIABLES
    pending,        \* slots scheduled and not fired yet, records with a field "time"
    announced,      \* those of them whose scheduling call has returned
    fired,          \* slots handed to the dispatch function so far
    running,        \* FALSE once the scheduler has been stopped
    now             \* the wall clock

vars == <<pending, announced, fired, running, now>>

Init ==
    /\ pending = {}
    /\ announced = {}
    /\ fired = {}
    /\ running = TRUE
    /\ now = 0

(* A slot is new: it was neither scheduled nor fired before. *)
Schedule(s) ==
    /\ s \notin pending \cup fired
    /\ pending' = pending \cup {s}
    /\ UNCHANGED <<announced, fired, running, now>>

Announce(s) ==
    /\ running
    /\ s \in pending
    /\ announced' = announced \cup {s}
    /\ UNCHANGED <<pending, fired, running, now>>

(* Never before its time, never past an announced slot that is due earlier. *)
Fire(s) ==
    /\ running
    /\ s \in pending
    /\ s.time <= now
    /\ \A o \in announced : s.time <= o.time
    /\ pending' = pending \ {s}
    /\ announced' = announced \ {s}
    /\ fired' = fired \cup {s}
    /\ UNCHANGED <<running, now>>

Stop ==
    /\ running
    /\ running' = FALSE
    /\ UNCHANGED <<pending, announced, fired, now>>

Advance ==
    /\ now' = now + 1
    /\ UNCHANGED <<pending, announced, fired, running>>

Next ==
    \/ \E s \in pending' : Schedule(s)
    \/ \E s \in pending : Announce(s) \/ Fire(s)
    \/ Stop
    \/ Advance

Spec == Init /\ [][Next]_vars
==============================================================================
