------------------------------ MODULE TimeWheel ------------------------------
(***************************************************************************)
(* internal/target/queue/timewheel.go: a list of slots, a tick goroutine   *)
(* that sleeps until the closest one is due, Add callers that push a slot  *)
(* and then notify the tick goroutine over an unbuffered channel, and      *)
(* Close, which stops the tick goroutine by a two-way handshake on another *)
(* unbuffered channel and then closes the notification channel.            *)
(*                                                                         *)
(* A send and the matching receive on an unbuffered channel are one step.  *)
(* The list is a set of slots that carry their insertion number: the       *)
(* order of the list is the order of these numbers.                        *)
(***************************************************************************)
EXTENDS Naturals, FiniteSets

CONSTANTS
    Adders,         \* goroutines that call Add
    MaxTime,        \* bound: the clock and the target times stay in 0..MaxTime
    MaxAdds         \* bound: number of Add calls that get past the stopped check

ASSUME WheelAssumption ==
    /\ MaxTime \in Nat
    /\ MaxAdds \in Nat

VARIABLES
    stopped,        \* tw.stopped
    wheelSlots,     \* tw.slots
    adds,           \* number of those Add calls so far, for the bound only
    pushed,         \* number of PushBack calls so far, the next slot's number
    clock,          \* time.Now()
    tick,           \* where the tick goroutine is
    closest,        \* its local closestSlot
    add,            \* where each Add call is
    slot,           \* the slot each Add call is about
    closer,         \* where the Close call is
    stopNil,        \* tw.stopNotify = nil
    updateClosed,   \* tw.updateNotify is closed
    dispatched      \* slots passed to tw.dispatch

listVars == <<wheelSlots, pushed, dispatched>>
addVars  == <<add, slot, adds>>
tickVars == <<tick, closest>>
stopVars == <<stopped, closer, stopNil, updateClosed>>
twVars == <<listVars, addVars, tickVars, stopVars, clock>>

Time == 0 .. MaxTime
TimeSlot == [time : Time, num : Nat]
NoSlot == [time |-> 0, num |-> 0]

WheelTypeOK ==
    /\ stopped \in BOOLEAN
    /\ wheelSlots \subseteq TimeSlot
    /\ adds \in 0 .. MaxAdds
    /\ pushed \in Nat
    /\ clock \in Time
    /\ tick \in {"scan", "idle", "armed", "ack", "done"}
    /\ closest \in TimeSlot
    /\ add \in [Adders -> {"out", "push", "notify", "panicked"}]
    /\ slot \in [Adders -> TimeSlot]
    /\ closer \in {"out", "stop", "ack", "close", "done"}
    /\ stopNil \in BOOLEAN
    /\ updateClosed \in BOOLEAN
    /\ dispatched \subseteq TimeSlot

WheelInit ==
    /\ stopped = FALSE
    /\ wheelSlots = {}
    /\ adds = 0
    /\ pushed = 0
    /\ clock = 0
    /\ tick = "scan"
    /\ closest = NoSlot
    /\ add = [a \in Adders |-> "out"]
    /\ slot = [a \in Adders |-> NoSlot]
    /\ closer = "out"
    /\ stopNil = FALSE
    /\ updateClosed = FALSE
    /\ dispatched = {}

------------------------------------------------------------------------------
(* Add *)

AddLoad(a, t) ==
    /\ add[a] = "out"
    /\ ~stopped
    /\ adds < MaxAdds
    /\ adds' = adds + 1
    /\ add' = [add EXCEPT ![a] = "push"]
    /\ slot' = [slot EXCEPT ![a] = [NoSlot EXCEPT !.time = t]]
    /\ UNCHANGED <<listVars, tickVars, stopVars, clock>>

AddPush(a) ==
    /\ add[a] = "push"
    /\ slot' = [slot EXCEPT ![a].num = pushed]
    /\ wheelSlots' = wheelSlots \cup {slot'[a]}
    /\ pushed' = pushed + 1
    /\ add' = [add EXCEPT ![a] = "notify"]
    /\ UNCHANGED <<adds, dispatched, tickVars, stopVars, clock>>

(* A send on a closed channel panics, also when the sender was already      *)
(* blocked in the send when the channel was closed.                         *)
AddPanic(a) ==
    /\ add[a] = "notify"
    /\ updateClosed
    /\ add' = [add EXCEPT ![a] = "panicked"]
    /\ UNCHANGED <<slot, adds, listVars, tickVars, stopVars, clock>>

------------------------------------------------------------------------------
(* tick *)

(* Seeded fault: the comparison of the scan is the wrong way round. *)
IsFarthest(s) == s \in wheelSlots /\ \A o \in wheelSlots : s.time >= o.time

(* The first slot of the list among those with the smallest time. *)
IsClosest(s) ==
    /\ s \in wheelSlots
    /\ \A o \in wheelSlots :
          \/ s.time < o.time
          \/ s.time = o.time /\ s.num <= o.num

TickScan ==
    /\ tick = "scan"
    /\ \/ /\ wheelSlots = {}
          /\ tick' = "idle"
          /\ UNCHANGED closest
       \/ /\ closest' \in {s \in wheelSlots : IsClosest(s)}
          /\ tick' = "armed"
    /\ UNCHANGED <<listVars, addVars, stopVars, clock>>

TickTimer ==
    /\ tick = "armed"
    /\ closest.time <= clock
    /\ wheelSlots' = wheelSlots \ {closest}
    /\ dispatched' = dispatched \cup {closest}
    /\ tick' = "scan"
    /\ UNCHANGED <<pushed, closest, addVars, stopVars, clock>>

(* Seeded fault: an update never interrupts the wait. *)
KeepWaitingAlways(t) == tick = "armed"

(* The wait goes on when the new target is not closer than the slot the     *)
(* timer was set for.                                                       *)
KeepWaiting(t) == tick = "armed" /\ closest.time <= t

(* Seeded fault: the empty list's select swallows the update. *)
TickUpdateStaysIdle(a) ==
    /\ tick \in {"idle", "armed"}
    /\ add[a] = "notify"
    /\ ~updateClosed
    /\ tick' = IF tick = "idle" \/ KeepWaiting(slot[a].time) THEN tick ELSE "scan"
    /\ add' = [add EXCEPT ![a] = "out"]
    /\ UNCHANGED <<slot, adds, closest, listVars, stopVars, clock>>

TickUpdate(a) ==
    /\ tick \in {"idle", "armed"}
    /\ add[a] = "notify"
    /\ ~updateClosed
    /\ tick' = IF KeepWaiting(slot[a].time) THEN "armed" ELSE "scan"
    /\ add' = [add EXCEPT ![a] = "out"]
    /\ UNCHANGED <<slot, adds, closest, listVars, stopVars, clock>>

------------------------------------------------------------------------------
(* Close *)

SetStopped ==
    /\ closer \in {"out", "done"}
    /\ stopped' = TRUE
    /\ closer' = IF stopNil THEN "done" ELSE "stop"
    /\ UNCHANGED <<stopNil, updateClosed, listVars, addVars, tickVars, clock>>

(* Seeded fault: the empty list's select has no stop case. *)
SendStopArmedOnly ==
    /\ closer = "stop"
    /\ tick = "armed"
    /\ closer' = "ack"
    /\ tick' = "ack"
    /\ UNCHANGED <<stopped, stopNil, updateClosed, closest, listVars, addVars, clock>>

SendStop ==
    /\ closer = "stop"
    /\ tick \in {"idle", "armed"}
    /\ closer' = "ack"
    /\ tick' = "ack"
    /\ UNCHANGED <<stopped, stopNil, updateClosed, closest, listVars, addVars, clock>>

CloseAck ==
    /\ closer = "ack"
    /\ tick = "ack"
    /\ closer' = "close"
    /\ tick' = "done"
    /\ UNCHANGED <<stopped, stopNil, updateClosed, closest, listVars, addVars, clock>>

CloseUpdates ==
    /\ closer = "close"
    /\ stopNil' = TRUE
    /\ updateClosed' = TRUE
    /\ closer' = "done"
    /\ UNCHANGED <<stopped, listVars, addVars, tickVars, clock>>

------------------------------------------------------------------------------

Advance ==
    /\ clock < MaxTime
    /\ clock' = clock + 1
    /\ UNCHANGED <<listVars, addVars, tickVars, stopVars>>

WheelNext ==
    \/ \E a \in Adders :
          \/ \E t \in Time : AddLoad(a, t)
          \/ AddPush(a) \/ AddPanic(a) \/ TickUpdate(a)
    \/ TickScan \/ TickTimer
    \/ SetStopped \/ SendStop \/ CloseAck \/ CloseUpdates
    \/ Advance

WheelSpec == WheelInit /\ [][WheelNext]_twVars

(* The Go scheduler runs every runnable goroutine, timers fire, and select  *)
(* picks uniformly among ready cases: no case that stays ready is starved.  *)
WheelFairness ==
    /\ \A a \in Adders : WF_twVars(AddPush(a)) /\ WF_twVars(AddPanic(a)) /\ WF_twVars(TickUpdate(a))
    /\ WF_twVars(TickScan)
    /\ WF_twVars(TickTimer)
    /\ SF_twVars(SendStop) /\ WF_twVars(CloseAck) /\ WF_twVars(CloseUpdates)
    /\ WF_twVars(Advance)

WheelFairSpec == WheelSpec /\ WheelFairness

------------------------------------------------------------------------------
(* Properties *)

(* An Add call that has pushed its slot and has not told the tick goroutine *)
(* about it yet.                                                            *)
Announcing(s) == \E a \in Adders : add[a] \in {"notify", "panicked"} /\ slot[a] = s

(* No lost wakeup: whatever way Add calls, the list scan and the shortcut   *)
(* that keeps the timer running (timewheel.go:133) interleave, the tick     *)
(* goroutine never sleeps past a slot of the list unless the Add that       *)
(* pushed it is still about to notify it.                                   *)
NoMissedWakeup ==
    \A s \in wheelSlots :
        \/ Announcing(s)
        \/ tick = "armed" /\ closest.time <= s.time
        \/ tick \notin {"idle", "armed"}

(* "Only this goroutine removes elements from TimeWheel so we can be safe   *)
(* using closestSlot" (timewheel.go:104): the slot the timer was set for is *)
(* still in the list, and no slot is both in the list and dispatched.       *)
ClosestStaysListed ==
    /\ tick = "armed" => closest \in wheelSlots
    /\ wheelSlots \cap dispatched = {}

(* Every slot whose Add got as far as the list is dispatched, unless Close  *)
(* is called.                                                               *)
EventuallyDispatched ==
    \A n \in 0 .. MaxAdds - 1 :
        (\E s \in wheelSlots : s.num = n) ~> (stopped \/ \E s \in dispatched : s.num = n)

(* Close returns whatever the tick goroutine and the Add calls are doing.   *)
CloseReturns == closer = "stop" ~> closer = "done"

(* "Already stopped, ignore." (timewheel.go:58): an Add that meets Close    *)
(* does nothing.                                                            *)
AddNeverPanics == \A a \in Adders : add[a] # "panicked"

(* The wheel does what the queue expects of a scheduler. *)
Promise == INSTANCE Scheduler WITH
    pending   <- wheelSlots,
    announced <- {s \in wheelSlots : ~Announcing(s)},
    fired     <- dispatched,
    running   <- tick \notin {"ack", "done"},
    now       <- clock

ImplementsScheduler == Promise!Spec
==============================================================================
