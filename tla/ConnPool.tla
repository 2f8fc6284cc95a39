------------------------------ MODULE ConnPool -------------------------------
(***************************************************************************)
(* internal/smtpconn/pool: idle SMTP connections kept by target.remote,    *)
(* one bucket (a buffered channel) per destination domain.                 *)
(*                                                                         *)
(* Get looks the bucket up under the lock and receives from its channel    *)
(* after unlocking, so it may hold a bucket that another Get, a Return, the *)
(* clean-up goroutine or Close takes out of the map and closes meanwhile.  *)
(* The users are remote deliveries (target/remote/connect.go): the pool    *)
(* has no New function there, so a Get that finds nothing makes the        *)
(* delivery open a connection of its own.                                  *)
(***************************************************************************)
EXTENDS Integers, Sequences, FiniteSets

CONSTANTS
    Users,          \* deliveries
    Keys,           \* destination domains
    Conns,          \* identities for connections
    Slots,          \* identities for buckets, reused once nobody refers to them
    NoSlot, NoConn,
    MaxKeys, MaxConnsPerKey, MaxConnLifetime, StaleKeyLifetime,
    MaxClock        \* bound: the clock stays in 0..MaxClock

ASSUME PoolAssumption ==
    /\ NoSlot \notin Slots /\ NoConn \notin Conns
    /\ Users \cap {"free", "cleaner", "closer"} = {} /\ Keys # {}
    /\ MaxKeys \in Nat /\ MaxConnsPerKey \in Nat
    /\ MaxConnLifetime \in Nat /\ StaleKeyLifetime \in Nat /\ MaxClock \in Nat

VARIABLES
    clock,
    keys,       \* p.keys: bucket of each key, NoSlot when there is none
    pool,       \* "open"; Close called: "stopping", "closing"; "nil" (p.keys = nil)
    cleaner,    \* the clean-up goroutine: "run" or "stopped"
    lock,       \* who holds keysLock
    doomed,     \* buckets the lock's holder is emptying
    chan,       \* buffered connections of each bucket
    shut,       \* bucket identities without an open channel
    created,    \* slot.lastUse, which only the bucket's creation sets in the map
    state,      \* of each connection
    lastUseAt,  \* mxConn.lastUseAt
    pc, ukey, uslot, uconn      \* of each delivery

poolVars == <<keys, pool, cleaner, lock, doomed>>
slotVars == <<chan, shut, created>>
connVars == <<state, lastUseAt>>
userVars == <<pc, ukey, uslot, uconn>>
vars == <<clock, poolVars, slotVars, connVars, userVars>>

(* The value of a key or a time that nobody will read any more. *)
AnyKey == CHOOSE k \in Keys : TRUE
Unread == 0

TypeOK ==
    /\ clock \in 0 .. MaxClock
    /\ keys \in [Keys -> Slots \cup {NoSlot}]
    /\ pool \in {"open", "stopping", "closing", "nil"}
    /\ cleaner \in {"run", "stopped"}
    /\ lock \in Users \cup {"free", "cleaner", "closer"}
    /\ doomed \subseteq Slots
    /\ chan \in [Slots -> Seq(Conns)]
    /\ \A s \in Slots : Len(chan[s]) <= MaxConnsPerKey
    /\ shut \subseteq Slots
    /\ created \in [Slots -> 0 .. MaxClock]
    /\ state \in [Conns -> {"unborn", "used", "idle", "closed", "dropped"}]
    /\ lastUseAt \in [Conns -> 0 .. MaxClock]
    /\ pc \in [Users -> {"out", "recv", "drain", "new", "have", "gc"}]
    /\ ukey \in [Users -> Keys]
    /\ uslot \in [Users -> Slots \cup {NoSlot}]
    /\ uconn \in [Users -> Conns \cup {NoConn}]

Init ==
    /\ clock = 0
    /\ keys = [k \in Keys |-> NoSlot]
    /\ pool = "open" /\ cleaner = "run" /\ lock = "free" /\ doomed = {}
    /\ chan = [s \in Slots |-> <<>>] /\ shut = Slots /\ created = [s \in Slots |-> 0]
    /\ state = [c \in Conns |-> "unborn"] /\ lastUseAt = [c \in Conns |-> 0]
    /\ pc = [u \in Users |-> "out"] /\ ukey = [u \in Users |-> AnyKey]
    /\ uslot = [u \in Users |-> NoSlot] /\ uconn = [u \in Users |-> NoConn]

Present == {k \in Keys : keys[k] # NoSlot}
Stale(k) == created[keys[k]] + StaleKeyLifetime <= clock

(* A bucket identity nothing refers to. *)
Unused(s) ==
    /\ \A k \in Keys : keys[k] # s
    /\ \A u \in Users : uslot[u] # s
    /\ s \notin doomed

------------------------------------------------------------------------------
(* Taking buckets out of the map: the channel is closed and whoever did it  *)
(* closes the connections left in it.  Another receiver may be faster.      *)

RemoveKeys(K, holder) ==
    /\ lock' = holder
    /\ doomed' = {keys[k] : k \in K}
    /\ shut' = shut \cup {keys[k] : k \in K}
    /\ created' = [s \in Slots |-> IF \E k \in K : keys[k] = s THEN Unread ELSE created[s]]
    /\ keys' = [k \in Keys |-> IF k \in K THEN NoSlot ELSE keys[k]]

TakeHead(s) == chan' = [chan EXCEPT ![s] = Tail(@)]
Gone(c, how) ==
    /\ state' = [state EXCEPT ![c] = how]
    /\ lastUseAt' = [lastUseAt EXCEPT ![c] = Unread]
CloseConn(c) == Gone(c, "closed")

DrainLocked(s) ==
    /\ s \in doomed
    /\ chan[s] # <<>>
    /\ TakeHead(s)
    /\ CloseConn(Head(chan[s]))
    /\ UNCHANGED <<clock, poolVars, shut, created, userVars>>

Drained == \A s \in doomed : chan[s] = <<>>

------------------------------------------------------------------------------
(* CleanUp, from the ticker of cleanUpTick *)

CleanUp ==
    /\ cleaner = "run"
    /\ lock = "free"
    /\ RemoveKeys({k \in Present : Stale(k)}, "cleaner")
    /\ UNCHANGED <<clock, pool, cleaner, chan, connVars, userVars>>

(* Seeded fault: CleanUp returns with the lock held. *)
CleanUpNoUnlock ==
    /\ lock = "cleaner"
    /\ Drained
    /\ doomed' = {}
    /\ UNCHANGED <<clock, lock, keys, pool, cleaner, slotVars, connVars, userVars>>

CleanUpDone ==
    /\ lock = "cleaner"
    /\ Drained
    /\ lock' = "free" /\ doomed' = {}
    /\ UNCHANGED <<clock, keys, pool, cleaner, slotVars, connVars, userVars>>

------------------------------------------------------------------------------
(* Get *)

UserStep(u, from, to) ==
    /\ pc[u] = from
    /\ pc' = [pc EXCEPT ![u] = to]

Expired(k) == keys[k] # NoSlot /\ clock - created[keys[k]] > MaxConnLifetime

GetExpired(u, k) ==
    /\ lock = "free"
    /\ Expired(k)
    /\ UserStep(u, "out", "drain")
    /\ ukey' = [ukey EXCEPT ![u] = k]
    /\ uslot' = [uslot EXCEPT ![u] = keys[k]]
    /\ keys' = [keys EXCEPT ![k] = NoSlot]
    /\ shut' = shut \cup {keys[k]}
    /\ created' = [created EXCEPT ![keys[k]] = Unread]
    /\ UNCHANGED <<clock, pool, cleaner, lock, doomed, chan, connVars, uconn>>

GetLookup(u, k) ==
    /\ lock = "free"
    /\ ~Expired(k)
    /\ UserStep(u, "out", IF keys[k] = NoSlot THEN "new" ELSE "recv")
    /\ ukey' = [ukey EXCEPT ![u] = k]
    /\ uslot' = [uslot EXCEPT ![u] = keys[k]]
    /\ UNCHANGED <<clock, poolVars, slotVars, connVars, uconn>>

(* Seeded fault: the dropped bucket is left to the garbage collector. *)
GetDrainNothing(u) ==
    /\ pc[u] = "drain"
    /\ pc' = [pc EXCEPT ![u] = "new"]
    /\ uslot' = [uslot EXCEPT ![u] = NoSlot]
    /\ UNCHANGED <<clock, poolVars, slotVars, connVars, ukey, uconn>>

GetDrain(u) ==
    /\ pc[u] = "drain"
    /\ \/ /\ chan[uslot[u]] # <<>>
          /\ TakeHead(uslot[u])
          /\ CloseConn(Head(chan[uslot[u]]))
          /\ UNCHANGED <<pc, uslot>>
       \/ /\ chan[uslot[u]] = <<>>
          /\ pc' = [pc EXCEPT ![u] = "new"]
          /\ uslot' = [uslot EXCEPT ![u] = NoSlot]
          /\ UNCHANGED <<chan, connVars>>
    /\ UNCHANGED <<clock, poolVars, shut, created, ukey, uconn>>

(* Seeded fault: the connection is looked at and stays in the channel. *)
GetReceivePeeks(u) ==
    /\ UserStep(u, "recv", "have")
    /\ chan[uslot[u]] # <<>>
    /\ uslot' = [uslot EXCEPT ![u] = NoSlot]
    /\ uconn' = [uconn EXCEPT ![u] = Head(chan[uslot[u]])]
    /\ state' = [state EXCEPT ![Head(chan[uslot[u]])] = "used"]
    /\ UNCHANGED <<clock, poolVars, slotVars, lastUseAt, ukey>>

(* A received connection that answers RSET and was used recently is the     *)
(* caller's; connectionForDomain sets lastUseAt when MAIL was accepted.     *)
GetReceive(u) ==
    /\ UserStep(u, "recv", "have")
    /\ chan[uslot[u]] # <<>>
    /\ LET c == Head(chan[uslot[u]]) IN
       /\ lastUseAt[c] + MaxConnLifetime >= clock
       /\ TakeHead(uslot[u])
       /\ uslot' = [uslot EXCEPT ![u] = NoSlot]
       /\ uconn' = [uconn EXCEPT ![u] = c]
       /\ state' = [state EXCEPT ![c] = "used"]
       /\ lastUseAt' = [lastUseAt EXCEPT ![c] = clock]
    /\ UNCHANGED <<clock, poolVars, shut, created, ukey>>

(* One that does not, or is too old, is closed and the next one follows.    *)
GetDiscards(u) ==
    /\ pc[u] = "recv"
    /\ chan[uslot[u]] # <<>>
    /\ TakeHead(uslot[u])
    /\ CloseConn(Head(chan[uslot[u]]))
    /\ UNCHANGED <<clock, poolVars, shut, created, userVars>>

(* A delivery with REQUIRETLS ignores what it got (connect.go:218).         *)
GetIgnored(u) ==
    /\ UserStep(u, "recv", "new")
    /\ chan[uslot[u]] # <<>>
    /\ uslot' = [uslot EXCEPT ![u] = NoSlot]
    /\ TakeHead(uslot[u])
    /\ Gone(Head(chan[uslot[u]]), "dropped")
    /\ UNCHANGED <<clock, poolVars, shut, created, ukey, uconn>>

GetNothing(u) ==
    /\ pc[u] = "recv" /\ chan[uslot[u]] = <<>>
    /\ pc' = [pc EXCEPT ![u] = "new"]
    /\ uslot' = [uslot EXCEPT ![u] = NoSlot]
    /\ UNCHANGED <<clock, poolVars, slotVars, connVars, ukey, uconn>>

(* newConn *)
Open(u) ==
    /\ \/ \E c \in Conns :
             /\ state[c] = "unborn"
             /\ UserStep(u, "new", "have")
             /\ uconn' = [uconn EXCEPT ![u] = c]
             /\ state' = [state EXCEPT ![c] = "used"]
             /\ lastUseAt' = [lastUseAt EXCEPT ![c] = clock]
             /\ UNCHANGED ukey
       \/ /\ UserStep(u, "new", "out")
          /\ ukey' = [ukey EXCEPT ![u] = AnyKey]
          /\ UNCHANGED <<uconn, connVars>>
    /\ UNCHANGED <<clock, poolVars, slotVars, uslot>>

------------------------------------------------------------------------------
(* remoteDelivery.Close and Return *)

Leave(u, how) ==
    /\ IF how = "idle" THEN state' = [state EXCEPT ![uconn[u]] = how] /\ UNCHANGED lastUseAt
                       ELSE Gone(uconn[u], how)
    /\ ukey' = [ukey EXCEPT ![u] = AnyKey]
    /\ pc' = [pc EXCEPT ![u] = "out"]
    /\ uconn' = [uconn EXCEPT ![u] = NoConn]

(* A connection that is not usable is closed. *)
CloseUnusable(u) ==
    /\ pc[u] = "have"
    /\ Leave(u, "closed")
    /\ UNCHANGED <<clock, poolVars, slotVars, uslot>>

(* Put into the bucket, or closed when the bucket is full.                  *)
Put(u, s) ==
    IF Len(chan[s]) < MaxConnsPerKey
    THEN chan' = [chan EXCEPT ![s] = Append(@, uconn[u])] /\ Leave(u, "idle")
    ELSE UNCHANGED chan /\ Leave(u, "closed")

Return(u) ==
    /\ pc[u] = "have"
    /\ lock = "free"
    /\ \/ /\ pool = "nil"
          /\ Leave(u, "dropped")
          /\ UNCHANGED chan
       \/ /\ pool # "nil" /\ keys[ukey[u]] # NoSlot
          /\ Put(u, keys[ukey[u]])
    /\ UNCHANGED <<clock, poolVars, shut, created, uslot>>

(* A new bucket takes the place of stale ones when there are MaxKeys.       *)
ReturnGc(u) ==
    /\ UserStep(u, "have", "gc")
    /\ lock = "free" /\ pool # "nil" /\ keys[ukey[u]] = NoSlot
    /\ RemoveKeys(IF Cardinality(Present) = MaxKeys THEN {k \in Present : Stale(k)} ELSE {}, u)
    /\ UNCHANGED <<clock, pool, cleaner, chan, connVars, ukey, uslot, uconn>>

ReturnNew(u) ==
    /\ pc[u] = "gc" /\ Drained
    /\ \E s \in Slots :
          /\ Unused(s)
          /\ keys' = [keys EXCEPT ![ukey[u]] = s]
          /\ created' = [created EXCEPT ![s] = clock]
          /\ shut' = shut \ {s}
          /\ Put(u, s)
    /\ lock' = "free" /\ doomed' = {}
    /\ UNCHANGED <<clock, pool, cleaner, uslot>>

------------------------------------------------------------------------------
(* P.Close: the clean-up goroutine takes the stop message when it is not in *)
(* CleanUp, then all buckets go.                                            *)

CloseCall ==
    /\ pool = "open"
    /\ pool' = "stopping"
    /\ UNCHANGED <<clock, keys, cleaner, lock, doomed, slotVars, connVars, userVars>>

CloseStop ==
    /\ pool = "stopping" /\ cleaner = "run" /\ lock # "cleaner"
    /\ pool' = "closing" /\ cleaner' = "stopped"
    /\ UNCHANGED <<clock, keys, lock, doomed, slotVars, connVars, userVars>>

CloseKeys ==
    /\ pool = "closing" /\ lock = "free"
    /\ RemoveKeys(Present, "closer")
    /\ UNCHANGED <<clock, pool, cleaner, chan, connVars, userVars>>

CloseDone ==
    /\ lock = "closer" /\ Drained
    /\ pool' = "nil" /\ lock' = "free" /\ doomed' = {}
    /\ UNCHANGED <<clock, keys, cleaner, slotVars, connVars, userVars>>

Tick ==
    /\ clock < MaxClock
    /\ clock' = clock + 1
    /\ UNCHANGED <<poolVars, slotVars, connVars, userVars>>

Next ==
    \/ \E u \in Users :
          \/ \E k \in Keys : GetExpired(u, k) \/ GetLookup(u, k)
          \/ GetDrain(u) \/ GetReceive(u) \/ GetDiscards(u) \/ GetIgnored(u) \/ GetNothing(u)
          \/ Open(u) \/ CloseUnusable(u) \/ Return(u) \/ ReturnGc(u) \/ ReturnNew(u)
    \/ CleanUp \/ CleanUpDone \/ (\E s \in Slots : DrainLocked(s))
    \/ CloseCall \/ CloseStop \/ CloseKeys \/ CloseDone
    \/ Tick

Spec == Init /\ [][Next]_vars

(* Goroutines that can run do run; whoever waits for the mutex gets it in   *)
(* the end (sync.Mutex hands over after a millisecond), and the select of   *)
(* cleanUpTick does not prefer the ticker for ever.                         *)
Fairness ==
    /\ \A u \in Users :
          /\ WF_vars(GetDrain(u)) /\ WF_vars(GetReceive(u) \/ GetDiscards(u) \/ GetNothing(u))
          /\ WF_vars(Open(u)) /\ WF_vars(ReturnNew(u))
          /\ SF_vars(CloseUnusable(u) \/ Return(u) \/ ReturnGc(u))
    /\ WF_vars(CleanUpDone) /\ \A s \in Slots : WF_vars(DrainLocked(s))
    /\ SF_vars(CloseStop) /\ SF_vars(CloseKeys) /\ WF_vars(CloseDone)

FairSpec == Spec /\ Fairness

------------------------------------------------------------------------------
(* Properties *)

Places(c) == {p \in Slots \X (1 .. MaxConnsPerKey) :
                  p[2] <= Len(chan[p[1]]) /\ chan[p[1]][p[2]] = c}
HeldBy(c) == {u \in Users : uconn[u] = c}

(* A connection has one owner: it is in one channel, or one delivery has    *)
(* it, or it is closed.  Two deliveries never speak on one connection and   *)
(* nobody closes one another delivery is using, although Get receives from  *)
(* buckets others are emptying at the same time.                            *)
OneOwner ==
    \A c \in Conns :
        /\ Cardinality(Places(c)) + Cardinality(HeldBy(c)) <= 1
        /\ state[c] = "idle" <=> Places(c) # {}
        /\ state[c] = "used" <=> HeldBy(c) # {}

(* A bucket in the map has an open channel, whoever drops buckets at the    *)
(* same time: no send on and no second close of a closed channel.  And      *)
(* every idle connection can be reached: from the map, or by the one who    *)
(* took its bucket out of the map and will close it.                        *)
NoOrphans ==
    /\ \A k \in Present : keys[k] \notin shut
    /\ \A s \in Slots : chan[s] # <<>> =>
          \/ \E k \in Keys : keys[k] = s
          \/ s \in doomed /\ lock # "free"
          \/ \E u \in Users : pc[u] = "drain" /\ uslot[u] = s

(* P.Close ends although the lock is taken by others and buckets are being  *)
(* emptied, and then no idle connection stays behind for ever.              *)
CloseEnds ==
    /\ pool = "stopping" ~> pool = "nil"
    /\ \A c \in Conns : (pool = "nil" /\ state[c] = "idle") ~> state[c] # "idle"

(* conn_max_idle_time, "half of recommended idle time from RFC 5321"        *)
(* (target/remote/remote.go:152): Get drops a bucket only when the          *)
(* connections in it have been idle for longer than that.                   *)
DropsIdleOnly ==
    [][\A u \in Users, k \in Keys :
          GetExpired(u, k) => \A i \in 1 .. Len(chan[keys[k]]) :
              clock - lastUseAt[chan[keys[k]][i]] > MaxConnLifetime]_vars
==============================================================================
