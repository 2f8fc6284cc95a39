--------------------------- MODULE ConnPoolProofs ----------------------------
(***************************************************************************)
(* Theorems about ConnPool, for every set of deliveries, domains,          *)
(* connections and buckets, and every limit of the pool.                   *)
(***************************************************************************)
EXTENDS ConnPool, FiniteSetTheorems, SequenceTheorems, TLAPS

------------------------------------------------------------------------------
(* The inductive invariant *)

(* Connection c is the i-th one in the channel of bucket s. *)
At(s, i, c) == i \in 1 .. Len(chan[s]) /\ chan[s][i] = c

(* The channels hold the idle connections, each of them once. *)
Buffered ==
    /\ \A s, t \in Slots : \A i, j \in Nat : \A c \in Conns :
          At(s, i, c) /\ At(t, j, c) => s = t /\ i = j
    /\ \A c \in Conns : state[c] = "idle" <=> \E s \in Slots : \E i \in Nat : At(s, i, c)

(* A connection in use belongs to the one delivery between Get and Return   *)
(* that has it.                                                             *)
Owned ==
    /\ \A u, v \in Users : uconn[u] = uconn[v] /\ uconn[u] # NoConn => u = v
    /\ \A c \in Conns : state[c] = "used" <=> \E u \in Users : uconn[u] = c
    /\ \A u \in Users : uconn[u] # NoConn <=> pc[u] \in {"have", "gc"}

(* Get refers to a bucket only while it receives from it or empties it. *)
Waiting == \A u \in Users : uslot[u] \in Slots <=> pc[u] \in {"recv", "drain"}

(* A bucket in the map has one key and an open channel; one that was taken  *)
(* out of the map is closed for good, also when Get still receives from it. *)
Mapped ==
    /\ \A j, k \in Keys : keys[j] = keys[k] /\ keys[j] # NoSlot => j = k
    /\ \A k \in Keys : keys[k] # NoSlot => keys[k] \notin shut
    /\ doomed \subseteq shut
    /\ \A u \in Users : pc[u] = "drain" => uslot[u] \in shut

(* Somebody will still look into a bucket that has connections in it. *)
Reached(s) ==
    \/ \E k \in Keys : keys[k] = s
    \/ s \in doomed
    \/ \E u \in Users : pc[u] = "drain" /\ uslot[u] = s

Reachable == \A s \in Slots : chan[s] # <<>> => Reached(s)

(* Only the holder of the lock empties buckets under it, and a Return that  *)
(* is about to make a bucket holds the lock: its key has none meanwhile.    *)
Locked ==
    /\ lock = "free" => doomed = {}
    /\ \A u \in Users : pc[u] = "gc" => lock = u /\ keys[ukey[u]] = NoSlot

IInv == TypeOK /\ Buffered /\ Owned /\ Waiting /\ Mapped /\ Reachable /\ Locked

------------------------------------------------------------------------------
(* Channels *)

(* Receiving from a channel: the head is a connection, the rest moves up.   *)
LEMMA TailFacts ==
    ASSUME NEW q \in Seq(Conns), q # <<>>
    PROVE  /\ Head(q) = q[1] /\ Head(q) \in Conns
           /\ Tail(q) \in Seq(Conns) /\ Len(q) \in Nat \ {0} /\ Len(Tail(q)) = Len(q) - 1
           /\ \A i \in 1 .. Len(Tail(q)) : i + 1 \in 1 .. Len(q) /\ Tail(q)[i] = q[i + 1]
    OBVIOUS

(* Sending to a channel: what was in it stays where it is. *)
LEMMA AppendFacts ==
    ASSUME NEW q \in Seq(Conns), NEW c \in Conns
    PROVE  /\ Append(q, c) \in Seq(Conns) /\ Len(q) \in Nat /\ Len(Append(q, c)) = Len(q) + 1
           /\ Append(q, c)[Len(q) + 1] = c
           /\ \A i \in 1 .. Len(q) : Append(q, c)[i] = q[i]
    OBVIOUS

(* A connection somebody receives leaves the channels; the others stay in   *)
(* them, once each.                                                         *)
LEMMA BufferedTake ==
    ASSUME IInv, NEW s \in Slots, chan[s] # <<>>, TakeHead(s),
           NEW how \in {"used", "closed", "dropped"},
           state' = [state EXCEPT ![Head(chan[s])] = how]
    PROVE  /\ Buffered'
           /\ Head(chan[s]) \in Conns /\ state[Head(chan[s])] = "idle"
           /\ chan' \in [Slots -> Seq(Conns)]
           /\ \A t \in Slots : Len(chan'[t]) <= MaxConnsPerKey
           /\ \A t \in Slots : chan'[t] # <<>> => chan[t] # <<>>
    <1> DEFINE q == chan[s]
               c == Head(chan[s])
    <1>1. /\ q \in Seq(Conns) /\ chan \in [Slots -> Seq(Conns)]
          /\ state \in [Conns -> {"unborn", "used", "idle", "closed", "dropped"}]
        BY DEF IInv, TypeOK
    <1>2. /\ c = q[1] /\ c \in Conns /\ Tail(q) \in Seq(Conns)
          /\ Len(q) \in Nat \ {0} /\ Len(Tail(q)) = Len(q) - 1
          /\ \A i \in 1 .. Len(Tail(q)) : i + 1 \in 1 .. Len(q) /\ Tail(q)[i] = q[i + 1]
        BY <1>1, TailFacts
    <1>3. chan'[s] = Tail(q) /\ \A t \in Slots \ {s} : chan'[t] = chan[t]
        BY <1>1 DEF TakeHead
    <1>4. At(s, 1, c)
        BY <1>2 DEF At
    <1>5. state[c] = "idle" /\ state'[c] = how /\ \A e \in Conns \ {c} : state'[e] = state[e]
        BY <1>1, <1>2, <1>4 DEF IInv, Buffered
    <1>6. ASSUME NEW i \in Nat \ {0}, NEW e \in Conns
          PROVE  At(s, i, e)' <=> At(s, i + 1, e)
        BY <1>2, <1>3 DEF At
    <1>7. ASSUME NEW t \in Slots, NEW i \in Nat, NEW e \in Conns, At(t, i, e)'
          PROVE  \E j \in Nat : At(t, j, e) /\ (t = s => j = i + 1) /\ (t # s => j = i)
        <2>1. i # 0
            BY <1>7 DEF At
        <2>2. CASE t = s
            BY <1>6, <1>7, <2>1, <2>2
        <2>3. CASE t # s
            BY <1>3, <1>7, <2>3 DEF At
        <2> QED
            BY <2>2, <2>3
    <1>8. ASSUME NEW t \in Slots, NEW i \in Nat, NEW e \in Conns, At(t, i, e)' PROVE e # c
        <2>1. SUFFICES ASSUME e = c PROVE FALSE
            OBVIOUS
        <2>2. PICK j \in Nat : At(t, j, c) /\ (t = s => j = i + 1) /\ (t # s => j = i)
            BY <1>7, <1>8, <2>1
        <2>3. t = s /\ j = 1
            BY <1>2, <1>4, <2>2 DEF IInv, Buffered
        <2>4. i = 0
            BY <2>2, <2>3
        <2> QED
            BY <1>8, <2>4 DEF At
    <1>9. ASSUME NEW t \in Slots, NEW r \in Slots, NEW i \in Nat, NEW j \in Nat, NEW e \in Conns,
                 At(t, i, e)', At(r, j, e)'
          PROVE  t = r /\ i = j
        <2>1. PICK a \in Nat : At(t, a, e) /\ (t = s => a = i + 1) /\ (t # s => a = i)
            BY <1>7, <1>9
        <2>2. PICK b \in Nat : At(r, b, e) /\ (r = s => b = j + 1) /\ (r # s => b = j)
            BY <1>7, <1>9
        <2>3. t = r /\ a = b
            BY <2>1, <2>2 DEF IInv, Buffered
        <2> QED
            BY <2>1, <2>2, <2>3
    <1>10. ASSUME NEW e \in Conns
           PROVE  state'[e] = "idle" <=> \E t \in Slots : \E i \in Nat : At(t, i, e)'
        <2>1. CASE e = c
            BY <1>5, <1>8, <2>1
        <2>2. ASSUME e # c, NEW t \in Slots, NEW i \in Nat, At(t, i, e)
              PROVE  \E r \in Slots : \E j \in Nat : At(r, j, e)'
            <3>1. CASE t # s
                BY <1>3, <2>2, <3>1 DEF At
            <3>2. CASE t = s
                <4>1. i - 1 \in Nat \ {0} /\ i - 1 + 1 = i
                    BY <1>2, <2>2, <3>2 DEF At
                <4>2. At(s, i - 1, e)'
                    BY <1>6, <2>2, <3>2, <4>1
                <4> QED
                    BY <4>1, <4>2
            <3> QED
                BY <3>1, <3>2
        <2>3. ASSUME NEW t \in Slots, NEW i \in Nat, At(t, i, e)' PROVE state[e] = "idle"
            BY <1>7, <2>3 DEF IInv, Buffered
        <2>4. CASE e # c
            BY <1>5, <2>2, <2>3, <2>4 DEF IInv, Buffered
        <2> QED
            BY <2>1, <2>4
    <1>11. Buffered'
        BY <1>9, <1>10 DEF Buffered
    <1>12. chan' \in [Slots -> Seq(Conns)]
        BY <1>1, <1>2 DEF TakeHead
    <1>13. \A t \in Slots : Len(chan'[t]) <= MaxConnsPerKey
        <2>1. \A t \in Slots : Len(chan[t]) <= MaxConnsPerKey
            BY DEF IInv, TypeOK
        <2>2. Len(chan'[s]) <= MaxConnsPerKey
            BY <1>2, <1>3, <2>1, PoolAssumption
        <2> QED
            BY <1>3, <2>1, <2>2
    <1>14. \A t \in Slots : chan'[t] # <<>> => chan[t] # <<>>
        BY <1>3
    <1> QED
        BY <1>2, <1>5, <1>11, <1>12, <1>13, <1>14

(* The channels and the idle connections stay as they are. *)
LEMMA BufferedSame ==
    ASSUME IInv, UNCHANGED chan, \A c \in Conns : state'[c] = "idle" <=> state[c] = "idle"
    PROVE  Buffered'
    BY DEF IInv, Buffered, At

(* A delivery gives its connection away: nobody has it any more. *)
LEMMA LeaveFacts ==
    ASSUME IInv, NEW u \in Users, pc[u] \in {"have", "gc"},
           NEW how \in {"idle", "closed", "dropped"}, Leave(u, how)
    PROVE  /\ uconn[u] \in Conns /\ state[uconn[u]] = "used"
           /\ state' = [state EXCEPT ![uconn[u]] = how]
           /\ state' \in [Conns -> {"unborn", "used", "idle", "closed", "dropped"}]
           /\ lastUseAt' \in [Conns -> 0 .. MaxClock]
           /\ pc' = [pc EXCEPT ![u] = "out"] /\ ukey' = [ukey EXCEPT ![u] = AnyKey]
           /\ pc' \in [Users -> {"out", "recv", "drain", "new", "have", "gc"}]
           /\ ukey' \in [Users -> Keys]
           /\ uconn' \in [Users -> Conns \cup {NoConn}]
           /\ Owned'
    <1>1. uconn[u] \in Conns /\ state[uconn[u]] = "used"
        BY DEF IInv, TypeOK, Owned
    <1>2. state' = [state EXCEPT ![uconn[u]] = how]
        BY DEF Leave, Gone
    <1>3. lastUseAt' \in [Conns -> 0 .. MaxClock]
        <2>1. lastUseAt \in [Conns -> 0 .. MaxClock] /\ 0 \in 0 .. MaxClock
            BY PoolAssumption DEF IInv, TypeOK
        <2>2. CASE how = "idle"
            BY <2>1, <2>2 DEF Leave
        <2>3. CASE how # "idle"
            BY <2>1, <2>3 DEF Leave, Gone, Unread
        <2> QED
            BY <2>2, <2>3
    <1>4. AnyKey \in Keys
        BY PoolAssumption DEF AnyKey
    <1>5. /\ pc' = [pc EXCEPT ![u] = "out"] /\ ukey' = [ukey EXCEPT ![u] = AnyKey]
          /\ uconn' = [uconn EXCEPT ![u] = NoConn]
        BY DEF Leave
    <1>6. state' \in [Conns -> {"unborn", "used", "idle", "closed", "dropped"}]
        BY <1>1, <1>2 DEF IInv, TypeOK
    <1>7. Owned'
        <2>1. /\ uconn'[u] = NoConn /\ \A v \in Users \ {u} : uconn'[v] = uconn[v]
              /\ pc'[u] = "out" /\ \A v \in Users \ {u} : pc'[v] = pc[v]
              /\ state'[uconn[u]] = how /\ \A c \in Conns \ {uconn[u]} : state'[c] = state[c]
            BY <1>1, <1>2, <1>5 DEF IInv, TypeOK
        <2>2. \A v, w \in Users : uconn'[v] = uconn'[w] /\ uconn'[v] # NoConn => v = w
            BY <2>1 DEF IInv, Owned
        <2>3. \A v \in Users : uconn'[v] # NoConn <=> pc'[v] \in {"have", "gc"}
            BY <2>1 DEF IInv, Owned
        <2>4. ASSUME NEW c \in Conns PROVE state'[c] = "used" <=> \E v \in Users : uconn'[v] = c
            <3>1. c # NoConn
                BY PoolAssumption
            <3>2. CASE c = uconn[u]
                BY <2>1, <3>1, <3>2 DEF IInv, Owned
            <3>3. CASE c # uconn[u]
                BY <2>1, <3>1, <3>3 DEF IInv, Owned
            <3> QED
                BY <3>2, <3>3
        <2> QED
            BY <2>2, <2>3, <2>4 DEF Owned
    <1> QED
        BY <1>1, <1>2, <1>3, <1>4, <1>5, <1>6, <1>7 DEF IInv, TypeOK

(* Return puts the connection into the bucket's channel, or closes it when  *)
(* the channel is full: never blocks, never loses it.                       *)
LEMMA PutFacts ==
    ASSUME IInv, NEW u \in Users, pc[u] \in {"have", "gc"}, NEW s \in Slots, Put(u, s)
    PROVE  /\ Buffered' /\ Owned'
           /\ chan' \in [Slots -> Seq(Conns)]
           /\ \A t \in Slots : Len(chan'[t]) <= MaxConnsPerKey
           /\ \A t \in Slots \ {s} : chan'[t] = chan[t]
           /\ state' \in [Conns -> {"unborn", "used", "idle", "closed", "dropped"}]
           /\ lastUseAt' \in [Conns -> 0 .. MaxClock]
           /\ pc' = [pc EXCEPT ![u] = "out"] /\ ukey' = [ukey EXCEPT ![u] = AnyKey]
           /\ pc' \in [Users -> {"out", "recv", "drain", "new", "have", "gc"}]
           /\ ukey' \in [Users -> Keys]
           /\ uconn' \in [Users -> Conns \cup {NoConn}]
    <1> DEFINE q == chan[s]
               c == uconn[u]
    <1>0. /\ chan \in [Slots -> Seq(Conns)] /\ q \in Seq(Conns)
          /\ \A t \in Slots : Len(chan[t]) <= MaxConnsPerKey
        BY DEF IInv, TypeOK
    <1>1. CASE Len(q) < MaxConnsPerKey
        <2>1. chan' = [chan EXCEPT ![s] = Append(@, c)] /\ Leave(u, "idle")
            BY <1>1 DEF Put
        <2>2. /\ c \in Conns /\ state[c] = "used" /\ state' = [state EXCEPT ![c] = "idle"]
              /\ Owned'
            BY <2>1, LeaveFacts
        <2>3. /\ Append(q, c) \in Seq(Conns) /\ Len(q) \in Nat /\ Len(Append(q, c)) = Len(q) + 1
              /\ Append(q, c)[Len(q) + 1] = c
              /\ \A i \in 1 .. Len(q) : Append(q, c)[i] = q[i]
            BY <1>0, <2>2, AppendFacts
        <2>4. chan'[s] = Append(q, c) /\ \A t \in Slots \ {s} : chan'[t] = chan[t]
            BY <1>0, <2>1
        <2>5. chan' \in [Slots -> Seq(Conns)] /\ \A t \in Slots : Len(chan'[t]) <= MaxConnsPerKey
            <3>1. Len(chan'[s]) <= MaxConnsPerKey
                BY <1>1, <2>3, <2>4, PoolAssumption
            <3> QED
                BY <1>0, <2>1, <2>3, <2>4, <3>1
        <2>6. ASSUME NEW t \in Slots, NEW i \in Nat PROVE ~At(t, i, c)
            BY <2>2 DEF IInv, Buffered
        <2>7. ASSUME NEW t \in Slots, NEW i \in Nat, NEW e \in Conns
              PROVE  At(t, i, e)' <=> At(t, i, e) \/ (t = s /\ i = Len(q) + 1 /\ e = c)
            <3>1. CASE t # s
                BY <2>4, <3>1 DEF At
            <3>2. CASE t = s /\ i = Len(q) + 1
                BY <2>3, <2>4, <3>2 DEF At
            <3>3. CASE t = s /\ i # Len(q) + 1
                <4>1. i \in 1 .. Len(Append(q, c)) <=> i \in 1 .. Len(q)
                    BY <2>3, <3>3
                <4> QED
                    BY <2>3, <2>4, <3>3, <4>1 DEF At
            <3> QED
                BY <3>1, <3>2, <3>3
        <2>8. ASSUME NEW t \in Slots, NEW r \in Slots, NEW i \in Nat, NEW j \in Nat,
                     NEW e \in Conns, At(t, i, e)', At(r, j, e)'
              PROVE  t = r /\ i = j
            <3>1. CASE e = c
                BY <2>6, <2>7, <2>8, <3>1
            <3>2. CASE e # c
                BY <2>7, <2>8, <3>2 DEF IInv, Buffered
            <3> QED
                BY <3>1, <3>2
        <2>9. ASSUME NEW e \in Conns
              PROVE  state'[e] = "idle" <=> \E t \in Slots : \E i \in Nat : At(t, i, e)'
            <3>1. CASE e = c
                <4>1. PICK n \in Nat : n = Len(q) + 1
                    BY <2>3
                <4>2. At(s, n, e)'
                    BY <2>7, <3>1, <4>1
                <4> QED
                    BY <2>2, <3>1, <4>2 DEF IInv, TypeOK
            <3>2. CASE e # c
                BY <2>2, <2>7, <3>2 DEF IInv, TypeOK, Buffered
            <3> QED
                BY <3>1, <3>2
        <2>10. Buffered'
            BY <2>8, <2>9 DEF Buffered
        <2> QED
            BY <2>1, <2>4, <2>5, <2>10, LeaveFacts
    <1>2. CASE ~(Len(q) < MaxConnsPerKey)
        <2>1. UNCHANGED chan /\ Leave(u, "closed")
            BY <1>2 DEF Put
        <2>2. uconn[u] \in Conns /\ state[c] = "used" /\ state' = [state EXCEPT ![c] = "closed"]
            BY <2>1, LeaveFacts
        <2>3. Buffered'
            BY <2>1, <2>2, BufferedSame DEF IInv, TypeOK
        <2> QED
            BY <1>0, <2>1, <2>3, LeaveFacts
    <1> QED
        BY <1>1, <1>2

------------------------------------------------------------------------------
(* Steps *)

(* Buckets leave the map under the lock: their channels are closed, the     *)
(* holder will empty them, and no other bucket is touched.                  *)
LEMMA RemoveFacts ==
    ASSUME IInv, lock = "free", NEW K \in SUBSET Present, NEW h \in Users \cup {"cleaner", "closer"},
           RemoveKeys(K, h), UNCHANGED <<chan, uslot>>,
           \A v \in Users : pc'[v] = "drain" <=> pc[v] = "drain"
    PROVE  /\ Mapped' /\ Reachable' /\ lock' = h /\ h # "free"
           /\ \A k \in Keys : keys[k] = NoSlot => keys'[k] = NoSlot
           /\ keys' \in [Keys -> Slots \cup {NoSlot}] /\ doomed' \subseteq Slots
           /\ shut' \subseteq Slots /\ created' \in [Slots -> 0 .. MaxClock]
    <1>1. /\ lock' = h /\ doomed' = {keys[k] : k \in K} /\ shut' = shut \cup {keys[k] : k \in K}
          /\ created' = [s \in Slots |-> IF \E k \in K : keys[k] = s THEN Unread ELSE created[s]]
          /\ keys' = [k \in Keys |-> IF k \in K THEN NoSlot ELSE keys[k]]
        BY DEF RemoveKeys
    <1>2. h # "free"
        BY PoolAssumption
    <1>3. \A k \in K : k \in Keys /\ keys[k] # NoSlot /\ keys[k] \in Slots
        BY DEF Present, IInv, TypeOK
    <1>4. /\ keys' \in [Keys -> Slots \cup {NoSlot}] /\ doomed' \subseteq Slots
          /\ shut' \subseteq Slots
        BY <1>1, <1>3 DEF IInv, TypeOK
    <1>5. created' \in [Slots -> 0 .. MaxClock]
        BY <1>1, PoolAssumption DEF IInv, TypeOK, Unread
    <1>6. Mapped'
        <2>1. \A j, k \in Keys : keys'[j] = keys'[k] /\ keys'[j] # NoSlot => j = k
            BY <1>1 DEF IInv, Mapped
        <2>2. \A k \in Keys : keys'[k] # NoSlot => keys'[k] \notin shut'
            BY <1>1, <1>3 DEF IInv, Mapped
        <2>3. doomed' \subseteq shut' /\ \A u \in Users : pc'[u] = "drain" => uslot'[u] \in shut'
            BY <1>1 DEF IInv, Mapped
        <2> QED
            BY <2>1, <2>2, <2>3 DEF Mapped
    <1>7. ASSUME NEW s \in Slots, chan'[s] # <<>> PROVE Reached(s)'
        <2>1. Reached(s) /\ s \notin doomed
            BY <1>7 DEF IInv, Reachable, Locked
        <2>2. CASE \E k \in Keys : keys[k] = s
            BY <1>1, <2>2 DEF Reached
        <2>3. CASE \E u \in Users : pc[u] = "drain" /\ uslot[u] = s
            BY <2>3 DEF Reached
        <2> QED
            BY <2>1, <2>2, <2>3 DEF Reached
    <1>8. \A k \in Keys : keys[k] = NoSlot => keys'[k] = NoSlot
        BY <1>1
    <1> QED
        BY <1>1, <1>2, <1>4, <1>5, <1>6, <1>7, <1>8 DEF Reachable

(* Get's look-up under the lock. *)
LEMMA LookupStep ==
    ASSUME IInv, NEW u \in Users, NEW k \in Keys, GetExpired(u, k) \/ GetLookup(u, k)
    PROVE  IInv'
    <1>1. /\ pc[u] = "out" /\ lock = "free" /\ lock' = lock /\ doomed' = doomed
          /\ ukey' = [ukey EXCEPT ![u] = k] /\ uslot' = [uslot EXCEPT ![u] = keys[k]]
          /\ UNCHANGED <<clock, pool, cleaner, chan, state, lastUseAt, uconn>>
        BY DEF GetExpired, GetLookup, UserStep, poolVars, slotVars, connVars
    <1>2. Buffered'
        BY <1>1, BufferedSame
    <1>3. keys[k] \in Slots \cup {NoSlot} /\ uslot'[u] = keys[k]
          /\ \A v \in Users \ {u} : uslot'[v] = uslot[v] /\ ukey'[v] = ukey[v]
        BY <1>1 DEF IInv, TypeOK
    <1>4. /\ pc'[u] \notin {"have", "gc"} /\ (pc'[u] \in {"recv", "drain"} <=> keys[k] # NoSlot)
          /\ \A v \in Users \ {u} : pc'[v] = pc[v]
          /\ pc' \in [Users -> {"out", "recv", "drain", "new", "have", "gc"}]
        BY DEF IInv, TypeOK, GetExpired, GetLookup, UserStep, Expired
    <1>5. Owned'
        BY <1>1, <1>4 DEF IInv, Owned
    <1>6. Waiting'
        BY <1>1, <1>3, <1>4, PoolAssumption DEF IInv, Waiting
    <1>7. CASE GetExpired(u, k)
        <2>1. /\ keys' = [keys EXCEPT ![k] = NoSlot] /\ shut' = shut \cup {keys[k]}
              /\ created' = [created EXCEPT ![keys[k]] = Unread] /\ keys[k] \in Slots
              /\ pc'[u] = "drain"
            BY <1>3, <1>7 DEF GetExpired, Expired, UserStep, IInv, TypeOK
        <2>2. TypeOK'
            <3>1. created' \in [Slots -> 0 .. MaxClock]
                BY <2>1, PoolAssumption DEF IInv, TypeOK, Unread
            <3>2. keys' \in [Keys -> Slots \cup {NoSlot}] /\ shut' \subseteq Slots
                BY <2>1 DEF IInv, TypeOK
            <3> QED
                BY <1>1, <1>4, <3>1, <3>2 DEF IInv, TypeOK
        <2>3. Mapped'
            BY <1>1, <1>3, <1>4, <2>1 DEF IInv, TypeOK, Mapped
        <2>4. Reachable'
            <3>1. ASSUME NEW s \in Slots, chan'[s] # <<>> PROVE Reached(s)'
                <4>1. Reached(s)
                    BY <1>1, <3>1 DEF IInv, Reachable
                <4>2. CASE s = keys[k]
                    BY <1>3, <2>1, <4>2 DEF Reached
                <4>3. ASSUME NEW j \in Keys, keys[j] = s, s # keys[k] PROVE Reached(s)'
                    BY <2>1, <4>3 DEF Reached, IInv, TypeOK
                <4>4. ASSUME NEW v \in Users, pc[v] = "drain", uslot[v] = s PROVE Reached(s)'
                    BY <1>1, <1>3, <1>4, <4>4 DEF Reached
                <4> QED
                    BY <1>1, <4>1, <4>2, <4>3, <4>4 DEF Reached
            <3> QED
                BY <3>1 DEF Reachable
        <2>5. Locked'
            BY <1>1, <1>3, <1>4, <2>1, PoolAssumption DEF IInv, TypeOK, Locked
        <2> QED
            BY <1>2, <1>5, <1>6, <2>2, <2>3, <2>4, <2>5 DEF IInv
    <1>8. CASE GetLookup(u, k)
        <2>1. UNCHANGED <<keys, shut, created>> /\ pc'[u] # "drain"
            BY <1>8 DEF GetLookup, poolVars, slotVars, UserStep, IInv, TypeOK
        <2>2. TypeOK'
            BY <1>1, <1>4, <2>1 DEF IInv, TypeOK
        <2>3. Mapped'
            BY <1>1, <1>3, <1>4, <2>1 DEF IInv, Mapped
        <2>4. Reachable'
            BY <1>1, <1>3, <1>4, <2>1 DEF IInv, Reachable, Reached
        <2>5. Locked'
            BY <1>1, <1>3, <1>4, <2>1 DEF IInv, Locked
        <2> QED
            BY <1>2, <1>5, <1>6, <2>2, <2>3, <2>4, <2>5 DEF IInv
    <1> QED
        BY <1>7, <1>8

(* A step that leaves the map, the lock and the buckets' fate alone keeps    *)
(* what the invariant says about them, as long as a channel only empties    *)
(* and a delivery stops draining only when its channel is empty.            *)
LEMMA KeptFacts ==
    ASSUME IInv, UNCHANGED <<keys, lock, doomed, shut>>,
           \A t \in Slots : chan'[t] # <<>> => chan[t] # <<>>,
           \A v \in Users :
              /\ pc'[v] = "drain" => pc[v] = "drain" /\ uslot'[v] = uslot[v]
              /\ pc[v] = "drain" =>
                    pc'[v] = "drain" \/ (uslot[v] \in Slots => chan'[uslot[v]] = <<>>)
              /\ pc'[v] = "gc" => pc[v] = "gc" /\ ukey'[v] = ukey[v]
    PROVE  Mapped' /\ Reachable' /\ Locked'
    <1>1. Mapped'
        BY DEF IInv, Mapped
    <1>2. Locked'
        BY DEF IInv, Locked
    <1>3. ASSUME NEW s \in Slots, chan'[s] # <<>> PROVE Reached(s)'
        BY <1>3 DEF IInv, Reachable, Reached
    <1> QED
        BY <1>1, <1>2, <1>3 DEF Reachable

(* Get and the drain of a dropped bucket receive from the channel, without  *)
(* the lock.                                                                *)
LEMMA ReceiveStep ==
    ASSUME IInv, NEW u \in Users,
           GetDrain(u) \/ GetReceive(u) \/ GetDiscards(u) \/ GetIgnored(u) \/ GetNothing(u)
    PROVE  IInv'
    <1> DEFINE s == uslot[u]
               c == Head(chan[s])
    <1>1. pc[u] \in {"recv", "drain"} /\ s \in Slots /\ uconn[u] = NoConn
        BY DEF GetDrain, GetReceive, GetDiscards, GetIgnored, GetNothing, UserStep,
               IInv, Waiting, Owned
    <1>2. UNCHANGED <<clock, pool, cleaner, keys, lock, doomed, shut, created, ukey>>
        BY DEF GetDrain, GetReceive, GetDiscards, GetIgnored, GetNothing, poolVars, slotVars, userVars
    <1>3. \/ chan[s] = <<>> /\ UNCHANGED <<chan, state, lastUseAt>>
             /\ pc' = [pc EXCEPT ![u] = "new"] /\ uslot' = [uslot EXCEPT ![u] = NoSlot]
             /\ uconn' = uconn
          \/ chan[s] # <<>> /\ TakeHead(s) /\ state' = [state EXCEPT ![c] = "used"]
             /\ lastUseAt' = [lastUseAt EXCEPT ![c] = clock]
             /\ pc[u] = "recv"
             /\ pc' = [pc EXCEPT ![u] = "have"] /\ uslot' = [uslot EXCEPT ![u] = NoSlot]
             /\ uconn' = [uconn EXCEPT ![u] = c]
          \/ \E how \in {"closed", "dropped"} :
             /\ chan[s] # <<>> /\ TakeHead(s) /\ state' = [state EXCEPT ![c] = how]
             /\ lastUseAt' = [lastUseAt EXCEPT ![c] = Unread]
             /\ uconn' = uconn
             /\ \/ UNCHANGED <<pc, uslot>>
                \/ pc[u] = "recv" /\ pc' = [pc EXCEPT ![u] = "new"]
                   /\ uslot' = [uslot EXCEPT ![u] = NoSlot]
        BY DEF GetDrain, GetReceive, GetDiscards, GetIgnored, GetNothing, UserStep,
               CloseConn, Gone, userVars, connVars, slotVars
    <1>4. CASE /\ chan[s] = <<>> /\ UNCHANGED <<chan, state, lastUseAt>>
               /\ pc' = [pc EXCEPT ![u] = "new"] /\ uslot' = [uslot EXCEPT ![u] = NoSlot]
               /\ uconn' = uconn
        <2>1. TypeOK'
            BY <1>2, <1>4 DEF IInv, TypeOK
        <2>2. Buffered'
            BY <1>4, BufferedSame
        <2>3. /\ pc'[u] = "new" /\ \A v \in Users \ {u} : pc'[v] = pc[v]
              /\ uslot'[u] = NoSlot /\ \A v \in Users \ {u} : uslot'[v] = uslot[v]
            BY <1>4 DEF IInv, TypeOK
        <2>4. Owned'
            BY <1>1, <1>4, <2>3 DEF IInv, Owned
        <2>5. Waiting'
            BY <2>3, PoolAssumption DEF IInv, Waiting
        <2>6. Mapped' /\ Reachable' /\ Locked'
            BY <1>2, <1>4, <2>3, KeptFacts
        <2> QED
            BY <2>1, <2>2, <2>4, <2>5, <2>6 DEF IInv
    <1>5. CASE /\ chan[s] # <<>> /\ TakeHead(s) /\ state' = [state EXCEPT ![c] = "used"]
               /\ lastUseAt' = [lastUseAt EXCEPT ![c] = clock]
               /\ pc[u] = "recv"
               /\ pc' = [pc EXCEPT ![u] = "have"] /\ uslot' = [uslot EXCEPT ![u] = NoSlot]
               /\ uconn' = [uconn EXCEPT ![u] = c]
        <2>1. /\ Buffered' /\ c \in Conns /\ state[c] = "idle"
              /\ chan' \in [Slots -> Seq(Conns)]
              /\ \A t \in Slots : Len(chan'[t]) <= MaxConnsPerKey
              /\ \A t \in Slots : chan'[t] # <<>> => chan[t] # <<>>
            BY <1>1, <1>5, BufferedTake
        <2>2. TypeOK'
            BY <1>2, <1>5, <2>1 DEF IInv, TypeOK
        <2>3. /\ pc'[u] = "have" /\ \A v \in Users \ {u} : pc'[v] = pc[v]
              /\ uslot'[u] = NoSlot /\ \A v \in Users \ {u} : uslot'[v] = uslot[v]
              /\ uconn'[u] = c /\ \A v \in Users \ {u} : uconn'[v] = uconn[v]
              /\ state'[c] = "used" /\ \A e \in Conns \ {c} : state'[e] = state[e]
            BY <1>5, <2>1 DEF IInv, TypeOK
        <2>4. \A v \in Users : uconn[v] # c
            BY <2>1 DEF IInv, Owned
        <2>5. c # NoConn
            BY <2>1, PoolAssumption
        <2>6. Owned'
            <3>1. \A v, w \in Users : uconn'[v] = uconn'[w] /\ uconn'[v] # NoConn => v = w
                BY <2>3, <2>4 DEF IInv, Owned
            <3>2. \A v \in Users : uconn'[v] # NoConn <=> pc'[v] \in {"have", "gc"}
                BY <2>3, <2>5 DEF IInv, Owned
            <3>3. ASSUME NEW e \in Conns
                  PROVE  state'[e] = "used" <=> \E v \in Users : uconn'[v] = e
                <4>1. CASE e = c
                    BY <2>3, <4>1
                <4>2. CASE e # c
                    <5>1. e # NoConn
                        BY PoolAssumption
                    <5> QED
                        BY <1>1, <2>3, <4>2, <5>1 DEF IInv, Owned
                <4> QED
                    BY <4>1, <4>2
            <3> QED
                BY <3>1, <3>2, <3>3 DEF Owned
        <2>7. Waiting'
            BY <2>3, PoolAssumption DEF IInv, Waiting
        <2>8. Mapped' /\ Reachable' /\ Locked'
            BY <1>2, <1>5, <2>1, <2>3, KeptFacts
        <2> QED
            BY <2>1, <2>2, <2>6, <2>7, <2>8 DEF IInv
    <1>6. ASSUME NEW how \in {"closed", "dropped"}, chan[s] # <<>>, TakeHead(s),
                 state' = [state EXCEPT ![c] = how],
                 lastUseAt' = [lastUseAt EXCEPT ![c] = Unread], uconn' = uconn,
                 \/ UNCHANGED <<pc, uslot>>
                 \/ pc[u] = "recv" /\ pc' = [pc EXCEPT ![u] = "new"]
                    /\ uslot' = [uslot EXCEPT ![u] = NoSlot]
          PROVE  IInv'
        <2>1. /\ Buffered' /\ c \in Conns /\ state[c] = "idle"
              /\ chan' \in [Slots -> Seq(Conns)]
              /\ \A t \in Slots : Len(chan'[t]) <= MaxConnsPerKey
              /\ \A t \in Slots : chan'[t] # <<>> => chan[t] # <<>>
            BY <1>1, <1>6, BufferedTake
        <2>2. /\ lastUseAt' \in [Conns -> 0 .. MaxClock]
              /\ state' \in [Conns -> {"unborn", "used", "idle", "closed", "dropped"}]
            BY <1>6, <2>1, PoolAssumption DEF IInv, TypeOK, Unread
        <2>3. /\ pc' \in [Users -> {"out", "recv", "drain", "new", "have", "gc"}]
              /\ uslot' \in [Users -> Slots \cup {NoSlot}]
            BY <1>6 DEF IInv, TypeOK
        <2>4. TypeOK'
            BY <1>2, <1>6, <2>1, <2>2, <2>3 DEF IInv, TypeOK
        <2>5. /\ \/ pc'[u] = pc[u] /\ uslot'[u] = uslot[u]
                 \/ pc[u] = "recv" /\ pc'[u] = "new" /\ uslot'[u] = NoSlot
              /\ \A v \in Users \ {u} : pc'[v] = pc[v] /\ uslot'[v] = uslot[v]
              /\ \A e \in Conns : state'[e] = "used" <=> state[e] = "used"
            BY <1>6, <2>1 DEF IInv, TypeOK
        <2>6. Owned'
            BY <1>1, <1>6, <2>5 DEF IInv, Owned
        <2>7. Waiting'
            BY <2>5, PoolAssumption DEF IInv, Waiting
        <2>8. Mapped' /\ Reachable' /\ Locked'
            BY <1>2, <1>6, <2>1, <2>5, KeptFacts
        <2> QED
            BY <2>1, <2>4, <2>6, <2>7, <2>8 DEF IInv
    <1> QED
        BY <1>3, <1>4, <1>5, <1>6

(* The delivery opens a connection of its own, or fails to. *)
LEMMA OpenStep ==
    ASSUME IInv, NEW u \in Users, Open(u)
    PROVE  IInv'
    <1>1. /\ pc[u] = "new" /\ uconn[u] = NoConn
          /\ UNCHANGED <<clock, pool, cleaner, keys, lock, doomed, chan, shut, created, uslot>>
        BY DEF Open, UserStep, poolVars, slotVars, IInv, Owned
    <1>2. ASSUME NEW c \in Conns, state[c] = "unborn", pc' = [pc EXCEPT ![u] = "have"],
                 uconn' = [uconn EXCEPT ![u] = c], state' = [state EXCEPT ![c] = "used"],
                 lastUseAt' = [lastUseAt EXCEPT ![c] = clock], UNCHANGED ukey
          PROVE  IInv'
        <2>1. TypeOK'
            BY <1>1, <1>2 DEF IInv, TypeOK
        <2>2. /\ pc'[u] = "have" /\ \A v \in Users \ {u} : pc'[v] = pc[v]
              /\ uconn'[u] = c /\ \A v \in Users \ {u} : uconn'[v] = uconn[v]
              /\ state'[c] = "used" /\ \A e \in Conns \ {c} : state'[e] = state[e]
            BY <1>2 DEF IInv, TypeOK
        <2>3. Buffered'
            BY <1>1, <1>2, <2>2, BufferedSame
        <2>4. c # NoConn /\ \A v \in Users : uconn[v] # c
            BY <1>2, PoolAssumption DEF IInv, Owned
        <2>5. Owned'
            <3>1. \A v, w \in Users : uconn'[v] = uconn'[w] /\ uconn'[v] # NoConn => v = w
                BY <2>2, <2>4 DEF IInv, Owned
            <3>2. \A v \in Users : uconn'[v] # NoConn <=> pc'[v] \in {"have", "gc"}
                BY <2>2, <2>4 DEF IInv, Owned
            <3>3. ASSUME NEW e \in Conns
                  PROVE  state'[e] = "used" <=> \E v \in Users : uconn'[v] = e
                <4>1. CASE e = c
                    BY <2>2, <4>1
                <4>2. CASE e # c
                    <5>1. e # NoConn
                        BY PoolAssumption
                    <5> QED
                        BY <1>1, <2>2, <4>2, <5>1 DEF IInv, Owned
                <4> QED
                    BY <4>1, <4>2
            <3> QED
                BY <3>1, <3>2, <3>3 DEF Owned
        <2>6. Waiting'
            BY <1>1, <2>2 DEF IInv, Waiting
        <2>7. Mapped' /\ Reachable' /\ Locked'
            BY <1>1, <1>2, <2>2, KeptFacts
        <2> QED
            BY <2>1, <2>3, <2>5, <2>6, <2>7 DEF IInv
    <1>3. CASE /\ pc' = [pc EXCEPT ![u] = "out"] /\ ukey' = [ukey EXCEPT ![u] = AnyKey]
               /\ UNCHANGED <<uconn, state, lastUseAt>>
        <2>1. AnyKey \in Keys
            BY PoolAssumption DEF AnyKey
        <2>2. TypeOK'
            BY <1>1, <1>3, <2>1 DEF IInv, TypeOK
        <2>3. /\ pc'[u] = "out" /\ \A v \in Users \ {u} : pc'[v] = pc[v] /\ ukey'[v] = ukey[v]
            BY <1>3 DEF IInv, TypeOK
        <2>4. Buffered'
            BY <1>1, <1>3, BufferedSame
        <2>5. Owned' /\ Waiting'
            BY <1>1, <1>3, <2>3 DEF IInv, Owned, Waiting
        <2>6. Mapped' /\ Reachable' /\ Locked'
            BY <1>1, <2>3, KeptFacts
        <2> QED
            BY <2>2, <2>4, <2>5, <2>6 DEF IInv
    <1> QED
        BY <1>2, <1>3 DEF Open, UserStep, connVars

(* An unusable connection is closed; Return finds the bucket, or the closed *)
(* pool.                                                                    *)
LEMMA ReturnStep ==
    ASSUME IInv, NEW u \in Users, CloseUnusable(u) \/ Return(u)
    PROVE  IInv'
    <1>1. /\ pc[u] = "have"
          /\ UNCHANGED <<clock, pool, cleaner, keys, lock, doomed, shut, created, uslot>>
        BY DEF CloseUnusable, Return, poolVars, slotVars
    <1>2. ASSUME pc' = [pc EXCEPT ![u] = "out"], ukey' = [ukey EXCEPT ![u] = AnyKey]
          PROVE  /\ pc'[u] = "out" /\ \A v \in Users \ {u} : pc'[v] = pc[v] /\ ukey'[v] = ukey[v]
                 /\ Waiting'
        BY <1>1, <1>2 DEF IInv, TypeOK, Waiting
    <1>3. ASSUME NEW how \in {"closed", "dropped"}, Leave(u, how), UNCHANGED chan
          PROVE  IInv'
        <2>1. /\ uconn[u] \in Conns /\ state[uconn[u]] = "used"
              /\ state' = [state EXCEPT ![uconn[u]] = how]
              /\ pc' = [pc EXCEPT ![u] = "out"] /\ ukey' = [ukey EXCEPT ![u] = AnyKey]
              /\ Owned'
            BY <1>1, <1>3, LeaveFacts
        <2>2. TypeOK'
            BY <1>1, <1>3, LeaveFacts DEF IInv, TypeOK
        <2>3. Buffered'
            BY <1>3, <2>1, BufferedSame DEF IInv, TypeOK
        <2>4. Mapped' /\ Reachable' /\ Locked'
            BY <1>1, <1>2, <1>3, <2>1, KeptFacts
        <2> QED
            BY <1>2, <2>1, <2>2, <2>3, <2>4 DEF IInv
    <1>4. ASSUME keys[ukey[u]] # NoSlot, Put(u, keys[ukey[u]]) PROVE IInv'
        <2>1. PICK s \in Slots : s = keys[ukey[u]]
            BY <1>4 DEF IInv, TypeOK
        <2>2. /\ Buffered' /\ Owned'
              /\ \A t \in Slots \ {s} : chan'[t] = chan[t]
              /\ pc' = [pc EXCEPT ![u] = "out"] /\ ukey' = [ukey EXCEPT ![u] = AnyKey]
            BY <1>1, <1>4, <2>1, PutFacts
        <2>3. TypeOK'
            BY <1>1, <1>4, <2>1, PutFacts DEF IInv, TypeOK
        <2>4. Mapped' /\ Locked'
            BY <1>1, <1>2, <2>2 DEF IInv, Mapped, Locked
        <2>5. ASSUME NEW t \in Slots, chan'[t] # <<>> PROVE Reached(t)'
            <3>1. CASE t = s
                BY <1>1, <2>1, <3>1 DEF Reached, IInv, TypeOK
            <3>2. CASE t # s
                BY <1>1, <1>2, <2>2, <2>5, <3>2 DEF Reached, Reachable, IInv
            <3> QED
                BY <3>1, <3>2
        <2> QED
            BY <1>2, <2>2, <2>3, <2>4, <2>5 DEF IInv, Reachable
    <1> QED
        BY <1>3, <1>4 DEF CloseUnusable, Return, slotVars

(* Return takes the lock and stale buckets out of the map. *)
LEMMA ReturnGcStep ==
    ASSUME IInv, NEW u \in Users, ReturnGc(u)
    PROVE  IInv'
    <1>1. /\ pc[u] = "have" /\ pc' = [pc EXCEPT ![u] = "gc"] /\ lock = "free"
          /\ keys[ukey[u]] = NoSlot
          /\ UNCHANGED <<clock, pool, cleaner, chan, state, lastUseAt, ukey, uslot, uconn>>
        BY DEF ReturnGc, UserStep, connVars
    <1>2. PICK K \in SUBSET Present : RemoveKeys(K, u)
        BY DEF ReturnGc
    <1>3. /\ pc'[u] = "gc" /\ \A v \in Users \ {u} : pc'[v] = pc[v]
        BY <1>1 DEF IInv, TypeOK
    <1>4. /\ Mapped' /\ Reachable' /\ lock' = u /\ u # "free"
          /\ \A k \in Keys : keys[k] = NoSlot => keys'[k] = NoSlot
          /\ keys' \in [Keys -> Slots \cup {NoSlot}] /\ doomed' \subseteq Slots
          /\ shut' \subseteq Slots /\ created' \in [Slots -> 0 .. MaxClock]
        BY <1>1, <1>2, <1>3, RemoveFacts
    <1>5. TypeOK'
        BY <1>1, <1>4 DEF IInv, TypeOK
    <1>6. Buffered' /\ Owned' /\ Waiting'
        BY <1>1, <1>3, BufferedSame DEF IInv, Owned, Waiting
    <1>7. Locked'
        <2>1. \A v \in Users : lock # v
            BY <1>1, PoolAssumption
        <2> QED
            BY <1>1, <1>3, <1>4, <2>1 DEF IInv, TypeOK, Locked
    <1> QED
        BY <1>4, <1>5, <1>6, <1>7 DEF IInv

(* Return puts the connection into a new bucket.  Nobody refers to the      *)
(* bucket yet, so nothing is in its channel, and the key still has none:    *)
(* the lock was held since it was looked up.                                *)
LEMMA ReturnNewStep ==
    ASSUME IInv, NEW u \in Users, ReturnNew(u)
    PROVE  IInv'
    <1>1. PICK s \in Slots :
            /\ Unused(s) /\ keys' = [keys EXCEPT ![ukey[u]] = s]
            /\ created' = [created EXCEPT ![s] = clock] /\ shut' = shut \ {s} /\ Put(u, s)
        BY DEF ReturnNew
    <1>2. /\ pc[u] = "gc" /\ Drained /\ lock' = "free" /\ doomed' = {}
          /\ UNCHANGED <<clock, pool, cleaner, uslot>>
        BY DEF ReturnNew
    <1>3. /\ lock = u /\ keys[ukey[u]] = NoSlot /\ ukey[u] \in Keys
          /\ \A v \in Users : pc[v] = "gc" => v = u
        BY <1>2 DEF IInv, Locked, TypeOK
    <1>4. /\ Buffered' /\ Owned'
          /\ \A t \in Slots \ {s} : chan'[t] = chan[t]
          /\ pc' = [pc EXCEPT ![u] = "out"]
        BY <1>1, <1>2, PutFacts
    <1>5. /\ pc'[u] = "out" /\ \A v \in Users \ {u} : pc'[v] = pc[v]
          /\ keys'[ukey[u]] = s /\ \A k \in Keys \ {ukey[u]} : keys'[k] = keys[k]
        BY <1>1, <1>3, <1>4 DEF IInv, TypeOK
    <1>6. TypeOK'
        <2>1. /\ keys' \in [Keys -> Slots \cup {NoSlot}] /\ created' \in [Slots -> 0 .. MaxClock]
              /\ shut' \subseteq Slots /\ doomed' \subseteq Slots /\ lock' = "free"
            BY <1>1, <1>2, <1>3 DEF IInv, TypeOK
        <2> QED
            BY <1>1, <1>2, <2>1, PutFacts DEF IInv, TypeOK
    <1>7. Waiting'
        BY <1>2, <1>5 DEF IInv, Waiting
    <1>8. Mapped'
        <2>1. (\A k \in Keys : keys[k] # s) /\ (\A v \in Users : uslot[v] # s)
            BY <1>1 DEF Unused
        <2>2. \A j, k \in Keys : keys'[j] = keys'[k] /\ keys'[j] # NoSlot => j = k
            BY <1>5, <2>1 DEF IInv, Mapped
        <2>3. \A k \in Keys : keys'[k] # NoSlot => keys'[k] \notin shut'
            BY <1>1, <1>5 DEF IInv, Mapped
        <2>4. doomed' \subseteq shut' /\ \A v \in Users : pc'[v] = "drain" => uslot'[v] \in shut'
            BY <1>1, <1>2, <1>5, <2>1 DEF IInv, Mapped
        <2> QED
            BY <2>2, <2>3, <2>4 DEF Mapped
    <1>9. ASSUME NEW t \in Slots, chan'[t] # <<>> PROVE Reached(t)'
        <2>1. CASE t = s
            BY <1>3, <1>5, <2>1 DEF Reached
        <2>2. CASE t # s
            <3>1. Reached(t) /\ t \notin doomed /\ t # NoSlot
                BY <1>2, <1>4, <1>9, <2>2, PoolAssumption DEF IInv, Reachable, Drained
            <3>2. ASSUME NEW k \in Keys, keys[k] = t PROVE Reached(t)'
                BY <1>3, <1>5, <3>1, <3>2 DEF Reached
            <3>3. ASSUME NEW v \in Users, pc[v] = "drain", uslot[v] = t PROVE Reached(t)'
                BY <1>2, <1>5, <3>3 DEF Reached
            <3> QED
                BY <3>1, <3>2, <3>3 DEF Reached
        <2> QED
            BY <2>1, <2>2
    <1>10. Locked'
        BY <1>2, <1>3, <1>5 DEF Locked
    <1> QED
        BY <1>4, <1>6, <1>7, <1>8, <1>9, <1>10 DEF IInv, Reachable

(* CleanUp and Close take the lock, empty buckets and let it go; the other  *)
(* steps of the pool.                                                       *)
LEMMA PoolStep ==
    ASSUME IInv,
           \/ CleanUp \/ CleanUpDone \/ (\E s \in Slots : DrainLocked(s))
           \/ CloseCall \/ CloseStop \/ CloseKeys \/ CloseDone \/ Tick
    PROVE  IInv'
    <1>1. CASE CleanUp \/ CloseKeys
        <2>1. PICK h \in {"cleaner", "closer"}, K \in SUBSET Present : RemoveKeys(K, h)
            BY <1>1 DEF CleanUp, CloseKeys
        <2>2. /\ lock = "free"
              /\ UNCHANGED <<clock, pool, cleaner, chan, state, lastUseAt, pc, ukey, uslot, uconn>>
            BY <1>1 DEF CleanUp, CloseKeys, connVars, userVars
        <2>3. /\ Mapped' /\ Reachable' /\ lock' = h /\ h # "free"
              /\ \A k \in Keys : keys[k] = NoSlot => keys'[k] = NoSlot
              /\ keys' \in [Keys -> Slots \cup {NoSlot}] /\ doomed' \subseteq Slots
              /\ shut' \subseteq Slots /\ created' \in [Slots -> 0 .. MaxClock]
            BY <2>1, <2>2, RemoveFacts
        <2>4. TypeOK'
            BY <2>2, <2>3 DEF IInv, TypeOK
        <2>5. Buffered' /\ Owned' /\ Waiting'
            BY <2>2, BufferedSame DEF IInv, Owned, Waiting
        <2>6. Locked'
            <3>1. \A u \in Users : lock # u
                BY <2>2, PoolAssumption
            <3> QED
                BY <2>2, <2>3, <3>1 DEF IInv, Locked
        <2> QED
            BY <2>3, <2>4, <2>5, <2>6 DEF IInv
    <1>2. CASE CleanUpDone \/ CloseDone
        <2>1. /\ lock \in {"cleaner", "closer"} /\ Drained /\ lock' = "free" /\ doomed' = {}
              /\ pool' \in {"open", "stopping", "closing", "nil"}
              /\ UNCHANGED <<clock, keys, cleaner, chan, shut, created, state, lastUseAt,
                             pc, ukey, uslot, uconn>>
            BY <1>2 DEF CleanUpDone, CloseDone, slotVars, connVars, userVars, IInv, TypeOK
        <2>2. TypeOK'
            BY <2>1 DEF IInv, TypeOK
        <2>3. Buffered' /\ Owned' /\ Waiting' /\ Mapped'
            BY <2>1, BufferedSame DEF IInv, Owned, Waiting, Mapped
        <2>4. Reachable'
            BY <2>1 DEF IInv, Reachable, Reached, Drained
        <2>5. Locked'
            <3>1. \A u \in Users : lock # u
                BY <2>1, PoolAssumption
            <3> QED
                BY <2>1, <3>1 DEF IInv, Locked
        <2> QED
            BY <2>2, <2>3, <2>4, <2>5 DEF IInv
    <1>3. ASSUME NEW s \in Slots, DrainLocked(s) PROVE IInv'
        <2> DEFINE c == Head(chan[s])
        <2>1. /\ chan[s] # <<>> /\ TakeHead(s) /\ state' = [state EXCEPT ![c] = "closed"]
              /\ lastUseAt' = [lastUseAt EXCEPT ![c] = Unread]
              /\ UNCHANGED <<clock, pool, cleaner, keys, lock, doomed, shut, created,
                             pc, ukey, uslot, uconn>>
            BY <1>3 DEF DrainLocked, CloseConn, Gone, poolVars, userVars
        <2>2. /\ Buffered' /\ c \in Conns /\ state[c] = "idle"
              /\ chan' \in [Slots -> Seq(Conns)]
              /\ \A t \in Slots : Len(chan'[t]) <= MaxConnsPerKey
              /\ \A t \in Slots : chan'[t] # <<>> => chan[t] # <<>>
            BY <2>1, BufferedTake
        <2>3. /\ lastUseAt' \in [Conns -> 0 .. MaxClock]
              /\ state' \in [Conns -> {"unborn", "used", "idle", "closed", "dropped"}]
              /\ \A e \in Conns : state'[e] = "used" <=> state[e] = "used"
            BY <2>1, <2>2, PoolAssumption DEF IInv, TypeOK, Unread
        <2>4. TypeOK'
            BY <2>1, <2>2, <2>3 DEF IInv, TypeOK
        <2>5. Owned' /\ Waiting'
            BY <2>1, <2>3 DEF IInv, Owned, Waiting
        <2>6. Mapped' /\ Reachable' /\ Locked'
            BY <2>1, <2>2, KeptFacts
        <2> QED
            BY <2>2, <2>4, <2>5, <2>6 DEF IInv
    <1>4. CASE CloseCall \/ CloseStop \/ Tick
        <2>1. /\ UNCHANGED <<keys, lock, doomed, chan, shut, created, state, lastUseAt,
                             pc, ukey, uslot, uconn>>
              /\ clock' \in 0 .. MaxClock /\ pool' \in {"open", "stopping", "closing", "nil"}
              /\ cleaner' \in {"run", "stopped"}
            BY <1>4, PoolAssumption DEF CloseCall, CloseStop, Tick, poolVars, slotVars, connVars,
                                        userVars, IInv, TypeOK
        <2>2. TypeOK'
            BY <2>1 DEF IInv, TypeOK
        <2>3. Buffered' /\ Owned' /\ Waiting'
            BY <2>1, BufferedSame DEF IInv, Owned, Waiting
        <2>4. Mapped' /\ Reachable' /\ Locked'
            BY <2>1, KeptFacts
        <2> QED
            BY <2>2, <2>3, <2>4 DEF IInv
    <1> QED
        BY <1>1, <1>2, <1>3, <1>4

(* The pool is empty and nobody uses it. *)
LEMMA PoolInit == Init => IInv
    <1> SUFFICES ASSUME Init PROVE IInv
        OBVIOUS
    <1>1. AnyKey \in Keys /\ 0 \in 0 .. MaxClock
        BY PoolAssumption DEF AnyKey
    <1>2. TypeOK
        <2>1. chan \in [Slots -> Seq(Conns)] /\ \A s \in Slots : Len(chan[s]) <= MaxConnsPerKey
            BY PoolAssumption DEF Init
        <2> QED
            BY <1>1, <2>1 DEF Init, TypeOK
    <1>3. \A s \in Slots : \A i \in Nat : \A c \in Conns : ~At(s, i, c)
        BY DEF Init, At
    <1>4. Buffered
        BY <1>3 DEF Init, Buffered
    <1>5. Owned /\ Waiting
        BY PoolAssumption DEF Init, Owned, Waiting
    <1>6. Mapped /\ Reachable /\ Locked
        BY DEF Init, Mapped, Reachable, Locked
    <1> QED
        BY <1>2, <1>4, <1>5, <1>6 DEF IInv

(* Every step of every delivery, of the clean-up goroutine and of Close     *)
(* preserves the invariant.                                                 *)
LEMMA PoolNext == IInv /\ [Next]_vars => IInv'
    <1> SUFFICES ASSUME IInv, [Next]_vars PROVE IInv'
        OBVIOUS
    <1>1. CASE UNCHANGED vars
        <2>1. UNCHANGED <<clock, keys, pool, cleaner, lock, doomed, chan, shut, created,
                          state, lastUseAt, pc, ukey, uslot, uconn>>
            BY <1>1 DEF vars, poolVars, slotVars, connVars, userVars
        <2> QED
            BY <2>1 DEF IInv, TypeOK, Buffered, At, Owned, Waiting, Mapped, Reachable, Reached, Locked
    <1>2. ASSUME NEW u \in Users, NEW k \in Keys, GetExpired(u, k) \/ GetLookup(u, k) PROVE IInv'
        BY <1>2, LookupStep
    <1>3. ASSUME NEW u \in Users,
                 \/ GetDrain(u) \/ GetReceive(u) \/ GetDiscards(u) \/ GetIgnored(u) \/ GetNothing(u)
                 \/ Open(u) \/ CloseUnusable(u) \/ Return(u) \/ ReturnGc(u) \/ ReturnNew(u)
          PROVE  IInv'
        BY <1>3, ReceiveStep, OpenStep, ReturnStep, ReturnGcStep, ReturnNewStep
    <1>4. ASSUME \/ CleanUp \/ CleanUpDone \/ (\E s \in Slots : DrainLocked(s))
                 \/ CloseCall \/ CloseStop \/ CloseKeys \/ CloseDone \/ Tick
          PROVE  IInv'
        BY <1>4, PoolStep
    <1> QED
        BY <1>1, <1>2, <1>3, <1>4 DEF Next

------------------------------------------------------------------------------
(* Theorems *)

(* The inductive invariant of internal/smtpconn/pool holds in every         *)
(* reachable state.                                                         *)
THEOREM PoolInvariant == Spec => []IInv
    BY PoolInit, PoolNext, PTL DEF Spec

(* The type invariant of the pool: a bucket's channel never holds more than *)
(* MaxConnsPerKey connections.                                              *)
THEOREM PoolTypeOK == Spec => []TypeOK
    <1>1. IInv => TypeOK
        BY DEF IInv
    <1> QED
        BY <1>1, PoolInvariant, PTL

(* A set whose elements are all the same one has at most one. *)
LEMMA AtMostOne ==
    ASSUME NEW S, \A x, y \in S : x = y
    PROVE  Cardinality(S) \in 0 .. 1 /\ (S = {} => Cardinality(S) = 0)
    <1>1. CASE S = {}
        BY <1>1, FS_EmptySet
    <1>2. ASSUME NEW x \in S PROVE Cardinality(S) = 1 /\ S # {}
        <2>1. S = {x}
            OBVIOUS
        <2> QED
            BY <2>1, FS_Singleton
    <1> QED
        BY <1>1, <1>2

(* A connection has one owner, for every number of deliveries and buckets:  *)
(* it is in one channel, once, or one delivery has it, or it is closed.     *)
(* Get, Return, CleanUp and Close never hand it to two of them.             *)
THEOREM PoolOneOwner == Spec => []OneOwner
    <1>1. IInv => OneOwner
        <2> SUFFICES ASSUME IInv, NEW c \in Conns
                     PROVE  /\ Cardinality(Places(c)) + Cardinality(HeldBy(c)) <= 1
                            /\ state[c] = "idle" <=> Places(c) # {}
                            /\ state[c] = "used" <=> HeldBy(c) # {}
            BY DEF OneOwner
        <2>1. ASSUME NEW p \in Places(c) PROVE p \in Slots \X Nat /\ At(p[1], p[2], c)
            <3>1. p \in Slots \X (1 .. MaxConnsPerKey) /\ p[2] <= Len(chan[p[1]])
                  /\ chan[p[1]][p[2]] = c
                BY DEF Places
            <3>2. chan[p[1]] \in Seq(Conns) /\ Len(chan[p[1]]) \in Nat
                BY <3>1 DEF IInv, TypeOK
            <3> QED
                BY <3>1, <3>2, PoolAssumption DEF At
        <2>2. ASSUME NEW s \in Slots, NEW i \in Nat, At(s, i, c) PROVE <<s, i>> \in Places(c)
            <3>1. Len(chan[s]) \in Nat /\ Len(chan[s]) <= MaxConnsPerKey
                BY DEF IInv, TypeOK
            <3> QED
                BY <2>2, <3>1, PoolAssumption DEF At, Places
        <2>3. \A p, q \in Places(c) : p = q
            BY <2>1 DEF IInv, Buffered
        <2>4. state[c] = "idle" <=> Places(c) # {}
            <3>1. ASSUME NEW p \in Places(c) PROVE state[c] = "idle"
                <4>1. p[1] \in Slots /\ p[2] \in Nat /\ At(p[1], p[2], c)
                    BY <2>1
                <4> QED
                    BY <4>1 DEF IInv, Buffered
            <3>2. ASSUME state[c] = "idle" PROVE Places(c) # {}
                BY <2>2, <3>2 DEF IInv, Buffered
            <3> QED
                BY <3>1, <3>2
        <2>5. c # NoConn
            BY PoolAssumption
        <2>6. \A u, v \in HeldBy(c) : u = v
            BY <2>5 DEF IInv, Owned, HeldBy
        <2>7. state[c] = "used" <=> HeldBy(c) # {}
            BY DEF IInv, Owned, HeldBy
        <2>8. Cardinality(Places(c)) + Cardinality(HeldBy(c)) <= 1
            BY <2>3, <2>4, <2>6, <2>7, AtMostOne
        <2> QED
            BY <2>4, <2>7, <2>8
    <1> QED
        BY <1>1, PoolInvariant, PTL

(* A bucket in the map has an open channel, and every idle connection can   *)
(* be reached from the map or by the one who took its bucket out of it: no  *)
(* send on a closed channel, no double close, no leaked connection.         *)
THEOREM PoolNoOrphans == Spec => []NoOrphans
    <1>1. IInv => NoOrphans
        BY DEF IInv, Mapped, Reachable, Reached, Locked, NoOrphans, Present
    <1> QED
        BY <1>1, PoolInvariant, PTL
==============================================================================
