---------------------------- MODULE LimitsProofs -----------------------------
(***************************************************************************)
(* Theorems about Limits, for every set of deliveries and domains and      *)
(* every configuration of the four scopes.                                 *)
(***************************************************************************)
EXTENDS Limits, FiniteSetTheorems, TLAPS

------------------------------------------------------------------------------
(* The inductive invariant *)

(* No bucket was used in the future, so none ever counts as stale. *)
UsedInThePast == \A b \in Scopes \X Keys : lastUse[b] <= clock

(* Every token a rate limiter let through, still has in its channel or may  *)
(* still get in this interval comes from one of the bursts so far.          *)
Burst(l) ==
    IF IsSemaphore(l) THEN fill[l] = 0
    ELSE taken[l] + chan[l] + fill[l] <= Capacity(l) * (intervals + 1)

(* Where a client's Take call is. *)
Where(c) ==
    /\ pc[c] \in {"out", "held", "heldDest"} => scope[c] = "global" /\ idx[c] = 1
    /\ pc[c] = "take" => scope[c] \in {"global", "ip", "source"} /\ Configured(scope[c])
    /\ pc[c] = "takeDest" => scope[c] = "dest"
    /\ Working(c) => idx[c] <= Len(Wrapped(scope[c])) + 1
    /\ pc[c] \in {"takeDest", "heldDest"} => Configured("dest")

(* The buckets it has entered: they are where its Release will look.        *)
Entered(c, s) ==
    /\ s # "global" /\ Configured(s)
    /\ \/ pc[c] = "take" /\ (s = scope[c] \/ (s = "ip" /\ scope[c] = "source"))
       \/ pc[c] \in {"held", "takeDest", "heldDest"} /\ s \in {"ip", "source"}
       \/ pc[c] \in {"takeDest", "heldDest"} /\ s = "dest"

InBuckets(c) == \A s \in Scopes : Entered(c, s) => <<s, KeyOf(c, s)>> \in buckets

Holders(l) == {c \in Clients : l \in Holds(c)}

(* A semaphore has a place taken for every delivery that holds it; a        *)
(* delivery that panicked may have left one behind.                         *)
Counted(l) ==
    IsSemaphore(l) /\ Capacity(l) > 0 =>
        /\ Cardinality(Holders(l)) <= chan[l]
        /\ (\A c \in Clients : pc[c] # "panicked") => chan[l] = Cardinality(Holders(l))

IInv ==
    /\ TypeOK
    /\ UsedInThePast
    /\ \A l \in LimId : Burst(l) /\ Counted(l)
    /\ \A c \in Clients : Where(c) /\ InBuckets(c)

(* The configurations whose takes never panic: the clean-up of a failing    *)
(* source limit finds an IP limit, and no bucket set gets full.             *)
SoundConfig ==
    /\ Configured("source") => Configured("ip")
    /\ Cardinality(Keys) <= MaxBuckets

------------------------------------------------------------------------------
(* The operators of the model *)

(* The limiters of a scope are a sequence; a limit that is not configured   *)
(* has none.                                                                *)
LEMMA WrappedType ==
    ASSUME NEW s \in Scopes
    PROVE  /\ Wrapped(s) \in Seq(Limiter) /\ Len(Wrapped(s)) \in Nat
           /\ \A i \in 1 .. Len(Wrapped(s)) : Wrapped(s)[i] \in Limiter
           /\ s # "dest" /\ Wrapped(s) # <<>> => Configured(s)
    <1>1. Wrapped(s) \in Seq(Limiter)
        BY LimitsAssumption DEF Wrapped, Scopes
    <1>2. s # "dest" /\ Wrapped(s) # <<>> => Configured(s)
        BY DEF Wrapped, Configured, Scopes
    <1> QED
        BY <1>1, <1>2

(* A limiter is known by its scope, its key and its place in the sequence.  *)
LEMMA LimIdType ==
    /\ \A l \in LimId :
          /\ l[1] \in Scopes /\ l[2] \in Keys /\ l[3] \in Nat \ {0}
          /\ l[3] \in 1 .. Len(Wrapped(l[1])) /\ l = <<l[1], l[2], l[3]>>
          /\ <<l[1], l[2]>> \in Scopes \X Keys
          /\ l[1] # "dest" => Configured(l[1])
          /\ Capacity(l) \in Nat
    /\ \A s \in Scopes, k \in Keys : \A i \in Nat \ {0} :
          i <= Len(Wrapped(s)) => <<s, k, i>> \in LimId
    <1>1. ASSUME NEW l \in LimId
          PROVE  /\ l[1] \in Scopes /\ l[2] \in Keys /\ l[3] \in Nat \ {0}
                 /\ l[3] \in 1 .. Len(Wrapped(l[1])) /\ l = <<l[1], l[2], l[3]>>
                 /\ <<l[1], l[2]>> \in Scopes \X Keys
                 /\ l[1] # "dest" => Configured(l[1])
                 /\ Capacity(l) \in Nat
        <2>1. PICK s \in Scopes : l \in {s} \X Keys \X (1 .. Len(Wrapped(s)))
            BY DEF LimId
        <2>2. Len(Wrapped(s)) \in Nat
            BY WrappedType
        <2>3. l[1] = s /\ l[2] \in Keys /\ l[3] \in 1 .. Len(Wrapped(s)) /\ l = <<l[1], l[2], l[3]>>
            BY <2>1
        <2>4. s # "dest" => Configured(s)
            <3>1. CASE Wrapped(s) = <<>>
                BY <2>3, <3>1
            <3> QED
                BY <3>1, WrappedType
        <2>5. Wrapped(s)[l[3]] \in Limiter
            BY <2>3, WrappedType
        <2>6. Capacity(l) \in Nat
            BY <2>3, <2>5 DEF Capacity, LimiterOf, Limiter
        <2> QED
            BY <2>2, <2>3, <2>4, <2>6
    <1>2. ASSUME NEW s \in Scopes, NEW k \in Keys, NEW i \in Nat \ {0}, i <= Len(Wrapped(s))
          PROVE  <<s, k, i>> \in LimId
        <2>1. i \in 1 .. Len(Wrapped(s))
            BY <1>2, WrappedType
        <2> QED
            BY <2>1 DEF LimId
    <1> QED
        BY <1>1, <1>2

(* A client's key in every scope is a key. *)
LEMMA KeyType ==
    ASSUME TypeOK, NEW c \in Clients, NEW s \in Scopes
    PROVE  KeyOf(c, s) \in Keys
    <1>1. AnyKey \in Keys
        BY LimitsAssumption DEF AnyKey
    <1> QED
        BY <1>1, LimitsAssumption DEF KeyOf, TypeOK, Scopes

(* Only the key of a destination changes. *)
LEMMA KeyKept ==
    ASSUME NEW c \in Clients, NEW s \in Scopes, s # "dest" \/ dest'[c] = dest[c]
    PROVE  KeyOf(c, s)' = KeyOf(c, s)
    BY DEF KeyOf, Scopes

(* What a client holds, limiter by limiter. *)
Owns(c, l) ==
    /\ l[2] = KeyOf(c, l[1])
    /\ \/ pc[c] \in {"held", "takeDest", "heldDest"} /\ l[1] # "dest"
       \/ pc[c] = "heldDest" /\ l[1] = "dest"
       \/ Working(c) /\ l[1] = scope[c] /\ l[3] < idx[c]
       \/ pc[c] = "take" /\ scope[c] = "ip" /\ l[1] = "global"
       \/ pc[c] = "take" /\ scope[c] = "source" /\ l[1] \in {"global", "ip"}

(* The limiters of a message are the ones of the three message scopes. *)
LEMMA MsgLimitsIff ==
    ASSUME NEW c \in Clients, NEW l \in LimId
    PROVE  l \in MsgLimits(c) <=> l[1] # "dest" /\ l[2] = KeyOf(c, l[1])
    <1>1. l[1] \in Scopes /\ (l[1] # "dest" => Configured(l[1]))
        BY LimIdType
    <1> QED
        BY <1>1 DEF MsgLimits, AllOf, Scopes

OwnsIsHolds == \A c \in Clients : \A l \in LimId : Where(c) => (l \in Holds(c) <=> Owns(c, l))

(* Holds, read limiter by limiter. *)
LEMMA HoldsIff == OwnsIsHolds
    <1> SUFFICES ASSUME NEW c \in Clients, NEW l \in LimId, Where(c)
                 PROVE  l \in Holds(c) <=> Owns(c, l)
        BY DEF OwnsIsHolds
    <1>1. l[1] \in Scopes
        BY LimIdType
    <1>2. l \in MsgLimits(c) <=> l[1] # "dest" /\ l[2] = KeyOf(c, l[1])
        BY MsgLimitsIff
    <1>3. l \in TakenInScope(c) <=> l[1] = scope[c] /\ l[2] = KeyOf(c, l[1]) /\ l[3] < idx[c]
        BY DEF TakenInScope, AllOf
    <1>4. CASE pc[c] = "take"
        <2>1. scope[c] \in {"global", "ip", "source"}
            BY <1>4 DEF Where
        <2>2. CASE scope[c] = "global"
            BY <1>3, <1>4, <2>2 DEF Holds, Owns, Working
        <2>3. CASE scope[c] = "ip"
            BY <1>3, <1>4, <2>3 DEF Holds, Owns, Working, AllOf
        <2>4. CASE scope[c] = "source"
            BY <1>1, <1>2, <1>3, <1>4, <2>4 DEF Holds, Owns, Working, AllOf, Scopes
        <2> QED
            BY <2>1, <2>2, <2>3, <2>4
    <1>5. CASE pc[c] = "takeDest"
        BY <1>2, <1>3, <1>5 DEF Holds, Owns, Working
    <1>6. CASE pc[c] \in {"held", "heldDest"}
        BY <1>2, <1>6 DEF Holds, Owns, Working, AllOf
    <1>7. CASE pc[c] \notin {"take", "takeDest", "held", "heldDest"}
        BY <1>7 DEF Holds, Owns, Working
    <1> QED
        BY <1>4, <1>5, <1>6, <1>7

(* The same in the next state. *)
LEMMA HoldsIffNext == OwnsIsHolds'
    BY HoldsIff, PTL

------------------------------------------------------------------------------
(* Counting *)

(* The holders of a limiter are a finite set; who holds a semaphore has a   *)
(* place of it, so its Release never finds the channel empty.               *)
LEMMA HeldIsCounted ==
    ASSUME IInv, NEW l \in LimId
    PROVE  /\ IsFiniteSet(Holders(l)) /\ Cardinality(Holders(l)) \in Nat
           /\ \A c \in Clients : l \in Holds(c) /\ IsSemaphore(l) /\ Capacity(l) > 0 => chan[l] > 0
    <1>1. IsFiniteSet(Holders(l)) /\ Cardinality(Holders(l)) \in Nat
        BY LimitsAssumption, FS_Subset, FS_CardinalityType DEF Holders
    <1>2. ASSUME NEW c \in Clients, l \in Holds(c), IsSemaphore(l), Capacity(l) > 0
          PROVE  chan[l] > 0
        <2>1. c \in Holders(l)
            BY <1>2 DEF Holders
        <2>2. Cardinality(Holders(l)) # 0
            BY <1>1, <2>1, FS_EmptySet
        <2>3. Cardinality(Holders(l)) <= chan[l] /\ chan[l] \in Nat
            BY <1>2 DEF IInv, Counted, TypeOK
        <2> QED
            BY <1>1, <2>2, <2>3
    <1> QED
        BY <1>1, <1>2

(* When one client's step changes what it holds and the semaphore's channel *)
(* alike, the count stays right.                                            *)
LEMMA CountedStep ==
    ASSUME IInv, NEW c \in Clients, NEW l \in LimId,
           \A d \in Clients \ {c} : (l \in Holds(d)' <=> l \in Holds(d)) /\ pc'[d] = pc[d],
           pc[c] # "panicked",
           IsSemaphore(l) /\ Capacity(l) > 0 =>
              \/ (l \in Holds(c)' <=> l \in Holds(c)) /\ chan'[l] = chan[l]
              \/ l \notin Holds(c) /\ l \in Holds(c)' /\ chan'[l] = chan[l] + 1
              \/ l \in Holds(c) /\ l \notin Holds(c)' /\ chan'[l] = chan[l] - 1
              \/ pc'[c] = "panicked" /\ l \notin Holds(c)' /\ chan'[l] = chan[l]
    PROVE  Counted(l)'
    <1> DEFINE H == Holders(l)
    <1>0. SUFFICES ASSUME IsSemaphore(l), Capacity(l) > 0
                   PROVE  /\ Cardinality(Holders(l)') <= chan'[l]
                          /\ (\A d \in Clients : pc'[d] # "panicked") =>
                                chan'[l] = Cardinality(Holders(l)')
        BY DEF Counted
    <1>1. /\ IsFiniteSet(H) /\ Cardinality(H) \in Nat /\ chan[l] \in Nat
          /\ Cardinality(H) <= chan[l]
          /\ (\A d \in Clients : pc[d] # "panicked") => chan[l] = Cardinality(H)
        BY <1>0, HeldIsCounted DEF IInv, Counted, TypeOK
    <1>2. /\ l \in Holds(c)' => Holders(l)' = H \cup {c}
          /\ l \notin Holds(c)' => Holders(l)' = H \ {c}
          /\ c \in H <=> l \in Holds(c)
        BY DEF Holders
    <1>3. /\ Cardinality(H \ {c}) = (IF c \in H THEN Cardinality(H) - 1 ELSE Cardinality(H))
          /\ Cardinality(H \cup {c}) = (IF c \in H THEN Cardinality(H) ELSE Cardinality(H) + 1)
        <2>1. Cardinality(H \cup {c}) = (IF c \in H THEN Cardinality(H) ELSE Cardinality(H) + 1)
            BY <1>1, FS_AddElement
        <2>2. c \in H => Cardinality(H \ {c}) = Cardinality(H) - 1
            BY <1>1, FS_RemoveElement
        <2>3. c \notin H => H \ {c} = H
            OBVIOUS
        <2> QED
            BY <2>1, <2>2, <2>3
    <1>4. (\A d \in Clients : pc'[d] # "panicked") => chan[l] = Cardinality(H)
        BY <1>1
    <1>5. CASE (l \in Holds(c)' <=> l \in Holds(c)) /\ chan'[l] = chan[l]
        <2>1. Holders(l)' = H
            BY <1>2, <1>5
        <2> QED
            BY <1>1, <1>4, <1>5, <2>1
    <1>6. CASE l \notin Holds(c) /\ l \in Holds(c)' /\ chan'[l] = chan[l] + 1
        <2>1. Holders(l)' = H \cup {c} /\ Cardinality(H \cup {c}) = Cardinality(H) + 1
            BY <1>2, <1>3, <1>6
        <2> QED
            BY <1>1, <1>4, <1>6, <2>1
    <1>7. CASE l \in Holds(c) /\ l \notin Holds(c)' /\ chan'[l] = chan[l] - 1
        <2>1. Holders(l)' = H \ {c} /\ Cardinality(H \ {c}) = Cardinality(H) - 1
            BY <1>2, <1>3, <1>7
        <2> QED
            BY <1>1, <1>4, <1>7, <2>1
    <1>8. CASE pc'[c] = "panicked" /\ l \notin Holds(c)' /\ chan'[l] = chan[l]
        <2>1. Holders(l)' = H \ {c} /\ Cardinality(H \ {c}) <= Cardinality(H)
              /\ Cardinality(H \ {c}) \in Int
            BY <1>1, <1>2, <1>3, <1>8
        <2> QED
            BY <1>1, <1>8, <2>1
    <1> QED
        BY <1>0, <1>5, <1>6, <1>7, <1>8

(* A step of one client leaves what the others hold alone. *)
LEMMA OthersHold ==
    ASSUME NEW d \in Clients, NEW l \in LimId, Where(d),
           pc'[d] = pc[d], scope'[d] = scope[d], idx'[d] = idx[d], dest'[d] = dest[d]
    PROVE  /\ l \in Holds(d)' <=> l \in Holds(d)
           /\ Where(d)'
    <1>1. Where(d)'
        BY DEF Where, Working
    <1>2. l[1] \in Scopes /\ KeyOf(d, l[1])' = KeyOf(d, l[1])
        BY LimIdType, KeyKept
    <1>3. Owns(d, l)' <=> Owns(d, l)
        BY <1>2 DEF Owns, Working
    <1> QED
        BY <1>1, <1>3, HoldsIff, HoldsIffNext DEF OwnsIsHolds

(* No bucket is ever reaped: its last use is not later than now. *)
LEMMA NothingReaped ==
    ASSUME IInv, NEW s \in Scopes
    PROVE  Reaped(s) = {}
    <1>1. ASSUME NEW b \in Keyset(s) PROVE ~Stale(b)
        <2>1. b \in Scopes \X Keys
            BY DEF Keyset, IInv, TypeOK
        <2>2. lastUse[b] \in Nat /\ clock \in Nat /\ lastUse[b] <= clock
            BY <2>1, LimitsAssumption DEF IInv, TypeOK, UsedInThePast
        <2> QED
            BY <2>2, LimitsAssumption DEF Stale
    <1> QED
        BY <1>1 DEF Reaped

(* So entering a bucket only adds one. *)
LEMMA EnterFacts ==
    ASSUME IInv, NEW s \in Scopes, NEW k \in Keys, EnterBucket(s, k)
    PROVE  /\ UNCHANGED chan /\ buckets \subseteq buckets' /\ buckets' \subseteq Scopes \X Keys
           /\ ~Full(s) => <<s, k>> \in buckets'
           /\ lastUse' \in [Scopes \X Keys -> 0 .. MaxClock]
           /\ \A b \in Scopes \X Keys : lastUse'[b] <= clock
    <1>1. Reaped(s) = {}
        BY NothingReaped
    <1>2. UNCHANGED chan
        BY <1>1 DEF EnterBucket, IInv, TypeOK
    <1>3. /\ buckets \subseteq buckets' /\ buckets' \subseteq Scopes \X Keys
          /\ ~Full(s) => <<s, k>> \in buckets'
        BY <1>1 DEF EnterBucket, IInv, TypeOK
    <1>4. lastUse' = lastUse \/ lastUse' = [lastUse EXCEPT ![<<s, k>>] = clock]
        BY DEF EnterBucket
    <1>5. clock \in 0 .. MaxClock /\ clock <= clock /\ <<s, k>> \in Scopes \X Keys
        BY LimitsAssumption DEF IInv, TypeOK
    <1> QED
        BY <1>2, <1>3, <1>4, <1>5 DEF IInv, TypeOK, UsedInThePast

(* With room for every key no bucket set gets full. *)
LEMMA NeverFull ==
    ASSUME IInv, SoundConfig, NEW s \in Scopes
    PROVE  ~Full(s)
    <1>1. /\ IsFiniteSet({s} \X Keys)
          /\ Cardinality({s} \X Keys) = Cardinality({s}) * Cardinality(Keys)
        BY LimitsAssumption, FS_Singleton, FS_Product
    <1>2. Cardinality({s}) = 1 /\ Cardinality(Keys) \in Nat
        BY LimitsAssumption, FS_Singleton, FS_CardinalityType
    <1>3. Cardinality({s} \X Keys) = Cardinality(Keys)
        BY <1>1, <1>2
    <1>4. (Keyset(s) \ Reaped(s)) \in SUBSET ({s} \X Keys)
        BY DEF Keyset, IInv, TypeOK
    <1>5. Cardinality(Keyset(s) \ Reaped(s)) <= Cardinality(Keys)
        BY <1>1, <1>3, <1>4, FS_Subset
    <1>6. Cardinality(Keyset(s) \ Reaped(s)) \in Nat
        BY <1>1, <1>4, FS_Subset, FS_CardinalityType
    <1> QED
        BY <1>2, <1>5, <1>6, LimitsAssumption DEF Full, SoundConfig

------------------------------------------------------------------------------
(* Steps *)

(* How a client's step may change a semaphore's channel. *)
Balanced(c, l) ==
    IsSemaphore(l) /\ Capacity(l) > 0 =>
        \/ (l \in Holds(c)' <=> l \in Holds(c)) /\ chan'[l] = chan[l]
        \/ l \notin Holds(c) /\ l \in Holds(c)' /\ chan'[l] = chan[l] + 1
        \/ l \in Holds(c) /\ l \notin Holds(c)' /\ chan'[l] = chan[l] - 1
        \/ pc'[c] = "panicked" /\ l \notin Holds(c)' /\ chan'[l] = chan[l]

(* A step of one client keeps the invariant when it keeps the client's part *)
(* of it.                                                                   *)
LEMMA ClientStep ==
    ASSUME IInv, NEW c \in Clients, pc[c] # "panicked",
           \A d \in Clients \ {c} : /\ pc'[d] = pc[d] /\ scope'[d] = scope[d]
                                    /\ idx'[d] = idx[d] /\ dest'[d] = dest[d],
           TypeOK', UsedInThePast', buckets \subseteq buckets',
           \A l \in LimId : Burst(l)' /\ Balanced(c, l),
           Where(c)', InBuckets(c)'
    PROVE  IInv'
    <1>1. ASSUME NEW l \in LimId PROVE Counted(l)'
        <2>1. \A d \in Clients \ {c} : (l \in Holds(d)' <=> l \in Holds(d)) /\ pc'[d] = pc[d]
            BY OthersHold DEF IInv
        <2> QED
            BY <2>1, CountedStep DEF Balanced
    <1>2. ASSUME NEW d \in Clients \ {c} PROVE Where(d)' /\ InBuckets(d)'
        <2>1. Where(d)'
            BY DEF IInv, Where, Working
        <2>2. \A s \in Scopes : KeyOf(d, s)' = KeyOf(d, s)
            BY KeyKept
        <2>3. \A s \in Scopes : Entered(d, s)' <=> Entered(d, s)
            BY DEF Entered
        <2>4. InBuckets(d)
            BY DEF IInv
        <2>5. InBuckets(d)'
            BY <2>2, <2>3, <2>4 DEF InBuckets
        <2> QED
            BY <2>1, <2>5
    <1> QED
        BY <1>1, <1>2 DEF IInv

(* TakeMsg begins with the global limit. *)
LEMMA TakeMsgStep ==
    ASSUME IInv, NEW c \in Clients, TakeMsg(c)
    PROVE  IInv'
    <1>1. /\ pc[c] = "out" /\ pc' = [pc EXCEPT ![c] = "take"] /\ pc'[c] = "take"
          /\ UNCHANGED <<chan, fill, buckets, lastUse, clock, intervals, scope, idx, dest, taken>>
        BY DEF TakeMsg, bucketVars, timeVars, IInv, TypeOK
    <1>2. msgs' \in [Clients -> 0 .. MaxMsgs]
        BY LimitsAssumption DEF TakeMsg, IInv, TypeOK
    <1>3. TypeOK'
        BY <1>1, <1>2 DEF IInv, TypeOK
    <1>4. scope[c] = "global" /\ idx[c] = 1
        BY <1>1 DEF IInv, Where
    <1>5. Where(c)'
        <2>1. "global" \in Scopes
            BY DEF Scopes
        <2> QED
            BY <1>1, <1>4, <2>1, WrappedType DEF Where, Working, Configured
    <1>6. InBuckets(c)'
        BY <1>1, <1>4 DEF InBuckets, Entered
    <1>7. ASSUME NEW l \in LimId PROVE Balanced(c, l)
        <2>1. l[3] \in Nat \ {0}
            BY LimIdType
        <2>2. ~Owns(c, l) /\ ~Owns(c, l)'
            BY <1>1, <1>4, <2>1 DEF Owns, Working
        <2>3. l \notin Holds(c) /\ l \notin Holds(c)'
            BY <1>5, <2>2, HoldsIff, HoldsIffNext DEF OwnsIsHolds, IInv
        <2> QED
            BY <1>1, <2>3 DEF Balanced
    <1>8. UsedInThePast' /\ \A l \in LimId : Burst(l)'
        BY <1>1 DEF IInv, UsedInThePast, Burst
    <1>9. \A d \in Clients \ {c} : pc'[d] = pc[d]
        BY <1>1 DEF IInv, TypeOK
    <1> QED
        BY <1>1, <1>3, <1>5, <1>6, <1>7, <1>8, <1>9, ClientStep

(* The next limiter of the scope: a place more is taken and held, or a      *)
(* token is used up.                                                        *)
LEMMA TakeOneStep ==
    ASSUME IInv, NEW c \in Clients, TakeOne(c)
    PROVE  IInv'
    <1>1. PICK s \in Scopes, k \in Keys, i \in Nat \ {0} :
             s = scope[c] /\ k = KeyOf(c, scope[c]) /\ i = idx[c]
        BY KeyType DEF IInv, TypeOK
    <1>2. PICK m \in LimId : m = <<s, k, i>>
        BY <1>1, LimIdType DEF TakeOne
    <1>3. m = Current(c) /\ m[1] = s /\ m[2] = k /\ m[3] = i
        BY <1>1, <1>2 DEF Current
    <1>4. /\ Working(c) /\ i <= Len(Wrapped(s))
          /\ idx' = [idx EXCEPT ![c] = i + 1] /\ idx'[c] = i + 1
          /\ \A d \in Clients \ {c} : idx'[d] = idx[d]
          /\ UNCHANGED <<fill, buckets, lastUse, clock, intervals, pc, scope, dest, msgs>>
        BY <1>1 DEF TakeOne, bucketVars, timeVars, IInv, TypeOK
    <1>5. Where(c)'
        <2>1. Len(Wrapped(s)) \in Nat
            BY WrappedType
        <2> QED
            BY <1>1, <1>4, <2>1 DEF IInv, Where, Working
    <1>6. \A r \in Scopes : KeyOf(c, r)' = KeyOf(c, r)
        BY <1>4, KeyKept
    <1>7. InBuckets(c)'
        <2>1. \A r \in Scopes : Entered(c, r)' <=> Entered(c, r)
            BY <1>4 DEF Entered
        <2>2. InBuckets(c)
            BY DEF IInv
        <2> QED
            BY <1>4, <1>6, <2>1, <2>2 DEF InBuckets
    <1>8. ASSUME NEW l \in LimId, l # m
          PROVE  (l \in Holds(c)' <=> l \in Holds(c)) /\ chan'[l] = chan[l] /\ taken'[l] = taken[l]
        <2>1. l[1] \in Scopes /\ l[3] \in Nat \ {0} /\ l = <<l[1], l[2], l[3]>>
            BY LimIdType
        <2>2. ~(l[1] = s /\ l[2] = k /\ l[3] = i)
            BY <1>2, <1>8, <2>1
        <2>3. Owns(c, l)' <=> Owns(c, l)
            BY <1>1, <1>4, <1>6, <2>1, <2>2 DEF Owns, Working
        <2>4. l \in Holds(c)' <=> l \in Holds(c)
            BY <1>5, <2>3, HoldsIff, HoldsIffNext DEF OwnsIsHolds, IInv
        <2>5. chan'[l] = chan[l] /\ taken'[l] = taken[l]
            BY <1>3, <1>8 DEF TakeOne, IInv, TypeOK
        <2> QED
            BY <2>4, <2>5
    <1>9. m \notin Holds(c) /\ m \in Holds(c)'
        <2>1. m[2] = KeyOf(c, m[1]) /\ KeyOf(c, m[1])' = KeyOf(c, m[1])
            BY <1>1, <1>3, <1>6
        <2>2. Owns(c, m)'
            BY <1>1, <1>3, <1>4, <2>1 DEF Owns, Working
        <2>3. ~Owns(c, m)
            BY <1>1, <1>3, <1>4 DEF Owns, Working, IInv, Where
        <2> QED
            BY <1>5, <2>2, <2>3, HoldsIff, HoldsIffNext DEF OwnsIsHolds, IInv
    <1>10. chan[m] \in Nat /\ taken[m] \in Nat /\ Capacity(m) \in Nat /\ chan[m] <= Capacity(m)
        BY LimIdType DEF IInv, TypeOK
    <1>11. \/ Capacity(m) = 0 /\ chan'[m] = chan[m] /\ taken'[m] = taken[m]
           \/ /\ Capacity(m) > 0 /\ IsSemaphore(m) /\ chan[m] < Capacity(m)
              /\ chan'[m] = chan[m] + 1 /\ taken'[m] = taken[m]
           \/ /\ Capacity(m) > 0 /\ ~IsSemaphore(m) /\ chan[m] > 0
              /\ chan'[m] = chan[m] - 1 /\ taken'[m] = taken[m] + 1
        BY <1>3 DEF TakeOne, IInv, TypeOK
    <1>12. TypeOK'
        <2>1. /\ \E x : chan' = [chan EXCEPT ![m] = x] \/ chan' = chan
              /\ \E x : taken' = [taken EXCEPT ![m] = x] \/ taken' = taken
            BY <1>3 DEF TakeOne
        <2>2. chan'[m] \in Nat /\ taken'[m] \in Nat /\ chan'[m] <= Capacity(m)
            BY <1>10, <1>11
        <2>3. chan' \in [LimId -> Nat] /\ taken' \in [LimId -> Nat]
            BY <2>1, <2>2 DEF IInv, TypeOK
        <2>4. \A l \in LimId : chan'[l] <= Capacity(l)
            BY <1>8, <2>2 DEF IInv, TypeOK
        <2>5. idx' \in [Clients -> Nat \ {0}]
            BY <1>1, <1>4 DEF IInv, TypeOK
        <2> QED
            BY <1>4, <2>3, <2>4, <2>5 DEF IInv, TypeOK
    <1>13. ASSUME NEW l \in LimId PROVE Burst(l)' /\ Balanced(c, l)
        <2>1. CASE l # m
            BY <1>4, <1>8, <2>1 DEF IInv, Burst, Balanced
        <2>2. CASE l = m
            <3>1. Balanced(c, m)
                BY <1>9, <1>11 DEF Balanced
            <3>2. Burst(m)'
                BY <1>4, <1>10, <1>11 DEF IInv, Burst, TypeOK
            <3> QED
                BY <2>2, <3>1, <3>2
        <2> QED
            BY <2>1, <2>2
    <1>14. UsedInThePast'
        BY <1>4 DEF IInv, UsedInThePast
    <1>15. pc[c] # "panicked"
        BY <1>4 DEF Working
    <1> QED
        BY <1>4, <1>5, <1>7, <1>12, <1>13, <1>14, <1>15, ClientStep

(* All limiters of a scope are taken: the client holds the same ones and    *)
(* goes on with the next scope, whose bucket it enters, or returns.         *)
LEMMA ScopeTakenStep ==
    ASSUME IInv, NEW c \in Clients, ScopeTaken(c)
    PROVE  IInv'
    <1>1. PICK s \in Scopes, i \in Nat \ {0} : s = scope[c] /\ i = idx[c]
        BY DEF IInv, TypeOK
    <1>2. /\ Working(c) /\ Len(Wrapped(s)) < i /\ Len(Wrapped(s)) \in Nat
          /\ UNCHANGED <<fill, clock, intervals, dest, msgs, taken>>
        BY <1>1, WrappedType DEF ScopeTaken, timeVars
    <1>3. \A r \in Scopes : KeyOf(c, r)' = KeyOf(c, r) /\ KeyOf(c, r) \in Keys
        BY <1>2, KeyKept, KeyType DEF IInv
    <1>4. pc[c] # "panicked" /\ Where(c) /\ InBuckets(c)
        BY <1>2 DEF Working, IInv
    <1>4a. ASSUME NEW l \in LimId, l[1] = s PROVE l[3] < i
        <2>1. l[3] \in 1 .. Len(Wrapped(s))
            BY <1>4a, LimIdType
        <2> QED
            BY <1>2, <2>1
    <1>5. CASE /\ (IF pc[c] = "take" THEN Following(scope[c]) ELSE "done") = "done"
               /\ pc' = [pc EXCEPT ![c] = IF pc[c] = "take" THEN "held" ELSE "heldDest"]
               /\ Return(c) /\ UNCHANGED <<chan, bucketVars>>
        <2>1. /\ pc'[c] = IF pc[c] = "take" THEN "held" ELSE "heldDest"
              /\ scope'[c] = "global" /\ idx'[c] = 1
              /\ \A d \in Clients \ {c} : pc'[d] = pc[d] /\ scope'[d] = scope[d] /\ idx'[d] = idx[d]
              /\ UNCHANGED <<chan, buckets, lastUse>>
            BY <1>5 DEF Return, bucketVars, IInv, TypeOK
        <2>2. TypeOK'
            BY <1>2, <1>5, <2>1 DEF IInv, TypeOK, Return, Scopes
        <2>3. Where(c)'
            BY <1>2, <1>4, <2>1 DEF Where, Working, Configured
        <2>4. pc[c] = "take" => /\ s \in {"global", "ip"} => ~Configured("source")
                                /\ s = "global" => ~Configured("ip")
            BY <1>1, <1>5 DEF Following
        <2>5. ASSUME NEW l \in LimId PROVE l \in Holds(c)' <=> l \in Holds(c)
            <3>1. l[1] \in Scopes /\ (l[1] # "dest" => Configured(l[1]))
                BY LimIdType
            <3>2. l[1] = s => l[3] < i
                BY <1>4a
            <3>3. Owns(c, l)' <=> Owns(c, l)
                BY <1>1, <1>2, <1>3, <1>4, <2>1, <2>4, <3>1, <3>2 DEF Owns, Working, Where, Scopes
            <3> QED
                BY <1>4, <2>3, <3>3, HoldsIff, HoldsIffNext DEF OwnsIsHolds
        <2>6. InBuckets(c)'
            <3>1. ASSUME NEW r \in Scopes, Entered(c, r)' PROVE Entered(c, r)
                BY <1>1, <1>2, <1>4, <2>1, <2>4, <3>1 DEF Entered, Working, Where, Scopes, Configured
            <3> QED
                BY <1>3, <1>4, <2>1, <3>1 DEF InBuckets
        <2>7. UsedInThePast' /\ \A l \in LimId : Burst(l)' /\ Balanced(c, l)
            BY <1>2, <2>1, <2>5 DEF IInv, UsedInThePast, Burst, Balanced
        <2> QED
            BY <1>2, <1>4, <2>1, <2>2, <2>3, <2>6, <2>7, ClientStep
    <1>6. ASSUME NEW n \in {"ip", "source"}, pc[c] = "take", n = Following(scope[c]),
                 EnterBucket(n, KeyOf(c, n)),
                 pc' = [pc EXCEPT ![c] = IF Full(n) THEN "panicked" ELSE "take"],
                 scope' = [scope EXCEPT ![c] = n], idx' = [idx EXCEPT ![c] = 1]
          PROVE  IInv'
        <2>0. n \in Scopes
            BY DEF Scopes
        <2>1. /\ pc'[c] = IF Full(n) THEN "panicked" ELSE "take"
              /\ scope'[c] = n /\ idx'[c] = 1
              /\ \A d \in Clients \ {c} : pc'[d] = pc[d] /\ scope'[d] = scope[d] /\ idx'[d] = idx[d]
            BY <1>6 DEF IInv, TypeOK
        <2>2. PICK k \in Keys : k = KeyOf(c, n)
            BY <1>3, <2>0
        <2>3. /\ UNCHANGED chan /\ buckets \subseteq buckets' /\ buckets' \subseteq Scopes \X Keys
              /\ ~Full(n) => <<n, k>> \in buckets'
              /\ lastUse' \in [Scopes \X Keys -> 0 .. MaxClock]
              /\ \A b \in Scopes \X Keys : lastUse'[b] <= clock
            BY <1>6, <2>0, <2>2, EnterFacts
        <2>4. TypeOK'
            BY <1>2, <1>6, <2>0, <2>3 DEF IInv, TypeOK
        <2>5. /\ Configured(n) /\ (n = "ip" => s = "global")
              /\ n = "source" => s \in {"global", "ip"} /\ (s = "global" => ~Configured("ip"))
            BY <1>1, <1>6 DEF Following
        <2>6. Where(c)'
            BY <2>0, <2>1, <2>5, WrappedType DEF Where, Working
        <2>7. ASSUME NEW l \in LimId, ~Full(n) PROVE l \in Holds(c)' <=> l \in Holds(c)
            <3>1. /\ l[1] \in Scopes /\ l[3] \in Nat \ {0} /\ (l[1] # "dest" => Configured(l[1]))
                  /\ l[1] = s => l[3] < i
                BY <1>4a, LimIdType
            <3>2. Owns(c, l)' <=> Owns(c, l)
                BY <1>1, <1>2, <1>3, <1>4, <1>6, <2>1, <2>5, <2>7, <3>1 DEF Owns, Working, Scopes
            <3> QED
                BY <1>4, <2>6, <3>2, HoldsIff, HoldsIffNext DEF OwnsIsHolds
        <2>8. ASSUME NEW l \in LimId, Full(n) PROVE l \notin Holds(c)' /\ pc'[c] = "panicked"
            <3>1. ~Owns(c, l)' /\ pc'[c] = "panicked"
                BY <2>1, <2>8 DEF Owns, Working
            <3> QED
                BY <2>6, <3>1, HoldsIffNext DEF OwnsIsHolds
        <2>9. ASSUME NEW r \in Scopes, Entered(c, r)' PROVE <<r, KeyOf(c, r)'>> \in buckets'
            <3>1. CASE r = n
                BY <1>3, <2>0, <2>1, <2>2, <2>3, <2>9, <3>1 DEF Entered
            <3>2. CASE r # n
                <4>1. Entered(c, r)
                    BY <1>1, <1>6, <2>1, <2>5, <2>9, <3>2 DEF Entered
                <4> QED
                    BY <1>3, <1>4, <2>3, <4>1 DEF InBuckets
            <3> QED
                BY <3>1, <3>2
        <2>10. UsedInThePast' /\ \A l \in LimId : Burst(l)'
            BY <1>2, <2>3 DEF IInv, UsedInThePast, Burst
        <2>11. \A l \in LimId : Balanced(c, l)
            BY <2>3, <2>7, <2>8 DEF Balanced
        <2>12. InBuckets(c)'
            BY <2>9 DEF InBuckets
        <2> QED
            BY <1>2, <1>4, <2>1, <2>3, <2>4, <2>6, <2>10, <2>11, <2>12, ClientStep
    <1>7. Following(scope[c]) \in {"ip", "source", "done"}
        BY DEF Following
    <1> QED
        BY <1>5, <1>6, <1>7 DEF ScopeTaken

(* Release gives back what the client holds: every channel has it. *)
LEMMA GivenFacts ==
    ASSUME IInv, NEW c \in Clients, NEW L \in SUBSET LimId, \A l \in L : l \in Holds(c),
           chan' = Given(L)
    PROVE  /\ ~Mismatched(L)
           /\ chan' \in [LimId -> Nat] /\ \A l \in LimId : chan'[l] <= Capacity(l)
           /\ \A l \in LimId : ~IsSemaphore(l) => chan'[l] = chan[l]
           /\ \A l \in LimId : IsSemaphore(l) /\ Capacity(l) > 0 =>
                 chan'[l] = IF l \in L THEN chan[l] - 1 ELSE chan[l]
    <1>1. \A l \in L : IsSemaphore(l) /\ Capacity(l) > 0 => chan[l] > 0
        BY HeldIsCounted
    <1>2. \A l \in LimId : chan[l] \in Nat /\ chan[l] <= Capacity(l) /\ Capacity(l) \in Nat
        BY LimIdType DEF IInv, TypeOK
    <1>3. \A l \in LimId : chan'[l] = IF l \in L /\ IsSemaphore(l) /\ Capacity(l) > 0
                                      THEN chan[l] - 1 ELSE chan[l]
        BY DEF Given
    <1>4. ASSUME NEW l \in LimId PROVE chan'[l] \in Nat /\ chan'[l] <= Capacity(l)
        BY <1>1, <1>2, <1>3
    <1>5. chan' \in [LimId -> Nat]
        BY <1>4 DEF Given
    <1>6. ~Mismatched(L)
        BY <1>1, <1>2 DEF Mismatched
    <1> QED
        BY <1>3, <1>4, <1>5, <1>6

(* A limiter times out: what the call got so far goes back, the client      *)
(* holds nothing of it any more.                                            *)
LEMMA TakeFailsStep ==
    ASSUME IInv, NEW c \in Clients, TakeFails(c)
    PROVE  /\ IInv'
           /\ pc'[c] = "panicked" => Configured("source") /\ ~Configured("ip")
    <1> DEFINE back == TakenInScope(c) \cup Undone(c)
    <1>1. /\ Working(c) /\ chan' = Given(back)
          /\ pc' = [pc EXCEPT ![c] =
                IF Mismatched(back) \/ (scope[c] = "source" /\ ~Configured("ip")) THEN "panicked"
                ELSE IF pc[c] = "take" THEN "out" ELSE "held"]
          /\ scope' = [scope EXCEPT ![c] = "global"] /\ idx' = [idx EXCEPT ![c] = 1]
          /\ UNCHANGED <<fill, buckets, lastUse, clock, intervals, dest, msgs, taken>>
        BY DEF TakeFails, Return, bucketVars, timeVars
    <1>2. /\ Where(c) /\ InBuckets(c) /\ pc[c] # "panicked" /\ scope[c] \in Scopes
        BY <1>1 DEF IInv, TypeOK, Working
    <1>3. \A r \in Scopes : KeyOf(c, r)' = KeyOf(c, r)
        BY <1>1, KeyKept
    <1>4. ASSUME NEW l \in LimId
          PROVE  l \in back <=>
                   /\ l[2] = KeyOf(c, l[1])
                   /\ \/ l[1] = scope[c] /\ l[3] < idx[c]
                      \/ scope[c] = "ip" /\ l[1] = "global"
                      \/ scope[c] = "source" /\ l[1] \in {"global", "ip"}
        BY <1>2 DEF TakenInScope, Undone, AllOf, Scopes
    <1>5. back \in SUBSET LimId
        BY DEF TakenInScope, Undone, AllOf
    <1>6. ASSUME NEW l \in LimId
          PROVE  /\ l \in back => Owns(c, l)
                 /\ Owns(c, l) => l \in back \/ (pc[c] = "takeDest" /\ l[1] # "dest")
                 /\ pc[c] = "takeDest" /\ l \in back => l[1] = "dest"
        BY <1>1, <1>2, <1>4 DEF Owns, Working, Where
    <1>7. \A l \in back : l \in Holds(c)
        BY <1>2, <1>5, <1>6, HoldsIff DEF OwnsIsHolds
    <1>8. /\ ~Mismatched(back)
          /\ chan' \in [LimId -> Nat] /\ \A l \in LimId : chan'[l] <= Capacity(l)
          /\ \A l \in LimId : ~IsSemaphore(l) => chan'[l] = chan[l]
          /\ \A l \in LimId : IsSemaphore(l) /\ Capacity(l) > 0 =>
                chan'[l] = IF l \in back THEN chan[l] - 1 ELSE chan[l]
        BY <1>1, <1>5, <1>7, GivenFacts
    <1>9. /\ pc'[c] \in {"panicked", "out", "held"}
          /\ pc'[c] = "out" => pc[c] = "take"
          /\ pc'[c] = "held" => pc[c] = "takeDest"
          /\ pc'[c] = "panicked" => scope[c] = "source"
          /\ scope'[c] = "global" /\ idx'[c] = 1
          /\ \A d \in Clients \ {c} : pc'[d] = pc[d] /\ scope'[d] = scope[d] /\ idx'[d] = idx[d]
        BY <1>1, <1>8 DEF IInv, TypeOK, Working
    <1>10. TypeOK'
        <2>1. "global" \in Scopes
            BY DEF Scopes
        <2>2. /\ pc' \in [Clients -> {"out", "take", "held", "takeDest", "heldDest", "panicked"}]
              /\ scope' \in [Clients -> Scopes] /\ idx' \in [Clients -> Nat \ {0}]
            BY <1>1, <2>1 DEF IInv, TypeOK
        <2> QED
            BY <1>1, <1>8, <2>2 DEF IInv, TypeOK
    <1>11. Where(c)'
        BY <1>9 DEF Where, Working
    <1>12. ASSUME NEW l \in LimId PROVE Burst(l)' /\ Balanced(c, l)
        <2>1. l[3] \in Nat \ {0} /\ l[1] \in Scopes
            BY LimIdType
        <2>2. pc[c] = "take" => (l \in back <=> Owns(c, l)) /\ ~Owns(c, l)'
            BY <1>1, <1>6, <1>9, <2>1 DEF Owns, Working
        <2>3. pc[c] = "takeDest" /\ pc'[c] = "held" =>
                (l \in back <=> Owns(c, l) /\ l[1] = "dest")
                /\ (Owns(c, l)' <=> Owns(c, l) /\ l[1] # "dest")
            BY <1>3, <1>6, <1>9, <2>1 DEF Owns, Working
        <2>4. pc[c] = "takeDest" => pc'[c] = "held"
            BY <1>2, <1>9 DEF Where
        <2>5. (l \in Holds(c) <=> Owns(c, l)) /\ (l \in Holds(c)' <=> Owns(c, l)')
            BY <1>2, <1>11, HoldsIff, HoldsIffNext DEF OwnsIsHolds
        <2>6. pc[c] \in {"take", "takeDest"}
            BY <1>1 DEF Working
        <2>7. Balanced(c, l)
            BY <1>8, <2>2, <2>3, <2>4, <2>5, <2>6 DEF Balanced
        <2>8. Burst(l)'
            BY <1>1, <1>8 DEF IInv, Burst
        <2> QED
            BY <2>7, <2>8
    <1>13. InBuckets(c)'
        <2>1. ASSUME NEW r \in Scopes, Entered(c, r)' PROVE Entered(c, r)
            BY <1>9, <2>1 DEF Entered
        <2> QED
            BY <1>1, <1>2, <1>3, <2>1 DEF InBuckets
    <1>14. UsedInThePast'
        BY <1>1 DEF IInv, UsedInThePast
    <1>15. pc'[c] = "panicked" => Configured("source") /\ ~Configured("ip")
        BY <1>1, <1>2, <1>8 DEF IInv, TypeOK, Where, Working
    <1> QED
        BY <1>1, <1>2, <1>9, <1>10, <1>11, <1>12, <1>13, <1>14, <1>15, ClientStep

(* ReleaseMsg and ReleaseDest find every bucket the client entered, and     *)
(* give back all it holds of them.                                          *)
LEMMA ReleaseStep ==
    ASSUME IInv, NEW c \in Clients, ReleaseMsg(c) \/ ReleaseDest(c)
    PROVE  IInv' /\ pc'[c] # "panicked"
    <1> DEFINE Msg == {s \in {"global", "ip", "source"} : Configured(s)}
    <1>1. PICK from \in {"held", "heldDest"}, to \in {"out", "held"}, S \in {Msg, {"dest"}} :
             /\ Back(c, from, to, S)
             /\ from = "held" => to = "out" /\ S = Msg
             /\ from = "heldDest" => to = "held" /\ S = {"dest"}
        BY DEF ReleaseMsg, ReleaseDest
    <1> DEFINE back == ReleaseSet(c, S)
    <1>2. /\ pc[c] = from /\ chan' = Given(back)
          /\ pc' = [pc EXCEPT ![c] = IF Mismatched(back) THEN "panicked" ELSE to]
          /\ dest' = [dest EXCEPT ![c] = AnyKey]
          /\ UNCHANGED <<fill, buckets, lastUse, clock, intervals, scope, idx, msgs, taken>>
        BY <1>1 DEF Back, bucketVars, timeVars
    <1>3. Where(c) /\ InBuckets(c) /\ pc[c] # "panicked" /\ scope[c] = "global" /\ idx[c] = 1
        BY <1>2 DEF IInv, Where
    <1>4. ASSUME NEW s \in S, s # "global" PROVE <<s, KeyOf(c, s)>> \in buckets
        <2>1. s \in Scopes /\ Configured(s)
            BY <1>1, <1>2, <1>3, <1>4 DEF Scopes, Where
        <2>2. Entered(c, s)
            BY <1>1, <1>2, <1>4, <2>1 DEF Entered
        <2> QED
            BY <1>3, <2>1, <2>2 DEF InBuckets
    <1>5. back = UNION {AllOf(c, s) : s \in S}
        BY <1>4 DEF ReleaseSet
    <1>6. back \in SUBSET LimId
        BY <1>5 DEF AllOf
    <1>7. ASSUME NEW l \in LimId
          PROVE  l \in back <=> Owns(c, l) /\ (l[1] = "dest" <=> from = "heldDest")
        <2>1. l[1] \in Scopes /\ (l[1] # "dest" => Configured(l[1]))
            BY LimIdType
        <2>2. l \in back <=> l[1] \in S /\ l[2] = KeyOf(c, l[1])
            BY <1>5 DEF AllOf
        <2>3. l[1] \in S <=> (l[1] = "dest" <=> from = "heldDest")
            BY <1>1, <2>1 DEF Scopes
        <2>4. Owns(c, l) <=> l[2] = KeyOf(c, l[1]) /\ (l[1] = "dest" => from = "heldDest")
            BY <1>2 DEF Owns, Working
        <2> QED
            BY <2>2, <2>3, <2>4
    <1>8. \A l \in back : l \in Holds(c)
        BY <1>3, <1>6, <1>7, HoldsIff DEF OwnsIsHolds
    <1>9. /\ ~Mismatched(back)
          /\ chan' \in [LimId -> Nat] /\ \A l \in LimId : chan'[l] <= Capacity(l)
          /\ \A l \in LimId : ~IsSemaphore(l) => chan'[l] = chan[l]
          /\ \A l \in LimId : IsSemaphore(l) /\ Capacity(l) > 0 =>
                chan'[l] = IF l \in back THEN chan[l] - 1 ELSE chan[l]
        BY <1>2, <1>6, <1>8, GivenFacts
    <1>10. /\ pc'[c] = to /\ scope'[c] = "global" /\ idx'[c] = 1
           /\ \A d \in Clients \ {c} : pc'[d] = pc[d] /\ dest'[d] = dest[d]
        BY <1>2, <1>3, <1>9 DEF IInv, TypeOK
    <1>11. TypeOK'
        <2>1. AnyKey \in Keys
            BY LimitsAssumption DEF AnyKey
        <2>2. /\ pc' \in [Clients -> {"out", "take", "held", "takeDest", "heldDest", "panicked"}]
              /\ dest' \in [Clients -> Keys]
            BY <1>2, <2>1 DEF IInv, TypeOK
        <2> QED
            BY <1>2, <1>9, <2>2 DEF IInv, TypeOK
    <1>12. Where(c)'
        BY <1>10 DEF Where, Working
    <1>13. ASSUME NEW l \in LimId PROVE Burst(l)' /\ Balanced(c, l)
        <2>1. l[3] \in Nat \ {0} /\ l[1] \in Scopes
            BY LimIdType
        <2>2. l[1] # "dest" => KeyOf(c, l[1])' = KeyOf(c, l[1])
            BY <2>1, KeyKept
        <2>3. Owns(c, l)' <=> Owns(c, l) /\ l \notin back
            BY <1>1, <1>2, <1>7, <1>10, <2>1, <2>2 DEF Owns, Working
        <2>4. (l \in Holds(c) <=> Owns(c, l)) /\ (l \in Holds(c)' <=> Owns(c, l)')
            BY <1>3, <1>12, HoldsIff, HoldsIffNext DEF OwnsIsHolds
        <2>5. Balanced(c, l)
            BY <1>7, <1>9, <2>3, <2>4 DEF Balanced
        <2>6. Burst(l)'
            BY <1>2, <1>9 DEF IInv, Burst
        <2> QED
            BY <2>5, <2>6
    <1>14. InBuckets(c)'
        <2>1. ASSUME NEW r \in Scopes, Entered(c, r)' PROVE Entered(c, r) /\ r # "dest"
            BY <1>1, <1>2, <1>10, <2>1 DEF Entered
        <2>2. ASSUME NEW r \in Scopes, Entered(c, r)' PROVE <<r, KeyOf(c, r)'>> \in buckets'
            <3>1. KeyOf(c, r)' = KeyOf(c, r)
                BY <2>1, <2>2, KeyKept
            <3> QED
                BY <1>2, <1>3, <2>1, <2>2, <3>1 DEF InBuckets
        <2> QED
            BY <2>2 DEF InBuckets
    <1>15. UsedInThePast'
        BY <1>2 DEF IInv, UsedInThePast
    <1> QED
        BY <1>2, <1>3, <1>10, <1>11, <1>12, <1>13, <1>14, <1>15, ClientStep

(* TakeDest enters the destination's bucket. *)
LEMMA TakeDestStep ==
    ASSUME IInv, NEW c \in Clients, NEW k \in Keys, TakeDest(c, k)
    PROVE  IInv'
    <1>0. "dest" \in Scopes
        BY DEF Scopes
    <1>1. /\ Configured("dest") /\ pc[c] = "held" /\ dest' = [dest EXCEPT ![c] = k]
          /\ EnterBucket("dest", k)
          /\ pc' = [pc EXCEPT ![c] = IF Full("dest") THEN "panicked" ELSE "takeDest"]
          /\ scope' = [scope EXCEPT ![c] = "dest"] /\ idx' = [idx EXCEPT ![c] = 1]
          /\ UNCHANGED <<fill, clock, intervals, msgs, taken>>
        BY DEF TakeDest, timeVars
    <1>2. /\ pc'[c] = IF Full("dest") THEN "panicked" ELSE "takeDest"
          /\ dest'[c] = k /\ scope'[c] = "dest" /\ idx'[c] = 1
          /\ \A d \in Clients \ {c} : /\ pc'[d] = pc[d] /\ scope'[d] = scope[d]
                                      /\ idx'[d] = idx[d] /\ dest'[d] = dest[d]
        BY <1>1 DEF IInv, TypeOK
    <1>3. /\ UNCHANGED chan /\ buckets \subseteq buckets' /\ buckets' \subseteq Scopes \X Keys
          /\ ~Full("dest") => <<"dest", k>> \in buckets'
          /\ lastUse' \in [Scopes \X Keys -> 0 .. MaxClock]
          /\ \A b \in Scopes \X Keys : lastUse'[b] <= clock
        BY <1>0, <1>1, EnterFacts
    <1>4. TypeOK'
        BY <1>0, <1>1, <1>3 DEF IInv, TypeOK
    <1>5. Where(c) /\ InBuckets(c)
        BY DEF IInv
    <1>6. Where(c)'
        BY <1>0, <1>1, <1>2, WrappedType DEF Where, Working
    <1>7. KeyOf(c, "dest")' = k /\ \A r \in Scopes \ {"dest"} : KeyOf(c, r)' = KeyOf(c, r)
        BY <1>2, KeyKept DEF KeyOf
    <1>8. ASSUME NEW l \in LimId PROVE Balanced(c, l)
        <2>1. l[3] \in Nat \ {0} /\ l[1] \in Scopes
            BY LimIdType
        <2>2. (l \in Holds(c) <=> Owns(c, l)) /\ (l \in Holds(c)' <=> Owns(c, l)')
            BY <1>5, <1>6, HoldsIff, HoldsIffNext DEF OwnsIsHolds
        <2>3. CASE Full("dest")
            <3>1. ~Owns(c, l)' /\ pc'[c] = "panicked"
                BY <1>2, <2>3 DEF Owns, Working
            <3> QED
                BY <1>3, <2>2, <3>1 DEF Balanced
        <2>4. CASE ~Full("dest")
            <3>1. Owns(c, l)' <=> Owns(c, l)
                BY <1>1, <1>2, <1>7, <2>1, <2>4 DEF Owns, Working
            <3> QED
                BY <1>3, <2>2, <3>1 DEF Balanced
        <2> QED
            BY <2>3, <2>4
    <1>9. ASSUME NEW r \in Scopes, Entered(c, r)' PROVE <<r, KeyOf(c, r)'>> \in buckets'
        <2>1. CASE r = "dest"
            BY <1>2, <1>3, <1>7, <1>9, <2>1 DEF Entered
        <2>2. CASE r # "dest"
            <3>1. Entered(c, r)
                BY <1>1, <1>2, <1>9, <2>2 DEF Entered
            <3> QED
                BY <1>3, <1>5, <1>7, <2>2, <3>1 DEF InBuckets
        <2> QED
            BY <2>1, <2>2
    <1>10. InBuckets(c)'
        BY <1>9 DEF InBuckets
    <1>11. UsedInThePast' /\ \A l \in LimId : Burst(l)'
        BY <1>1, <1>3 DEF IInv, UsedInThePast, Burst
    <1>12. pc[c] # "panicked"
        BY <1>1
    <1> QED
        BY <1>2, <1>3, <1>4, <1>6, <1>8, <1>10, <1>11, <1>12, ClientStep

(* One interval more is one burst more. *)
LEMMA BurstMore ==
    ASSUME NEW b \in Nat, NEW n \in Nat
    PROVE  b * (n + 1) \in Nat /\ b * ((n + 1) + 1) = b * (n + 1) + b /\ b <= b * (n + 1)
    OBVIOUS

(* A step that no client takes, and that leaves the semaphores alone.       *)
LEMMA QuietStep ==
    ASSUME IInv, TypeOK', UsedInThePast', \A l \in LimId : Burst(l)',
           UNCHANGED <<buckets, pc, scope, idx, dest>>,
           \A l \in LimId : IsSemaphore(l) => chan'[l] = chan[l]
    PROVE  IInv'
    <1>1. ASSUME NEW c \in Clients PROVE Where(c)' /\ InBuckets(c)'
        <2>1. Where(c)'
            BY DEF IInv, Where, Working
        <2>2. \A s \in Scopes : KeyOf(c, s)' = KeyOf(c, s)
            BY KeyKept
        <2>3. InBuckets(c)
            BY DEF IInv
        <2>4. InBuckets(c)'
            BY <2>2, <2>3 DEF InBuckets, Entered
        <2> QED
            BY <2>1, <2>4
    <1>2. ASSUME NEW l \in LimId PROVE Counted(l)'
        <2>1. \A c \in Clients : l \in Holds(c)' <=> l \in Holds(c)
            BY OthersHold DEF IInv
        <2>2. Holders(l)' = Holders(l)
            BY <2>1 DEF Holders
        <2>3. Counted(l)
            BY DEF IInv
        <2> QED
            BY <2>2, <2>3 DEF Counted
    <1> QED
        BY <1>1, <1>2 DEF IInv

(* The refill goroutines and the clock. *)
LEMMA TimeStep ==
    ASSUME IInv, Tick \/ Advance \/ \E l \in LimId : FillOne(l)
    PROVE  IInv'
    <1>0. \A l \in LimId : /\ chan[l] \in Nat /\ fill[l] \in Nat /\ taken[l] \in Nat
                           /\ Capacity(l) \in Nat /\ chan[l] <= Capacity(l)
        BY LimIdType DEF IInv, TypeOK
    <1>1. CASE Tick
        <2>1. /\ intervals' = intervals + 1 /\ intervals < MaxIntervals
              /\ fill' = [l \in LimId |-> IF IsSemaphore(l) THEN 0 ELSE Capacity(l)]
              /\ UNCHANGED <<chan, buckets, lastUse, clock, pc, scope, idx, dest, msgs, taken>>
            BY <1>1 DEF Tick, bucketVars, clientVars
        <2>2. intervals \in Nat /\ intervals' \in 0 .. MaxIntervals
            BY <2>1, LimitsAssumption DEF IInv, TypeOK
        <2>3. TypeOK'
            BY <1>0, <2>1, <2>2 DEF IInv, TypeOK
        <2>4. ASSUME NEW l \in LimId PROVE Burst(l)'
            <3>1. CASE IsSemaphore(l)
                BY <2>1, <3>1 DEF Burst
            <3>2. CASE ~IsSemaphore(l)
                <4>1. /\ taken[l] + chan[l] + fill[l] <= Capacity(l) * (intervals + 1)
                      /\ fill'[l] = Capacity(l) /\ taken'[l] = taken[l] /\ chan'[l] = chan[l]
                    BY <2>1, <3>2 DEF IInv, Burst
                <4>2. /\ Capacity(l) * (intervals + 1) \in Nat
                      /\ Capacity(l) * ((intervals + 1) + 1) = Capacity(l) * (intervals + 1) + Capacity(l)
                    BY <1>0, <2>2, BurstMore
                <4>3. taken[l] + chan[l] + Capacity(l) <= Capacity(l) * ((intervals + 1) + 1)
                    BY <1>0, <4>1, <4>2
                <4> QED
                    BY <2>1, <3>2, <4>1, <4>3 DEF Burst
            <3> QED
                BY <3>1, <3>2
        <2>5. UsedInThePast'
            BY <2>1 DEF IInv, UsedInThePast
        <2> QED
            BY <2>1, <2>3, <2>4, <2>5, QuietStep
    <1>2. CASE Advance
        <2>1. /\ clock < MaxClock /\ clock' = clock + 1
              /\ UNCHANGED <<chan, fill, buckets, lastUse, intervals, pc, scope, idx, dest, msgs, taken>>
            BY <1>2 DEF Advance, bucketVars, clientVars
        <2>2. TypeOK'
            BY <2>1, LimitsAssumption DEF IInv, TypeOK
        <2>3. UsedInThePast'
            <3>1. ASSUME NEW b \in Scopes \X Keys PROVE lastUse[b] <= clock + 1
                BY LimitsAssumption DEF IInv, TypeOK, UsedInThePast
            <3> QED
                BY <2>1, <3>1 DEF UsedInThePast
        <2>4. \A l \in LimId : Burst(l)'
            BY <2>1 DEF IInv, Burst
        <2> QED
            BY <2>1, <2>2, <2>3, <2>4, QuietStep
    <1>3. ASSUME NEW m \in LimId, FillOne(m) PROVE IInv'
        <2>1. /\ fill[m] > 0
              /\ \/ /\ chan[m] < Capacity(m) /\ chan' = [chan EXCEPT ![m] = @ + 1]
                    /\ fill' = [fill EXCEPT ![m] = @ - 1]
                 \/ chan[m] = Capacity(m) /\ fill' = [fill EXCEPT ![m] = 0] /\ UNCHANGED chan
              /\ UNCHANGED <<buckets, lastUse, clock, intervals, pc, scope, idx, dest, msgs, taken>>
            BY <1>3 DEF FillOne, bucketVars, timeVars, clientVars
        <2>2. ~IsSemaphore(m)
            BY <1>0, <2>1 DEF IInv, Burst
        <2>3. /\ chan' \in [LimId -> Nat] /\ fill' \in [LimId -> Nat]
              /\ chan'[m] <= Capacity(m) /\ chan'[m] + fill'[m] <= chan[m] + fill[m]
              /\ \A l \in LimId \ {m} : chan'[l] = chan[l] /\ fill'[l] = fill[l]
            BY <1>0, <2>1 DEF IInv, TypeOK
        <2>4. TypeOK'
            BY <2>1, <2>3 DEF IInv, TypeOK
        <2>5. ASSUME NEW l \in LimId PROVE Burst(l)'
            <3>1. CASE l # m
                BY <2>1, <2>3, <3>1 DEF IInv, Burst
            <3>2. CASE l = m
                <4>1. taken[m] + chan[m] + fill[m] <= Capacity(m) * (intervals + 1)
                    BY <2>2 DEF IInv, Burst
                <4>2. Capacity(m) * (intervals + 1) \in Nat
                    BY <1>0, LimitsAssumption, BurstMore DEF IInv, TypeOK
                <4>3. taken[m] + chan'[m] + fill'[m] <= Capacity(m) * (intervals + 1)
                    BY <1>0, <2>3, <4>1, <4>2
                <4> QED
                    BY <2>1, <2>2, <3>2, <4>3 DEF Burst
            <3> QED
                BY <3>1, <3>2
        <2>6. UsedInThePast'
            BY <2>1 DEF IInv, UsedInThePast
        <2>7. \A l \in LimId : IsSemaphore(l) => chan'[l] = chan[l]
            BY <2>2, <2>3
        <2> QED
            BY <2>1, <2>4, <2>5, <2>6, <2>7, QuietStep
    <1> QED
        BY <1>1, <1>2, <1>3

(* Nobody has taken anything. *)
LEMMA LimitsInit == Init => IInv
    <1> SUFFICES ASSUME Init PROVE IInv
        OBVIOUS
    <1>1. AnyKey \in Keys /\ "global" \in Scopes
        BY LimitsAssumption DEF AnyKey, Scopes
    <1>2. \A l \in LimId : Capacity(l) \in Nat
        BY LimIdType
    <1>3. TypeOK
        <2>1. /\ chan \in [LimId -> Nat] /\ \A l \in LimId : chan[l] <= Capacity(l)
              /\ fill \in [LimId -> Nat] /\ taken \in [LimId -> Nat]
            BY <1>2 DEF Init, Fresh
        <2> QED
            BY <1>1, <2>1, LimitsAssumption DEF Init, TypeOK
    <1>4. UsedInThePast
        BY DEF Init, UsedInThePast
    <1>5. ASSUME NEW c \in Clients PROVE Where(c) /\ InBuckets(c)
        BY DEF Init, Where, Working, InBuckets, Entered
    <1>6. ASSUME NEW l \in LimId PROVE Burst(l) /\ Counted(l)
        <2>1. Burst(l)
            <3>1. IsSemaphore(l) => fill[l] = 0
                BY DEF Init
            <3>2. ~IsSemaphore(l) => taken[l] + chan[l] + fill[l] <= Capacity(l) * (intervals + 1)
                <4>1. ~IsSemaphore(l) => taken[l] = 0 /\ chan[l] = Capacity(l) /\ fill[l] = 0
                    BY DEF Init, Fresh
                <4>2. intervals = 0 /\ Capacity(l) * (0 + 1) = Capacity(l)
                    BY <1>2 DEF Init
                <4> QED
                    BY <1>2, <4>1, <4>2
            <3> QED
                BY <3>1, <3>2 DEF Burst
        <2>2. Holders(l) = {}
            BY DEF Init, Holders, Holds
        <2>3. IsSemaphore(l) => chan[l] = 0
            BY DEF Init, Fresh
        <2> QED
            BY <2>1, <2>2, <2>3, FS_EmptySet DEF Counted
    <1> QED
        BY <1>3, <1>4, <1>5, <1>6 DEF IInv

(* Every take, time-out, release, refill and tick of the clock preserves    *)
(* the invariant.                                                           *)
LEMMA LimitsNext == IInv /\ [Next]_vars => IInv'
    <1> SUFFICES ASSUME IInv, [Next]_vars PROVE IInv'
        OBVIOUS
    <1>1. CASE UNCHANGED vars
        <2>1. UNCHANGED <<chan, fill, buckets, lastUse, clock, intervals, pc, scope, idx, dest, msgs, taken>>
            BY <1>1 DEF vars
        <2>2. TypeOK' /\ UsedInThePast' /\ \A l \in LimId : Burst(l)'
            BY <2>1 DEF IInv, TypeOK, UsedInThePast, Burst
        <2> QED
            BY <2>1, <2>2, QuietStep
    <1>2. ASSUME NEW c \in Clients,
                 \/ TakeMsg(c) \/ TakeOne(c) \/ ScopeTaken(c) \/ TakeFails(c) \/ ReleaseMsg(c)
                 \/ ReleaseDest(c) \/ \E d \in Keys : TakeDest(c, d)
          PROVE  IInv'
        BY <1>2, TakeMsgStep, TakeOneStep, ScopeTakenStep, TakeFailsStep, ReleaseStep, TakeDestStep
    <1>3. CASE Tick \/ Advance \/ \E l \in LimId : FillOne(l)
        BY <1>3, TimeStep
    <1> QED
        BY <1>1, <1>2, <1>3 DEF Next

(* With a sound configuration no call panics. *)
NoPanic == SoundConfig => \A c \in Clients : pc[c] # "panicked"

(* Every step keeps it so: no bucket set gets full, no release is           *)
(* mismatched, and a failing source limit finds the IP limit to undo.       *)
LEMMA NoPanicNext == IInv /\ NoPanic /\ [Next]_vars => NoPanic'
    <1> SUFFICES ASSUME IInv, NoPanic, [Next]_vars, SoundConfig, NEW c \in Clients
                 PROVE  pc'[c] # "panicked"
        BY DEF NoPanic
    <1>1. pc[c] # "panicked"
        BY DEF NoPanic
    <1>2. ASSUME NEW d \in Clients, pc' = [pc EXCEPT ![d] = pc'[d]], pc'[d] # "panicked"
          PROVE  pc'[c] # "panicked"
        BY <1>1, <1>2 DEF IInv, TypeOK
    <1>3. \A s \in {"ip", "source", "dest"} : ~Full(s)
        BY NeverFull DEF Scopes
    <1>4. ASSUME NEW d \in Clients, TakeMsg(d) PROVE pc'[c] # "panicked"
        BY <1>1, <1>4 DEF TakeMsg, IInv, TypeOK
    <1>5. ASSUME NEW d \in Clients, TakeOne(d) PROVE pc'[c] # "panicked"
        BY <1>1, <1>5 DEF TakeOne
    <1>6. ASSUME NEW d \in Clients, ScopeTaken(d) PROVE pc'[c] # "panicked"
        <2>1. Following(scope[d]) \in {"ip", "source", "done"}
            BY DEF Following
        <2>2. \/ pc' = [pc EXCEPT ![d] = IF pc[d] = "take" THEN "held" ELSE "heldDest"]
              \/ \E s \in {"ip", "source"} :
                    pc' = [pc EXCEPT ![d] = IF Full(s) THEN "panicked" ELSE "take"]
            BY <1>6, <2>1 DEF ScopeTaken
        <2> QED
            BY <1>1, <1>3, <2>2 DEF IInv, TypeOK
    <1>7. ASSUME NEW d \in Clients, TakeFails(d) PROVE pc'[c] # "panicked"
        <2>1. pc'[d] # "panicked"
            BY <1>7, TakeFailsStep DEF SoundConfig
        <2>2. \E x : pc' = [pc EXCEPT ![d] = x]
            BY <1>7 DEF TakeFails
        <2> QED
            BY <1>1, <2>1, <2>2 DEF IInv, TypeOK
    <1>8. ASSUME NEW d \in Clients, ReleaseMsg(d) \/ ReleaseDest(d) PROVE pc'[c] # "panicked"
        <2>1. pc'[d] # "panicked"
            BY <1>8, ReleaseStep
        <2>2. \E x : pc' = [pc EXCEPT ![d] = x]
            BY <1>8 DEF ReleaseMsg, ReleaseDest, Back
        <2> QED
            BY <1>1, <2>1, <2>2 DEF IInv, TypeOK
    <1>9. ASSUME NEW d \in Clients, NEW k \in Keys, TakeDest(d, k) PROVE pc'[c] # "panicked"
        BY <1>1, <1>3, <1>9 DEF TakeDest, IInv, TypeOK
    <1>10. ASSUME UNCHANGED pc PROVE pc'[c] # "panicked"
        BY <1>1, <1>10
    <1> QED
        BY <1>4, <1>5, <1>6, <1>7, <1>8, <1>9, <1>10
        DEF Next, vars, Tick, Advance, FillOne, clientVars

------------------------------------------------------------------------------
(* Theorems *)

(* The inductive invariant of internal/limits holds in every reachable      *)
(* state, for every configuration, the ones that panic included.            *)
THEOREM LimitsInvariant == Spec => []IInv
    BY LimitsInit, LimitsNext, PTL DEF Spec

(* The type invariant: no channel holds more than its capacity, and none    *)
(* less than nothing.                                                       *)
THEOREM LimitsTypeOK == Spec => []TypeOK
    <1>1. IInv => TypeOK
        BY DEF IInv
    <1> QED
        BY <1>1, LimitsInvariant, PTL

(* In n intervals a rate limiter lets at most n + 1 bursts through, however *)
(* many deliveries take from it, however the refill goroutine is delayed,   *)
(* and although buckets are made and looked up meanwhile.                   *)
THEOREM LimitsRateRespected == Spec => []RateRespected
    <1>1. IInv => RateRespected
        <2> SUFFICES ASSUME IInv, NEW l \in LimId, ~IsSemaphore(l)
                     PROVE  taken[l] <= Capacity(l) * (intervals + 1)
            BY DEF RateRespected
        <2>1. /\ taken[l] \in Nat /\ chan[l] \in Nat /\ fill[l] \in Nat
              /\ Capacity(l) \in Nat /\ intervals \in Nat
            <3>1. taken[l] \in Nat /\ chan[l] \in Nat /\ fill[l] \in Nat
                BY DEF IInv, TypeOK
            <3>2. intervals \in Nat
                BY LimitsAssumption DEF IInv, TypeOK
            <3> QED
                BY <3>1, <3>2, LimIdType
        <2>2. taken[l] + chan[l] + fill[l] <= Capacity(l) * (intervals + 1)
            BY DEF IInv, Burst
        <2> QED
            BY <2>1, <2>2, BurstMore
    <1> QED
        BY <1>1, LimitsInvariant, PTL

(* When a source limit comes with an IP limit and the bucket sets have room *)
(* for every key, the places taken of every semaphore are exactly those of  *)
(* the deliveries that hold it, and no call of TakeMsg, TakeDest,           *)
(* ReleaseMsg or ReleaseDest panics.                                        *)
THEOREM LimitsSemaphoresExact == Spec => [](SoundConfig => SemaphoresExact)
    <1>1. Init => NoPanic
        BY DEF Init, NoPanic
    <1>2. IInv /\ NoPanic => (SoundConfig => SemaphoresExact)
        BY DEF IInv, NoPanic, SemaphoresExact, Counted, Holders
    <1> QED
        BY <1>1, <1>2, NoPanicNext, LimitsInvariant, PTL DEF Spec

(* No Release is "mismatched" (concurrency.go:63), whatever is configured:  *)
(* not even after other calls panicked half-way.                            *)
THEOREM LimitsReleasesMatch ==
    Spec => [][\A c \in Clients : ReleaseMsg(c) \/ ReleaseDest(c) => pc'[c] # "panicked"]_vars
    <1>1. IInv => (\A c \in Clients : ReleaseMsg(c) \/ ReleaseDest(c) => pc'[c] # "panicked")
        BY ReleaseStep
    <1> QED
        BY <1>1, LimitsInvariant, PTL
==============================================================================
