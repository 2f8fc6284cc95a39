------------------------------- MODULE Limits --------------------------------
(***************************************************************************)
(* internal/limits: message flow limits.  A Group holds a global           *)
(* MultiLimit and bucket sets keyed by client IP, source domain and        *)
(* destination domain; a MultiLimit takes its limiters in order; a limiter *)
(* is a Semaphore (concurrency) or a Rate (token bucket).                  *)
(*                                                                         *)
(* The clients are deliveries: TakeMsg, any number of TakeDest/ReleaseDest *)
(* pairs, ReleaseMsg.  A limiter's channel is a number: the places taken   *)
(* of a semaphore, the tokens left in a rate limiter.                      *)
(***************************************************************************)
EXTENDS Integers, Sequences, FiniteSets

CONSTANTS
    Clients,            \* deliveries that run at the same time
    Keys,               \* IPs and domains
    IpOf, SourceOf,     \* [Clients -> Keys]: TakeMsg's arguments
    GlobalL, IpL,       \* configured limiters: sequences of [kind, max] records
    SourceL, DestL,
    MaxBuckets,         \* BucketSet.MaxBuckets
    ReapInterval,       \* BucketSet.ReapInterval
    MaxClock,           \* bound: the clock stays in 0..MaxClock
    MaxIntervals,       \* bound: refill intervals that pass
    MaxMsgs             \* bound: TakeMsg calls of one client

Limiter == [kind : {"semaphore", "rate"}, max : Nat]

ASSUME LimitsAssumption ==
    /\ IsFiniteSet(Clients) /\ IsFiniteSet(Keys) /\ Keys # {}
    /\ IpOf \in [Clients -> Keys] /\ SourceOf \in [Clients -> Keys]
    /\ GlobalL \in Seq(Limiter) /\ IpL \in Seq(Limiter)
    /\ SourceL \in Seq(Limiter) /\ DestL \in Seq(Limiter)
    /\ MaxBuckets \in Nat /\ ReapInterval \in Nat /\ MaxClock \in Nat
    /\ MaxIntervals \in Nat /\ MaxMsgs \in Nat

VARIABLES
    chan,       \* contents of every limiter's channel
    fill,       \* tokens each rate limiter's fill goroutine may still send
    buckets,    \* keys present in each bucket set, as pairs of scope and key
    lastUse,    \* lastUse of each bucket
    clock,      \* time.Now() as BucketSet sees it, in multiples of its reap interval
    intervals,  \* refill intervals that have passed
    pc,         \* where each client is
    scope,      \* the limit its Take call is working on
    idx,        \* the next limiter of it
    dest,       \* destination of its TakeDest call
    msgs,       \* number of its TakeMsg calls
    taken       \* history: successful receives from each rate limiter

vars == <<chan, fill, buckets, lastUse, clock, intervals, pc, scope, idx, dest, msgs, taken>>
timeVars == <<clock, intervals>>
bucketVars == <<buckets, lastUse>>
clientVars == <<pc, scope, idx, dest, msgs>>

Scopes == {"global", "ip", "source", "dest"}

(* The limiters New builds for a bucket.  The constructor of the dest set   *)
(* goes over sourceL (limits.go:121-122).                                   *)
Wrapped(s) ==
    CASE s = "global" -> GlobalL
      [] s = "ip" -> IpL
      [] s = "source" -> SourceL
      [] s = "dest" -> SourceL

(* Which of the group's fields are set. *)
Configured(s) ==
    CASE s = "global" -> TRUE
      [] s = "ip" -> IpL # <<>>
      [] s = "source" -> SourceL # <<>>
      [] s = "dest" -> DestL # <<>>

LimId == UNION {{s} \X Keys \X (1 .. Len(Wrapped(s))) : s \in Scopes}
LimiterOf(l) == Wrapped(l[1])[l[3]]
IsSemaphore(l) == LimiterOf(l).kind = "semaphore"
Capacity(l) == LimiterOf(l).max

(* A new semaphore has no place taken, a new rate limiter is full. *)
Fresh(l) == IF IsSemaphore(l) THEN 0 ELSE Capacity(l)

AnyKey == CHOOSE k \in Keys : TRUE

(* The key a client uses in a scope; the global limit is one MultiLimit. *)
KeyOf(c, s) ==
    CASE s = "global" -> AnyKey
      [] s = "ip" -> IpOf[c]
      [] s = "source" -> SourceOf[c]
      [] s = "dest" -> dest[c]

TypeOK ==
    /\ chan \in [LimId -> Nat]
    /\ \A l \in LimId : chan[l] <= Capacity(l)
    /\ fill \in [LimId -> Nat]
    /\ buckets \subseteq Scopes \X Keys
    /\ lastUse \in [Scopes \X Keys -> 0 .. MaxClock]
    /\ clock \in 0 .. MaxClock
    /\ intervals \in 0 .. MaxIntervals
    /\ pc \in [Clients -> {"out", "take", "held", "takeDest", "heldDest", "panicked"}]
    /\ scope \in [Clients -> Scopes]
    /\ idx \in [Clients -> Nat \ {0}]
    /\ dest \in [Clients -> Keys]
    /\ msgs \in [Clients -> 0 .. MaxMsgs]
    /\ taken \in [LimId -> Nat]

Init ==
    /\ chan = [l \in LimId |-> Fresh(l)]
    /\ fill = [l \in LimId |-> 0]
    /\ buckets = {}
    /\ lastUse = [b \in Scopes \X Keys |-> 0]
    /\ clock = 0
    /\ intervals = 0
    /\ pc = [c \in Clients |-> "out"]
    /\ scope = [c \in Clients |-> "global"]
    /\ idx = [c \in Clients |-> 1]
    /\ dest = [c \in Clients |-> AnyKey]
    /\ msgs = [c \in Clients |-> 0]
    /\ taken = [l \in LimId |-> 0]

------------------------------------------------------------------------------
(* BucketSet *)

Keyset(s) == {b \in buckets : b[1] = s}

(* BucketSet.take counts a bucket as stale when lastUse.Sub(now) exceeds    *)
(* the reap interval (bucket.go:89).                                        *)
Stale(b) == lastUse[b] - clock > ReapInterval

Reaped(s) ==
    IF Cardinality(Keyset(s)) > MaxBuckets THEN {b \in Keyset(s) : Stale(b)} ELSE {}

Full(s) == Cardinality(Keyset(s) \ Reaped(s)) > MaxBuckets

(* The bucket is looked up or made, and its last use is now.  A full set    *)
(* yields a nil limiter, and the call on it panics.                         *)
EnterBucket(s, k) ==
    /\ buckets' = (buckets \ Reaped(s)) \cup (IF Full(s) THEN {} ELSE {<<s, k>>})
    /\ lastUse' = IF Full(s) THEN lastUse ELSE [lastUse EXCEPT ![<<s, k>>] = clock]
    /\ chan' = [l \in LimId |-> IF <<l[1], l[2]>> \in Reaped(s) THEN Fresh(l) ELSE chan[l]]

------------------------------------------------------------------------------
(* Group.TakeMsg *)

TakeMsg(c) ==
    /\ pc[c] = "out"
    /\ msgs[c] < MaxMsgs
    /\ msgs' = [msgs EXCEPT ![c] = @ + 1]
    /\ pc' = [pc EXCEPT ![c] = "take"]
    /\ UNCHANGED <<chan, fill, bucketVars, timeVars, scope, idx, dest, taken>>

Working(c) == pc[c] \in {"take", "takeDest"}
Current(c) == <<scope[c], KeyOf(c, scope[c]), idx[c]>>

(* TakeContext of one limiter: a send to the semaphore's channel, a receive *)
(* from the rate limiter's; with capacity zero it is a no-op.               *)
TakeOne(c) ==
    /\ Working(c)
    /\ idx[c] <= Len(Wrapped(scope[c]))
    /\ LET l == Current(c) IN
       \/ /\ Capacity(l) = 0
          /\ UNCHANGED <<chan, taken>>
       \/ /\ Capacity(l) > 0 /\ IsSemaphore(l) /\ chan[l] < Capacity(l)
          /\ chan' = [chan EXCEPT ![l] = @ + 1]
          /\ UNCHANGED taken
       \/ /\ Capacity(l) > 0 /\ ~IsSemaphore(l) /\ chan[l] > 0
          /\ chan' = [chan EXCEPT ![l] = @ - 1]
          /\ taken' = [taken EXCEPT ![l] = @ + 1]
    /\ idx' = [idx EXCEPT ![c] = @ + 1]
    /\ UNCHANGED <<fill, bucketVars, timeVars, pc, scope, dest, msgs>>

Following(s) ==
    IF s = "global" /\ Configured("ip") THEN "ip"
    ELSE IF s \in {"global", "ip"} /\ Configured("source") THEN "source"
    ELSE "done"

(* Locals that nobody reads after a Take call get their first value again.  *)
Return(c) ==
    /\ scope' = [scope EXCEPT ![c] = "global"]
    /\ idx' = [idx EXCEPT ![c] = 1]

(* All limiters of a scope are taken: on to the next one, or the call       *)
(* returns nil.                                                             *)
ScopeTaken(c) ==
    /\ Working(c)
    /\ idx[c] > Len(Wrapped(scope[c]))
    /\ LET s == IF pc[c] = "take" THEN Following(scope[c]) ELSE "done" IN
       \/ /\ s = "done"
          /\ pc' = [pc EXCEPT ![c] = IF pc[c] = "take" THEN "held" ELSE "heldDest"]
          /\ Return(c)
          /\ UNCHANGED <<chan, bucketVars>>
       \/ /\ s # "done"
          /\ EnterBucket(s, KeyOf(c, s))
          /\ pc' = [pc EXCEPT ![c] = IF Full(s) THEN "panicked" ELSE "take"]
          /\ scope' = [scope EXCEPT ![c] = s]
          /\ idx' = [idx EXCEPT ![c] = 1]
    /\ UNCHANGED <<fill, timeVars, dest, msgs, taken>>

------------------------------------------------------------------------------
(* Release: every semaphore of the listed buckets loses one place. *)

Given(L) == [l \in LimId |-> IF l \in L /\ IsSemaphore(l) /\ Capacity(l) > 0
                             THEN chan[l] - 1 ELSE chan[l]]

(* "limiters: mismatched Release call" (concurrency.go:63). *)
Mismatched(L) == \E l \in L : IsSemaphore(l) /\ Capacity(l) > 0 /\ chan[l] = 0

AllOf(c, s) == {l \in LimId : l[1] = s /\ l[2] = KeyOf(c, s)}

(* MultiLimit.TakeContext gives back the limiters it got before the one     *)
(* that failed.                                                             *)
TakenInScope(c) == {l \in AllOf(c, scope[c]) : l[3] < idx[c]}

(* Seeded fault: a failing source limit gives back the global limit only. *)
UndoneGlobalOnly(c) == IF scope[c] = "global" \/ pc[c] = "takeDest" THEN {} ELSE AllOf(c, "global")

(* TakeMsg then gives back the scopes before this one.                      *)
Undone(c) ==
    CASE scope[c] = "ip" -> AllOf(c, "global")
      [] scope[c] = "source" -> AllOf(c, "global") \cup AllOf(c, "ip")
      [] OTHER -> {}

(* The context ends, after five seconds or with the connection: the select  *)
(* may see it even when the limiter is available.  With a source limit and  *)
(* no IP limit, g.ip is nil in the clean-up (limits.go:191) and the call    *)
(* panics after the global limit was released.                              *)
TakeFails(c) ==
    /\ Working(c)
    /\ idx[c] <= Len(Wrapped(scope[c]))
    /\ Capacity(Current(c)) > 0
    /\ LET back == TakenInScope(c) \cup Undone(c) IN
       /\ chan' = Given(back)
       /\ pc' = [pc EXCEPT ![c] =
             IF Mismatched(back) \/ (scope[c] = "source" /\ ~Configured("ip")) THEN "panicked"
             ELSE IF pc[c] = "take" THEN "out" ELSE "held"]
    /\ Return(c)
    /\ UNCHANGED <<fill, bucketVars, timeVars, dest, msgs, taken>>

(* A bucket that is not in the set any more is skipped. *)
ReleaseSet(c, S) ==
    UNION {AllOf(c, s) : s \in {t \in S : t = "global" \/ <<t, KeyOf(c, t)>> \in buckets}}

Back(c, from, to, S) ==
    /\ pc[c] = from
    /\ chan' = Given(ReleaseSet(c, S))
    /\ pc' = [pc EXCEPT ![c] = IF Mismatched(ReleaseSet(c, S)) THEN "panicked" ELSE to]
    /\ dest' = [dest EXCEPT ![c] = AnyKey]
    /\ UNCHANGED <<fill, bucketVars, timeVars, scope, idx, msgs, taken>>

ReleaseMsg(c) == Back(c, "held", "out", {s \in {"global", "ip", "source"} : Configured(s)})

(* TakeDest and ReleaseDest do nothing without a destination limit. *)
TakeDest(c, d) ==
    /\ Configured("dest")
    /\ pc[c] = "held"
    /\ dest' = [dest EXCEPT ![c] = d]
    /\ EnterBucket("dest", d)
    /\ pc' = [pc EXCEPT ![c] = IF Full("dest") THEN "panicked" ELSE "takeDest"]
    /\ scope' = [scope EXCEPT ![c] = "dest"]
    /\ idx' = [idx EXCEPT ![c] = 1]
    /\ UNCHANGED <<fill, timeVars, msgs, taken>>

ReleaseDest(c) == Back(c, "heldDest", "held", {"dest"})

------------------------------------------------------------------------------
(* Rate.fill: after every interval up to burstSize tokens, without blocking *)
(* once the bucket is full.                                                 *)

(* Seeded fault: an interval brings one token more than the burst. *)
TickGenerous ==
    /\ intervals < MaxIntervals
    /\ intervals' = intervals + 1
    /\ fill' = [l \in LimId |-> IF IsSemaphore(l) THEN 0 ELSE Capacity(l) + 1]
    /\ UNCHANGED <<chan, bucketVars, clock, clientVars, taken>>

Tick ==
    /\ intervals < MaxIntervals
    /\ intervals' = intervals + 1
    /\ fill' = [l \in LimId |-> IF IsSemaphore(l) THEN 0 ELSE Capacity(l)]
    /\ UNCHANGED <<chan, bucketVars, clock, clientVars, taken>>

FillOne(l) ==
    /\ fill[l] > 0
    /\ \/ /\ chan[l] < Capacity(l)
          /\ chan' = [chan EXCEPT ![l] = @ + 1]
          /\ fill' = [fill EXCEPT ![l] = @ - 1]
       \/ /\ chan[l] = Capacity(l)
          /\ fill' = [fill EXCEPT ![l] = 0]
          /\ UNCHANGED chan
    /\ UNCHANGED <<bucketVars, timeVars, clientVars, taken>>

Advance ==
    /\ clock < MaxClock
    /\ clock' = clock + 1
    /\ UNCHANGED <<chan, fill, bucketVars, intervals, clientVars, taken>>

Next ==
    \/ \E c \in Clients :
          \/ TakeMsg(c) \/ TakeOne(c) \/ ScopeTaken(c) \/ TakeFails(c) \/ ReleaseMsg(c)
          \/ ReleaseDest(c) \/ \E d \in Keys : TakeDest(c, d)
    \/ Tick \/ Advance
    \/ \E l \in LimId : FillOne(l)

Spec == Init /\ [][Next]_vars

------------------------------------------------------------------------------
(* Properties *)

MsgLimits(c) == UNION {AllOf(c, s) : s \in {t \in {"global", "ip", "source"} : Configured(t)}}

(* The limiters a client has taken and not given back. *)
Holds(c) ==
    CASE pc[c] = "take" -> TakenInScope(c) \cup
            (IF scope[c] = "global" THEN {}
             ELSE IF scope[c] = "ip" THEN AllOf(c, "global")
             ELSE MsgLimits(c) \ AllOf(c, "source"))
      [] pc[c] = "held" -> MsgLimits(c)
      [] pc[c] = "takeDest" -> MsgLimits(c) \cup TakenInScope(c)
      [] pc[c] = "heldDest" -> MsgLimits(c) \cup AllOf(c, "dest")
      [] OTHER -> {}

(* Conservation: the places taken of every semaphore are exactly those of   *)
(* the deliveries that hold it, also when calls time out half-way through a *)
(* MultiLimit or a Group: nothing leaks, nothing is released twice, and no  *)
(* more deliveries than configured are admitted.  So no sequence of takes,  *)
(* time-outs and releases ends in the "mismatched Release call" panic, when *)
(* the IP scope is configured and the bucket sets are large enough.         *)
SemaphoresExact ==
    /\ \A l \in LimId : IsSemaphore(l) /\ Capacity(l) > 0 =>
          chan[l] = Cardinality({c \in Clients : l \in Holds(c)})
    /\ \A c \in Clients : pc[c] # "panicked"

(* In n intervals a rate limiter lets at most n + 1 bursts through.         *)
RateRespected ==
    \A l \in LimId : ~IsSemaphore(l) => taken[l] <= Capacity(l) * (intervals + 1)

(* "If it is not possible to do so (all buckets are in active use), Take    *)
(* will return false" (bucket.go:33-34): a full bucket set refuses.         *)
FullBucketSetRefuses ==
    \A c \in Clients : pc[c] = "panicked" => scope[c] = "global" \/ ~Full(scope[c])

(* limits.go:19-21 promises limits "globally or on per-source,              *)
(* per-destination basis": a source limit works without an IP limit, and a  *)
(* call that gets no place in time returns an error.                        *)
SourceLimitWorksAlone ==
    ~Configured("ip") => \A c \in Clients : pc[c] # "panicked"

(* limits.go:19-21: the module restricts "the concurrency and rate of the   *)
(* messages flow globally or on per-source, per-destination basis"; the     *)
(* deliveries to one destination stay within its concurrency limits.        *)
DestinationLimited ==
    \A d \in Keys, i \in 1 .. Len(DestL) : DestL[i].kind = "semaphore" =>
        Cardinality({c \in Clients : pc[c] = "heldDest" /\ dest[c] = d}) <= DestL[i].max
==============================================================================
