-------------------------- MODULE MsgPipelineProofs --------------------------
(***************************************************************************)
(* Proofs about a message in the pipeline: nothing reaches a target        *)
(* unchecked, a check that joins late catches up, and a delivery is        *)
(* committed only when all targets have the body.  Then, about what the    *)
(* checks say (Checks): no verdict is lost, what SPF defers is decided and *)
(* the scores of concurrent lookups add up.                                *)
(***************************************************************************)
EXTENDS MsgPipeline, Checks, FiniteSetTheorems, WellFoundedInduction, TLAPS

------------------------------------------------------------------------------
(* Types of what the properties depend on *)

AddrArgs == Addrs \cup {AnyAddr}

CheckJobs == [op : {"check"}, cs : GroupsOf(Checks), kind : {"sender", "rcpt", "body"}, addr : AddrArgs]
ModJobs == [op : {"mod"}, scope : Scopes, kind : {"open", "rcpt", "body"}]
PlainJobs == [op : {"source", "apply"}]
RoutingJobs == [op : {"route"}, addr : Addrs]
FanningJobs == [op : {"fan"}, addr : Addrs, to : Addrs]
GivingJobs == [op : {"give"}, addr : Addrs, to : Addrs, tgt : Targets]
BodyJobs == [op : {"body"}, tgt : Targets]
Jobs == CheckJobs \cup ModJobs \cup PlainJobs \cup RoutingJobs \cup FanningJobs \cup GivingJobs \cup BodyJobs

Calls == [name : {"Start", "AddRcpt", "Body", "BodyNonAtomic"}, rcpt : AddrArgs, failed : BOOLEAN]

Kinds ==
    /\ setup \in Setups
    /\ phase \in {"new", "starting", "rcpts", "bodied", "bodyFailed", "over"}
    /\ rcptCalls \in 0 .. MaxRcptCalls
    /\ call = Idle \/ call \in Calls
    /\ todo \in Seq(Jobs)
    /\ states \in [Checks -> Nat] /\ made \in [Checks -> Nat]
    /\ mods \subseteq Scopes
    /\ \A g \in given : g.addr \in Addrs
    /\ started \subseteq Targets /\ bodied \subseteq Targets
    /\ ended \in [Targets -> {"no", "committed", "commitFailed", "aborted"}]

------------------------------------------------------------------------------
(* The inductive invariant *)

InCall == call # Idle

(* The kinds of jobs a call consists of. *)
Ops(name) ==
    IF name = "Start" THEN {"check", "mod", "source"}
    ELSE IF name = "AddRcpt" THEN {"check", "mod", "route", "fan", "give"}
    ELSE {"check", "mod", "apply", "body"}

(* Jobs are those of the call in progress, and a call has its phase. *)
CallOK ==
    /\ ~InCall => todo = <<>> /\ phase # "starting"
    /\ InCall =>
        /\ phase = IF call.name = "Start" THEN "starting" ELSE "rcpts"
        /\ call.failed => todo = <<>>
        /\ call.name = "Body" => ~setup.partial
        /\ call.name = "BodyNonAtomic" => setup.partial
        /\ \A i \in 1 .. Len(todo) : todo[i].op \in Ops(call.name)

(* Calls that have come to an end: each may have made one state object of a *)
(* check that was dropped again.                                            *)
InBody == InCall /\ call.name \in {"Body", "BodyNonAtomic"}
Begun ==
    IF phase = "new" THEN 0
    ELSE 1 + rcptCalls + (IF phase \in {"bodied", "bodyFailed"} \/ InBody THEN 1 ELSE 0)
Past == IF InCall /\ ~call.failed THEN Begun - 1 ELSE Begun

MadeOK ==
    \A c \in Checks :
        /\ states[c] <= made[c] /\ made[c] <= MaxStates
        /\ phase # "over" /\ states[c] = 0 => made[c] <= Past

(* The checks cs were shown the address, or will be before job i. *)
ShownAll(cs, addr) == \A c \in Elems(cs) : addr \in SeenBy(c)
Covered(i, cs, addr) ==
    ShownAll(cs, addr) \/ \E j \in 1 .. i - 1 : todo[j] = CheckJob(cs, "rcpt", addr)

OrderAt(i) ==
    /\ todo[i].op \in {"route", "fan", "give"} =>
        Covered(i, setup.global, call.rcpt) /\ Covered(i, setup.source, call.rcpt)
    /\ todo[i].op \in {"fan", "give"} =>
        Covered(i, setup.block[BlockOf[todo[i].addr]], todo[i].addr)

OrderOK == \A i \in 1 .. Len(todo) : OrderAt(i)

(* Body goes over all deliveries, and ends when one fails. *)
ToGet(t) == \E i \in 1 .. Len(todo) : todo[i].op = "body" /\ todo[i].tgt = t
BodyOK ==
    /\ InCall /\ call.name = "Body" /\ ~call.failed => \A t \in started : t \in bodied \/ ToGet(t)
    /\ \A i \in 1 .. Len(todo) : todo[i].op = "body" => todo[i].tgt \in started
    /\ bodied \subseteq started
    /\ phase = "bodied" /\ ~setup.partial => bodied = started
    /\ phase # "over" => \A t \in Targets : ended[t] = "no"

IInv ==
    /\ Kinds /\ CallOK /\ MadeOK /\ OrderOK /\ BodyOK
    /\ CheckedBeforeTarget /\ ReplayComplete /\ CommitNeedsAllBodies

------------------------------------------------------------------------------
(* Lists *)

(* A non-empty list is its head and its tail. *)
LEMMA ListTail ==
    ASSUME NEW S, NEW s \in Seq(S), s # <<>>
    PROVE  /\ Len(s) \in Nat /\ Len(s) >= 1 /\ Head(s) = s[1] /\ Head(s) \in S
           /\ Tail(s) \in Seq(S) /\ Len(Tail(s)) = Len(s) - 1
           /\ \A i \in 1 .. Len(s) - 1 : Tail(s)[i] = s[i + 1]
    OBVIOUS

(* The elements of two lists put together. *)
LEMMA ListConcat ==
    ASSUME NEW S, NEW s \in Seq(S), NEW t \in Seq(S)
    PROVE  /\ s \o t \in Seq(S) /\ Len(s) \in Nat /\ Len(t) \in Nat
           /\ Len(s \o t) = Len(s) + Len(t)
           /\ \A i \in 1 .. Len(s) : (s \o t)[i] = s[i]
           /\ \A i \in 1 .. Len(t) : (s \o t)[Len(s) + i] = t[i]
    OBVIOUS

(* A bounded sequence is a sequence. *)
LEMMA SeqOfIsSeq ==
    ASSUME NEW S, NEW s \in SeqOf(S)
    PROVE  s \in Seq(S) /\ DOMAIN s = 1 .. Len(s) /\ Len(s) \in Nat
    <1>1. PICK n \in 0 .. Cardinality(S) : s \in [1 .. n -> S]
        BY DEF SeqOf
    <1>2. n \in Nat
        OBVIOUS
    <1> QED
        BY <1>1, <1>2

(* The checks of the groups of a pipeline are checks. *)
LEMMA GroupElems ==
    ASSUME NEW cs \in GroupsOf(Checks)
    PROVE  Elems(cs) \subseteq Checks
    BY SeqOfIsSeq DEF GroupsOf, Elems

(* The groups of the setup. *)
LEMMA SetupGroups ==
    ASSUME Kinds
    PROVE  /\ setup.global \in GroupsOf(Checks) /\ setup.source \in GroupsOf(Checks)
           /\ \A b \in Blocks : setup.block[b] \in GroupsOf(Checks)
           /\ \A a \in Addrs : BlockOf[a] \in Blocks
           /\ Elems(setup.global) \subseteq Checks /\ Elems(setup.source) \subseteq Checks
           /\ \A a \in Addrs : Elems(setup.block[BlockOf[a]]) \subseteq Checks
    BY PipelineAssumption, GroupElems DEF Kinds

(* The fields of a job, by its kind. *)
LEMMA JobFields ==
    ASSUME NEW j \in Jobs
    PROVE  /\ j.op = "check" => j \in CheckJobs
           /\ j.op = "route" => j \in RoutingJobs
           /\ j.op = "fan" => j \in FanningJobs
           /\ j.op = "give" => j \in GivingJobs
           /\ j.op = "body" => j \in BodyJobs
           /\ j.op = "mod" => j \in ModJobs
    <1>1. CASE j \in CheckJobs
        <2>1. j.op = "check"
            BY <1>1 DEF CheckJobs
        <2> QED
            BY <1>1, <2>1
    <1>2. CASE j \in ModJobs
        <2>1. j.op = "mod"
            BY <1>2 DEF ModJobs
        <2> QED
            BY <1>2, <2>1
    <1>3. CASE j \in PlainJobs
        <2>1. j.op \in {"source", "apply"}
            BY <1>3 DEF PlainJobs
        <2> QED
            BY <1>3, <2>1
    <1>4. CASE j \in RoutingJobs
        <2>1. j.op = "route"
            BY <1>4 DEF RoutingJobs
        <2> QED
            BY <1>4, <2>1
    <1>5. CASE j \in FanningJobs
        <2>1. j.op = "fan"
            BY <1>5 DEF FanningJobs
        <2> QED
            BY <1>5, <2>1
    <1>6. CASE j \in GivingJobs
        <2>1. j.op = "give"
            BY <1>6 DEF GivingJobs
        <2> QED
            BY <1>6, <2>1
    <1>7. CASE j \in BodyJobs
        <2>1. j.op = "body"
            BY <1>7 DEF BodyJobs
        <2> QED
            BY <1>7, <2>1
    <1> QED
        BY <1>1, <1>2, <1>3, <1>4, <1>5, <1>6, <1>7 DEF Jobs

(* An enumeration without repetitions reaches every member. *)
LEMMA OrdersReachAll ==
    ASSUME NEW S, IsFiniteSet(S), NEW s \in Orders(S)
    PROVE  /\ s \in Seq(S) /\ DOMAIN s = 1 .. Len(s)
           /\ \A x \in S : \E i \in 1 .. Len(s) : s[i] = x
    <1>1. Cardinality(S) \in Nat
        BY FS_CardinalityType
    <1>2. s \in [1 .. Cardinality(S) -> S] /\ Len(s) = Cardinality(S)
        BY <1>1 DEF Orders
    <1>3. s \in Injection(1 .. Cardinality(S), S)
        BY <1>2 DEF Orders, Distinct, Injection, IsInjective
    <1>4. Cardinality(1 .. Cardinality(S)) = Cardinality(S)
        BY <1>1, FS_Interval
    <1>5. s \in Surjection(1 .. Cardinality(S), S)
        BY <1>3, <1>4, FS_Injection
    <1>6. \A x \in S : \E i \in 1 .. Cardinality(S) : s[i] = x
        BY <1>5 DEF Surjection
    <1> QED
        BY <1>1, <1>2, <1>6

------------------------------------------------------------------------------
(* The check runner *)

(* What a step of the check runner keeps: at most n state objects were made *)
(* for a check that has none, and nothing a check was shown is forgotten.   *)
RunnerKeeps(n) ==
    /\ states' \in [Checks -> Nat] /\ made' \in [Checks -> Nat]
    /\ \A c \in Checks : states'[c] <= made'[c] /\ made'[c] <= MaxStates
    /\ \A c \in Checks : states'[c] = 0 => made'[c] <= n
    /\ \A c \in Checks : SeenBy(c) \subseteq SeenBy(c)'
    /\ ReplayComplete'

(* The number of calls begun, while a call is in progress. *)
LEMMA BegunInCall ==
    ASSUME IInv, InCall
    PROVE  /\ phase \in {"starting", "rcpts"} /\ call \in Calls
           /\ Begun \in Nat /\ Begun >= 1 /\ Begun <= MaxStates
           /\ ~call.failed => Past = Begun - 1
           /\ call.failed => Past = Begun
    <1>1. phase \in {"starting", "rcpts"} /\ call \in Calls
        BY DEF IInv, CallOK, Kinds, InCall
    <1>2. rcptCalls \in Nat /\ rcptCalls <= MaxRcptCalls /\ MaxRcptCalls \in Nat
        BY PipelineAssumption DEF IInv, Kinds
    <1>3. call.failed \in BOOLEAN
        BY <1>1 DEF Calls
    <1>4. Begun \in Nat /\ Begun >= 1 /\ Begun <= MaxStates
        BY <1>1, <1>2 DEF Begun, MaxStates
    <1> QED
        BY <1>1, <1>3, <1>4 DEF Past

(* A job belongs to a call in progress. *)
LEMMA JobInCall ==
    ASSUME IInv, todo # <<>>
    PROVE  InCall /\ call \in Calls /\ ~call.failed
    BY DEF IInv, CallOK, Kinds, InCall

(* A step that leaves the check runner alone. *)
LEMMA RunnerIdle ==
    ASSUME IInv, states' = states, made' = made, seen' = seen, before' = before,
           phase # "over"
    PROVE  RunnerKeeps(Past)
    <1>1. states' \in [Checks -> Nat] /\ made' \in [Checks -> Nat]
        BY DEF IInv, Kinds
    <1>2. \A c \in Checks : states'[c] <= made'[c] /\ made'[c] <= MaxStates
        BY DEF IInv, MadeOK
    <1>3. \A c \in Checks : states'[c] = 0 => made'[c] <= Past
        BY DEF IInv, MadeOK
    <1>4. \A c \in Checks : SeenBy(c) \subseteq SeenBy(c)'
        BY DEF SeenBy
    <1>5. ReplayComplete'
        BY DEF IInv, ReplayComplete
    <1> QED
        BY <1>1, <1>2, <1>3, <1>4, <1>5 DEF RunnerKeeps

(* The objects of a group that is run are numbered within the bound. *)
LEMMA ObjBound ==
    ASSUME IInv, todo # <<>>, NEW c \in Checks
    PROVE  /\ states[c] \in Nat /\ made[c] \in Nat /\ states[c] <= made[c] /\ made[c] <= MaxStates
           /\ MaxStates \in Nat /\ Begun \in Nat
           /\ IsNew(c) => made[c] <= Begun - 1 /\ Begun <= MaxStates
           /\ Obj(c) \in Objects /\ Obj(c)[2] \in 1 .. MaxStates /\ Obj(c)[1] = c
           /\ IsNew(c) => Obj(c) = <<c, made[c] + 1>>
           /\ ~IsNew(c) => Obj(c) = <<c, states[c]>>
    <1>1. InCall /\ ~call.failed
        BY JobInCall
    <1>2. /\ Begun \in Nat /\ Begun >= 1 /\ Begun <= MaxStates /\ Past = Begun - 1
          /\ phase # "over"
        BY <1>1, BegunInCall
    <1>3. states[c] \in Nat /\ made[c] \in Nat
        BY DEF IInv, Kinds
    <1>4. states[c] <= made[c] /\ made[c] <= MaxStates /\ (IsNew(c) => made[c] <= Begun - 1)
        BY <1>2 DEF IInv, MadeOK, IsNew
    <1>5. MaxStates \in Nat
        BY PipelineAssumption DEF MaxStates
    <1>6. /\ IsNew(c) => Obj(c) = <<c, made[c] + 1>>
          /\ ~IsNew(c) => Obj(c) = <<c, states[c]>>
        BY DEF Obj
    <1>7. Obj(c) \in Objects /\ Obj(c)[2] \in 1 .. MaxStates /\ Obj(c)[1] = c
        BY <1>2, <1>3, <1>4, <1>5, <1>6 DEF IsNew, Objects
    <1> QED
        BY <1>2, <1>3, <1>4, <1>5, <1>6, <1>7

(* What new state objects record. *)
LEMMA StatesMade ==
    ASSUME IInv, todo # <<>>, NEW S \in SUBSET Checks, MakeStates(S), NEW c \in Checks
    PROVE  /\ made' \in [Checks -> Nat]
           /\ made'[c] = IF c \in S /\ IsNew(c) THEN made[c] + 1 ELSE made[c]
           /\ c \in S /\ IsNew(c) => before'[Obj(c)] = Elems(checkedRcpts)
           /\ \A n \in 1 .. MaxStates : ~(c \in S /\ IsNew(c)) => before'[<<c, n>>] = before[<<c, n>>]
    <1>1. made \in [Checks -> Nat]
        BY DEF IInv, Kinds
    <1>2. made' \in [Checks -> Nat] /\ made'[c] = IF c \in S /\ IsNew(c) THEN made[c] + 1 ELSE made[c]
        BY <1>1 DEF MakeStates, NewIn
    <1>3. ASSUME c \in S, IsNew(c)
          PROVE  before'[Obj(c)] = Elems(checkedRcpts)
        <2>1. Obj(c) \in Objects /\ c \in NewIn(S)
            BY <1>3, ObjBound DEF NewIn
        <2> QED
            BY <2>1 DEF MakeStates
    <1>4. ASSUME NEW n \in 1 .. MaxStates, ~(c \in S /\ IsNew(c))
          PROVE  before'[<<c, n>>] = before[<<c, n>>]
        <2>1. <<c, n>> \in Objects
            BY DEF Objects
        <2>2. \A d \in NewIn(S) : Obj(d) # <<c, n>>
            BY <1>4, ObjBound DEF NewIn, Obj
        <2> QED
            BY <2>1, <2>2 DEF MakeStates
    <1> QED
        BY <1>2, <1>3, <1>4

(* What a group is shown, no other state object is, and nothing is taken    *)
(* back.                                                                    *)
LEMMA ShownGrows ==
    ASSUME NEW cs, NEW addrs, seen' = Shown(cs, addrs), NEW o \in Objects
    PROVE  /\ seen[o] \subseteq seen'[o]
           /\ o \in Group(cs) => addrs \subseteq seen'[o]
    BY DEF Shown

(* Running a group of checks makes the states that are missing, replays to  *)
(* them what was checked before, and shows every check the recipient.       *)
LEMMA RunKeeps ==
    ASSUME IInv, todo # <<>>, NEW job \in CheckJobs, RunChecks(job)
    PROVE  /\ RunnerKeeps(Begun - 1)
           /\ job.kind = "rcpt" => ShownAll(job.cs, job.addr)'
    <1> DEFINE S == Elems(job.cs)
               addrs == Replayed(job.cs) \cup (IF job.kind = "rcpt" THEN {job.addr} ELSE {})
    <1>1. S \in SUBSET Checks
        BY GroupElems DEF CheckJobs
    <1>2. MakeStates(S) /\ seen' = Shown(job.cs, addrs)
        BY DEF RunChecks
    <1>3. states' = [c \in Checks |-> IF c \in S THEN Obj(c)[2] ELSE states[c]]
        BY DEF RunChecks
    <1>4. \A c \in S : Obj(c) \in Group(job.cs)
        BY DEF Group
    <1>5. \A c \in S : IsNew(c) => addrs = addrs \cup Elems(checkedRcpts)
        BY DEF Replayed, NewIn
    <1>6. job.kind = "rcpt" => job.addr \in addrs
        OBVIOUS
    <1> HIDE DEF S, addrs
    <1>7. states' \in [Checks -> Nat]
        <2>1. \A c \in Checks : states[c] \in Nat /\ Obj(c)[2] \in Nat
            BY ObjBound
        <2> QED
            BY <1>3, <2>1
    <1>8. made' \in [Checks -> Nat]
        <2>1. made \in [Checks -> Nat]
            BY DEF IInv, Kinds
        <2> QED
            BY <1>2, <2>1 DEF MakeStates
    <1>9. ASSUME NEW c \in Checks
          PROVE  /\ states'[c] <= made'[c] /\ made'[c] <= MaxStates
                 /\ states'[c] = 0 => made'[c] <= Begun - 1
        <2>1. made'[c] = IF c \in S /\ IsNew(c) THEN made[c] + 1 ELSE made[c]
            BY <1>1, <1>2, StatesMade
        <2>2. states'[c] = IF c \in S THEN Obj(c)[2] ELSE states[c]
            BY <1>3
        <2>3. CASE c \in S /\ IsNew(c)
            BY <2>1, <2>2, <2>3, ObjBound
        <2>4. CASE c \in S /\ ~IsNew(c)
            BY <2>1, <2>2, <2>4, ObjBound DEF IsNew
        <2>5. CASE c \notin S
            BY <2>1, <2>2, <2>5, ObjBound DEF IsNew
        <2> QED
            BY <2>3, <2>4, <2>5
    <1>10. \A c \in S : states'[c] # 0 /\ <<c, states'[c]>> = Obj(c) /\ Obj(c) \in Objects
        <2> TAKE c \in S
        <2>1. c \in Checks
            BY <1>1
        <2>2. states'[c] = Obj(c)[2]
            BY <1>3, <2>1
        <2>3. Obj(c)[2] \in 1 .. MaxStates /\ Obj(c) \in Objects
            BY <2>1, ObjBound
        <2>4. Obj(c) = <<c, Obj(c)[2]>>
            BY DEF Obj
        <2> QED
            BY <2>2, <2>3, <2>4
    <1>11. \A c \in S : SeenBy(c)' = seen'[Obj(c)]
        BY <1>10 DEF SeenBy
    <1>12. ASSUME NEW c \in Checks
           PROVE  SeenBy(c) \subseteq SeenBy(c)'
        <2>1. CASE c \in S
            <3>1. seen[Obj(c)] \subseteq SeenBy(c)'
                BY <1>2, <1>10, <1>11, <2>1, ShownGrows
            <3>2. IsNew(c) => SeenBy(c) = {}
                BY DEF IsNew, SeenBy
            <3>3. ~IsNew(c) => SeenBy(c) = seen[Obj(c)]
                BY ObjBound DEF IsNew, SeenBy
            <3> QED
                BY <3>1, <3>2, <3>3
        <2>2. CASE c \notin S
            <3>1. states'[c] = states[c]
                BY <1>3, <2>2
            <3>2. states[c] # 0 => <<c, states[c]>> \in Objects
                BY ObjBound DEF IsNew
            <3> QED
                BY <1>2, <3>1, <3>2, ShownGrows DEF SeenBy
        <2> QED
            BY <2>1, <2>2
    <1>13. ReplayComplete'
        <2>1. ASSUME NEW c \in Checks, states'[c] # 0
              PROVE  before'[<<c, states'[c]>>] \subseteq seen'[<<c, states'[c]>>]
            <3>1. CASE c \in S /\ IsNew(c)
                <4>1. before'[Obj(c)] = Elems(checkedRcpts)
                    BY <1>1, <1>2, <3>1, StatesMade
                <4>2. addrs \subseteq seen'[Obj(c)]
                    BY <1>2, <1>4, <1>10, <3>1, ShownGrows
                <4> QED
                    BY <1>5, <1>10, <3>1, <4>1, <4>2
            <3>2. CASE ~(c \in S /\ IsNew(c))
                <4>1. states'[c] = states[c]
                    <5>1. CASE c \in S
                        BY <1>10, <3>2, <5>1, ObjBound
                    <5>2. CASE c \notin S
                        BY <1>3, <5>2
                    <5> QED
                        BY <5>1, <5>2
                <4>2. states[c] \in 1 .. MaxStates /\ <<c, states[c]>> \in Objects
                    BY <2>1, <4>1, ObjBound DEF Objects
                <4>3. before'[<<c, states[c]>>] = before[<<c, states[c]>>]
                    BY <1>1, <1>2, <3>2, <4>2, StatesMade
                <4>4. before[<<c, states[c]>>] \subseteq seen[<<c, states[c]>>]
                    BY <2>1, <4>1 DEF IInv, ReplayComplete
                <4>5. seen[<<c, states[c]>>] \subseteq seen'[<<c, states[c]>>]
                    BY <1>2, <4>2, ShownGrows
                <4> QED
                    BY <4>1, <4>3, <4>4, <4>5
            <3> QED
                BY <3>1, <3>2
        <2> QED
            BY <2>1 DEF ReplayComplete
    <1>14. RunnerKeeps(Begun - 1)
        BY <1>7, <1>8, <1>9, <1>12, <1>13 DEF RunnerKeeps
    <1>15. ASSUME job.kind = "rcpt", NEW c \in S
           PROVE  job.addr \in SeenBy(c)'
        <2>1. addrs \subseteq seen'[Obj(c)]
            BY <1>2, <1>4, <1>10, ShownGrows
        <2> QED
            BY <1>6, <1>11, <1>15, <2>1
    <1> QED
        BY <1>14, <1>15 DEF ShownAll, S

(* A group that is given up drops the states it made: they are counted, and *)
(* the checks are as they were.                                             *)
LEMMA DropKeeps ==
    ASSUME IInv, todo # <<>>, NEW S \in SUBSET Checks, MakeStates(S), states' = states,
           \A o \in Objects : seen[o] \subseteq seen'[o]
    PROVE  RunnerKeeps(Begun)
    <1>1. states' \in [Checks -> Nat]
        BY DEF IInv, Kinds
    <1>2. made' \in [Checks -> Nat]
        <2>1. made \in [Checks -> Nat]
            BY DEF IInv, Kinds
        <2> QED
            BY <2>1 DEF MakeStates
    <1>3. ASSUME NEW c \in Checks
          PROVE  /\ states'[c] <= made'[c] /\ made'[c] <= MaxStates
                 /\ states'[c] = 0 => made'[c] <= Begun
        <2>1. made'[c] = IF c \in S /\ IsNew(c) THEN made[c] + 1 ELSE made[c]
            BY StatesMade
        <2>2. CASE c \in S /\ IsNew(c)
            BY <2>1, <2>2, ObjBound DEF IsNew
        <2>3. CASE ~(c \in S /\ IsNew(c))
            BY <2>1, <2>3, ObjBound DEF IsNew
        <2> QED
            BY <2>2, <2>3
    <1>4. ASSUME NEW c \in Checks, states[c] # 0
          PROVE  states[c] \in 1 .. MaxStates /\ <<c, states[c]>> \in Objects
        BY <1>4, ObjBound DEF Objects
    <1>5. \A c \in Checks : SeenBy(c) \subseteq SeenBy(c)'
        BY <1>4 DEF SeenBy
    <1>6. ASSUME NEW c \in Checks, states'[c] # 0
          PROVE  before'[<<c, states'[c]>>] \subseteq seen'[<<c, states'[c]>>]
        <2>1. states[c] \in 1 .. MaxStates /\ <<c, states[c]>> \in Objects
            BY <1>4, <1>6
        <2>2. before'[<<c, states[c]>>] = before[<<c, states[c]>>]
            BY <1>6, <2>1, StatesMade DEF IsNew
        <2>3. before[<<c, states[c]>>] \subseteq seen[<<c, states[c]>>]
            BY <1>6 DEF IInv, ReplayComplete
        <2> QED
            BY <2>1, <2>2, <2>3
    <1>7. ReplayComplete'
        BY <1>6 DEF ReplayComplete
    <1> QED
        BY <1>1, <1>2, <1>3, <1>5, <1>7 DEF RunnerKeeps

------------------------------------------------------------------------------
(* Steps of a call *)

(* What was given stays checked. *)
LEMMA GivenStep ==
    ASSUME IInv, RunnerKeeps(Begun), given' = given, setup' = setup
    PROVE  CheckedBeforeTarget' /\ \A g \in given' : g.addr \in Addrs
    <1>1. \A c \in Checks : SeenBy(c) \subseteq SeenBy(c)'
        BY DEF RunnerKeeps
    <1>2. Kinds /\ CheckedBeforeTarget
        BY DEF IInv
    <1>3. \A g \in given : g.addr \in Addrs
        BY <1>2 DEF Kinds
    <1> QED
        BY <1>1, <1>2, <1>3, SetupGroups DEF CheckedBeforeTarget

(* The bound of a step that made no state may be relaxed. *)
LEMMA KeepsMore ==
    ASSUME IInv, InCall, RunnerKeeps(Begun - 1)
    PROVE  RunnerKeeps(Begun)
    <1>1. Begun \in Nat
        BY BegunInCall
    <1>2. \A c \in Checks : made'[c] \in Nat
        BY DEF RunnerKeeps
    <1> QED
        BY <1>1, <1>2 DEF RunnerKeeps

(* A job of a call: the call, the message and the deliveries stay as they   *)
(* are, except for targets that are started.                                *)
InsideCall ==
    /\ setup' = setup /\ phase' = phase /\ rcptCalls' = rcptCalls /\ ended' = ended
    /\ mods' \subseteq Scopes
    /\ started \subseteq started' /\ started' \subseteq Targets

(* Nothing is committed or aborted during a call. *)
LEMMA CommitStep ==
    ASSUME IInv, phase # "over", ended' = ended, started' \subseteq Targets
    PROVE  CommitNeedsAllBodies' /\ \A t \in Targets : ended'[t] = "no"
    <1>1. \A t \in Targets : ended'[t] = "no"
        BY DEF IInv, BodyOK
    <1> QED
        BY <1>1 DEF CommitNeedsAllBodies

(* A job that fails ends the call. *)
LEMMA FailStep ==
    ASSUME IInv, todo # <<>>, JobFails, InsideCall, RunnerKeeps(Begun),
           given' = given, bodied' = bodied
    PROVE  IInv'
    <1>1. InCall /\ call \in Calls /\ ~call.failed /\ phase \in {"starting", "rcpts"}
        BY JobInCall, BegunInCall
    <1>2. todo' = <<>> /\ call' = [call EXCEPT !.failed = TRUE]
        BY DEF JobFails
    <1>3. call' \in Calls /\ call'.failed /\ call'.name = call.name
        BY <1>1, <1>2 DEF Calls
    <1>4. call' # Idle /\ InCall'
        <2>1. call'.name # "none"
            BY <1>3 DEF Calls
        <2> QED
            BY <2>1 DEF Idle, InCall
    <1>5. CheckedBeforeTarget' /\ \A g \in given' : g.addr \in Addrs
        BY GivenStep DEF InsideCall
    <1>6. Kinds'
        <2>1. todo' \in Seq(Jobs)
            BY <1>2
        <2>2. states' \in [Checks -> Nat] /\ made' \in [Checks -> Nat]
            BY DEF RunnerKeeps
        <2> QED
            BY <1>3, <1>5, <2>1, <2>2 DEF Kinds, IInv, InsideCall
    <1>7. CallOK'
        <2>1. phase = IF call.name = "Start" THEN "starting" ELSE "rcpts"
            BY <1>1 DEF IInv, CallOK
        <2>2. (call.name = "Body" => ~setup.partial) /\ (call.name = "BodyNonAtomic" => setup.partial)
            BY <1>1 DEF IInv, CallOK
        <2> QED
            BY <1>2, <1>3, <1>4, <2>1, <2>2 DEF CallOK, InsideCall
    <1>8. Begun' = Begun /\ Past' = Begun'
        <2>1. InBody' = InBody
            BY <1>1, <1>3, <1>4 DEF InBody
        <2>2. Begun' = Begun
            BY <2>1 DEF Begun, InsideCall
        <2>3. Past' = Begun'
            BY <1>3, <1>4 DEF Past
        <2> QED
            BY <2>2, <2>3
    <1>9. MadeOK'
        BY <1>8 DEF MadeOK, RunnerKeeps, MaxStates
    <1>10. OrderOK'
        BY <1>2 DEF OrderOK
    <1>11. CommitNeedsAllBodies' /\ \A t \in Targets : ended'[t] = "no"
        BY <1>1, CommitStep DEF InsideCall
    <1>12. BodyOK'
        <2>1. bodied \subseteq started
            BY DEF IInv, BodyOK
        <2>2. phase' # "bodied"
            BY <1>1 DEF InsideCall
        <2> QED
            BY <1>2, <1>3, <1>11, <2>1, <2>2 DEF BodyOK, InsideCall
    <1>13. ReplayComplete'
        BY DEF RunnerKeeps
    <1> QED
        BY <1>5, <1>6, <1>7, <1>9, <1>10, <1>11, <1>12, <1>13 DEF IInv

(* When the job is to check a recipient, its checks are shown it. *)
HeadShown ==
    \A cs, addr : Job = CheckJob(cs, "rcpt", addr) => \A c \in Elems(cs) : addr \in SeenBy(c)'

(* A job that is done leaves the tail of the jobs behind those it adds.     *)
(* What an entry of the tail waits for is still to come, or was the job     *)
(* just done.                                                               *)
LEMMA TailCovered ==
    ASSUME IInv, todo # <<>>, NEW more \in Seq(Jobs), todo' = more \o Tail(todo),
           \A c \in Checks : SeenBy(c) \subseteq SeenBy(c)',
           HeadShown,
           NEW k \in 1 .. Len(todo) - 1
    PROVE  \A cs, addr : Elems(cs) \subseteq Checks /\ Covered(k + 1, cs, addr) =>
            \/ \A c \in Elems(cs) : addr \in SeenBy(c)'
            \/ \E j \in 1 .. (Len(more) + k) - 1 : todo'[j] = CheckJob(cs, "rcpt", addr)
    <1> SUFFICES ASSUME NEW cs, NEW addr, Elems(cs) \subseteq Checks, Covered(k + 1, cs, addr)
                 PROVE  \/ \A c \in Elems(cs) : addr \in SeenBy(c)'
                        \/ \E j \in 1 .. (Len(more) + k) - 1 : todo'[j] = CheckJob(cs, "rcpt", addr)
        OBVIOUS
    <1>1. todo \in Seq(Jobs)
        BY DEF IInv, Kinds
    <1>2. /\ Len(todo) \in Nat /\ Job = todo[1] /\ Tail(todo) \in Seq(Jobs)
          /\ Len(Tail(todo)) = Len(todo) - 1 /\ \A i \in 1 .. Len(todo) - 1 : Tail(todo)[i] = todo[i + 1]
        BY <1>1, ListTail DEF Job
    <1>3. Len(more) \in Nat /\ \A i \in 1 .. Len(todo) - 1 : todo'[Len(more) + i] = todo[i + 1]
        BY <1>2, ListConcat
    <1>4. CASE ShownAll(cs, addr)
        BY <1>4 DEF ShownAll
    <1>5. ASSUME NEW j \in 1 .. k, todo[j] = CheckJob(cs, "rcpt", addr)
          PROVE  \/ \A c \in Elems(cs) : addr \in SeenBy(c)'
                 \/ \E l \in 1 .. (Len(more) + k) - 1 : todo'[l] = CheckJob(cs, "rcpt", addr)
        <2>1. CASE j = 1
            <3>1. Job = CheckJob(cs, "rcpt", addr)
                BY <1>2, <1>5, <2>1
            <3> QED
                BY <3>1 DEF HeadShown
        <2>2. CASE j # 1
            <3>1. j - 1 \in 1 .. Len(todo) - 1 /\ Len(more) + (j - 1) \in 1 .. (Len(more) + k) - 1
                BY <1>2, <1>3, <2>2
            <3>2. todo'[Len(more) + (j - 1)] = todo[j]
                BY <1>2, <1>3, <2>2, <3>1
            <3> QED
                BY <1>5, <3>1, <3>2
        <2> QED
            BY <2>1, <2>2
    <1>6. ShownAll(cs, addr) \/ \E j \in 1 .. k : todo[j] = CheckJob(cs, "rcpt", addr)
        <2>1. 1 .. (k + 1) - 1 = 1 .. k
            BY <1>2
        <2> QED
            BY <2>1 DEF Covered
    <1> QED
        BY <1>4, <1>5, <1>6

(* A job that is done, and the jobs it adds. *)
LEMMA MoreStep ==
    ASSUME IInv, todo # <<>>, NEW more \in Seq(Jobs), JobDoneThen(more), InsideCall,
           RunnerKeeps(Begun - 1), CheckedBeforeTarget', \A g \in given' : g.addr \in Addrs,
           HeadShown,
           \A i \in 1 .. Len(more) : more[i].op \in Ops(call.name) /\ more[i].op # "body",
           \A i \in 1 .. Len(more) : OrderAt(i)',
           started' = started \/ call.name = "AddRcpt",
           bodied \subseteq bodied', bodied' \subseteq started',
           Job.op = "body" /\ call.name = "Body" => Job.tgt \in bodied'
    PROVE  IInv'
    <1>1. InCall /\ call \in Calls /\ ~call.failed /\ phase \in {"starting", "rcpts"}
        BY JobInCall, BegunInCall
    <1>2. todo' = more \o Tail(todo) /\ call' = call
        BY DEF JobDoneThen
    <1>3. todo \in Seq(Jobs)
        BY DEF IInv, Kinds
    <1>4. /\ Len(todo) \in Nat /\ Job = todo[1] /\ Tail(todo) \in Seq(Jobs)
          /\ Len(Tail(todo)) = Len(todo) - 1 /\ \A i \in 1 .. Len(todo) - 1 : Tail(todo)[i] = todo[i + 1]
        BY <1>3, ListTail DEF Job
    <1>5. /\ todo' \in Seq(Jobs) /\ Len(more) \in Nat
          /\ Len(todo') = Len(more) + (Len(todo) - 1)
          /\ \A i \in 1 .. Len(more) : todo'[i] = more[i]
          /\ \A i \in 1 .. Len(todo) - 1 : todo'[Len(more) + i] = todo[i + 1]
        BY <1>2, <1>4, ListConcat
    <1>6. \A i \in 1 .. Len(todo') :
            \/ i \in 1 .. Len(more)
            \/ \E k \in 1 .. Len(todo) - 1 : i = Len(more) + k
        <2> TAKE i \in 1 .. Len(todo')
        <2>1. CASE i <= Len(more)
            BY <1>4, <1>5, <2>1
        <2>2. CASE ~(i <= Len(more))
            <3>1. i - Len(more) \in 1 .. Len(todo) - 1 /\ i = Len(more) + (i - Len(more))
                BY <1>4, <1>5, <2>2
            <3> QED
                BY <3>1
        <2> QED
            BY <2>1, <2>2
    <1>7. Kinds'
        <2>1. states' \in [Checks -> Nat] /\ made' \in [Checks -> Nat]
            BY DEF RunnerKeeps
        <2>2. call' \in Calls
            BY <1>1, <1>2
        <2> QED
            BY <1>5, <2>1, <2>2 DEF Kinds, IInv, InsideCall
    <1>8. CallOK'
        <2>1. /\ phase = IF call.name = "Start" THEN "starting" ELSE "rcpts"
              /\ call.name = "Body" => ~setup.partial
              /\ call.name = "BodyNonAtomic" => setup.partial
              /\ \A i \in 1 .. Len(todo) : todo[i].op \in Ops(call.name)
            BY <1>1 DEF IInv, CallOK
        <2>2. \A k \in 1 .. Len(todo) - 1 : todo'[Len(more) + k].op \in Ops(call.name)
            <3> TAKE k \in 1 .. Len(todo) - 1
            <3>1. k + 1 \in 1 .. Len(todo)
                BY <1>4
            <3> QED
                BY <1>5, <2>1, <3>1
        <2>3. \A i \in 1 .. Len(todo') : todo'[i].op \in Ops(call.name)
            BY <1>5, <1>6, <2>2
        <2>4. InCall'
            BY <1>1, <1>2 DEF InCall
        <2> QED
            BY <1>1, <1>2, <2>1, <2>3, <2>4 DEF CallOK, InsideCall
    <1>9. Begun' = Begun /\ Past' = Begun - 1
        BY <1>1, <1>2 DEF InBody, InCall, Begun, Past, InsideCall
    <1>10. MadeOK'
        BY <1>9 DEF MadeOK, RunnerKeeps, MaxStates
    <1>11. OrderOK'
        <2>1. ASSUME NEW k \in 1 .. Len(todo) - 1
              PROVE  OrderAt(Len(more) + k)'
            <3>1. \A c \in Checks : SeenBy(c) \subseteq SeenBy(c)'
                BY DEF RunnerKeeps
            <3>2. k + 1 \in 1 .. Len(todo) /\ todo'[Len(more) + k] = todo[k + 1]
                BY <1>4, <1>5
            <3>3. OrderAt(k + 1) /\ todo[k + 1] \in Jobs
                BY <1>3, <3>2 DEF IInv, OrderOK
            <3>4. \A cs, addr : Elems(cs) \subseteq Checks /\ Covered(k + 1, cs, addr) =>
                    \/ \A c \in Elems(cs) : addr \in SeenBy(c)'
                    \/ \E j \in 1 .. (Len(more) + k) - 1 : todo'[j] = CheckJob(cs, "rcpt", addr)
                BY ONLY <1>2, <3>1, TailCovered, IInv, HeadShown, todo # <<>>, more \in Seq(Jobs),
                        k \in 1 .. Len(todo) - 1
            <3>5. Elems(setup.global) \subseteq Checks /\ Elems(setup.source) \subseteq Checks
                BY SetupGroups DEF IInv
            <3>6. ASSUME todo[k + 1].op \in {"fan", "give"}
                  PROVE  Elems(setup.block[BlockOf[todo[k + 1].addr]]) \subseteq Checks
                <4>1. todo[k + 1].addr \in Addrs
                    BY <3>3, <3>6, JobFields DEF FanningJobs, GivingJobs
                <4> QED
                    BY <4>1, SetupGroups DEF IInv
            <3>7. setup' = setup /\ call' = call
                BY <1>2 DEF InsideCall
            <3>8. ASSUME todo[k + 1].op \in {"route", "fan", "give"}
                  PROVE  Covered(Len(more) + k, setup.global, call.rcpt)'
                <4>1. Covered(k + 1, setup.global, call.rcpt)
                    BY <3>3, <3>8 DEF OrderAt
                <4> QED
                    BY <3>4, <3>5, <3>7, <4>1 DEF Covered, ShownAll
            <3>9. ASSUME todo[k + 1].op \in {"route", "fan", "give"}
                  PROVE  Covered(Len(more) + k, setup.source, call.rcpt)'
                <4>1. Covered(k + 1, setup.source, call.rcpt)
                    BY <3>3, <3>9 DEF OrderAt
                <4> QED
                    BY <3>4, <3>5, <3>7, <4>1 DEF Covered, ShownAll
            <3>10. ASSUME todo[k + 1].op \in {"fan", "give"}
                   PROVE  Covered(Len(more) + k, setup.block[BlockOf[todo[Len(more) + k].addr]],
                                  todo[Len(more) + k].addr)'
                <4>1. Covered(k + 1, setup.block[BlockOf[todo[k + 1].addr]], todo[k + 1].addr)
                    BY <3>3, <3>10 DEF OrderAt
                <4> QED
                    BY <3>2, <3>4, <3>6, <3>7, <3>10, <4>1 DEF Covered, ShownAll
            <3> QED
                BY <3>2, <3>8, <3>9, <3>10 DEF OrderAt
        <2> QED
            BY <1>6, <2>1 DEF OrderOK
    <1>12. CommitNeedsAllBodies' /\ \A t \in Targets : ended'[t] = "no"
        BY <1>1, CommitStep DEF InsideCall
    <1>13. BodyOK'
        <2>1. ASSUME call.name = "Body", NEW t \in started'
              PROVE  t \in bodied' \/ ToGet(t)'
            <3>1. t \in started /\ (t \in bodied \/ ToGet(t))
                BY <1>1, <2>1 DEF IInv, BodyOK
            <3>2. ASSUME NEW i \in 1 .. Len(todo), todo[i].op = "body", todo[i].tgt = t, i # 1
                  PROVE  ToGet(t)'
                <4>1. i - 1 \in 1 .. Len(todo) - 1 /\ (i - 1) + 1 = i
                    BY <1>4, <3>2
                <4>2. Len(more) + (i - 1) \in 1 .. Len(todo')
                    BY <1>4, <1>5, <4>1
                <4>3. todo'[Len(more) + (i - 1)] = todo[(i - 1) + 1]
                    BY <1>5, <4>1
                <4> QED
                    BY <3>2, <4>1, <4>2, <4>3 DEF ToGet
            <3> QED
                BY <1>4, <2>1, <3>1, <3>2 DEF ToGet
        <2>2. ASSUME NEW i \in 1 .. Len(todo'), todo'[i].op = "body"
              PROVE  todo'[i].tgt \in started'
            <3>1. PICK k \in 1 .. Len(todo) - 1 : i = Len(more) + k
                BY <1>5, <1>6, <2>2
            <3>2. todo'[i] = todo[k + 1] /\ k + 1 \in 1 .. Len(todo)
                BY <1>4, <1>5, <3>1
            <3> QED
                BY <2>2, <3>2 DEF IInv, BodyOK, InsideCall
        <2>3. phase' # "bodied"
            BY <1>1 DEF InsideCall
        <2> QED
            BY <1>2, <1>12, <2>1, <2>2, <2>3 DEF BodyOK
    <1>14. ReplayComplete'
        BY DEF RunnerKeeps
    <1> QED
        BY <1>7, <1>8, <1>10, <1>11, <1>12, <1>13, <1>14 DEF IInv

(* A job that is done and adds none. *)
LEMMA DoneStep ==
    ASSUME IInv, todo # <<>>, JobDone, InsideCall,
           RunnerKeeps(Begun - 1), CheckedBeforeTarget', \A g \in given' : g.addr \in Addrs,
           HeadShown,
           started' = started \/ call.name = "AddRcpt",
           bodied \subseteq bodied', bodied' \subseteq started',
           Job.op = "body" /\ call.name = "Body" => Job.tgt \in bodied'
    PROVE  IInv'
    <1>1. Tail(todo) \in Seq(Jobs)
        BY ListTail DEF IInv, Kinds
    <1> DEFINE more == <<>>
    <1>2. more \in Seq(Jobs) /\ more \o Tail(todo) = Tail(todo)
        BY <1>1
    <1>3. JobDoneThen(more)
        BY <1>2 DEF JobDone, JobDoneThen
    <1>4. \A i \in 1 .. Len(more) : FALSE
        OBVIOUS
    <1> HIDE DEF more
    <1>5. /\ \A i \in 1 .. Len(more) : more[i].op \in Ops(call.name) /\ more[i].op # "body"
          /\ \A i \in 1 .. Len(more) : OrderAt(i)'
        BY <1>4
    <1> QED
        BY <1>2, <1>3, <1>5, MoreStep

(* The call, the check runner and the deliveries are left alone. *)
Aside ==
    /\ UNCHANGED callVars /\ UNCHANGED runnerVars
    /\ given' = given /\ bodied' = bodied /\ ended' = ended
    /\ mods' \subseteq Scopes

(* The check runner is not part of it. *)
LEMMA AsideKeeps ==
    ASSUME IInv, todo # <<>>, UNCHANGED runnerVars
    PROVE  RunnerKeeps(Begun - 1) /\ RunnerKeeps(Begun)
    <1>1. InCall /\ ~call.failed
        BY JobInCall
    <1>2. phase # "over" /\ Past = Begun - 1
        BY <1>1, BegunInCall
    <1>3. RunnerKeeps(Past)
        BY <1>2, RunnerIdle DEF runnerVars
    <1> QED
        BY <1>1, <1>2, <1>3, KeepsMore

(* A job other than a check shows nobody anything. *)
LEMMA NotACheck ==
    ASSUME Job.op # "check"
    PROVE  HeadShown
    BY DEF HeadShown, CheckJob

(* A job that is done on the side. *)
LEMMA AsideDone ==
    ASSUME IInv, todo # <<>>, JobDone, Job.op \notin {"check", "body"}, Aside, started' = started
    PROVE  IInv'
    <1>1. RunnerKeeps(Begun - 1) /\ RunnerKeeps(Begun)
        BY AsideKeeps DEF Aside
    <1>2. CheckedBeforeTarget' /\ \A g \in given' : g.addr \in Addrs
        BY <1>1, GivenStep DEF Aside, callVars
    <1>3. started \subseteq Targets /\ bodied \subseteq started
        BY DEF IInv, Kinds, BodyOK
    <1>4. InsideCall
        BY <1>3 DEF InsideCall, Aside, callVars
    <1>5. HeadShown
        BY NotACheck
    <1> QED
        BY <1>1, <1>2, <1>3, <1>4, <1>5, DoneStep DEF Aside

(* A job that fails on the side. *)
LEMMA AsideFails ==
    ASSUME IInv, todo # <<>>, JobFails, Aside, started \subseteq started', started' \subseteq Targets
    PROVE  IInv'
    <1>1. RunnerKeeps(Begun)
        BY AsideKeeps DEF Aside
    <1>2. InsideCall
        BY DEF InsideCall, Aside, callVars
    <1> QED
        BY <1>1, <1>2, FailStep DEF Aside

------------------------------------------------------------------------------
(* One lemma for the actions of each part *)

(* Facts about the job at hand. *)
LEMMA JobHere ==
    ASSUME IInv, todo # <<>>
    PROVE  /\ Job \in Jobs /\ started \subseteq Targets /\ mods \subseteq Scopes
           /\ bodied \subseteq started /\ Job = todo[1] /\ 1 \in 1 .. Len(todo)
           /\ Job.op \in Ops(call.name)
    <1>1. todo \in Seq(Jobs) /\ started \subseteq Targets /\ mods \subseteq Scopes
        BY DEF IInv, Kinds
    <1>2. bodied \subseteq started
        BY DEF IInv, BodyOK
    <1>3. Job \in Jobs /\ Job = todo[1] /\ 1 \in 1 .. Len(todo)
        BY <1>1, ListTail DEF Job
    <1>4. InCall
        BY JobInCall
    <1>5. Job.op \in Ops(call.name)
        BY <1>3, <1>4 DEF IInv, CallOK
    <1> QED
        BY <1>1, <1>2, <1>3, <1>5

(* Finding the block of the source, or rejecting it. *)
LEMMA SourceSteps ==
    ASSUME IInv, SourceFound \/ SourceRejected
    PROVE  IInv'
    <1>1. todo # <<>> /\ Job.op = "source" /\ started' = started /\ Aside
        BY JobHere DEF SourceFound, SourceRejected, IsJob, Job, Aside, modVars, rcptVars, endVars
    <1>2. CASE SourceFound
        BY <1>1, <1>2, AsideDone DEF SourceFound
    <1>3. CASE SourceRejected
        BY <1>1, <1>3, AsideFails, JobHere DEF SourceRejected
    <1> QED
        BY <1>2, <1>3

(* The modifiers: none touches a check or a delivery. *)
LEMMA ModifierSteps ==
    ASSUME IInv, ModOpens \/ ModOpenFails \/ ModSenderFails \/ ModRewrites \/ ModRewriteFails
    PROVE  IInv'
    <1>1. todo # <<>> /\ Job.op = "mod"
        BY DEF ModOpens, ModOpenFails, ModSenderFails, ModRewrites, ModRewriteFails, IsJob, Job
    <1>2. Job.scope \in Scopes /\ mods \subseteq Scopes
        BY <1>1, JobHere, JobFields DEF ModJobs
    <1>3. started' = started /\ given' = given /\ bodied' = bodied /\ ended' = ended
        BY DEF ModOpens, ModOpenFails, ModSenderFails, ModRewrites, ModRewriteFails, rcptVars, endVars
    <1>4. UNCHANGED callVars /\ UNCHANGED runnerVars
        BY DEF ModOpens, ModOpenFails, ModSenderFails, ModRewrites, ModRewriteFails
    <1>5. mods' \subseteq Scopes
        BY <1>2 DEF ModOpens, ModOpenFails, ModSenderFails, ModRewrites, ModRewriteFails, modVars
    <1>6. Aside
        BY <1>3, <1>4, <1>5 DEF Aside
    <1>7. CASE ModOpens \/ ModRewrites
        <2>1. JobDone
            BY <1>7 DEF ModOpens, ModRewrites
        <2> QED
            BY <1>1, <1>3, <1>6, <2>1, AsideDone
    <1>8. CASE ModOpenFails \/ ModSenderFails \/ ModRewriteFails
        <2>1. JobFails
            BY <1>8 DEF ModOpenFails, ModSenderFails, ModRewriteFails
        <2> QED
            BY <1>1, <1>3, <1>6, <2>1, AsideFails, JobHere
    <1> QED
        BY <1>7, <1>8

(* applyResults. *)
LEMMA ApplySteps ==
    ASSUME IInv, ApplyResults \/ ApplyRejects
    PROVE  IInv'
    <1>1. todo # <<>> /\ Job.op = "apply" /\ started' = started /\ Aside
        BY JobHere DEF ApplyResults, ApplyRejects, IsJob, Job, Aside, modVars, rcptVars, endVars
    <1>2. CASE ApplyResults
        BY <1>1, <1>2, AsideDone DEF ApplyResults
    <1>3. CASE ApplyRejects
        BY <1>1, <1>3, AsideFails, JobHere DEF ApplyRejects
    <1> QED
        BY <1>2, <1>3

(* The checks. *)
LEMMA CheckSteps ==
    ASSUME IInv, CheckInitFails \/ CheckReplayRejects \/ CheckPasses \/ CheckRejects
    PROVE  IInv'
    <1>1. todo # <<>> /\ Job.op = "check"
        BY DEF CheckInitFails, CheckReplayRejects, CheckPasses, CheckRejects, IsJob, Job
    <1>2. Job \in CheckJobs /\ started \subseteq Targets /\ mods \subseteq Scopes /\ bodied \subseteq started
        BY <1>1, JobHere, JobFields
    <1>3. Elems(Job.cs) \in SUBSET Checks
        BY <1>2, GroupElems DEF CheckJobs
    <1>4. UNCHANGED callVars /\ UNCHANGED modVars /\ UNCHANGED rcptVars /\ UNCHANGED endVars
        BY DEF CheckInitFails, CheckReplayRejects, CheckPasses, CheckRejects, RunChecks
    <1>5. given' = given /\ bodied' = bodied /\ started' = started /\ setup' = setup
        BY <1>4 DEF rcptVars, endVars, callVars
    <1>6. InsideCall
        BY <1>2, <1>4 DEF InsideCall, callVars, modVars, rcptVars, endVars
    <1>7. CASE CheckInitFails
        <2>1. PICK i \in DOMAIN Job.cs : MakeStates({Job.cs[j] : j \in 1 .. i - 1})
            BY <1>7 DEF CheckInitFails
        <2>2. {Job.cs[j] : j \in 1 .. i - 1} \in SUBSET Checks
            <3>1. Job.cs \in SeqOf(Checks)
                BY <1>2 DEF CheckJobs, GroupsOf
            <3>2. Job.cs \in Seq(Checks) /\ DOMAIN Job.cs = 1 .. Len(Job.cs) /\ Len(Job.cs) \in Nat
                BY <3>1, SeqOfIsSeq
            <3>3. \A j \in 1 .. i - 1 : j \in 1 .. Len(Job.cs)
                BY <3>2
            <3> QED
                BY <3>2, <3>3
        <2>3. states' = states /\ seen' = seen /\ JobFails
            BY <1>7 DEF CheckInitFails
        <2>4. RunnerKeeps(Begun)
            BY <1>1, <2>1, <2>2, <2>3, DropKeeps
        <2> QED
            BY <1>1, <1>5, <1>6, <2>3, <2>4, FailStep
    <1>8. CASE CheckReplayRejects
        <2>1. MakeStates(Elems(Job.cs)) /\ states' = states /\ JobFails
            BY <1>8 DEF CheckReplayRejects
        <2>2. \E addrs : seen' = Shown(Job.cs, addrs)
            BY <1>8 DEF CheckReplayRejects
        <2>3. \A o \in Objects : seen[o] \subseteq seen'[o]
            BY <2>2, ShownGrows
        <2>4. RunnerKeeps(Begun)
            BY <1>1, <1>3, <2>1, <2>3, DropKeeps
        <2> QED
            BY <1>1, <1>5, <1>6, <2>1, <2>4, FailStep
    <1>9. ASSUME RunChecks(Job)
          PROVE  RunnerKeeps(Begun - 1) /\ RunnerKeeps(Begun) /\ HeadShown
        <2>1. PICK job : job = Job
            OBVIOUS
        <2>2. job \in CheckJobs /\ RunChecks(job)
            BY <1>2, <1>9, <2>1
        <2>3. RunnerKeeps(Begun - 1) /\ (job.kind = "rcpt" => ShownAll(job.cs, job.addr)')
            BY <1>1, <2>2, RunKeeps
        <2>4. ASSUME NEW cs, NEW addr, job = CheckJob(cs, "rcpt", addr)
              PROVE  \A c \in Elems(cs) : addr \in SeenBy(c)'
            <3>1. job.kind = "rcpt" /\ job.cs = cs /\ job.addr = addr
                BY <2>4 DEF CheckJob
            <3> QED
                BY <2>3, <3>1 DEF ShownAll
        <2>5. HeadShown
            BY <2>1, <2>4 DEF HeadShown
        <2> QED
            BY <1>1, <2>3, <2>5, JobInCall, KeepsMore
    <1>10. CASE CheckPasses
        <2>1. RunChecks(Job) /\ JobDone
            BY <1>10 DEF CheckPasses
        <2>2. RunnerKeeps(Begun - 1) /\ RunnerKeeps(Begun) /\ HeadShown
            BY <1>9, <2>1
        <2>3. CheckedBeforeTarget' /\ \A g \in given' : g.addr \in Addrs
            BY <1>5, <2>2, GivenStep
        <2> QED
            BY <1>1, <1>2, <1>5, <1>6, <2>1, <2>2, <2>3, DoneStep
    <1>11. CASE CheckRejects
        <2>1. RunChecks(Job) /\ JobFails
            BY <1>11 DEF CheckRejects
        <2>2. RunnerKeeps(Begun)
            BY <1>9, <2>1
        <2> QED
            BY <1>1, <1>5, <1>6, <2>1, <2>2, FailStep
    <1> QED
        BY <1>7, <1>8, <1>10, <1>11

(* Handing the body to a target.  Only Body stops at the first failure, and *)
(* then the delivery is not committed.                                      *)
LEMMA TargetSteps ==
    ASSUME IInv, TargetBody \/ TargetBodyFails \/ TargetFailsForAll \/ TargetReports
    PROVE  IInv'
    <1>1. todo # <<>> /\ Job.op = "body"
        BY DEF TargetBody, TargetBodyFails, TargetFailsForAll, TargetReports, IsJob, Job
    <1>2. /\ UNCHANGED callVars /\ UNCHANGED runnerVars /\ UNCHANGED modVars /\ UNCHANGED rcptVars
          /\ ended' = ended
        BY DEF TargetBody, TargetBodyFails, TargetFailsForAll, TargetReports, endVars
    <1>3. Job.tgt \in started /\ started \subseteq Targets /\ bodied \subseteq started /\ mods \subseteq Scopes
        BY <1>1, JobHere DEF IInv, BodyOK
    <1>4. started' = started /\ given' = given /\ setup' = setup /\ mods' = mods
        BY <1>2 DEF rcptVars, callVars, modVars
    <1>5. CASE TargetBodyFails
        <2>1. JobFails /\ bodied' = bodied
            BY <1>5 DEF TargetBodyFails, endVars
        <2>2. Aside
            BY <1>2, <1>3, <1>4, <2>1 DEF Aside
        <2> QED
            BY <1>1, <1>3, <1>4, <2>1, <2>2, AsideFails
    <1>6. CASE TargetBody \/ TargetFailsForAll \/ TargetReports
        <2>1. JobDone
            BY <1>6 DEF TargetBody, TargetFailsForAll, TargetReports
        <2>2. bodied \subseteq bodied' /\ bodied' \subseteq started'
            BY <1>3, <1>4, <1>6 DEF TargetBody, TargetFailsForAll, TargetReports
        <2>3. call.name = "Body" => ~setup.partial
            BY <1>1, JobInCall DEF IInv, CallOK
        <2>4. call.name = "Body" => Job.tgt \in bodied'
            BY <1>6, <2>3 DEF TargetBody, TargetFailsForAll, TargetReports
        <2>5. InsideCall
            BY <1>2, <1>3, <1>4 DEF InsideCall, callVars
        <2>6. RunnerKeeps(Begun - 1) /\ RunnerKeeps(Begun)
            BY <1>1, <1>2, AsideKeeps
        <2>7. CheckedBeforeTarget' /\ \A g \in given' : g.addr \in Addrs
            BY <1>4, <2>6, GivenStep
        <2>8. HeadShown
            BY <1>1, NotACheck
        <2> QED
            BY <1>1, <1>4, <2>1, <2>2, <2>4, <2>5, <2>6, <2>7, <2>8, DoneStep
    <1> QED
        BY <1>5, <1>6

(* The job at hand waits for nothing: its checks were shown the address. *)
LEMMA HeadCovered ==
    ASSUME IInv, todo # <<>>, Job.op \in {"route", "fan", "give"}
    PROVE  /\ ShownAll(setup.global, call.rcpt) /\ ShownAll(setup.source, call.rcpt)
           /\ Job.op \in {"fan", "give"} => ShownAll(setup.block[BlockOf[Job.addr]], Job.addr)
           /\ Job.addr \in Addrs /\ call.name = "AddRcpt"
    <1>1. Job = todo[1] /\ OrderAt(1)
        BY JobHere DEF IInv, OrderOK
    <1>2. \A j \in 1 .. 1 - 1 : FALSE
        OBVIOUS
    <1>3. Job.addr \in Addrs
        BY JobHere, JobFields DEF RoutingJobs, FanningJobs, GivingJobs
    <1>4. call.name = "AddRcpt"
        BY JobHere DEF Ops
    <1> QED
        BY <1>1, <1>2, <1>3, <1>4 DEF OrderAt, Covered

(* A step on the side shows the checks nothing less. *)
LEMMA AsideShown ==
    ASSUME UNCHANGED runnerVars
    PROVE  \A c : SeenBy(c)' = SeenBy(c)
    BY DEF SeenBy, runnerVars

(* The jobs of a recipient that was given its block. *)
LEMMA RouteJobsMade ==
    ASSUME NEW a \in Addrs
    PROVE  /\ FanJobs(a) \in Seq(Jobs)
           /\ \A i \in 1 .. Len(FanJobs(a)) : FanJobs(a)[i].op = "fan" /\ FanJobs(a)[i].addr = a
    <1>1. BlockExpand[a] \in SeqOf(Addrs)
        BY PipelineAssumption
    <1>2. /\ BlockExpand[a] \in Seq(Addrs) /\ DOMAIN BlockExpand[a] = 1 .. Len(BlockExpand[a])
          /\ Len(BlockExpand[a]) \in Nat
        BY <1>1, SeqOfIsSeq
    <1>3. \A i \in DOMAIN BlockExpand[a] :
            [op |-> "fan", addr |-> a, to |-> BlockExpand[a][i]] \in Jobs
        BY <1>2 DEF Jobs, FanningJobs
    <1>4. FanJobs(a) \in [1 .. Len(BlockExpand[a]) -> Jobs]
        BY <1>2, <1>3 DEF FanJobs
    <1>5. FanJobs(a) \in Seq(Jobs) /\ Len(FanJobs(a)) = Len(BlockExpand[a])
        BY <1>2, <1>4
    <1>6. \A i \in DOMAIN BlockExpand[a] : FanJobs(a)[i].op = "fan" /\ FanJobs(a)[i].addr = a
        BY DEF FanJobs
    <1> QED
        BY <1>2, <1>5, <1>6

(* The jobs that give an address to the targets of its block. *)
LEMMA GiveJobsMade ==
    ASSUME NEW a \in Addrs, NEW to \in Addrs
    PROVE  /\ GiveJobs(a, to) \in Seq(Jobs)
           /\ \A i \in 1 .. Len(GiveJobs(a, to)) : GiveJobs(a, to)[i].op = "give" /\ GiveJobs(a, to)[i].addr = a
    <1> DEFINE ts == TargetsOf[BlockOf[a]]
    <1>1. ts \in SeqOf(Targets)
        BY PipelineAssumption
    <1>2. ts \in Seq(Targets) /\ DOMAIN ts = 1 .. Len(ts) /\ Len(ts) \in Nat
        BY <1>1, SeqOfIsSeq
    <1>3. GiveJobs(a, to) = [i \in DOMAIN ts |-> [op |-> "give", addr |-> a, to |-> to, tgt |-> ts[i]]]
        BY DEF GiveJobs
    <1> HIDE DEF ts
    <1>4. \A i \in DOMAIN ts : [op |-> "give", addr |-> a, to |-> to, tgt |-> ts[i]] \in Jobs
        BY <1>2 DEF Jobs, GivingJobs
    <1>5. GiveJobs(a, to) \in [1 .. Len(ts) -> Jobs]
        BY <1>2, <1>3, <1>4
    <1>6. GiveJobs(a, to) \in Seq(Jobs) /\ Len(GiveJobs(a, to)) = Len(ts)
        BY <1>2, <1>5
    <1>7. \A i \in DOMAIN ts : GiveJobs(a, to)[i].op = "give" /\ GiveJobs(a, to)[i].addr = a
        BY <1>3
    <1> QED
        BY <1>2, <1>6, <1>7

(* Routing a recipient, and giving it to the targets. *)
LEMMA RouteStep ==
    ASSUME IInv, Route
    PROVE  IInv'
    <1>1. todo # <<>> /\ Job.op = "route"
        BY DEF Route, IsJob, Job
    <1>2. PICK a : a = Job.addr
        OBVIOUS
    <1>3. PICK b : b = BlockOf[a]
        OBVIOUS
    <1> DEFINE first == <<CheckJob(setup.block[b], "rcpt", a), ModJob(b, "open"), ModJob(b, "rcpt")>>
               more == first \o FanJobs(a)
    <1>4. /\ a \in Addrs /\ call.name = "AddRcpt"
          /\ ShownAll(setup.global, call.rcpt) /\ ShownAll(setup.source, call.rcpt)
        BY <1>1, <1>2, HeadCovered
    <1>5. b \in Blocks /\ setup.block[b] \in GroupsOf(Checks)
        BY <1>3, <1>4, SetupGroups DEF IInv
    <1>6. FanJobs(a) \in Seq(Jobs) /\ \A i \in 1 .. Len(FanJobs(a)) : FanJobs(a)[i].op = "fan" /\ FanJobs(a)[i].addr = a
        BY <1>4, RouteJobsMade
    <1>7. JobDoneThen(more)
        BY <1>2, <1>3 DEF Route
    <1>8. /\ first \in Seq(Jobs) /\ Len(first) = 3 /\ first[1] = CheckJob(setup.block[b], "rcpt", a)
          /\ \A i \in 1 .. 3 : first[i].op \in {"check", "mod"}
        <2>1. CheckJob(setup.block[b], "rcpt", a) \in Jobs
            BY <1>4, <1>5 DEF CheckJob, CheckJobs, Jobs, AddrArgs
        <2>2. ModJob(b, "open") \in Jobs /\ ModJob(b, "rcpt") \in Jobs
            BY <1>5 DEF ModJob, ModJobs, Jobs, Scopes
        <2>3. CheckJob(setup.block[b], "rcpt", a).op = "check" /\ ModJob(b, "open").op = "mod" /\ ModJob(b, "rcpt").op = "mod"
            BY DEF ModJob, CheckJob
        <2> QED
            BY <2>1, <2>2, <2>3
    <1> HIDE DEF first
    <1>9. /\ more \in Seq(Jobs) /\ Len(more) = 3 + Len(FanJobs(a)) /\ Len(FanJobs(a)) \in Nat
          /\ \A i \in 1 .. 3 : more[i] = first[i]
          /\ \A i \in 1 .. Len(FanJobs(a)) : more[3 + i] = FanJobs(a)[i]
        <2>1. /\ more \in Seq(Jobs) /\ Len(FanJobs(a)) \in Nat
              /\ Len(more) = Len(first) + Len(FanJobs(a))
              /\ \A i \in 1 .. Len(first) : more[i] = first[i]
              /\ \A i \in 1 .. Len(FanJobs(a)) : more[Len(first) + i] = FanJobs(a)[i]
            <3> DEFINE fan == FanJobs(a)
            <3>1. first \in Seq(Jobs) /\ fan \in Seq(Jobs)
                BY <1>6, <1>8
            <3> HIDE DEF fan
            <3>2. /\ first \o fan \in Seq(Jobs) /\ Len(fan) \in Nat
                  /\ Len(first \o fan) = Len(first) + Len(fan)
                  /\ \A i \in 1 .. Len(first) : (first \o fan)[i] = first[i]
                  /\ \A i \in 1 .. Len(fan) : (first \o fan)[Len(first) + i] = fan[i]
                BY ONLY <3>1, ListConcat
            <3> QED
                BY ONLY <3>2 DEF fan, more
        <2> HIDE DEF more
        <2> QED
            BY <1>8, <2>1
    <1> HIDE DEF more
    <1>10. \A i \in 1 .. Len(more) :
            \/ more[i].op \in {"check", "mod"}
            \/ i > 3 /\ more[i].op = "fan" /\ more[i].addr = a
        <2> TAKE i \in 1 .. Len(more)
        <2>1. CASE i \in 1 .. 3
            BY <1>8, <1>9, <2>1
        <2>2. CASE i \notin 1 .. 3
            <3>1. i - 3 \in 1 .. Len(FanJobs(a)) /\ 3 + (i - 3) = i /\ i > 3
                BY <1>9, <2>2
            <3>2. more[3 + (i - 3)] = FanJobs(a)[i - 3]
                BY <1>9, <3>1
            <3> QED
                BY <1>6, <3>1, <3>2
        <2> QED
            BY <2>1, <2>2
    <1>11. Tail(todo) \in Seq(Jobs)
        BY <1>1, ListTail DEF IInv, Kinds
    <1>12. todo' = more \o Tail(todo) /\ call' = call
        BY <1>7 DEF JobDoneThen
    <1>13. \A i \in 1 .. Len(more) : todo'[i] = more[i]
        BY <1>9, <1>11, <1>12, ListConcat
    <1>14. UNCHANGED callVars /\ UNCHANGED runnerVars /\ UNCHANGED modVars /\ UNCHANGED rcptVars /\ UNCHANGED endVars
        BY DEF Route
    <1>15. setup' = setup /\ given' = given /\ started' = started /\ bodied' = bodied
        BY <1>14 DEF callVars, rcptVars, endVars
    <1>16. ASSUME NEW i \in 1 .. Len(more)
           PROVE  OrderAt(i)'
        <2>1. CASE more[i].op \in {"check", "mod"}
            BY <1>13, <2>1 DEF OrderAt
        <2>2. CASE i > 3 /\ more[i].op = "fan" /\ more[i].addr = a
            <3>1. todo'[i].op = "fan" /\ todo'[i].addr = a
                BY <1>13, <2>2
            <3>2. Covered(i, setup.global, call.rcpt)' /\ Covered(i, setup.source, call.rcpt)'
                BY <1>4, <1>12, <1>14, <1>15, AsideShown DEF Covered, ShownAll
            <3>3. 1 \in 1 .. i - 1 /\ 1 \in 1 .. Len(more)
                BY <1>9, <2>2
            <3>4. todo'[1] = CheckJob(setup.block[b], "rcpt", a)
                BY <1>8, <1>9, <1>13, <3>3
            <3>5. Covered(i, setup.block[BlockOf[todo[i].addr]], todo[i].addr)'
                BY <1>3, <1>15, <3>1, <3>3, <3>4 DEF Covered
            <3> QED
                BY <3>2, <3>5 DEF OrderAt
        <2> QED
            BY <1>10, <2>1, <2>2
    <1>17. \A i \in 1 .. Len(more) : more[i].op \in Ops(call.name) /\ more[i].op # "body"
        BY <1>4, <1>10 DEF Ops
    <1>18. RunnerKeeps(Begun - 1) /\ RunnerKeeps(Begun)
        BY <1>1, <1>14, AsideKeeps
    <1>19. CheckedBeforeTarget' /\ \A g \in given' : g.addr \in Addrs
        BY <1>15, <1>18, GivenStep
    <1>20. started \subseteq Targets /\ bodied \subseteq started /\ mods \subseteq Scopes
        BY <1>1, JobHere
    <1>21. InsideCall
        BY <1>14, <1>20 DEF InsideCall, callVars, modVars, rcptVars, endVars
    <1>22. HeadShown
        BY <1>1, NotACheck
    <1> QED
        BY <1>1, <1>7, <1>9, <1>15, <1>16, <1>17, <1>18, <1>19, <1>20, <1>21, <1>22, MoreStep

(* A rewritten recipient fans out to the targets of its block. *)
LEMMA FanStep ==
    ASSUME IInv, Fan
    PROVE  IInv'
    <1>1. todo # <<>> /\ Job.op = "fan"
        BY DEF Fan, IsJob, Job
    <1>2. PICK a : a = Job.addr
        OBVIOUS
    <1>3. PICK to : to = Job.to
        OBVIOUS
    <1> DEFINE more == GiveJobs(a, to)
    <1>4. /\ a \in Addrs /\ call.name = "AddRcpt"
          /\ ShownAll(setup.global, call.rcpt) /\ ShownAll(setup.source, call.rcpt)
          /\ ShownAll(setup.block[BlockOf[a]], a)
        BY <1>1, <1>2, HeadCovered
    <1>5. to \in Addrs
        BY <1>1, <1>3, JobHere, JobFields DEF FanningJobs
    <1>6. more \in Seq(Jobs) /\ \A i \in 1 .. Len(more) : more[i].op = "give" /\ more[i].addr = a
        BY <1>4, <1>5, GiveJobsMade
    <1>7. JobDoneThen(more)
        BY <1>2, <1>3 DEF Fan
    <1> HIDE DEF more
    <1>8. Tail(todo) \in Seq(Jobs)
        BY <1>1, ListTail DEF IInv, Kinds
    <1>9. todo' = more \o Tail(todo) /\ call' = call
        BY <1>7 DEF JobDoneThen
    <1>10. \A i \in 1 .. Len(more) : todo'[i] = more[i]
        BY <1>6, <1>8, <1>9, ListConcat
    <1>11. UNCHANGED callVars /\ UNCHANGED runnerVars /\ UNCHANGED modVars /\ UNCHANGED endVars
        BY DEF Fan
    <1>12. setup' = setup /\ given' = given /\ started' = started /\ bodied' = bodied
        BY <1>11 DEF Fan, callVars, endVars
    <1>13. ASSUME NEW i \in 1 .. Len(more)
           PROVE  OrderAt(i)'
        <2>1. todo'[i].op = "give" /\ todo'[i].addr = a
            BY <1>6, <1>10
        <2>2. Covered(i, setup.global, call.rcpt)' /\ Covered(i, setup.source, call.rcpt)'
            BY <1>4, <1>9, <1>11, <1>12, AsideShown DEF Covered, ShownAll
        <2>3. Covered(i, setup.block[BlockOf[todo[i].addr]], todo[i].addr)'
            BY <1>4, <1>11, <1>12, <2>1, AsideShown DEF Covered, ShownAll
        <2> QED
            BY <2>2, <2>3 DEF OrderAt
    <1>14. \A i \in 1 .. Len(more) : more[i].op \in Ops(call.name) /\ more[i].op # "body"
        BY <1>4, <1>6 DEF Ops
    <1>15. RunnerKeeps(Begun - 1) /\ RunnerKeeps(Begun)
        BY <1>1, <1>11, AsideKeeps
    <1>16. CheckedBeforeTarget' /\ \A g \in given' : g.addr \in Addrs
        BY <1>12, <1>15, GivenStep
    <1>17. started \subseteq Targets /\ bodied \subseteq started /\ mods \subseteq Scopes
        BY <1>1, JobHere
    <1>18. InsideCall
        BY <1>11, <1>12, <1>17 DEF InsideCall, callVars, modVars, endVars
    <1>19. HeadShown
        BY <1>1, NotACheck
    <1> QED
        BY <1>1, <1>6, <1>7, <1>12, <1>13, <1>14, <1>15, <1>16, <1>17, <1>18, <1>19, MoreStep

(* What is given to a target was shown to all its checks. *)
LEMMA GiveSteps ==
    ASSUME IInv, Give \/ GiveFails \/ RouteRejected
    PROVE  IInv'
    <1>1. todo # <<>> /\ Job.op \in {"give", "route"}
        BY DEF Give, GiveFails, RouteRejected, IsJob, Job
    <1>2. started \subseteq Targets /\ bodied \subseteq started /\ mods \subseteq Scopes
        BY <1>1, JobHere
    <1>3. UNCHANGED callVars /\ UNCHANGED runnerVars /\ UNCHANGED modVars /\ UNCHANGED endVars
        BY DEF Give, GiveFails, RouteRejected
    <1>4. setup' = setup /\ mods' = mods /\ bodied' = bodied /\ ended' = ended
        BY <1>3 DEF callVars, modVars, endVars
    <1>5. CASE RouteRejected
        <2>1. JobFails /\ given' = given /\ started' = started
            BY <1>5 DEF RouteRejected, rcptVars
        <2>2. Aside
            BY <1>2, <1>3, <1>4, <2>1 DEF Aside
        <2> QED
            BY <1>1, <1>2, <2>1, <2>2, AsideFails
    <1>6. CASE GiveFails
        <2>1. Job.op = "give" /\ JobFails /\ given' = given
            BY <1>6 DEF GiveFails, IsJob, Job
        <2>2. Job.tgt \in Targets
            BY <1>1, <2>1, JobHere, JobFields DEF GivingJobs
        <2>3. started \subseteq started' /\ started' \subseteq Targets
            BY <1>2, <1>6, <2>2 DEF GiveFails
        <2>4. Aside
            BY <1>2, <1>3, <1>4, <2>1 DEF Aside
        <2> QED
            BY <1>1, <2>1, <2>3, <2>4, AsideFails
    <1>7. CASE Give
        <2>1. Job.op = "give" /\ JobDone /\ started' = started \cup {Job.tgt}
            BY <1>7 DEF Give, IsJob, Job
        <2>2. Job.tgt \in Targets
            BY <1>1, <2>1, JobHere, JobFields DEF GivingJobs
        <2>3. /\ ShownAll(setup.global, call.rcpt) /\ ShownAll(setup.source, call.rcpt)
              /\ ShownAll(setup.block[BlockOf[Job.addr]], Job.addr)
              /\ Job.addr \in Addrs /\ call.name = "AddRcpt"
            BY <1>1, <2>1, HeadCovered
        <2>4. PICK g : g = [rcpt |-> call.rcpt, addr |-> Job.addr, to |-> Job.to, tgt |-> Job.tgt]
            OBVIOUS
        <2>5. given' = given \cup {g} /\ g.rcpt = call.rcpt /\ g.addr = Job.addr
            BY <1>7, <2>4 DEF Give
        <2>6. \A h \in given' : h.addr \in Addrs
            BY <2>3, <2>5 DEF IInv, Kinds
        <2>7. CheckedBeforeTarget'
            <3>1. ASSUME NEW h \in given'
                  PROVE  /\ \A c \in Elems(setup.global) \cup Elems(setup.source) : h.rcpt \in SeenBy(c)
                         /\ \A c \in Elems(setup.block[BlockOf[h.addr]]) : h.addr \in SeenBy(c)
                <4>1. CASE h = g
                    BY <2>3, <2>5, <4>1 DEF ShownAll
                <4>2. CASE h \in given
                    BY <4>2 DEF IInv, CheckedBeforeTarget
                <4> QED
                    BY <2>5, <4>1, <4>2
            <3> QED
                BY <1>3, <1>4, <3>1, AsideShown DEF CheckedBeforeTarget
        <2>8. InsideCall
            BY <1>2, <1>3, <1>4, <2>1, <2>2 DEF InsideCall, callVars
        <2>9. RunnerKeeps(Begun - 1)
            BY <1>1, <1>3, AsideKeeps
        <2>10. HeadShown
            BY <2>1, NotACheck
        <2> QED
            BY <1>1, <1>2, <1>4, <2>1, <2>3, <2>6, <2>7, <2>8, <2>9, <2>10, DoneStep
    <1> QED
        BY <1>5, <1>6, <1>7

------------------------------------------------------------------------------
(* Calls begin and return *)

(* What the properties depend on is left alone. *)
Settled ==
    /\ setup' = setup /\ states' = states /\ made' = made /\ seen' = seen /\ before' = before
    /\ given' = given /\ started' = started /\ bodied' = bodied /\ mods' = mods

(* Then what was checked stays checked. *)
LEMMA StillChecked ==
    ASSUME IInv, Settled
    PROVE  CheckedBeforeTarget' /\ ReplayComplete'
    <1>1. \A c : SeenBy(c)' = SeenBy(c)
        BY DEF SeenBy, Settled
    <1>2. CheckedBeforeTarget'
        BY <1>1 DEF IInv, CheckedBeforeTarget, Settled
    <1> QED
        BY <1>2 DEF IInv, ReplayComplete, Settled

(* A call begins, with its jobs. *)
LEMMA BeginStep ==
    ASSUME IInv, ~InCall, Settled, ended' = ended, todo' \in Seq(Jobs), call' \in Calls, ~call'.failed,
           \/ phase = "new" /\ phase' = "starting" /\ call'.name = "Start" /\ rcptCalls' = rcptCalls
           \/ /\ phase = "rcpts" /\ phase' = "rcpts" /\ call'.name = "AddRcpt"
              /\ rcptCalls < MaxRcptCalls /\ rcptCalls' = rcptCalls + 1
           \/ /\ phase = "rcpts" /\ phase' = "rcpts" /\ call'.name \in {"Body", "BodyNonAtomic"}
              /\ rcptCalls' = rcptCalls,
           call'.name = "Body" => ~setup.partial /\ \A t \in started : ToGet(t)',
           call'.name = "BodyNonAtomic" => setup.partial,
           \A i \in 1 .. Len(todo') : todo'[i].op \in Ops(call'.name),
           \A i \in 1 .. Len(todo') : todo'[i].op = "body" => todo'[i].tgt \in started,
           OrderOK'
    PROVE  IInv'
    <1>1. call' # Idle /\ InCall'
        <2>1. call'.name # "none"
            BY DEF Calls
        <2> QED
            BY <2>1 DEF Idle, InCall
    <1>2. rcptCalls \in Nat /\ rcptCalls <= MaxRcptCalls /\ MaxRcptCalls \in Nat
        BY PipelineAssumption DEF IInv, Kinds
    <1>3. rcptCalls' \in 0 .. MaxRcptCalls
        BY <1>2
    <1>4. Kinds'
        BY <1>3 DEF IInv, Kinds, Settled
    <1>5. CallOK'
        BY <1>1 DEF CallOK, Settled
    <1>6. Past = Begun /\ Begun \in Nat
        BY <1>2 DEF Past, Begun
    <1>7. Begun <= Past' /\ Past' \in Nat
        <2>1. Past' = Begun' - 1
            BY <1>1 DEF Past
        <2>2. CASE phase = "new"
            BY <1>2, <2>1, <2>2 DEF Begun
        <2>3. CASE phase = "rcpts" /\ call'.name = "AddRcpt"
            BY <1>1, <1>2, <2>1, <2>3 DEF Begun, InBody
        <2>4. CASE phase = "rcpts" /\ call'.name \in {"Body", "BodyNonAtomic"}
            BY <1>1, <1>2, <2>1, <2>4 DEF Begun, InBody
        <2> QED
            BY <2>2, <2>3, <2>4
    <1>8. MadeOK'
        <2>1. \A c \in Checks : made[c] \in Nat
            BY DEF IInv, Kinds
        <2>2. \A c \in Checks : states[c] <= made[c] /\ made[c] <= MaxStates /\ (states[c] = 0 => made[c] <= Past)
            BY DEF IInv, MadeOK
        <2> QED
            BY <1>6, <1>7, <2>1, <2>2 DEF MadeOK, Settled, MaxStates
    <1>9. CommitNeedsAllBodies' /\ \A t \in Targets : ended'[t] = "no"
        BY CommitStep DEF IInv, Kinds, Settled
    <1>10. BodyOK'
        <2>1. bodied \subseteq started
            BY DEF IInv, BodyOK
        <2> QED
            BY <1>9, <2>1 DEF BodyOK, Settled
    <1> QED
        BY <1>4, <1>5, <1>8, <1>9, <1>10, StillChecked DEF IInv

(* A call returns. *)
LEMMA ReturnStep ==
    ASSUME IInv, InCall, todo = <<>>, todo' = <<>>, call' = Idle, Settled, ended' = ended,
           rcptCalls' = rcptCalls,
           \/ phase' = "over"
           \/ InBody /\ phase' \in {"bodied", "bodyFailed"}
           \/ ~InBody /\ phase' = "rcpts",
           phase' = "bodied" /\ ~setup.partial => call.name = "Body" /\ ~call.failed
    PROVE  IInv'
    <1>1. phase \in {"starting", "rcpts"} /\ Begun \in Nat /\ Past \in Int /\ Past <= Begun
        BY BegunInCall
    <1>2. ~InCall'
        BY DEF InCall
    <1>3. Kinds'
        BY DEF IInv, Kinds, Settled
    <1>4. CallOK'
        BY <1>2 DEF CallOK
    <1>5. phase' # "over" => Past' = Begun
        <2>1. Past' = Begun' /\ ~InBody'
            BY <1>2 DEF Past, InBody
        <2> QED
            BY <1>1, <2>1 DEF Begun
    <1>6. MadeOK'
        <2>1. \A c \in Checks : made[c] \in Nat
            BY DEF IInv, Kinds
        <2>2. \A c \in Checks : states[c] <= made[c] /\ made[c] <= MaxStates /\ (states[c] = 0 => made[c] <= Past)
            BY <1>1 DEF IInv, MadeOK
        <2> QED
            BY <1>1, <1>5, <2>1, <2>2 DEF MadeOK, Settled, MaxStates
    <1>7. OrderOK'
        BY DEF OrderOK
    <1>8. CommitNeedsAllBodies' /\ \A t \in Targets : ended'[t] = "no"
        BY <1>1, CommitStep DEF IInv, Kinds, Settled
    <1>9. BodyOK'
        <2>1. bodied \subseteq started
            BY DEF IInv, BodyOK
        <2>2. ASSUME phase' = "bodied", ~setup.partial
              PROVE  bodied = started
            <3>1. \A t \in started : t \in bodied \/ ToGet(t)
                BY <2>2 DEF IInv, BodyOK
            <3>2. \A t : ~ToGet(t)
                BY DEF ToGet
            <3> QED
                BY <2>1, <3>1, <3>2
        <2> QED
            BY <1>2, <1>8, <2>1, <2>2 DEF BodyOK, Settled
    <1> QED
        BY <1>3, <1>4, <1>6, <1>7, <1>8, <1>9, StillChecked DEF IInv

(* The message is over: Commit or Abort. *)
LEMMA OverStep ==
    ASSUME IInv, ~InCall, Settled, call' = call, todo' = todo, rcptCalls' = rcptCalls, phase' = "over",
           ended' \in [Targets -> {"no", "committed", "commitFailed", "aborted"}], CommitNeedsAllBodies'
    PROVE  IInv'
    <1>1. ~InCall' /\ todo' = <<>>
        BY DEF InCall, IInv, CallOK
    <1>2. Kinds'
        BY DEF IInv, Kinds, Settled
    <1>3. CallOK'
        BY <1>1 DEF CallOK
    <1>4. MadeOK'
        BY DEF IInv, MadeOK, Settled, MaxStates
    <1>5. OrderOK'
        BY <1>1 DEF OrderOK
    <1>6. BodyOK'
        <2>1. bodied \subseteq started
            BY DEF IInv, BodyOK
        <2> QED
            BY <1>1, <2>1 DEF BodyOK, Settled
    <1> QED
        BY <1>2, <1>3, <1>4, <1>5, <1>6, StillChecked DEF IInv

(* Start: five jobs. *)
LEMMA StartStep ==
    ASSUME IInv, Start
    PROVE  IInv'
    <1>1. phase = "new" /\ phase' = "starting" /\ rcptCalls' = rcptCalls /\ call' = Call("Start", AnyAddr)
        BY DEF Start
    <1>2. ~InCall
        BY <1>1, BegunInCall
    <1>3. Settled /\ ended' = ended
        BY DEF Start, Settled, runnerVars, modVars, rcptVars, endVars
    <1>4. call' \in Calls /\ ~call'.failed /\ call'.name = "Start"
        BY <1>1 DEF Call, Calls, AddrArgs
    <1>5. PICK j1, j2, j3, j4, j5 :
            /\ todo' = <<j1, j2, j3, j4, j5>>
            /\ j1 = CheckJob(setup.global, "sender", AnyAddr) /\ j2 = ModJob("global", "open")
            /\ j3 = [op |-> "source"]
            /\ j4 = CheckJob(setup.source, "sender", AnyAddr) /\ j5 = ModJob("source", "open")
        BY DEF Start
    <1>6. setup.global \in GroupsOf(Checks) /\ setup.source \in GroupsOf(Checks)
        BY SetupGroups DEF IInv
    <1>7. /\ j1 \in Jobs /\ j1.op = "check" /\ j4 \in Jobs /\ j4.op = "check"
        BY <1>5, <1>6 DEF Jobs, CheckJobs, CheckJob, AddrArgs
    <1>8. /\ j2 \in Jobs /\ j2.op = "mod" /\ j5 \in Jobs /\ j5.op = "mod"
        BY <1>5 DEF Jobs, ModJobs, ModJob, Scopes
    <1>9. j3 \in Jobs /\ j3.op = "source"
        BY <1>5 DEF Jobs, PlainJobs
    <1>10. /\ todo' \in Seq(Jobs)
           /\ \A i \in 1 .. Len(todo') : todo'[i].op \in {"check", "mod", "source"}
        BY <1>5, <1>7, <1>8, <1>9
    <1>11. \A i \in 1 .. Len(todo') : todo'[i].op \in Ops(call'.name)
        BY <1>4, <1>10 DEF Ops
    <1>12. OrderOK'
        BY <1>10 DEF OrderOK, OrderAt
    <1> QED
        BY <1>1, <1>2, <1>3, <1>4, <1>10, <1>11, <1>12, BeginStep

(* The jobs that route what the modifiers made of a recipient. *)
LEMMA RoutedJobs ==
    ASSUME NEW r \in Rcpts
    PROVE  /\ RouteJobs(Expand[r]) \in Seq(Jobs)
           /\ \A i \in 1 .. Len(RouteJobs(Expand[r])) : RouteJobs(Expand[r])[i].op = "route"
    <1> DEFINE s == Expand[r]
    <1>1. s \in SeqOf(Addrs)
        BY PipelineAssumption
    <1> HIDE DEF s
    <1>2. s \in Seq(Addrs) /\ DOMAIN s = 1 .. Len(s) /\ Len(s) \in Nat
        BY <1>1, SeqOfIsSeq
    <1>3. \A i \in DOMAIN s : [op |-> "route", addr |-> s[i]] \in Jobs
        BY <1>2 DEF Jobs, RoutingJobs
    <1>4. RouteJobs(s) \in [1 .. Len(s) -> Jobs]
        BY <1>2, <1>3 DEF RouteJobs
    <1>5. RouteJobs(s) \in Seq(Jobs) /\ Len(RouteJobs(s)) = Len(s)
        BY <1>2, <1>4
    <1>6. \A i \in DOMAIN s : RouteJobs(s)[i].op = "route"
        BY DEF RouteJobs
    <1> QED
        BY <1>2, <1>5, <1>6 DEF s

(* AddRcpt: the checks of the pipeline and of the source come before the    *)
(* recipient is routed.                                                     *)
LEMMA AddRcptStep ==
    ASSUME IInv, NEW r \in Rcpts, AddRcpt(r)
    PROVE  IInv'
    <1>1. /\ phase = "rcpts" /\ phase' = "rcpts" /\ rcptCalls < MaxRcptCalls /\ rcptCalls' = rcptCalls + 1
          /\ call = Idle /\ call' = Call("AddRcpt", r)
        BY DEF AddRcpt
    <1>2. ~InCall
        BY <1>1 DEF InCall
    <1>3. Settled /\ ended' = ended
        BY DEF AddRcpt, Settled, runnerVars, modVars, rcptVars, endVars
    <1>4. r \in AddrArgs
        BY PipelineAssumption DEF AddrArgs
    <1>5. call' \in Calls /\ ~call'.failed /\ call'.name = "AddRcpt" /\ call'.rcpt = r
        BY <1>1, <1>4 DEF Call, Calls
    <1>6. PICK j1, j2, j3, j4 :
            /\ todo' = <<j1, j2, j3, j4>> \o RouteJobs(Expand[r])
            /\ j1 = CheckJob(setup.global, "rcpt", r) /\ j2 = CheckJob(setup.source, "rcpt", r)
            /\ j3 = ModJob("global", "rcpt") /\ j4 = ModJob("source", "rcpt")
        BY DEF AddRcpt
    <1> DEFINE first == <<j1, j2, j3, j4>>
               route == RouteJobs(Expand[r])
    <1>7. setup.global \in GroupsOf(Checks) /\ setup.source \in GroupsOf(Checks)
        BY SetupGroups DEF IInv
    <1>8. j1 \in Jobs /\ j1.op = "check" /\ j2 \in Jobs /\ j2.op = "check"
        BY <1>4, <1>6, <1>7 DEF Jobs, CheckJobs, CheckJob
    <1>9. j3 \in Jobs /\ j3.op = "mod" /\ j4 \in Jobs /\ j4.op = "mod"
        BY <1>6 DEF Jobs, ModJobs, ModJob, Scopes
    <1>10. /\ first \in Seq(Jobs) /\ Len(first) = 4 /\ first[1] = j1 /\ first[2] = j2
           /\ \A i \in 1 .. 4 : first[i].op \in {"check", "mod"}
        BY <1>8, <1>9
    <1>11. route \in Seq(Jobs) /\ \A i \in 1 .. Len(route) : route[i].op = "route"
        BY RoutedJobs
    <1>12. todo' = first \o route
        BY <1>6
    <1> HIDE DEF first, route
    <1>13. /\ todo' \in Seq(Jobs) /\ Len(first) \in Nat /\ Len(route) \in Nat
           /\ Len(todo') = Len(first) + Len(route)
           /\ \A i \in 1 .. Len(first) : todo'[i] = first[i]
           /\ \A i \in 1 .. Len(route) : todo'[Len(first) + i] = route[i]
        <2>1. first \in Seq(Jobs) /\ route \in Seq(Jobs)
            BY <1>10, <1>11
        <2> QED
            BY ONLY <1>12, <2>1, ListConcat
    <1>14. \A i \in 1 .. Len(todo') :
            todo'[i].op \in {"check", "mod"} \/ (i > 4 /\ todo'[i].op = "route")
        <2> TAKE i \in 1 .. Len(todo')
        <2>1. CASE i \in 1 .. 4
            BY <1>10, <1>13, <2>1
        <2>2. CASE i \notin 1 .. 4
            <3>1. i - 4 \in 1 .. Len(route) /\ Len(first) + (i - 4) = i /\ i > 4
                BY <1>10, <1>13, <2>2
            <3>2. todo'[Len(first) + (i - 4)] = route[i - 4]
                BY <1>13, <3>1
            <3> QED
                BY <1>11, <3>1, <3>2
        <2> QED
            BY <2>1, <2>2
    <1>15. todo'[1] = CheckJob(setup.global, "rcpt", r) /\ todo'[2] = CheckJob(setup.source, "rcpt", r)
        BY <1>6, <1>10, <1>13
    <1>16. ASSUME NEW i \in 1 .. Len(todo')
           PROVE  OrderAt(i)'
        <2>1. CASE todo'[i].op \in {"check", "mod"}
            BY <2>1 DEF OrderAt
        <2>2. CASE i > 4 /\ todo'[i].op = "route"
            <3>1. 1 \in 1 .. i - 1 /\ 2 \in 1 .. i - 1
                BY <1>13, <2>2
            <3>2. setup' = setup
                BY <1>3 DEF Settled
            <3>3. Covered(i, setup.global, call.rcpt)' /\ Covered(i, setup.source, call.rcpt)'
                BY <1>5, <1>15, <3>1, <3>2 DEF Covered
            <3> QED
                BY <2>2, <3>3 DEF OrderAt
        <2> QED
            BY <1>14, <2>1, <2>2
    <1>17. OrderOK'
        BY <1>16 DEF OrderOK
    <1>18. \A i \in 1 .. Len(todo') : todo'[i].op \in Ops(call'.name) /\ todo'[i].op # "body"
        BY <1>5, <1>14 DEF Ops
    <1> QED
        BY <1>1, <1>2, <1>3, <1>5, <1>13, <1>17, <1>18, BeginStep

(* Body: the jobs before those of the targets, and one for every delivery. *)
BeforeTargets == {j \in Jobs : j.op \in {"check", "mod", "apply"}}

(* The jobs of the blocks that took part. *)
LEMMA BlockJobsMade ==
    ASSUME IInv, NEW bs \in Orders(mods \cap Blocks)
    PROVE  BlockBodyJobs(bs) \in Seq(BeforeTargets) /\ BlockModJobs(bs) \in Seq(BeforeTargets)
    <1>1. IsFiniteSet(mods \cap Blocks)
        BY PipelineAssumption, FS_Subset
    <1>2. bs \in Seq(mods \cap Blocks) /\ DOMAIN bs = 1 .. Len(bs)
        BY <1>1, OrdersReachAll
    <1>3. \A i \in DOMAIN bs : bs[i] \in Blocks
        BY <1>2
    <1>4. \A b \in Blocks : setup.block[b] \in GroupsOf(Checks)
        BY SetupGroups DEF IInv
    <1>5. \A i \in DOMAIN bs : CheckJob(setup.block[bs[i]], "body", AnyAddr) \in BeforeTargets
        BY <1>3, <1>4 DEF CheckJob, CheckJobs, Jobs, BeforeTargets, AddrArgs
    <1>6. \A i \in DOMAIN bs : ModJob(bs[i], "body") \in BeforeTargets
        BY <1>3 DEF ModJob, ModJobs, Jobs, BeforeTargets, Scopes
    <1>7. Len(bs) \in Nat
        BY <1>2
    <1>8. BlockBodyJobs(bs) \in [1 .. Len(bs) -> BeforeTargets]
        BY <1>2, <1>5 DEF BlockBodyJobs
    <1>9. BlockModJobs(bs) \in [1 .. Len(bs) -> BeforeTargets]
        BY <1>2, <1>6 DEF BlockModJobs
    <1> QED
        BY <1>7, <1>8, <1>9

(* The jobs of the targets reach every delivery. *)
LEMMA TargetJobsMade ==
    ASSUME IInv, NEW ts \in Orders(started)
    PROVE  /\ TargetJobs(ts) \in Seq(Jobs)
           /\ \A i \in 1 .. Len(TargetJobs(ts)) : TargetJobs(ts)[i].op = "body" /\ TargetJobs(ts)[i].tgt \in started
           /\ \A t \in started : \E i \in 1 .. Len(TargetJobs(ts)) : TargetJobs(ts)[i].tgt = t
    <1>1. started \subseteq Targets /\ IsFiniteSet(started)
        BY PipelineAssumption, FS_Subset DEF IInv, Kinds
    <1>2. /\ ts \in Seq(started) /\ DOMAIN ts = 1 .. Len(ts)
          /\ \A x \in started : \E i \in 1 .. Len(ts) : ts[i] = x
        BY <1>1, OrdersReachAll
    <1>3. \A i \in 1 .. Len(ts) : [op |-> "body", tgt |-> ts[i]] \in Jobs
        BY <1>1, <1>2 DEF Jobs, BodyJobs
    <1>4. Len(ts) \in Nat
        BY <1>2
    <1>5. TargetJobs(ts) \in [1 .. Len(ts) -> Jobs]
        BY <1>2, <1>3 DEF TargetJobs
    <1>6. TargetJobs(ts) \in Seq(Jobs) /\ Len(TargetJobs(ts)) = Len(ts)
        BY <1>4, <1>5
    <1>7. \A i \in 1 .. Len(ts) : TargetJobs(ts)[i].op = "body" /\ TargetJobs(ts)[i].tgt = ts[i]
        BY <1>2 DEF TargetJobs
    <1>8. \A i \in 1 .. Len(ts) : ts[i] \in started
        BY <1>2
    <1> QED
        BY <1>2, <1>6, <1>7, <1>8

(* Body and BodyNonAtomic begin. *)
LEMMA BodyStep ==
    ASSUME IInv, Body
    PROVE  IInv'
    <1>1. /\ phase = "rcpts" /\ phase' = "rcpts" /\ rcptCalls' = rcptCalls /\ call = Idle
          /\ call' = Call(IF setup.partial THEN "BodyNonAtomic" ELSE "Body", AnyAddr)
        BY DEF Body, callVars
    <1>2. ~InCall
        BY <1>1 DEF InCall
    <1>3. Settled /\ ended' = ended
        BY DEF Body, Settled, callVars, runnerVars, modVars, rcptVars, endVars
    <1>4. /\ call' \in Calls /\ ~call'.failed /\ call'.name \in {"Body", "BodyNonAtomic"}
          /\ call'.name = "Body" => ~setup.partial
          /\ call'.name = "BodyNonAtomic" => setup.partial
        BY <1>1 DEF Call, Calls, AddrArgs
    <1>5. PICK bs \in Orders(mods \cap Blocks), ts \in Orders(started) :
            todo' = <<CheckJob(setup.global, "body", AnyAddr), CheckJob(setup.source, "body", AnyAddr)>>
                    \o (IF setup.partial THEN <<>> ELSE Append(BlockBodyJobs(bs), [op |-> "apply"]))
                    \o <<ModJob("global", "body"), ModJob("source", "body")>>
                    \o BlockModJobs(bs) \o TargetJobs(ts)
        BY DEF Body
    <1> DEFINE checks == <<CheckJob(setup.global, "body", AnyAddr), CheckJob(setup.source, "body", AnyAddr)>>
               inner == IF setup.partial THEN <<>> ELSE Append(BlockBodyJobs(bs), [op |-> "apply"])
               modifiers == <<ModJob("global", "body"), ModJob("source", "body")>>
               first == checks \o inner \o modifiers \o BlockModJobs(bs)
               last == TargetJobs(ts)
    <1>6. todo' = first \o last
        BY <1>5
    <1>7. checks \in Seq(BeforeTargets)
        <2>1. setup.global \in GroupsOf(Checks) /\ setup.source \in GroupsOf(Checks)
            BY SetupGroups DEF IInv
        <2>2. /\ CheckJob(setup.global, "body", AnyAddr) \in BeforeTargets
              /\ CheckJob(setup.source, "body", AnyAddr) \in BeforeTargets
            BY <2>1 DEF CheckJob, CheckJobs, Jobs, BeforeTargets, AddrArgs
        <2> QED
            BY <2>2
    <1>8. BlockBodyJobs(bs) \in Seq(BeforeTargets) /\ BlockModJobs(bs) \in Seq(BeforeTargets)
        BY BlockJobsMade
    <1>9. inner \in Seq(BeforeTargets)
        <2>1. [op |-> "apply"] \in BeforeTargets
            BY DEF PlainJobs, Jobs, BeforeTargets
        <2> QED
            BY <1>8, <2>1
    <1>10. modifiers \in Seq(BeforeTargets)
        <2>1. ModJob("global", "body") \in BeforeTargets /\ ModJob("source", "body") \in BeforeTargets
            BY DEF ModJob, ModJobs, Jobs, BeforeTargets, Scopes
        <2> QED
            BY <2>1
    <1> HIDE DEF checks, inner, modifiers
    <1>11. first \in Seq(BeforeTargets)
        BY <1>7, <1>8, <1>9, <1>10
    <1>12. /\ last \in Seq(Jobs)
           /\ \A i \in 1 .. Len(last) : last[i].op = "body" /\ last[i].tgt \in started
           /\ \A t \in started : \E i \in 1 .. Len(last) : last[i].tgt = t
        BY TargetJobsMade
    <1> HIDE DEF first, last
    <1>13. first \in Seq(Jobs) /\ \A i \in 1 .. Len(first) : first[i].op \in {"check", "mod", "apply"}
        BY <1>11 DEF BeforeTargets
    <1>14. /\ todo' \in Seq(Jobs) /\ Len(first) \in Nat /\ Len(last) \in Nat
           /\ Len(todo') = Len(first) + Len(last)
           /\ \A i \in 1 .. Len(first) : todo'[i] = first[i]
           /\ \A i \in 1 .. Len(last) : todo'[Len(first) + i] = last[i]
        <2>1. first \in Seq(Jobs) /\ last \in Seq(Jobs)
            BY <1>12, <1>13
        <2> QED
            BY ONLY <1>6, <2>1, ListConcat
    <1>15. \A i \in 1 .. Len(todo') :
            \/ todo'[i].op \in {"check", "mod", "apply"}
            \/ todo'[i].op = "body" /\ todo'[i].tgt \in started
        <2> TAKE i \in 1 .. Len(todo')
        <2>1. CASE i \in 1 .. Len(first)
            BY <1>13, <1>14, <2>1
        <2>2. CASE i \notin 1 .. Len(first)
            <3>1. i - Len(first) \in 1 .. Len(last) /\ Len(first) + (i - Len(first)) = i
                BY <1>14, <2>2
            <3>2. todo'[Len(first) + (i - Len(first))] = last[i - Len(first)]
                BY <1>14, <3>1
            <3> QED
                BY <1>12, <3>1, <3>2
        <2> QED
            BY <2>1, <2>2
    <1>16. ASSUME NEW t \in started
           PROVE  ToGet(t)'
        <2>1. PICK i \in 1 .. Len(last) : last[i].tgt = t /\ last[i].op = "body"
            BY <1>12
        <2>2. Len(first) + i \in 1 .. Len(todo') /\ todo'[Len(first) + i] = last[i]
            BY <1>14
        <2> QED
            BY <2>1, <2>2 DEF ToGet
    <1>17. OrderOK'
        BY <1>15 DEF OrderOK, OrderAt
    <1>18. \A i \in 1 .. Len(todo') : todo'[i].op \in Ops(call'.name)
        BY <1>4, <1>15 DEF Ops
    <1> QED
        BY <1>1, <1>2, <1>3, <1>4, <1>14, <1>15, <1>16, <1>17, <1>18, BeginStep

(* The calls return; Body leaves no delivery without a body unless it fails. *)
LEMMA ReturnSteps ==
    ASSUME IInv, StartReturns \/ AddRcptReturns \/ BodyReturns \/ BodyNonAtomicReturns
    PROVE  IInv'
    <1>1. todo = <<>> /\ todo' = <<>> /\ call' = Idle /\ call.name \in {"Start", "AddRcpt", "Body", "BodyNonAtomic"}
        BY DEF StartReturns, AddRcptReturns, BodyReturns, BodyNonAtomicReturns, Returned, Return
    <1>2. InCall
        BY <1>1 DEF InCall, Idle
    <1>3. Settled /\ ended' = ended /\ rcptCalls' = rcptCalls
        BY DEF StartReturns, AddRcptReturns, BodyReturns, BodyNonAtomicReturns, Close, Settled,
               runnerVars, modVars, rcptVars, endVars
    <1>4. /\ phase = IF call.name = "Start" THEN "starting" ELSE "rcpts"
          /\ call.name = "BodyNonAtomic" => setup.partial
        BY <1>2 DEF IInv, CallOK
    <1>5. call \in Calls /\ call.failed \in BOOLEAN
        BY <1>2, BegunInCall DEF Calls
    <1>6. CASE StartReturns
        BY <1>1, <1>2, <1>3, <1>6, ReturnStep DEF StartReturns, InBody
    <1>7. CASE AddRcptReturns
        BY <1>1, <1>2, <1>3, <1>4, <1>7, ReturnStep DEF AddRcptReturns, InBody
    <1>8. CASE BodyReturns
        BY <1>1, <1>2, <1>3, <1>5, <1>8, ReturnStep DEF BodyReturns, InBody
    <1>9. CASE BodyNonAtomicReturns
        BY <1>1, <1>2, <1>3, <1>4, <1>9, ReturnStep DEF BodyNonAtomicReturns, InBody
    <1> QED
        BY <1>6, <1>7, <1>8, <1>9

(* Commit and Abort decide for all deliveries. *)
LEMMA EndSteps ==
    ASSUME IInv, Commit \/ Abort
    PROVE  IInv'
    <1>1. /\ phase' = "over" /\ call' = call /\ todo' = todo /\ rcptCalls' = rcptCalls /\ Settled
        BY DEF Commit, Abort, Close, Settled, rcptVars
    <1>2. ~InCall
        BY BegunInCall DEF Commit, Abort, InCall
    <1>3. /\ phase # "over" /\ started \subseteq Targets
          /\ ended \in [Targets -> {"no", "committed", "commitFailed", "aborted"}]
        BY DEF Commit, Abort, IInv, Kinds
    <1>4. \A t \in Targets : ended[t] = "no"
        BY <1>3 DEF IInv, BodyOK
    <1>5. setup' = setup /\ started' = started /\ bodied' = bodied
        BY <1>1 DEF Settled
    <1>6. CASE Commit
        <2>1. phase = "bodied"
            BY <1>6 DEF Commit
        <2>2. ~setup.partial => bodied = started
            BY <2>1 DEF IInv, BodyOK
        <2>3. PICK done, failing :
                ended' = [t \in Targets |-> IF t \in done THEN "committed"
                                            ELSE IF t \in failing THEN "commitFailed" ELSE ended[t]]
            BY <1>6 DEF Commit
        <2>4. ended' \in [Targets -> {"no", "committed", "commitFailed", "aborted"}]
            BY <1>3, <2>3
        <2>5. \A t \in started : ended'[t] # "aborted"
            BY <1>3, <1>4, <2>3
        <2>6. CommitNeedsAllBodies'
            BY <1>5, <2>2, <2>5 DEF CommitNeedsAllBodies
        <2> QED
            BY <1>1, <1>2, <2>4, <2>6, OverStep
    <1>7. CASE Abort
        <2>1. ended' = [t \in Targets |-> IF t \in started THEN "aborted" ELSE ended[t]]
            BY <1>7 DEF Abort
        <2>2. ended' \in [Targets -> {"no", "committed", "commitFailed", "aborted"}]
            BY <1>3, <2>1
        <2>3. \A t \in started : ended'[t] = "aborted"
            BY <1>3, <2>1
        <2>4. CommitNeedsAllBodies'
            BY <1>5, <2>3 DEF CommitNeedsAllBodies
        <2> QED
            BY <1>1, <1>2, <2>2, <2>4, OverStep
    <1> QED
        BY <1>6, <1>7

------------------------------------------------------------------------------
(* Theorems *)

(* The invariant holds of a new message. *)
LEMMA InitIInv ==
    ASSUME Init
    PROVE  IInv
    <1>1. ~InCall /\ todo = <<>> /\ phase = "new"
        BY DEF Init, InCall
    <1>2. MaxRcptCalls \in Nat /\ MaxStates \in Nat
        BY PipelineAssumption DEF MaxStates
    <1>3. Kinds
        BY <1>2 DEF Init, Kinds
    <1>4. CallOK /\ OrderOK
        BY <1>1 DEF CallOK, OrderOK
    <1>5. Past = 0
        BY <1>1 DEF Past, Begun
    <1>6. MadeOK
        BY <1>2, <1>5 DEF Init, MadeOK
    <1>7. BodyOK
        BY <1>1 DEF Init, BodyOK
    <1>8. CheckedBeforeTarget /\ CommitNeedsAllBodies
        BY DEF Init, CheckedBeforeTarget, CommitNeedsAllBodies
    <1>9. ReplayComplete
        BY DEF Init, ReplayComplete
    <1> QED
        BY <1>3, <1>4, <1>6, <1>7, <1>8, <1>9 DEF IInv

(* Every step preserves the invariant. *)
LEMMA NextIInv ==
    ASSUME IInv, [Next]_vars
    PROVE  IInv'
    <1>1. CASE Start
        BY <1>1, StartStep
    <1>2. CASE SourceFound \/ SourceRejected
        BY <1>2, SourceSteps
    <1>3. CASE CheckInitFails \/ CheckReplayRejects \/ CheckPasses \/ CheckRejects
        BY <1>3, CheckSteps
    <1>4. CASE ModOpens \/ ModOpenFails \/ ModSenderFails \/ ModRewrites \/ ModRewriteFails
        BY <1>4, ModifierSteps
    <1>5. CASE \E r \in Rcpts : AddRcpt(r)
        BY <1>5, AddRcptStep
    <1>6. CASE Route
        BY <1>6, RouteStep
    <1>7. CASE Fan
        BY <1>7, FanStep
    <1>8. CASE Give \/ GiveFails \/ RouteRejected
        BY <1>8, GiveSteps
    <1>9. CASE Body
        BY <1>9, BodyStep
    <1>10. CASE ApplyResults \/ ApplyRejects
        BY <1>10, ApplySteps
    <1>11. CASE TargetBody \/ TargetBodyFails \/ TargetFailsForAll \/ TargetReports
        BY <1>11, TargetSteps
    <1>12. CASE StartReturns \/ AddRcptReturns \/ BodyReturns \/ BodyNonAtomicReturns
        BY <1>12, ReturnSteps
    <1>13. CASE Commit \/ Abort
        BY <1>13, EndSteps
    <1>14. CASE UNCHANGED vars
        <2>1. /\ Settled /\ call' = call /\ todo' = todo /\ phase' = phase /\ rcptCalls' = rcptCalls
              /\ ended' = ended
            BY <1>14 DEF vars, callVars, runnerVars, modVars, rcptVars, endVars, Settled
        <2>2. InCall' = InCall /\ (\A c : SeenBy(c)' = SeenBy(c)) /\ MaxStates' = MaxStates
            BY <2>1 DEF InCall, SeenBy, Settled, MaxStates
        <2>3. Kinds'
            BY <2>1 DEF IInv, Kinds, Settled
        <2>4. CallOK'
            BY <2>1, <2>2 DEF IInv, CallOK, Settled
        <2>5. Past' = Past
            BY <2>1, <2>2 DEF Past, Begun, InBody
        <2>6. MadeOK'
            BY <2>1, <2>2, <2>5 DEF IInv, MadeOK, Settled
        <2>7. OrderOK'
            BY <2>1, <2>2 DEF IInv, OrderOK, OrderAt, Covered, ShownAll, Settled
        <2>8. BodyOK' /\ CommitNeedsAllBodies'
            BY <2>1, <2>2 DEF IInv, BodyOK, ToGet, CommitNeedsAllBodies, Settled
        <2> QED
            BY <2>1, <2>3, <2>4, <2>6, <2>7, <2>8, StillChecked DEF IInv
    <1> QED
        BY <1>1, <1>2, <1>3, <1>4, <1>5, <1>6, <1>7, <1>8, <1>9, <1>10, <1>11, <1>12, <1>13, <1>14 DEF Next

(* The inductive invariant holds of every message, whatever fails.          *)
THEOREM PipelineInvariant == Spec => []IInv
    BY InitIInv, NextIInv, PTL DEF Spec

(* Nothing reaches a target before the checks of the pipeline, its source   *)
(* and its block were shown it (msgpipeline.go AddRcpt), whatever calls and *)
(* state objects failed before.                                             *)
THEOREM PipelineCheckedBeforeTarget == Spec => []CheckedBeforeTarget
    <1>1. IInv => CheckedBeforeTarget
        BY DEF IInv
    <1> QED
        BY <1>1, PipelineInvariant, PTL

(* A check that joins late is shown all recipients checked before it        *)
(* (checkStates in check_runner.go).                                        *)
THEOREM PipelineReplayComplete == Spec => []ReplayComplete
    <1>1. IInv => ReplayComplete
        BY DEF IInv
    <1> QED
        BY <1>1, PipelineInvariant, PTL

(* Atomic delivery: Commit happens only after all targets accepted the body *)
(* and an aborted message has no committed delivery.                        *)
THEOREM PipelineCommitNeedsAllBodies == Spec => []CommitNeedsAllBodies
    <1>1. IInv => CommitNeedsAllBodies
        BY DEF IInv
    <1> QED
        BY <1>1, PipelineInvariant, PTL

------------------------------------------------------------------------------
(* The inductive invariant of Checks: where a verdict is while the stages   *)
(* go on.                                                                   *)

Working == {"conn", "sender", "rcpt", "body"}

ChecksShape ==
    /\ scenario \in Scenarios
    /\ stage \in Working \cup {"early", "envelope", "apply", "end"}
    /\ outcome \in {"none", "accepted", "rejected", "refused", "aborted"}
    /\ stage # "end" => outcome = "none"
    /\ running # {} => stage \in Working
    /\ merged = [quarantine |-> merged.quarantine, auth |-> merged.auth]
    /\ bl = [left |-> bl.left, listed |-> bl.listed, score |-> bl.score, failed |-> bl.failed, stored |-> bl.stored]
    /\ spf = [skip |-> spf.skip, task |-> spf.task, chan |-> spf.chan, deferred |-> spf.deferred, lookup |-> spf.lookup]
    /\ dmarc = [task |-> dmarc.task, chan |-> dmarc.chan, rnd |-> dmarc.rnd]
    /\ rcpts \in Nat /\ passed \subseteq 1 .. rcpts
    /\ stage = "rcpt" => rcpts > 0 /\ rcpts \notin passed
    /\ \A v \in said : v.of \in 0 .. rcpts

Going == outcome \in {"none", "accepted"}
Standing(v) == (v.reject => found.reject) /\ (v.quarantine => found.quarantine \/ merged.quarantine)
Decided(v) == ~v.reject /\ (v.quarantine => merged.quarantine)

VerdictsKept ==
    /\ Going => \A v \in said : Plain(v) =>
          /\ v.of = 0 => Decided(v) \/ (stage \in {"conn", "sender", "body"} /\ Standing(v))
          /\ v.of \in passed => Decided(v)
          /\ v.of = rcpts /\ stage = "rcpt" => Standing(v)
    /\ outcome = "accepted" /\ merged.quarantine => quarantined

MustOwn ==
    /\ "authorize" \in scenario.checks /\ scenario.conn # "local"
    /\ Actions["unauth"] = "reject" /\ Actions["no_match"] = "reject" /\ Actions["err"] = "reject"
SenderIsUser == scenario.user # "" /\ scenario.mailFrom \in owned
HeaderIsUser == scenario.checkHeader => scenario.hdr.from \in owned \/ scenario.hdr.sender \in owned

OwnersKept ==
    MustOwn =>
        /\ stage = "sender" /\ "authorize" \notin running => found.reject \/ SenderIsUser
        /\ stage \in {"envelope", "rcpt", "body", "apply"} \/ outcome = "accepted" => SenderIsUser
        /\ stage = "body" /\ "authorize" \notin running => found.reject \/ HeaderIsUser
        /\ stage = "apply" \/ outcome = "accepted" => HeaderIsUser

Seen(kind) == \E r \in merged.auth : r.kind = kind

DeferralKept ==
    /\ dmarc.task = "running" => dmarc.chan = Empty
    /\ stage \in {"early", "conn", "sender", "envelope", "rcpt"} => dmarc.task = "none" /\ dmarc.chan = Empty
    /\ outcome = "accepted" /\ scenario.dmarc => dmarc.chan # Empty
    /\ spf.deferred =>
          /\ Seen("spf")
          /\ spf.lookup.err = "no" /\ spf.lookup.found
          /\ PolicyFor(scenario.from, spf.lookup) \in {"quarantine", "reject"}
    /\ "dkim" \in scenario.checks =>
          /\ stage = "body" /\ "dkim" \notin running => found.reject \/ Seen("dkim")
          /\ stage = "apply" \/ outcome = "accepted" => Seen("dkim")
    /\ DeferredDecided

Score(S) == MapThenSumSet(LAMBDA l : l.score, S)

ListingsKept ==
    Early =>
        /\ bl.left \subseteq Lists /\ bl.listed \subseteq Lists \ bl.left
        /\ bl.score = Score(bl.listed)
        /\ stage # "early" /\ Going => bl.stored = ListsVerdict(bl.failed, bl.score)
        /\ stage = "conn" /\ "dnsbl" \notin running =>
              (bl.stored.reject => found.reject) /\ (bl.stored.quarantine => found.quarantine)
        /\ stage \in {"sender", "envelope", "rcpt", "body", "apply"} \/ outcome = "accepted" =>
              ~bl.stored.reject /\ (bl.stored.quarantine => merged.quarantine)

ChecksInv == ChecksShape /\ VerdictsKept /\ OwnersKept /\ DeferralKept /\ ListingsKept

------------------------------------------------------------------------------
(* A step of Checks is a check that finishes, or one of the others. *)

SpfKept == spf' = [skip |-> spf'.skip, task |-> spf'.task, chan |-> spf'.chan, deferred |-> spf'.deferred, lookup |-> spf'.lookup]

(* The checks that finish, and what becomes of the state of SPF. *)
LEMMA FinishingActions ==
    ASSUME ChecksShape,
           (\E k \in {"dnsbl", "rdns", "tls", "mx", "dkim", "command", "rspamd"} : Simple(k)) \/ Authorize \/ Milter
           \/ SpfConnection \/ SpfBody
    PROVE  /\ \E k \in running : \E res : Finish(k, res)
           /\ UNCHANGED Others
           /\ SpfKept
<1> USE DEF SpfKept
<1>0. spf = [skip |-> spf.skip, task |-> spf.task, chan |-> spf.chan, deferred |-> spf.deferred, lookup |-> spf.lookup]
  BY DEF ChecksShape
<1>1. CASE \E k \in {"dnsbl", "rdns", "tls", "mx", "dkim", "command", "rspamd"} : Simple(k)
  BY <1>1, <1>0 DEF Simple
<1>2. CASE Authorize
  BY <1>2, <1>0 DEF Authorize
<1>3. CASE Milter
  BY <1>3, <1>0 DEF Milter
<1>4. CASE SpfConnection
  BY <1>4, <1>0 DEF SpfConnection
<1>5. CASE SpfBody
  BY <1>5, <1>0 DEF SpfBody
<1> QED  BY <1>1, <1>2, <1>3, <1>4, <1>5

LEMMA FinishShape ==
    ASSUME ChecksShape, NEW k \in running, NEW res, Finish(k, res), UNCHANGED Others, SpfKept
    PROVE  ChecksShape'
<1>1. merged' = [quarantine |-> merged.quarantine, auth |-> merged.auth \cup res.auth]
  BY Zenon DEF ChecksShape, Finish
<1>2. /\ scenario' \in Scenarios
      /\ stage' \in Working \cup {"early", "envelope", "apply", "end"}
      /\ outcome' \in {"none", "accepted", "rejected", "refused", "aborted"}
      /\ stage' # "end" => outcome' = "none"
      /\ running' # {} => stage' \in Working
      /\ rcpts' \in Nat /\ passed' \subseteq 1 .. rcpts'
      /\ stage' = "rcpt" => rcpts' > 0 /\ rcpts' \notin passed'
      /\ UNCHANGED <<bl, dmarc>>
  BY DEF ChecksShape, Finish, Others, msgVars
<1>3. ASSUME NEW v \in said'  PROVE v.of \in 0 .. rcpts'
  <2>1. CASE v \in said  BY <2>1 DEF ChecksShape, Others, msgVars
  <2>2. CASE v \notin said
    <3>1. v.of = Scope  BY <2>2 DEF Finish
    <3>2. Scope \in 0 .. rcpts  BY DEF Scope, ChecksShape
    <3> QED  BY <3>1, <3>2 DEF Others, msgVars
  <2> QED  BY <2>1, <2>2
<1>4. merged' = [quarantine |-> merged'.quarantine, auth |-> merged'.auth]
  BY <1>1
<1> QED  BY <1>2, <1>3, <1>4 DEF ChecksShape, SpfKept

(* What the record of the stage becomes when a check finishes. *)
LEMMA FinishFound ==
    ASSUME ChecksShape, NEW k, NEW res, Finish(k, res)
    PROVE  /\ merged'.quarantine = merged.quarantine
           /\ merged'.auth = merged.auth \cup res.auth
           /\ found.reject => found'.reject
           /\ found.quarantine => found'.quarantine
           /\ res.quarantine => found'.quarantine
           /\ res.reject /\ ~res.quarantine => found'.reject
           /\ running' = running \ {k}
<1>1. merged' = [quarantine |-> merged.quarantine, auth |-> merged.auth \cup res.auth]
  BY Zenon DEF ChecksShape, Finish
<1>2. found' = [reject |-> found.reject \/ (~res.quarantine /\ res.reject), quarantine |-> found.quarantine \/ res.quarantine]
  BY Zenon DEF Finish
<1>3. /\ found'.reject = (found.reject \/ (~res.quarantine /\ res.reject))
      /\ found'.quarantine = (found.quarantine \/ res.quarantine)
  BY <1>2, Zenon
<1> QED  BY <1>1, <1>3, Zenon DEF Finish

LEMMA FinishVerdicts ==
    ASSUME ChecksShape, VerdictsKept, NEW k \in running, NEW res, Finish(k, res), UNCHANGED Others
    PROVE  VerdictsKept'
<1>1. UNCHANGED <<stage, outcome, rcpts, passed, quarantined>>
  BY DEF Others, msgVars
<1>2. stage \in Working /\ outcome = "none"
  BY DEF ChecksShape, Working
<1>3. ASSUME NEW v \in said', Plain(v)
      PROVE  /\ v.of = 0 => Decided(v)' \/ (stage' \in {"conn", "sender", "body"} /\ Standing(v)')
             /\ v.of \in passed' => Decided(v)'
             /\ v.of = rcpts' /\ stage' = "rcpt" => Standing(v)'
  <2>1. CASE v \in said
    <3>1. Decided(v) => Decided(v)'  BY FinishFound, Zenon DEF Decided
    <3>2. Standing(v) => Standing(v)'  BY FinishFound, Zenon DEF Standing
    <3> QED  BY <1>1, <1>2, <1>3, <2>1, <3>1, <3>2 DEF VerdictsKept, Going
  <2>2. CASE v \notin said
    <3>1. v = [of |-> Scope, at |-> stage, by |-> k, reject |-> res.reject, quarantine |-> res.quarantine]
      BY <2>2 DEF Finish
    <3>2. v.of = Scope /\ v.reject = res.reject /\ v.quarantine = res.quarantine
      BY <3>1
    <3>3. Standing(v)'
      BY <1>3, <3>2, FinishFound, Zenon DEF Standing, Plain
    <3>4. IF stage = "rcpt" THEN v.of = rcpts ELSE v.of = 0
      BY <3>2 DEF Scope
    <3>5. rcpts \in Nat /\ passed \subseteq 1 .. rcpts /\ (stage = "rcpt" => rcpts > 0 /\ rcpts \notin passed)
      BY DEF ChecksShape
    <3>6. v.of \notin passed
      BY <3>4, <3>5
    <3>7. v.of = 0 => stage \in {"conn", "sender", "body"}
      BY <1>2, <3>4, <3>5 DEF Working
    <3> QED  BY <1>1, <3>3, <3>6, <3>7
  <2> QED  BY <2>1, <2>2
<1> QED  BY <1>1, <1>2, <1>3, Zenon DEF VerdictsKept

(* A check other than authorisation leaves what is known of the sender. *)
LEMMA FinishOwners ==
    ASSUME ChecksShape, OwnersKept, NEW k \in running, NEW res, Finish(k, res), UNCHANGED Others,
           MustOwn /\ k = "authorize" =>
               /\ stage = "sender" => (res.reject /\ ~res.quarantine) \/ SenderIsUser
               /\ stage = "body" => (res.reject /\ ~res.quarantine) \/ HeaderIsUser
    PROVE  OwnersKept'
<1>1. UNCHANGED <<scenario, stage, outcome>>
  BY DEF Others, msgVars
<1>2. UNCHANGED MustOwn /\ UNCHANGED SenderIsUser /\ UNCHANGED HeaderIsUser
  BY <1>1 DEF MustOwn, SenderIsUser, HeaderIsUser
<1>3. SUFFICES ASSUME MustOwn PROVE
        /\ stage = "sender" /\ "authorize" \notin running' => found'.reject \/ SenderIsUser
        /\ stage = "body" /\ "authorize" \notin running' => found'.reject \/ HeaderIsUser
  BY <1>1, <1>2, Zenon DEF OwnersKept
<1>4. /\ stage = "sender" /\ "authorize" \notin running => found.reject \/ SenderIsUser
      /\ stage = "body" /\ "authorize" \notin running => found.reject \/ HeaderIsUser
  BY <1>3, Zenon DEF OwnersKept
<1>5. k = "authorize" \/ ("authorize" \notin running' => "authorize" \notin running)
  BY FinishFound
<1> QED  BY <1>3, <1>4, <1>5, FinishFound, Zenon

LEMMA ComplaintIs == Complaint = [reason |-> TRUE, quarantine |-> FALSE, reject |-> FALSE, auth |-> {}]
<1>1. PICK f : f = FALSE  OBVIOUS
<1>2. PICK t : t = TRUE  OBVIOUS
<1>3. PICK e : e = {}  OBVIOUS
<1>4. Complaint = [[reason |-> f, quarantine |-> f, reject |-> f, auth |-> e] EXCEPT !.reason = t]
  BY <1>1, <1>2, <1>3, Zenon DEF Complaint, Pass
<1>5. [[reason |-> f, quarantine |-> f, reject |-> f, auth |-> e] EXCEPT !.reason = t]
        = [reason |-> t, quarantine |-> f, reject |-> f, auth |-> e]
  OBVIOUS
<1> QED  BY <1>1, <1>2, <1>3, <1>4, <1>5, Zenon

LEMMA ApplyReject ==
    Apply("reject", Complaint).reason /\ Apply("reject", Complaint).reject /\ ~Apply("reject", Complaint).quarantine
<1>1. PICK c : c = Complaint  OBVIOUS
<1>2. c = [reason |-> TRUE, quarantine |-> FALSE, reject |-> FALSE, auth |-> {}]
  BY <1>1, ComplaintIs, Zenon
<1>3. c.reason = TRUE /\ c.quarantine = FALSE
  BY <1>2
<1>4. PICK q : q = (c.quarantine \/ (c.reason /\ "reject" = "quarantine"))
  OBVIOUS
<1>5. PICK r : r = (c.reject \/ (c.reason /\ "reject" = "reject"))
  OBVIOUS
<1>6. Apply("reject", c) = [c EXCEPT !.quarantine = q, !.reject = r]
  BY <1>4, <1>5, Zenon DEF Apply
<1>7. q = FALSE /\ r = TRUE
  BY <1>3, <1>4, <1>5
<1>a. PICK f : f = FALSE  OBVIOUS
<1>b. PICK t : t = TRUE  OBVIOUS
<1>c. c = [reason |-> t, quarantine |-> f, reject |-> f, auth |-> {}]
  BY <1>2, <1>a, <1>b, Zenon
<1>d. [c EXCEPT !.quarantine = q, !.reject = r] = [reason |-> t, quarantine |-> q, reject |-> r, auth |-> {}]
  <2>0. PICK e : e = {}  OBVIOUS
  <2>1. [[reason |-> t, quarantine |-> f, reject |-> f, auth |-> e] EXCEPT !.quarantine = q]
          = [reason |-> t, quarantine |-> q, reject |-> f, auth |-> e]
    OBVIOUS
  <2>2. [[reason |-> t, quarantine |-> q, reject |-> f, auth |-> e] EXCEPT !.reject = r]
          = [reason |-> t, quarantine |-> q, reject |-> r, auth |-> e]
    OBVIOUS
  <2> QED  BY <1>c, <2>0, <2>1, <2>2, Zenon
<1>8. [c EXCEPT !.quarantine = q, !.reject = r] = [reason |-> TRUE, quarantine |-> q, reject |-> r, auth |-> {}]
  BY <1>b, <1>d, Zenon
<1>9. PICK d : d = Apply("reject", Complaint)  OBVIOUS
<1>10. d = [reason |-> TRUE, quarantine |-> FALSE, reject |-> TRUE, auth |-> {}]
  BY <1>1, <1>6, <1>7, <1>8, <1>9, Zenon
<1>11. d.reason = TRUE /\ d.reject = TRUE /\ d.quarantine = FALSE
  BY <1>10
<1> QED  BY <1>9, <1>11, Zenon

LEMMA AuthorizeRejects ==
    ASSUME NEW a, NEW user, NEW addr, Actions["unauth"] = "reject", Actions["no_match"] = "reject", Actions["err"] = "reject"
    PROVE  LET r == AuthzSender(user, owned, addr, a)
           IN  \/ r.reason /\ r.reject /\ ~r.quarantine
               \/ ~r.reason /\ user # "" /\ addr \in owned
<1>1. ~Pass.reason
  BY DEF Pass
<1>2. PICK r : r = AuthzSender(user, owned, addr, a)  OBVIOUS
<1>3. r = Apply("reject", Complaint) \/ (r = Pass /\ user # "" /\ addr \in owned)
  BY <1>2, Zenon DEF AuthzSender
<1>4. \/ r.reason /\ r.reject /\ ~r.quarantine
      \/ ~r.reason /\ user # "" /\ addr \in owned
  BY <1>1, <1>3, ApplyReject, Zenon
<1> QED  BY <1>2, <1>4, Zenon

LEMMA AuthorizeStep ==
    ASSUME ChecksShape, OwnersKept, Authorize
    PROVE  OwnersKept'
<1>1. PICK a \in {"ok", "error"}, b \in {"ok", "error"} : Finish("authorize",
            IF scenario.conn = "local" \/ (stage = "body" /\ ~scenario.checkHeader) THEN Pass
            ELSE IF stage = "sender" THEN AuthzSender(scenario.user, owned, scenario.mailFrom, a)
            ELSE AuthorizeHeader(scenario.user, owned, scenario.hdr, a, b))
  BY DEF Authorize
<1>2. PICK res : /\ Finish("authorize", res)
                 /\ res = IF scenario.conn = "local" \/ (stage = "body" /\ ~scenario.checkHeader) THEN Pass
                     ELSE IF stage = "sender" THEN AuthzSender(scenario.user, owned, scenario.mailFrom, a)
                     ELSE AuthorizeHeader(scenario.user, owned, scenario.hdr, a, b)
  BY <1>1, Zenon
<1>3. "authorize" \in running /\ UNCHANGED Others
  BY DEF Authorize
<1>4. ASSUME MustOwn
      PROVE  /\ stage = "sender" => (res.reject /\ ~res.quarantine) \/ SenderIsUser
             /\ stage = "body" => (res.reject /\ ~res.quarantine) \/ HeaderIsUser
  <2>1. scenario.conn # "local" /\ Actions["unauth"] = "reject" /\ Actions["no_match"] = "reject" /\ Actions["err"] = "reject"
    BY <1>4 DEF MustOwn
  <2>2. ASSUME stage = "sender"  PROVE (res.reject /\ ~res.quarantine) \/ SenderIsUser
    <3>1. res = AuthzSender(scenario.user, owned, scenario.mailFrom, a)
      BY <1>2, <2>1, <2>2, Zenon
    <3> QED  BY <2>1, <3>1, AuthorizeRejects, Zenon DEF SenderIsUser
  <2>3. ASSUME stage = "body"  PROVE (res.reject /\ ~res.quarantine) \/ HeaderIsUser
    <3>0. SUFFICES ASSUME scenario.checkHeader PROVE (res.reject /\ ~res.quarantine) \/ HeaderIsUser
      BY DEF HeaderIsUser
    <3>1. res = AuthorizeHeader(scenario.user, owned, scenario.hdr, a, b)
      BY <1>2, <2>1, <2>3, <3>0
    <3>3. /\ AuthzSender(scenario.user, owned, scenario.hdr.from, a).reason \/ scenario.hdr.from \in owned
          /\ AuthzSender(scenario.user, owned, scenario.hdr.sender, b).reason \/ scenario.hdr.sender \in owned
      BY <2>1, AuthorizeRejects, Zenon
    <3>4. res = Apply("reject", Complaint) \/ HeaderIsUser
      BY <2>1, <3>1, <3>3, Zenon DEF AuthorizeHeader, HeaderIsUser
    <3> QED  BY <3>4, ApplyReject, Zenon
  <2> QED  BY <2>2, <2>3
<1> QED  BY <1>2, <1>3, <1>4, FinishOwners, Zenon

(* DKIM's verdict, and the ones of the others, in what DMARC reads. *)
LEMMA FinishDeferral ==
    ASSUME ChecksShape, DeferralKept, NEW k \in running, NEW res, Finish(k, res), UNCHANGED Others,
           k = "dkim" => (res.reject /\ ~res.quarantine) \/ \E r \in res.auth : r.kind = "dkim",
           \/ UNCHANGED <<spf.deferred, spf.lookup>>
           \/ spf'.deferred =>
                 /\ \E r \in res.auth : r.kind = "spf"
                 /\ spf'.lookup.err = "no" /\ spf'.lookup.found
                 /\ PolicyFor(scenario.from, spf'.lookup) \in {"quarantine", "reject"}
    PROVE  DeferralKept'
<1>1. UNCHANGED <<scenario, stage, outcome, dmarc>>
  BY DEF Others, msgVars
<1>2. outcome = "none" /\ stage \in Working
  BY DEF ChecksShape, Working
<1>3. \A x : Seen(x) => Seen(x)'
  BY FinishFound, Zenon DEF Seen
<1>4. ASSUME spf'.deferred
      PROVE  /\ Seen("spf")'
             /\ spf'.lookup.err = "no" /\ spf'.lookup.found
             /\ PolicyFor(scenario.from, spf'.lookup) \in {"quarantine", "reject"}
  <2>1. CASE UNCHANGED <<spf.deferred, spf.lookup>>
    <3>1. /\ Seen("spf")
          /\ spf.lookup.err = "no" /\ spf.lookup.found
          /\ PolicyFor(scenario.from, spf.lookup) \in {"quarantine", "reject"}
      BY <1>4, <2>1, Zenon DEF DeferralKept
    <3> QED  BY <1>3, <2>1, <3>1, Zenon
  <2>2. CASE ~UNCHANGED <<spf.deferred, spf.lookup>>
    BY <1>4, <2>2, FinishFound, Zenon DEF Seen
  <2> QED  BY <2>1, <2>2
<1>5. ASSUME "dkim" \in scenario.checks, stage = "body", "dkim" \notin running'  PROVE found'.reject \/ Seen("dkim")'
  <2>1. CASE k = "dkim"
    BY <2>1, FinishFound, Zenon DEF Seen
  <2>2. CASE k # "dkim"
    <3>1. "dkim" \notin running  BY <1>5, <2>2, FinishFound
    <3> QED  BY <1>5, <3>1, <1>3, FinishFound, Zenon DEF DeferralKept
  <2> QED  BY <2>1, <2>2
<1>6. DeferredDecided'
  BY <1>1, <1>2 DEF DeferredDecided
<1>7. PolicyFor(scenario.from, spf'.lookup) = PolicyFor(scenario.from, spf.lookup)'
  BY <1>1, Zenon DEF PolicyFor
<1> QED  BY <1>1, <1>2, <1>4, <1>5, <1>6, <1>7, Zenon DEF DeferralKept, Working

LEMMA FinishListings ==
    ASSUME ChecksShape, ListingsKept, NEW k \in running, NEW res, Finish(k, res), UNCHANGED Others,
           k = "dnsbl" /\ Early => res = bl.stored
    PROVE  ListingsKept'
<1>1. UNCHANGED <<scenario, stage, outcome, bl>>
  BY DEF Others, msgVars
<1>2. outcome = "none" /\ stage \in Working
  BY DEF ChecksShape, Working
<1>3. UNCHANGED Early /\ UNCHANGED Going
  BY <1>1 DEF Early, Going
<1>4. SUFFICES ASSUME Early, stage = "conn", "dnsbl" \notin running'
               PROVE  (bl.stored.reject => found'.reject) /\ (bl.stored.quarantine => found'.quarantine)
  <2>1. merged'.quarantine = merged.quarantine  BY FinishFound
  <2> QED  BY <1>1, <1>2, <1>3, <2>1, Zenon DEF ListingsKept
<1>5. CASE k = "dnsbl"
  <2>1. stage # "early" /\ Going  BY <1>2 DEF Working, Going
  <2>2. res = ListsVerdict(bl.failed, bl.score)
    BY <1>4, <1>5, <2>1 DEF ListingsKept
  <2>3. ~(res.reject /\ res.quarantine)
    BY <2>2 DEF ListsVerdict, Rejection, Complaint, Pass
  <2> QED  BY <1>4, <1>5, <2>3, FinishFound, Zenon
<1>6. CASE k # "dnsbl"
  <2>1. "dnsbl" \notin running  BY <1>4, <1>6, FinishFound
  <2> QED  BY <1>4, <2>1, FinishFound, Zenon DEF ListingsKept
<1> QED  BY <1>5, <1>6

LEMMA RejectionIs == Rejection.reject /\ ~Rejection.quarantine
<1>1. PICK f : f = FALSE  OBVIOUS
<1>2. PICK t : t = TRUE  OBVIOUS
<1>3. PICK e : e = {}  OBVIOUS
<1>4. Rejection = [[reason |-> t, quarantine |-> f, reject |-> f, auth |-> e] EXCEPT !.reject = t]
  BY <1>1, <1>2, <1>3, ComplaintIs, Zenon DEF Rejection
<1>5. [[reason |-> t, quarantine |-> f, reject |-> f, auth |-> e] EXCEPT !.reject = t]
        = [reason |-> t, quarantine |-> f, reject |-> t, auth |-> e]
  OBVIOUS
<1>6. PICK j : j = Rejection  OBVIOUS
<1>7. j.reject = t /\ j.quarantine = f
  BY <1>4, <1>5, <1>6
<1> QED  BY <1>1, <1>2, <1>6, <1>7, Zenon

(* FailAction.Apply leaves the authentication results of a verdict. *)
LEMMA AuthKept ==
    ASSUME NEW A, NEW act
    PROVE  /\ With(Pass, A).auth = A
           /\ Apply(act, With(Complaint, A)).auth = A
<1>1. PICK f : f = FALSE  OBVIOUS
<1>2. PICK t : t = TRUE  OBVIOUS
<1>3. PICK e : e = {}  OBVIOUS
<1>4. /\ With(Pass, A) = [[reason |-> f, quarantine |-> f, reject |-> f, auth |-> e] EXCEPT !.auth = A]
      /\ With(Complaint, A) = [[reason |-> t, quarantine |-> f, reject |-> f, auth |-> e] EXCEPT !.auth = A]
  BY <1>1, <1>2, <1>3, ComplaintIs, Zenon DEF With, Pass
<1>5. PICK c : c = With(Complaint, A)  OBVIOUS
<1>6. c = [reason |-> t, quarantine |-> f, reject |-> f, auth |-> A]
  BY <1>4, <1>5
<1>7. With(Pass, A).auth = A
  BY <1>4
<1>8. PICK q, r : Apply(act, c) = [c EXCEPT !.quarantine = q, !.reject = r]
  BY Zenon DEF Apply
<1>9. [c EXCEPT !.quarantine = q, !.reject = r].auth = A
  BY <1>6
<1> QED  BY <1>5, <1>7, <1>8, <1>9, Zenon

LEMMA DkimSays ==
    ASSUME NEW sigs
    PROVE  \/ DkimResult(sigs).reject /\ ~DkimResult(sigs).quarantine
           \/ \E r \in DkimResult(sigs).auth : r.kind = "dkim"
<1>1. PICK none : none = {[kind |-> "dkim", value |-> "none", domain |-> ""]}  OBVIOUS
<1>2. \E r \in none : r.kind = "dkim"
  BY <1>1
<1>3. PICK A : A = {[kind |-> "dkim", value |-> SigValue(s), domain |-> s.domain] : s \in sigs}  OBVIOUS
<1>4. sigs # {} => \E r \in A : r.kind = "dkim"
  <2>1. SUFFICES ASSUME NEW s \in sigs  PROVE \E r \in A : r.kind = "dkim"
    OBVIOUS
  <2>2. PICK r : r = [kind |-> "dkim", value |-> SigValue(s), domain |-> s.domain]  OBVIOUS
  <2>3. r \in A
    BY <1>3, <2>2, Zenon
  <2>4. r.kind = "dkim"
    BY <2>2
  <2> QED  BY <2>3, <2>4
<1>5. \/ sigs = {} /\ DkimResult(sigs) = Apply(Actions["no_sig"], With(Complaint, none))
      \/ DkimResult(sigs) = Rejection
      \/ sigs # {} /\ DkimResult(sigs) = With(Pass, A)
      \/ sigs # {} /\ DkimResult(sigs) = Apply(Actions["broken_sig"], With(Complaint, A))
  BY <1>1, <1>3, Zenon DEF DkimResult
<1>6. /\ With(Pass, A).auth = A
      /\ Apply(Actions["no_sig"], With(Complaint, none)).auth = none
      /\ Apply(Actions["broken_sig"], With(Complaint, A)).auth = A
  BY AuthKept
<1> QED  BY <1>2, <1>4, <1>5, <1>6, RejectionIs, Zenon

LEMMA SpfSays ==
    ASSUME NEW value, NEW dom, NEW helo
    PROVE  \E r \in SpfResult(value, dom, helo).auth : r.kind = "spf"
<1>1. PICK A : A = {[kind |-> "spf", value |-> IF value = "unknown" THEN "none" ELSE value, domain |-> IF dom = "" THEN helo ELSE dom]}  OBVIOUS
<1>2. \E r \in A : r.kind = "spf"
  BY <1>1
<1>3. \/ SpfResult(value, dom, helo) = With(Pass, A)
      \/ SpfResult(value, dom, helo) = Apply(SpfAction(value), With(Complaint, A))
  BY <1>1, Zenon DEF SpfResult
<1>4. With(Pass, A).auth = A /\ Apply(SpfAction(value), With(Complaint, A)).auth = A
  BY AuthKept
<1> QED  BY <1>2, <1>3, <1>4, Zenon

(* A DMARC record that is found has one of the three policies. *)
LEMMA FetchedPolicy ==
    ASSUME NEW from \in {"org", "sub"}, NEW ans \in [{"org", "sub"} -> DnsAnswers],
           NEW d, d = FetchRecord(from, ans), d.err = "no", d.found
    PROVE  PolicyFor(from, d) \in Policies
<1>0. PICK a \in DnsAnswers : \E dom : d = Fetched(dom, a)
  <2>1. OrgOf[from] = "org" /\ ans[from] \in DnsAnswers /\ ans["org"] \in DnsAnswers
    BY DEF OrgOf, Domains
  <2>2. d = [err |-> "perm"] \/ d = Fetched(from, ans[from]) \/ d = Fetched("org", ans["org"])
    BY <2>1, Zenon DEF FetchRecord
  <2>3. d # [err |-> "perm"]
    OBVIOUS
  <2> QED  BY <2>1, <2>2, <2>3, Zenon
<1>1. PICK dom : d = Fetched(dom, a)
  BY <1>0
<1>2. CASE a.is \in {"temp", "fail", "malformed", "notfound", "junk"}
  <2>1. d = [err |-> "temp"] \/ d = [err |-> "perm"] \/ d = [err |-> "no", found |-> FALSE]
    BY <1>1, <1>2 DEF Fetched
  <2> QED  BY <2>1
<1>3. CASE a.is = "record" /\ a.policy \in Policies /\ a.sub \in Policies \cup {""}
  <2>1. PICK t : t = TRUE  OBVIOUS
  <2>2. d = [err |-> "no", found |-> t, domain |-> dom, rec |-> a]
    BY <1>1, <1>3, <2>1 DEF Fetched
  <2>3. d.domain = dom /\ d.rec = a
    BY <2>2
  <2> QED  BY <1>3, <2>3 DEF PolicyFor
<1> QED  BY <1>2, <1>3, AnswersAssumption

LEMMA FinishStep ==
    ASSUME ChecksInv,
           (\E k \in {"dnsbl", "rdns", "tls", "mx", "dkim", "command", "rspamd"} : Simple(k)) \/ Authorize \/ Milter
           \/ SpfConnection \/ SpfBody
    PROVE  ChecksInv'
<1>0. ChecksShape /\ VerdictsKept /\ OwnersKept /\ DeferralKept /\ ListingsKept
  BY DEF ChecksInv
<1>1. ChecksShape' /\ VerdictsKept'
  BY <1>0, FinishingActions, FinishShape, FinishVerdicts, Zenon
<1>2. OwnersKept'
  <2>1. CASE Authorize
    BY <1>0, <2>1, AuthorizeStep
  <2>2. CASE ~Authorize
    <3>1. PICK k \in running : k # "authorize" /\ \E res : Finish(k, res)
      BY <2>2 DEF Simple, Milter, SpfConnection, SpfBody
    <3>2. UNCHANGED Others
      BY <1>0, FinishingActions
    <3> QED  BY <1>0, <3>1, <3>2, FinishOwners, Zenon
  <2> QED  BY <2>1, <2>2
<1>3. DeferralKept'
  <2>0. UNCHANGED Others
    BY <1>0, FinishingActions
  <2>1. CASE \E k \in {"dnsbl", "rdns", "tls", "mx", "dkim", "command", "rspamd"} : Simple(k)
    <3>1. PICK k \in running : /\ k \in {"dnsbl", "rdns", "tls", "mx", "dkim", "command", "rspamd"}
                               /\ UNCHANGED spf
                               /\ \E res \in SimpleResults(k) : Finish(k, res)
      BY <2>1, Zenon DEF Simple
    <3>2. PICK res \in SimpleResults(k) : Finish(k, res)
      BY <3>1
    <3>3. k = "dkim" => (res.reject /\ ~res.quarantine) \/ \E r \in res.auth : r.kind = "dkim"
      <4>1. k = "dkim" => res \in {DkimResult(s) : s \in SigSets} \cup {Rejection}
        BY <3>2 DEF SimpleResults
      <4>2. k = "dkim" => res = Rejection \/ \E s \in SigSets : res = DkimResult(s)
        BY <4>1, Zenon
      <4> QED  BY <4>2, DkimSays, RejectionIs, Zenon
    <3> QED  BY <1>0, <2>0, <3>1, <3>2, <3>3, FinishDeferral, Zenon
  <2>2. CASE Authorize \/ Milter \/ SpfConnection
    <3>1. PICK k \in running : k # "dkim" /\ \E res : Finish(k, res)
      BY <2>2 DEF Authorize, Milter, SpfConnection
    <3>2. UNCHANGED <<spf.deferred, spf.lookup>>
      <4>0. spf = [skip |-> spf.skip, task |-> spf.task, chan |-> spf.chan, deferred |-> spf.deferred, lookup |-> spf.lookup]
        BY <1>0 DEF ChecksShape
      <4>1. spf' = spf \/ spf' = [spf EXCEPT !.skip = TRUE] \/ spf' = [spf EXCEPT !.task = "running"]
        BY <2>2, Zenon DEF Authorize, Milter, SpfConnection
      <4>2. PICK t : t = TRUE  OBVIOUS
      <4>3. [spf EXCEPT !.skip = t].deferred = spf.deferred /\ [spf EXCEPT !.skip = t].lookup = spf.lookup
        BY <4>0
      <4>4. [spf EXCEPT !.task = "running"].deferred = spf.deferred /\ [spf EXCEPT !.task = "running"].lookup = spf.lookup
        BY <4>0
      <4> QED  BY <4>1, <4>2, <4>3, <4>4, Zenon
    <3> QED  BY <1>0, <2>0, <3>1, <3>2, FinishDeferral, Zenon
  <2>3. CASE SpfBody
    <3>1. PICK k : k = "spf"  OBVIOUS
    <3>2. k \in running /\ k # "dkim"
      BY <2>3, <3>1 DEF SpfBody
    <3>3. CASE UNCHANGED spf /\ \E res : Finish(k, res)
      BY <1>0, <2>0, <3>2, <3>3, FinishDeferral, Zenon
    <3>4. CASE ~(UNCHANGED spf /\ \E res : Finish(k, res))
      <4>1. PICK ans \in [{"org", "sub"} -> DnsAnswers] :
              LET data == FetchRecord(scenario.from, ans)
                  rely == RelyOnDMARC(scenario.from, scenario.extracted, data)
                  res == SpfResult(spf.chan, scenario.mailDomain, "other")
              IN  /\ Finish("spf", IF rely THEN [res EXCEPT !.quarantine = FALSE, !.reject = FALSE] ELSE res)
                  /\ spf' = [spf EXCEPT !.deferred = rely /\ (res.quarantine \/ res.reject),
                                        !.lookup = IF rely THEN data ELSE Empty]
        BY <2>3, <3>1, <3>4, Zenon DEF SpfBody
      <4>2. PICK data : data = FetchRecord(scenario.from, ans)  OBVIOUS
      <4>3. PICK rely : rely = RelyOnDMARC(scenario.from, scenario.extracted, data)  OBVIOUS
      <4>4. PICK res : res = SpfResult(spf.chan, scenario.mailDomain, "other")  OBVIOUS
      <4>5. PICK dfr : dfr = (rely /\ (res.quarantine \/ res.reject))  OBVIOUS
      <4>6. PICK lk : lk = IF rely THEN data ELSE Empty  OBVIOUS
      <4>7. PICK fin : fin = IF rely THEN [res EXCEPT !.quarantine = FALSE, !.reject = FALSE] ELSE res  OBVIOUS
      <4>8. Finish(k, fin) /\ spf' = [spf EXCEPT !.deferred = dfr, !.lookup = lk]
        BY <3>1, <4>1, <4>2, <4>3, <4>4, <4>5, <4>6, <4>7, Zenon
      <4>9. spf'.deferred = dfr /\ spf'.lookup = lk
        <5>1. spf = [skip |-> spf.skip, task |-> spf.task, chan |-> spf.chan, deferred |-> spf.deferred, lookup |-> spf.lookup]
          BY <1>0 DEF ChecksShape
        <5> QED  BY <4>8, <5>1
      <4>10. \E r \in fin.auth : r.kind = "spf"
        <5>1. \E r \in res.auth : r.kind = "spf"
          BY <4>4, SpfSays
        <5>2. PICK f : f = FALSE  OBVIOUS
        <5>3. "auth" \in DOMAIN res
          <6>1. PICK A : A = {[kind |-> "spf", value |-> IF spf.chan = "unknown" THEN "none" ELSE spf.chan, domain |-> IF scenario.mailDomain = "" THEN "other" ELSE scenario.mailDomain]}
            OBVIOUS
          <6>2. res = With(Pass, A) \/ res = Apply(SpfAction(spf.chan), With(Complaint, A))
            BY <4>4, <6>1, Zenon DEF SpfResult
          <6>3. "auth" \in DOMAIN Pass /\ "auth" \in DOMAIN Complaint
            BY ComplaintIs DEF Pass
          <6>4. ASSUME NEW x, "auth" \in DOMAIN x  PROVE "auth" \in DOMAIN With(x, A) /\ \A act : "auth" \in DOMAIN Apply(act, x)
            BY <6>4, Zenon DEF With, Apply
          <6> QED  BY <6>2, <6>3, <6>4, Zenon
        <5>4. [res EXCEPT !.quarantine = f, !.reject = f].auth = res.auth
          BY <5>3
        <5> QED  BY <4>7, <5>1, <5>2, <5>4, Zenon
      <4>11. dfr => /\ lk.err = "no" /\ lk.found
                    /\ PolicyFor(scenario.from, lk) \in {"quarantine", "reject"}
        <5>1. SUFFICES ASSUME dfr PROVE /\ lk.err = "no" /\ lk.found
                                        /\ PolicyFor(scenario.from, lk) \in {"quarantine", "reject"}
          OBVIOUS
        <5>2. rely /\ lk = data
          BY <5>1, <4>5, <4>6, Zenon
        <5>3. data.err = "no" /\ data.found /\ PolicyFor(scenario.from, data) # "none"
          BY <4>3, <5>2, Zenon DEF RelyOnDMARC
        <5>4. scenario.from \in {"org", "sub"}
          BY <1>0, AnswersAssumption DEF ChecksShape
        <5>5. PolicyFor(scenario.from, data) \in Policies
          BY <4>2, <5>3, <5>4, FetchedPolicy, Zenon
        <5> QED  BY <5>2, <5>3, <5>5 DEF Policies
      <4> QED  BY <1>0, <2>0, <3>2, <4>8, <4>9, <4>10, <4>11, FinishDeferral, Zenon
    <3> QED  BY <3>3, <3>4
  <2> QED  BY <2>1, <2>2, <2>3
<1>4. ListingsKept'
  <2>0. UNCHANGED Others
    BY <1>0, FinishingActions
  <2>1. CASE Simple("dnsbl")
    <3>1. PICK k : k = "dnsbl"  OBVIOUS
    <3>2. k \in running /\ \E res \in {IF scenario.conn = "local" THEN Pass ELSE bl.stored} : Finish(k, res)
      BY <2>1, <3>1 DEF Simple, SimpleResults
    <3>3. PICK res : Finish(k, res) /\ (Early => res = bl.stored)
      BY <3>2 DEF Early
    <3> QED  BY <1>0, <2>0, <3>2, <3>3, FinishListings, Zenon
  <2>2. CASE ~Simple("dnsbl")
    <3>1. PICK k \in running : k # "dnsbl" /\ \E res : Finish(k, res)
      BY <2>2 DEF Simple, Authorize, Milter, SpfConnection, SpfBody
    <3> QED  BY <1>0, <2>0, <3>1, FinishListings, Zenon
  <2> QED  BY <2>1, <2>2
<1> QED  BY <1>1, <1>2, <1>3, <1>4 DEF ChecksInv

------------------------------------------------------------------------------
(* The sum of the scores.  The fold takes a set apart by CHOOSE; that it    *)
(* adds up to the same whatever is taken first is by the smallest set for   *)
(* which it would not.                                                      *)

LEMMA LeastNat ==
    ASSUME NEW B, B \subseteq Nat, B # {}
    PROVE  \E n \in B : \A m \in B : n <= m
<1>1. PICK n \in B : \A m \in B : <<m, n>> \notin OpToRel(<, Nat)
  BY NatLessThanWellFounded, WFMin
<1>2. OpToRel(<, Nat) = {ss \in Nat \X Nat : ss[1] < ss[2]}
  BY DEF OpToRel
<1>3. \A m \in B : <<m, n>> \notin {ss \in Nat \X Nat : ss[1] < ss[2]}
  BY <1>1, <1>2, Zenon
<1>4. \A m \in B : ~(m < n)
  BY <1>3
<1> QED  BY <1>4

First(s) == CHOOSE x \in s : TRUE
Small(S, n) == {s \in SUBSET S : Cardinality(s) <= n}
ScoreStep(g, s) == IF s = {} THEN 0 ELSE First(s).score + g[s \ {First(s)}]
Adds(g, D) == g = [s \in D |-> ScoreStep(g, s)]
AddsUp(g, S) == Adds(g, SUBSET S)

LEMMA WithoutFirst ==
    ASSUME NEW S, IsFiniteSet(S), NEW s \in SUBSET S, s # {}, NEW x \in s
    PROVE  /\ First(s) \in s
           /\ s \ {x} \in SUBSET S
           /\ Cardinality(s) \in Nat /\ Cardinality(s \ {x}) \in Nat
           /\ Cardinality(s \ {x}) = Cardinality(s) - 1
           /\ Cardinality(s) > 0
<1>1. IsFiniteSet(s)
  BY FS_Subset
<1>2. Cardinality(s) \in Nat /\ IsFiniteSet(s \ {x}) /\ Cardinality(s \ {x}) = Cardinality(s) - 1
  BY <1>1, FS_CardinalityType, FS_RemoveElement
<1>3. Cardinality(s \ {x}) \in Nat
  BY <1>2, FS_CardinalityType
<1>4. First(s) \in s
  BY DEF First
<1> QED  BY <1>2, <1>3, <1>4

(* The recursive function of the fold exists. *)
LEMMA AddsExists ==
    ASSUME NEW S, IsFiniteSet(S)
    PROVE  \E g : AddsUp(g, S)
<1> DEFINE Bad == {n \in Nat : ~\E g : Adds(g, Small(S, n))}
<1>1. Bad = {}
  <2>1. SUFFICES ASSUME Bad # {} PROVE FALSE
    OBVIOUS
  <2>2. PICK n \in Bad : \A m \in Bad : n <= m
    BY <2>1, LeastNat
  <2>3. n \in Nat /\ ~\E g : Adds(g, Small(S, n))
    OBVIOUS
  <2>4. CASE n = 0
    <3>1. ASSUME NEW s \in Small(S, n) PROVE s = {}
      <4>1. s \in SUBSET S /\ Cardinality(s) <= 0
        BY <2>4 DEF Small
      <4>2. ASSUME s # {} PROVE FALSE
        <5>1. Cardinality(s) \in Nat /\ Cardinality(s) > 0
          BY <4>1, <4>2, WithoutFirst
        <5> QED  BY <4>1, <5>1
      <4> QED  BY <4>2
    <3>2. PICK g : g = [s \in Small(S, n) |-> 0]
      OBVIOUS
    <3>3. \A s \in Small(S, n) : ScoreStep(g, s) = 0
      BY <3>1, Zenon DEF ScoreStep
    <3>4. Adds(g, Small(S, n))
      BY <3>2, <3>3, Zenon DEF Adds, AddsUp
    <3> QED  BY <2>3, <3>4
  <2>5. CASE n # 0
    <3>1. n - 1 \in Nat /\ n - 1 < n
      BY <2>3, <2>5
    <3>2. n - 1 \notin Bad
      BY <2>2, <2>3, <3>1
    <3>3. PICK g : Adds(g, Small(S, n - 1))
      BY <3>1, <3>2
    <3>4. PICK h : h = [s \in Small(S, n) |-> ScoreStep(g, s)]
      OBVIOUS
    <3>5. ASSUME NEW s \in Small(S, n) PROVE ScoreStep(h, s) = ScoreStep(g, s)
      <4>1. SUFFICES ASSUME s # {} PROVE h[s \ {First(s)}] = g[s \ {First(s)}]
        BY Zenon DEF ScoreStep
      <4>2. PICK t : t = s \ {First(s)}
        OBVIOUS
      <4>3. s \in SUBSET S /\ Cardinality(s) <= n
        BY DEF Small
      <4>4. t \in SUBSET S /\ Cardinality(t) \in Nat /\ Cardinality(s) \in Nat /\ Cardinality(t) = Cardinality(s) - 1
        <5>1. First(s) \in s
          BY <4>1 DEF First
        <5> QED  BY <4>1, <4>2, <4>3, <5>1, WithoutFirst
      <4>5. Cardinality(t) <= n - 1 /\ Cardinality(t) <= n
        BY <4>3, <4>4, <2>3
      <4>6. t \in Small(S, n - 1) /\ t \in Small(S, n)
        BY <4>4, <4>5 DEF Small
      <4>7. g[t] = ScoreStep(g, t)
        BY <3>3, <4>6, Zenon DEF Adds, AddsUp
      <4>8. h[t] = ScoreStep(g, t)
        BY <3>4, <4>6, Zenon
      <4> QED  BY <4>2, <4>7, <4>8, Zenon
    <3>6. Adds(h, Small(S, n))
      BY <3>4, <3>5, Zenon DEF Adds, AddsUp
    <3> QED  BY <2>3, <3>6
  <2> QED  BY <2>4, <2>5
<1>2. Cardinality(S) \in Nat
  BY FS_CardinalityType
<1>3. PICK g : Adds(g, Small(S, Cardinality(S)))
  BY <1>1, <1>2
<1>4. Small(S, Cardinality(S)) = SUBSET S
  BY FS_Subset DEF Small
<1> QED  BY <1>3, <1>4 DEF AddsUp

(* Two such functions agree where both are defined. *)
LEMMA AddsAgree ==
    ASSUME NEW S, IsFiniteSet(S), NEW T \in SUBSET S, NEW g, AddsUp(g, S), NEW h, AddsUp(h, T)
    PROVE  \A s \in SUBSET T : g[s] = h[s]
<1> DEFINE Bad == {n \in Nat : \E s \in SUBSET T : Cardinality(s) = n /\ g[s] # h[s]}
<1>1. ASSUME NEW s \in SUBSET T PROVE s \in SUBSET S /\ g[s] = ScoreStep(g, s) /\ h[s] = ScoreStep(h, s)
  <2>1. s \in SUBSET S  OBVIOUS
  <2> QED  BY <2>1, Zenon DEF Adds, AddsUp
<1>2. Bad = {}
  <2>1. SUFFICES ASSUME Bad # {} PROVE FALSE
    OBVIOUS
  <2>2. PICK n \in Bad : \A m \in Bad : n <= m
    BY <2>1, LeastNat
  <2>3. PICK s \in SUBSET T : Cardinality(s) = n /\ g[s] # h[s]
    OBVIOUS
  <2>4. s # {}
    BY <1>1, <2>3, Zenon DEF ScoreStep
  <2>5. PICK t : t = s \ {First(s)}
    OBVIOUS
  <2>6. First(s) \in s
    BY <2>4 DEF First
  <2>7. t \in SUBSET S /\ Cardinality(t) \in Nat /\ Cardinality(s) \in Nat /\ Cardinality(t) = Cardinality(s) - 1
    BY <1>1, <2>3, <2>4, <2>5, <2>6, WithoutFirst, Zenon
  <2>8. t \in SUBSET T
    BY <2>5
  <2>9. g[t] = h[t]
    <3>1. ~(n <= Cardinality(t))
      BY <2>3, <2>7
    <3>2. Cardinality(t) \notin Bad
      BY <2>2, <3>1
    <3> QED  BY <2>7, <2>8, <3>2
  <2> QED  BY <1>1, <2>3, <2>4, <2>5, <2>9, Zenon DEF ScoreStep
<1>3. ASSUME NEW s \in SUBSET T, g[s] # h[s] PROVE FALSE
  <2>1. Cardinality(s) \in Nat
    BY FS_Subset, FS_CardinalityType
  <2> QED  BY <1>2, <1>3, <2>1
<1> QED  BY <1>3

LEMMA ScoreIs ==
    ASSUME NEW S, IsFiniteSet(S), NEW T \in SUBSET S, NEW g, AddsUp(g, S)
    PROVE  Score(T) = g[T]
<1>1. IsFiniteSet(T)
  BY FS_Subset
<1>2. PICK h : h = CHOOSE f : AddsUp(f, T)
  OBVIOUS
<1>3. AddsUp(h, T)
  BY <1>1, <1>2, AddsExists
<1>4. Score(T) = h[T]
  BY <1>2, Zenon DEF Score, MapThenSumSet, MapThenFoldSet, AddsUp, Adds, ScoreStep, First
<1>5. ASSUME NEW s \in SUBSET T PROVE g[s] = h[s]
  BY <1>3, AddsAgree
<1>6. T \in SUBSET T
  OBVIOUS
<1> QED  BY <1>4, <1>5, <1>6

(* The score of a set of lists, whichever of them is taken first. *)
LEMMA ScoreWithout ==
    ASSUME NEW S, IsFiniteSet(S), \A l \in S : l.score \in Int,
           NEW g, AddsUp(g, S)
    PROVE  \A s \in SUBSET S : g[s] \in Int /\ \A x \in s : g[s] = x.score + g[s \ {x}]
<1> DEFINE Good(s) == g[s] \in Int /\ \A x \in s : g[s] = x.score + g[s \ {x}]
           Bad == {n \in Nat : \E s \in SUBSET S : Cardinality(s) = n /\ ~Good(s)}
<1>1. ASSUME NEW s \in SUBSET S PROVE g[s] = ScoreStep(g, s)
  BY <1>1, Zenon DEF Adds, AddsUp
<1>2. Bad = {}
  <2>1. SUFFICES ASSUME Bad # {} PROVE FALSE
    OBVIOUS
  <2>2. PICK n \in Bad : \A m \in Bad : n <= m
    BY <2>1, LeastNat
  <2>3. PICK s \in SUBSET S : Cardinality(s) = n /\ ~Good(s)
    OBVIOUS
  <2> HIDE DEF Good
  <2>4. s # {}
    <3>1. ASSUME s = {} PROVE Good(s)
      <4>1. g[s] = 0
        BY <1>1, <3>1, Zenon DEF ScoreStep
      <4> QED  BY <3>1, <4>1 DEF Good
    <3> QED  BY <2>3, <3>1
  <2>5. ASSUME NEW x \in s
        PROVE  /\ s \ {x} \in SUBSET S /\ Good(s \ {x}) /\ x.score \in Int
    <3>1. PICK t : t = s \ {x}
      OBVIOUS
    <3>2. t \in SUBSET S /\ Cardinality(t) \in Nat /\ Cardinality(s) \in Nat /\ Cardinality(t) = Cardinality(s) - 1
      BY <2>3, <2>4, <2>5, <3>1, WithoutFirst
    <3>3. ~(n <= Cardinality(t))
      BY <2>3, <3>2
    <3>4. Cardinality(t) \notin Bad
      BY <2>2, <3>3
    <3>5. Good(t)
      BY <3>2, <3>4
    <3> QED  BY <3>1, <3>2, <3>5
  <2>6. PICK y : y = First(s)
    OBVIOUS
  <2>7. y \in s
    BY <2>4, <2>6 DEF First
  <2>8. g[s] = y.score + g[s \ {y}]
    BY <1>1, <2>4, <2>6, Zenon DEF ScoreStep
  <2>9. g[s] \in Int
    <3>1. g[s \ {y}] \in Int /\ y.score \in Int
      BY <2>5, <2>7 DEF Good
    <3> QED  BY <2>8, <3>1
  <2>10. ASSUME NEW x \in s PROVE g[s] = x.score + g[s \ {x}]
    <3>1. CASE x = y
      BY <2>8, <3>1
    <3>2. CASE x # y
      <4>1. PICK r : r = (s \ {y}) \ {x}
        OBVIOUS
      <4>2. r = (s \ {x}) \ {y} /\ x \in s \ {y} /\ y \in s \ {x}
        BY <3>2, <4>1, <2>7
      <4>3. g[s \ {y}] = x.score + g[r]
        BY <2>5, <2>7, <4>1, <4>2 DEF Good
      <4>4. g[s \ {x}] = y.score + g[r]
        BY <2>5, <4>2 DEF Good
      <4>5. r \in SUBSET S
        BY <4>1
      <4>6. x.score \in Int /\ y.score \in Int /\ g[s \ {y}] \in Int /\ g[s \ {x}] \in Int
        BY <2>5, <2>7 DEF Good
      <4>7. g[r] \in Int
        <5>1. PICK u : u = s \ {y}
          OBVIOUS
        <5>2. Good(r)
          <6>1. Cardinality(s) \in Nat /\ Cardinality(s \ {y}) \in Nat /\ Cardinality(s \ {y}) = Cardinality(s) - 1
            BY <2>3, <2>4, <2>7, WithoutFirst
          <6>2. u \in SUBSET S /\ u # {} /\ x \in u /\ r = u \ {x}
            BY <4>1, <4>2, <5>1
          <6>3. Cardinality(r) \in Nat /\ Cardinality(r) = Cardinality(u) - 1
            BY <6>2, WithoutFirst
          <6>4. ~(n <= Cardinality(r))
            BY <2>3, <5>1, <6>1, <6>3
          <6>5. Cardinality(r) \notin Bad
            BY <2>2, <6>4
          <6> QED  BY <4>5, <6>3, <6>5
        <5> QED  BY <5>2 DEF Good
      <4> QED  BY <2>8, <4>3, <4>4, <4>6, <4>7
    <3> QED  BY <3>1, <3>2
  <2> QED  BY <2>3, <2>9, <2>10 DEF Good
<1>3. ASSUME NEW s \in SUBSET S PROVE Good(s)
  <2>1. Cardinality(s) \in Nat
    BY FS_Subset, FS_CardinalityType
  <2> HIDE DEF Good
  <2> QED  BY <1>2, <2>1
<1> QED  BY <1>3

(* One more list adds its score. *)
LEMMA ScoreAdds ==
    ASSUME NEW S, IsFiniteSet(S), \A l \in S : l.score \in Int, NEW T \in SUBSET S, NEW x \in S, x \notin T
    PROVE  Score(T \cup {x}) = Score(T) + x.score /\ Score(T) \in Int
<1>1. PICK g : AddsUp(g, S)
  BY AddsExists
<1>2. PICK u : u = T \cup {x}
  OBVIOUS
<1>3. u \in SUBSET S /\ u \ {x} = T /\ x \in u
  BY <1>2
<1>4. Score(u) = g[u] /\ Score(T) = g[T]
  BY <1>1, <1>3, ScoreIs
<1>5. ASSUME NEW s \in SUBSET S PROVE g[s] \in Int /\ \A y \in s : g[s] = y.score + g[s \ {y}]
  BY <1>1, ScoreWithout
<1>6. g[u] = x.score + g[T] /\ g[T] \in Int /\ x.score \in Int
  BY <1>3, <1>5
<1> QED  BY <1>2, <1>4, <1>6

LEMMA ScoreNone == Score({}) = 0
<1>1. PICK e : e = {}
  OBVIOUS
<1>2. IsFiniteSet(e) /\ e \in SUBSET e
  BY <1>1, FS_EmptySet
<1>3. PICK g : AddsUp(g, e)
  BY <1>2, AddsExists
<1>4. Score(e) = g[e]
  BY <1>2, <1>3, ScoreIs
<1>5. g[e] = ScoreStep(g, e)
  BY <1>2, <1>3, Zenon DEF Adds, AddsUp
<1> QED  BY <1>1, <1>4, <1>5, Zenon DEF ScoreStep
------------------------------------------------------------------------------
(* The other steps. *)

LEMMA ChecksInitially == ChecksInit => ChecksInv
<1>1. SUFFICES ASSUME ChecksInit PROVE ChecksInv
  OBVIOUS
<1>2. ChecksShape
  <2>1. stage \in {"early", "conn"} /\ (running # {} => stage = "conn")
    BY <1>1 DEF ChecksInit
  <2>2. rcpts \in Nat /\ passed \subseteq 1 .. rcpts /\ \A v \in said : v.of \in 0 .. rcpts
    BY <1>1 DEF ChecksInit
  <2>3. /\ merged = [quarantine |-> merged.quarantine, auth |-> merged.auth]
        /\ bl = [left |-> bl.left, listed |-> bl.listed, score |-> bl.score, failed |-> bl.failed, stored |-> bl.stored]
        /\ spf = [skip |-> spf.skip, task |-> spf.task, chan |-> spf.chan, deferred |-> spf.deferred, lookup |-> spf.lookup]
        /\ dmarc = [task |-> dmarc.task, chan |-> dmarc.chan, rnd |-> dmarc.rnd]
    <3>1. PICK f : f = FALSE  OBVIOUS
    <3>2. PICK l : l = IF Early THEN Lists ELSE {}  OBVIOUS
    <3>3. PICK p : p = Pass  OBVIOUS
    <3>4. PICK m : m = Empty  OBVIOUS
    <3>5. PICK e : e = {}  OBVIOUS
    <3>6. /\ merged = [quarantine |-> f, auth |-> e]
          /\ bl = [left |-> l, listed |-> e, score |-> 0, failed |-> f, stored |-> p]
          /\ spf = [skip |-> f, task |-> "none", chan |-> "empty", deferred |-> f, lookup |-> m]
          /\ dmarc = [task |-> "none", chan |-> m, rnd |-> 0]
      BY <1>1, <3>1, <3>2, <3>3, <3>4, <3>5, Zenon DEF ChecksInit
    <3> QED  BY <3>6
  <2> QED  BY <1>1, <2>1, <2>2, <2>3 DEF ChecksShape, ChecksInit, Working
<1>3. stage \in {"early", "conn"} /\ outcome = "none" /\ said = {} /\ dmarc.task = "none" /\ dmarc.chan = Empty /\ ~spf.deferred
  BY <1>1 DEF ChecksInit
<1>4. VerdictsKept
  BY <1>3 DEF VerdictsKept
<1>5. OwnersKept
  BY <1>3 DEF OwnersKept
<1>6. DeferralKept
  BY <1>3 DEF DeferralKept, DeferredDecided
<1>7. ListingsKept
  <2>1. SUFFICES ASSUME Early PROVE ListingsKept
    BY DEF ListingsKept
  <2>2. bl.left = Lists /\ bl.listed = {} /\ bl.score = 0 /\ stage = "early"
    BY <1>1, <2>1 DEF ChecksInit
  <2> QED  BY <1>3, <2>2, ScoreNone DEF ListingsKept
<1> QED  BY <1>2, <1>4, <1>5, <1>6, <1>7 DEF ChecksInv

(* Steps that leave the verdicts, the stage and its record alone. *)
LEMMA QuietVerdicts ==
    ASSUME VerdictsKept, UNCHANGED <<stage, found, merged, said, outcome, rcpts, passed, quarantined>>
    PROVE  VerdictsKept'
BY DEF VerdictsKept, Going, Decided, Standing

LEMMA QuietOwners ==
    ASSUME OwnersKept, UNCHANGED <<scenario, stage, found, outcome>>,
           "authorize" \in running => "authorize" \in running'
    PROVE  OwnersKept'
<1>1. UNCHANGED MustOwn /\ UNCHANGED SenderIsUser /\ UNCHANGED HeaderIsUser
  BY DEF MustOwn, SenderIsUser, HeaderIsUser
<1> QED  BY <1>1, Zenon DEF OwnersKept

LEMMA QuietListings ==
    ASSUME ListingsKept, UNCHANGED <<scenario, stage, found, merged, bl, outcome>>,
           "dnsbl" \in running => "dnsbl" \in running'
    PROVE  ListingsKept'
<1>1. UNCHANGED Early /\ UNCHANGED Going
  BY DEF Early, Going
<1> QED  BY <1>1, Zenon DEF ListingsKept

LEMMA QuietDeferral ==
    ASSUME DeferralKept, UNCHANGED <<scenario, stage, found, merged, dmarc, outcome, quarantined, spf.deferred, spf.lookup>>,
           "dkim" \in running => "dkim" \in running'
    PROVE  DeferralKept'
<1>1. (\A x : UNCHANGED Seen(x)) /\ UNCHANGED PolicyFor(scenario.from, spf.lookup)
  BY DEF Seen, PolicyFor
<1>2. UNCHANGED DeferredDecided
  BY DEF DeferredDecided, DmarcInForce, Authenticated, PolicyFor
<1> QED  BY <1>1, <1>2, Zenon DEF DeferralKept

LEMMA BlAnswerStep ==
    ASSUME ChecksInv, NEW l \in Lists, BlAnswer(l)
    PROVE  ChecksInv'
<1>0. ChecksShape /\ VerdictsKept /\ OwnersKept /\ DeferralKept /\ ListingsKept
  BY DEF ChecksInv
<1>1. /\ stage = "early" /\ l \in bl.left /\ outcome = "none"
      /\ UNCHANGED <<scenario, stage, running, found, merged, spf, dmarc, milterSkip, rcpts, passed, quarantined, outcome, said>>
  BY <1>0 DEF BlAnswer, ChecksShape, msgVars
<1>2. PICK r, fl : bl' = [bl EXCEPT !.left = @ \ {l}, !.failed = fl,
                             !.listed = IF r = "listed" THEN @ \cup {l} ELSE @,
                             !.score = IF r = "listed" THEN @ + l.score ELSE @]
  <2>1. PICK a, e \in BlAnswers :
        LET r == CheckList(l, scenario.ip, scenario.ehlo, a, e)
        IN  bl' = [bl EXCEPT !.left = @ \ {l}, !.failed = @ \/ r = "error",
                             !.listed = IF r = "listed" THEN @ \cup {l} ELSE @,
                             !.score = IF r = "listed" THEN @ + l.score ELSE @]
    BY Zenon DEF BlAnswer
  <2> QED  BY <2>1, Zenon
<1>3. bl = [left |-> bl.left, listed |-> bl.listed, score |-> bl.score, failed |-> bl.failed, stored |-> bl.stored]
  BY <1>0 DEF ChecksShape
<1>4. PICK ls, sc : /\ ls = IF r = "listed" THEN bl.listed \cup {l} ELSE bl.listed
                    /\ sc = IF r = "listed" THEN bl.score + l.score ELSE bl.score
  OBVIOUS
<1>5. bl' = [bl EXCEPT !.left = bl.left \ {l}, !.failed = fl, !.listed = ls, !.score = sc]
  BY <1>2, <1>4, Zenon
<1>6. bl' = [left |-> bl.left \ {l}, listed |-> ls, score |-> sc, failed |-> fl, stored |-> bl.stored]
  BY <1>3, <1>5
<1>7. ChecksShape'
  <2>1. bl' = [left |-> bl'.left, listed |-> bl'.listed, score |-> bl'.score, failed |-> bl'.failed, stored |-> bl'.stored]
    BY <1>6
  <2> QED  BY <1>0, <1>1, <2>1, Zenon DEF ChecksShape
<1>8. VerdictsKept'
  BY <1>0, <1>1, QuietVerdicts
<1>9. OwnersKept'
  BY <1>0, <1>1, QuietOwners
<1>10. DeferralKept'
  BY <1>0, <1>1, QuietDeferral
<1>11. ListingsKept'
  <2>1. UNCHANGED Early
    BY <1>1 DEF Early
  <2>2. SUFFICES ASSUME Early PROVE ListingsKept'
    BY <2>1 DEF ListingsKept
  <2>3. bl.left \subseteq Lists /\ bl.listed \subseteq Lists \ bl.left /\ bl.score = Score(bl.listed)
    BY <1>0, <2>2 DEF ListingsKept
  <2>4. bl'.left = bl.left \ {l} /\ bl'.listed = ls /\ bl'.score = sc
    BY <1>6
  <2>5. bl'.left \subseteq Lists /\ bl'.listed \subseteq Lists \ bl'.left
    BY <1>1, <1>4, <2>3, <2>4
  <2>6. sc = Score(ls)
    <3>1. CASE r = "listed"
      <4>1. bl.listed \in SUBSET Lists /\ l \notin bl.listed
        BY <1>1, <2>3
      <4>2. Score(bl.listed \cup {l}) = Score(bl.listed) + l.score
        BY <4>1, ScoreAdds, ListsAssumption
      <4> QED  BY <1>4, <2>3, <3>1, <4>2
    <3>2. CASE r # "listed"
      BY <1>4, <2>3, <3>2
    <3> QED  BY <3>1, <3>2
  <2> QED  BY <1>1, <2>1, <2>4, <2>5, <2>6, Zenon DEF ListingsKept
<1> QED  BY <1>7, <1>8, <1>9, <1>10, <1>11 DEF ChecksInv

(* The stage ends the message, or the next one starts without a verdict. *)
LEMMA EndsVerdicts ==
    ASSUME outcome' \notin {"none", "accepted"}
    PROVE  VerdictsKept'
BY DEF VerdictsKept, Going

LEMMA BlDoneStep ==
    ASSUME ChecksInv, BlDone
    PROVE  ChecksInv'
<1>0. ChecksShape /\ VerdictsKept /\ OwnersKept /\ DeferralKept /\ ListingsKept
  BY DEF ChecksInv
<1>1. /\ stage = "early" /\ outcome = "none"
      /\ UNCHANGED <<scenario, merged, spf, dmarc, milterSkip, rcpts, passed, quarantined, said>>
  BY <1>0 DEF BlDone, ChecksShape
<1>2. PICK res : /\ res = ListsVerdict(bl.failed, bl.score)
                 /\ \/ stage' = "end" /\ outcome' = "refused" /\ UNCHANGED <<running, found, bl>>
                    \/ Enter("conn") /\ bl' = [bl EXCEPT !.stored = res] /\ UNCHANGED outcome
  BY Zenon DEF BlDone
<1>3. bl = [left |-> bl.left, listed |-> bl.listed, score |-> bl.score, failed |-> bl.failed, stored |-> bl.stored]
  BY <1>0 DEF ChecksShape
<1>4. running = {} /\ UNCHANGED Early /\ UNCHANGED MustOwn /\ UNCHANGED SenderIsUser
      /\ UNCHANGED HeaderIsUser /\ (\A x : UNCHANGED Seen(x)) /\ UNCHANGED PolicyFor(scenario.from, spf.lookup)
  BY <1>0, <1>1 DEF ChecksShape, Working, Early, MustOwn, SenderIsUser, HeaderIsUser, Seen, PolicyFor
<1>5. CASE stage' = "end" /\ outcome' = "refused" /\ UNCHANGED <<running, found, bl>>
  <2>1. ChecksShape'
    BY <1>0, <1>1, <1>4, <1>5 DEF ChecksShape
  <2>2. VerdictsKept'
    BY <1>5, EndsVerdicts
  <2>3. OwnersKept'
    BY <1>5 DEF OwnersKept
  <2>4. DeferralKept'
    <3>1. DeferredDecided'
      BY <1>5 DEF DeferredDecided
    <3> QED  BY <1>0, <1>1, <1>4, <1>5, <3>1 DEF DeferralKept
  <2>5. ListingsKept'
    BY <1>0, <1>4, <1>5 DEF ListingsKept, Going
  <2> QED  BY <2>1, <2>2, <2>3, <2>4, <2>5 DEF ChecksInv
<1>6. CASE Enter("conn") /\ bl' = [bl EXCEPT !.stored = res] /\ UNCHANGED outcome
  <2>0. stage' = "conn" /\ running' = RunsIn("conn")
    BY <1>6 DEF Enter
  <2>1. bl' = [left |-> bl.left, listed |-> bl.listed, score |-> bl.score, failed |-> bl.failed, stored |-> res]
    BY <1>3, <1>6
  <2>2. ChecksShape'
    <3>1. bl' = [left |-> bl'.left, listed |-> bl'.listed, score |-> bl'.score, failed |-> bl'.failed, stored |-> bl'.stored]
      BY <2>1
    <3> QED  BY <1>0, <1>1, <1>6, <2>0, <3>1 DEF ChecksShape, Working
  <2>3. VerdictsKept'
    <3>1. UNCHANGED Going /\ \A v : UNCHANGED Decided(v)
      BY <1>1, <1>6 DEF Going, Decided
    <3> QED  BY <1>0, <1>1, <1>6, <2>0, <3>1 DEF VerdictsKept
  <2>4. OwnersKept'
    BY <1>1, <1>6, <2>0 DEF OwnersKept
  <2>5. DeferralKept'
    <3>1. DeferredDecided'
      BY <1>1, <1>6 DEF DeferredDecided
    <3> QED  BY <1>0, <1>1, <1>4, <1>6, <2>0, <3>1 DEF DeferralKept
  <2>6. ListingsKept'
    <3>1. SUFFICES ASSUME Early PROVE ListingsKept'
      BY <1>4 DEF ListingsKept
    <3>2. "dnsbl" \in running'
      BY <2>0, <3>1 DEF Early, RunsIn, Acting
    <3>3. bl'.left = bl.left /\ bl'.listed = bl.listed /\ bl'.score = bl.score /\ bl'.failed = bl.failed /\ bl'.stored = res
      BY <2>1
    <3>4. bl'.stored = ListsVerdict(bl'.failed, bl'.score)
      BY <1>2, <3>3, Zenon
    <3>5. bl'.left \subseteq Lists /\ bl'.listed \subseteq Lists \ bl'.left /\ bl'.score = Score(bl'.listed)
      BY <1>0, <3>1, <3>3, Zenon DEF ListingsKept
    <3> QED  BY <1>1, <1>6, <2>0, <3>2, <3>4, <3>5 DEF ListingsKept
  <2> QED  BY <2>2, <2>3, <2>4, <2>5, <2>6 DEF ChecksInv
<1> QED  BY <1>2, <1>5, <1>6

LEMMA TaskStep ==
    ASSUME ChecksInv, MilterPanics \/ SpfTask \/ SpfPanics
    PROVE  ChecksInv'
<1>0. ChecksShape /\ VerdictsKept /\ OwnersKept /\ DeferralKept /\ ListingsKept
  BY DEF ChecksInv
<1>1. /\ UNCHANGED <<scenario, stage, found, merged, bl, dmarc, rcpts, passed, quarantined, outcome, said>>
      /\ running' \in {running, running \ {"milter"}}
  BY DEF MilterPanics, SpfTask, SpfPanics, msgVars
<1>2. spf = [skip |-> spf.skip, task |-> spf.task, chan |-> spf.chan, deferred |-> spf.deferred, lookup |-> spf.lookup]
  BY <1>0 DEF ChecksShape
<1>3. spf' = spf \/ \E v : spf' = [spf EXCEPT !.task = "ended", !.chan = v]
  BY Zenon DEF MilterPanics, SpfTask, SpfPanics
<1>4. UNCHANGED <<spf.deferred, spf.lookup>> /\ SpfKept
  BY <1>2, <1>3 DEF SpfKept
<1>5. ChecksShape'
  BY <1>0, <1>1, <1>4 DEF ChecksShape, SpfKept
<1> QED  BY <1>0, <1>1, <1>4, <1>5, QuietVerdicts, QuietOwners, QuietDeferral, QuietListings DEF ChecksInv

(* The lookup of the verifier comes back: nothing has been decided by it. *)
LEMMA DmarcStep ==
    ASSUME ChecksInv, DmarcTask \/ DmarcPanics
    PROVE  ChecksInv'
<1>0. ChecksShape /\ VerdictsKept /\ OwnersKept /\ DeferralKept /\ ListingsKept
  BY DEF ChecksInv
<1>1. /\ UNCHANGED <<scenario, stage, running, found, merged, bl, spf, rcpts, passed, quarantined, outcome, said>>
      /\ dmarc.task = "running"
  BY DEF DmarcTask, DmarcPanics, msgVars
<1>2. dmarc = [task |-> dmarc.task, chan |-> dmarc.chan, rnd |-> dmarc.rnd]
  BY <1>0 DEF ChecksShape
<1>3. PICK c : dmarc' = [dmarc EXCEPT !.task = "ended", !.chan = c]
  BY Zenon DEF DmarcTask, DmarcPanics
<1>4. dmarc' = [task |-> "ended", chan |-> c, rnd |-> dmarc.rnd]
  BY <1>2, <1>3
<1>5. ChecksShape'
  <2>1. dmarc' = [task |-> dmarc'.task, chan |-> dmarc'.chan, rnd |-> dmarc'.rnd]
    BY <1>4
  <2> QED  BY <1>0, <1>1, <2>1 DEF ChecksShape
<1>6. DeferralKept'
  <2>1. dmarc'.task = "ended" /\ dmarc.chan = Empty
    BY <1>0, <1>1, <1>4 DEF DeferralKept
  <2>2. ~(outcome = "accepted" /\ scenario.dmarc)
    BY <1>0, <2>1 DEF DeferralKept
  <2>3. DeferredDecided'
    BY <1>1, <2>2 DEF DeferredDecided, DmarcInForce
  <2>4. (\A x : UNCHANGED Seen(x)) /\ UNCHANGED PolicyFor(scenario.from, spf.lookup)
    BY <1>1 DEF Seen, PolicyFor
  <2>5. stage \notin {"early", "conn", "sender", "envelope", "rcpt"}
    BY <1>0, <1>1 DEF DeferralKept
  <2> QED  BY <1>0, <1>1, <2>1, <2>2, <2>3, <2>4, <2>5 DEF DeferralKept
<1> QED  BY <1>0, <1>1, <1>5, <1>6, QuietVerdicts, QuietOwners, QuietListings DEF ChecksInv

LEMMA StageDoneStep ==
    ASSUME ChecksInv, StageDone
    PROVE  ChecksInv'
<1>0. ChecksShape /\ VerdictsKept /\ OwnersKept /\ DeferralKept /\ ListingsKept
  BY DEF ChecksInv
<1>1. /\ stage \in {"conn", "sender", "body"} /\ outcome = "none" /\ running = {}
      /\ UNCHANGED <<scenario, bl, spf, dmarc, rcpts, passed, quarantined, said>>
  BY <1>0 DEF StageDone, ChecksShape
<1>2. merged = [quarantine |-> merged.quarantine, auth |-> merged.auth]
  BY <1>0 DEF ChecksShape
<1>3. /\ UNCHANGED Early /\ UNCHANGED MustOwn /\ UNCHANGED SenderIsUser
      /\ UNCHANGED HeaderIsUser /\ UNCHANGED PolicyFor(scenario.from, spf.lookup)
  BY <1>1 DEF Early, MustOwn, SenderIsUser, HeaderIsUser, PolicyFor
<1>4. CASE found.reject
  <2>0. stage' = "end" /\ outcome' = "rejected" /\ UNCHANGED <<running, found, merged>>
    BY <1>4 DEF StageDone
  <2>1. ChecksShape'
    BY <1>0, <1>1, <2>0 DEF ChecksShape
  <2>2. VerdictsKept'
    BY <2>0, EndsVerdicts
  <2>3. OwnersKept'
    BY <2>0 DEF OwnersKept
  <2>4. DeferralKept'
    <3>1. DeferredDecided'
      BY <2>0 DEF DeferredDecided
    <3>2. \A x : UNCHANGED Seen(x)
      BY <2>0 DEF Seen
    <3> QED  BY <1>0, <1>1, <1>3, <2>0, <3>1, <3>2 DEF DeferralKept
  <2>5. ListingsKept'
    BY <1>0, <1>1, <1>3, <2>0 DEF ListingsKept, Going
  <2> QED  BY <2>1, <2>2, <2>3, <2>4, <2>5 DEF ChecksInv
<1>5. CASE ~found.reject
  <2>1. PICK q : q = (merged.quarantine \/ found.quarantine)
    OBVIOUS
  <2>2. /\ merged' = [merged EXCEPT !.quarantine = q]
        /\ IF stage = "conn" THEN Enter("sender") ELSE IF stage = "sender" THEN Enter("envelope") ELSE Enter("apply")
        /\ UNCHANGED outcome
    BY <1>1, <1>5, <2>1, Zenon DEF StageDone
  <2>3. /\ stage' = IF stage = "conn" THEN "sender" ELSE IF stage = "sender" THEN "envelope" ELSE "apply"
        /\ running' = RunsIn(stage')
    BY <2>2 DEF Enter
  <2>4. merged' = [quarantine |-> q, auth |-> merged.auth]
    BY <1>2, <2>2
  <2>5. merged'.quarantine = q /\ merged'.auth = merged.auth
    BY <2>4
  <2>6. ChecksShape'
    <3>1. merged' = [quarantine |-> merged'.quarantine, auth |-> merged'.auth]
      BY <2>4
    <3>2. stage' = "envelope" => running' = {}
      BY <2>3 DEF RunsIn, Acting
    <3>3. stage' = "apply" => running' = {}
      BY <2>3 DEF RunsIn, Acting
    <3> QED  BY <1>0, <1>1, <2>2, <2>3, <3>1, <3>2, <3>3 DEF ChecksShape, Working
  <2>7. VerdictsKept'
    <3>1. \A v : (Standing(v) => Decided(v)') /\ (Decided(v) => Decided(v)')
      BY <1>5, <2>1, <2>5, Zenon DEF Standing, Decided
    <3>2. outcome' = "none" /\ stage' # "rcpt"
      BY <1>1, <2>2, <2>3
    <3> QED  BY <1>0, <1>1, <3>1, <3>2 DEF VerdictsKept, Going
  <2>8. OwnersKept'
    <3>1. SUFFICES ASSUME MustOwn PROVE OwnersKept'
      BY <1>3 DEF OwnersKept
    <3>2. stage' = "sender" => "authorize" \in running'
      BY <1>1, <2>3, <3>1 DEF RunsIn, Acting, MustOwn
    <3> QED  BY <1>0, <1>1, <1>3, <1>5, <2>2, <2>3, <3>1, <3>2 DEF OwnersKept
  <2>9. DeferralKept'
    <3>1. DeferredDecided'
      BY <1>1, <2>2 DEF DeferredDecided
    <3>2. \A x : UNCHANGED Seen(x)
      BY <2>5 DEF Seen
    <3>3. outcome' = "none"
      BY <1>1, <2>2
    <3> QED  BY <1>0, <1>1, <1>3, <1>5, <2>3, <3>1, <3>2, <3>3 DEF DeferralKept
  <2>10. ListingsKept'
    <3>1. SUFFICES ASSUME Early PROVE ListingsKept'
      BY <1>3 DEF ListingsKept
    <3>2. ~bl.stored.reject /\ (bl.stored.quarantine => merged'.quarantine)
      BY <1>0, <1>1, <1>5, <2>1, <2>5, <3>1 DEF ListingsKept
    <3>3. outcome' = "none" /\ UNCHANGED Going
      BY <1>1, <2>2 DEF Going
    <3>4. stage' \in {"sender", "envelope", "apply"}
      BY <1>1, <2>3
    <3> QED  BY <1>0, <1>1, <1>3, <3>1, <3>2, <3>3, <3>4 DEF ListingsKept
  <2> QED  BY <2>6, <2>7, <2>8, <2>9, <2>10 DEF ChecksInv
<1> QED  BY <1>4, <1>5

LEMMA RcptStep ==
    ASSUME ChecksInv, Rcpt
    PROVE  ChecksInv'
<1>0. ChecksShape /\ VerdictsKept /\ OwnersKept /\ DeferralKept /\ ListingsKept
  BY DEF ChecksInv
<1>1. /\ stage = "envelope" /\ outcome = "none" /\ stage' = "rcpt" /\ rcpts' = rcpts + 1
      /\ UNCHANGED <<scenario, merged, bl, spf, dmarc, passed, quarantined, outcome, said>>
  BY <1>0 DEF Rcpt, Enter, ChecksShape
<1>2. rcpts \in Nat /\ passed \subseteq 1 .. rcpts /\ \A v \in said : v.of \in 0 .. rcpts
  BY <1>0 DEF ChecksShape
<1>3. rcpts' \in Nat /\ rcpts' > 0
  BY <1>1, <1>2
<1>4. passed' \subseteq 1 .. rcpts' /\ rcpts' \notin passed'
  BY <1>1, <1>2
<1>5. \A v \in said' : v.of \in 0 .. rcpts' /\ v.of # rcpts'
  BY <1>1, <1>2
<1>6. ChecksShape'
  BY <1>0, <1>1, <1>3, <1>4, <1>5 DEF ChecksShape, Working
<1>7. VerdictsKept'
  <2>1. UNCHANGED Going /\ \A v : UNCHANGED Decided(v)
    BY <1>1 DEF Going, Decided
  <2> QED  BY <1>0, <1>1, <1>5, <2>1 DEF VerdictsKept
<1>8. OwnersKept'
  <2>1. UNCHANGED MustOwn /\ UNCHANGED SenderIsUser /\ UNCHANGED HeaderIsUser
    BY <1>1 DEF MustOwn, SenderIsUser, HeaderIsUser
  <2> QED  BY <1>0, <1>1, <2>1 DEF OwnersKept
<1>9. DeferralKept'
  <2>1. DeferredDecided' /\ (\A x : UNCHANGED Seen(x)) /\ UNCHANGED PolicyFor(scenario.from, spf.lookup)
    BY <1>1 DEF DeferredDecided, Seen, PolicyFor
  <2> QED  BY <1>0, <1>1, <2>1 DEF DeferralKept
<1>10. ListingsKept'
  <2>1. UNCHANGED Early /\ UNCHANGED Going
    BY <1>1 DEF Early, Going
  <2> QED  BY <1>0, <1>1, <2>1 DEF ListingsKept
<1> QED  BY <1>6, <1>7, <1>8, <1>9, <1>10 DEF ChecksInv

LEMMA RcptDoneStep ==
    ASSUME ChecksInv, RcptDone
    PROVE  ChecksInv'
<1>0. ChecksShape /\ VerdictsKept /\ OwnersKept /\ DeferralKept /\ ListingsKept
  BY DEF ChecksInv
<1>1. /\ stage = "rcpt" /\ outcome = "none" /\ stage' = "envelope" /\ running' = RunsIn("envelope")
      /\ passed' = IF found.reject THEN passed ELSE passed \cup {rcpts}
      /\ UNCHANGED <<scenario, bl, spf, dmarc, rcpts, quarantined, outcome, said>>
  BY <1>0 DEF RcptDone, Enter, ChecksShape
<1>2. PICK q : q = (merged.quarantine \/ (~found.reject /\ found.quarantine))
  OBVIOUS
<1>3. merged' = [merged EXCEPT !.quarantine = q]
  BY <1>2, Zenon DEF RcptDone
<1>4. merged' = [quarantine |-> q, auth |-> merged.auth]
  <2>1. merged = [quarantine |-> merged.quarantine, auth |-> merged.auth]
    BY <1>0 DEF ChecksShape
  <2> QED  BY <1>3, <2>1
<1>5. merged'.quarantine = q /\ merged'.auth = merged.auth
  BY <1>4
<1>6. ChecksShape'
  <2>1. merged' = [quarantine |-> merged'.quarantine, auth |-> merged'.auth]
    BY <1>4
  <2>2. running' = {}
    BY <1>1 DEF RunsIn, Acting
  <2>3. rcpts \in Nat /\ rcpts > 0 /\ passed \subseteq 1 .. rcpts
    BY <1>0, <1>1 DEF ChecksShape
  <2>4. passed' \subseteq 1 .. rcpts
    BY <1>1, <2>3
  <2> QED  BY <1>0, <1>1, <2>1, <2>2, <2>4 DEF ChecksShape
<1>7. VerdictsKept'
  <2>1. \A v : Decided(v) => Decided(v)'
    BY <1>2, <1>5, Zenon DEF Decided
  <2>2. ~found.reject => \A v : Standing(v) => Decided(v)'
    BY <1>2, <1>5, Zenon DEF Decided, Standing
  <2>3. Going /\ UNCHANGED Going
    BY <1>1 DEF Going
  <2>4. \A v \in said : Plain(v) =>
          /\ v.of = 0 => Decided(v)
          /\ v.of \in passed => Decided(v)
          /\ v.of = rcpts => Standing(v)
    BY <1>0, <1>1, <2>3 DEF VerdictsKept
  <2>5. \A v \in said : Plain(v) /\ v.of \in passed' => Decided(v)'
    <3>1. CASE found.reject  BY <1>1, <2>1, <2>4, <3>1
    <3>2. CASE ~found.reject  BY <1>1, <2>1, <2>2, <2>4, <3>2
    <3> QED  BY <3>1, <3>2
  <2> QED  BY <1>1, <2>1, <2>4, <2>5 DEF VerdictsKept
<1>8. OwnersKept'
  <2>1. UNCHANGED MustOwn /\ UNCHANGED SenderIsUser /\ UNCHANGED HeaderIsUser
    BY <1>1 DEF MustOwn, SenderIsUser, HeaderIsUser
  <2> QED  BY <1>0, <1>1, <2>1 DEF OwnersKept
<1>9. DeferralKept'
  <2>1. DeferredDecided' /\ (\A x : UNCHANGED Seen(x)) /\ UNCHANGED PolicyFor(scenario.from, spf.lookup)
    BY <1>1, <1>5 DEF DeferredDecided, Seen, PolicyFor
  <2> QED  BY <1>0, <1>1, <2>1 DEF DeferralKept
<1>10. ListingsKept'
  <2>1. UNCHANGED Early /\ UNCHANGED Going
    BY <1>1 DEF Early, Going
  <2>2. merged.quarantine => merged'.quarantine
    BY <1>2, <1>5
  <2> QED  BY <1>0, <1>1, <2>1, <2>2 DEF ListingsKept
<1> QED  BY <1>6, <1>7, <1>8, <1>9, <1>10 DEF ChecksInv

LEMMA DataStep ==
    ASSUME ChecksInv, Data
    PROVE  ChecksInv'
<1>0. ChecksShape /\ VerdictsKept /\ OwnersKept /\ DeferralKept /\ ListingsKept
  BY DEF ChecksInv
<1>1. /\ stage = "envelope" /\ outcome = "none" /\ stage' = "body" /\ running' = RunsIn("body")
      /\ UNCHANGED <<scenario, merged, bl, spf, rcpts, passed, quarantined, outcome, said>>
  BY <1>0 DEF Data, Enter, ChecksShape, msgVars
<1>2. PICK p : p = [err |-> "perm"]
  OBVIOUS
<1>3. dmarc' = dmarc \/ dmarc' = [dmarc EXCEPT !.task = "running"] \/ dmarc' = [dmarc EXCEPT !.chan = p]
  BY <1>2, Zenon DEF Data
<1>4. dmarc = [task |-> "none", chan |-> Empty, rnd |-> dmarc.rnd]
  BY <1>0, <1>1 DEF ChecksShape, DeferralKept
<1>5. dmarc'.task = "running" => dmarc'.chan = Empty
  BY <1>3, <1>4
<1>6. ChecksShape'
  <2>1. dmarc' = [task |-> dmarc'.task, chan |-> dmarc'.chan, rnd |-> dmarc'.rnd]
    BY <1>3, <1>4
  <2> QED  BY <1>0, <1>1, <2>1 DEF ChecksShape, Working
<1>7. VerdictsKept'
  <2>1. UNCHANGED Going /\ \A v : UNCHANGED Decided(v)
    BY <1>1 DEF Going, Decided
  <2> QED  BY <1>0, <1>1, <2>1 DEF VerdictsKept
<1>8. OwnersKept'
  <2>1. UNCHANGED MustOwn /\ UNCHANGED SenderIsUser /\ UNCHANGED HeaderIsUser
    BY <1>1 DEF MustOwn, SenderIsUser, HeaderIsUser
  <2>2. MustOwn => "authorize" \in running'
    BY <1>1 DEF MustOwn, RunsIn, Acting
  <2> QED  BY <1>0, <1>1, <2>1, <2>2 DEF OwnersKept
<1>9. DeferralKept'
  <2>1. DeferredDecided' /\ (\A x : UNCHANGED Seen(x)) /\ UNCHANGED PolicyFor(scenario.from, spf.lookup)
    BY <1>1 DEF DeferredDecided, Seen, PolicyFor
  <2>2. "dkim" \in scenario.checks => "dkim" \in running'
    BY <1>1 DEF RunsIn, Acting
  <2> QED  BY <1>0, <1>1, <1>5, <2>1, <2>2 DEF DeferralKept
<1>10. ListingsKept'
  <2>1. UNCHANGED Early /\ UNCHANGED Going
    BY <1>1 DEF Early, Going
  <2> QED  BY <1>0, <1>1, <2>1 DEF ListingsKept
<1> QED  BY <1>6, <1>7, <1>8, <1>9, <1>10 DEF ChecksInv

LEMMA ClientLeavesStep ==
    ASSUME ChecksInv, ClientLeaves
    PROVE  ChecksInv'
<1>0. ChecksShape /\ VerdictsKept /\ OwnersKept /\ DeferralKept /\ ListingsKept
  BY DEF ChecksInv
<1>1. /\ stage = "envelope" /\ stage' = "end" /\ outcome' = "aborted"
      /\ UNCHANGED <<scenario, running, found, merged, bl, spf, dmarc, rcpts, passed, quarantined, said>>
  BY DEF ClientLeaves
<1>2. ChecksShape'
  BY <1>0, <1>1 DEF ChecksShape, Working
<1>3. VerdictsKept'
  BY <1>1, EndsVerdicts
<1>4. OwnersKept'
  BY <1>1 DEF OwnersKept
<1>5. DeferralKept'
  <2>1. DeferredDecided' /\ (\A x : UNCHANGED Seen(x)) /\ UNCHANGED PolicyFor(scenario.from, spf.lookup)
    BY <1>1 DEF DeferredDecided, Seen, PolicyFor
  <2> QED  BY <1>0, <1>1, <2>1 DEF DeferralKept
<1>6. ListingsKept'
  <2>1. UNCHANGED Early
    BY <1>1 DEF Early
  <2> QED  BY <1>0, <1>1, <2>1 DEF ListingsKept, Going
<1> QED  BY <1>2, <1>3, <1>4, <1>5, <1>6 DEF ChecksInv

(* EvaluateAlignment passes a message only for an aligned identifier. *)
LEMMA AlignmentPasses ==
    ASSUME NEW from, NEW rec, NEW auth, \E r \in auth : r.kind = "dkim", \E r \in auth : r.kind = "spf",
           EvaluateAlignment(from, rec, auth) \in {"pass", "none"}
    PROVE  \E r \in auth : r.value = "pass" /\ IsAligned(from, r.domain, IF r.kind = "spf" THEN rec.aspf ELSE rec.adkim)
<1>1. PICK dkim : dkim = {r \in auth : r.kind = "dkim"}  OBVIOUS
<1>2. PICK spfs : spfs = {r \in auth : r.kind = "spf"}  OBVIOUS
<1>3. PICK line : line = {r \in dkim : IsAligned(from, r.domain, rec.adkim)}  OBVIOUS
<1>4. dkim # {} /\ spfs # {}
  BY <1>1, <1>2
<1>5. \/ \E r \in line : r.value = "pass"
      \/ \E r \in spfs : r.value = "pass" /\ IsAligned(from, r.domain, rec.aspf)
  <2>1. SUFFICES ASSUME ~\E r \in line : r.value = "pass",
                        ~\E r \in spfs : r.value = "pass" /\ IsAligned(from, r.domain, rec.aspf)
                 PROVE  EvaluateAlignment(from, rec, auth) \in {"temperror", "fail"}
    OBVIOUS
  <2> QED  BY <1>1, <1>2, <1>3, <1>4, <2>1, Zenon DEF EvaluateAlignment
<1>6. \A r \in line : r \in auth /\ r.kind = "dkim" /\ IsAligned(from, r.domain, rec.adkim)
  BY <1>1, <1>3, Zenon
<1>7. \A r \in spfs : r \in auth /\ r.kind = "spf"
  BY <1>2, Zenon
<1>8. \A r \in line : IsAligned(from, r.domain, IF r.kind = "spf" THEN rec.aspf ELSE rec.adkim)
  <2>1. ASSUME NEW r \in line PROVE (IF r.kind = "spf" THEN rec.aspf ELSE rec.adkim) = rec.adkim
    BY <1>6
  <2> QED  BY <1>6, <2>1, Zenon
<1> QED  BY <1>5, <1>6, <1>7, <1>8, Zenon

LEMMA ApplyDmarcStep ==
    ASSUME ChecksInv, ApplyDmarc
    PROVE  ChecksInv'
<1>0. ChecksShape /\ VerdictsKept /\ OwnersKept /\ DeferralKept /\ ListingsKept
  BY DEF ChecksInv
<1>1. /\ stage = "apply" /\ outcome = "none" /\ stage' = "end"
      /\ scenario.dmarc => dmarc.chan # Empty
      /\ UNCHANGED <<scenario, running, found, merged, bl, spf, rcpts, passed, said>>
  BY <1>0 DEF ApplyDmarc, ChecksShape
<1>2. PICK rnd \in Draws :
        LET res == IF scenario.dmarc THEN VerifierApply(scenario.from, dmarc.chan, merged.auth, rnd)
                   ELSE [value |-> "none", policy |-> "none"]
        IN  /\ quarantined' = (merged.quarantine \/ res.policy = "quarantine")
            /\ outcome' = IF res.policy = "reject" THEN "rejected" ELSE "accepted"
            /\ dmarc' = [dmarc EXCEPT !.rnd = rnd]
  BY Zenon DEF ApplyDmarc
<1>3. PICK res : /\ res = IF scenario.dmarc THEN VerifierApply(scenario.from, dmarc.chan, merged.auth, rnd)
                          ELSE [value |-> "none", policy |-> "none"]
                 /\ quarantined' = (merged.quarantine \/ res.policy = "quarantine")
                 /\ outcome' = IF res.policy = "reject" THEN "rejected" ELSE "accepted"
                 /\ dmarc' = [dmarc EXCEPT !.rnd = rnd]
  BY <1>2, Zenon
<1>4. dmarc' = [task |-> dmarc.task, chan |-> dmarc.chan, rnd |-> rnd]
  <2>1. dmarc = [task |-> dmarc.task, chan |-> dmarc.chan, rnd |-> dmarc.rnd]
    BY <1>0 DEF ChecksShape
  <2> QED  BY <1>3, <2>1
<1>5. dmarc'.task = dmarc.task /\ dmarc'.chan = dmarc.chan /\ dmarc'.rnd = rnd
  BY <1>4
<1>6. ChecksShape'
  <2>1. dmarc' = [task |-> dmarc'.task, chan |-> dmarc'.chan, rnd |-> dmarc'.rnd]
    BY <1>4
  <2>2. outcome' \in {"rejected", "accepted"}
    BY <1>3
  <2> QED  BY <1>0, <1>1, <2>1, <2>2 DEF ChecksShape, Working
<1>7. VerdictsKept'
  <2>1. Going /\ \A v : UNCHANGED Decided(v)
    BY <1>1 DEF Going, Decided
  <2>2. \A v \in said : Plain(v) => (v.of = 0 => Decided(v)) /\ (v.of \in passed => Decided(v))
    BY <1>0, <1>1, <2>1 DEF VerdictsKept
  <2>3. merged.quarantine => quarantined'
    BY <1>3
  <2> QED  BY <1>1, <2>1, <2>2, <2>3 DEF VerdictsKept
<1>8. OwnersKept'
  <2>1. UNCHANGED MustOwn /\ UNCHANGED SenderIsUser /\ UNCHANGED HeaderIsUser
    BY <1>1 DEF MustOwn, SenderIsUser, HeaderIsUser
  <2> QED  BY <1>0, <1>1, <2>1 DEF OwnersKept
<1>9. DeferralKept'
  <2>1. DeferredDecided'
    <3>1. SUFFICES ASSUME outcome' = "accepted", spf.deferred, scenario.dmarc, {"spf", "dkim"} \subseteq scenario.checks,
                          spf.lookup = dmarc.chan
                   PROVE  \/ Authenticated'
                          \/ quarantined' /\ PolicyFor(scenario.from, dmarc.chan) = "quarantine"
                          \/ rnd > dmarc.chan.rec.pct
      BY <1>1, <1>5, Zenon DEF DeferredDecided, DmarcInForce, PolicyFor
    <3>2. /\ Seen("spf") /\ Seen("dkim")
          /\ dmarc.chan.err = "no" /\ dmarc.chan.found
          /\ PolicyFor(scenario.from, dmarc.chan) \in {"quarantine", "reject"}
      BY <1>0, <1>1, <3>1 DEF DeferralKept
    <3>3. PICK value : value = EvaluateAlignment(scenario.from, dmarc.chan.rec, merged.auth)
      OBVIOUS
    <3>4. PICK pol : pol = IF value \in {"pass", "none"} \/ rnd > dmarc.chan.rec.pct THEN "none"
                           ELSE PolicyFor(scenario.from, dmarc.chan)
      OBVIOUS
    <3>5. res = [value |-> value, policy |-> pol]
      <4>1. dmarc.chan.err # "temp" /\ dmarc.chan.err # "perm"
        BY <3>2
      <4>2. VerifierApply(scenario.from, dmarc.chan, merged.auth, rnd) = [value |-> value, policy |-> pol]
        BY <3>2, <3>3, <3>4, <4>1, Zenon DEF VerifierApply
      <4> QED  BY <1>3, <3>1, <4>2, Zenon
    <3>6. res.policy = pol
      BY <3>5
    <3>7. CASE value \in {"pass", "none"}
      <4>1. \E r \in merged.auth : r.value = "pass" /\ IsAligned(scenario.from, r.domain,
                IF r.kind = "spf" THEN dmarc.chan.rec.aspf ELSE dmarc.chan.rec.adkim)
        BY <3>2, <3>3, <3>7, AlignmentPasses, Zenon DEF Seen
      <4>2. Authenticated'
        BY <1>1, <1>5, <4>1, Zenon DEF Authenticated
      <4> QED  BY <4>2
    <3>8. CASE value \notin {"pass", "none"} /\ ~(rnd > dmarc.chan.rec.pct)
      <4>1. pol = PolicyFor(scenario.from, dmarc.chan)
        BY <3>4, <3>8, Zenon
      <4>2. pol # "reject"
        BY <1>3, <3>1, <3>6
      <4>3. pol = "quarantine"
        BY <3>2, <4>1, <4>2
      <4> QED  BY <1>3, <3>6, <4>1, <4>3, Zenon
    <3> QED  BY <3>7, <3>8
  <2>2. (\A x : UNCHANGED Seen(x)) /\ UNCHANGED PolicyFor(scenario.from, spf.lookup)
    BY <1>1 DEF Seen, PolicyFor
  <2> QED  BY <1>0, <1>1, <1>5, <2>1, <2>2 DEF DeferralKept
<1>10. ListingsKept'
  <2>1. UNCHANGED Early /\ Going
    BY <1>1 DEF Early, Going
  <2> QED  BY <1>0, <1>1, <2>1 DEF ListingsKept
<1> QED  BY <1>6, <1>7, <1>8, <1>9, <1>10 DEF ChecksInv

LEMMA ChecksStutter ==
    ASSUME ChecksInv, UNCHANGED checkVars
    PROVE  ChecksInv'
<1>0. ChecksShape /\ VerdictsKept /\ OwnersKept /\ DeferralKept /\ ListingsKept
  BY DEF ChecksInv
<1>1. UNCHANGED <<scenario, stage, running, found, merged, bl, spf, dmarc, milterSkip, rcpts, passed, quarantined, outcome, said>>
  BY DEF checkVars, msgVars
<1>2. ChecksShape'
  BY <1>0, <1>1 DEF ChecksShape
<1> QED  BY <1>0, <1>1, <1>2, QuietVerdicts, QuietOwners, QuietDeferral, QuietListings DEF ChecksInv

LEMMA ChecksInductive == ChecksInv /\ [ChecksNext]_checkVars => ChecksInv'
<1>1. SUFFICES ASSUME ChecksInv, [ChecksNext]_checkVars PROVE ChecksInv'
  OBVIOUS
<1>2. CASE \E l \in Lists : BlAnswer(l)
  BY <1>1, <1>2, BlAnswerStep
<1>3. CASE (\E k \in {"dnsbl", "rdns", "tls", "mx", "dkim", "command", "rspamd"} : Simple(k)) \/ Authorize \/ Milter
           \/ SpfConnection \/ SpfBody
  BY <1>1, <1>3, FinishStep
<1>4. CASE BlDone \/ MilterPanics \/ SpfTask \/ SpfPanics \/ DmarcTask \/ DmarcPanics
  BY <1>1, <1>4, BlDoneStep, TaskStep, DmarcStep
<1>5. CASE StageDone \/ Rcpt \/ RcptDone \/ Data \/ ClientLeaves \/ ApplyDmarc
  BY <1>1, <1>5, StageDoneStep, RcptStep, RcptDoneStep, DataStep, ClientLeavesStep, ApplyDmarcStep
<1>6. CASE UNCHANGED checkVars
  BY <1>1, <1>6, ChecksStutter
<1> QED  BY <1>1, <1>2, <1>3, <1>4, <1>5, <1>6 DEF ChecksNext, CheckStep, Task, Patient

LEMMA ChecksInvariant == ChecksSpec => []ChecksInv
BY ChecksInitially, ChecksInductive, PTL DEF ChecksSpec

(* In every order in which the checks of a stage return, no verdict of one  *)
(* of them is lost by runAndMergeResults, and where authorize_sender asks   *)
(* for it the sender is the user's own.                                     *)
THEOREM ChecksEnforceVerdicts == ChecksSpec => []VerdictsEnforced
<1>1. ChecksInv => VerdictsEnforced
  <2>1. SUFFICES ASSUME ChecksInv PROVE VerdictsEnforced
    OBVIOUS
  <2>2. ChecksShape /\ VerdictsKept /\ OwnersKept
    BY <2>1 DEF ChecksInv
  <2>3. ASSUME outcome = "accepted", NEW v \in said, Plain(v), v.of = 0 \/ v.of \in passed
        PROVE  ~v.reject /\ (v.quarantine => quarantined)
    <3>1. stage = "end"
      BY <2>2, <2>3 DEF ChecksShape
    <3>2. Decided(v)
      BY <2>2, <2>3, <3>1 DEF VerdictsKept, Going
    <3> QED  BY <2>2, <2>3, <3>2 DEF VerdictsKept, Decided
  <2>4. SenderOwned
    BY <2>2 DEF OwnersKept, SenderOwned, MustOwn, SenderIsUser, HeaderIsUser
  <2> QED  BY <2>3, <2>4 DEF VerdictsEnforced
<1> QED  BY <1>1, ChecksInvariant, PTL

(* What SPF leaves to DMARC (spf.go relyOnDMARC) is decided there           *)
(* (Verifier.Apply), for any records, signatures, draws and order of the    *)
(* two lookups, when both find the same record.                             *)
THEOREM ChecksDecideDeferred == ChecksSpec => []DeferredDecided
<1>1. ChecksInv => DeferredDecided
  BY DEF ChecksInv, DeferralKept
<1> QED  BY <1>1, ChecksInvariant, PTL

(* For any finite set of lists and any scores, the concurrent lookups of    *)
(* checkLists add up to the sum over the lists the client is on, and that   *)
(* sum decides.                                                             *)
THEOREM ChecksCountListings == ChecksSpec => []ListingsCounted
<1>1. ChecksInv => ListingsCounted
  <2>1. SUFFICES ASSUME ChecksInv, outcome = "accepted", Early
                 PROVE  /\ ~bl.failed /\ Score(bl.listed) < RejectThreshold
                        /\ Score(bl.listed) >= QuarantineThreshold => quarantined
    BY DEF ListingsCounted, Score
  <2>2. ChecksShape /\ VerdictsKept /\ ListingsKept
    BY <2>1 DEF ChecksInv
  <2>3. stage = "end" /\ Going
    BY <2>1, <2>2 DEF ChecksShape, Going
  <2>4. PICK res : /\ res = ListsVerdict(bl.failed, bl.score) /\ ~res.reject
                   /\ res.quarantine => merged.quarantine
    BY <2>1, <2>2, <2>3, Zenon DEF ListingsKept
  <2>5. bl.listed \in SUBSET Lists /\ bl.score = Score(bl.listed)
    BY <2>1, <2>2 DEF ListingsKept
  <2>6. Score(bl.listed) \in Int
    <3>1. PICK g : AddsUp(g, Lists)
      BY ListsAssumption, AddsExists
    <3>2. Score(bl.listed) = g[bl.listed]
      BY <2>5, <3>1, ListsAssumption, ScoreIs
    <3>3. g[bl.listed] \in Int
      BY <2>5, <3>1, ListsAssumption, ScoreWithout
    <3> QED  BY <3>2, <3>3
  <2>7. ~bl.failed /\ ~(bl.score >= RejectThreshold)
    BY <2>4, RejectionIs, Zenon DEF ListsVerdict
  <2>8. bl.score >= QuarantineThreshold => merged.quarantine
    <3>1. SUFFICES ASSUME bl.score >= QuarantineThreshold PROVE res.quarantine
      BY <2>4
    <3>2. res = [Complaint EXCEPT !.quarantine = TRUE]
      BY <2>4, <2>7, <3>1, Zenon DEF ListsVerdict
    <3>3. PICK f : f = FALSE  OBVIOUS
    <3>4. PICK t : t = TRUE  OBVIOUS
    <3>5. PICK e : e = {}  OBVIOUS
    <3>6. res = [[reason |-> t, quarantine |-> f, reject |-> f, auth |-> e] EXCEPT !.quarantine = t]
      BY <3>2, <3>3, <3>4, <3>5, ComplaintIs, Zenon
    <3>7. res.quarantine = t
      BY <3>6
    <3> QED  BY <3>4, <3>7, Zenon
  <2>9. merged.quarantine => quarantined
    BY <2>1, <2>2 DEF VerdictsKept
  <2> QED  BY <2>5, <2>6, <2>7, <2>8, <2>9, ListsAssumption
<1> QED  BY <1>1, ChecksInvariant, PTL
==============================================================================
