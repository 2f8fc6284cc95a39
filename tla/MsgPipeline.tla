---------------------------- MODULE MsgPipeline ------------------------------
(***************************************************************************)
(* internal/msgpipeline: one message on its way through a pipeline, with   *)
(* the check runner (check_runner.go) and the modifier groups              *)
(* (modify/group.go).  The message source calls Start, AddRcpt, Body or    *)
(* BodyNonAtomic, and Commit or Abort, one after the other.                *)
(*                                                                         *)
(* A call is a sequence of jobs (todo): run a group of checks, run a group *)
(* of modifiers, hand something to a target.  A job that fails ends the    *)
(* call with an error, and whatever the earlier jobs did stays done.  The  *)
(* checks of a group run in parallel; their verdicts are merged once all   *)
(* have answered, so a run of a group is one step.                         *)
(***************************************************************************)
EXTENDS Naturals, Sequences, FiniteSets

CONSTANTS
    Checks, Blocks, Targets,
    Rcpts,          \* addresses of RCPT commands
    Addrs,          \* these and the ones modifiers make of them
    Setups,         \* check groups and kinds of source, see setup
    Expand,         \* [Rcpts -> Seq(Addrs)]: global and source modifiers on a recipient
    BlockExpand,    \* [Addrs -> Seq(Addrs)]: those of its block
    BlockOf,        \* [Addrs -> Blocks]: rcptBlockForAddr
    TargetsOf,      \* [Blocks -> Seq(Targets)]
    MaxRcptCalls    \* bound: AddRcpt calls

SeqOf(S) == UNION {[1 .. n -> S] : n \in 0 .. Cardinality(S)}

(* No group lists a check twice. *)
Distinct(s) == \A i, j \in DOMAIN s : s[i] = s[j] => i = j
GroupsOf(S) == {s \in SeqOf(S) : Distinct(s)}

ASSUME PipelineAssumption ==
    /\ Rcpts \subseteq Addrs
    /\ Setups \subseteq [global : GroupsOf(Checks), source : GroupsOf(Checks),
                        block : [Blocks -> GroupsOf(Checks)], partial : BOOLEAN]
    /\ Expand \in [Rcpts -> SeqOf(Addrs)] /\ BlockExpand \in [Addrs -> SeqOf(Addrs)]
    /\ BlockOf \in [Addrs -> Blocks] /\ TargetsOf \in [Blocks -> SeqOf(Targets)]
    /\ IsFiniteSet(Targets) /\ IsFiniteSet(Blocks) /\ MaxRcptCalls \in Nat

VARIABLES
    setup,          \* fixed: the checks of the pipeline, the source and each block,
                    \* and whether the source calls BodyNonAtomic
    phase,          \* of the message
    call,           \* the call in progress: its name and argument
    todo,           \* its remaining jobs
    rcptCalls,      \* number of AddRcpt calls
    states,         \* checkRunner.states: number of each check's state object, 0 if none
    made,           \* state objects made for each check
    checkedRcpts,   \* checkRunner.checkedRcpts
    seen,           \* checkedRcptsPerCheck: recipients each state object was shown
    closes,         \* Close calls on each state object
    quarantine,     \* mergedRes.Quarantine
    metaQuarantine, \* msgMeta.Quarantine
    mods,           \* modifier states that are kept: subset of scopes
    modOpens, modCloses,    \* modifier states made and closed, per scope
    original,       \* msgMeta.OriginalRcpts
    started,        \* targets that have a delivery
    recipients,     \* delivery.recipients of each target
    bodied, ended,  \* targets that accepted Body; how each delivery ended
    status,         \* SetStatus calls for each client address
    given,          \* history: [rcpt, addr, to, tgt]: client, routed and final address, target
    accepted,       \* history: client addresses answered with success
    rejected,       \* history: <<check, address>> of CheckRcpt rejections
    before          \* history: recipients checked before each state object was made

runnerVars == <<states, made, checkedRcpts, seen, closes, quarantine, rejected, before>>
modVars == <<mods, modOpens, modCloses>>
rcptVars == <<started, recipients, given, original>>
endVars == <<bodied, ended, status, metaQuarantine>>
callVars == <<setup, phase, rcptCalls, accepted>>
vars == <<call, todo, callVars, runnerVars, modVars, rcptVars, endVars>>

MaxStates == MaxRcptCalls + 2
Objects == Checks \X (1 .. MaxStates)
Scopes == {"global", "source"} \cup Blocks
Elems(s) == {s[i] : i \in DOMAIN s}

TypeOK ==
    /\ setup \in Setups
    /\ phase \in {"new", "starting", "rcpts", "bodied", "bodyFailed", "over"}
    /\ rcptCalls \in 0 .. MaxRcptCalls
    /\ states \in [Checks -> 0 .. MaxStates] /\ made \in [Checks -> 0 .. MaxStates]
    /\ \A c \in Checks : states[c] <= made[c]
    /\ Elems(checkedRcpts) \subseteq Addrs
    /\ seen \in [Objects -> SUBSET Addrs]
    /\ closes \in [Objects -> Nat]
    /\ quarantine \in BOOLEAN /\ metaQuarantine \in BOOLEAN
    /\ mods \subseteq Scopes
    /\ modOpens \in [Scopes -> Nat] /\ modCloses \in [Scopes -> Nat]
    /\ original \in [Addrs -> Addrs]
    /\ started \subseteq Targets
    /\ \A t \in Targets : Elems(recipients[t]) \subseteq Rcpts
    /\ bodied \subseteq Targets
    /\ ended \in [Targets -> {"no", "committed", "commitFailed", "aborted"}]
    /\ status \in [Rcpts -> Nat]

Idle == [name |-> "none"]
Call(name, rcpt) == [name |-> name, rcpt |-> rcpt, failed |-> FALSE]

Init ==
    /\ setup \in Setups
    /\ phase = "new"
    /\ call = Idle
    /\ todo = <<>>
    /\ rcptCalls = 0
    /\ states = [c \in Checks |-> 0]
    /\ made = [c \in Checks |-> 0]
    /\ checkedRcpts = <<>>
    /\ seen = [o \in Objects |-> {}]
    /\ closes = [o \in Objects |-> 0]
    /\ quarantine = FALSE
    /\ metaQuarantine = FALSE
    /\ mods = {}
    /\ modOpens = [s \in Scopes |-> 0]
    /\ modCloses = [s \in Scopes |-> 0]
    /\ original = [a \in Addrs |-> a]
    /\ started = {}
    /\ recipients = [t \in Targets |-> <<>>]
    /\ bodied = {}
    /\ ended = [t \in Targets |-> "no"]
    /\ status = [r \in Rcpts |-> 0]
    /\ given = {}
    /\ accepted = {}
    /\ rejected = {}
    /\ before = [o \in Objects |-> {}]

------------------------------------------------------------------------------
(* Jobs of a call *)

CheckJob(cs, kind, addr) == [op |-> "check", cs |-> cs, kind |-> kind, addr |-> addr]
ModJob(scope, kind) == [op |-> "mod", scope |-> scope, kind |-> kind]

IsJob(op) == todo # <<>> /\ ~call.failed /\ Head(todo).op = op
Job == Head(todo)

JobDone == todo' = Tail(todo) /\ UNCHANGED call
JobDoneThen(more) == todo' = more \o Tail(todo) /\ UNCHANGED call
JobFails == todo' = <<>> /\ call' = [call EXCEPT !.failed = TRUE]

Orders(S) == {s \in [1 .. Cardinality(S) -> S] : Distinct(s)}

------------------------------------------------------------------------------
(* checkRunner *)

IsNew(c) == states[c] = 0
Obj(c) == <<c, IF IsNew(c) THEN made[c] + 1 ELSE states[c]>>
Group(cs) == {Obj(c) : c \in Elems(cs)}
NewIn(S) == {c \in S : IsNew(c)}

MakeStates(S) ==
    /\ made' = [c \in Checks |-> IF c \in NewIn(S) THEN made[c] + 1 ELSE made[c]]
    /\ before' = [o \in Objects |-> IF o \in {Obj(c) : c \in NewIn(S)}
                                    THEN Elems(checkedRcpts) ELSE before[o]]

(* closeStates goes over all states of the group, not only the new ones.    *)
CloseStates(S) ==
    closes' = [o \in Objects |-> IF o \in {Obj(c) : c \in S} THEN closes[o] + 1 ELSE closes[o]]

Shown(cs, addrs) ==
    [o \in Objects |-> IF o \in Group(cs) THEN seen[o] \cup addrs ELSE seen[o]]

(* A check without a state object cannot make one: those before it in the   *)
(* group are closed.                                                        *)
CheckInitFails ==
    /\ IsJob("check")
    /\ \E i \in DOMAIN Job.cs :
        LET prior == {Job.cs[j] : j \in 1 .. i - 1} IN
        /\ IsNew(Job.cs[i])
        /\ MakeStates(prior)
        /\ CloseStates(prior)
    /\ JobFails
    /\ UNCHANGED <<callVars, states, checkedRcpts, seen, quarantine, rejected, modVars, rcptVars, endVars>>

(* New state objects are shown the connection, the sender and the first n   *)
(* recipients checked so far (the old ones too, unless they saw them);      *)
(* one of them rejects.                                                     *)
CheckReplayRejects ==
    /\ IsJob("check") /\ NewIn(Elems(Job.cs)) # {}
    /\ \E n \in 0 .. Len(checkedRcpts) :
        LET replayed == {checkedRcpts[i] : i \in 1 .. n}
            unseen == {c \in Elems(Job.cs) :
                        checkedRcpts[n] \notin seen[Obj(c)] \cup {checkedRcpts[i] : i \in 1 .. n - 1}}
        IN  /\ n > 0 => unseen # {}
            /\ seen' = Shown(Job.cs, replayed)
            /\ \E c \in (IF n = 0 THEN NewIn(Elems(Job.cs)) ELSE unseen) :
                rejected' = IF n = 0 THEN rejected ELSE rejected \cup {<<c, checkedRcpts[n]>>}
    /\ \E q \in BOOLEAN : quarantine' = (quarantine \/ q)
    /\ MakeStates(Elems(Job.cs))
    /\ CloseStates(Elems(Job.cs))
    /\ JobFails
    /\ UNCHANGED <<callVars, states, checkedRcpts, modVars, rcptVars, endVars>>

(* Mutant: only the connection and the sender are replayed. *)
ReplayNothing(cs) == {}

Replayed(cs) == IF NewIn(Elems(cs)) = {} THEN {} ELSE Elems(checkedRcpts)

(* The checks of the group that the job's own call reaches.  CheckRcpt is   *)
(* not called again for a recipient the state object was shown.             *)
Called(job) ==
    CASE job.kind = "sender" -> {}
      [] job.kind = "rcpt" -> {c \in Elems(job.cs) : job.addr \notin seen[Obj(c)] \cup Replayed(job.cs)}
      [] job.kind = "body" -> Elems(job.cs)

(* The group has its states, they are kept, and the job's own call is made. *)
RunChecks(job) ==
    /\ MakeStates(Elems(job.cs))
    /\ states' = [c \in Checks |-> IF c \in Elems(job.cs) THEN Obj(c)[2] ELSE states[c]]
    /\ seen' = Shown(job.cs, Replayed(job.cs) \cup (IF job.kind = "rcpt" THEN {job.addr} ELSE {}))
    /\ checkedRcpts' = IF job.kind = "rcpt" THEN Append(checkedRcpts, job.addr) ELSE checkedRcpts
    /\ UNCHANGED <<callVars, closes, modVars, rcptVars, endVars>>

CheckPasses ==
    /\ IsJob("check")
    /\ RunChecks(Job)
    /\ \E q \in (IF NewIn(Elems(Job.cs)) = {} /\ Called(Job) = {} THEN {FALSE} ELSE BOOLEAN) :
        quarantine' = (quarantine \/ q)
    /\ JobDone
    /\ UNCHANGED rejected

(* Some check rejects: what others of the group said in this call is        *)
(* dropped, not what new states said of the connection and the sender.      *)
CheckRejects ==
    /\ IsJob("check")
    /\ RunChecks(Job)
    /\ \E c \in Called(Job) :
        rejected' = IF Job.kind = "rcpt" THEN rejected \cup {<<c, Job.addr>>} ELSE rejected
    /\ \E q \in (IF NewIn(Elems(Job.cs)) = {} THEN {FALSE} ELSE BOOLEAN) : quarantine' = (quarantine \/ q)
    /\ JobFails

------------------------------------------------------------------------------
(* Modifier groups *)

Opened(s) == modOpens' = [modOpens EXCEPT ![s] = @ + 1]
ClosedMod(s) == modCloses' = [modCloses EXCEPT ![s] = @ + 1]

(* ModStateForMsg and RewriteSender.  getRcptModifiers keeps the state of a *)
(* block it already has, and ignores an error of RewriteSender.             *)
ModOpens ==
    /\ IsJob("mod") /\ Job.kind = "open"
    /\ IF Job.scope \in mods THEN UNCHANGED modVars
       ELSE Opened(Job.scope) /\ mods' = mods \cup {Job.scope} /\ UNCHANGED modCloses
    /\ JobDone
    /\ UNCHANGED <<callVars, runnerVars, rcptVars, endVars>>

(* ModStateForMsg fails. *)
ModOpenFails ==
    /\ IsJob("mod") /\ Job.kind = "open" /\ Job.scope \notin mods
    /\ JobFails
    /\ UNCHANGED <<callVars, runnerVars, modVars, rcptVars, endVars>>

(* RewriteSender fails: the global state is closed, the source one is       *)
(* neither closed nor kept.                                                 *)
ModSenderFails ==
    /\ IsJob("mod") /\ Job.kind = "open" /\ Job.scope \in {"global", "source"}
    /\ Opened(Job.scope)
    /\ IF Job.scope = "global" THEN ClosedMod("global") ELSE UNCHANGED modCloses
    /\ JobFails
    /\ UNCHANGED <<mods, callVars, runnerVars, rcptVars, endVars>>

ModRewrites ==
    /\ IsJob("mod") /\ Job.kind \in {"rcpt", "body"}
    /\ JobDone
    /\ UNCHANGED <<callVars, runnerVars, modVars, rcptVars, endVars>>

(* RewriteRcpt or RewriteBody fails.  AddRcpt closes the block's state and  *)
(* keeps it.                                                                *)
ModRewriteFails ==
    /\ IsJob("mod") /\ Job.kind \in {"rcpt", "body"}
    /\ IF Job.kind = "rcpt" /\ Job.scope \in Blocks THEN ClosedMod(Job.scope) ELSE UNCHANGED modCloses
    /\ JobFails
    /\ UNCHANGED <<mods, modOpens, callVars, runnerVars, rcptVars, endVars>>

------------------------------------------------------------------------------
(* Closing *)

(* msgpipelineDelivery.close *)
Close ==
    /\ closes' = [o \in Objects |-> IF states[o[1]] = o[2] THEN closes[o] + 1 ELSE closes[o]]
    /\ modCloses' = [s \in Scopes |-> IF s \in mods THEN modCloses[s] + 1 ELSE modCloses[s]]
    /\ UNCHANGED <<states, made, checkedRcpts, seen, quarantine, rejected, before, mods, modOpens>>

Returned == todo = <<>>
Return == call' = Idle /\ UNCHANGED todo

------------------------------------------------------------------------------
(* Start *)

AnyAddr == CHOOSE a \in Addrs : TRUE

Start ==
    /\ phase = "new" /\ phase' = "starting"
    /\ call' = Call("Start", AnyAddr)
    /\ todo' = <<CheckJob(setup.global, "sender", AnyAddr), ModJob("global", "open"), [op |-> "source"],
                 CheckJob(setup.source, "sender", AnyAddr), ModJob("source", "open")>>
    /\ UNCHANGED <<setup, rcptCalls, accepted, runnerVars, modVars, rcptVars, endVars>>

SourceFound ==
    /\ IsJob("source")
    /\ JobDone
    /\ UNCHANGED <<callVars, runnerVars, modVars, rcptVars, endVars>>

(* The address cannot be normalized or split, or the block says reject. *)
SourceRejected ==
    /\ IsJob("source")
    /\ JobFails
    /\ UNCHANGED <<callVars, runnerVars, modVars, rcptVars, endVars>>

StartReturns ==
    /\ Returned /\ call.name = "Start"
    /\ IF call.failed THEN phase' = "over" /\ Close
       ELSE phase' = "rcpts" /\ UNCHANGED <<runnerVars, modVars>>
    /\ Return
    /\ UNCHANGED <<setup, rcptCalls, accepted, rcptVars, endVars>>

------------------------------------------------------------------------------
(* AddRcpt *)

RouteJobs(s) == [i \in DOMAIN s |-> [op |-> "route", addr |-> s[i]]]
FanJobs(a) == [i \in DOMAIN BlockExpand[a] |-> [op |-> "fan", addr |-> a, to |-> BlockExpand[a][i]]]
GiveJobs(a, to) ==
    LET ts == TargetsOf[BlockOf[a]]
    IN  [i \in DOMAIN ts |-> [op |-> "give", addr |-> a, to |-> to, tgt |-> ts[i]]]

(* Mutant: the checks of the source block are not run. *)
AddRcptNoSource(r) ==
    /\ phase = "rcpts" /\ call = Idle /\ rcptCalls < MaxRcptCalls
    /\ rcptCalls' = rcptCalls + 1
    /\ call' = Call("AddRcpt", r)
    /\ todo' = <<CheckJob(setup.global, "rcpt", r), ModJob("global", "rcpt"), ModJob("source", "rcpt")>>
                \o RouteJobs(Expand[r])
    /\ UNCHANGED <<setup, phase, accepted, runnerVars, modVars, rcptVars, endVars>>

AddRcpt(r) ==
    /\ phase = "rcpts" /\ call = Idle /\ rcptCalls < MaxRcptCalls
    /\ rcptCalls' = rcptCalls + 1
    /\ call' = Call("AddRcpt", r)
    /\ todo' = <<CheckJob(setup.global, "rcpt", r), CheckJob(setup.source, "rcpt", r),
                 ModJob("global", "rcpt"), ModJob("source", "rcpt")>> \o RouteJobs(Expand[r])
    /\ UNCHANGED <<setup, phase, accepted, runnerVars, modVars, rcptVars, endVars>>

(* rcptBlockForAddr found the block of an address. *)
Route ==
    /\ IsJob("route")
    /\ LET b == BlockOf[Job.addr]
       IN  JobDoneThen(<<CheckJob(setup.block[b], "rcpt", Job.addr), ModJob(b, "open"), ModJob(b, "rcpt")>>
                       \o FanJobs(Job.addr))
    /\ UNCHANGED <<callVars, runnerVars, modVars, rcptVars, endVars>>

(* The address is malformed, or its block says reject. *)
RouteRejected ==
    /\ IsJob("route")
    /\ JobFails
    /\ UNCHANGED <<callVars, runnerVars, modVars, rcptVars, endVars>>

Fan ==
    /\ IsJob("fan")
    /\ original' = IF Job.to = call.rcpt THEN original ELSE [original EXCEPT ![Job.to] = call.rcpt]
    /\ JobDoneThen(GiveJobs(Job.addr, Job.to))
    /\ UNCHANGED <<callVars, runnerVars, modVars, started, recipients, given, endVars>>

(* getDelivery and the target's AddRcpt. *)
Give ==
    /\ IsJob("give")
    /\ started' = started \cup {Job.tgt}
    /\ recipients' = [recipients EXCEPT ![Job.tgt] = Append(@, call.rcpt)]
    /\ given' = given \cup {[rcpt |-> call.rcpt, addr |-> Job.addr, to |-> Job.to, tgt |-> Job.tgt]}
    /\ JobDone
    /\ UNCHANGED <<callVars, runnerVars, modVars, original, endVars>>

(* The target's Start or, with the delivery kept, its AddRcpt fails. *)
GiveFails ==
    /\ IsJob("give")
    /\ \E kept \in {{}, {Job.tgt}} : started' = started \cup kept
    /\ JobFails
    /\ UNCHANGED <<callVars, runnerVars, modVars, recipients, given, original, endVars>>

AddRcptReturns ==
    /\ Returned /\ call.name = "AddRcpt"
    /\ accepted' = IF call.failed THEN accepted ELSE accepted \cup {call.rcpt}
    /\ Return
    /\ UNCHANGED <<setup, phase, rcptCalls, runnerVars, modVars, rcptVars, endVars>>

------------------------------------------------------------------------------
(* Body and BodyNonAtomic *)

BlockBodyJobs(bs) == [i \in DOMAIN bs |-> CheckJob(setup.block[bs[i]], "body", AnyAddr)]
BlockModJobs(bs) == [i \in DOMAIN bs |-> ModJob(bs[i], "body")]
TargetJobs(ts) == [i \in DOMAIN ts |-> [op |-> "body", tgt |-> ts[i]]]

(* The source has had a recipient accepted.  BodyNonAtomic skips the checks *)
(* of the blocks and applyResults.                                          *)
Body ==
    /\ phase = "rcpts" /\ call = Idle /\ accepted # {}
    /\ call' = Call(IF setup.partial THEN "BodyNonAtomic" ELSE "Body", AnyAddr)
    /\ \E bs \in Orders(mods \cap Blocks), ts \in Orders(started) :
        todo' = <<CheckJob(setup.global, "body", AnyAddr), CheckJob(setup.source, "body", AnyAddr)>>
                \o (IF setup.partial THEN <<>> ELSE Append(BlockBodyJobs(bs), [op |-> "apply"]))
                \o <<ModJob("global", "body"), ModJob("source", "body")>>
                \o BlockModJobs(bs) \o TargetJobs(ts)
    /\ UNCHANGED <<callVars, runnerVars, modVars, rcptVars, endVars>>

(* applyResults; a DMARC policy may ask for quarantine too. *)
ApplyResults ==
    /\ IsJob("apply")
    /\ \E dmarc \in BOOLEAN : metaQuarantine' = (metaQuarantine \/ quarantine \/ dmarc)
    /\ JobDone
    /\ UNCHANGED <<callVars, runnerVars, modVars, rcptVars, bodied, ended, status>>

(* The Received field cannot be made, or the DMARC policy is reject. *)
ApplyRejects ==
    /\ IsJob("apply")
    /\ JobFails
    /\ UNCHANGED <<callVars, runnerVars, modVars, rcptVars, endVars>>

TargetBody ==
    /\ IsJob("body")
    /\ bodied' = bodied \cup {Job.tgt}
    /\ JobDone
    /\ UNCHANGED <<callVars, runnerVars, modVars, rcptVars, ended, status, metaQuarantine>>

(* Mutant: the error of one target does not stop the message. *)
TargetBodySkips ==
    /\ IsJob("body") /\ ~setup.partial
    /\ JobDone
    /\ UNCHANGED <<callVars, runnerVars, modVars, rcptVars, endVars>>

TargetBodyFails ==
    /\ IsJob("body") /\ ~setup.partial
    /\ JobFails
    /\ UNCHANGED <<callVars, runnerVars, modVars, rcptVars, endVars>>

Times(r, s) == Cardinality({i \in DOMAIN s : s[i] = r})

(* Body of a target that has no per-recipient statuses fails. *)
TargetFailsForAll ==
    /\ IsJob("body") /\ setup.partial
    /\ status' = [r \in Rcpts |-> status[r] + Times(r, recipients[Job.tgt])]
    /\ JobDone
    /\ UNCHANGED <<callVars, runnerVars, modVars, rcptVars, bodied, ended, metaQuarantine>>

(* One that has reports each of its addresses, and statusCollector          *)
(* translates them back.                                                    *)
TargetReports ==
    /\ IsJob("body") /\ setup.partial
    /\ LET mine == {g.to : g \in {h \in given : h.tgt = Job.tgt}} IN
       status' = [r \in Rcpts |-> status[r] + Cardinality({a \in mine : original[a] = r})]
    /\ bodied' = bodied \cup {Job.tgt}
    /\ JobDone
    /\ UNCHANGED <<callVars, runnerVars, modVars, rcptVars, ended, metaQuarantine>>

BodyReturns ==
    /\ Returned /\ call.name = "Body"
    /\ phase' = IF call.failed THEN "bodyFailed" ELSE "bodied"
    /\ Return
    /\ UNCHANGED <<setup, rcptCalls, accepted, runnerVars, modVars, rcptVars, endVars>>

(* setStatusAll goes over the recipients of every delivery. *)
BodyNonAtomicReturns ==
    /\ Returned /\ call.name = "BodyNonAtomic"
    /\ phase' = "bodied"
    /\ LET named(r) == UNION {{<<t, i>> : i \in {j \in DOMAIN recipients[t] : recipients[t][j] = r}} :
                                t \in started}
       IN  status' = IF ~call.failed THEN status
                     ELSE [r \in Rcpts |-> status[r] + Cardinality(named(r))]
    /\ Return
    /\ UNCHANGED <<setup, rcptCalls, accepted, runnerVars, modVars, rcptVars, bodied, ended, metaQuarantine>>

------------------------------------------------------------------------------
(* Commit and Abort *)

(* The first delivery whose Commit fails ends the loop. *)
Commit ==
    /\ phase = "bodied" /\ phase' = "over"
    /\ Close
    /\ \E done \in SUBSET started : \E failing \in SUBSET (started \ done) :
        /\ IF done = started THEN failing = {} ELSE Cardinality(failing) = 1
        /\ ended' = [t \in Targets |-> IF t \in done THEN "committed"
                                       ELSE IF t \in failing THEN "commitFailed" ELSE ended[t]]
    /\ UNCHANGED <<setup, call, todo, rcptCalls, accepted, rcptVars, bodied, status, metaQuarantine>>

Abort ==
    /\ phase \in {"rcpts", "bodyFailed"} /\ call = Idle /\ phase' = "over"
    /\ Close
    /\ ended' = [t \in Targets |-> IF t \in started THEN "aborted" ELSE ended[t]]
    /\ UNCHANGED <<setup, call, todo, rcptCalls, accepted, rcptVars, bodied, status, metaQuarantine>>

Next ==
    \/ Start \/ SourceFound \/ SourceRejected \/ StartReturns
    \/ CheckInitFails \/ CheckReplayRejects \/ CheckPasses \/ CheckRejects
    \/ ModOpens \/ ModOpenFails \/ ModSenderFails \/ ModRewrites \/ ModRewriteFails
    \/ (\E r \in Rcpts : AddRcpt(r)) \/ Route \/ RouteRejected \/ Fan \/ Give \/ GiveFails \/ AddRcptReturns
    \/ Body \/ ApplyResults \/ ApplyRejects \/ TargetBody \/ TargetBodyFails
    \/ TargetFailsForAll \/ TargetReports \/ BodyReturns \/ BodyNonAtomicReturns
    \/ Commit \/ Abort

Spec == Init /\ [][Next]_vars

------------------------------------------------------------------------------
(* Properties *)

(* What the state object that is kept for a check was shown. *)
SeenBy(c) == IF states[c] = 0 THEN {} ELSE seen[<<c, states[c]>>]

(* Nothing reaches a target unchecked: every check of the pipeline and of   *)
(* the source was shown the client's address, and every check of the block  *)
(* the routed one, whatever calls failed before and which state objects     *)
(* were dropped by them.                                                    *)
CheckedBeforeTarget ==
    \A g \in given :
        /\ \A c \in Elems(setup.global) \cup Elems(setup.source) : g.rcpt \in SeenBy(c)
        /\ \A c \in Elems(setup.block[BlockOf[g.addr]]) : g.addr \in SeenBy(c)

(* A check that joins late catches up: a state object that is kept was      *)
(* shown all recipients checked before it was made (check_runner.go:102).   *)
ReplayComplete ==
    \A c \in Checks : states[c] # 0 => before[<<c, states[c]>>] \subseteq seen[<<c, states[c]>>]

(* However the body is handed over, the verdict is copied to the message.   *)
VerdictKept == bodied # {} /\ quarantine => metaQuarantine

(* Atomic delivery: a target's delivery is committed only if all targets    *)
(* accepted the body, and no delivery of an aborted message is committed.   *)
CommitNeedsAllBodies ==
    /\ ~setup.partial => \A t \in started : ended[t] \in {"committed", "commitFailed"} => bodied = started
    /\ \A t, u \in started : ended[t] = "aborted" => ended[u] = "aborted"

(* Each state object is closed at most once, and exactly once when the      *)
(* message is over.                                                         *)
ClosedOnce ==
    \A o \in Objects :
        closes[o] <= (IF o[2] <= made[o[1]] THEN 1 ELSE 0)
        /\ (phase = "over" /\ o[2] <= made[o[1]] => closes[o] = 1)

(* Once the message is over every modifier state was closed, errors or not. *)
ModifiersClosed == phase = "over" => \A s \in Scopes : modOpens[s] <= modCloses[s]

(* A recipient that a check rejected is not given to a target. *)
RejectedStaysOut ==
    \A g \in given :
        /\ \A c \in Elems(setup.global) \cup Elems(setup.source) : <<c, g.rcpt>> \notin rejected
        /\ \A c \in Elems(setup.block[BlockOf[g.addr]]) : <<c, g.addr>> \notin rejected

(* BodyNonAtomic sets at most one status for an address. *)
OneStatusPerRcpt == \A r \in Rcpts : status[r] <= 1
==============================================================================
