------------------------------- MODULE Checks --------------------------------
(***************************************************************************)
(* The checks of internal/check at work on one message: the early DNSBL    *)
(* lookups of the connection, then the stages of msgpipeline's check       *)
(* runner (connection, sender, recipients, body), in each of which every   *)
(* check runs in a goroutine of its own, and DMARC on what they found.     *)
(* SPF is evaluated in the background from the connection stage on and     *)
(* leaves its verdict to DMARC when the sender's domain has a policy; the  *)
(* DMARC record is looked up in the background too.  What a check makes of *)
(* an answer is in CheckRules.  MsgPipeline has the state objects, blocks  *)
(* and targets around this.                                                *)
(***************************************************************************)
EXTENDS CheckRules

CONSTANTS
    Scenarios,  \* configurations with a message: see scenario
    DnsAnswers, \* answers at _dmarc.<domain>
    SigSets,    \* sets of DKIM signatures
    Draws,      \* values of rand.Int31n(100)
    MaxRcpts    \* bound on RCPT commands

(* The verifier looks at _dmarc of a domain and of its organisation, and    *)
(* dmarc.Parse knows three policies.                                        *)
Policies == {"none", "quarantine", "reject"}
ASSUME AnswersAssumption ==
    /\ \A s \in Scenarios : s.from \in {"org", "sub"}
    /\ \A a \in DnsAnswers :
          \/ a.is \in {"temp", "fail", "malformed", "notfound", "junk"}
          \/ a.is = "record" /\ a.policy \in Policies /\ a.sub \in Policies \cup {""}

VARIABLES
    scenario,   \* checks, dmarc, early (check_early), spfEarly (enforce_early), checkHeader, runOn (of the
                \* command); conn, ip, ehlo, tls, user, mailFrom, mailDomain, from, extracted, hdr of the message
    stage,      \* "early", "conn", "sender", "envelope" (waiting for the client), "rcpt", "body",
                \* "apply", "end"
    running,    \* checks whose function of this stage has not returned
    found,      \* of this stage: rejectErr and quarantineErr are set
    merged,     \* mergedRes: quarantine, auth
    bl,         \* checkLists: left, listed, score, failed; stored is the result in ModData
    spf,        \* skip, task and channel of the SPF state; deferred: history
    dmarc,      \* task and channel of the verifier
    milterSkip, \* skipChecks
    rcpts,      \* number of RCPT commands
    passed,     \* those that were accepted
    quarantined, outcome,
    said        \* history: verdicts of checks, for the message or for a RCPT

msgVars == <<rcpts, passed, quarantined, outcome>>
checkVars == <<scenario, stage, running, found, merged, bl, spf, dmarc, milterSkip, msgVars, said>>

owned == {"own"}
NotFound == [reject |-> FALSE, quarantine |-> FALSE]
Empty == [err |-> "empty"]   \* the channel of the verifier

Acting(s) ==
    CASE s = "conn" -> {"dnsbl", "spf", "rdns", "tls", "milter", "command"}
      [] s = "sender" -> {"mx", "authorize", "milter", "command"}
      [] s = "rcpt" -> {"milter", "command"}
      [] s = "body" -> {"spf", "dkim", "authorize", "rspamd", "milter", "command"}
      [] OTHER -> {}

(* Checks whose function of the stage may say something. *)
RunsIn(s) == {k \in scenario.checks \cap Acting(s) : k = "command" => scenario.runOn = s}

Early == "dnsbl" \in scenario.checks /\ scenario.conn = "tcp"

ChecksInit ==
    /\ scenario \in Scenarios
    /\ stage = IF Early THEN "early" ELSE "conn"
    /\ running = IF Early THEN {} ELSE RunsIn("conn")
    /\ found = NotFound /\ merged = [quarantine |-> FALSE, auth |-> {}]
    /\ bl = [left |-> IF Early THEN Lists ELSE {}, listed |-> {}, score |-> 0, failed |-> FALSE, stored |-> Pass]
    /\ spf = [skip |-> FALSE, task |-> "none", chan |-> "empty", deferred |-> FALSE, lookup |-> Empty]
    /\ dmarc = [task |-> "none", chan |-> Empty, rnd |-> 0]
    /\ milterSkip = FALSE /\ said = {}
    /\ rcpts = 0 /\ passed = {} /\ quarantined = FALSE /\ outcome = "none"

Enter(s) == stage' = s /\ running' = RunsIn(s) /\ found' = NotFound

------------------------------------------------------------------------------
(* DNSBL.CheckConnection, before the first message *)

(* Mutant: the scores of the lists are read before and written after the lookup. *)
BlAnswerOverwrites(l) ==
    /\ stage = "early" /\ l \in bl.left
    /\ \E a, e \in BlAnswers :
        LET r == CheckList(l, scenario.ip, scenario.ehlo, a, e)
        IN  bl' = [bl EXCEPT !.left = @ \ {l}, !.failed = @ \/ r = "error",
                             !.listed = IF r = "listed" THEN @ \cup {l} ELSE @,
                             !.score = IF r = "listed" THEN l.score ELSE @]
    /\ UNCHANGED <<scenario, stage, running, found, merged, spf, dmarc, milterSkip, msgVars, said>>

(* A goroutine of checkLists. *)
BlAnswer(l) ==
    /\ stage = "early" /\ l \in bl.left
    /\ \E a, e \in BlAnswers :
        LET r == CheckList(l, scenario.ip, scenario.ehlo, a, e)
        IN  bl' = [bl EXCEPT !.left = @ \ {l}, !.failed = @ \/ r = "error",
                             !.listed = IF r = "listed" THEN @ \cup {l} ELSE @,
                             !.score = IF r = "listed" THEN @ + l.score ELSE @]
    /\ UNCHANGED <<scenario, stage, running, found, merged, spf, dmarc, milterSkip, msgVars, said>>

(* The connection is refused, or the result is kept for its messages. *)
BlDone ==
    /\ stage = "early" /\ bl.left = {}
    /\ LET res == ListsVerdict(bl.failed, bl.score)
       IN  IF res.reject /\ scenario.early
           THEN /\ stage' = "end" /\ outcome' = "refused"
                /\ UNCHANGED <<running, found, bl>>
           ELSE Enter("conn") /\ bl' = [bl EXCEPT !.stored = res] /\ UNCHANGED outcome
    /\ UNCHANGED <<scenario, merged, spf, dmarc, milterSkip, rcpts, passed, quarantined, said>>

------------------------------------------------------------------------------
(* runAndMergeResults: a check returns res *)

Scope == IF stage = "rcpt" THEN rcpts ELSE 0

(* Mutant: the last rejection decides, and a check that passes clears it. *)
FinishOverwrites(k, res) ==
    /\ running' = running \ {k}
    /\ merged' = [merged EXCEPT !.auth = @ \cup res.auth]
    /\ found' = [reject |-> ~res.quarantine /\ res.reject, quarantine |-> found.quarantine \/ res.quarantine]
    /\ said' = said \cup {[of |-> Scope, at |-> stage, by |-> k, reject |-> res.reject, quarantine |-> res.quarantine]}

(* A quarantine verdict hides a rejection in the same result. *)
Finish(k, res) ==
    /\ running' = running \ {k}
    /\ merged' = [merged EXCEPT !.auth = @ \cup res.auth]
    /\ found' = [reject |-> found.reject \/ (~res.quarantine /\ res.reject), quarantine |-> found.quarantine \/ res.quarantine]
    /\ said' = said \cup {[of |-> Scope, at |-> stage, by |-> k, reject |-> res.reject, quarantine |-> res.quarantine]}

Others == <<scenario, stage, bl, dmarc, msgVars>>

(* Checks without state between the stages. *)
SimpleResults(k) ==
    CASE k = "dnsbl" -> {IF scenario.conn = "local" THEN Pass ELSE bl.stored}
      [] k = "rdns" -> {RdnsResult(scenario.conn, a) : a \in {"disabled", "match", "other", "none", "error"}}
      [] k = "tls" -> {TlsResult(scenario.conn, scenario.tls)}
      [] k = "mx" -> {MxResult(scenario.mailDomain, a) : a \in {"mx", "none", "null", "error", "malformed"}}
      [] k = "command" -> {CommandResult(x) : x \in {"0", "1", "2", "other", "failed"}}
      [] k = "rspamd" -> {RspamdResult(x) : x \in {"no action", "add header", "rewrite subject", "reject", "status", "io"}}
      [] k = "dkim" -> {DkimResult(s) : s \in SigSets} \cup {Rejection}
      [] OTHER -> {}

Simple(k) ==
    /\ k \in running
    /\ \E res \in SimpleResults(k) : Finish(k, res)
    /\ UNCHANGED <<Others, spf, milterSkip>>

(* authorize_sender: MAIL FROM, then the header unless check_header is off; *)
(* not for local messages.                                                  *)
Authorize ==
    /\ "authorize" \in running
    /\ \E a, b \in {"ok", "error"} :
        Finish("authorize",
            IF scenario.conn = "local" \/ (stage = "body" /\ ~scenario.checkHeader) THEN Pass
            ELSE IF stage = "sender" THEN AuthzSender(scenario.user, owned, scenario.mailFrom, a)
            ELSE AuthorizeHeader(scenario.user, owned, scenario.hdr, a, b))
    /\ UNCHANGED <<Others, spf, milterSkip>>

(* The modifications that come with the end of the body. *)
MilterModifies(act) == stage = "body" /\ act # "io"

(* The milter's session: an accept or a tolerated I/O error ends it. *)
Milter ==
    /\ "milter" \in running
    /\ IF milterSkip THEN Finish("milter", Pass) /\ UNCHANGED milterSkip
       ELSE \E act \in {"accept", "continue", "replycode", "discard", "reject", "unknown", "io"}, q \in BOOLEAN :
              /\ q => MilterModifies(act)
              /\ scenario.conn = "local" => stage # "sender"
              /\ Finish("milter", MilterApply(q, MilterResult(act)))
              /\ milterSkip' = MilterSkips(act)
    /\ UNCHANGED <<Others, spf>>

(* CheckSender takes msgMeta.Conn for granted: for a local message the      *)
(* goroutine panics and the check counts as passed.                         *)
MilterPanics ==
    /\ "milter" \in running /\ stage = "sender" /\ scenario.conn = "local" /\ ~milterSkip
    /\ running' = running \ {"milter"}
    /\ UNCHANGED <<scenario, stage, found, merged, bl, spf, dmarc, milterSkip, msgVars, said>>

------------------------------------------------------------------------------
(* SPF *)

(* CheckConnection. *)
SpfConnection ==
    /\ "spf" \in running /\ stage = "conn"
    /\ \/ /\ scenario.conn # "tcp"
          /\ Finish("spf", Pass) /\ spf' = [spf EXCEPT !.skip = TRUE]
       \/ /\ scenario.conn = "tcp"     \* a malformed MAIL FROM
          /\ Finish("spf", Rejection) /\ spf' = [spf EXCEPT !.skip = TRUE]
       \/ /\ scenario.conn = "tcp" /\ scenario.spfEarly
          /\ \E v \in SpfValues : Finish("spf", SpfResult(v, scenario.mailDomain, "other"))
          /\ UNCHANGED spf
       \/ /\ scenario.conn = "tcp" /\ ~scenario.spfEarly
          /\ Finish("spf", Pass) /\ spf' = [spf EXCEPT !.task = "running"]
    /\ UNCHANGED <<Others, milterSkip>>

SpfTask ==
    /\ spf.task = "running"
    /\ \E v \in SpfValues : spf' = [spf EXCEPT !.task = "ended", !.chan = v]
    /\ UNCHANGED <<scenario, stage, running, found, merged, bl, dmarc, milterSkip, msgVars, said>>

(* Mutant: the channel is not closed. *)
SpfPanicsSilently ==
    /\ spf.task = "running"
    /\ spf' = [spf EXCEPT !.task = "ended"]
    /\ UNCHANGED <<scenario, stage, running, found, merged, bl, dmarc, milterSkip, msgVars, said>>

(* The library panics: the channel is closed. *)
SpfPanics ==
    /\ spf.task = "running"
    /\ spf' = [spf EXCEPT !.task = "ended", !.chan = "closed"]
    /\ UNCHANGED <<scenario, stage, running, found, merged, bl, dmarc, milterSkip, msgVars, said>>

(* CheckBody: the verdict of SPF, without its action when a lookup of its   *)
(* own finds that the domain has a DMARC policy.                            *)
SpfBody ==
    /\ "spf" \in running /\ stage = "body"
    /\ IF scenario.spfEarly \/ spf.skip THEN Finish("spf", Pass) /\ UNCHANGED spf
       ELSE /\ spf.chan # "empty"
            /\ IF spf.chan = "closed" THEN Finish("spf", Rejection) /\ UNCHANGED spf
               ELSE \E ans \in [{"org", "sub"} -> DnsAnswers] :
                    LET data == FetchRecord(scenario.from, ans)
                        rely == RelyOnDMARC(scenario.from, scenario.extracted, data)
                        res == SpfResult(spf.chan, scenario.mailDomain, "other")
                    IN  /\ Finish("spf", IF rely THEN [res EXCEPT !.quarantine = FALSE, !.reject = FALSE] ELSE res)
                        /\ spf' = [spf EXCEPT !.deferred = rely /\ (res.quarantine \/ res.reject),
                                              !.lookup = IF rely THEN data ELSE Empty]
    /\ UNCHANGED <<Others, milterSkip>>

------------------------------------------------------------------------------
(* The stages *)

(* The goroutines of the stage are done. *)
StageDone ==
    /\ stage \in {"conn", "sender", "body"} /\ running = {}
    /\ IF found.reject
       THEN /\ stage' = "end" /\ outcome' = "rejected"
            /\ UNCHANGED <<running, found, merged>>
       ELSE /\ merged' = [merged EXCEPT !.quarantine = @ \/ found.quarantine]
            /\ CASE stage = "conn" -> Enter("sender")
                 [] stage = "sender" -> Enter("envelope")
                 [] OTHER -> Enter("apply")
            /\ UNCHANGED outcome
    /\ UNCHANGED <<scenario, bl, spf, dmarc, milterSkip, rcpts, passed, quarantined, said>>

Rcpt ==
    /\ stage = "envelope" /\ rcpts < MaxRcpts
    /\ rcpts' = rcpts + 1
    /\ Enter("rcpt")
    /\ UNCHANGED <<scenario, merged, bl, spf, dmarc, milterSkip, passed, quarantined, outcome, said>>

RcptDone ==
    /\ stage = "rcpt" /\ running = {}
    /\ passed' = IF found.reject THEN passed ELSE passed \cup {rcpts}
    /\ merged' = [merged EXCEPT !.quarantine = @ \/ (~found.reject /\ found.quarantine)]
    /\ Enter("envelope")
    /\ UNCHANGED <<scenario, bl, spf, dmarc, milterSkip, rcpts, quarantined, outcome, said>>

(* checkBody: the DMARC lookup starts, unless there is no From domain. *)
Data ==
    /\ stage = "envelope" /\ passed # {}
    /\ Enter("body")
    /\ dmarc' = IF ~scenario.dmarc THEN dmarc
                ELSE IF scenario.extracted THEN [dmarc EXCEPT !.task = "running"]
                ELSE [dmarc EXCEPT !.chan = [err |-> "perm"]]
    /\ UNCHANGED <<scenario, merged, bl, spf, milterSkip, msgVars, said>>

(* The client leaves; the tasks go on, the verifier's with a cancelled context. *)
ClientLeaves ==
    /\ stage = "envelope"
    /\ stage' = "end" /\ outcome' = "aborted"
    /\ UNCHANGED <<scenario, running, found, merged, bl, spf, dmarc, milterSkip, rcpts, passed, quarantined, said>>

------------------------------------------------------------------------------
(* DMARC *)

DmarcTask ==
    /\ dmarc.task = "running"
    /\ \E ans \in [{"org", "sub"} -> DnsAnswers] :
        dmarc' = [dmarc EXCEPT !.task = "ended", !.chan = FetchRecord(scenario.from, ans)]
    /\ UNCHANGED <<scenario, stage, running, found, merged, bl, spf, milterSkip, msgVars, said>>

(* A panic in the task is an error of the lookup. *)
DmarcPanics ==
    /\ dmarc.task = "running"
    /\ dmarc' = [dmarc EXCEPT !.task = "ended", !.chan = [err |-> "perm"]]
    /\ UNCHANGED <<scenario, stage, running, found, merged, bl, spf, milterSkip, msgVars, said>>

(* Mutant: the policy is not applied when DKIM passed for any domain. *)
ApplyResultsAnyDkim ==
    /\ stage = "apply"
    /\ scenario.dmarc => dmarc.chan # Empty
    /\ \E rnd \in Draws :
        LET any == \E r \in merged.auth : r.kind = "dkim" /\ r.value = "pass"
            res == IF scenario.dmarc /\ ~any THEN VerifierApply(scenario.from, dmarc.chan, merged.auth, rnd)
                   ELSE [value |-> "none", policy |-> "none"]
        IN  /\ quarantined' = (merged.quarantine \/ res.policy = "quarantine")
            /\ outcome' = IF res.policy = "reject" THEN "rejected" ELSE "accepted"
            /\ dmarc' = [dmarc EXCEPT !.rnd = rnd]
    /\ stage' = "end"
    /\ UNCHANGED <<scenario, running, found, merged, bl, spf, milterSkip, rcpts, passed, said>>

(* applyResults *)
ApplyDmarc ==
    /\ stage = "apply"
    /\ scenario.dmarc => dmarc.chan # Empty
    /\ \E rnd \in Draws :
        LET res == IF scenario.dmarc THEN VerifierApply(scenario.from, dmarc.chan, merged.auth, rnd)
                   ELSE [value |-> "none", policy |-> "none"]
        IN  /\ quarantined' = (merged.quarantine \/ res.policy = "quarantine")
            /\ outcome' = IF res.policy = "reject" THEN "rejected" ELSE "accepted"
            /\ dmarc' = [dmarc EXCEPT !.rnd = rnd]
    /\ stage' = "end"
    /\ UNCHANGED <<scenario, running, found, merged, bl, spf, milterSkip, rcpts, passed, said>>

(* A helper process and the request to rspamd have no time-out. *)
Patient == {"command", "rspamd"}

CheckStep ==
    \/ (\E l \in Lists : BlAnswer(l)) \/ BlDone
    \/ (\E k \in {"dnsbl", "rdns", "tls", "mx", "dkim"} : Simple(k))
    \/ Authorize \/ Milter \/ MilterPanics \/ SpfConnection \/ SpfBody \/ StageDone \/ RcptDone \/ ApplyDmarc

Task == SpfTask \/ SpfPanics \/ DmarcTask \/ DmarcPanics

ChecksNext == CheckStep \/ (\E k \in Patient : Simple(k)) \/ Task \/ Rcpt \/ Data \/ ClientLeaves

ChecksSpec == ChecksInit /\ [][ChecksNext]_checkVars

(* Lookups and the milter's session have time-outs, so a check or a lookup  *)
(* that is under way goes on; the client and the Patient checks need not.   *)
FairSpec == ChecksSpec /\ WF_checkVars(CheckStep) /\ WF_checkVars(SpfTask \/ SpfPanics) /\ WF_checkVars(DmarcTask \/ DmarcPanics)

------------------------------------------------------------------------------
(* Properties *)

Plain(v) == ~(v.reject /\ v.quarantine)

(* Where sender authorisation rejects, a message that did not come from the *)
(* server itself is accepted only from an authenticated user who owns the   *)
(* MAIL FROM and, unless check_header is off, the From or the Sender        *)
(* address.                                                                 *)
SenderOwned ==
    /\ outcome = "accepted" /\ "authorize" \in scenario.checks /\ scenario.conn # "local"
    /\ Actions["unauth"] = "reject" /\ Actions["no_match"] = "reject" /\ Actions["err"] = "reject"
    => /\ scenario.user # "" /\ scenario.mailFrom \in owned
       /\ scenario.checkHeader => scenario.hdr.from \in owned \/ scenario.hdr.sender \in owned

(* Whatever the order in which the goroutines of a stage finish, no verdict *)
(* is lost: an accepted message was rejected by no check, an accepted       *)
(* recipient by none of its checks, a quarantine of the message stands, and *)
(* the sender is the user's own where that is asked for (check_runner.go    *)
(* runAndMergeResults, authorize_sender.go).  Results that are both are     *)
(* left to RejectWins.                                                      *)
VerdictsEnforced ==
    /\ outcome = "accepted" => \A v \in said : Plain(v) /\ (v.of = 0 \/ v.of \in passed) =>
          ~v.reject /\ (v.quarantine => quarantined)
    /\ SenderOwned

(* The lookups of SPF and of the verifier came to the same record, and both *)
(* authentication checks are configured.                                    *)
DmarcInForce == scenario.dmarc /\ {"spf", "dkim"} \subseteq scenario.checks /\ spf.lookup = dmarc.chan

Authenticated ==
    \E r \in merged.auth : r.value = "pass" /\ IsAligned(scenario.from, r.domain,
        IF r.kind = "spf" THEN dmarc.chan.rec.aspf ELSE dmarc.chan.rec.adkim)

(* The action SPF leaves to DMARC is taken there: a message whose SPF       *)
(* failure was deferred is accepted only if an aligned identifier passed,   *)
(* its owner's policy quarantines it, or the owner's pct leaves it out.     *)
DeferredDecided ==
    outcome = "accepted" /\ spf.deferred /\ DmarcInForce =>
        \/ Authenticated
        \/ quarantined /\ PolicyFor(scenario.from, dmarc.chan) = "quarantine"
        \/ dmarc.rnd > dmarc.chan.rec.pct

(* A message passes the DNSBL check only if no lookup failed, and by the    *)
(* sum of the scores of all lists its client is on.                         *)
ListingsCounted ==
    outcome = "accepted" /\ Early =>
        LET total == MapThenSumSet(LAMBDA l : l.score, bl.listed)
        IN  ~bl.failed /\ total < RejectThreshold /\ (total >= QuarantineThreshold => quarantined)

(* Every stage that started ends, unless it has to wait for a helper, and   *)
(* every background lookup comes back, also when the client is gone or the  *)
(* SPF library panics.                                                      *)
StagesEnd ==
    /\ running # {} ~> running \subseteq Patient
    /\ spf.task = "running" ~> spf.task = "ended"
    /\ dmarc.task = "running" ~> dmarc.task = "ended"
    /\ stage = "apply" ~> stage = "end"

(* A message that a check rejects is not accepted. *)
RejectWins == outcome = "accepted" => \A v \in said : v.of \in passed \cup {0} => ~v.reject

(* A deferred SPF failure is decided by DMARC in every configuration and    *)
(* whatever the two lookups find.                                           *)
DeferralSafe ==
    outcome = "accepted" /\ spf.deferred =>
        scenario.dmarc /\ dmarc.chan.err = "no" /\ dmarc.chan.found /\
            (Authenticated \/ quarantined \/ dmarc.rnd > dmarc.chan.rec.pct)

(* pct=0 leaves every message out. *)
PctRespected ==
    outcome \in {"accepted", "rejected"} /\ stage = "end" /\ dmarc.chan # Empty =>
        (dmarc.chan.err = "no" /\ dmarc.chan.found /\ dmarc.chan.rec.pct = 0 => outcome # "rejected" \/ found.reject)

(* A message is shown to the milter at every stage until it has decided. *)
LocalChecked ==
    outcome = "accepted" /\ "milter" \in scenario.checks /\ ~milterSkip =>
        \E v \in said : v.by = "milter" /\ v.at = "sender"
==============================================================================
