----------------------------- MODULE CheckRules ------------------------------
(***************************************************************************)
(* What the checks of internal/check and the DMARC verifier make of the    *)
(* answers they get from DNS, from a helper or from a table: functions     *)
(* from an answer to a verdict, without state.  Checks.tla runs them.      *)
(***************************************************************************)
EXTENDS Naturals, Integers, FiniteSets, FiniteSetsExt

CONSTANTS
    Actions,        \* FailAction of every ..._action directive
    Lists,          \* DNSBLs: [zone, ip4, ip6, ehlo, mailfrom, score]
    QuarantineThreshold, RejectThreshold,
    DkimFailOpen, MilterFailOpen

ASSUME ListsAssumption ==
    /\ IsFiniteSet(Lists) /\ \A l \in Lists : l.score \in Int
    /\ QuarantineThreshold \in Int /\ RejectThreshold \in Int

------------------------------------------------------------------------------
(* CheckResult and FailAction *)

Pass == [reason |-> FALSE, quarantine |-> FALSE, reject |-> FALSE, auth |-> {}]
Complaint == [Pass EXCEPT !.reason = TRUE]
Rejection == [Complaint EXCEPT !.reject = TRUE]
With(res, auth) == [res EXCEPT !.auth = auth]

Apply(action, res) ==
    [res EXCEPT !.quarantine = @ \/ (res.reason /\ action = "quarantine"),
                !.reject = @ \/ (res.reason /\ action = "reject")]

(* The actions Init falls back to. *)
SpfActions == [spf_none |-> "ignore", spf_neutral |-> "ignore", spf_fail |-> "quarantine", spf_softfail |-> "ignore",
               spf_permerror |-> "ignore", spf_temperror |-> "ignore"]
DkimActions == [broken_sig |-> "ignore", no_sig |-> "ignore"]
RspamdActions == [io_error |-> "ignore", error_resp |-> "ignore", add_header |-> "quarantine", rewrite_subj |-> "quarantine"]
AuthorizeActions == [unauth |-> "reject", no_match |-> "reject", err |-> "reject"]
CommandActions == [exit1 |-> "reject", exit2 |-> "quarantine"]
StatelessActions == [rdns |-> "quarantine", mx |-> "quarantine", tls |-> "reject"]

------------------------------------------------------------------------------
(* Domains: "sub" is below "org", "tld" is a public suffix. *)

Domains == {"org", "sub", "other", "tld", ""}
OrgOf == [d \in Domains |-> IF d = "sub" THEN "org" ELSE d]
HasOrg(d) == d \notin {"tld", ""}

IsAligned(from, auth, mode) ==
    IF mode = "strict" \/ from = "tld" THEN from = auth
    ELSE HasOrg(from) /\ HasOrg(auth) /\ OrgOf[from] = OrgOf[auth]

------------------------------------------------------------------------------
(* dmarc.FetchRecord.  An answer at _dmarc.<domain> is a "temp" or another  *)
(* "fail"ure, "notfound", "junk" (no or several policies), "malformed" or a *)
(* "record".                                                                *)

Fetched(domain, a) ==
    CASE a.is = "temp" -> [err |-> "temp"]
      [] a.is \in {"fail", "malformed"} -> [err |-> "perm"]
      [] a.is \in {"notfound", "junk"} -> [err |-> "no", found |-> FALSE]
      [] OTHER -> [err |-> "no", found |-> TRUE, domain |-> domain, rec |-> a]

FetchRecord(from, ans) ==
    IF ans[from].is # "notfound" THEN Fetched(from, ans[from])
    ELSE IF ~HasOrg(from) THEN [err |-> "perm"]
    ELSE Fetched(OrgOf[from], ans[OrgOf[from]])

PolicyFor(from, data) ==
    IF data.domain # from /\ data.rec.sub # "" THEN data.rec.sub ELSE data.rec.policy

(* EvaluateAlignment: the value of the DMARC result. *)
EvaluateAlignment(from, rec, auth) ==
    LET dkim == {r \in auth : r.kind = "dkim"}
        spf == {r \in auth : r.kind = "spf"}
        inLine == {r \in dkim : IsAligned(from, r.domain, rec.adkim)}
        dkimAligned == \E r \in inLine : r.value = "pass"
        spfAligned == \E r \in spf : r.value = "pass" /\ IsAligned(from, r.domain, rec.aspf)
    IN  CASE dkim = {} \/ spf = {} -> "none"
          [] ~dkimAligned /\ ~spfAligned /\ \E r \in inLine : r.value = "temperror" -> "temperror"
          [] ~dkimAligned /\ \E r \in spf : r.value = "temperror" -> "temperror"
          [] dkimAligned \/ spfAligned -> "pass"
          [] OTHER -> "fail"

(* Verifier.Apply: value and policy.  rnd is rand.Int31n(100). *)
VerifierApply(from, data, auth, rnd) ==
    IF data.err = "temp" THEN [value |-> "temperror", policy |-> "reject"]
    ELSE IF data.err = "perm" THEN [value |-> "permerror", policy |-> "none"]
    ELSE IF ~data.found THEN [value |-> "none", policy |-> "none"]
    ELSE LET value == EvaluateAlignment(from, data.rec, auth)
         IN  [value |-> value,
              policy |-> IF value \in {"pass", "none"} \/ rnd > data.rec.pct THEN "none" ELSE PolicyFor(from, data)]

------------------------------------------------------------------------------
(* SPF and DKIM *)

SpfValues == {"none", "neutral", "pass", "fail", "softfail", "temperror", "permerror", "unknown"}

SpfAction(value) ==
    CASE value = "none" -> Actions["spf_none"] [] value = "neutral" -> Actions["spf_neutral"]
      [] value = "fail" -> Actions["spf_fail"] [] value = "softfail" -> Actions["spf_softfail"]
      [] value = "temperror" -> Actions["spf_temperror"] [] value = "permerror" -> Actions["spf_permerror"]
      [] OTHER -> "ignore"   \* an unknown status has a reason and no action

(* spfResult; the identity is that of MAIL FROM, or of EHLO for a null path. *)
SpfResult(value, mailDomain, helo) ==
    LET told == IF value = "unknown" THEN "none" ELSE value
        auth == {[kind |-> "spf", value |-> told, domain |-> IF mailDomain = "" THEN helo ELSE mailDomain]}
    IN  IF value = "pass" THEN With(Pass, auth) ELSE Apply(SpfAction(value), With(Complaint, auth))

(* relyOnDMARC, on what SPF's own lookup of the DMARC record came to. *)
RelyOnDMARC(from, extracted, data) ==
    extracted /\ data.err = "no" /\ data.found /\ PolicyFor(from, data) # "none"

(* A signature is [verdict, domain]; "unsigned" verifies and leaves a       *)
(* required header field out.                                               *)
SigValue(s) ==
    CASE s.verdict = "ok" -> "pass" [] s.verdict \in {"unsigned", "perm"} -> "permerror"
      [] s.verdict = "temp" -> "temperror" [] OTHER -> "fail"

DkimResult(sigs) ==
    LET auth == {[kind |-> "dkim", value |-> SigValue(s), domain |-> s.domain] : s \in sigs}
    IN  IF sigs = {}
        THEN Apply(Actions["no_sig"], With(Complaint, {[kind |-> "dkim", value |-> "none", domain |-> ""]}))
        ELSE IF ~DkimFailOpen /\ \E s \in sigs : s.verdict = "temp" THEN Rejection
        ELSE IF \E s \in sigs : s.verdict = "ok" THEN With(Pass, auth)
        ELSE Apply(Actions["broken_sig"], With(Complaint, auth))

------------------------------------------------------------------------------
(* DNSBL *)

(* The answer to one query: not found, listed, not in "responses", error.   *)
BlAnswers == {"notfound", "listed", "filtered", "error"}

CheckIP(list, ip, a) ==
    IF ~(IF ip = 4 THEN list.ip4 ELSE list.ip6) \/ a \in {"notfound", "filtered"} THEN "clean" ELSE a
CheckDomain(a) == IF a = "notfound" THEN "clean" ELSE IF a = "filtered" THEN "listed" ELSE a

(* checkList as the early check calls it, without a sender: the IP, then    *)
(* the EHLO name unless it is an address literal.                           *)
CheckList(list, ip, ehlo, ipAnswer, ehloAnswer) ==
    LET byIP == IF list.ip4 \/ list.ip6 THEN CheckIP(list, ip, ipAnswer) ELSE "clean"
    IN  IF byIP # "clean" THEN byIP
        ELSE IF list.ehlo /\ ehlo = "name" THEN CheckDomain(ehloAnswer) ELSE "clean"

ListsVerdict(failed, score) ==
    IF failed \/ score >= RejectThreshold THEN Rejection
    ELSE IF score >= QuarantineThreshold THEN [Complaint EXCEPT !.quarantine = TRUE]
    ELSE Pass

------------------------------------------------------------------------------
(* The other checks *)

(* requireMatchingRDNS, requireMXRecord, requireTLS *)
RdnsResult(conn, a) == IF conn = "local" \/ a \in {"disabled", "match"} THEN Pass ELSE Apply(Actions["rdns"], Complaint)
MxResult(mailDomain, a) == IF mailDomain = "" \/ a = "mx" THEN Pass ELSE Apply(Actions["mx"], Complaint)
TlsResult(conn, tls) == IF conn # "local" /\ tls THEN Pass ELSE Apply(Actions["tls"], Complaint)

CommandResult(exit) ==
    CASE exit = "0" -> Pass
      [] exit = "1" -> Apply(Actions["exit1"], Complaint)
      [] exit = "2" -> Apply(Actions["exit2"], Complaint)
      [] OTHER -> Rejection   \* another code, or it could not be run

RspamdResult(resp) ==
    CASE resp \in {"no action", "greylist", "unknown"} -> Pass
      [] resp = "add header" -> Apply(Actions["add_header"], Complaint)
      [] resp = "rewrite subject" -> Apply(Actions["rewrite_subj"], Complaint)
      [] resp \in {"soft reject", "reject", "unopened"} -> Rejection
      [] resp = "status" -> Apply(Actions["error_resp"], Complaint)
      [] OTHER -> Apply(Actions["io_error"], Complaint)

(* AuthorizeEmailUse and authzSender: user "" is not authenticated, a is    *)
(* the answer of the normalisation and of the tables.                       *)
AuthzSender(user, owned, addr, a) ==
    IF user = "" THEN Apply(Actions["unauth"], Complaint)
    ELSE IF a = "error" THEN Apply(Actions["err"], Complaint)
    ELSE IF addr \notin owned THEN Apply(Actions["no_match"], Complaint)
    ELSE Pass

(* CheckBody of authorize_sender: the From address, else the Sender.  hdr   *)
(* is [ok, from, sender], sender "" when there is none; a and b are the     *)
(* answers of the two lookups.                                              *)
AuthorizeHeader(user, owned, hdr, a, b) ==
    IF ~hdr.ok THEN Apply(Actions["err"], Complaint)
    ELSE IF \/ ~AuthzSender(user, owned, hdr.from, a).reason
            \/ hdr.sender \notin {"", hdr.from} /\ ~AuthzSender(user, owned, hdr.sender, b).reason
         THEN Pass
    ELSE Apply(Actions["no_match"], Complaint)

(* handleAction and ioError of the milter check. *)
MilterResult(act) ==
    IF act \in {"accept", "continue", "unknown"} \/ (act = "io" /\ MilterFailOpen) THEN Pass ELSE Rejection
MilterSkips(act) == act = "accept" \/ (act = "io" /\ MilterFailOpen)

(* apply: of the modifications only the quarantine is a verdict. *)
MilterApply(quarantine, res) ==
    IF quarantine THEN [res EXCEPT !.quarantine = TRUE, !.reason = TRUE] ELSE res
==============================================================================
