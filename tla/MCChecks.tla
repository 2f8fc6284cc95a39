------------------------------ MODULE MCChecks -------------------------------
EXTENDS Checks, TLC

(* The defaults, with two actions an administrator would choose. *)
SomeActions ==
    ("spf_fail" :> "reject" @@ "broken_sig" :> "quarantine")
    @@ SpfActions @@ DkimActions @@ RspamdActions @@ AuthorizeActions @@ CommandActions @@ StatelessActions

List(z, ip6, ehlo, score) == [zone |-> z, ip4 |-> TRUE, ip6 |-> ip6, ehlo |-> ehlo, mailfrom |-> FALSE, score |-> score]
(* Two block lists and a list of good senders. *)
ThreeLists == {List("a", TRUE, FALSE, 1), List("b", FALSE, TRUE, 2), List("good", FALSE, FALSE, -1)}

Answer(x) == [is |-> x]
Policy(p, sub, pct, adkim) == [is |-> "record", policy |-> p, sub |-> sub, pct |-> pct, adkim |-> adkim, aspf |-> "relaxed"]
SomeAnswers == {Answer("temp"), Answer("fail"), Answer("notfound"), Answer("junk"), Policy("reject", "", 100, "relaxed"),
                Policy("quarantine", "none", 100, "strict"), Policy("none", "reject", 50, "relaxed")}
ZeroPct == {Answer("notfound"), Policy("reject", "", 0, "relaxed")}

Sig(v, d) == [verdict |-> v, domain |-> d]
SomeSigs == {{}, {Sig("ok", "org")}, {Sig("ok", "sub")}, {Sig("ok", "other"), Sig("bad", "org")},
             {Sig("temp", "org"), Sig("ok", "other")}, {Sig("unsigned", "org")}}

Base == [checks |-> {}, dmarc |-> FALSE, early |-> FALSE, spfEarly |-> FALSE, runOn |-> "body", conn |-> "tcp",
         ip |-> 4, ehlo |-> "name", tls |-> FALSE, user |-> "", mailFrom |-> "own", mailDomain |-> "org",
         from |-> "org", extracted |-> TRUE, checkHeader |-> TRUE, hdr |-> [ok |-> TRUE, from |-> "own", sender |-> ""]]

AuthScenarios ==
    {[Base EXCEPT !.checks = {"spf", "dkim"}, !.dmarc = TRUE, !.from = f, !.mailDomain = m, !.extracted = x] :
        f \in {"org", "sub"}, m \in {"org", "other", ""}, x \in BOOLEAN}
    \cup {[Base EXCEPT !.checks = {"spf", "dkim"}, !.dmarc = TRUE, !.spfEarly = TRUE],
          [Base EXCEPT !.checks = {"spf", "dkim"}, !.dmarc = TRUE, !.conn = "unix"]}
BlScenarios ==
    {[Base EXCEPT !.checks = {"dnsbl", "rdns", "command"}, !.runOn = "conn", !.early = e, !.ip = i, !.ehlo = h] :
        e \in BOOLEAN, i \in {4, 6}, h \in {"name", "literal"}}
HelperScenarios ==
    {[Base EXCEPT !.checks = {"milter", "command", "rspamd"}, !.runOn = r] : r \in {"sender", "rcpt", "body"}}
    \cup {[Base EXCEPT !.checks = {"milter", "spf"}, !.conn = "local"]}
OwnerScenarios ==
    {[Base EXCEPT !.checks = {"authorize", "mx", "tls"}, !.tls = t, !.user = u, !.mailFrom = m, !.hdr = h] :
        t \in BOOLEAN, u \in {"", "user"}, m \in {"own", "foreign"},
        h \in [ok : BOOLEAN, from : {"own", "foreign"}, sender : {"", "own", "foreign"}]}
    \cup {[Base EXCEPT !.checks = {"authorize", "mx"}, !.user = "user", !.checkHeader = FALSE, !.hdr.from = f] :
            f \in {"own", "foreign"}}
AllScenarios == AuthScenarios \cup BlScenarios \cup HelperScenarios \cup OwnerScenarios
NoDmarc == {[s EXCEPT !.dmarc = FALSE] : s \in AuthScenarios}
==============================================================================
