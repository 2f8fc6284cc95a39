------------------------------- MODULE Remote --------------------------------
(***************************************************************************)
(* internal/target/remote with smtpconn.C: messages on their way to the    *)
(* servers of their recipients' domains.  One delivery at a time: Start,   *)
(* AddRcpt, Body, Close, and what it leaves in the connection pool for the *)
(* next one.  AddRcpt looks a connection up (rd.connections, the pool) or  *)
(* makes one: MX lookup, policies on the MX, connection with its TLS       *)
(* fall-back, policies on the connection, MAIL.                            *)
(*                                                                         *)
(* Servers and DNS answer as they like.  The policies' own lookups         *)
(* (MTA-STS per domain, TLSA per MX) run in goroutines that answer into    *)
(* the future the policy object holds when they are done.                  *)
(***************************************************************************)
EXTENDS Naturals, Sequences, FiniteSets

CONSTANTS
    Domains, Rcpts,
    DomainOf,       \* [Rcpts -> Domains]
    NonAscii,       \* recipients whose address is not ASCII
    MaxMX,          \* [Domains -> Nat]: bound on the MX records of a domain
    Configured,     \* blocks of mx_auth
    MinTLS, MinMX,  \* min_tls_level and min_mx_level of local_policy
    Relaxed,        \* relaxed_requiretls
    Flags,          \* kinds of messages: [requireTLS, override : BOOLEAN]
    ReuseLimit,     \* conn_reuse_limit
    Scenarios       \* bounds, see scenario

(* module.TLSLevel and module.MXLevel *)
TLSNone == 0
TLSEncrypted == 1
TLSAuthenticated == 2
MXNone == 0
MX_MTASTS == 1
MX_DNSSEC == 2

PolicyNames == {"mtasts", "sts_preload", "dane", "dnssec", "local_policy"}

ASSUME RemoteAssumption ==
    /\ DomainOf \in [Rcpts -> Domains] /\ NonAscii \subseteq Rcpts
    /\ \A d \in Domains : MaxMX[d] \in Nat \ {0}
    /\ Configured \subseteq PolicyNames
    /\ MinTLS \in TLSNone .. TLSAuthenticated /\ MinMX \in MXNone .. MX_DNSSEC
    /\ Relaxed \in BOOLEAN /\ Flags \subseteq [requireTLS : BOOLEAN, override : BOOLEAN]
    /\ ReuseLimit \in Nat /\ Scenarios \subseteq [rcpts : SUBSET Rcpts, msgs : Nat]

VARIABLES
    phase,      \* of the delivery: "none", "open", "bodying", "bodied"
    meta,       \* of the message: SMTPOpts.RequireTLS now and as asked, override
    tried,      \* recipients AddRcpt was called with
    accepted,   \* rd.recipients, with the address that went to the server
    conns,      \* rd.connections
    pool,       \* the idle connection of each domain
    job,        \* the AddRcpt call in progress
    stsRun, tlsaRun,    \* lookups of the policies that are still running
    left,       \* goroutines of BodyNonAtomic: domains not done yet
    status,     \* SetStatus calls of this message, by address
    dest, msgs, \* places taken in the limits
    lost,       \* history: places of refused MAIL commands
    sent,       \* messages started
    scenario    \* fixed bounds: recipients of the messages, and how many messages

msgVars == <<phase, meta, tried, accepted, status, left, sent>>
limitVars == <<dest, msgs, lost>>
lookupVars == <<stsRun, tlsaRun, scenario>>
vars == <<msgVars, conns, pool, job, lookupVars, limitVars>>

(* An address as AddRcpt got it, or converted for a server without SMTPUTF8. *)
Addrs == Rcpts \X {"utf8", "ascii"}

(* smtpconn.C and mxConn.  chan is the channel as it really is, dane says   *)
(* that usable TLSA records match the certificate, needs what published     *)
(* policies ask for, free that the policies were overridden.                *)
NoConn == [cl |-> "nil", mxLevel |-> MXNone, tlsLevel |-> TLSNone, chan |-> "plain", dane |-> FALSE,
           needs |-> {}, free |-> FALSE, rcpts |-> {}, inTx |-> FALSE, errored |-> FALSE, transactions |-> 0]

NoMeta == [requireTLS |-> FALSE, asked |-> FALSE, override |-> FALSE]
Unset == [set |-> FALSE]
Forgotten == [set |-> FALSE, panicked |-> TRUE]
NoJob == [at |-> "none"]

Init ==
    /\ phase = "none" /\ meta = NoMeta
    /\ tried = {} /\ accepted = {} /\ status = [a \in Addrs |-> "none"] /\ left = {} /\ sent = 0 /\ scenario \in Scenarios
    /\ conns = [d \in Domains |-> NoConn] /\ pool = [d \in Domains |-> NoConn]
    /\ job = NoJob
    /\ stsRun = {} /\ tlsaRun = {}
    /\ dest = [d \in Domains |-> 0] /\ msgs = 0 /\ lost = [d \in Domains |-> 0]

Live(d) == conns[d].cl # "nil"

------------------------------------------------------------------------------
(* Start *)

(* With TLSRequireOverride the policies are left out.  The lookups of the   *)
(* last message answer to its own policy objects.                           *)
Start(f) ==
    /\ phase = "none" /\ sent < scenario.msgs
    /\ phase' = "open" /\ sent' = sent + 1
    /\ meta' = [requireTLS |-> f.requireTLS, asked |-> f.requireTLS, override |-> f.override]
    /\ msgs' = msgs + 1
    /\ stsRun' = {} /\ tlsaRun' = {}
    /\ UNCHANGED <<tried, accepted, status, left, conns, pool, job, scenario, dest, lost>>

(* A malformed sender, or no place in the limits. *)
StartFails ==
    /\ phase = "none" /\ sent < scenario.msgs
    /\ sent' = sent + 1
    /\ UNCHANGED <<phase, meta, tried, accepted, status, left, conns, pool, job, lookupVars, limitVars>>

Active(p) == ~meta.override /\ p \in Configured

------------------------------------------------------------------------------
(* The lookups of the policies *)

(* The answer goes to the future the policy object holds at that time, job.sts  *)
(* or job.tlsa, if that is still waited for; a second answer is ignored.    *)
Answered(fut, k, val) == IF fut.set THEN fut ELSE [set |-> TRUE, of |-> k, val |-> val]

StsAnswer ==
    /\ \E d \in stsRun, mode \in {"error", "testing", "enforce"} :
        /\ stsRun' = stsRun \ {d}
        /\ job' = IF job.at \in {"lookup", "mx", "connect", "hello", "check"}
                  THEN [job EXCEPT !.sts = Answered(@, d, mode)] ELSE job
    /\ UNCHANGED <<msgVars, conns, pool, tlsaRun, scenario, limitVars>>

(* discoverTLSA: no or unauthenticated records, a failed lookup, records of *)
(* an unknown kind, records to compare the certificate with.                *)
TlsaAnswer ==
    /\ \E m \in tlsaRun, recs \in {"none", "error", "unusable", "usable"} :
        /\ tlsaRun' = tlsaRun \ {m}
        /\ job' = IF job.at \in {"connect", "hello", "check"} THEN [job EXCEPT !.tlsa = Answered(@, m, recs)] ELSE job
    /\ UNCHANGED <<msgVars, conns, pool, stsRun, scenario, limitVars>>

(* The lookup panics.  The goroutine recovers and logs, and its future is   *)
(* never set, unless the answer of an earlier lookup gets there.            *)
TlsaPanics ==
    /\ \E m \in tlsaRun :
        /\ tlsaRun' = tlsaRun \ {m}
        /\ job' = IF job.at \in {"connect", "hello", "check"} /\ ~job.tlsa.set /\ m = <<job.dom, job.mx>>
                  THEN [job EXCEPT !.tlsa = Forgotten] ELSE job
    /\ UNCHANGED <<msgVars, conns, pool, stsRun, scenario, limitVars>>

------------------------------------------------------------------------------
(* AddRcpt *)

Fail == job' = NoJob

(* Split fails, <postmaster>, or an address literal. *)
AddRcptRefused(r) ==
    /\ phase = "open" /\ job = NoJob /\ r \in scenario.rcpts \ tried
    /\ tried' = tried \cup {r}
    /\ UNCHANGED <<phase, meta, accepted, status, left, sent, conns, pool, job, lookupVars, limitVars>>

(* connectionForDomain: the message's connection, the pool's, or a new one. *)
(* A pooled connection that REQUIRETLS does not let it use is dropped.      *)
AddRcpt(r) ==
    /\ phase = "open" /\ job = NoJob /\ r \in scenario.rcpts \ tried
    /\ tried' = tried \cup {r}
    /\ LET d == DomainOf[r]
           old == job' = [at |-> "rcpt", rcpt |-> r, dom |-> d] /\ UNCHANGED <<pool, stsRun>>
           pooled == job' = [at |-> "got", rcpt |-> r, dom |-> d, conn |-> pool[d]] /\ UNCHANGED stsRun
           new == /\ job' = [at |-> "lookup", rcpt |-> r, dom |-> d, sts |-> Unset]
                  /\ stsRun' = IF Active("mtasts") THEN stsRun \cup {d} ELSE stsRun
       IN  IF Live(d) THEN old
           ELSE /\ pool' = [pool EXCEPT ![d] = NoConn]
                /\ new \/ (pool[d] # NoConn /\ ~meta.requireTLS /\ pooled)
    /\ UNCHANGED <<phase, meta, accepted, status, left, sent, conns, tlsaRun, scenario, limitVars>>

(* lookupMX: no record stands for the domain itself. *)
MXAnswers(d) == [n : 1 .. MaxMX[d], dnssec : BOOLEAN]

(* An error or a null MX ends the call. *)
LookupMX ==
    /\ job.at = "lookup"
    /\ \/ \E a \in MXAnswers(job.dom) :
            job' = [at |-> "mx", rcpt |-> job.rcpt, dom |-> job.dom, sts |-> job.sts, mx |-> 1, of |-> a.n,
                    dnssec |-> a.dnssec, conn |-> [NoConn EXCEPT !.free = meta.override]]
       \/ Fail
    /\ UNCHANGED <<msgVars, conns, pool, lookupVars, limitVars>>

(* The loop of newConn goes on; after the last record Client() is asked.    *)
(* A client whose QUIT failed still counts as connected.                    *)
NextMX(c) ==
    job' = IF job.mx < job.of
           THEN [at |-> "mx", rcpt |-> job.rcpt, dom |-> job.dom, sts |-> job.sts, mx |-> job.mx + 1,
                 of |-> job.of, dnssec |-> job.dnssec, conn |-> c]
           ELSE IF c.cl = "nil" THEN NoJob
           ELSE [at |-> "got", rcpt |-> job.rcpt, dom |-> job.dom, conn |-> c]

(* CheckMX of the policies: the level each comes to, and its refusal. *)
StsCheckMX(mode, match) ==
    [level |-> IF mode # "error" /\ match THEN MX_MTASTS ELSE MXNone, refuses |-> mode = "enforce" /\ ~match]
PreloadCheckMX(level) == [level |-> level, refuses |-> FALSE]
DaneCheckMX == [level |-> MXNone, refuses |-> FALSE]
DnssecCheckMX(dnssec) == [level |-> IF dnssec THEN MX_DNSSEC ELSE MXNone, refuses |-> FALSE]
LocalCheckMX(level) == [level |-> MXNone, refuses |-> level < MinMX]

Raised(old, level) == IF level > old THEN level ELSE old

(* One turn of the loops over the policies: the first refusal ends them.    *)
Ask(before, p, answer) ==
    IF ~Active(p) \/ before.refused THEN before
    ELSE [level |-> Raised(before.level, answer.level), refused |-> answer.refuses]

(* CheckMX of the policies in the order PolicyGroup.Init gives them, each   *)
(* on the level the ones before it came to; PrepareConn of the DANE policy  *)
(* is reached when its own CheckMX is.                                      *)
AskMX(mode, match, dnssec) ==
    LET sts == Ask([level |-> MXNone, refused |-> FALSE], "mtasts", StsCheckMX(mode, match))
        preload == Ask(sts, "sts_preload", PreloadCheckMX(sts.level))
        dane == Ask(preload, "dane", DaneCheckMX)
        signed == Ask(dane, "dnssec", DnssecCheckMX(dnssec))
        all == Ask(signed, "local_policy", LocalCheckMX(signed.level))
    IN  [level |-> all.level, refused |-> all.refused, prepared |-> Active("dane") /\ ~dane.refused]

CheckMX ==
    /\ job.at = "mx"
    /\ Active("mtasts") => job.sts.set
    /\ \E match \in BOOLEAN :
        LET mode == IF Active("mtasts") THEN job.sts.val ELSE "error"
            verdict == AskMX(mode, match, job.dnssec)
        IN  /\ tlsaRun' = IF verdict.prepared THEN tlsaRun \cup {<<job.dom, job.mx>>} ELSE tlsaRun
            /\ IF verdict.refused THEN NextMX(job.conn)
               ELSE job' = [at |-> "connect", rcpt |-> job.rcpt, dom |-> job.dom, sts |-> job.sts, tlsa |-> Unset,
                            mx |-> job.mx, of |-> job.of, dnssec |-> job.dnssec, cfg |-> "verify",
                            level |-> TLSAuthenticated, conn |-> [job.conn EXCEPT !.mxLevel = verdict.level]]
    /\ UNCHANGED <<msgVars, conns, pool, stsRun, scenario, limitVars>>

------------------------------------------------------------------------------
(* connect: STARTTLS with verification, without it, plain text *)

Unleveled(c) == [c EXCEPT !.mxLevel = MXNone]
Dropped(c) == [c EXCEPT !.cl = "nil"]

(* retry: a new connection, and EHLO. *)
Connect ==
    /\ job.at = "connect"
    /\ job' = [job EXCEPT !.at = "hello", !.conn.cl = "open"]
    /\ UNCHANGED <<msgVars, conns, pool, lookupVars, limitVars>>

(* Connect fails, before any try or after one was given up. *)
ConnectFails ==
    /\ job.at = "connect"
    /\ NextMX(Unleveled(job.conn))
    /\ UNCHANGED <<msgVars, conns, pool, lookupVars, limitVars>>

(* The server offers STARTTLS and then refuses the command. *)
StartTLSFails ==
    /\ job.at = "hello" /\ job.cfg # "nil"
    /\ NextMX(Unleveled(Dropped(job.conn)))
    /\ UNCHANGED <<msgVars, conns, pool, lookupVars, limitVars>>

(* Mutant: every verification error is retried without verification. *)
HandshakeFailsAgain ==
    /\ job.at = "hello" /\ job.cfg # "nil"
    /\ job' = [job EXCEPT !.at = "connect", !.cfg = "skip", !.level = TLSEncrypted, !.conn = Dropped(@)]
    /\ UNCHANGED <<msgVars, conns, pool, lookupVars, limitVars>>

(* The handshake fails: once more without verification if the certificate   *)
(* was the reason, else in plain text.                                      *)
HandshakeFails ==
    /\ job.at = "hello" /\ job.cfg # "nil"
    /\ \E verifyError \in BOOLEAN :
        LET retry == verifyError /\ job.level = TLSAuthenticated
        IN  job' = [job EXCEPT !.at = "connect", !.cfg = IF retry THEN "skip" ELSE "nil",
                               !.level = IF retry THEN TLSEncrypted ELSE TLSNone,
                               !.conn = Dropped(@)]
    /\ UNCHANGED <<msgVars, conns, pool, lookupVars, limitVars>>

Connected(chan, level) ==
    job' = [job EXCEPT !.at = "check", !.level = level, !.conn.chan = chan]

HandshakeDone ==
    /\ job.at = "hello" /\ job.cfg # "nil"
    /\ Connected(IF job.cfg = "verify" THEN "verified" ELSE "unverified", job.level)
    /\ UNCHANGED <<msgVars, conns, pool, lookupVars, limitVars>>

(* No STARTTLS, or not wanted any more. *)
PlainText ==
    /\ job.at = "hello"
    /\ Connected("plain", TLSNone)
    /\ UNCHANGED <<msgVars, conns, pool, lookupVars, limitVars>>

------------------------------------------------------------------------------
(* The policies' CheckConn *)

(* verifyDANE: TLS is required by any record, authentication by usable ones; *)
(* a match authenticates the server whatever its certificate chain.         *)
VerifyDANE(recs, match, chan) ==
    [override |-> recs = "usable" /\ chan # "plain" /\ match,
     err |-> (recs # "none" /\ chan = "plain") \/ (recs = "usable" /\ ~match)]

(* CheckConn of the policies: the level each comes to, and its refusal. *)
StsCheckConn(mode, chan) == [level |-> TLSNone, refuses |-> mode = "enforce" /\ chan # "verified"]
PreloadCheckConn(level) == [level |-> level, refuses |-> FALSE]
DaneCheckConn(recs, match, chan) ==
    LET v == VerifyDANE(recs, match, chan)
    IN  [level |-> IF v.override THEN TLSAuthenticated ELSE TLSNone, refuses |-> recs = "error" \/ v.err]
DnssecCheckConn == [level |-> TLSNone, refuses |-> FALSE]
LocalCheckConn(level) == [level |-> TLSNone, refuses |-> level < MinTLS]

(* CheckConn of the policies in the same order, from the level connect got. *)
AskConn(start, mode, recs, match, chan) ==
    LET sts == Ask([level |-> start, refused |-> FALSE], "mtasts", StsCheckConn(mode, chan))
        preload == Ask(sts, "sts_preload", PreloadCheckConn(sts.level))
        dane == Ask(preload, "dane", DaneCheckConn(recs, match, chan))
        signed == Ask(dane, "dnssec", DnssecCheckConn)
    IN  Ask(signed, "local_policy", LocalCheckConn(signed.level))

(* C.Close: QUIT, and only its success forgets the client. *)
Closed(c) == {[c EXCEPT !.cl = "nil"], [c EXCEPT !.cl = "dead"]}

(* The DANE policy is asked, and waits for its lookup, unless MTA-STS has   *)
(* refused the connection before.                                           *)
DaneAsked == Active("dane") /\ ~(Active("mtasts") /\ StsCheckConn(job.sts.val, job.conn.chan).refuses)

CheckConn ==
    /\ job.at = "check"
    /\ DaneAsked => job.tlsa.set
    /\ \E match \in BOOLEAN :
        LET mode == IF Active("mtasts") THEN job.sts.val ELSE "error"
            recs == IF DaneAsked THEN job.tlsa.val ELSE "none"
            c == job.conn
            verdict == AskConn(job.level, mode, recs, match, c.chan)
            needs == (IF mode = "enforce" THEN {"sts"} ELSE {}) \cup (IF recs = "usable" THEN {"tlsa"} ELSE {})
        IN  IF verdict.refused
            THEN \E closed \in Closed(c) : NextMX(Unleveled(closed))
            ELSE job' = [at |-> "got", rcpt |-> job.rcpt, dom |-> job.dom,
                         conn |-> [c EXCEPT !.tlsLevel = verdict.level, !.needs = needs,
                                            !.dane = VerifyDANE(recs, match, c.chan).override]]
    /\ UNCHANGED <<msgVars, conns, pool, lookupVars, limitVars>>

------------------------------------------------------------------------------
(* The rest of connectionForDomain, and RCPT *)

Insufficient(c) == c.tlsLevel < TLSAuthenticated \/ c.mxLevel < MX_MTASTS

(* REQUIRETLS is not met, or TakeDest times out: the connection is closed.  *)
ConnRefused ==
    /\ job.at = "got"
    /\ Fail
    /\ UNCHANGED <<msgVars, conns, pool, lookupVars, limitVars>>

(* Mutant: only the certificate is looked at for REQUIRETLS. *)
MayGoOnTlsOnly == job.at = "got" /\ ~(meta.requireTLS /\ job.conn.tlsLevel < TLSAuthenticated)

MayGoOn == job.at = "got" /\ ~(meta.requireTLS /\ Insufficient(job.conn))

(* In relaxed mode a server without the extension switches REQUIRETLS off.  *)
Relax == \E ext \in BOOLEAN :
    meta' = [meta EXCEPT !.requireTLS = @ /\ ~(Relaxed /\ ~ext)]

(* MAIL is refused, or cannot be sent: the connection is closed and its     *)
(* place stays taken.                                                       *)
MailFails ==
    /\ MayGoOn
    /\ Relax
    /\ dest' = [dest EXCEPT ![job.dom] = @ + 1]
    /\ lost' = [lost EXCEPT ![job.dom] = @ + 1]
    /\ Fail
    /\ UNCHANGED <<phase, tried, accepted, status, left, sent, conns, pool, lookupVars, msgs>>

Mail ==
    /\ MayGoOn /\ job.conn.cl = "open"
    /\ Relax
    /\ dest' = [dest EXCEPT ![job.dom] = @ + 1]
    /\ conns' = [conns EXCEPT ![job.dom] = [job.conn EXCEPT !.inTx = TRUE]]
    /\ job' = [at |-> "rcpt", rcpt |-> job.rcpt, dom |-> job.dom]
    /\ UNCHANGED <<phase, tried, accepted, status, left, sent, pool, lookupVars, msgs, lost>>

(* The connection remembers the address it sent. *)
Rcpt ==
    /\ job.at = "rcpt"
    /\ \E form \in {"utf8"} \cup (IF job.rcpt \in NonAscii THEN {"ascii"} ELSE {}) :
        /\ conns' = [conns EXCEPT ![job.dom].rcpts = @ \cup {<<job.rcpt, form>>}]
        /\ accepted' = accepted \cup {<<job.rcpt, form>>}
    /\ job' = NoJob
    /\ UNCHANGED <<phase, meta, tried, status, left, sent, pool, lookupVars, limitVars>>

RcptFails ==
    /\ job.at = "rcpt"
    /\ Fail
    /\ UNCHANGED <<msgVars, conns, pool, lookupVars, limitVars>>

------------------------------------------------------------------------------
(* Body and BodyNonAtomic *)

Body ==
    /\ phase = "open" /\ job = NoJob
    /\ phase' = "bodying"
    /\ left' = {d \in Domains : Live(d)}
    /\ UNCHANGED <<meta, tried, accepted, status, sent, conns, pool, job, lookupVars, limitVars>>

(* The message was quarantined since: nothing is sent. *)
BodyQuarantined ==
    /\ phase = "open" /\ job = NoJob
    /\ phase' = "bodied"
    /\ status' = [a \in Addrs |-> IF a[2] = "utf8" /\ \E f \in {"utf8", "ascii"} : <<a[1], f>> \in accepted
                                  THEN "quarantined" ELSE "none"]
    /\ UNCHANGED <<meta, tried, accepted, left, sent, conns, pool, job, lookupVars, limitVars>>

Report(d, res) == status' = [a \in Addrs |-> IF a \in conns[d].rcpts THEN res ELSE status[a]]

(* Mutant: a failing server's recipients get no status. *)
DataErrorUnreported(d, ok) ==
    /\ phase = "bodying" /\ d \in left
    /\ left' = left \ {d}
    /\ IF ok = "ok" THEN Report(d, ok) ELSE UNCHANGED status
    /\ conns' = [conns EXCEPT ![d].errored = ok = "failed", ![d].inTx = ok # "ok"]
    /\ UNCHANGED <<phase, meta, tried, accepted, sent, pool, job, lookupVars, limitVars>>

(* One goroutine per connection.  The body cannot be opened, which leaves   *)
(* the connection as it is, or DATA succeeds or fails.                      *)
Data(d, ok) ==
    /\ phase = "bodying" /\ d \in left
    /\ left' = left \ {d}
    /\ Report(d, ok)
    /\ conns' = [conns EXCEPT ![d].errored = ok = "failed", ![d].inTx = ok # "ok"]
    /\ UNCHANGED <<phase, meta, tried, accepted, sent, pool, job, lookupVars, limitVars>>

BodyReturns ==
    /\ phase = "bodying" /\ left = {}
    /\ phase' = "bodied"
    /\ UNCHANGED <<meta, tried, accepted, status, left, sent, conns, pool, job, lookupVars, limitVars>>

------------------------------------------------------------------------------
(* Commit and Abort, both Close *)

(* Usable, apart from the answer to RSET. *)
Usable(c) == c.transactions + 1 <= ReuseLimit /\ ~c.errored

(* Mutant: the places of connections that are not reused stay taken. *)
CloseReleasesPooled ==
    /\ phase \in {"open", "bodied"} /\ job = NoJob
    /\ \E kept \in SUBSET {d \in Domains : Live(d) /\ Usable(conns[d])} :
        /\ pool' = [d \in Domains |-> IF d \in kept /\ pool[d] = NoConn
                      THEN [conns[d] EXCEPT !.transactions = @ + 1, !.inTx = FALSE] ELSE pool[d]]
        /\ dest' = [d \in Domains |-> IF d \in kept THEN dest[d] - 1 ELSE dest[d]]
    /\ conns' = [d \in Domains |-> NoConn]
    /\ msgs' = msgs - 1
    /\ phase' = "none" /\ meta' = NoMeta /\ tried' = {} /\ accepted' = {} /\ status' = [a \in Addrs |-> "none"]
    /\ UNCHANGED <<left, sent, job, lookupVars, lost>>

(* Every connection's place is released; it goes to the pool after a RSET   *)
(* or is closed.  The message's place is released last.                     *)
Close ==
    /\ phase \in {"open", "bodied"} /\ job = NoJob
    /\ \E kept \in SUBSET {d \in Domains : Live(d) /\ Usable(conns[d])} :
        pool' = [d \in Domains |-> IF d \in kept /\ pool[d] = NoConn
                   THEN [conns[d] EXCEPT !.transactions = @ + 1, !.inTx = FALSE] ELSE pool[d]]
    /\ dest' = [d \in Domains |-> IF Live(d) THEN dest[d] - 1 ELSE dest[d]]
    /\ conns' = [d \in Domains |-> NoConn]
    /\ msgs' = msgs - 1
    /\ phase' = "none" /\ meta' = NoMeta /\ tried' = {} /\ accepted' = {} /\ status' = [a \in Addrs |-> "none"]
    /\ UNCHANGED <<left, sent, job, lookupVars, lost>>

AddRcptStep ==
    \/ LookupMX \/ CheckMX \/ Connect \/ ConnectFails \/ StartTLSFails \/ HandshakeFails \/ HandshakeDone \/ PlainText
    \/ CheckConn \/ ConnRefused \/ MailFails \/ Mail \/ Rcpt \/ RcptFails

Next ==
    \/ (\E f \in Flags : Start(f)) \/ StartFails
    \/ StsAnswer \/ TlsaAnswer \/ TlsaPanics
    \/ (\E r \in Rcpts : AddRcptRefused(r) \/ AddRcpt(r))
    \/ AddRcptStep
    \/ Body \/ BodyQuarantined \/ (\E d \in Domains, ok \in {"ok", "failed", "unopened"} : Data(d, ok)) \/ BodyReturns
    \/ Close

Spec == Init /\ [][Next]_vars

(* Every wait for a server or for DNS has a time-out (connect_timeout,      *)
(* command_timeout, the resolver's), so a call in progress goes on when it  *)
(* can, and a lookup ends.  The wait for a policy's lookup has none.        *)
Fairness == WF_vars(AddRcptStep) /\ WF_vars(StsAnswer) /\ WF_vars(TlsaAnswer \/ TlsaPanics)

FairSpec == Spec /\ Fairness

------------------------------------------------------------------------------
(* Properties *)

(* The level a channel deserves: a verified chain or a matching TLSA record *)
(* authenticates the server.                                                *)
Level(c) ==
    IF c.chan = "plain" THEN TLSNone
    ELSE IF c.chan = "verified" \/ c.dane THEN TLSAuthenticated ELSE TLSEncrypted

(* MAIL goes only over a channel that is good enough, whatever fall-back,   *)
(* failed QUIT, refused MX or reuse came before: the recorded TLS level is  *)
(* the channel's, a message with REQUIRETLS has an authenticated server and *)
(* MX, an enforced MTA-STS policy a verified certificate, usable TLSA       *)
(* records a match, and the local minimum is met.  Connections made under   *)
(* an override, and relaxed REQUIRETLS, are exempt.                         *)
SecureEnough ==
    \A d \in Domains : Live(d) =>
        LET c == conns[d] IN
        /\ c.tlsLevel = Level(c)
        /\ meta.asked /\ ~Relaxed => Level(c) = TLSAuthenticated /\ c.mxLevel >= MX_MTASTS
        /\ "sts" \in c.needs => c.chan = "verified"
        /\ "tlsa" \in c.needs => c.dane
        /\ ~c.free /\ "local_policy" \in Configured => Level(c) >= MinTLS /\ c.mxLevel >= MinMX

(* The limits' places are those of the message and of its connections, on   *)
(* every path through AddRcpt, Body and Close; the only ones that get lost  *)
(* are those of refused MAIL commands (DestReturned).                       *)
PlacesBalanced ==
    /\ msgs = (IF phase = "none" THEN 0 ELSE 1)
    /\ \A d \in Domains : dest[d] = (IF Live(d) THEN 1 ELSE 0) + lost[d]

(* When Body returns, the address of every accepted recipient, as it went   *)
(* to the server, has a status, and it is the one of its own server.        *)
EveryRcptAnswered ==
    phase = "bodied" => \A a \in accepted :
        \/ status[a] \in {"ok", "failed", "unopened"} /\ (status[a] = "failed" <=> conns[DomainOf[a[1]]].errored)
        \/ status[<<a[1], "utf8">>] = "quarantined"

(* AddRcpt comes to an end: the TLS fall-back does not go round in circles, *)
(* and no policy waits for a lookup that is not running, over any number of *)
(* MX records.  The one wait that has no end is exempt: CheckConn of the    *)
(* DANE policy, when the lookup for this MX panicked (AddRcptReturns).      *)
Forsaken == job.at = "check" /\ DaneAsked /\ job.tlsa = Forgotten
AddRcptEnds == job # NoJob ~> job = NoJob \/ Forsaken

(* AddRcpt comes to an end also when a lookup panics, which is recovered    *)
(* from (security.go:483).                                                  *)
AddRcptReturns == job # NoJob ~> job = NoJob

(* A place taken for a destination is given back. *)
DestReturned == \A d \in Domains : dest[d] = (IF Live(d) THEN 1 ELSE 0)

(* Statuses are set only for recipients of this message, under the address  *)
(* AddRcpt was called with.                                                 *)
OwnStatuses == \A a \in Addrs : status[a] # "none" => a[2] = "utf8" /\ \E f \in {"utf8", "ascii"} : <<a[1], f>> \in accepted

(* A message under policies does not use a connection made without them.    *)
PoolKeepsPolicy == \A d \in Domains : Live(d) /\ ~meta.override => ~conns[d].free

(* A policy decides on the answer to its own lookup. *)
OwnLookup ==
    /\ job.at = "mx" /\ job.sts.set => job.sts.of = job.dom
    /\ job.at = "check" /\ job.tlsa.set => job.tlsa.of = <<job.dom, job.mx>>

(* REQUIRETLS holds for every domain of the message, relaxed or not: "it is *)
(* enough to enforce strict security only on the path to the MX"            *)
(* (connect.go:268).                                                        *)
RequireTLSKept == \A d \in Domains : Live(d) /\ meta.asked => Level(conns[d]) = TLSAuthenticated
==============================================================================
