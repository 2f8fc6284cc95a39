----------------------------- MODULE RemoteProofs ----------------------------
(***************************************************************************)
(* Proofs about the remote target: no connection weaker than what was      *)
(* asked for is used, the places in the limits balance, and every accepted *)
(* recipient gets the status of its own server.                            *)
(***************************************************************************)
EXTENDS Remote, TLAPS

------------------------------------------------------------------------------
(* Types *)

Levels == 0 .. 2
Forms == {"utf8", "ascii"}

ConnType ==
    [cl : {"nil", "open", "dead"}, mxLevel : Levels, tlsLevel : Levels,
     chan : {"plain", "unverified", "verified"}, dane : BOOLEAN, needs : SUBSET {"sts", "tlsa"},
     free : BOOLEAN, rcpts : SUBSET Addrs, inTx : BOOLEAN, errored : BOOLEAN, transactions : Nat]

StsType == {Unset} \cup [set : {TRUE}, of : Domains, val : {"error", "testing", "enforce"}]
TlsaType == {Unset, Forgotten} \cup [set : {TRUE}, of : Domains \X Nat, val : {"none", "error", "unusable", "usable"}]

RcptJobs == [at : {"rcpt"}, rcpt : Rcpts, dom : Domains]
GotJobs == [at : {"got"}, rcpt : Rcpts, dom : Domains, conn : ConnType]
LookupJobs == [at : {"lookup"}, rcpt : Rcpts, dom : Domains, sts : StsType]
MxJobs == [at : {"mx"}, rcpt : Rcpts, dom : Domains, sts : StsType, mx : Nat, of : Nat,
           dnssec : BOOLEAN, conn : ConnType]
TryJobs == [at : {"connect", "hello", "check"}, rcpt : Rcpts, dom : Domains, sts : StsType, tlsa : TlsaType,
            mx : Nat, of : Nat, dnssec : BOOLEAN, cfg : {"verify", "skip", "nil"}, level : Levels, conn : ConnType]
JobType == {NoJob} \cup RcptJobs \cup GotJobs \cup LookupJobs \cup MxJobs \cup TryJobs

Sent == {"ok", "failed", "unopened"}

TypeOK ==
    /\ phase \in {"none", "open", "bodying", "bodied"}
    /\ meta \in [requireTLS : BOOLEAN, asked : BOOLEAN, override : BOOLEAN]
    /\ tried \subseteq Rcpts /\ accepted \subseteq Addrs
    /\ conns \in [Domains -> ConnType] /\ pool \in [Domains -> ConnType]
    /\ job \in JobType
    /\ stsRun \subseteq Domains /\ tlsaRun \subseteq Domains \X Nat
    /\ left \subseteq Domains
    /\ status \in [Addrs -> Sent \cup {"none", "quarantined"}]
    /\ dest \in [Domains -> Nat] /\ lost \in [Domains -> Nat] /\ msgs \in Nat
    /\ sent \in Nat /\ scenario \in Scenarios

------------------------------------------------------------------------------
(* The inductive invariant *)

(* What a connection that is kept was checked for, whoever made it. *)
Sound(c) ==
    /\ c.tlsLevel = Level(c)
    /\ "sts" \in c.needs => c.chan = "verified"
    /\ "tlsa" \in c.needs => c.dane
    /\ ~c.free /\ "local_policy" \in Configured => c.tlsLevel >= MinTLS /\ c.mxLevel >= MinMX

(* A connection remembers addresses of its own domain only. *)
RcptsOf(c, d) == \A a \in c.rcpts : DomainOf[a[1]] = d

(* The connections of the message and of the pool. *)
ConnOK ==
    \A d \in Domains :
        /\ conns[d].cl # "dead" /\ pool[d].cl # "dead"
        /\ Live(d) => Sound(conns[d]) /\ (meta.asked /\ ~Relaxed => ~Insufficient(conns[d]))
        /\ pool[d].cl = "open" => Sound(pool[d])
        /\ RcptsOf(conns[d], d) /\ RcptsOf(pool[d], d)

(* REQUIRETLS is switched off in relaxed mode only. *)
MetaOK == Relaxed \/ meta.requireTLS = meta.asked

(* A call that is under way belongs to an open delivery; it is about a      *)
(* connection the message has, or about one it does not have yet.           *)
PlaceOK ==
    job # NoJob =>
        /\ phase = "open" /\ job.dom = DomainOf[job.rcpt]
        /\ Live(job.dom) <=> job.at = "rcpt"

(* The level connect is at: what it will have if the handshake succeeds. *)
LevelOf(cfg) == IF cfg = "verify" THEN TLSAuthenticated ELSE IF cfg = "skip" THEN TLSEncrypted ELSE TLSNone
ChanLevel(chan) ==
    IF chan = "verified" THEN TLSAuthenticated ELSE IF chan = "unverified" THEN TLSEncrypted ELSE TLSNone

(* The connection that is being made: open exactly between Connect and the  *)
(* end of the attempt, whatever was tried before.                           *)
AttemptOK ==
    /\ job.at \in {"mx", "connect", "hello", "check"} =>
        job.conn.rcpts = {} /\ job.conn.free = meta.override
    /\ job.at \in {"mx", "connect"} => job.conn.cl # "open"
    /\ job.at \in {"hello", "check"} => job.conn.cl = "open"
    /\ job.at \in {"connect", "hello", "check"} /\ Active("local_policy") => job.conn.mxLevel >= MinMX
    /\ job.at \in {"connect", "hello"} => job.level = LevelOf(job.cfg)
    /\ job.at = "check" => job.level = ChanLevel(job.conn.chan)
    /\ job.at = "got" => RcptsOf(job.conn, job.dom) /\ (job.conn.cl = "open" => Sound(job.conn))

(* Between messages nothing is left of the last one. *)
RestOK ==
    /\ phase = "none" => accepted = {} /\ \A d \in Domains : ~Live(d)
    /\ phase # "bodying" => left = {}

(* An accepted recipient is known to the connection of its domain. *)
KnownOK == \A a \in accepted : Live(DomainOf[a[1]]) /\ a \in conns[DomainOf[a[1]]].rcpts

(* It has the status of its own server once that server's goroutine ended. *)
Told(a) == status[a] \in Sent /\ (status[a] = "failed" <=> conns[DomainOf[a[1]]].errored)
ToldOK == phase = "bodying" => \A a \in accepted : DomainOf[a[1]] \notin left => Told(a)

IInv ==
    /\ TypeOK /\ ConnOK /\ MetaOK /\ PlaceOK /\ AttemptOK
    /\ RestOK /\ KnownOK /\ ToldOK
    /\ PlacesBalanced /\ EveryRcptAnswered

------------------------------------------------------------------------------
(* The shape of a call, by where it is *)

(* TypeOK with the place of the call gives its fields. *)
LEMMA JobShape ==
    ASSUME TypeOK
    PROVE  /\ job.at = "none" => job = NoJob
           /\ job.at = "rcpt" => job \in RcptJobs
           /\ job.at = "got" => job \in GotJobs
           /\ job.at = "lookup" => job \in LookupJobs
           /\ job.at = "mx" => job \in MxJobs
           /\ job.at \in {"connect", "hello", "check"} => job \in TryJobs
           /\ job # NoJob => job.at # "none"
    <1>1. job \in JobType
        BY DEF TypeOK
    <1>2. CASE job = NoJob
        BY <1>2 DEF NoJob
    <1>3. CASE job \in RcptJobs
        <2>1. job.at = "rcpt"
            BY <1>3 DEF RcptJobs
        <2> QED
            BY <1>3, <2>1
    <1>4. CASE job \in GotJobs
        <2>1. job.at = "got"
            BY <1>4 DEF GotJobs
        <2> QED
            BY <1>4, <2>1
    <1>5. CASE job \in LookupJobs
        <2>1. job.at = "lookup"
            BY <1>5 DEF LookupJobs
        <2> QED
            BY <1>5, <2>1
    <1>6. CASE job \in MxJobs
        <2>1. job.at = "mx"
            BY <1>6 DEF MxJobs
        <2> QED
            BY <1>6, <2>1
    <1>7. CASE job \in TryJobs
        <2>1. job.at \in {"connect", "hello", "check"}
            BY <1>7 DEF TryJobs
        <2> QED
            BY <1>7, <2>1
    <1> QED
        BY <1>1, <1>2, <1>3, <1>4, <1>5, <1>6, <1>7 DEF JobType

(* The empty connection is one. *)
LEMMA NoConnType == NoConn \in ConnType
    BY DEF NoConn, ConnType, Levels, MXNone, TLSNone

(* A state that starts with nothing satisfies the invariant. *)
LEMMA RemoteInit == Init => IInv
    <1> SUFFICES ASSUME Init PROVE IInv
        OBVIOUS
    <1>1. TypeOK
        <2>1. meta \in [requireTLS : BOOLEAN, asked : BOOLEAN, override : BOOLEAN]
            BY DEF Init, NoMeta
        <2>2. conns \in [Domains -> ConnType] /\ pool \in [Domains -> ConnType]
            BY NoConnType DEF Init
        <2>3. status \in [Addrs -> Sent \cup {"none", "quarantined"}]
            BY DEF Init
        <2> QED
            BY <2>1, <2>2, <2>3 DEF Init, TypeOK, JobType
    <1>2. \A d \in Domains : ~Live(d) /\ conns[d] = NoConn /\ pool[d] = NoConn
        BY DEF Init, Live, NoConn
    <1>3. ConnOK
        BY <1>2 DEF ConnOK, NoConn, RcptsOf
    <1>4. MetaOK /\ PlaceOK /\ AttemptOK
        BY DEF Init, NoMeta, NoJob, MetaOK, PlaceOK, AttemptOK
    <1>5. RestOK /\ KnownOK /\ ToldOK /\ EveryRcptAnswered
        BY <1>2 DEF Init, RestOK, KnownOK, ToldOK, EveryRcptAnswered
    <1>6. PlacesBalanced
        BY <1>2 DEF Init, PlacesBalanced
    <1> QED
        BY <1>1, <1>3, <1>4, <1>5, <1>6 DEF IInv

------------------------------------------------------------------------------
(* Steps of a call that only move the call *)

(* They leave the invariant's other parts alone. *)
LEMMA CallStep ==
    ASSUME IInv, UNCHANGED <<msgVars, conns, pool, scenario, limitVars>>,
           job' \in JobType, stsRun' \subseteq Domains, tlsaRun' \subseteq Domains \X Nat,
           PlaceOK', AttemptOK'
    PROVE  IInv'
    <1> USE DEF msgVars, limitVars
    <1>1. TypeOK'
        BY DEF IInv, TypeOK
    <1>2. \A d \in Domains : Live(d)' <=> Live(d)
        BY DEF Live
    <1>3. ConnOK'
        BY <1>2 DEF IInv, ConnOK, Sound, Level, RcptsOf, Insufficient
    <1>4. MetaOK'
        BY DEF IInv, MetaOK
    <1>5. RestOK' /\ KnownOK' /\ ToldOK'
        BY DEF IInv, RestOK, KnownOK, ToldOK, Told, Live
    <1>6. PlacesBalanced' /\ EveryRcptAnswered'
        BY DEF IInv, PlacesBalanced, EveryRcptAnswered, Live
    <1> QED
        BY <1>1, <1>3, <1>4, <1>5, <1>6 DEF IInv

(* A call that ended satisfies its parts of the invariant. *)
LEMMA CallEnds ==
    ASSUME IInv, UNCHANGED <<msgVars, conns, pool, scenario, limitVars>>, UNCHANGED <<stsRun, tlsaRun>>, job' = NoJob
    PROVE  IInv'
    <1>1. PlaceOK' /\ AttemptOK'
        BY DEF PlaceOK, AttemptOK, NoJob
    <1>2. job' \in JobType
        BY DEF JobType
    <1> QED
        BY <1>1, <1>2, CallStep DEF IInv, TypeOK

(* An answer to a policy changes the future of the call, nothing else. *)
LEMMA SameCall ==
    ASSUME IInv, UNCHANGED <<msgVars, conns, pool, scenario, limitVars>>,
           job' \in JobType, stsRun' \subseteq Domains, tlsaRun' \subseteq Domains \X Nat,
           job # NoJob, job'.at = job.at, job'.rcpt = job.rcpt, job'.dom = job.dom,
           job.at # "lookup" => job'.conn = job.conn,
           job.at \in {"connect", "hello", "check"} => job'.level = job.level /\ job'.cfg = job.cfg
    PROVE  IInv'
    <1>1. PlaceOK'
        BY DEF IInv, PlaceOK, Live, msgVars
    <1>2. AttemptOK'
        BY DEF IInv, AttemptOK, Active, Sound, Level, RcptsOf, msgVars
    <1> QED
        BY <1>1, <1>2, CallStep

(* The MTA-STS lookup answers. *)
LEMMA StsAnswerStep ==
    ASSUME IInv, StsAnswer
    PROVE  IInv'
    <1> PICK d \in stsRun, mode \in {"error", "testing", "enforce"} :
            /\ stsRun' = stsRun \ {d}
            /\ job' = IF job.at \in {"lookup", "mx", "connect", "hello", "check"}
                      THEN [job EXCEPT !.sts = Answered(@, d, mode)] ELSE job
        BY DEF StsAnswer
    <1>1. /\ UNCHANGED <<msgVars, conns, pool, scenario, limitVars>> /\ UNCHANGED tlsaRun
          /\ d \in Domains /\ stsRun' \subseteq Domains /\ tlsaRun' \subseteq Domains \X Nat
        BY DEF StsAnswer, IInv, TypeOK
    <1>2. \A f \in StsType : Answered(f, d, mode) \in StsType
        BY <1>1 DEF Answered, StsType, Unset
    <1>3. CASE job.at = "lookup"
        <2>1. job \in LookupJobs
            BY <1>3, JobShape DEF IInv
        <2>2. job' \in LookupJobs /\ job'.at = job.at /\ job'.rcpt = job.rcpt /\ job'.dom = job.dom
            BY <2>1, <1>3, <1>2 DEF LookupJobs
        <2> QED
            BY <2>2, <1>1, <1>3, SameCall DEF JobType, NoJob
    <1>4. CASE job.at = "mx"
        <2>1. job \in MxJobs
            BY <1>4, JobShape DEF IInv
        <2>2. /\ job' \in MxJobs /\ job'.at = job.at /\ job'.rcpt = job.rcpt /\ job'.dom = job.dom
              /\ job'.conn = job.conn
            BY <2>1, <1>4, <1>2 DEF MxJobs
        <2> QED
            BY <2>2, <1>1, <1>4, SameCall DEF JobType, NoJob
    <1>5. CASE job.at \in {"connect", "hello", "check"}
        <2>1. job \in TryJobs
            BY <1>5, JobShape DEF IInv
        <2>2. /\ job' \in TryJobs /\ job'.at = job.at /\ job'.rcpt = job.rcpt /\ job'.dom = job.dom
              /\ job'.conn = job.conn /\ job'.level = job.level /\ job'.cfg = job.cfg
            BY <2>1, <1>5, <1>2 DEF TryJobs
        <2> QED
            BY <2>2, <1>1, <1>5, SameCall DEF JobType, NoJob
    <1>6. CASE job' = job
        <2>1. PlaceOK' /\ AttemptOK'
            BY <1>1, <1>6 DEF IInv, PlaceOK, AttemptOK, Live, Active, Sound, Level, RcptsOf, msgVars
        <2> QED
            BY <2>1, <1>1, <1>6, CallStep DEF IInv, TypeOK
    <1> QED
        BY <1>3, <1>4, <1>5, <1>6

(* The TLSA lookup answers. *)
LEMMA TlsaAnswerStep ==
    ASSUME IInv, TlsaAnswer
    PROVE  IInv'
    <1> PICK m \in tlsaRun, recs \in {"none", "error", "unusable", "usable"} :
            /\ tlsaRun' = tlsaRun \ {m}
            /\ job' = IF job.at \in {"connect", "hello", "check"} THEN [job EXCEPT !.tlsa = Answered(@, m, recs)] ELSE job
        BY DEF TlsaAnswer
    <1>1. /\ UNCHANGED <<msgVars, conns, pool, scenario, limitVars>> /\ UNCHANGED stsRun
          /\ m \in Domains \X Nat /\ stsRun' \subseteq Domains /\ tlsaRun' \subseteq Domains \X Nat
        BY DEF TlsaAnswer, IInv, TypeOK
    <1>2. \A f \in TlsaType : Answered(f, m, recs) \in TlsaType
        BY <1>1 DEF Answered, TlsaType, Unset, Forgotten
    <1>3. CASE job.at \in {"connect", "hello", "check"}
        <2>1. job \in TryJobs
            BY <1>3, JobShape DEF IInv
        <2>2. /\ job' \in TryJobs /\ job'.at = job.at /\ job'.rcpt = job.rcpt /\ job'.dom = job.dom
              /\ job'.conn = job.conn /\ job'.level = job.level /\ job'.cfg = job.cfg
            BY <2>1, <1>3, <1>2 DEF TryJobs
        <2> QED
            BY <2>2, <1>1, <1>3, SameCall DEF JobType, NoJob
    <1>4. CASE job' = job
        <2>1. PlaceOK' /\ AttemptOK'
            BY <1>1, <1>4 DEF IInv, PlaceOK, AttemptOK, Live, Active, Sound, Level, RcptsOf, msgVars
        <2> QED
            BY <2>1, <1>1, <1>4, CallStep DEF IInv, TypeOK
    <1> QED
        BY <1>3, <1>4

(* The TLSA lookup panics. *)
LEMMA TlsaPanicsStep ==
    ASSUME IInv, TlsaPanics
    PROVE  IInv'
    <1> PICK m \in tlsaRun :
            /\ tlsaRun' = tlsaRun \ {m}
            /\ job' = IF job.at \in {"connect", "hello", "check"} /\ ~job.tlsa.set /\ m = <<job.dom, job.mx>>
                      THEN [job EXCEPT !.tlsa = Forgotten] ELSE job
        BY DEF TlsaPanics
    <1>1. /\ UNCHANGED <<msgVars, conns, pool, scenario, limitVars>> /\ UNCHANGED stsRun
          /\ m \in Domains \X Nat /\ stsRun' \subseteq Domains /\ tlsaRun' \subseteq Domains \X Nat
        BY DEF TlsaPanics, IInv, TypeOK
    <1>2. Forgotten \in TlsaType
        BY DEF TlsaType
    <1>3. CASE job.at \in {"connect", "hello", "check"} /\ job' # job
        <2>1. job \in TryJobs
            BY <1>3, JobShape DEF IInv
        <2>2. /\ job' \in TryJobs /\ job'.at = job.at /\ job'.rcpt = job.rcpt /\ job'.dom = job.dom
              /\ job'.conn = job.conn /\ job'.level = job.level /\ job'.cfg = job.cfg
            BY <2>1, <1>3, <1>2 DEF TryJobs
        <2> QED
            BY <2>2, <1>1, <1>3, SameCall DEF JobType, NoJob
    <1>4. CASE job' = job
        <2>1. PlaceOK' /\ AttemptOK'
            BY <1>1, <1>4 DEF IInv, PlaceOK, AttemptOK, Live, Active, Sound, Level, RcptsOf, msgVars
        <2> QED
            BY <2>1, <1>1, <1>4, CallStep DEF IInv, TypeOK
    <1> QED
        BY <1>3, <1>4

------------------------------------------------------------------------------
(* What the loops over the policies come to *)

(* A verdict on the way: what the policies asked so far came to. *)
Verdicts == [level : Levels, refused : BOOLEAN]

(* One turn keeps the type, never lowers the level and never takes a        *)
(* refusal back; a policy that is asked and passes has its level counted.   *)
LEMMA AskTurn ==
    ASSUME NEW v \in Verdicts, NEW p, NEW a \in [level : Levels, refuses : BOOLEAN]
    PROVE  /\ Ask(v, p, a) \in Verdicts
           /\ Ask(v, p, a).level >= v.level
           /\ v.refused => Ask(v, p, a).refused
           /\ ~Active(p) => Ask(v, p, a) = v
           /\ Active(p) /\ ~Ask(v, p, a).refused =>
                ~a.refuses /\ Ask(v, p, a).level = Raised(v.level, a.level)
    BY DEF Ask, Verdicts, Raised, Levels

(* An MX that passes has at least the level local_policy asks for. *)
LEMMA AskMXVerdict ==
    ASSUME NEW mode, NEW match \in BOOLEAN, NEW dnssec \in BOOLEAN
    PROVE  /\ AskMX(mode, match, dnssec).level \in Levels
           /\ ~AskMX(mode, match, dnssec).refused /\ Active("local_policy")
                => AskMX(mode, match, dnssec).level >= MinMX
    <1> DEFINE v0 == [level |-> MXNone, refused |-> FALSE]
               sts == Ask(v0, "mtasts", StsCheckMX(mode, match))
               preload == Ask(sts, "sts_preload", PreloadCheckMX(sts.level))
               dane == Ask(preload, "dane", DaneCheckMX)
               signed == Ask(dane, "dnssec", DnssecCheckMX(dnssec))
               all == Ask(signed, "local_policy", LocalCheckMX(signed.level))
               Answers == [level : Levels, refuses : BOOLEAN]
    <1> USE DEF MXNone, MX_MTASTS, MX_DNSSEC, Levels
    <1>0. v0 \in Verdicts
        BY DEF Verdicts
    <1>1. sts \in Verdicts
        <2>1. StsCheckMX(mode, match) \in Answers
            BY DEF StsCheckMX
        <2> QED
            BY <1>0, <2>1, AskTurn
    <1>2. preload \in Verdicts
        <2>1. PreloadCheckMX(sts.level) \in Answers
            BY <1>1 DEF PreloadCheckMX, Verdicts
        <2> QED
            BY <1>1, <2>1, AskTurn
    <1>3. dane \in Verdicts
        <2>1. DaneCheckMX \in Answers
            BY DEF DaneCheckMX
        <2> QED
            BY <1>2, <2>1, AskTurn
    <1>4. signed \in Verdicts
        <2>1. DnssecCheckMX(dnssec) \in Answers
            BY DEF DnssecCheckMX
        <2> QED
            BY <1>3, <2>1, AskTurn
    <1>5. LocalCheckMX(signed.level) \in Answers
        BY DEF LocalCheckMX
    <1>6. /\ all \in Verdicts /\ all.level >= signed.level
          /\ Active("local_policy") /\ ~all.refused => ~LocalCheckMX(signed.level).refuses
        BY <1>4, <1>5, AskTurn
    <1>7. Active("local_policy") /\ ~all.refused => all.level >= MinMX
        <2>1. MinMX \in 0 .. 2
            BY RemoteAssumption
        <2>3. signed.level \in 0 .. 2 /\ all.level \in 0 .. 2
            BY <1>4, <1>6 DEF Verdicts
        <2>2. ~LocalCheckMX(signed.level).refuses => signed.level >= MinMX
            <3>1. LocalCheckMX(signed.level).refuses <=> signed.level < MinMX
                BY Zenon DEF LocalCheckMX
            <3> QED
                BY <2>1, <2>3, <3>1
        <2> HIDE DEF all, signed
        <2> QED
            BY <1>6, <2>1, <2>2, <2>3
    <1>8. AskMX(mode, match, dnssec).level = all.level /\ AskMX(mode, match, dnssec).refused = all.refused
        BY DEF AskMX
    <1> HIDE DEF all
    <1> QED
        BY <1>6, <1>7, <1>8 DEF Verdicts

(* A connection that passes: its level is that of the channel with the DANE *)
(* override, an enforced MTA-STS policy has a verified certificate, usable  *)
(* TLSA records a match, and local_policy's minimum is met.                 *)
LEMMA AskConnVerdict ==
    ASSUME NEW mode, NEW recs, NEW match \in BOOLEAN, NEW chan \in {"plain", "unverified", "verified"},
           ~Active("mtasts") => mode = "error", ~Active("dane") => recs = "none",
           ~AskConn(ChanLevel(chan), mode, recs, match, chan).refused
    PROVE  LET v == AskConn(ChanLevel(chan), mode, recs, match, chan)
               over == VerifyDANE(recs, match, chan).override
           IN  /\ v.level \in Levels /\ over \in BOOLEAN
               /\ v.level = IF chan = "plain" THEN TLSNone
                            ELSE IF chan = "verified" \/ over THEN TLSAuthenticated ELSE TLSEncrypted
               /\ mode = "enforce" => chan = "verified"
               /\ recs = "usable" => over
               /\ Active("local_policy") => v.level >= MinTLS
    <1> DEFINE v0 == [level |-> ChanLevel(chan), refused |-> FALSE]
               over == VerifyDANE(recs, match, chan).override
               sts == Ask(v0, "mtasts", StsCheckConn(mode, chan))
               preload == Ask(sts, "sts_preload", PreloadCheckConn(sts.level))
               dane == Ask(preload, "dane", DaneCheckConn(recs, match, chan))
               signed == Ask(dane, "dnssec", DnssecCheckConn)
               all == Ask(signed, "local_policy", LocalCheckConn(signed.level))
               Answers == [level : Levels, refuses : BOOLEAN]
    <1> USE DEF TLSNone, TLSEncrypted, TLSAuthenticated, Levels
    <1>0. v0 \in Verdicts /\ v0.level = ChanLevel(chan)
        BY DEF Verdicts, ChanLevel
    <1> HIDE DEF v0
    <1>1. /\ sts \in Verdicts /\ sts.level = ChanLevel(chan)
          /\ ~sts.refused /\ mode = "enforce" => chan = "verified"
        <2>1. StsCheckConn(mode, chan) \in Answers
            BY DEF StsCheckConn
        <2>2. sts = v0 \/ sts.level = Raised(v0.level, TLSNone)
            BY DEF Ask, StsCheckConn
        <2>3. sts.level = v0.level
            BY <1>0, <2>2 DEF Raised, Verdicts
        <2>4. ~sts.refused /\ Active("mtasts") => ~StsCheckConn(mode, chan).refuses
            BY <1>0, <2>1, AskTurn
        <2> QED
            BY <1>0, <2>1, <2>3, <2>4, AskTurn DEF StsCheckConn
    <1> HIDE DEF sts
    <1>2. preload \in Verdicts /\ preload.level = ChanLevel(chan) /\ (~preload.refused => ~sts.refused)
        <2>1. PreloadCheckConn(sts.level) \in Answers
            BY <1>1 DEF PreloadCheckConn, Verdicts
        <2> QED
            BY <1>1, <2>1, AskTurn DEF PreloadCheckConn, Raised, Ask
    <1> HIDE DEF preload
    <1>3. /\ dane \in Verdicts /\ (~dane.refused => ~preload.refused)
          /\ ~dane.refused => dane.level = IF over THEN TLSAuthenticated ELSE ChanLevel(chan)
          /\ ~dane.refused /\ recs = "usable" => over
        <2>1. DaneCheckConn(recs, match, chan) \in Answers
            BY DEF DaneCheckConn, VerifyDANE
        <2>2. ~Active("dane") => ~over /\ recs # "usable"
            BY DEF VerifyDANE
        <2>3. /\ dane \in Verdicts /\ (~dane.refused => ~preload.refused)
              /\ ~Active("dane") => dane = preload
              /\ Active("dane") /\ ~dane.refused =>
                    /\ ~DaneCheckConn(recs, match, chan).refuses
                    /\ dane.level = Raised(preload.level, DaneCheckConn(recs, match, chan).level)
            BY <1>2, <2>1, AskTurn
        <2>4. /\ DaneCheckConn(recs, match, chan).level = IF over THEN TLSAuthenticated ELSE TLSNone
              /\ ~DaneCheckConn(recs, match, chan).refuses /\ recs = "usable" => over
            BY DEF DaneCheckConn, VerifyDANE
        <2>5. Raised(ChanLevel(chan), IF over THEN TLSAuthenticated ELSE TLSNone)
                = IF over THEN TLSAuthenticated ELSE ChanLevel(chan)
            BY DEF Raised, ChanLevel
        <2> HIDE DEF dane, over
        <2> QED
            BY <1>2, <2>2, <2>3, <2>4, <2>5
    <1> HIDE DEF dane
    <1>4. signed \in Verdicts /\ (~signed.refused => ~dane.refused /\ signed.level = dane.level)
        <2>1. DnssecCheckConn \in Answers
            BY DEF DnssecCheckConn
        <2>2. Raised(dane.level, DnssecCheckConn.level) = dane.level
            BY <1>3 DEF DnssecCheckConn, Raised, Verdicts
        <2> QED
            BY <1>3, <2>1, <2>2, AskTurn
    <1> HIDE DEF signed
    <1>5. /\ all \in Verdicts /\ (~all.refused => ~signed.refused /\ all.level = signed.level)
          /\ ~all.refused /\ Active("local_policy") => all.level >= MinTLS
        <2>1. LocalCheckConn(signed.level) \in Answers
            BY DEF LocalCheckConn
        <2>2. /\ all \in Verdicts /\ (~all.refused => ~signed.refused)
              /\ ~Active("local_policy") => all = signed
              /\ Active("local_policy") /\ ~all.refused =>
                    /\ ~LocalCheckConn(signed.level).refuses
                    /\ all.level = Raised(signed.level, LocalCheckConn(signed.level).level)
            BY <1>4, <2>1, AskTurn
        <2>3. Raised(signed.level, LocalCheckConn(signed.level).level) = signed.level
            BY <1>4 DEF LocalCheckConn, Raised, Verdicts
        <2>4. MinTLS \in 0 .. 2 /\ signed.level \in 0 .. 2
            BY <1>4, RemoteAssumption DEF Verdicts
        <2>5. ~LocalCheckConn(signed.level).refuses => signed.level >= MinTLS
            <3>1. LocalCheckConn(signed.level).refuses <=> signed.level < MinTLS
                BY Zenon DEF LocalCheckConn
            <3> QED
                BY <2>4, <3>1
        <2> HIDE DEF all
        <2> QED
            BY <2>2, <2>3, <2>4, <2>5
    <1>6. AskConn(ChanLevel(chan), mode, recs, match, chan) = all
        BY DEF AskConn, all, signed, dane, preload, sts, v0
    <1>7. over \in BOOLEAN /\ (over => chan # "plain")
        BY DEF VerifyDANE
    <1> HIDE DEF all, signed, dane, preload, sts, over
    <1>8. ~all.refused /\ all.level \in Levels
        BY <1>5, <1>6 DEF Verdicts
    <1>9. all.level = IF chan = "plain" THEN TLSNone
                      ELSE IF chan = "verified" \/ over THEN TLSAuthenticated ELSE TLSEncrypted
        BY <1>8, <1>5, <1>4, <1>3, <1>7 DEF ChanLevel
    <1> QED
        BY <1>1, <1>2, <1>3, <1>4, <1>5, <1>6, <1>7, <1>8, <1>9 DEF over

------------------------------------------------------------------------------
(* Steps of newConn *)

(* What a step that moves the call may use of the invariant. *)
LEMMA CallFacts ==
    ASSUME IInv, job.at \notin {"none", "rcpt"}
    PROVE  /\ job # NoJob /\ phase = "open" /\ job.dom = DomainOf[job.rcpt] /\ ~Live(job.dom)
           /\ job.rcpt \in Rcpts /\ job.dom \in Domains
           /\ stsRun \subseteq Domains /\ tlsaRun \subseteq Domains \X Nat
    <1>1. job # NoJob
        BY DEF NoJob
    <1>2. job.rcpt \in Rcpts /\ job.dom \in Domains
        <2>1. job \in GotJobs \/ job \in LookupJobs \/ job \in MxJobs \/ job \in TryJobs
            BY <1>1, JobShape DEF IInv, TypeOK, JobType, RcptJobs
        <2> QED
            BY <2>1 DEF GotJobs, LookupJobs, MxJobs, TryJobs
    <1> QED
        BY <1>1, <1>2 DEF IInv, PlaceOK, TypeOK

(* A step to another place of the same call, which is not RCPT. *)
LEMMA CallMoves ==
    ASSUME IInv, job.at \notin {"none", "rcpt"},
           UNCHANGED <<msgVars, conns, pool, scenario, limitVars>>,
           stsRun' \subseteq Domains, tlsaRun' \subseteq Domains \X Nat,
           job' \in JobType, job'.rcpt = job.rcpt, job'.dom = job.dom, job'.at # "rcpt", AttemptOK'
    PROVE  IInv'
    <1>1. PlaceOK'
        BY CallFacts DEF PlaceOK, Live, msgVars
    <1> QED
        BY <1>1, CallStep

(* The loop goes on to the next record, or ends. *)
LEMMA NextMXStep ==
    ASSUME IInv, job.at \in {"mx", "connect", "hello", "check"}, NEW c \in ConnType,
           c.cl # "open", c.rcpts = {}, c.free = meta.override, NextMX(c),
           UNCHANGED <<msgVars, conns, pool, scenario, limitVars>>,
           stsRun' = stsRun, tlsaRun' \subseteq Domains \X Nat
    PROVE  IInv'
    <1>1. /\ job.sts \in StsType /\ job.mx \in Nat /\ job.of \in Nat /\ job.dnssec \in BOOLEAN
        <2>1. job \in MxJobs \/ job \in TryJobs
            BY JobShape DEF IInv
        <2> QED
            BY <2>1 DEF MxJobs, TryJobs
    <1>2. CASE job.mx < job.of
        <2>1. /\ job' \in MxJobs /\ job'.at = "mx" /\ job'.rcpt = job.rcpt /\ job'.dom = job.dom
              /\ job'.conn = c
            BY <1>1, <1>2, CallFacts DEF NextMX, MxJobs
        <2>2. AttemptOK'
            BY <2>1 DEF AttemptOK, msgVars
        <2> QED
            BY <2>1, <2>2, CallMoves, CallFacts DEF JobType
    <1>3. CASE ~(job.mx < job.of) /\ c.cl = "nil"
        <2>1. job' = NoJob
            BY <1>3 DEF NextMX
        <2>2. PlaceOK' /\ AttemptOK'
            BY <2>1 DEF PlaceOK, AttemptOK, NoJob
        <2>3. job' \in JobType
            BY <2>1 DEF JobType
        <2> QED
            BY <2>2, <2>3, CallStep, CallFacts
    <1>4. CASE ~(job.mx < job.of) /\ c.cl # "nil"
        <2>1. /\ job' \in GotJobs /\ job'.at = "got" /\ job'.rcpt = job.rcpt /\ job'.dom = job.dom
              /\ job'.conn = c
            BY <1>4, CallFacts DEF NextMX, GotJobs
        <2>2. AttemptOK'
            BY <2>1 DEF AttemptOK, RcptsOf
        <2> QED
            BY <2>1, <2>2, CallMoves, CallFacts DEF JobType
    <1> QED
        BY <1>2, <1>3, <1>4

(* The MX lookup. *)
LEMMA LookupMXStep ==
    ASSUME IInv, LookupMX
    PROVE  IInv'
    <1> USE DEF lookupVars
    <1>1. job.at = "lookup" /\ UNCHANGED <<msgVars, conns, pool, scenario, limitVars>> /\ UNCHANGED <<stsRun, tlsaRun>>
        BY DEF LookupMX
    <1>2. CASE job' = NoJob
        BY <1>1, <1>2, CallEnds
    <1>3. CASE job' # NoJob
        <2> PICK a \in MXAnswers(job.dom) :
                job' = [at |-> "mx", rcpt |-> job.rcpt, dom |-> job.dom, sts |-> job.sts, mx |-> 1, of |-> a.n,
                        dnssec |-> a.dnssec, conn |-> [NoConn EXCEPT !.free = meta.override]]
            BY <1>3 DEF LookupMX, Fail
        <2>1. job.sts \in StsType
            BY <1>1, JobShape DEF IInv, LookupJobs
        <2>2. a.n \in Nat /\ a.dnssec \in BOOLEAN
            BY <1>1, CallFacts, RemoteAssumption DEF MXAnswers
        <2>3. [NoConn EXCEPT !.free = meta.override] \in ConnType
            BY NoConnType DEF IInv, TypeOK, ConnType
        <2>4. /\ [NoConn EXCEPT !.free = meta.override].cl = "nil"
              /\ [NoConn EXCEPT !.free = meta.override].rcpts = {}
              /\ [NoConn EXCEPT !.free = meta.override].free = meta.override
            BY DEF NoConn
        <2>5. /\ job' \in MxJobs /\ job'.at = "mx" /\ job'.rcpt = job.rcpt /\ job'.dom = job.dom
              /\ job'.conn.cl # "open" /\ job'.conn.rcpts = {} /\ job'.conn.free = meta.override
            BY <1>1, <2>1, <2>2, <2>3, <2>4, CallFacts DEF MxJobs
        <2>6. AttemptOK'
            BY <1>1, <2>5 DEF AttemptOK, msgVars
        <2> QED
            BY <1>1, <2>5, <2>6, CallMoves, CallFacts DEF JobType
    <1> QED
        BY <1>2, <1>3

(* A client that is dropped is forgotten, nothing else changes. *)
LEMMA DroppedType ==
    ASSUME NEW c \in ConnType
    PROVE  /\ Dropped(c) \in ConnType /\ Dropped(c).cl = "nil" /\ Dropped(c).rcpts = c.rcpts
           /\ Dropped(c).free = c.free /\ Dropped(c).mxLevel = c.mxLevel
    BY DEF Dropped, ConnType

(* The MX level of an attempt that failed is forgotten, nothing else. *)
LEMMA UnleveledType ==
    ASSUME NEW c \in ConnType
    PROVE  /\ Unleveled(c) \in ConnType /\ Unleveled(c).cl = c.cl /\ Unleveled(c).rcpts = c.rcpts
           /\ Unleveled(c).free = c.free
    BY DEF Unleveled, ConnType, MXNone, Levels

(* The policies on the MX. *)
LEMMA CheckMXStep ==
    ASSUME IInv, CheckMX
    PROVE  IInv'
    <1>1. job.at = "mx" /\ UNCHANGED <<msgVars, conns, pool, scenario, limitVars>> /\ UNCHANGED stsRun
        BY DEF CheckMX
    <1>2. job \in MxJobs
        BY <1>1, JobShape DEF IInv
    <1>3. /\ job.sts \in StsType /\ job.mx \in Nat /\ job.of \in Nat /\ job.dnssec \in BOOLEAN /\ job.conn \in ConnType
          /\ job.conn.cl # "open" /\ job.conn.rcpts = {} /\ job.conn.free = meta.override
        BY <1>1, <1>2 DEF IInv, AttemptOK, MxJobs
    <1> DEFINE mode == IF Active("mtasts") THEN job.sts.val ELSE "error"
    <1> PICK match \in BOOLEAN :
            LET verdict == AskMX(mode, match, job.dnssec)
            IN  /\ tlsaRun' = IF verdict.prepared THEN tlsaRun \cup {<<job.dom, job.mx>>} ELSE tlsaRun
                /\ IF verdict.refused THEN NextMX(job.conn)
                   ELSE job' = [at |-> "connect", rcpt |-> job.rcpt, dom |-> job.dom, sts |-> job.sts, tlsa |-> Unset,
                                mx |-> job.mx, of |-> job.of, dnssec |-> job.dnssec, cfg |-> "verify",
                                level |-> TLSAuthenticated, conn |-> [job.conn EXCEPT !.mxLevel = verdict.level]]
        BY DEF CheckMX
    <1> HIDE DEF mode
    <1> DEFINE verdict == AskMX(mode, match, job.dnssec)
    <1>4. /\ tlsaRun' = IF verdict.prepared THEN tlsaRun \cup {<<job.dom, job.mx>>} ELSE tlsaRun
          /\ verdict.refused => NextMX(job.conn)
          /\ ~verdict.refused =>
                job' = [at |-> "connect", rcpt |-> job.rcpt, dom |-> job.dom, sts |-> job.sts, tlsa |-> Unset,
                        mx |-> job.mx, of |-> job.of, dnssec |-> job.dnssec, cfg |-> "verify",
                        level |-> TLSAuthenticated, conn |-> [job.conn EXCEPT !.mxLevel = verdict.level]]
        OBVIOUS
    <1>5. verdict.level \in Levels /\ (~verdict.refused /\ Active("local_policy") => verdict.level >= MinMX)
        BY <1>3, AskMXVerdict
    <1> HIDE DEF verdict
    <1>6. tlsaRun' \subseteq Domains \X Nat
        BY <1>1, <1>3, <1>4, CallFacts
    <1>7. CASE verdict.refused
        BY <1>1, <1>3, <1>4, <1>6, <1>7, NextMXStep
    <1>8. CASE ~verdict.refused
        <2> DEFINE c == [job.conn EXCEPT !.mxLevel = verdict.level]
        <2>1. /\ c \in ConnType /\ c.cl # "open" /\ c.rcpts = {} /\ c.free = meta.override
              /\ c.mxLevel = verdict.level
            BY <1>3, <1>5 DEF ConnType
        <2>4. job' = [at |-> "connect", rcpt |-> job.rcpt, dom |-> job.dom, sts |-> job.sts, tlsa |-> Unset,
                      mx |-> job.mx, of |-> job.of, dnssec |-> job.dnssec, cfg |-> "verify",
                      level |-> TLSAuthenticated, conn |-> c]
            BY <1>4, <1>8
        <2> HIDE DEF c
        <2>2. /\ job' \in TryJobs /\ job'.at = "connect" /\ job'.rcpt = job.rcpt /\ job'.dom = job.dom
              /\ job'.conn = c /\ job'.cfg = "verify" /\ job'.level = TLSAuthenticated
            <3>1. job.rcpt \in Rcpts /\ job.dom \in Domains
                BY <1>1, CallFacts
            <3> QED
                BY <1>3, <2>1, <2>4, <3>1 DEF TryJobs, TlsaType, TLSAuthenticated, Levels
        <2>3. AttemptOK'
            BY <1>1, <1>5, <1>8, <2>1, <2>2 DEF AttemptOK, msgVars, Active, LevelOf
        <2> QED
            BY <1>1, <1>6, <2>2, <2>3, CallMoves, CallFacts DEF JobType
    <1> QED
        BY <1>7, <1>8

(* The attempts of connect, up to the channel. *)
LEMMA ConnectSteps ==
    ASSUME IInv, \/ Connect \/ ConnectFails \/ StartTLSFails \/ HandshakeFails \/ HandshakeDone \/ PlainText
    PROVE  IInv'
    <1>1. /\ job.at \in {"connect", "hello"} /\ UNCHANGED <<msgVars, conns, pool, scenario, limitVars>>
          /\ UNCHANGED <<stsRun, tlsaRun>>
        BY DEF Connect, ConnectFails, StartTLSFails, HandshakeFails, HandshakeDone, PlainText, lookupVars
    <1>2. job \in TryJobs
        BY <1>1, JobShape DEF IInv
    <1>3. /\ job.conn \in ConnType /\ job.conn.rcpts = {} /\ job.conn.free = meta.override
          /\ job.at = "connect" => job.conn.cl # "open"
          /\ job.at = "hello" => job.conn.cl = "open"
          /\ Active("local_policy") => job.conn.mxLevel >= MinMX
          /\ job.level = LevelOf(job.cfg)
        BY <1>1, <1>2 DEF IInv, AttemptOK, TryJobs
    <1> DEFINE Moved(at, c, cfg, level) ==
            /\ job' \in TryJobs /\ job'.at = at /\ job'.rcpt = job.rcpt /\ job'.dom = job.dom
            /\ job'.conn = c /\ job'.cfg = cfg /\ job'.level = level
    <1>4. ASSUME NEW at \in {"connect", "hello", "check"}, NEW c \in ConnType, NEW cfg, NEW level,
                 Moved(at, c, cfg, level), c.rcpts = {}, c.free = meta.override,
                 c.mxLevel = job.conn.mxLevel,
                 at = "connect" => c.cl # "open", at # "connect" => c.cl = "open",
                 at = "check" => level = ChanLevel(c.chan), at # "check" => level = LevelOf(cfg)
          PROVE  IInv'
        <2>1. AttemptOK'
            BY <1>1, <1>3, <1>4 DEF AttemptOK, msgVars, Active
        <2> QED
            BY <1>1, <1>4, <2>1, CallMoves, CallFacts DEF JobType
    <1>5. CASE Connect
        <2> DEFINE c == [job.conn EXCEPT !.cl = "open"]
        <2>1. /\ c \in ConnType /\ c.rcpts = {} /\ c.free = meta.override /\ c.mxLevel = job.conn.mxLevel
              /\ c.cl = "open"
            BY <1>3 DEF ConnType
        <2>2. Moved("hello", c, job.cfg, job.level)
            BY <1>2, <1>5, <2>1 DEF Connect, TryJobs
        <2> QED
            BY <1>3, <1>4, <2>1, <2>2
    <1>6. CASE ConnectFails
        <2> DEFINE c == Unleveled(job.conn)
        <2>1. c \in ConnType /\ c.cl # "open" /\ c.rcpts = {} /\ c.free = meta.override
            BY <1>3, <1>6, UnleveledType DEF ConnectFails
        <2>2. NextMX(c)
            BY <1>6 DEF ConnectFails
        <2> QED
            BY <1>1, <2>1, <2>2, NextMXStep, CallFacts
    <1>7. CASE StartTLSFails
        <2> DEFINE c == Unleveled(Dropped(job.conn))
        <2>1. c \in ConnType /\ c.cl # "open" /\ c.rcpts = {} /\ c.free = meta.override
            BY <1>3, DroppedType, UnleveledType
        <2>2. NextMX(c)
            BY <1>7 DEF StartTLSFails
        <2> QED
            BY <1>1, <2>1, <2>2, NextMXStep, CallFacts
    <1>8. CASE HandshakeFails
        <2> DEFINE c == Dropped(job.conn)
        <2>1. /\ c \in ConnType /\ c.rcpts = {} /\ c.free = meta.override /\ c.mxLevel = job.conn.mxLevel
              /\ c.cl = "nil"
            BY <1>3 DEF ConnType, Dropped
        <2>2. PICK verifyError \in BOOLEAN :
                LET retry == verifyError /\ job.level = TLSAuthenticated
                IN  job' = [job EXCEPT !.at = "connect", !.cfg = IF retry THEN "skip" ELSE "nil",
                                       !.level = IF retry THEN TLSEncrypted ELSE TLSNone,
                                       !.conn = c]
            BY <1>2, <1>8 DEF HandshakeFails, TryJobs
        <2>3. \/ Moved("connect", c, "skip", TLSEncrypted)
              \/ Moved("connect", c, "nil", TLSNone)
            <3>1. \/ job' = [job EXCEPT !.at = "connect", !.cfg = "skip", !.level = TLSEncrypted, !.conn = c]
                  \/ job' = [job EXCEPT !.at = "connect", !.cfg = "nil", !.level = TLSNone, !.conn = c]
                BY <2>2, Zenon
            <3> HIDE DEF c
            <3>2. TLSEncrypted \in Levels /\ TLSNone \in Levels
                BY DEF TLSEncrypted, TLSNone, Levels
            <3> QED
                BY <1>2, <2>1, <3>1, <3>2 DEF TryJobs
        <2> QED
            BY <1>4, <2>1, <2>3 DEF LevelOf
    <1>9. CASE HandshakeDone
        <2> DEFINE ch == IF job.cfg = "verify" THEN "verified" ELSE "unverified"
                   c == [job.conn EXCEPT !.chan = ch]
        <2>1. /\ c \in ConnType /\ c.rcpts = {} /\ c.free = meta.override /\ c.mxLevel = job.conn.mxLevel
              /\ c.cl = "open" /\ c.chan = ch
            BY <1>3, <1>9 DEF ConnType, HandshakeDone
        <2>2. Moved("check", c, job.cfg, job.level)
            <3>1. job' = [job EXCEPT !.at = "check", !.level = job.level, !.conn = c]
                BY <1>2, <1>9 DEF HandshakeDone, Connected, TryJobs
            <3> QED
                BY <1>2, <2>1, <3>1 DEF TryJobs
        <2>3. job.level = ChanLevel(ch)
            BY <1>2, <1>3, <1>9 DEF HandshakeDone, LevelOf, ChanLevel, TryJobs
        <2> QED
            BY <1>4, <2>1, <2>2, <2>3
    <1>10. CASE PlainText
        <2> DEFINE c == [job.conn EXCEPT !.chan = "plain"]
        <2>1. /\ c \in ConnType /\ c.rcpts = {} /\ c.free = meta.override /\ c.mxLevel = job.conn.mxLevel
              /\ c.cl = "open" /\ c.chan = "plain"
            BY <1>3, <1>10 DEF ConnType, PlainText
        <2>2. Moved("check", c, job.cfg, TLSNone)
            <3>1. job' = [job EXCEPT !.at = "check", !.level = TLSNone, !.conn = c]
                BY <1>2, <1>10 DEF PlainText, Connected, TryJobs
            <3>2. TLSNone \in Levels
                BY DEF TLSNone, Levels
            <3> HIDE DEF c
            <3> QED
                BY <1>2, <2>1, <3>1, <3>2 DEF TryJobs
        <2> QED
            BY <1>4, <2>1, <2>2 DEF ChanLevel
    <1> QED
        BY <1>5, <1>6, <1>7, <1>8, <1>9, <1>10

(* The policies on the connection: what passes is sound. *)
LEMMA CheckConnStep ==
    ASSUME IInv, CheckConn
    PROVE  IInv'
    <1>1. /\ job.at = "check" /\ UNCHANGED <<msgVars, conns, pool, scenario, limitVars>>
          /\ UNCHANGED <<stsRun, tlsaRun>>
        BY DEF CheckConn, lookupVars
    <1>2. job \in TryJobs
        BY <1>1, JobShape DEF IInv
    <1> DEFINE c == job.conn
               mode == IF Active("mtasts") THEN job.sts.val ELSE "error"
               recs == IF DaneAsked THEN job.tlsa.val ELSE "none"
               needs == (IF mode = "enforce" THEN {"sts"} ELSE {}) \cup (IF recs = "usable" THEN {"tlsa"} ELSE {})
    <1>3. /\ c \in ConnType /\ c.rcpts = {} /\ c.free = meta.override /\ c.cl = "open"
          /\ Active("local_policy") => c.mxLevel >= MinMX
          /\ job.level = ChanLevel(c.chan)
        BY <1>1, <1>2 DEF IInv, AttemptOK, TryJobs
    <1>4. PICK match \in BOOLEAN :
            IF AskConn(job.level, mode, recs, match, c.chan).refused
            THEN \E closed \in Closed(c) : NextMX(Unleveled(closed))
            ELSE job' = [at |-> "got", rcpt |-> job.rcpt, dom |-> job.dom,
                         conn |-> [c EXCEPT !.tlsLevel = AskConn(job.level, mode, recs, match, c.chan).level,
                                            !.needs = needs,
                                            !.dane = VerifyDANE(recs, match, c.chan).override]]
        BY DEF CheckConn
    <1>5. (~Active("mtasts") => mode = "error") /\ (~Active("dane") => recs = "none") /\ needs \subseteq {"sts", "tlsa"}
          /\ ("sts" \in needs => mode = "enforce") /\ ("tlsa" \in needs => recs = "usable")
        BY DEF DaneAsked
    <1> DEFINE v == AskConn(job.level, mode, recs, match, c.chan)
               over == VerifyDANE(recs, match, c.chan).override
    <1> HIDE DEF c, mode, recs, needs
    <1>6. CASE v.refused
        <2>1. PICK closed \in Closed(c) : NextMX(Unleveled(closed))
            BY <1>4, <1>6
        <2>2. closed \in ConnType /\ closed.cl # "open" /\ closed.rcpts = {} /\ closed.free = meta.override
            BY <1>3 DEF Closed, ConnType
        <2>3. /\ Unleveled(closed) \in ConnType /\ Unleveled(closed).cl # "open"
              /\ Unleveled(closed).rcpts = {} /\ Unleveled(closed).free = meta.override
            BY <2>2, UnleveledType
        <2> QED
            BY <1>1, <2>1, <2>3, NextMXStep, CallFacts
    <1>7. CASE ~v.refused
        <2>1. /\ v.level \in Levels /\ over \in BOOLEAN
              /\ v.level = IF c.chan = "plain" THEN TLSNone
                           ELSE IF c.chan = "verified" \/ over THEN TLSAuthenticated ELSE TLSEncrypted
              /\ mode = "enforce" => c.chan = "verified"
              /\ recs = "usable" => over
              /\ Active("local_policy") => v.level >= MinTLS
            <3>1. c.chan \in {"plain", "unverified", "verified"}
                BY <1>3 DEF ConnType
            <3> QED
                BY <1>3, <1>5, <1>7, <3>1, AskConnVerdict
        <2>2. job' = [at |-> "got", rcpt |-> job.rcpt, dom |-> job.dom,
                      conn |-> [c EXCEPT !.tlsLevel = v.level, !.needs = needs, !.dane = over]]
            BY <1>4, <1>7
        <2> HIDE DEF v, over
        <2> DEFINE k == [c EXCEPT !.tlsLevel = v.level, !.needs = needs, !.dane = over]
        <2>3. /\ k \in ConnType /\ k.tlsLevel = v.level /\ k.needs = needs /\ k.dane = over /\ k.rcpts = {}
              /\ k.free = meta.override /\ k.chan = c.chan /\ k.mxLevel = c.mxLevel
            BY <1>3, <1>5, <2>1 DEF ConnType
        <2> HIDE DEF k
        <2>4. Sound(k)
            <3>1. k.tlsLevel = Level(k)
                BY <2>1, <2>3 DEF Level
            <3>2. ("sts" \in k.needs => k.chan = "verified") /\ ("tlsa" \in k.needs => k.dane)
                BY <1>5, <2>1, <2>3
            <3>3. ~k.free /\ "local_policy" \in Configured => k.tlsLevel >= MinTLS /\ k.mxLevel >= MinMX
                BY <1>3, <2>1, <2>3 DEF Active
            <3> QED
                BY <3>1, <3>2, <3>3 DEF Sound
        <2>5. /\ job' \in GotJobs /\ job'.at = "got" /\ job'.rcpt = job.rcpt /\ job'.dom = job.dom
              /\ job'.conn = k
            <3>1. job' = [at |-> "got", rcpt |-> job.rcpt, dom |-> job.dom, conn |-> k]
                BY <2>2 DEF k
            <3> QED
                BY <1>1, <2>3, <3>1, CallFacts DEF GotJobs
        <2>6. AttemptOK'
            BY <2>3, <2>4, <2>5 DEF AttemptOK, RcptsOf, Sound, Level
        <2> QED
            BY <1>1, <2>5, <2>6, CallMoves, CallFacts DEF JobType
    <1> QED
        BY <1>6, <1>7

(* A connection or a recipient is refused. *)
LEMMA RefusalSteps ==
    ASSUME IInv, ConnRefused \/ RcptFails
    PROVE  IInv'
    BY CallEnds DEF ConnRefused, RcptFails, Fail, lookupVars

------------------------------------------------------------------------------
(* AddRcpt and the steps that give the message a connection or a recipient *)

(* A recipient is refused before any connection is looked for. *)
LEMMA AddRcptRefusedStep ==
    ASSUME IInv, NEW r \in Rcpts, AddRcptRefused(r)
    PROVE  IInv'
    <1> USE DEF AddRcptRefused, lookupVars, limitVars
    <1>1. TypeOK'
        BY DEF IInv, TypeOK
    <1>2. ConnOK' /\ MetaOK' /\ PlaceOK' /\ AttemptOK'
        BY DEF IInv, ConnOK, Sound, Level, RcptsOf, Insufficient, MetaOK, PlaceOK, AttemptOK, Active, Live
    <1>3. RestOK' /\ KnownOK' /\ ToldOK'
        BY DEF IInv, RestOK, KnownOK, ToldOK, Told, Live
    <1>4. PlacesBalanced' /\ EveryRcptAnswered'
        BY DEF IInv, PlacesBalanced, EveryRcptAnswered, Live
    <1> QED
        BY <1>1, <1>2, <1>3, <1>4 DEF IInv

(* AddRcpt: the message's connection, the pool's, or a new one. *)
LEMMA AddRcptStep1 ==
    ASSUME IInv, NEW r \in Rcpts, AddRcpt(r)
    PROVE  IInv'
    <1> DEFINE d == DomainOf[r]
    <1>0. d \in Domains
        BY RemoteAssumption
    <1>1. /\ UNCHANGED <<phase, meta, accepted, status, left, sent, conns, tlsaRun, scenario, limitVars>>
          /\ phase = "open" /\ job = NoJob /\ tried' = tried \cup {r}
        BY DEF AddRcpt
    <1>2. \/ /\ Live(d) /\ job' = [at |-> "rcpt", rcpt |-> r, dom |-> d] /\ pool' = pool /\ stsRun' = stsRun
          \/ /\ ~Live(d) /\ job' = [at |-> "got", rcpt |-> r, dom |-> d, conn |-> pool[d]]
             /\ stsRun' = stsRun /\ pool' = [pool EXCEPT ![d] = NoConn]
          \/ /\ ~Live(d) /\ job' = [at |-> "lookup", rcpt |-> r, dom |-> d, sts |-> Unset]
             /\ stsRun' \subseteq stsRun \cup {d} /\ pool' = [pool EXCEPT ![d] = NoConn]
        BY DEF AddRcpt
    <1> HIDE DEF d
    <1>3. \A e \in Domains : pool'[e] = pool[e] \/ pool'[e] = NoConn
        BY <1>0, <1>2 DEF IInv, TypeOK
    <1>4. TypeOK'
        <2>1. pool' \in [Domains -> ConnType] /\ stsRun' \subseteq Domains
            BY <1>0, <1>2, NoConnType DEF IInv, TypeOK
        <2>2. job' \in JobType
            <3>1. pool[d] \in ConnType
                BY <1>0 DEF IInv, TypeOK
            <3>2. Unset \in StsType
                BY DEF StsType
            <3> QED
                BY <1>0, <1>2, <3>1, <3>2 DEF JobType, RcptJobs, GotJobs, LookupJobs
        <2> QED
            BY <1>1, <2>1, <2>2 DEF IInv, TypeOK, limitVars
    <1>5. ConnOK'
        <2>1. NoConn.cl = "nil" /\ NoConn.rcpts = {}
            BY DEF NoConn
        <2> QED
            BY <1>1, <1>3, <2>1 DEF IInv, ConnOK, Sound, Level, RcptsOf, Insufficient, Live
    <1>6. MetaOK' /\ RestOK' /\ KnownOK' /\ ToldOK'
        BY <1>1 DEF IInv, MetaOK, RestOK, KnownOK, ToldOK, Told, Live
    <1>7. PlaceOK'
        BY <1>1, <1>2 DEF PlaceOK, Live, d
    <1>8. AttemptOK'
        <2>1. RcptsOf(pool[d], d) /\ (pool[d].cl = "open" => Sound(pool[d]))
            BY <1>0 DEF IInv, ConnOK
        <2> QED
            BY <1>2, <2>1 DEF AttemptOK, Sound, Level, RcptsOf
    <1>9. PlacesBalanced' /\ EveryRcptAnswered'
        BY <1>1 DEF IInv, PlacesBalanced, EveryRcptAnswered, Live, limitVars
    <1> QED
        BY <1>4, <1>5, <1>6, <1>7, <1>8, <1>9 DEF IInv

(* MAIL is refused: the place stays taken, and is counted as lost. *)
LEMMA MailFailsStep ==
    ASSUME IInv, MailFails
    PROVE  IInv'
    <1>1. /\ job.at = "got" /\ job' = NoJob
          /\ UNCHANGED <<phase, tried, accepted, status, left, sent, conns, pool, lookupVars, msgs>>
          /\ dest' = [dest EXCEPT ![job.dom] = @ + 1] /\ lost' = [lost EXCEPT ![job.dom] = @ + 1]
        BY DEF MailFails, MayGoOn, Fail
    <1>2. /\ meta' \in [requireTLS : BOOLEAN, asked : BOOLEAN, override : BOOLEAN]
          /\ meta'.asked = meta.asked /\ meta'.override = meta.override
          /\ ~Relaxed => meta' = meta
        BY DEF MailFails, Relax, IInv, TypeOK
    <1>3. job.dom \in Domains
        BY <1>1, CallFacts
    <1>4. TypeOK'
        BY <1>1, <1>2, <1>3 DEF IInv, TypeOK, JobType, lookupVars
    <1>5. ConnOK' /\ MetaOK'
        BY <1>1, <1>2 DEF IInv, ConnOK, MetaOK, Sound, Level, RcptsOf, Insufficient, Live
    <1>6. PlaceOK' /\ AttemptOK'
        BY <1>1 DEF PlaceOK, AttemptOK, NoJob
    <1>7. RestOK' /\ KnownOK' /\ ToldOK' /\ EveryRcptAnswered'
        BY <1>1 DEF IInv, RestOK, KnownOK, ToldOK, Told, Live, EveryRcptAnswered
    <1>8. PlacesBalanced'
        BY <1>1, <1>3 DEF IInv, TypeOK, PlacesBalanced, Live
    <1> QED
        BY <1>4, <1>5, <1>6, <1>7, <1>8 DEF IInv

(* MAIL is accepted: the message has a connection that was checked. *)
LEMMA MailStep ==
    ASSUME IInv, Mail
    PROVE  IInv'
    <1> DEFINE d == job.dom
               c == [job.conn EXCEPT !.inTx = TRUE]
    <1>1. /\ job.at = "got" /\ job' = [at |-> "rcpt", rcpt |-> job.rcpt, dom |-> d]
          /\ UNCHANGED <<phase, tried, accepted, status, left, sent, pool, lookupVars, msgs, lost>>
          /\ dest' = [dest EXCEPT ![d] = @ + 1] /\ conns' = [conns EXCEPT ![d] = c]
          /\ job.conn.cl = "open" /\ ~(meta.requireTLS /\ Insufficient(job.conn))
        BY DEF Mail, MayGoOn
    <1>2. /\ meta' \in [requireTLS : BOOLEAN, asked : BOOLEAN, override : BOOLEAN]
          /\ meta'.asked = meta.asked /\ meta'.override = meta.override
          /\ ~Relaxed => meta' = meta
        BY DEF Mail, Relax, IInv, TypeOK
    <1>3. d \in Domains /\ ~Live(d) /\ phase = "open" /\ job.rcpt \in Rcpts /\ d = DomainOf[job.rcpt]
        BY <1>1, CallFacts
    <1>4. /\ job.conn \in ConnType /\ Sound(job.conn) /\ RcptsOf(job.conn, d)
        BY <1>1, JobShape DEF IInv, AttemptOK, GotJobs
    <1>5. c \in ConnType /\ c.cl = "open" /\ Sound(c) /\ RcptsOf(c, d)
          /\ (meta.requireTLS => ~Insufficient(c))
        BY <1>1, <1>4 DEF ConnType, Sound, Level, RcptsOf, Insufficient
    <1> HIDE DEF c
    <1>6. PICK k, e : k = c /\ e = d
        OBVIOUS
    <1>7. /\ conns'[e] = k /\ \A f \in Domains : f # e => conns'[f] = conns[f]
          /\ Live(e)' /\ \A f \in Domains : f # e => (Live(f)' <=> Live(f))
        BY <1>1, <1>3, <1>5, <1>6 DEF IInv, TypeOK, Live
    <1>8. TypeOK'
        <2>1. conns' \in [Domains -> ConnType] /\ dest' \in [Domains -> Nat]
            BY <1>1, <1>3, <1>5 DEF IInv, TypeOK
        <2>2. job' \in JobType
            BY <1>1, <1>3 DEF JobType, RcptJobs
        <2> QED
            BY <1>1, <1>2, <2>1, <2>2 DEF IInv, TypeOK, lookupVars
    <1>9. MetaOK'
        BY <1>2 DEF IInv, MetaOK
    <1>10. ConnOK'
        <2> SUFFICES ASSUME NEW f \in Domains
                     PROVE  /\ conns'[f].cl # "dead" /\ pool'[f].cl # "dead"
                            /\ Live(f)' => Sound(conns[f])' /\ (meta'.asked /\ ~Relaxed => ~Insufficient(conns[f])')
                            /\ pool'[f].cl = "open" => Sound(pool[f])'
                            /\ RcptsOf(conns[f], f)' /\ RcptsOf(pool[f], f)'
            BY DEF ConnOK
        <2>1. CASE f = e
            <3>1. meta'.asked /\ ~Relaxed => ~Insufficient(k)
                BY <1>2, <1>5, <1>6 DEF IInv, MetaOK
            <3>2. pool'[f] = pool[f]
                BY <1>1
            <3> QED
                BY <1>5, <1>6, <1>7, <2>1, <3>1, <3>2 DEF IInv, ConnOK, Sound, Level, RcptsOf, Insufficient
        <2>2. CASE f # e
            BY <1>1, <1>2, <1>7, <2>2 DEF IInv, ConnOK, Sound, Level, RcptsOf, Insufficient
        <2> QED
            BY <2>1, <2>2
    <1>11. PlaceOK' /\ AttemptOK'
        BY <1>1, <1>3, <1>6, <1>7 DEF PlaceOK, AttemptOK
    <1>12. RestOK' /\ ToldOK' /\ EveryRcptAnswered'
        BY <1>1, <1>3 DEF IInv, RestOK, ToldOK, EveryRcptAnswered
    <1>13. KnownOK'
        BY <1>1, <1>3, <1>6, <1>7, RemoteAssumption DEF IInv, KnownOK, TypeOK, Addrs
    <1>14. PlacesBalanced'
        BY <1>1, <1>3, <1>6, <1>7 DEF IInv, TypeOK, PlacesBalanced
    <1> QED
        BY <1>8, <1>9, <1>10, <1>11, <1>12, <1>13, <1>14 DEF IInv

(* RCPT is accepted: the connection and the message remember the address.  *)
LEMMA RcptStep ==
    ASSUME IInv, Rcpt
    PROVE  IInv'
    <1> PICK form \in {"utf8"} \cup (IF job.rcpt \in NonAscii THEN {"ascii"} ELSE {}) :
            /\ conns' = [conns EXCEPT ![job.dom].rcpts = @ \cup {<<job.rcpt, form>>}]
            /\ accepted' = accepted \cup {<<job.rcpt, form>>}
        BY DEF Rcpt
    <1> PICK e, r : e = job.dom /\ r = job.rcpt
        OBVIOUS
    <1>1. /\ job.at = "rcpt" /\ job' = NoJob
          /\ UNCHANGED <<phase, meta, tried, status, left, sent, pool, lookupVars, limitVars>>
        BY DEF Rcpt
    <1>2. e \in Domains /\ r \in Rcpts /\ phase = "open" /\ e = DomainOf[r] /\ Live(e)
        <2>1. job \in RcptJobs /\ job # NoJob
            BY <1>1, JobShape DEF IInv, NoJob
        <2> QED
            BY <1>1, <2>1 DEF IInv, PlaceOK, RcptJobs
    <1> DEFINE a == <<r, form>>
    <1>3. a \in Addrs
        BY <1>2 DEF Addrs
    <1>4. /\ conns'[e] = [conns[e] EXCEPT !.rcpts = @ \cup {a}]
          /\ \A f \in Domains : f # e => conns'[f] = conns[f]
          /\ conns[e] \in ConnType
        BY <1>2 DEF IInv, TypeOK
    <1>5. /\ conns'[e] \in ConnType /\ conns'[e].rcpts = conns[e].rcpts \cup {a}
          /\ conns'[e].cl = conns[e].cl /\ conns'[e].tlsLevel = conns[e].tlsLevel /\ conns'[e].mxLevel = conns[e].mxLevel
          /\ conns'[e].chan = conns[e].chan /\ conns'[e].dane = conns[e].dane /\ conns'[e].needs = conns[e].needs
          /\ conns'[e].free = conns[e].free
        BY <1>3, <1>4 DEF ConnType
    <1>6. \A f \in Domains : Live(f)' <=> Live(f)
        BY <1>4, <1>5 DEF Live
    <1>7. TypeOK'
        <2>1. conns' \in [Domains -> ConnType]
            BY <1>4, <1>5 DEF IInv, TypeOK
        <2> QED
            BY <1>1, <1>3, <2>1 DEF IInv, TypeOK, JobType, lookupVars, limitVars
    <1>8. ConnOK'
        <2> SUFFICES ASSUME NEW f \in Domains
                     PROVE  /\ conns'[f].cl # "dead" /\ pool'[f].cl # "dead"
                            /\ Live(f)' => Sound(conns[f])' /\ (meta'.asked /\ ~Relaxed => ~Insufficient(conns[f])')
                            /\ pool'[f].cl = "open" => Sound(pool[f])'
                            /\ RcptsOf(conns[f], f)' /\ RcptsOf(pool[f], f)'
            BY DEF ConnOK
        <2>1. CASE f = e
            <3>1. RcptsOf(conns[f], f)'
                BY <1>2, <1>5, <2>1 DEF IInv, ConnOK, RcptsOf
            <3>2. Sound(conns[f])' <=> Sound(conns[f])
                BY <1>5, <2>1 DEF Sound, Level
            <3>3. Insufficient(conns[f])' <=> Insufficient(conns[f])
                BY <1>5, <2>1 DEF Insufficient
            <3> QED
                BY <1>1, <1>5, <1>6, <2>1, <3>1, <3>2, <3>3 DEF IInv, ConnOK, Sound, Level, RcptsOf
        <2>2. CASE f # e
            BY <1>1, <1>4, <1>6, <2>2 DEF IInv, ConnOK, Sound, Level, RcptsOf, Insufficient
        <2> QED
            BY <2>1, <2>2
    <1>9. MetaOK' /\ PlaceOK' /\ AttemptOK'
        BY <1>1 DEF IInv, MetaOK, PlaceOK, AttemptOK, NoJob
    <1>10. RestOK' /\ ToldOK' /\ EveryRcptAnswered'
        BY <1>1, <1>2 DEF IInv, RestOK, ToldOK, EveryRcptAnswered
    <1>11. KnownOK'
        <2> SUFFICES ASSUME NEW b \in accepted'
                     PROVE  Live(DomainOf[b[1]])' /\ b \in conns'[DomainOf[b[1]]].rcpts
            BY DEF KnownOK
        <2>1. CASE b = a
            BY <1>2, <1>5, <1>6, <2>1
        <2>2. CASE b # a
            <3>1. b \in accepted /\ b[1] \in Rcpts /\ DomainOf[b[1]] \in Domains
                BY <2>2, RemoteAssumption DEF IInv, TypeOK, Addrs
            <3> QED
                BY <1>4, <1>5, <1>6, <3>1 DEF IInv, KnownOK
        <2> QED
            BY <2>1, <2>2
    <1>12. PlacesBalanced'
        BY <1>1, <1>6 DEF IInv, PlacesBalanced, limitVars
    <1> QED
        BY <1>7, <1>8, <1>9, <1>10, <1>11, <1>12 DEF IInv

------------------------------------------------------------------------------
(* The delivery as a whole *)

(* Start, and a Start that fails. *)
LEMMA StartSteps ==
    ASSUME IInv, StartFails \/ \E f \in Flags : Start(f)
    PROVE  IInv'
    <1> USE DEF lookupVars, limitVars
    <1>1. CASE StartFails
        <2> USE <1>1 DEF StartFails
        <2>1. TypeOK'
            BY DEF IInv, TypeOK
        <2>2. ConnOK' /\ MetaOK' /\ PlaceOK' /\ AttemptOK'
            BY DEF IInv, ConnOK, Sound, Level, RcptsOf, Insufficient, MetaOK, PlaceOK, AttemptOK, Active, Live
        <2>3. RestOK' /\ KnownOK' /\ ToldOK'
            BY DEF IInv, RestOK, KnownOK, ToldOK, Told, Live
        <2>4. PlacesBalanced' /\ EveryRcptAnswered'
            BY DEF IInv, PlacesBalanced, EveryRcptAnswered, Live
        <2> QED
            BY <2>1, <2>2, <2>3, <2>4 DEF IInv
    <1>2. ASSUME NEW f \in Flags, Start(f) PROVE IInv'
        <2>1. /\ UNCHANGED <<tried, accepted, status, left, conns, pool, job, scenario, dest, lost>>
              /\ phase = "none" /\ phase' = "open" /\ msgs' = msgs + 1 /\ sent' = sent + 1
              /\ meta' = [requireTLS |-> f.requireTLS, asked |-> f.requireTLS, override |-> f.override]
              /\ stsRun' = {} /\ tlsaRun' = {}
            BY <1>2 DEF Start
        <2>2. f \in [requireTLS : BOOLEAN, override : BOOLEAN]
            BY RemoteAssumption
        <2>3. job = NoJob /\ accepted = {} /\ \A d \in Domains : ~Live(d) /\ ~Live(d)'
            BY <2>1 DEF IInv, PlaceOK, RestOK, Live
        <2>4. TypeOK'
            BY <2>1, <2>2 DEF IInv, TypeOK
        <2>5. ConnOK'
            BY <2>1, <2>3 DEF IInv, ConnOK, Sound, Level, RcptsOf, Insufficient
        <2>6. MetaOK' /\ PlaceOK' /\ AttemptOK' /\ RestOK' /\ KnownOK' /\ ToldOK' /\ EveryRcptAnswered'
            BY <2>1, <2>3 DEF IInv, MetaOK, PlaceOK, AttemptOK, RestOK, KnownOK, ToldOK, EveryRcptAnswered, NoJob
        <2>7. PlacesBalanced'
            BY <2>1, <2>3 DEF IInv, TypeOK, PlacesBalanced
        <2> QED
            BY <2>4, <2>5, <2>6, <2>7 DEF IInv
    <1> QED
        BY <1>1, <1>2

(* Body begins, is refused for a quarantined message, or returns. *)
LEMMA BodySteps ==
    ASSUME IInv, Body \/ BodyQuarantined \/ BodyReturns
    PROVE  IInv'
    <1>1. /\ UNCHANGED <<meta, tried, accepted, sent, conns, pool, job, lookupVars, limitVars>>
          /\ phase # "none" /\ phase' # "none"
        BY DEF Body, BodyQuarantined, BodyReturns
    <1>0. phase # "open" => job = NoJob
        BY DEF IInv, PlaceOK
    <1>2. job = NoJob /\ phase' \in {"bodying", "bodied"} /\ left' \subseteq Domains
        BY <1>0 DEF Body, BodyQuarantined, BodyReturns, IInv, TypeOK, RestOK
    <1>3. status' \in [Addrs -> Sent \cup {"none", "quarantined"}]
        <2>1. CASE BodyQuarantined
            BY <2>1 DEF BodyQuarantined
        <2>2. CASE Body \/ BodyReturns
            BY <2>2 DEF Body, BodyReturns, IInv, TypeOK
        <2> QED
            BY <2>1, <2>2
    <1>4. TypeOK'
        BY <1>1, <1>2, <1>3 DEF IInv, TypeOK, lookupVars, limitVars
    <1>5. ConnOK' /\ MetaOK' /\ PlaceOK' /\ AttemptOK'
        BY <1>1, <1>2 DEF IInv, ConnOK, Sound, Level, RcptsOf, Insufficient, MetaOK, PlaceOK, AttemptOK, NoJob, Live
    <1>6. KnownOK' /\ PlacesBalanced'
        BY <1>1 DEF IInv, KnownOK, PlacesBalanced, Live, limitVars
    <1>7. RestOK'
        BY <1>1 DEF Body, BodyQuarantined, BodyReturns, IInv, RestOK
    <1>8. ToldOK' /\ EveryRcptAnswered'
        <2>1. \A a \in accepted : DomainOf[a[1]] \in Domains /\ a[1] \in Rcpts /\ a[2] \in Forms
                                   /\ a = <<a[1], a[2]>> /\ Live(DomainOf[a[1]])
            <3>1. \A a \in accepted : a \in Rcpts \X {"utf8", "ascii"}
                BY DEF IInv, TypeOK, Addrs
            <3>2. \A a \in accepted : Live(DomainOf[a[1]])
                BY DEF IInv, KnownOK
            <3> QED
                BY <3>1, <3>2, RemoteAssumption DEF Forms
        <2>2. CASE Body
            BY <1>1, <2>1, <2>2 DEF Body, ToldOK, EveryRcptAnswered
        <2>3. CASE BodyQuarantined
            <3>1. phase' = "bodied"
                BY <2>3 DEF BodyQuarantined
            <3>2. ASSUME NEW a \in accepted
                  PROVE  status'[<<a[1], "utf8">>] = "quarantined"
                <4>1. <<a[1], "utf8">> \in Addrs /\ <<a[1], a[2]>> \in accepted /\ a[2] \in {"utf8", "ascii"}
                    BY <2>1 DEF Addrs, Forms
                <4> QED
                    BY <2>3, <4>1 DEF BodyQuarantined
            <3> QED
                BY <1>1, <3>1, <3>2 DEF ToldOK, EveryRcptAnswered
        <2>4. CASE BodyReturns
            BY <1>1, <2>4 DEF BodyReturns, IInv, ToldOK, Told, EveryRcptAnswered, Sent
        <2> QED
            BY <2>2, <2>3, <2>4
    <1> QED
        BY <1>4, <1>5, <1>6, <1>7, <1>8 DEF IInv

(* A goroutine of BodyNonAtomic reports to the recipients of its server. *)
LEMMA DataStep ==
    ASSUME IInv, NEW e \in Domains, NEW ok \in Sent, Data(e, ok)
    PROVE  IInv'
    <1>1. /\ UNCHANGED <<phase, meta, tried, accepted, sent, pool, job, lookupVars, limitVars>>
          /\ phase = "bodying" /\ left' = left \ {e}
          /\ status' = [a \in Addrs |-> IF a \in conns[e].rcpts THEN ok ELSE status[a]]
          /\ conns' = [conns EXCEPT ![e].errored = ok = "failed", ![e].inTx = ok # "ok"]
        BY DEF Data, Report
    <1>2. conns[e] \in ConnType /\ job = NoJob
        BY <1>1 DEF IInv, TypeOK, PlaceOK
    <1>3. /\ \A f \in Domains : f # e => conns'[f] = conns[f]
          /\ conns'[e] = [[conns[e] EXCEPT !.errored = ok = "failed"] EXCEPT !.inTx = ok # "ok"]
        BY <1>1 DEF IInv, TypeOK
    <1>4. /\ conns'[e] \in ConnType /\ conns'[e].rcpts = conns[e].rcpts
          /\ conns'[e].cl = conns[e].cl /\ conns'[e].tlsLevel = conns[e].tlsLevel /\ conns'[e].mxLevel = conns[e].mxLevel
          /\ conns'[e].chan = conns[e].chan /\ conns'[e].dane = conns[e].dane /\ conns'[e].needs = conns[e].needs
          /\ conns'[e].free = conns[e].free
          /\ conns'[e].errored <=> ok = "failed"
        BY <1>2, <1>3 DEF ConnType
    <1>5. \A f \in Domains : Live(f)' <=> Live(f)
        BY <1>3, <1>4 DEF Live
    <1>6. TypeOK'
        <2>1. conns' \in [Domains -> ConnType]
            BY <1>1, <1>3, <1>4 DEF IInv, TypeOK
        <2>2. status' \in [Addrs -> Sent \cup {"none", "quarantined"}]
            BY <1>1 DEF IInv, TypeOK
        <2> QED
            BY <1>1, <2>1, <2>2 DEF IInv, TypeOK, lookupVars, limitVars
    <1>7. ConnOK'
        <2> SUFFICES ASSUME NEW f \in Domains
                     PROVE  /\ conns'[f].cl # "dead" /\ pool'[f].cl # "dead"
                            /\ Live(f)' => Sound(conns[f])' /\ (meta'.asked /\ ~Relaxed => ~Insufficient(conns[f])')
                            /\ pool'[f].cl = "open" => Sound(pool[f])'
                            /\ RcptsOf(conns[f], f)' /\ RcptsOf(pool[f], f)'
            BY DEF ConnOK
        <2>0. pool' = pool /\ meta' = meta
            BY <1>1
        <2>1. CASE f = e
            <3>1. RcptsOf(conns[f], f)' /\ (Sound(conns[f])' <=> Sound(conns[f]))
                BY <1>4, <2>1 DEF IInv, ConnOK, RcptsOf, Sound, Level
            <3>2. Insufficient(conns[f])' <=> Insufficient(conns[f])
                BY <1>4, <2>1 DEF Insufficient
            <3> QED
                BY <1>4, <1>5, <2>0, <2>1, <3>1, <3>2 DEF IInv, ConnOK, Sound, Level, RcptsOf
        <2>2. CASE f # e
            BY <1>3, <1>5, <2>0, <2>2 DEF IInv, ConnOK, Sound, Level, RcptsOf, Insufficient
        <2> QED
            BY <2>1, <2>2
    <1>8. MetaOK' /\ PlaceOK' /\ AttemptOK' /\ RestOK' /\ EveryRcptAnswered'
        BY <1>1, <1>2 DEF IInv, MetaOK, PlaceOK, AttemptOK, NoJob, RestOK, EveryRcptAnswered
    <1>9. \A a \in accepted : DomainOf[a[1]] \in Domains /\ a \in Addrs
        BY RemoteAssumption DEF IInv, TypeOK, Addrs
    <1>10. KnownOK'
        BY <1>1, <1>3, <1>4, <1>5, <1>9 DEF IInv, KnownOK
    <1>11. ToldOK'
        <2> SUFFICES ASSUME NEW a \in accepted, DomainOf[a[1]] \notin left \ {e}
                     PROVE  status'[a] \in Sent /\ (status'[a] = "failed" <=> conns'[DomainOf[a[1]]].errored)
            BY <1>1 DEF ToldOK, Told
        <2>1. CASE DomainOf[a[1]] = e
            <3>1. a \in conns[e].rcpts
                BY <2>1 DEF IInv, KnownOK
            <3>2. status'[a] = ok
                BY <1>1, <1>9, <3>1
            <3> QED
                BY <1>4, <2>1, <3>2
        <2>2. CASE DomainOf[a[1]] # e
            <3>1. a \notin conns[e].rcpts
                BY <2>2 DEF IInv, ConnOK, RcptsOf
            <3>2. status'[a] = status[a] /\ conns'[DomainOf[a[1]]] = conns[DomainOf[a[1]]]
                BY <1>1, <1>3, <1>9, <2>2, <3>1
            <3> QED
                BY <1>1, <2>2, <3>2 DEF IInv, ToldOK, Told
        <2> QED
            BY <2>1, <2>2
    <1>12. PlacesBalanced'
        BY <1>1, <1>5 DEF IInv, PlacesBalanced, limitVars
    <1> QED
        BY <1>6, <1>7, <1>8, <1>10, <1>11, <1>12 DEF IInv

(* A connection that goes to the pool. *)
Reused(c) == [c EXCEPT !.transactions = @ + 1, !.inTx = FALSE]

(* It keeps everything it was checked for. *)
LEMMA ReusedType ==
    ASSUME NEW c \in ConnType
    PROVE  /\ Reused(c) \in ConnType /\ Reused(c).rcpts = c.rcpts
           /\ Reused(c).cl = c.cl /\ Reused(c).tlsLevel = c.tlsLevel /\ Reused(c).mxLevel = c.mxLevel
           /\ Reused(c).chan = c.chan /\ Reused(c).dane = c.dane /\ Reused(c).needs = c.needs
           /\ Reused(c).free = c.free
    <1> DEFINE n == c.transactions + 1
    <1>1. n \in Nat
        BY DEF ConnType
    <1>2. Reused(c) = [c EXCEPT !.transactions = n, !.inTx = FALSE]
        BY DEF Reused
    <1> HIDE DEF n
    <1> QED
        BY <1>1, <1>2 DEF ConnType

(* Commit or Abort: every place is given back, whatever becomes of the      *)
(* connections.                                                             *)
LEMMA CloseStep ==
    ASSUME IInv, Close
    PROVE  IInv'
    <1>1. /\ dest' = [d \in Domains |-> IF Live(d) THEN dest[d] - 1 ELSE dest[d]]
          /\ conns' = [d \in Domains |-> NoConn]
          /\ msgs' = msgs - 1 /\ phase \in {"open", "bodied"} /\ job = NoJob
          /\ phase' = "none" /\ meta' = NoMeta /\ tried' = {} /\ accepted' = {} /\ status' = [a \in Addrs |-> "none"]
          /\ UNCHANGED <<left, sent, job, lookupVars, lost>>
        BY DEF Close
    <1>2. ASSUME NEW d \in Domains
          PROVE  /\ pool'[d] \in ConnType /\ pool'[d].cl # "dead" /\ RcptsOf(pool[d], d)'
                 /\ pool'[d].cl = "open" => Sound(pool[d])'
        <2> PICK kept \in SUBSET {e \in Domains : Live(e) /\ Usable(conns[e])} :
                pool' = [e \in Domains |-> IF e \in kept /\ pool[e] = NoConn
                           THEN [conns[e] EXCEPT !.transactions = @ + 1, !.inTx = FALSE] ELSE pool[e]]
            BY DEF Close
        <2>1. CASE pool'[d] = pool[d]
            BY <2>1 DEF IInv, TypeOK, ConnOK, RcptsOf, Sound, Level
        <2>2. CASE pool'[d] # pool[d]
            <3>1. Live(d) /\ pool'[d] = [conns[d] EXCEPT !.transactions = @ + 1, !.inTx = FALSE]
                BY <2>2
            <3>2. conns[d] \in ConnType /\ conns[d].cl # "dead" /\ RcptsOf(conns[d], d) /\ Sound(conns[d])
                BY <3>1 DEF IInv, TypeOK, ConnOK
            <3>3. /\ pool'[d] \in ConnType /\ pool'[d].rcpts = conns[d].rcpts
                  /\ pool'[d].cl = conns[d].cl /\ pool'[d].tlsLevel = conns[d].tlsLevel /\ pool'[d].mxLevel = conns[d].mxLevel
                  /\ pool'[d].chan = conns[d].chan /\ pool'[d].dane = conns[d].dane /\ pool'[d].needs = conns[d].needs
                  /\ pool'[d].free = conns[d].free
                BY <3>1, <3>2, ReusedType DEF Reused
            <3> QED
                BY <3>2, <3>3 DEF RcptsOf, Sound, Level
        <2> QED
            BY <2>1, <2>2
    <1>3. \A d \in Domains : ~Live(d)' /\ conns'[d] = NoConn
        BY <1>1 DEF Live, NoConn
    <1>4. PlacesBalanced'
        BY <1>1, <1>3 DEF IInv, TypeOK, PlacesBalanced
    <1>5. TypeOK'
        <2>1. conns' \in [Domains -> ConnType] /\ pool' \in [Domains -> ConnType]
            <3>1. pool' = [d \in Domains |-> pool'[d]]
                BY DEF Close
            <3> QED
                BY <1>1, <1>2, <3>1, NoConnType
        <2>2. meta' \in [requireTLS : BOOLEAN, asked : BOOLEAN, override : BOOLEAN]
            BY <1>1 DEF NoMeta
        <2>3. dest' \in [Domains -> Nat] /\ msgs' \in Nat
            BY <1>1 DEF IInv, TypeOK, PlacesBalanced
        <2>4. status' \in [Addrs -> Sent \cup {"none", "quarantined"}]
            BY <1>1
        <2> QED
            BY <1>1, <2>1, <2>2, <2>3, <2>4 DEF IInv, TypeOK, lookupVars
    <1>6. ConnOK'
        <2>1. NoConn.cl = "nil" /\ NoConn.rcpts = {}
            BY DEF NoConn
        <2>2. \A d \in Domains : RcptsOf(conns[d], d)'
            BY <1>3, <2>1 DEF RcptsOf
        <2> QED
            BY <1>2, <1>3, <2>1, <2>2 DEF ConnOK
    <1>7. MetaOK' /\ PlaceOK' /\ AttemptOK'
        BY <1>1 DEF MetaOK, PlaceOK, AttemptOK, NoMeta, NoJob
    <1>8. RestOK' /\ KnownOK' /\ ToldOK' /\ EveryRcptAnswered'
        BY <1>1, <1>3 DEF IInv, RestOK, KnownOK, ToldOK, EveryRcptAnswered
    <1> QED
        BY <1>4, <1>5, <1>6, <1>7, <1>8 DEF IInv

(* Every step keeps the invariant. *)
LEMMA RemoteNext == IInv /\ [Next]_vars => IInv'
    <1> SUFFICES ASSUME IInv, [Next]_vars PROVE IInv'
        OBVIOUS
    <1>1. CASE UNCHANGED vars
        <2>1. PlaceOK' /\ AttemptOK'
            BY <1>1 DEF vars, msgVars, IInv, PlaceOK, AttemptOK, Live, Active, Sound, Level, RcptsOf
        <2> QED
            BY <1>1, <2>1, CallStep DEF vars, lookupVars, IInv, TypeOK
    <1>2. CASE StartFails \/ \E f \in Flags : Start(f)
        BY <1>2, StartSteps
    <1>3. CASE StsAnswer \/ TlsaAnswer \/ TlsaPanics
        BY <1>3, StsAnswerStep, TlsaAnswerStep, TlsaPanicsStep
    <1>4. CASE \E r \in Rcpts : AddRcptRefused(r) \/ AddRcpt(r)
        BY <1>4, AddRcptRefusedStep, AddRcptStep1
    <1>5. CASE AddRcptStep
        BY <1>5, LookupMXStep, CheckMXStep, ConnectSteps, CheckConnStep, RefusalSteps, MailFailsStep, MailStep,
           RcptStep DEF AddRcptStep
    <1>6. CASE Body \/ BodyQuarantined \/ BodyReturns
        BY <1>6, BodySteps
    <1>7. CASE \E d \in Domains, ok \in {"ok", "failed", "unopened"} : Data(d, ok)
        BY <1>7, DataStep DEF Sent
    <1>8. CASE Close
        BY <1>8, CloseStep
    <1> QED
        BY <1>1, <1>2, <1>3, <1>4, <1>5, <1>6, <1>7, <1>8 DEF Next

------------------------------------------------------------------------------
(* Theorems *)

(* The inductive invariant of the remote target, for any domains,           *)
(* recipients, policies, minimum levels and numbers of MX records: what is  *)
(* known of the connection being made at every point of AddRcpt, and of the *)
(* connections that are kept.                                               *)
THEOREM RemoteInvariant == Spec => []IInv
    BY RemoteInit, RemoteNext, PTL DEF Spec

(* Type correctness of the remote target: the record of a call has the      *)
(* fields of the place it is at.                                            *)
THEOREM RemoteTypeOK == Spec => []TypeOK
    <1>1. IInv => TypeOK
        BY DEF IInv
    <1> QED
        BY <1>1, RemoteInvariant, PTL

(* No message goes over a connection that is weaker than REQUIRETLS, a      *)
(* published policy or the local minimum asks for (connect.go:154-262),     *)
(* whatever fall-backs, failed QUITs and reuse came before.                 *)
THEOREM RemoteSecureEnough == Spec => []SecureEnough
    <1>1. IInv => SecureEnough
        <2> SUFFICES ASSUME IInv, NEW d \in Domains, Live(d)
                     PROVE  /\ conns[d].tlsLevel = Level(conns[d])
                            /\ meta.asked /\ ~Relaxed =>
                                    Level(conns[d]) = TLSAuthenticated /\ conns[d].mxLevel >= MX_MTASTS
                            /\ "sts" \in conns[d].needs => conns[d].chan = "verified"
                            /\ "tlsa" \in conns[d].needs => conns[d].dane
                            /\ ~conns[d].free /\ "local_policy" \in Configured =>
                                    Level(conns[d]) >= MinTLS /\ conns[d].mxLevel >= MinMX
            BY DEF SecureEnough
        <2>1. Sound(conns[d]) /\ (meta.asked /\ ~Relaxed => ~Insufficient(conns[d]))
            BY DEF IInv, ConnOK
        <2>2. conns[d].tlsLevel \in 0 .. 2 /\ conns[d].mxLevel \in 0 .. 2
            BY DEF IInv, TypeOK, ConnType, Levels
        <2> QED
            BY <2>1, <2>2 DEF Sound, Insufficient, TLSAuthenticated, MX_MTASTS
    <1> QED
        BY <1>1, RemoteInvariant, PTL

(* The places in the limits are those of the message and of its             *)
(* connections, and the ones refused MAIL commands lose (connect.go:275).   *)
THEOREM RemotePlacesBalanced == Spec => []PlacesBalanced
    <1>1. IInv => PlacesBalanced
        BY DEF IInv
    <1> QED
        BY <1>1, RemoteInvariant, PTL

(* When Body returns every accepted recipient has the status of its own     *)
(* server, in whatever order the goroutines ended (remote.go:407-436).      *)
THEOREM RemoteEveryRcptAnswered == Spec => []EveryRcptAnswered
    <1>1. IInv => EveryRcptAnswered
        BY DEF IInv
    <1> QED
        BY <1>1, RemoteInvariant, PTL
==============================================================================
