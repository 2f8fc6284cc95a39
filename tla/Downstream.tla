----------------------------- MODULE Downstream -----------------------------
(***************************************************************************)
(* target.smtp and target.lmtp: a message is relayed to one of the         *)
(* configured downstream servers (internal/target/smtp) over a connection  *)
(* of internal/smtpconn.  Start dials the endpoints in turn, upgrades the  *)
(* connection, authenticates and sends MAIL; recipients are forwarded one  *)
(* by one; the body is sent at once or, for LMTP, with a status for every  *)
(* recipient; Commit and Abort end the connection.  The server and the     *)
(* network may fail each command.                                          *)
(***************************************************************************)
EXTENDS Naturals, Sequences

CONSTANTS RelayCfgs,     \* configurations and what is known of the client
          RelayRcpts,    \* recipients
          Sendable(_),   \* the form of an address the server is sent, "" for none
          BodyOpens      \* whether the buffered body can always be opened

VARIABLES rcfg,          \* the configuration, a member of RelayCfgs
          relay,         \* the delivery: pc, the endpoint tried, its rcpts, the rcptIndx
          conns,         \* the endpoints with an open connection
          taken,         \* the addresses whose message the downstream has taken
          statuses       \* what was reported to the source, in order

relayVars == <<rcfg, relay, conns, taken, statuses>>

Relay(r) == relay' = r
To(pc) == [relay EXCEPT !.pc = pc]

-----------------------------------------------------------------------------
(* smtpconn attemptConnect, delivery.connect and Start. *)

\* The next endpoint is tried after an error; after the last Start fails.
NextEndpoint == IF relay.endp = rcfg.endpoints THEN To("refused")
                ELSE [relay EXCEPT !.pc = "dial", !.endp = @ + 1]

\* A command of the connect sequence fails: the connection is closed.
\* Mutant: it is left open.
ConnectLeaks(next) == Relay(next) /\ UNCHANGED conns
ConnectFails(next) == Relay(next) /\ conns' = conns \ {relay.endp}

OnlyConn == UNCHANGED <<rcfg, taken, statuses>>

StartRelay ==
    /\ relay.pc = "idle"
    /\ Relay([relay EXCEPT !.pc = "dial", !.endp = 1]) /\ OnlyConn /\ UNCHANGED conns

Dial ==
    /\ relay.pc = "dial"
    /\ \E ok \in BOOLEAN :
         IF ok THEN Relay(To("hello")) /\ conns' = conns \cup {relay.endp}
         ELSE Relay(NextEndpoint) /\ UNCHANGED conns
    /\ OnlyConn

\* EHLO or LHLO, then STARTTLS when it is configured: a server without the
\* extension is an error.
Hello ==
    /\ relay.pc = "hello"
    /\ \E ok \in BOOLEAN : IF ok THEN Relay(To(IF rcfg.starttls THEN "tls" ELSE "auth")) /\ UNCHANGED conns
                           ELSE ConnectFails(NextEndpoint)
    /\ OnlyConn
StartTLS ==
    /\ relay.pc = "tls"
    /\ \E extension, handshake, again \in BOOLEAN :
         IF extension /\ handshake /\ again THEN Relay(To("auth")) /\ UNCHANGED conns
         ELSE ConnectFails(NextEndpoint)
    /\ OnlyConn

\* saslAuthDirective: "forward" needs the client's own credentials.
HasClient == rcfg.auth = "forward" => rcfg.clientAuth
Authenticate ==
    /\ relay.pc = "auth"
    /\ IF rcfg.auth = "off" THEN Relay(To("mail")) /\ UNCHANGED conns
       ELSE \E accepted \in BOOLEAN :
              IF HasClient /\ accepted THEN Relay(To("mail")) /\ UNCHANGED conns
              ELSE ConnectFails(To("refused"))
    /\ OnlyConn
Mail ==
    /\ relay.pc = "mail"
    /\ \E ok \in BOOLEAN : IF ok THEN Relay(To("rcpts")) /\ UNCHANGED conns
                           ELSE ConnectFails(To("refused"))
    /\ OnlyConn

-----------------------------------------------------------------------------
(* Recipients and the body. *)

RelayRcpt ==
    /\ relay.pc = "rcpts"
    /\ \E r \in RelayRcpts :
         /\ Sendable(r) # "" /\ \A i \in DOMAIN relay.rcpts : relay.rcpts[i] # r
         /\ Relay([relay EXCEPT !.rcpts = Append(@, r)])
    /\ UNCHANGED <<rcfg, conns, taken, statuses>>

SentForm(i) == Sendable(relay.rcpts[i])
AllSent == {SentForm(i) : i \in DOMAIN relay.rcpts}
Report(pairs) == statuses' = statuses \o pairs

\* delivery.Body: one answer for all.  Over LMTP (smtpToLMTPData) it is an
\* error when any recipient's status is one.
RelayBody ==
    /\ relay.pc = "rcpts" /\ relay.rcpts # <<>>
    /\ \E got \in SUBSET AllSent, ok \in BOOLEAN :
         /\ ~rcfg.lmtp => got \in {{}, AllSent}
         /\ ok => got = AllSent
         /\ taken' = got
         /\ Relay(To(IF ok THEN "taken" ELSE "failed"))
    /\ UNCHANGED <<rcfg, conns, statuses>>

\* lmtpDelivery.BodyNonAtomic.  A body that cannot be opened is reported for
\* every recipient, and then the nil reader is used.
RelayBodyNonAtomic ==
    /\ relay.pc = "rcpts" /\ relay.rcpts # <<>> /\ rcfg.lmtp
    /\ IF BodyOpens THEN Relay(To("lmtp")) /\ UNCHANGED statuses
       ELSE /\ Report([i \in DOMAIN relay.rcpts |-> <<relay.rcpts[i], FALSE>>])
            /\ Relay(To("panicked"))
    /\ UNCHANGED <<rcfg, conns, taken>>

\* The server answers for the next recipient; the callback counts.
LmtpStatus ==
    /\ relay.pc = "lmtp"
    /\ \E ok \in BOOLEAN :
         /\ Report(<< <<SentForm(relay.indx + 1), ok>> >>)
         /\ taken' = IF ok THEN taken \cup {SentForm(relay.indx + 1)} ELSE taken
         /\ Relay([relay EXCEPT !.indx = @ + 1,
                                !.pc = IF relay.indx + 1 = Len(relay.rcpts) THEN "answered" ELSE "lmtp"])
    /\ UNCHANGED <<rcfg, conns>>

\* LMTPData fails, before the first answer or between two: whoever was not
\* answered for gets the error.
UnansweredAll(n) == relay.rcpts  \* mutant: every recipient gets it
Unanswered(n) == SubSeq(relay.rcpts, n + 1, Len(relay.rcpts))
LmtpBreaks ==
    /\ relay.pc = "lmtp"
    /\ LET rest == Unanswered(relay.indx) IN Report([i \in DOMAIN rest |-> <<rest[i], FALSE>>])
    /\ \E more \in SUBSET {SentForm(i) : i \in relay.indx + 1..Len(relay.rcpts)} : taken' = taken \cup more
    /\ Relay(To("answered"))
    /\ UNCHANGED <<rcfg, conns>>

\* Commit after the body, Abort instead of it or after its failure: QUIT, and
\* when that fails the connection is closed.
EndRelay ==
    /\ relay.pc \in {"rcpts", "taken", "failed", "answered"}
    /\ conns' = conns \ {relay.endp}
    /\ Relay([relay EXCEPT !.pc = "ended", !.body = relay.pc])
    /\ UNCHANGED <<rcfg, taken, statuses>>

RelayInit ==
    /\ rcfg \in RelayCfgs /\ rcfg.endpoints > 0
    /\ relay = [pc |-> "idle", endp |-> 0, rcpts |-> <<>>, indx |-> 0, body |-> "none"]
    /\ conns = {} /\ taken = {} /\ statuses = <<>>

RelayNext ==
    \/ StartRelay \/ Dial \/ Hello \/ StartTLS \/ Authenticate \/ Mail
    \/ RelayRcpt \/ RelayBody \/ RelayBodyNonAtomic \/ LmtpStatus \/ LmtpBreaks \/ EndRelay

-----------------------------------------------------------------------------
(* Properties. *)

\* However a relayed message ends, no connection is left open; a source that
\* is told of success for a recipient has had the message taken for it; and
\* over LMTP every accepted recipient gets one status, in the order of the
\* recipients, also when the server stops answering half way
\* (smtp_downstream.go BodyNonAtomic; smtpconn.go attemptConnect).
RelaySettled ==
    /\ relay.pc \in {"ended", "refused"} => conns = {}
    /\ relay.body = "taken" => AllSent \subseteq taken
    /\ \A i \in DOMAIN statuses : statuses[i][2] => statuses[i][1] \in taken
    /\ relay.pc = "answered" \/ relay.body = "answered" =>
         /\ Len(statuses) = Len(relay.rcpts)
         /\ \A i \in DOMAIN statuses : statuses[i][1] \in {relay.rcpts[i], SentForm(i)}

\* An expectation the code does not meet: statuses carry the address that the
\* source added.
StatusOfSource == \A i \in DOMAIN statuses : statuses[i][1] \in RelayRcpts

\* An expectation the code does not meet: a body that cannot be opened is an
\* error like any other.
RelayNeverPanics == relay.pc # "panicked"

\* An expectation the code does not meet: when Body fails nobody has the
\* message, so that the source may send it again.
BodyAtomic == relay.pc = "failed" => taken \in {{}, AllSent}
=============================================================================
