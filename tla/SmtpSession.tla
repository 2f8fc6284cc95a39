---------------------------- MODULE SmtpSession ------------------------------
(***************************************************************************)
(* internal/endpoint/smtp: the sessions of an SMTP, submission or LMTP     *)
(* endpoint, from NewSession to Logout.  A session turns MAIL, RCPT, DATA  *)
(* and RSET into calls of module.Delivery on its pipeline and holds a      *)
(* place in the flow limits for as long as it has a delivery.              *)
(*                                                                         *)
(* go-smtp (external) reads one command at a time per connection, looks    *)
(* the session up and calls the handler; it refuses MAIL inside a          *)
(* transaction, RCPT without MAIL and DATA without an accepted recipient,  *)
(* calls Reset after DATA, and Logout when the connection ends.  The       *)
(* handlers run under msgLock, so a handler is one step; only the server's *)
(* own Close calls Logout while a command is on its way to its handler.    *)
(***************************************************************************)
EXTENDS Integers, FiniteSets

CONSTANTS
    Sessions,
    Senders,        \* MAIL FROM arguments, each standing for its domain part
    Null,           \* the empty address
    CleanDomain,    \* [Senders -> Senders]: the canonical form of a domain
    Rcpts,
    Endpoints,      \* configurations: [deferReject, asyncClose : BOOLEAN], see endpoint
    MaxMsgs         \* bound: deliveries started in one session

ASSUME SessionAssumption ==
    /\ IsFiniteSet(Sessions)
    /\ Null \in Senders
    /\ CleanDomain \in [Senders -> Senders]
    /\ \A d \in Senders : CleanDomain[CleanDomain[d]] = CleanDomain[d]
    /\ \A d \in Senders : CleanDomain[d] = Null <=> d = Null
    /\ Endpoints \subseteq [deferReject : BOOLEAN, asyncClose : BOOLEAN]
    /\ MaxMsgs \in Nat

VARIABLES
    endpoint,   \* defer_sender_reject; whether the server is closed while commands are handled
    conn,       \* of each session: "none", "refused", "open" or "closed"
    cmd,        \* the command on its way to its handler
    mailFrom, delivery, deliveryErr,    \* fields of Session; delivery 0 is nil
    started,    \* deliveries started so far; the last one is number started[s]
    asked,      \* go-smtp and client: MAIL argument and recipients answered with 250
    dlv,        \* what each delivery was given and how it ended
    global,     \* places taken in the global limit
    source,     \* places taken in each bucket of the source limit
    buckets,    \* keys of the source limit's bucket set
    sessionCnt

sessVars == <<mailFrom, delivery, deliveryErr, started>>
limitVars == <<global, source, buckets>>
vars == <<endpoint, conn, cmd, sessVars, asked, dlv, limitVars, sessionCnt>>

Ids == Sessions \X (1 .. MaxMsgs)
NoMail == [mail |-> FALSE, from |-> Null, rcpts |-> {}]
Idle == [op |-> "idle"]
Commands == [op : {"idle", "data", "reset"}] \cup [op : {"mail"}, from : Senders]
            \cup [op : {"rcpt"}, to : Rcpts]
NotStarted == [st |-> "none", from |-> Null, rcpts |-> {}]

(* The envelope of an ended delivery is not looked at any more. *)
Ended(st) == [NotStarted EXCEPT !.st = st]

TypeOK ==
    /\ endpoint \in Endpoints
    /\ conn \in [Sessions -> {"none", "refused", "open", "closed"}]
    /\ cmd \in [Sessions -> Commands]
    /\ mailFrom \in [Sessions -> Senders]
    /\ delivery \in [Sessions -> 0 .. MaxMsgs]
    /\ deliveryErr \in [Sessions -> BOOLEAN]
    /\ started \in [Sessions -> 0 .. MaxMsgs]
    /\ asked \in [Sessions -> [mail : BOOLEAN, from : Senders, rcpts : SUBSET Rcpts]]
    /\ dlv \in [Ids -> [st : {"none", "open", "aborted", "committed", "dropped"},
                        from : Senders, rcpts : SUBSET Rcpts]]
    /\ global \in Nat
    /\ source \in [Senders -> Nat]
    /\ buckets \subseteq Senders
    /\ sessionCnt \in Int

Init ==
    /\ endpoint \in Endpoints
    /\ conn = [s \in Sessions |-> "none"]
    /\ cmd = [s \in Sessions |-> Idle]
    /\ mailFrom = [s \in Sessions |-> Null]
    /\ delivery = [s \in Sessions |-> 0]
    /\ deliveryErr = [s \in Sessions |-> FALSE]
    /\ started = [s \in Sessions |-> 0]
    /\ asked = [s \in Sessions |-> NoMail]
    /\ dlv = [i \in Ids |-> NotStarted]
    /\ global = 0
    /\ source = [d \in Senders |-> 0]
    /\ buckets = {}
    /\ sessionCnt = 0

------------------------------------------------------------------------------
(* Ending a transaction *)

Current(s) == <<s, delivery[s]>>

(* Group.ReleaseMsg with the domain of s.mailFrom.  A key without a bucket  *)
(* is ignored.                                                              *)
ReleaseLimits(s) ==
    /\ global' = global - 1
    /\ source' = IF mailFrom[s] \in buckets
                 THEN [source EXCEPT ![mailFrom[s]] = @ - 1] ELSE source
    /\ UNCHANGED buckets

CleanSession(s) ==
    /\ ReleaseLimits(s)
    /\ mailFrom' = [mailFrom EXCEPT ![s] = Null]
    /\ delivery' = [delivery EXCEPT ![s] = 0]
    /\ deliveryErr' = [deliveryErr EXCEPT ![s] = FALSE]
    /\ UNCHANGED started

Abort(s) ==
    /\ dlv' = [dlv EXCEPT ![Current(s)] = Ended("aborted")]
    /\ CleanSession(s)

(* Mutant: the delivery outlives the command or the connection. *)
NoAbort(s) == UNCHANGED <<sessVars, limitVars, dlv>>

(* Mutant: the session forgets the delivery without releasing its limits. *)
AbortKeepsLimits(s) ==
    /\ dlv' = IF delivery[s] = 0 THEN dlv ELSE [dlv EXCEPT ![Current(s)] = Ended("aborted")]
    /\ mailFrom' = [mailFrom EXCEPT ![s] = Null]
    /\ delivery' = [delivery EXCEPT ![s] = 0]
    /\ deliveryErr' = [deliveryErr EXCEPT ![s] = FALSE]
    /\ UNCHANGED <<started, limitVars>>

(* What Reset and Logout share: a transaction that has a delivery is        *)
(* aborted, one that has none is left as it is.                             *)
AbortIfStarted(s) ==
    \/ delivery[s] # 0 /\ Abort(s)
    \/ delivery[s] = 0 /\ UNCHANGED <<sessVars, limitVars, dlv>>

------------------------------------------------------------------------------
(* Sessions come and go *)

NewSession(s) ==
    /\ conn[s] = "none"
    /\ conn' = [conn EXCEPT ![s] = "open"]
    /\ sessionCnt' = sessionCnt + 1
    /\ UNCHANGED <<endpoint, cmd, sessVars, asked, dlv, limitVars>>

(* An early check refuses the client: NewSession logs the session out       *)
(* before it was counted.                                                   *)
NewSessionRefused(s) ==
    /\ conn[s] = "none"
    /\ conn' = [conn EXCEPT ![s] = "refused"]
    /\ sessionCnt' = sessionCnt - 1
    /\ UNCHANGED <<endpoint, cmd, sessVars, asked, dlv, limitVars>>

(* The connection ends between two commands, or the server is closed.       *)
Logout(s) ==
    /\ conn[s] = "open"
    /\ cmd[s] = Idle \/ endpoint.asyncClose
    /\ conn' = [conn EXCEPT ![s] = "closed"]
    /\ AbortIfStarted(s)
    /\ sessionCnt' = sessionCnt - 1
    /\ asked' = [asked EXCEPT ![s] = NoMail]
    /\ UNCHANGED <<endpoint, cmd>>

(* go-smtp looks the session up for a command it allows at this point.      *)
Receive(s) ==
    /\ conn[s] = "open" /\ cmd[s] = Idle
    /\ \E c \in Commands \ {Idle} :
        /\ c.op = "mail" => ~asked[s].mail
        /\ c.op = "rcpt" => asked[s].mail
        /\ c.op = "data" => asked[s].rcpts # {}
        /\ cmd' = [cmd EXCEPT ![s] = c]
    /\ UNCHANGED <<endpoint, conn, sessVars, asked, dlv, limitVars, sessionCnt>>

Answered(s) == cmd' = [cmd EXCEPT ![s] = Idle]

------------------------------------------------------------------------------
(* startDelivery *)

(* The limits are taken under the canonical domain and the pipeline is      *)
(* started with the canonical sender; an RCPT that starts it adds to.       *)
StartDelivery(s, from, to) ==
    /\ started[s] < MaxMsgs
    /\ global' = global + 1
    /\ source' = [source EXCEPT ![CleanDomain[from]] = @ + 1]
    /\ buckets' = buckets \cup {CleanDomain[from]}
    /\ started' = [started EXCEPT ![s] = @ + 1]
    /\ delivery' = [delivery EXCEPT ![s] = started[s] + 1]
    /\ dlv' = [dlv EXCEPT ![<<s, started[s] + 1>>] =
                 [st |-> "open", from |-> CleanDomain[from], rcpts |-> to]]

(* It refused the sender, found no place in the limits, or the pipeline     *)
(* refused and the places were given back under the key they were taken.    *)
(* The limits may have made a bucket for the domain.                        *)
StartDeliveryFails(from) ==
    /\ \E made \in {{}, {CleanDomain[from]}} : buckets' = buckets \cup made
    /\ UNCHANGED <<global, source, dlv, started, delivery>>

------------------------------------------------------------------------------
(* The handlers *)

(* The delivery is started at once and the raw argument is kept.            *)
MailStarts(s) ==
    /\ cmd[s].op = "mail" /\ ~endpoint.deferReject
    /\ StartDelivery(s, cmd[s].from, {})
    /\ mailFrom' = [mailFrom EXCEPT ![s] = cmd[s].from]
    /\ asked' = [asked EXCEPT ![s] = [mail |-> TRUE, from |-> cmd[s].from, rcpts |-> {}]]
    /\ Answered(s)
    /\ UNCHANGED <<endpoint, conn, deliveryErr, sessionCnt>>

MailStartFails(s) ==
    /\ cmd[s].op = "mail" /\ ~endpoint.deferReject
    /\ StartDeliveryFails(cmd[s].from)
    /\ Answered(s)
    /\ UNCHANGED <<endpoint, conn, mailFrom, deliveryErr, asked, sessionCnt>>

(* authAlwaysRequired, and the client is not authenticated. *)
MailNeedsAuth(s) ==
    /\ cmd[s].op = "mail"
    /\ UNCHANGED <<limitVars, dlv, started, delivery>>
    /\ Answered(s)
    /\ UNCHANGED <<endpoint, conn, mailFrom, deliveryErr, asked, sessionCnt>>

MailDeferred(s) ==
    /\ cmd[s].op = "mail" /\ endpoint.deferReject
    /\ mailFrom' = [mailFrom EXCEPT ![s] = cmd[s].from]
    /\ asked' = [asked EXCEPT ![s] = [mail |-> TRUE, from |-> cmd[s].from, rcpts |-> {}]]
    /\ Answered(s)
    /\ UNCHANGED <<endpoint, conn, delivery, deliveryErr, started, dlv, limitVars, sessionCnt>>

(* Mutant: the RCPT that starts the delivery is answered without being added. *)
RcptStartsOnly(s) ==
    /\ cmd[s].op = "rcpt" /\ delivery[s] = 0 /\ ~deliveryErr[s]
    /\ mailFrom' = [mailFrom EXCEPT ![s] = CleanDomain[mailFrom[s]]]
    /\ StartDelivery(s, mailFrom[s], {})
    /\ asked' = [asked EXCEPT ![s].rcpts = @ \cup {cmd[s].to}]
    /\ Answered(s)
    /\ UNCHANGED <<endpoint, conn, deliveryErr, sessionCnt>>

(* The first RCPT of a deferred transaction starts the delivery; whether    *)
(* the recipient itself is then accepted is another matter.                 *)
RcptStarts(s) ==
    /\ cmd[s].op = "rcpt" /\ delivery[s] = 0 /\ ~deliveryErr[s]
    /\ mailFrom' = [mailFrom EXCEPT ![s] = CleanDomain[mailFrom[s]]]
    /\ \E to \in {{}, {cmd[s].to}} :
        /\ StartDelivery(s, mailFrom[s], to)
        /\ asked' = [asked EXCEPT ![s].rcpts = @ \cup to]
    /\ Answered(s)
    /\ UNCHANGED <<endpoint, conn, deliveryErr, sessionCnt>>

RcptStartFails(s) ==
    /\ cmd[s].op = "rcpt" /\ delivery[s] = 0 /\ ~deliveryErr[s]
    /\ StartDeliveryFails(mailFrom[s])
    /\ deliveryErr' = [deliveryErr EXCEPT ![s] = TRUE]
    /\ Answered(s)
    /\ UNCHANGED <<endpoint, conn, mailFrom, asked, sessionCnt>>

RcptFailsAgain(s) ==
    /\ cmd[s].op = "rcpt" /\ delivery[s] = 0 /\ deliveryErr[s]
    /\ Answered(s)
    /\ UNCHANGED <<endpoint, conn, sessVars, asked, dlv, limitVars, sessionCnt>>

RcptAdds(s) ==
    /\ cmd[s].op = "rcpt" /\ delivery[s] # 0
    /\ dlv' = [dlv EXCEPT ![Current(s)].rcpts = @ \cup {cmd[s].to}]
    /\ asked' = [asked EXCEPT ![s].rcpts = @ \cup {cmd[s].to}]
    /\ Answered(s)
    /\ UNCHANGED <<endpoint, conn, sessVars, limitVars, sessionCnt>>

RcptRefused(s) ==
    /\ cmd[s].op = "rcpt" /\ delivery[s] # 0
    /\ Answered(s)
    /\ UNCHANGED <<endpoint, conn, sessVars, asked, dlv, limitVars, sessionCnt>>

(* Data and LMTPData, once the body is read.  The delivery gets its Commit  *)
(* call, whatever that answers, or a routing loop or an error of Body       *)
(* leaves it without Commit and Abort; LMTPData has no Body error.          *)
(* cleanSession is deferred, and go-smtp calls Reset next.                  *)
Data(s) ==
    /\ cmd[s].op = "data" /\ delivery[s] # 0
    /\ \E st \in {"committed", "dropped"} :
        dlv' = [dlv EXCEPT ![Current(s)] = Ended(st)]
    /\ CleanSession(s)
    /\ cmd' = [cmd EXCEPT ![s] = [op |-> "reset"]]
    /\ UNCHANGED <<endpoint, conn, asked, sessionCnt>>

(* prepareBody failed: the header is unacceptable or the client is gone.    *)
(* The delivery stays, for Reset to abort.                                  *)
DataUnread(s) ==
    /\ cmd[s].op = "data" /\ delivery[s] # 0
    /\ cmd' = [cmd EXCEPT ![s] = [op |-> "reset"]]
    /\ UNCHANGED <<endpoint, conn, sessVars, asked, dlv, limitVars, sessionCnt>>

(* Data on a session that was logged out meanwhile has no message context   *)
(* and panics; go-smtp recovers and closes the connection.                  *)
DataPanics(s) ==
    /\ cmd[s].op = "data" /\ delivery[s] = 0
    /\ Answered(s)
    /\ UNCHANGED <<endpoint, conn, sessVars, asked, dlv, limitVars, sessionCnt>>

(* Mutant: RSET does not touch the delivery. *)
ResetKeeps(s) ==
    /\ cmd[s].op = "reset"
    /\ asked' = [asked EXCEPT ![s] = NoMail]
    /\ Answered(s)
    /\ UNCHANGED <<endpoint, conn, sessVars, dlv, limitVars, sessionCnt>>

Reset(s) ==
    /\ cmd[s].op = "reset"
    /\ AbortIfStarted(s)
    /\ asked' = [asked EXCEPT ![s] = NoMail]
    /\ Answered(s)
    /\ UNCHANGED <<endpoint, conn, sessionCnt>>

Next ==
    \E s \in Sessions :
        \/ NewSession(s) \/ NewSessionRefused(s) \/ Logout(s) \/ Receive(s)
        \/ MailStarts(s) \/ MailStartFails(s) \/ MailNeedsAuth(s) \/ MailDeferred(s)
        \/ RcptStarts(s) \/ RcptStartFails(s) \/ RcptFailsAgain(s) \/ RcptAdds(s) \/ RcptRefused(s)
        \/ Data(s) \/ DataUnread(s) \/ DataPanics(s) \/ Reset(s)

Spec == Init /\ [][Next]_vars

------------------------------------------------------------------------------
(* Properties *)

InTransaction(s) == delivery[s] # 0

(* The places taken in the flow limits are those of the transactions that   *)
(* have a delivery, each under the canonical domain of its sender: nothing  *)
(* leaks when a transaction ends by DATA, RSET, a failed start or Logout,   *)
(* and releaseLimits never meets an empty bucket, which would panic.        *)
(* Without deferred rejection the source's place is looked up under the raw *)
(* domain (PlacesReturned), so there only nothing is given back too much.   *)
HeldFrom(d) == Cardinality({s \in Sessions : InTransaction(s) /\ dlv[Current(s)].from = d})

TokensMatch ==
    /\ global = Cardinality({s \in Sessions : InTransaction(s)})
    /\ \A d \in Senders :
        IF endpoint.deferReject THEN source[d] = HeldFrom(d) ELSE source[d] >= HeldFrom(d)

(* The same for the source limit alone, however the endpoint is configured. *)
PlacesReturned == \A d \in Senders : source[d] = HeldFrom(d)

(* Between two commands the delivery is the client's current transaction:   *)
(* it has the sender of the last MAIL and exactly the recipients that were  *)
(* answered with 250 since, whatever transactions went before and however   *)
(* they ended.                                                              *)
EnvelopeAgrees ==
    \A s \in Sessions :
        conn[s] = "open" /\ cmd[s] = Idle =>
            IF InTransaction(s)
            THEN /\ asked[s].mail
                 /\ dlv[Current(s)] = [st |-> "open", from |-> CleanDomain[asked[s].from],
                                      rcpts |-> asked[s].rcpts]
            ELSE asked[s].rcpts = {}

(* Whatever ended the session, and in whatever order: no delivery is left.  *)
NothingSurvivesClose ==
    \A s \in Sessions : conn[s] = "closed" /\ cmd[s] = Idle => ~InTransaction(s)

(* A session that ended, its last handler included, owns no delivery: the   *)
(* delivery was committed, aborted or given up.  A Close of the server that *)
(* overtakes a command breaks this (NothingSurvivesClose).                  *)
ClosedOwnsNothing == ~endpoint.asyncClose => NothingSurvivesClose

(* deliveryErr belongs to the message that is handled: once the transaction *)
(* was reset, the next MAIL starts as if nothing happened.                  *)
ResetForgets ==
    \A s \in Sessions : conn[s] = "open" /\ cmd[s] = Idle /\ ~asked[s].mail => ~deliveryErr[s]

(* Every delivery that was started is ended by Commit or by Abort, so that  *)
(* its target can roll back what Body did.                                  *)
CommittedOrAborted == \A i \in Ids : dlv[i].st # "dropped"

(* ConnectionCount is the number of sessions that are open. *)
CountsSessions == sessionCnt = Cardinality({s \in Sessions : conn[s] = "open"})

==============================================================================
