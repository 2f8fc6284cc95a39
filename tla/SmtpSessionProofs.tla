-------------------------- MODULE SmtpSessionProofs --------------------------
(***************************************************************************)
(* Theorems about SmtpSession, for every set of sessions, domains and      *)
(* recipients, every endpoint configuration and every bound on messages.   *)
(***************************************************************************)
EXTENDS SmtpSession, FiniteSetTheorems, TLAPS

------------------------------------------------------------------------------
(* The inductive invariant *)

(* While the connection is open, what go-smtp let through agrees with what  *)
(* the session holds: the delivery has the envelope the client was told of; *)
(* without one no recipient was accepted (but DATA may just have ended it,  *)
(* and Reset comes next), and a deferred sender waits in mailFrom.          *)
OpenOK(s) ==
    /\ cmd[s].op = "mail" => ~asked[s].mail
    /\ cmd[s].op = "rcpt" => asked[s].mail
    /\ delivery[s] # 0 =>
        /\ asked[s].mail
        /\ dlv[Current(s)].from = CleanDomain[asked[s].from]
        /\ dlv[Current(s)].rcpts = asked[s].rcpts
    /\ delivery[s] = 0 /\ cmd[s].op # "reset" =>
        /\ asked[s].rcpts = {}
        /\ asked[s].mail => mailFrom[s] = asked[s].from

(* A delivery of the session is open, its source bucket exists, and what    *)
(* releaseLimits looks up is the canonical domain or, only without          *)
(* defer_sender_reject, another form of it.                                 *)
DeliveryOK(s) ==
    delivery[s] # 0 =>
        /\ dlv[Current(s)].st = "open"
        /\ dlv[Current(s)].from = CleanDomain[mailFrom[s]]
        /\ dlv[Current(s)].from \in buckets
        /\ endpoint.deferReject => mailFrom[s] = CleanDomain[mailFrom[s]]

(* Before it is open a session is blank; once it is closed, only a command  *)
(* that Logout overtook can still be on its way, and it finds no delivery.  *)
EndsOK(s) ==
    /\ conn[s] \in {"none", "refused"} => cmd[s] = Idle /\ delivery[s] = 0
    /\ conn[s] = "none" => asked[s] = NoMail
    /\ conn[s] = "closed" /\ ~endpoint.asyncClose => cmd[s] = Idle /\ delivery[s] = 0
    /\ conn[s] = "closed" /\ cmd[s] # Idle => delivery[s] = 0

SessOK(s) ==
    /\ conn[s] = "open" => OpenOK(s)
    /\ DeliveryOK(s)
    /\ EndsOK(s)

(* Buckets are made for canonical domains only. *)
BucketsOK == \A d \in buckets : CleanDomain[d] = d

IInv ==
    /\ TypeOK
    /\ \A s \in Sessions : SessOK(s)
    /\ BucketsOK
    /\ TokensMatch


------------------------------------------------------------------------------
(* The operators of the model *)

(* What a command on its way to its handler carries. *)
LEMMA CommandTypes ==
    /\ Idle \in Commands /\ [op |-> "reset"] \in Commands
    /\ Idle.op = "idle"
    /\ \A c \in Commands :
        /\ c.op = "mail" => c.from \in Senders
        /\ c.op = "rcpt" => c.to \in Rcpts
        /\ c.op = "idle" <=> c = Idle
    BY DEF Commands, Idle

(* The records of a transaction. *)
LEMMA RecordTypes ==
    /\ NoMail \in [mail : BOOLEAN, from : Senders, rcpts : SUBSET Rcpts]
    /\ \A st \in {"none", "open", "aborted", "committed", "dropped"} :
        Ended(st) \in [st : {"none", "open", "aborted", "committed", "dropped"},
                       from : Senders, rcpts : SUBSET Rcpts]
    /\ ~NoMail.mail /\ NoMail.rcpts = {}
    BY SessionAssumption DEF NoMail, Ended, NotStarted

(* Counting the members of a finite set, one more or one less. *)
LEMMA CountOneLess ==
    ASSUME NEW S, IsFiniteSet(S), NEW x \in S
    PROVE  /\ Cardinality(S) \in Nat /\ Cardinality(S \ {x}) \in Nat
           /\ Cardinality(S \ {x}) = Cardinality(S) - 1
    BY FS_RemoveElement, FS_CardinalityType

(* An element more makes the count one larger: a session that takes its place. *)
LEMMA CountOneMore ==
    ASSUME NEW S, IsFiniteSet(S), NEW x, x \notin S
    PROVE  /\ Cardinality(S) \in Nat /\ Cardinality(S \cup {x}) \in Nat
           /\ Cardinality(S \cup {x}) = Cardinality(S) + 1
    BY FS_AddElement, FS_CardinalityType

------------------------------------------------------------------------------
(* Steps *)

(* What an action of one session leaves to the others. *)
Untouched(t) ==
    /\ conn'[t] = conn[t] /\ cmd'[t] = cmd[t] /\ asked'[t] = asked[t]
    /\ mailFrom'[t] = mailFrom[t] /\ delivery'[t] = delivery[t]
    /\ \A n \in 1 .. MaxMsgs : dlv'[<<t, n>>] = dlv[<<t, n>>]

(* A session another session's step leaves alone keeps its part of the invariant. *)
LEMMA UntouchedOK ==
    ASSUME IInv, NEW t \in Sessions, Untouched(t), endpoint' = endpoint,
           buckets \subseteq buckets'
    PROVE  SessOK(t)'
    <1>1. delivery[t] # 0 => delivery[t] \in 1 .. MaxMsgs
        BY SessionAssumption DEF IInv, TypeOK
    <1>2. delivery[t] # 0 => dlv'[<<t, delivery'[t]>>] = dlv[<<t, delivery[t]>>]
        BY <1>1 DEF Untouched
    <1>3. SessOK(t)
        BY DEF IInv
    <1> QED
        BY <1>2, <1>3 DEF SessOK, OpenOK, DeliveryOK, EndsOK, Untouched, Current

(* Ending a transaction releases what it held. *)
LEMMA CleanCounts ==
    ASSUME IInv, NEW s \in Sessions, delivery[s] # 0, CleanSession(s), endpoint' = endpoint,
           NEW st, dlv' = [dlv EXCEPT ![Current(s)] = Ended(st)]
    PROVE  TokensMatch' /\ global' \in Nat /\ source' \in [Senders -> Nat]
    <1> DEFINE In == {t \in Sessions : InTransaction(t)}
               Of(d) == {t \in Sessions : InTransaction(t) /\ dlv[Current(t)].from = d}
               f == CleanDomain[mailFrom[s]]
    <1>1. In' = In \ {s} /\ s \in In
        BY DEF CleanSession, InTransaction, IInv, TypeOK
    <1>2. IsFiniteSet(In) /\ \A d : IsFiniteSet(Of(d))
        BY SessionAssumption, FS_Subset
    <1>3. Cardinality(In') = Cardinality(In) - 1 /\ Cardinality(In') \in Nat /\ Cardinality(In) \in Nat
        BY <1>1, <1>2, FS_RemoveElement, FS_CardinalityType
    <1>4. global' = Cardinality(In') /\ global' \in Nat
        BY <1>3 DEF CleanSession, ReleaseLimits, IInv, TokensMatch, TypeOK
    <1>5. ASSUME NEW t \in Sessions, t # s, delivery[t] # 0
          PROVE  dlv'[<<t, delivery[t]>>] = dlv[<<t, delivery[t]>>]
        BY <1>5, SessionAssumption DEF IInv, TypeOK, Current, Ids
    <1>6. f \in Senders /\ dlv[Current(s)].from = f
        BY SessionAssumption DEF IInv, TypeOK, SessOK, DeliveryOK
    <1>7. ASSUME NEW d \in Senders
          PROVE  Of(d)' = Of(d) \ {s} /\ (s \in Of(d) <=> d = f)
        <2>1. \A t \in Sessions : t # s => delivery'[t] = delivery[t]
            BY DEF CleanSession, IInv, TypeOK
        <2>2. delivery'[s] = 0
            BY DEF CleanSession, IInv, TypeOK
        <2> QED
            BY <1>5, <1>6, <2>1, <2>2 DEF InTransaction, Current
    <1>8. ASSUME NEW d \in Senders
          PROVE  /\ Cardinality(Of(d)) \in Nat /\ Cardinality(Of(d)') \in Nat
                 /\ Cardinality(Of(d)') = IF d = f THEN Cardinality(Of(d)) - 1 ELSE Cardinality(Of(d))
        <2>1. CASE d = f
            <3> HIDE DEF Of, f
            <3>1. s \in Of(d) /\ Of(d)' = Of(d) \ {s} /\ IsFiniteSet(Of(d))
                BY <1>7, <1>2, <2>1
            <3> QED
                BY <3>1, <2>1, CountOneLess
        <2>2. CASE d # f
            <3>1. Of(d)' = Of(d) /\ IsFiniteSet(Of(d))
                BY <1>7, <1>2, <2>2
            <3> HIDE DEF Of, f
            <3> QED
                BY <3>1, <2>2, FS_CardinalityType
        <2> QED
            BY <2>1, <2>2
    <1>9. mailFrom[s] \in buckets => mailFrom[s] = f
        BY DEF IInv, BucketsOK
    <1>10. endpoint.deferReject => mailFrom[s] \in buckets
        BY <1>6 DEF IInv, SessOK, DeliveryOK
    <1>11. ASSUME NEW d \in Senders
           PROVE  /\ source[d] \in Nat
                  /\ IF endpoint.deferReject THEN source[d] = Cardinality(Of(d))
                                             ELSE source[d] >= Cardinality(Of(d))
        BY DEF IInv, TokensMatch, HeldFrom, TypeOK
    <1>12. ASSUME NEW d \in Senders
           PROVE  source'[d] = IF mailFrom[s] \in buckets /\ d = f THEN source[d] - 1 ELSE source[d]
        BY <1>9, <1>6 DEF CleanSession, ReleaseLimits, IInv, TypeOK
    <1>13. ASSUME NEW d \in Senders
           PROVE  /\ source'[d] \in Nat
                  /\ IF endpoint.deferReject THEN source'[d] = Cardinality(Of(d)')
                                             ELSE source'[d] >= Cardinality(Of(d)')
        <2>1. /\ Cardinality(Of(d)) \in Nat /\ Cardinality(Of(d)') \in Nat
              /\ Cardinality(Of(d)') = IF d = f THEN Cardinality(Of(d)) - 1 ELSE Cardinality(Of(d))
            BY <1>8
        <2>2. /\ source[d] \in Nat
              /\ IF endpoint.deferReject THEN source[d] = Cardinality(Of(d))
                                         ELSE source[d] >= Cardinality(Of(d))
            BY <1>11
        <2>3. source'[d] = IF mailFrom[s] \in buckets /\ d = f THEN source[d] - 1 ELSE source[d]
            BY <1>12
        <2> HIDE DEF Of, f
        <2> QED
            BY <1>10, <2>1, <2>2, <2>3
    <1>14. source' \in [Senders -> Nat]
        BY <1>13 DEF CleanSession, ReleaseLimits, IInv, TypeOK
    <1> QED
        BY <1>4, <1>13, <1>14 DEF TokensMatch, HeldFrom

(* Starting one takes a place for it. *)
LEMMA StartCounts ==
    ASSUME IInv, NEW s \in Sessions, delivery[s] = 0, endpoint' = endpoint,
           NEW from \in Senders, NEW to, StartDelivery(s, from, to)
    PROVE  TokensMatch' /\ global' \in Nat /\ source' \in [Senders -> Nat]
    <1> DEFINE In == {t \in Sessions : InTransaction(t)}
               Of(d) == {t \in Sessions : InTransaction(t) /\ dlv[Current(t)].from = d}
               f == CleanDomain[from]
               n == started[s] + 1
    <1>1. n \in 1 .. MaxMsgs /\ delivery'[s] = n /\ f \in Senders
        <2>1. MaxMsgs \in Nat /\ f \in Senders
            BY SessionAssumption
        <2>2. started[s] \in 0 .. MaxMsgs /\ started[s] < MaxMsgs
            BY DEF StartDelivery, IInv, TypeOK
        <2>3. delivery'[s] = n
            BY DEF StartDelivery, IInv, TypeOK
        <2> QED
            BY <2>1, <2>2, <2>3
    <1>2. \A t \in Sessions : t # s => delivery'[t] = delivery[t]
        BY DEF StartDelivery, IInv, TypeOK
    <1>3. dlv'[<<s, n>>].from = f
        BY <1>1 DEF StartDelivery, IInv, TypeOK, Ids
    <1>4. ASSUME NEW t \in Sessions, t # s, delivery[t] # 0
          PROVE  dlv'[<<t, delivery[t]>>] = dlv[<<t, delivery[t]>>]
        BY <1>4, SessionAssumption DEF StartDelivery, IInv, TypeOK, Ids
    <1>5. In' = In \cup {s} /\ s \notin In
        BY <1>1, <1>2 DEF InTransaction
    <1>6. IsFiniteSet(In) /\ \A d : IsFiniteSet(Of(d))
        BY SessionAssumption, FS_Subset
    <1>7. Cardinality(In') = Cardinality(In) + 1 /\ Cardinality(In) \in Nat
        BY <1>5, <1>6, CountOneMore
    <1>8. global' = Cardinality(In') /\ global' \in Nat
        BY <1>7 DEF StartDelivery, IInv, TokensMatch, TypeOK
    <1>9. ASSUME NEW d \in Senders
          PROVE  s \notin Of(d) /\ Of(d)' = IF d = f THEN Of(d) \cup {s} ELSE Of(d)
        <2>1. s \notin Of(d)
            BY DEF InTransaction
        <2>2. ASSUME NEW t \in Sessions
              PROVE  t \in Of(d)' <=> t \in Of(d) \/ (t = s /\ d = f)
            <3>1. CASE t = s
                BY <1>1, <1>3, <2>1, <3>1 DEF InTransaction, Current
            <3>2. CASE t # s
                BY <1>2, <1>4, <3>2 DEF InTransaction, Current
            <3> QED
                BY <3>1, <3>2
        <2>3. Of(d) \subseteq Sessions /\ Of(d)' \subseteq Sessions
            OBVIOUS
        <2> HIDE DEF Of
        <2> QED
            BY <2>1, <2>2, <2>3
    <1>10. ASSUME NEW d \in Senders
           PROVE  /\ Cardinality(Of(d)) \in Nat
                  /\ Cardinality(Of(d)') = IF d = f THEN Cardinality(Of(d)) + 1 ELSE Cardinality(Of(d))
        <2> HIDE DEF Of, f
        <2>1. IsFiniteSet(Of(d)) /\ s \notin Of(d)
            BY <1>6, <1>9
        <2>2. CASE d = f
            BY <1>9, <2>1, <2>2, CountOneMore
        <2>3. CASE d # f
            BY <1>9, <2>1, <2>3, FS_CardinalityType
        <2> QED
            BY <2>2, <2>3
    <1>11. ASSUME NEW d \in Senders
           PROVE  /\ source[d] \in Nat
                  /\ source'[d] = IF d = f THEN source[d] + 1 ELSE source[d]
                  /\ IF endpoint.deferReject THEN source[d] = Cardinality(Of(d))
                                             ELSE source[d] >= Cardinality(Of(d))
        BY DEF StartDelivery, IInv, TokensMatch, HeldFrom, TypeOK
    <1>12. ASSUME NEW d \in Senders
           PROVE  /\ source'[d] \in Nat
                  /\ IF endpoint.deferReject THEN source'[d] = Cardinality(Of(d)')
                                             ELSE source'[d] >= Cardinality(Of(d)')
        <2> HIDE DEF Of, f
        <2> QED
            BY <1>10, <1>11
    <1>13. source' \in [Senders -> Nat]
        BY <1>12 DEF StartDelivery, IInv, TypeOK
    <1> QED
        BY <1>8, <1>12, <1>13 DEF TokensMatch, HeldFrom

(* A step that starts and ends no transaction takes and releases nothing. *)
LEMMA SameCounts ==
    ASSUME IInv, endpoint' = endpoint, delivery' = delivery, global' = global, source' = source,
           \A s \in Sessions : delivery[s] # 0 =>
               dlv'[<<s, delivery[s]>>].from = dlv[<<s, delivery[s]>>].from
    PROVE  TokensMatch'
    <1>1. \A d \in Senders : HeldFrom(d)' = HeldFrom(d)
        BY DEF HeldFrom, InTransaction, Current
    <1> QED
        BY <1>1 DEF IInv, TokensMatch, InTransaction

------------------------------------------------------------------------------
(* The actions, one lemma for each way they touch the session *)

(* A transaction ends: Data, or Reset or Logout with a delivery. *)
LEMMA CleanStep ==
    ASSUME IInv, NEW s \in Sessions, delivery[s] # 0, CleanSession(s), endpoint' = endpoint,
           NEW st \in {"aborted", "committed", "dropped"},
           dlv' = [dlv EXCEPT ![Current(s)] = Ended(st)]
    PROVE  /\ mailFrom' \in [Sessions -> Senders] /\ delivery' \in [Sessions -> 0 .. MaxMsgs]
           /\ deliveryErr' \in [Sessions -> BOOLEAN] /\ started' \in [Sessions -> 0 .. MaxMsgs]
           /\ dlv' \in [Ids -> [st : {"none", "open", "aborted", "committed", "dropped"},
                                from : Senders, rcpts : SUBSET Rcpts]]
           /\ global' \in Nat /\ source' \in [Senders -> Nat] /\ buckets' = buckets
           /\ TokensMatch'
           /\ delivery'[s] = 0
           /\ \A t \in Sessions \ {s} :
                /\ mailFrom'[t] = mailFrom[t] /\ delivery'[t] = delivery[t]
                /\ \A n \in 1 .. MaxMsgs : dlv'[<<t, n>>] = dlv[<<t, n>>]
    <1>1. TokensMatch' /\ global' \in Nat /\ source' \in [Senders -> Nat]
        BY CleanCounts
    <1>2. /\ mailFrom' \in [Sessions -> Senders] /\ delivery' \in [Sessions -> 0 .. MaxMsgs]
          /\ deliveryErr' \in [Sessions -> BOOLEAN] /\ started' \in [Sessions -> 0 .. MaxMsgs]
          /\ buckets' = buckets /\ delivery'[s] = 0
          /\ \A t \in Sessions \ {s} : mailFrom'[t] = mailFrom[t] /\ delivery'[t] = delivery[t]
        BY SessionAssumption DEF CleanSession, ReleaseLimits, IInv, TypeOK
    <1>3. dlv' \in [Ids -> [st : {"none", "open", "aborted", "committed", "dropped"},
                            from : Senders, rcpts : SUBSET Rcpts]]
        BY RecordTypes DEF IInv, TypeOK
    <1>4. \A t \in Sessions \ {s} : \A n \in 1 .. MaxMsgs : dlv'[<<t, n>>] = dlv[<<t, n>>]
        BY DEF IInv, TypeOK, Ids, Current
    <1> QED
        BY <1>1, <1>2, <1>3, <1>4

(* A transaction starts: MailStarts, RcptStarts. *)
LEMMA StartStep ==
    ASSUME IInv, NEW s \in Sessions, delivery[s] = 0, endpoint' = endpoint,
           NEW from \in Senders, NEW to \in SUBSET Rcpts, StartDelivery(s, from, to)
    PROVE  /\ delivery' \in [Sessions -> 0 .. MaxMsgs] /\ started' \in [Sessions -> 0 .. MaxMsgs]
           /\ dlv' \in [Ids -> [st : {"none", "open", "aborted", "committed", "dropped"},
                                from : Senders, rcpts : SUBSET Rcpts]]
           /\ global' \in Nat /\ source' \in [Senders -> Nat]
           /\ buckets' \subseteq Senders /\ buckets \subseteq buckets' /\ BucketsOK'
           /\ TokensMatch'
           /\ delivery'[s] # 0
           /\ dlv'[<<s, delivery'[s]>>] =
                [st |-> "open", from |-> CleanDomain[from], rcpts |-> to]
           /\ CleanDomain[from] \in buckets'
           /\ \A t \in Sessions \ {s} :
                /\ delivery'[t] = delivery[t]
                /\ \A n \in 1 .. MaxMsgs : dlv'[<<t, n>>] = dlv[<<t, n>>]
    <1> DEFINE n == started[s] + 1
    <1>1. TokensMatch' /\ global' \in Nat /\ source' \in [Senders -> Nat]
        BY StartCounts
    <1>2. n \in 1 .. MaxMsgs
        BY SessionAssumption DEF StartDelivery, IInv, TypeOK
    <1>3. /\ CleanDomain[from] \in Senders
          /\ CleanDomain[CleanDomain[from]] = CleanDomain[from]
        BY SessionAssumption
    <1>4. /\ delivery' \in [Sessions -> 0 .. MaxMsgs] /\ started' \in [Sessions -> 0 .. MaxMsgs]
          /\ delivery'[s] = n
          /\ \A t \in Sessions \ {s} : delivery'[t] = delivery[t]
        BY <1>2 DEF StartDelivery, IInv, TypeOK
    <1>5. /\ buckets' \subseteq Senders /\ buckets \subseteq buckets' /\ BucketsOK'
          /\ CleanDomain[from] \in buckets'
        BY <1>3 DEF StartDelivery, IInv, TypeOK, BucketsOK
    <1>6. /\ dlv' \in [Ids -> [st : {"none", "open", "aborted", "committed", "dropped"},
                              from : Senders, rcpts : SUBSET Rcpts]]
          /\ dlv'[<<s, n>>] = [st |-> "open", from |-> CleanDomain[from], rcpts |-> to]
        BY <1>2, <1>3 DEF StartDelivery, IInv, TypeOK, Ids
    <1>7. \A t \in Sessions \ {s} : \A k \in 1 .. MaxMsgs : dlv'[<<t, k>>] = dlv[<<t, k>>]
        BY DEF StartDelivery, IInv, TypeOK, Ids
    <1> QED
        BY <1>1, <1>2, <1>4, <1>5, <1>6, <1>7

(* A step of one session keeps the invariant if it keeps the session's part *)
(* of it, the counts and the types, and touches no other session.           *)
LEMMA Assemble ==
    ASSUME IInv, NEW s \in Sessions, TypeOK', endpoint' = endpoint,
           buckets \subseteq buckets', BucketsOK', TokensMatch', SessOK(s)',
           \A t \in Sessions \ {s} : Untouched(t)
    PROVE  IInv'
    <1>1. ASSUME NEW t \in Sessions, t # s PROVE SessOK(t)'
        BY <1>1, UntouchedOK
    <1> QED
        BY <1>1 DEF IInv

(* A connection accepted or refused (NewSession) preserves the invariant. *)
LEMMA NewSessionStep ==
    ASSUME IInv, NEW s \in Sessions, NewSession(s) \/ NewSessionRefused(s)
    PROVE  IInv'
    <1>1. TypeOK'
        <2>1. conn' \in [Sessions -> {"none", "refused", "open", "closed"}] /\ sessionCnt' \in Int
            BY DEF IInv, TypeOK, NewSession, NewSessionRefused
        <2> QED
            BY <2>1 DEF IInv, TypeOK, NewSession, NewSessionRefused, sessVars, limitVars
    <1>2. TokensMatch' /\ BucketsOK'
        BY SameCounts DEF IInv, BucketsOK, NewSession, NewSessionRefused, sessVars, limitVars
    <1>3. SessOK(s)'
        BY CommandTypes, RecordTypes
        DEF IInv, TypeOK, SessOK, OpenOK, DeliveryOK, EndsOK, Current,
            NewSession, NewSessionRefused, sessVars, limitVars
    <1>4. endpoint' = endpoint /\ buckets' = buckets /\ \A t \in Sessions \ {s} : Untouched(t)
        BY DEF Untouched, IInv, TypeOK, NewSession, NewSessionRefused, sessVars, limitVars
    <1> QED
        BY <1>1, <1>2, <1>3, <1>4, Assemble

(* Reading the next command preserves the invariant. *)
LEMMA ReceiveStep ==
    ASSUME IInv, NEW s \in Sessions, Receive(s)
    PROVE  IInv'
    <1>1. TypeOK'
        BY DEF IInv, TypeOK, Receive, sessVars, limitVars
    <1>2. TokensMatch' /\ BucketsOK'
        BY SameCounts DEF IInv, BucketsOK, Receive, sessVars, limitVars
    <1>3. SessOK(s)'
        BY CommandTypes
        DEF IInv, TypeOK, SessOK, OpenOK, DeliveryOK, EndsOK, Current, Receive, sessVars, limitVars
    <1>4. endpoint' = endpoint /\ buckets' = buckets /\ \A t \in Sessions \ {s} : Untouched(t)
        BY DEF Untouched, IInv, TypeOK, Receive, sessVars, limitVars
    <1> QED
        BY <1>1, <1>2, <1>3, <1>4, Assemble

(* Handlers that leave the delivery alone: the sender is refused or kept    *)
(* for later, a recipient is refused, the body is not read.                 *)
LEMMA QuietStep ==
    ASSUME IInv, NEW s \in Sessions,
           \/ MailStartFails(s) \/ MailNeedsAuth(s) \/ MailDeferred(s) \/ RcptStartFails(s)
           \/ RcptFailsAgain(s) \/ RcptRefused(s) \/ DataUnread(s) \/ DataPanics(s)
    PROVE  IInv'
    <1> USE DEF MailStartFails, MailNeedsAuth, MailDeferred, RcptStartFails, RcptFailsAgain,
                RcptRefused, DataUnread, DataPanics, Answered, sessVars, limitVars
    <1>1. /\ endpoint' = endpoint /\ conn' = conn /\ delivery' = delivery /\ started' = started
          /\ dlv' = dlv /\ global' = global /\ source' = source /\ sessionCnt' = sessionCnt
        BY DEF StartDeliveryFails
    <1>2. /\ cmd[s].op = "mail" => cmd[s].from \in Senders
          /\ mailFrom[s] \in Senders
        BY CommandTypes DEF IInv, TypeOK
    <1>3. /\ buckets \subseteq buckets' /\ buckets' \subseteq Senders /\ BucketsOK'
        BY <1>2, SessionAssumption DEF StartDeliveryFails, IInv, TypeOK, BucketsOK
    <1>4. /\ cmd' \in [Sessions -> Commands]
          /\ cmd'[s] \in {Idle, [op |-> "reset"]} /\ \A t \in Sessions \ {s} : cmd'[t] = cmd[t]
        BY CommandTypes DEF IInv, TypeOK
    <1>5. /\ mailFrom' \in [Sessions -> Senders] /\ deliveryErr' \in [Sessions -> BOOLEAN]
          /\ asked' \in [Sessions -> [mail : BOOLEAN, from : Senders, rcpts : SUBSET Rcpts]]
          /\ \A t \in Sessions \ {s} : mailFrom'[t] = mailFrom[t] /\ asked'[t] = asked[t]
        <2>1. CASE MailDeferred(s)
            BY <1>2, <2>1 DEF IInv, TypeOK
        <2>2. CASE ~MailDeferred(s)
            <3>1. mailFrom' = mailFrom /\ asked' = asked
                BY <2>2
            <3>2. deliveryErr' \in [Sessions -> BOOLEAN]
                BY <2>2 DEF IInv, TypeOK
            <3> QED
                BY <3>1, <3>2 DEF IInv, TypeOK
        <2> QED
            BY <2>1, <2>2
    <1>6. TypeOK'
        BY <1>1, <1>3, <1>4, <1>5 DEF IInv, TypeOK
    <1>7. TokensMatch'
        BY <1>1, SameCounts
    <1>8. \A t \in Sessions \ {s} : Untouched(t)
        BY <1>1, <1>4, <1>5 DEF Untouched
    <1>9. cmd'[s].op \in {"idle", "reset"} /\ cmd[s] # Idle
        BY <1>4, CommandTypes DEF IInv, TypeOK
    <1>10. conn[s] = "open" /\ delivery[s] # 0 =>
              asked'[s] = asked[s] /\ mailFrom'[s] = mailFrom[s]
        BY DEF IInv, SessOK, OpenOK
    <1>11. conn[s] = "open" /\ delivery[s] = 0 /\ cmd'[s].op # "reset" =>
              /\ asked'[s].rcpts = {}
              /\ asked'[s].mail => mailFrom'[s] = asked'[s].from
        <2>1. CASE MailDeferred(s)
            BY <1>2, <2>1 DEF IInv, TypeOK
        <2>2. CASE ~MailDeferred(s)
            <3>1. mailFrom' = mailFrom /\ asked' = asked
                BY <2>2
            <3>2. cmd[s].op = "reset" => FALSE
                OBVIOUS
            <3> QED
                BY <3>1, <3>2 DEF IInv, SessOK, OpenOK
        <2> QED
            BY <2>1, <2>2
    <1>12. (conn[s] = "open" => OpenOK(s))'
        BY <1>1, <1>9, <1>10, <1>11 DEF IInv, SessOK, OpenOK, Current
    <1>13. DeliveryOK(s)' /\ EndsOK(s)'
        BY <1>1, <1>3, <1>9, <1>10 DEF IInv, TypeOK, SessOK, DeliveryOK, EndsOK, Current
    <1> QED
        BY <1>1, <1>3, <1>6, <1>7, <1>8, <1>12, <1>13, Assemble DEF SessOK

(* RCPT adding a recipient to the open delivery preserves the invariant. *)
LEMMA AddStep ==
    ASSUME IInv, NEW s \in Sessions, RcptAdds(s)
    PROVE  IInv'
    <1> DEFINE n == delivery[s]
    <1>1. cmd[s].to \in Rcpts /\ n \in 1 .. MaxMsgs /\ <<s, n>> \in Ids
        BY CommandTypes, SessionAssumption DEF RcptAdds, IInv, TypeOK, Ids
    <1>2. /\ dlv' \in [Ids -> [st : {"none", "open", "aborted", "committed", "dropped"},
                              from : Senders, rcpts : SUBSET Rcpts]]
          /\ dlv'[<<s, n>>] = [dlv[<<s, n>>] EXCEPT !.rcpts = @ \cup {cmd[s].to}]
          /\ \A t \in Sessions \ {s} : \A k \in 1 .. MaxMsgs : dlv'[<<t, k>>] = dlv[<<t, k>>]
        <2> DEFINE v == [dlv[<<s, n>>] EXCEPT !.rcpts = @ \cup {cmd[s].to}]
        <2>1. v \in [st : {"none", "open", "aborted", "committed", "dropped"},
                     from : Senders, rcpts : SUBSET Rcpts]
            BY <1>1 DEF IInv, TypeOK
        <2>2. dlv' = [dlv EXCEPT ![<<s, n>>] = v]
            BY DEF RcptAdds, Current
        <2> HIDE DEF v
        <2>3. dlv' \in [Ids -> [st : {"none", "open", "aborted", "committed", "dropped"},
                                from : Senders, rcpts : SUBSET Rcpts]]
              /\ dlv'[<<s, n>>] = v
            BY <1>1, <2>1, <2>2 DEF IInv, TypeOK
        <2>4. \A t \in Sessions \ {s} : \A k \in 1 .. MaxMsgs : dlv'[<<t, k>>] = dlv[<<t, k>>]
            BY <2>2 DEF IInv, TypeOK, Ids
        <2> QED
            BY <2>3, <2>4 DEF v
    <1>3. /\ dlv'[<<s, n>>].st = dlv[<<s, n>>].st
          /\ dlv'[<<s, n>>].from = dlv[<<s, n>>].from
          /\ dlv'[<<s, n>>].rcpts = dlv[<<s, n>>].rcpts \cup {cmd[s].to}
        BY <1>1, <1>2 DEF IInv, TypeOK
    <1>4. /\ asked' \in [Sessions -> [mail : BOOLEAN, from : Senders, rcpts : SUBSET Rcpts]]
          /\ asked'[s].rcpts = asked[s].rcpts \cup {cmd[s].to}
          /\ asked'[s].from = asked[s].from /\ asked'[s].mail = asked[s].mail
          /\ \A t \in Sessions \ {s} : asked'[t] = asked[t]
        BY <1>1 DEF RcptAdds, IInv, TypeOK
    <1>5. /\ cmd' \in [Sessions -> Commands] /\ cmd'[s] = Idle
          /\ \A t \in Sessions \ {s} : cmd'[t] = cmd[t]
        BY CommandTypes DEF RcptAdds, Answered, IInv, TypeOK
    <1>6. /\ endpoint' = endpoint /\ conn' = conn /\ delivery' = delivery /\ started' = started
          /\ mailFrom' = mailFrom /\ deliveryErr' = deliveryErr
          /\ global' = global /\ source' = source /\ buckets' = buckets /\ sessionCnt' = sessionCnt
        BY DEF RcptAdds, sessVars, limitVars
    <1>7. TypeOK'
        BY <1>2, <1>4, <1>5, <1>6 DEF IInv, TypeOK
    <1>8. \A t \in Sessions \ {s} : Untouched(t)
        BY <1>2, <1>4, <1>5, <1>6 DEF Untouched
    <1>9. TokensMatch'
        <2>1. ASSUME NEW t \in Sessions, delivery[t] # 0
              PROVE  dlv'[<<t, delivery[t]>>].from = dlv[<<t, delivery[t]>>].from
            <3>1. delivery[t] \in 1 .. MaxMsgs
                BY <2>1, SessionAssumption DEF IInv, TypeOK
            <3> QED
                BY <1>2, <1>3, <3>1
        <2> QED
            BY <1>6, <2>1, SameCounts
    <1>10. SessOK(s)'
        BY <1>3, <1>4, <1>5, <1>6, CommandTypes
        DEF RcptAdds, IInv, SessOK, OpenOK, DeliveryOK, EndsOK, Current
    <1> QED
        BY <1>6, <1>7, <1>8, <1>9, <1>10, Assemble DEF IInv, BucketsOK
(* The first RCPT of a deferred transaction, or a MAIL, starts the delivery. *)
LEMMA StartsStep ==
    ASSUME IInv, NEW s \in Sessions, MailStarts(s) \/ RcptStarts(s)
    PROVE  IInv'
    <1>1. PICK from \in Senders, to \in SUBSET Rcpts :
            /\ StartDelivery(s, from, to)
            /\ delivery[s] = 0 /\ cmd[s] # Idle /\ conn[s] = "open" => asked'[s].mail
            /\ asked' \in [Sessions -> [mail : BOOLEAN, from : Senders, rcpts : SUBSET Rcpts]]
            /\ conn[s] = "open" => CleanDomain[asked'[s].from] = CleanDomain[from]
            /\ conn[s] = "open" => asked'[s].rcpts = to
            /\ mailFrom' \in [Sessions -> Senders]
            /\ CleanDomain[mailFrom'[s]] = CleanDomain[from]
            /\ endpoint.deferReject => mailFrom'[s] = CleanDomain[mailFrom'[s]]
            /\ \A t \in Sessions \ {s} : asked'[t] = asked[t] /\ mailFrom'[t] = mailFrom[t]
        <2>1. CASE MailStarts(s)
            <3>1. cmd[s].from \in Senders /\ cmd[s] # Idle
                BY <2>1, CommandTypes DEF MailStarts, IInv, TypeOK
            <3>2. {} \in SUBSET Rcpts /\ StartDelivery(s, cmd[s].from, {}) /\ ~endpoint.deferReject
                BY <2>1 DEF MailStarts
            <3>3. mailFrom'[s] = cmd[s].from /\ mailFrom' \in [Sessions -> Senders]
                BY <2>1, <3>1 DEF MailStarts, IInv, TypeOK
            <3>4. /\ asked'[s] = [mail |-> TRUE, from |-> cmd[s].from, rcpts |-> {}]
                  /\ asked' \in [Sessions -> [mail : BOOLEAN, from : Senders, rcpts : SUBSET Rcpts]]
                BY <2>1, <3>1 DEF MailStarts, IInv, TypeOK
            <3>5. \A t \in Sessions \ {s} : asked'[t] = asked[t] /\ mailFrom'[t] = mailFrom[t]
                BY <2>1 DEF MailStarts, IInv, TypeOK
            <3> QED
                BY <3>1, <3>2, <3>3, <3>4, <3>5
        <2>2. CASE RcptStarts(s)
            <3>1. cmd[s].to \in Rcpts /\ cmd[s] # Idle /\ mailFrom[s] \in Senders
                BY <2>2, CommandTypes DEF RcptStarts, IInv, TypeOK
            <3>2. PICK to \in SUBSET Rcpts :
                    /\ StartDelivery(s, mailFrom[s], to)
                    /\ asked' = [asked EXCEPT ![s].rcpts = @ \cup to]
                BY <2>2, <3>1 DEF RcptStarts
            <3>3. mailFrom'[s] = CleanDomain[mailFrom[s]] /\ mailFrom' \in [Sessions -> Senders]
                BY <2>2, <3>1, SessionAssumption DEF RcptStarts, IInv, TypeOK
            <3>4. CleanDomain[CleanDomain[mailFrom[s]]] = CleanDomain[mailFrom[s]]
                BY <3>1, SessionAssumption
            <3>5. /\ asked'[s].mail = asked[s].mail /\ asked'[s].from = asked[s].from
                  /\ asked'[s].rcpts = asked[s].rcpts \cup to
                  /\ asked' \in [Sessions -> [mail : BOOLEAN, from : Senders, rcpts : SUBSET Rcpts]]
                BY <3>2 DEF IInv, TypeOK
            <3>6. conn[s] = "open" =>
                    /\ asked[s].mail /\ mailFrom[s] = asked[s].from /\ asked[s].rcpts = {}
                BY <2>2 DEF RcptStarts, IInv, SessOK, OpenOK
            <3>7. \A t \in Sessions \ {s} : asked'[t] = asked[t] /\ mailFrom'[t] = mailFrom[t]
                BY <2>2, <3>2 DEF RcptStarts, IInv, TypeOK
            <3> QED
                BY <3>1, <3>2, <3>3, <3>4, <3>5, <3>6, <3>7
        <2> QED
            BY <2>1, <2>2
    <1>2. delivery[s] = 0 /\ cmd[s] # Idle
        <2>1. cmd[s] # Idle /\ (MailStarts(s) => cmd[s].op = "mail")
            BY CommandTypes DEF MailStarts, RcptStarts
        <2>2. RcptStarts(s) => delivery[s] = 0
            BY DEF RcptStarts
        <2>3. conn[s] \in {"none", "refused", "open", "closed"}
            BY DEF IInv, TypeOK
        <2> QED
            BY <2>1, <2>2, <2>3 DEF IInv, SessOK, OpenOK, EndsOK
    <1>3. /\ endpoint' = endpoint /\ conn' = conn /\ deliveryErr' = deliveryErr
          /\ sessionCnt' = sessionCnt /\ cmd' = [cmd EXCEPT ![s] = Idle]
        BY DEF MailStarts, RcptStarts, Answered
    <1>4. cmd' \in [Sessions -> Commands] /\ cmd'[s] = Idle /\ \A t \in Sessions \ {s} : cmd'[t] = cmd[t]
        BY <1>3, CommandTypes DEF IInv, TypeOK
    <1>5. /\ delivery' \in [Sessions -> 0 .. MaxMsgs] /\ started' \in [Sessions -> 0 .. MaxMsgs]
          /\ dlv' \in [Ids -> [st : {"none", "open", "aborted", "committed", "dropped"},
                               from : Senders, rcpts : SUBSET Rcpts]]
          /\ global' \in Nat /\ source' \in [Senders -> Nat]
          /\ buckets' \subseteq Senders /\ buckets \subseteq buckets' /\ BucketsOK'
          /\ TokensMatch'
          /\ delivery'[s] # 0
          /\ dlv'[<<s, delivery'[s]>>] = [st |-> "open", from |-> CleanDomain[from], rcpts |-> to]
          /\ CleanDomain[from] \in buckets'
          /\ \A t \in Sessions \ {s} :
                /\ delivery'[t] = delivery[t]
                /\ \A n \in 1 .. MaxMsgs : dlv'[<<t, n>>] = dlv[<<t, n>>]
        BY <1>1, <1>2, <1>3, StartStep
    <1>6. TypeOK'
        BY <1>1, <1>3, <1>4, <1>5 DEF IInv, TypeOK
    <1>7. \A t \in Sessions \ {s} : Untouched(t)
        BY <1>1, <1>3, <1>4, <1>5 DEF Untouched
    <1>8. (conn[s] = "open" => OpenOK(s))' /\ DeliveryOK(s)'
        BY <1>1, <1>2, <1>3, <1>4, <1>5, CommandTypes DEF OpenOK, DeliveryOK, Current
    <1>9. EndsOK(s)'
        BY <1>2, <1>3, <1>4 DEF IInv, SessOK, EndsOK
    <1> QED
        BY <1>3, <1>5, <1>6, <1>7, <1>8, <1>9, Assemble DEF SessOK
(* DATA ends the transaction, RSET and the end of the connection abort it. *)
LEMMA EndsStep ==
    ASSUME IInv, NEW s \in Sessions, Logout(s) \/ Data(s) \/ Reset(s)
    PROVE  IInv'
    <1>1. /\ endpoint' = endpoint
          /\ conn' \in [Sessions -> {"none", "refused", "open", "closed"}]
          /\ cmd' \in [Sessions -> Commands]
          /\ asked' \in [Sessions -> [mail : BOOLEAN, from : Senders, rcpts : SUBSET Rcpts]]
          /\ sessionCnt' \in Int
          /\ \A t \in Sessions \ {s} : conn'[t] = conn[t] /\ cmd'[t] = cmd[t] /\ asked'[t] = asked[t]
        <2>1. CASE Logout(s)
            BY <2>1, RecordTypes DEF Logout, IInv, TypeOK
        <2>2. CASE Data(s)
            BY <2>2, CommandTypes DEF Data, IInv, TypeOK
        <2>3. CASE Reset(s)
            BY <2>3, CommandTypes, RecordTypes DEF Reset, Answered, IInv, TypeOK
        <2> QED
            BY <2>1, <2>2, <2>3
    <1>2. /\ mailFrom' \in [Sessions -> Senders] /\ delivery' \in [Sessions -> 0 .. MaxMsgs]
          /\ deliveryErr' \in [Sessions -> BOOLEAN] /\ started' \in [Sessions -> 0 .. MaxMsgs]
          /\ dlv' \in [Ids -> [st : {"none", "open", "aborted", "committed", "dropped"},
                               from : Senders, rcpts : SUBSET Rcpts]]
          /\ global' \in Nat /\ source' \in [Senders -> Nat] /\ buckets' = buckets
          /\ TokensMatch'
          /\ delivery'[s] = 0
          /\ \A t \in Sessions \ {s} :
                /\ mailFrom'[t] = mailFrom[t] /\ delivery'[t] = delivery[t]
                /\ \A n \in 1 .. MaxMsgs : dlv'[<<t, n>>] = dlv[<<t, n>>]
        <2>1. CASE delivery[s] # 0
            <3>1. PICK st \in {"aborted", "committed", "dropped"} :
                    CleanSession(s) /\ dlv' = [dlv EXCEPT ![Current(s)] = Ended(st)]
                BY <2>1 DEF Logout, Data, Reset, AbortIfStarted, Abort
            <3> QED
                BY <1>1, <2>1, <3>1, CleanStep
        <2>2. CASE delivery[s] = 0
            <3>1. UNCHANGED <<sessVars, limitVars, dlv>>
                BY <2>2 DEF Logout, Data, Reset, AbortIfStarted
            <3>2. TokensMatch'
                BY <1>1, <3>1, SameCounts DEF sessVars, limitVars
            <3> QED
                BY <2>2, <3>1, <3>2 DEF sessVars, limitVars, IInv, TypeOK
        <2> QED
            BY <2>1, <2>2
    <1>3. TypeOK' /\ BucketsOK'
        BY <1>1, <1>2 DEF IInv, TypeOK, BucketsOK
    <1>4. \A t \in Sessions \ {s} : Untouched(t)
        BY <1>1, <1>2 DEF Untouched
    <1>5. SessOK(s)'
        <2>1. CASE Logout(s)
            <3>1. conn'[s] = "closed" /\ cmd'[s] = cmd[s] /\ (cmd[s] = Idle \/ endpoint.asyncClose)
                BY <2>1 DEF Logout, IInv, TypeOK
            <3> QED
                BY <1>1, <1>2, <3>1 DEF SessOK, DeliveryOK, EndsOK
        <2>2. CASE Data(s)
            <3>1. cmd'[s].op = "reset" /\ conn' = conn /\ cmd[s] # Idle /\ delivery[s] # 0
                BY <2>2, CommandTypes DEF Data, IInv, TypeOK
            <3>2. conn[s] = "open"
                BY <3>1 DEF IInv, TypeOK, SessOK, EndsOK
            <3> QED
                BY <1>1, <1>2, <3>1, <3>2 DEF SessOK, DeliveryOK, EndsOK, OpenOK
        <2>3. CASE Reset(s)
            <3>1. cmd'[s] = Idle /\ conn' = conn /\ cmd[s] # Idle /\ asked'[s] = NoMail
                BY <2>3, CommandTypes DEF Reset, Answered, IInv, TypeOK
            <3> QED
                BY <1>1, <1>2, <3>1, CommandTypes, RecordTypes
                DEF IInv, SessOK, DeliveryOK, EndsOK, OpenOK
        <2> QED
            BY <2>1, <2>2, <2>3
    <1> QED
        BY <1>1, <1>2, <1>3, <1>4, <1>5, Assemble

(* No session has started: the invariant holds. *)
LEMMA InitStep ==
    ASSUME Init
    PROVE  IInv
    <1>1. TypeOK
        BY SessionAssumption, CommandTypes, RecordTypes
        DEF Init, TypeOK, NotStarted
    <1>2. ASSUME NEW s \in Sessions PROVE SessOK(s)
        BY <1>2, CommandTypes, RecordTypes DEF Init, SessOK, OpenOK, DeliveryOK, EndsOK
    <1>3. BucketsOK
        BY DEF Init, BucketsOK
    <1>4. TokensMatch
        <2>1. \A s \in Sessions : ~InTransaction(s)
            BY DEF Init, InTransaction
        <2>2. /\ {s \in Sessions : InTransaction(s)} = {}
              /\ \A d : {s \in Sessions : InTransaction(s) /\ dlv[Current(s)].from = d} = {}
            BY <2>1
        <2>3. Cardinality({s \in Sessions : InTransaction(s)}) = 0 /\ \A d : HeldFrom(d) = 0
            BY <2>2, FS_EmptySet DEF HeldFrom
        <2> QED
            BY <2>3 DEF Init, TokensMatch
    <1> QED
        BY <1>1, <1>2, <1>3, <1>4 DEF IInv

(* Every command of every session, and every bucket expiry, preserves the invariant. *)
LEMMA NextStep ==
    ASSUME IInv, [Next]_vars
    PROVE  IInv'
    <1>1. CASE Next
        <2>1. PICK s \in Sessions :
                \/ NewSession(s) \/ NewSessionRefused(s) \/ Logout(s) \/ Receive(s)
                \/ MailStarts(s) \/ MailStartFails(s) \/ MailNeedsAuth(s) \/ MailDeferred(s)
                \/ RcptStarts(s) \/ RcptStartFails(s) \/ RcptFailsAgain(s) \/ RcptAdds(s)
                \/ RcptRefused(s) \/ Data(s) \/ DataUnread(s) \/ DataPanics(s) \/ Reset(s)
            BY <1>1 DEF Next
        <2> QED
            BY <2>1, NewSessionStep, ReceiveStep, QuietStep, AddStep, StartsStep, EndsStep
    <1>2. CASE UNCHANGED vars
        BY <1>2 DEF vars, sessVars, limitVars, IInv, TypeOK, SessOK, OpenOK, DeliveryOK, EndsOK,
                    BucketsOK, TokensMatch, HeldFrom, InTransaction, Current
    <1> QED
        BY <1>1, <1>2

------------------------------------------------------------------------------
(* Theorems *)

(* The inductive invariant holds in every behaviour of the endpoint. *)
THEOREM SessionInvariant == Spec => []IInv
    <1>1. Init => IInv
        BY InitStep
    <1>2. IInv /\ [Next]_vars => IInv'
        BY NextStep
    <1> QED
        BY <1>1, <1>2, PTL DEF Spec

(* The fields of the sessions and of go-smtp keep their types; in           *)
(* particular releaseLimits never takes a place from an empty limit.        *)
THEOREM SessionTypeOK == Spec => []TypeOK
    <1>1. IInv => TypeOK
        BY DEF IInv
    <1> QED
        BY <1>1, SessionInvariant, PTL

(* The places taken in the flow limits are exactly those of the             *)
(* transactions that have a delivery, by global count and by source domain, *)
(* and never fewer where the raw domain is released (releaseLimits).        *)
THEOREM SessionTokensMatch == Spec => []TokensMatch
    <1>1. IInv => TokensMatch
        BY DEF IInv
    <1> QED
        BY <1>1, SessionInvariant, PTL

(* Between two commands the delivery has the sender of the last MAIL and    *)
(* exactly the recipients answered with 250 since (Mail, Rcpt, Data, Reset  *)
(* of the session).                                                         *)
THEOREM SessionEnvelopeAgrees == Spec => []EnvelopeAgrees
    <1>1. ASSUME IInv PROVE EnvelopeAgrees
        <2>1. SUFFICES ASSUME NEW s \in Sessions, conn[s] = "open", cmd[s] = Idle
                       PROVE  IF InTransaction(s)
                              THEN /\ asked[s].mail
                                   /\ dlv[Current(s)] = [st |-> "open",
                                        from |-> CleanDomain[asked[s].from], rcpts |-> asked[s].rcpts]
                              ELSE asked[s].rcpts = {}
            BY DEF EnvelopeAgrees
        <2>2. OpenOK(s) /\ DeliveryOK(s) /\ cmd[s].op # "reset"
            BY <1>1, <2>1, CommandTypes DEF IInv, SessOK
        <2>3. CASE InTransaction(s)
            <3>1. Current(s) \in Ids
                BY <1>1, <2>3, SessionAssumption DEF InTransaction, IInv, TypeOK, Current, Ids
            <3>2. dlv[Current(s)] \in [st : {"none", "open", "aborted", "committed", "dropped"},
                                       from : Senders, rcpts : SUBSET Rcpts]
                BY <1>1, <3>1 DEF IInv, TypeOK
            <3> QED
                BY <2>2, <2>3, <3>2 DEF OpenOK, DeliveryOK, InTransaction
        <2>4. CASE ~InTransaction(s)
            BY <2>2, <2>4 DEF OpenOK, InTransaction
        <2> QED
            BY <2>3, <2>4
    <1> QED
        BY <1>1, SessionInvariant, PTL

(* A session that ended owns no delivery, unless the server's Close may     *)
(* overtake a command (Logout).                                             *)
THEOREM SessionClosedOwnsNothing == Spec => []ClosedOwnsNothing
    <1>1. IInv => ClosedOwnsNothing
        BY DEF IInv, SessOK, EndsOK, ClosedOwnsNothing, NothingSurvivesClose, InTransaction
    <1> QED
        BY <1>1, SessionInvariant, PTL

==============================================================================
