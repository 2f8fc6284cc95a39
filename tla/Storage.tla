------------------------------- MODULE Storage -------------------------------
(***************************************************************************)
(* Deliveries of storage.imapsql.  A delivery collects the accounts of its *)
(* recipients, lets the IMAP filters choose a folder for each, hands the   *)
(* message to go-imap-sql and commits.  The accounts are created and       *)
(* removed meanwhile by another process (`imap-acct').  go-imap-sql is     *)
(* external: it commits a message to all mailboxes or to none.             *)
(***************************************************************************)
EXTENDS Naturals, Sequences, FiniteSets

CONSTANTS Dlvs,          \* deliveries
          RcptTos,       \* recipient addresses, normalised
          DeliveryMap,   \* delivery_map: a partial function from them to accounts
          Accts,         \* account names
          Filters,       \* the number of configured IMAP filters
          Folders,       \* the folders a filter may name
          Originals,     \* MsgMetadata.OriginalRcpts: a partial function on addresses
          AcctChanges    \* Cap: accounts created or removed by the tool

ASSUME StorageAssumption == Filters \in Nat

VARIABLES dlv,           \* delivery -> its record
          stored,        \* delivery -> the sequence of <<account, folder>> in the database
          accts,         \* the accounts that exist
          acctChanges    \* the changes made to them

storeVars == <<dlv, stored, accts, acctChanges>>

-----------------------------------------------------------------------------
(* Deliveries. *)

NewDelivery == [pc |-> "idle", quarantine |-> FALSE, told |-> {}, addedRcpts |-> {},
                users |-> <<>>, folder |-> [a \in Accts |-> "INBOX"]]

Dlv(d, r) == dlv' = [dlv EXCEPT ![d] = r]

StartDlv(d) ==
    /\ dlv[d].pc = "idle"
    /\ \E q \in BOOLEAN : Dlv(d, [NewDelivery EXCEPT !.pc = "rcpts", !.quarantine = q])
    /\ UNCHANGED <<stored, accts, acctChanges>>

\* An account that was added is not added again.  Mutant: it is.
AddedAgain(r, a) == [r EXCEPT !.addedRcpts = @ \cup {a}, !.users = Append(@, a)]
Added(r, a) == IF a \in r.addedRcpts THEN r
               ELSE [r EXCEPT !.addedRcpts = @ \cup {a}, !.users = Append(@, a)]

\* deliveryNormalize: the account that delivery_map names.
Account(rcpt) == DeliveryMap[rcpt]

\* delivery.AddRcpt; the map or the database may fail.
AddRcptTo(d) ==
    /\ dlv[d].pc = "rcpts"
    /\ \E rcpt \in RcptTos \ dlv[d].told :
         /\ rcpt \in DOMAIN DeliveryMap
         /\ Account(rcpt) \in dlv[d].addedRcpts \cup accts
         /\ Dlv(d, [Added(dlv[d], Account(rcpt)) EXCEPT !.told = @ \cup {rcpt}])
    /\ UNCHANGED <<stored, accts, acctChanges>>

\* imap_filter/command expandCommand follows the originals of {original_rcpt_to}
\* until there is none: that ends when the addresses on the way are distinct.
OriginalEnds(rcpt) ==
    \E n \in 0..Cardinality(DOMAIN Originals) :
      \E path \in [0..n -> RcptTos] :
        /\ path[0] = rcpt /\ path[n] \notin DOMAIN Originals
        /\ \A i \in 0..n - 1 : path[i] \in DOMAIN Originals /\ path[i + 1] = Originals[path[i]]

\* imap_filter Group.IMAPFilter: the first folder that a filter names; a
\* filter that fails is passed over.
FinalFolder(results) ==
    LET named == {i \in DOMAIN results : results[i] \notin {"", "failed"}}
    IN IF named = {} THEN "INBOX" ELSE results[CHOOSE i \in named : \A j \in named : i <= j]

FilterResults == [1..Filters -> Folders \cup {"", "failed"}]

\* delivery.Body: filters for a message that is not quarantined, the Junk
\* mailbox for one that is.
Filed(r, results) ==
    IF r.quarantine THEN [r EXCEPT !.folder = [a \in Accts |-> "Junk"]]
    ELSE IF Filters = 0 THEN r
    ELSE [r EXCEPT !.folder = [a \in Accts |-> IF a \in r.addedRcpts THEN FinalFolder(results[a])
                                               ELSE @[a]]]
BodyBegins(d) ==
    /\ dlv[d].pc = "rcpts" /\ dlv[d].told # {}
    /\ Dlv(d, [dlv[d] EXCEPT !.pc = "filters"])
    /\ UNCHANGED <<stored, accts, acctChanges>>
BodyDlv(d) ==
    /\ dlv[d].pc = "filters"
    /\ \/ dlv[d].quarantine \/ Filters = 0
       \/ \A rcpt \in dlv[d].told : OriginalEnds(rcpt)
    /\ \E results \in [Accts -> FilterResults], fails \in BOOLEAN :
         Dlv(d, [Filed(dlv[d], results) EXCEPT !.pc = IF fails THEN "failed" ELSE "body"])
    /\ UNCHANGED <<stored, accts, acctChanges>>

\* go-imap-sql commits all mailboxes in one transaction, or none.
CommitDlv(d) ==
    LET r == dlv[d] IN
    /\ r.pc = "body"
    /\ \E fails \in BOOLEAN :
         IF fails THEN Dlv(d, [r EXCEPT !.pc = "failed"]) /\ UNCHANGED stored
         ELSE /\ stored' = [stored EXCEPT ![d] = [i \in DOMAIN r.users |-> <<r.users[i], r.folder[r.users[i]]>>]]
              /\ Dlv(d, [NewDelivery EXCEPT !.pc = "committed", !.quarantine = r.quarantine, !.told = r.told])
    /\ UNCHANGED <<accts, acctChanges>>

AbortDlv(d) ==
    /\ dlv[d].pc \in {"rcpts", "failed", "body"}
    /\ Dlv(d, [NewDelivery EXCEPT !.pc = "aborted"])
    /\ UNCHANGED <<stored, accts, acctChanges>>

\* CreateIMAPAcct and DeleteIMAPAcct of the `imap-acct' command.
ChangeAcct ==
    /\ acctChanges < AcctChanges /\ acctChanges' = acctChanges + 1
    /\ \E a \in Accts : accts' = IF a \in accts THEN accts \ {a} ELSE accts \cup {a}
    /\ UNCHANGED <<dlv, stored>>

-----------------------------------------------------------------------------
StoreInit ==
    /\ dlv = [d \in Dlvs |-> NewDelivery] /\ stored = [d \in Dlvs |-> <<>>]
    /\ accts = Accts /\ acctChanges = 0

StoreNext ==
    \/ \E d \in Dlvs : \/ StartDlv(d) \/ AddRcptTo(d) \/ BodyBegins(d) \/ BodyDlv(d)
                       \/ CommitDlv(d) \/ AbortDlv(d)
    \/ ChangeAcct

\* A delivery's goroutine runs, and the filter's command ends.
StoreFair == \A d \in Dlvs : WF_storeVars(BodyDlv(d))

-----------------------------------------------------------------------------
(* Properties. *)

\* A committed message is once in each account that an accepted recipient
\* maps to and nowhere else, in Junk when it is quarantined and where the
\* filters said otherwise; a message that was not committed is nowhere
\* (delivery.go AddRcpt, Body, Commit).
StoredOnce ==
    \A d \in Dlvs :
      LET mine == {Account(r) : r \in dlv[d].told} IN
      IF dlv[d].pc = "committed"
      THEN /\ \A a \in Accts : Cardinality({i \in DOMAIN stored[d] : stored[d][i][1] = a})
                               = IF a \in mine THEN 1 ELSE 0
           /\ \A i \in DOMAIN stored[d] : dlv[d].quarantine <=> stored[d][i][2] = "Junk"
      ELSE stored[d] = <<>>

\* An expectation the code does not meet when two addresses were rewritten to
\* each other: the filtering of a message ends, although the command's {original_rcpt_to}
\* follows the history of the recipient (command.go expandCommand).
FilteringEnds == \A d \in Dlvs : dlv[d].pc = "filters" ~> dlv[d].pc # "filters"
=============================================================================
