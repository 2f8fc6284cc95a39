---------------------------- MODULE AccountsProofs ----------------------------
(***************************************************************************)
(* Theorems about what stands behind the endpoints for a local user: who   *)
(* is let in, how the directory is searched, where a message is stored,    *)
(* what a relay reports of it and what the sessions are told by other      *)
(* processes, for any configuration, any number of logins, deliveries and  *)
(* tools, and back ends, servers and networks that may fail at every step. *)
(*                                                                         *)
(* The components share no state, so each has an invariant of its own, and *)
(* a step of one leaves the variables of the others alone.                 *)
(***************************************************************************)
EXTENDS Accounts, FiniteSetTheorems, WellFoundedInduction, TLAPS

(***************************************************************************)
(* Logins.                                                                 *)
(*                                                                         *)
(* A login walks through the providers, and at most one login at a time    *)
(* through the directory.  What it may conclude at the end depends on what *)
(* it found on the way: Progress says what a login's record shows of that. *)
(***************************************************************************)

LoginFields == {"pc", "given", "user", "word", "name", "prov", "tab", "pas", "op", "dn", "res"}

(* The login has, or waits for, the connection to the directory. *)
InLock(r) == r.pc \in {"conn", "search", "bind", "return"}
InDirectory(r) == r.pc = "lock" \/ InLock(r)

(* It asks for the name, or for the password. *)
AsksName(r) == r.pc = "table" \/ (InDirectory(r) /\ r.op = "lookup")
AsksWord(r) == r.pc = "pass" \/ (InDirectory(r) /\ r.op = "auth")

(* An entry for the name that has the password. *)
DirVouches(n, w) == \E d \in Entries(n) \cup {n} : <<d, w>> \in DirWords

Progress(c, r) ==
    LET provider == c.providers[r.prov] IN
    /\ DOMAIN r = LoginFields
    /\ r.pc \in {"mapFirst", "map"} \/ AsksName(r) \/ AsksWord(r) => r.prov \in DOMAIN c.providers
    /\ AsksName(r) => r.tab \in DOMAIN provider.users
    /\ AsksWord(r) => r.pas \in DOMAIN provider.pass /\ Listed(provider.users, r.name)
    /\ InDirectory(r) => \/ r.op = "lookup" /\ provider.users[r.tab].kind = "ldap"
                         \/ r.op = "auth" /\ provider.pass[r.pas] = "ldap"
    /\ r.pc = "bind" => r.op = "auth" /\ r.dn \in Entries(r.name) \cup {r.name}
    /\ r.pc = "return" =>
         /\ r.res \in {"ok", "no", "err"}
         /\ r.res = "ok" => IF r.op = "lookup" THEN Single(Entries(r.name))
                            ELSE DirVouches(r.name, r.word)

(* Every provider has a back end: a plain_separate block without one lets   *)
(* in whoever its tables know, with any password.                           *)
PassConfigured(c) == \A i \in DOMAIN c.providers : c.providers[i].pass # <<>>

(* The conclusion of VouchedFor for one login. *)
Vouched(c, h, n, w) ==
    \E i \in DOMAIN c.providers :
      /\ Listed(c.providers[i].users, n)
      /\ \E j \in DOMAIN c.providers[i].pass : Vouches(c, h, c.providers[i].pass[j], n, w)
Deserved(c, h, r) == PassConfigured(c) /\ r.pc \in {"open", "in"} => Vouched(c, h, r.name, r.word)

(* What the table of hashes holds now is among what the login may rely on. *)
Active(r) == r.pc \notin {"idle"} \cup Ended

(* connLock, and the bind of the connection while nobody tries a password. *)
LockOK == \A l \in Logins : InLock(login[l]) => dirLock = l
BindOK ==
    /\ DOMAIN dirConn = {"open", "bound", "nil"}
    /\ lcfg.bind # "off" /\ dirConn.open /\ (\A l \in Logins : login[l].pc # "return")
         => dirConn.bound = Reader

AuthInv ==
    /\ lcfg \in LoginCfgs
    /\ DOMAIN login = Logins /\ DOMAIN held = Logins
    /\ \A l \in Logins : /\ Progress(lcfg, login[l])
                         /\ Deserved(lcfg, held[l], login[l])
                         /\ Active(login[l]) => Pairs(hashes) \subseteq held[l]
    /\ LockOK
    /\ BindOK

------------------------------------------------------------------------------
(***************************************************************************)
(* Deliveries into mailboxes.                                              *)
(***************************************************************************)

Boxes == Folders \cup {"INBOX", "Junk"}
DlvPcs == {"idle", "rcpts", "filters", "failed", "body", "committed", "aborted"}
Deliveries == [pc : DlvPcs, quarantine : BOOLEAN, told : SUBSET RcptTos,
               addedRcpts : SUBSET Accts, users : Seq(Accts), folder : [Accts -> Boxes]]

(* The accounts of a delivery are those of its recipients, each once. *)
UsersOK(users, added, told) ==
    /\ \A i, j \in DOMAIN users : users[i] = users[j] => i = j
    /\ added = {users[i] : i \in DOMAIN users}
    /\ added = {Account(t) : t \in told}

DlvOK(d, r) ==
    /\ r.pc # "committed" => UsersOK(r.users, r.addedRcpts, r.told) /\ stored[d] = <<>>
    /\ r.pc \in {"idle", "rcpts", "filters"} => \A a \in Accts : r.folder[a] = "INBOX"
    /\ r.pc = "body" => \A a \in r.addedRcpts : r.quarantine <=> r.folder[a] = "Junk"

StoreInv ==
    /\ accts \subseteq Accts
    /\ dlv \in [Dlvs -> Deliveries]
    /\ DOMAIN stored = Dlvs
    /\ \A d \in Dlvs : DlvOK(d, dlv[d])
    /\ StoredOnce

------------------------------------------------------------------------------
(***************************************************************************)
(* The relay.                                                              *)
(***************************************************************************)

Reported == ({Sendable(r) : r \in RelayRcpts} \cup RelayRcpts) \X BOOLEAN

RelayInv ==
    /\ DOMAIN relay = {"pc", "endp", "rcpts", "indx", "body"}
    /\ relay.rcpts \in Seq(RelayRcpts)
    /\ relay.indx \in Nat
    /\ statuses \in Seq(Reported)
    /\ conns \subseteq {relay.endp}
    /\ relay.pc \in {"idle", "dial", "refused", "ended"} => conns = {}
    /\ relay.pc # "ended" => relay.body = "none"
    /\ relay.pc = "taken" => AllSent \subseteq taken
    /\ relay.pc \notin {"lmtp", "answered", "panicked", "ended"} => statuses = <<>> /\ relay.indx = 0
    /\ relay.pc = "lmtp" =>
         /\ relay.indx < Len(relay.rcpts)
         /\ Len(statuses) = relay.indx
         /\ \A i \in DOMAIN statuses : statuses[i][1] = SentForm(i)
    /\ RelaySettled

------------------------------------------------------------------------------
(***************************************************************************)
(* The update pipe.                                                        *)
(*                                                                         *)
(* An update of a tool is in one place at most: in the tool's channel, on  *)
(* the line, in the server's channel, or told.                             *)
(***************************************************************************)

Updates == [from : Procs, n : Nat, key : Keys \cup {""}]

In(u, s) == \E i \in DOMAIN s : s[i] = u
Once(s) == \A i, j \in DOMAIN s : s[i] = s[j] /\ s[i] # Torn => i = j

PipeTypes ==
    /\ DOMAIN srv = {"pc", "pipe", "carrier", "made", "crashes"} /\ srv.made \in Nat
    /\ DOMAIN tool = StoreTools
    /\ \A t \in StoreTools : /\ DOMAIN tool[t] = {"pc", "key", "pipe", "linked", "made"}
                            /\ tool[t].made \in Nat /\ tool[t].key \in Keys \cup {""}
    /\ outbound \in [Procs -> Seq(Updates)]
    /\ line \in [Procs -> Seq(Updates \cup {Torn})]
    /\ inbound \in Seq(Updates)
    /\ seen \subseteq Updates

(* The changes a process has made. *)
Made(p) == IF p = Server THEN srv.made ELSE tool[p].made

NumbersOK ==
    /\ \A p \in Procs : \A u \in Updates : In(u, outbound[p]) \/ In(u, line[p]) => u.from = p /\ u.n <= Made(p)
    /\ \A u \in Updates : In(u, inbound) => u.from \in StoreTools /\ u.n <= Made(u.from)
    /\ \A u \in seen : u.n <= Made(u.from)

PlacesOK ==
    /\ Once(inbound)
    /\ \A u \in Updates : In(u, inbound) => u \notin seen
    /\ \A t \in StoreTools :
         /\ Once(outbound[t]) /\ Once(line[t])
         /\ \A u \in Updates :
              /\ In(u, outbound[t]) => ~In(u, line[t]) /\ ~In(u, inbound) /\ u \notin seen
              /\ In(u, line[t]) => ~In(u, inbound) /\ u \notin seen

PipeInv == PipeTypes /\ NumbersOK /\ PlacesOK /\ ToldOnce
------------------------------------------------------------------------------
(* The relay: proofs. *)

LEMMA ListConcat ==
    ASSUME NEW S, NEW s \in Seq(S), NEW t \in Seq(S)
    PROVE  /\ s \o t \in Seq(S)
           /\ Len(s \o t) = Len(s) + Len(t)
           /\ \A i \in 1..Len(s) : (s \o t)[i] = s[i]
           /\ \A i \in Len(s) + 1..Len(s) + Len(t) : (s \o t)[i] = t[i - Len(s)]
    OBVIOUS

(* The recipients after the first k. *)
LEMMA ListRest ==
    ASSUME NEW S, NEW s \in Seq(S), NEW k \in Nat, k < Len(s)
    PROVE  /\ SubSeq(s, k + 1, Len(s)) \in Seq(S)
           /\ Len(SubSeq(s, k + 1, Len(s))) = Len(s) - k
           /\ \A i \in 1..Len(s) - k : SubSeq(s, k + 1, Len(s))[i] = s[k + i]
    <1>1. Len(s) \in Nat /\ k + 1 \in 1..Len(s)
        OBVIOUS
    <1> QED
        BY <1>1

(* A refusal for every recipient of a list. *)
LEMMA Refusals ==
    ASSUME NEW t \in Seq(RelayRcpts)
    PROVE  /\ [i \in DOMAIN t |-> <<t[i], FALSE>>] \in Seq(Reported)
           /\ Len([i \in DOMAIN t |-> <<t[i], FALSE>>]) = Len(t)
           /\ \A i \in 1..Len(t) : [j \in DOMAIN t |-> <<t[j], FALSE>>][i] = <<t[i], FALSE>>
    <1> DEFINE s == [i \in DOMAIN t |-> <<t[i], FALSE>>]
    <1>1. Len(t) \in Nat /\ DOMAIN t = 1..Len(t) /\ \A i \in 1..Len(t) : t[i] \in RelayRcpts
        OBVIOUS
    <1>2. \A i \in 1..Len(t) : s[i] = <<t[i], FALSE>> /\ <<t[i], FALSE>> \in Reported
        BY <1>1 DEF Reported
    <1>3. s \in [1..Len(t) -> Reported]
        BY <1>1, <1>2
    <1> HIDE DEF s
    <1>4. s \in Seq(Reported) /\ Len(s) = Len(t)
        BY <1>1, <1>3
    <1> QED
        BY <1>2, <1>4 DEF s

LEMMA RelayInitially == RelayInit => RelayInv
    BY DEF RelayInit, RelayInv, RelaySettled, AllSent, SentForm

(* The steps before the body leave the recipients, and what was said of     *)
(* them, alone.                                                             *)
LEMMA RelayConnects ==
    ASSUME RelayInv,
           StartRelay \/ Dial \/ Hello \/ StartTLS \/ Authenticate \/ Mail
    PROVE  RelayInv'
    <1>1. PICK r : relay' = r
        OBVIOUS
    <1>2. /\ relay.pc \in {"idle", "dial", "hello", "tls", "auth", "mail"}
          /\ r.pc \in {"dial", "hello", "tls", "auth", "mail", "rcpts", "refused"}
          /\ DOMAIN r = DOMAIN relay
          /\ r.rcpts = relay.rcpts /\ r.indx = relay.indx /\ r.body = relay.body
          /\ taken' = taken /\ statuses' = statuses
          /\ conns' \subseteq {r.endp}
          /\ r.pc \in {"dial", "refused"} => conns' = {}
        BY <1>1 DEF RelayInv, StartRelay, Dial, Hello, StartTLS, Authenticate, Mail, Relay, To,
                    NextEndpoint, ConnectFails, OnlyConn
    <1> QED
        BY <1>1, <1>2 DEF RelayInv, RelaySettled, AllSent, SentForm

LEMMA RelayTakesRcpt == ASSUME RelayInv, RelayRcpt PROVE RelayInv'
    <1>1. PICK r \in RelayRcpts : relay' = [relay EXCEPT !.rcpts = Append(@, r)]
        BY DEF RelayRcpt, Relay
    <1>2. /\ relay.pc = "rcpts" /\ UNCHANGED <<rcfg, conns, taken, statuses>>
          /\ relay'.pc = "rcpts" /\ relay'.endp = relay.endp /\ relay'.indx = relay.indx
          /\ relay'.body = relay.body /\ DOMAIN relay' = DOMAIN relay
          /\ relay'.rcpts = Append(relay.rcpts, r)
        BY <1>1 DEF RelayInv, RelayRcpt
    <1>3. relay'.rcpts \in Seq(RelayRcpts)
        BY <1>2 DEF RelayInv
    <1> QED
        BY <1>2, <1>3 DEF RelayInv, RelaySettled, AllSent, SentForm

LEMMA RelayEnds == ASSUME RelayInv, EndRelay PROVE RelayInv'
    BY DEF RelayInv, EndRelay, Relay, RelaySettled, AllSent, SentForm

LEMMA RelaySendsBody == ASSUME RelayInv, RelayBody PROVE RelayInv'
    <1>1. PICK got \in SUBSET AllSent, ok \in BOOLEAN :
            /\ ok => got = AllSent
            /\ taken' = got
            /\ relay' = [relay EXCEPT !.pc = IF ok THEN "taken" ELSE "failed"]
        BY DEF RelayBody, Relay, To
    <1>2. /\ relay.pc = "rcpts" /\ UNCHANGED <<rcfg, conns, statuses>>
          /\ relay'.endp = relay.endp /\ relay'.indx = relay.indx
          /\ relay'.body = relay.body /\ DOMAIN relay' = DOMAIN relay
          /\ relay'.rcpts = relay.rcpts
          /\ relay'.pc = IF ok THEN "taken" ELSE "failed"
        BY <1>1 DEF RelayInv, RelayBody
    <1>3. AllSent' = AllSent
        BY <1>2 DEF AllSent, SentForm
    <1> QED
        BY <1>1, <1>2, <1>3 DEF RelayInv, RelaySettled, SentForm

(* A body that cannot be opened: everybody is told, nobody of success. *)
LEMMA RelayBodyUnread ==
    ASSUME RelayInv, RelayBodyNonAtomic
    PROVE  RelayInv'
    <1>1. /\ relay.pc = "rcpts" /\ statuses = <<>> /\ UNCHANGED <<rcfg, conns, taken>>
          /\ relay.rcpts \in Seq(RelayRcpts) /\ relay.rcpts # <<>> /\ relay.indx = 0
        BY DEF RelayInv, RelayBodyNonAtomic
    <1>2. CASE BodyOpens
        <2>1. relay' = [relay EXCEPT !.pc = "lmtp"] /\ statuses' = statuses
            BY <1>2 DEF RelayBodyNonAtomic, Relay, To
        <2>2. 0 < Len(relay.rcpts)
            BY <1>1
        <2> QED
            BY <1>1, <2>1, <2>2 DEF RelayInv, RelaySettled, AllSent, SentForm
    <1>3. CASE ~BodyOpens
        <2> DEFINE all == [i \in DOMAIN relay.rcpts |-> <<relay.rcpts[i], FALSE>>]
        <2>1. relay' = [relay EXCEPT !.pc = "panicked"] /\ statuses' = statuses \o all
            BY <1>3 DEF RelayBodyNonAtomic, Relay, To, Report
        <2>2. all \in Seq(Reported)
            BY <1>1, Refusals
        <2> HIDE DEF all
        <2>3. <<>> \o all = all
            BY <2>2
        <2>4. statuses' = all /\ \A i \in DOMAIN all : ~all[i][2]
            BY <1>1, <2>1, <2>3 DEF all
        <2> QED
            BY <1>1, <2>1, <2>2, <2>4 DEF RelayInv, RelaySettled, AllSent, SentForm
    <1> QED
        BY <1>2, <1>3

(* The server's answer for the next recipient. *)
LEMMA RelayAnswered == ASSUME RelayInv, LmtpStatus PROVE RelayInv'
    <1> DEFINE n == relay.indx + 1
    <1>1. PICK ok \in BOOLEAN :
            /\ statuses' = statuses \o << <<SentForm(n), ok>> >>
            /\ taken' = IF ok THEN taken \cup {SentForm(n)} ELSE taken
            /\ relay' = [relay EXCEPT !.indx = @ + 1,
                                      !.pc = IF n = Len(relay.rcpts) THEN "answered" ELSE "lmtp"]
        BY DEF LmtpStatus, Report, Relay
    <1>2. /\ relay.pc = "lmtp" /\ UNCHANGED conns
          /\ relay.indx \in Nat /\ relay.indx < Len(relay.rcpts)
          /\ relay.rcpts \in Seq(RelayRcpts) /\ statuses \in Seq(Reported)
          /\ Len(statuses) = relay.indx
        BY DEF RelayInv, LmtpStatus
    <1>3. relay.rcpts[n] \in RelayRcpts /\ n \in Nat
        BY <1>2
    <1> DEFINE s == << <<SentForm(n), ok>> >>
    <1>4. s \in Seq(Reported)
        <2>1. <<SentForm(n), ok>> \in Reported
            BY <1>1, <1>3 DEF Reported, SentForm
        <2> QED
            BY <2>1
    <1>5. Len(s) = 1 /\ s[1] = <<SentForm(n), ok>>
        OBVIOUS
    <1> HIDE DEF s
    <1>6. /\ statuses \o s \in Seq(Reported)
          /\ Len(statuses \o s) = Len(statuses) + Len(s)
          /\ \A i \in 1..Len(statuses) : (statuses \o s)[i] = statuses[i]
          /\ \A i \in Len(statuses) + 1..Len(statuses) + Len(s) : (statuses \o s)[i] = s[i - Len(statuses)]
        BY ONLY <1>2, <1>4, ListConcat
    <1>7. statuses' = statuses \o s
        BY <1>1 DEF s
    <1>8. /\ statuses' \in Seq(Reported) /\ Len(statuses') = n
          /\ \A i \in 1..relay.indx : statuses'[i] = statuses[i]
          /\ statuses'[n] = <<SentForm(n), ok>>
        <2> HIDE DEF SentForm
        <2>1. Len(statuses') = n /\ \A i \in 1..relay.indx : statuses'[i] = statuses[i]
            BY <1>2, <1>5, <1>6, <1>7
        <2>2. statuses'[n] = s[1]
            BY <1>2, <1>5, <1>6, <1>7
        <2> QED
            BY <1>5, <1>6, <1>7, <2>1, <2>2
    <1>9. /\ relay'.rcpts = relay.rcpts /\ relay'.indx = n /\ relay'.body = relay.body
          /\ relay'.endp = relay.endp /\ DOMAIN relay' = DOMAIN relay
          /\ relay'.pc = IF n = Len(relay.rcpts) THEN "answered" ELSE "lmtp"
        BY <1>1 DEF RelayInv
    <1> HIDE DEF n
    <1>10. /\ \A i \in DOMAIN statuses' : statuses'[i][1] = Sendable(relay.rcpts[i])
           /\ \A i \in DOMAIN statuses' : statuses'[i][2] => statuses'[i][1] \in taken'
        <2> SUFFICES ASSUME NEW i \in DOMAIN statuses'
                     PROVE  /\ statuses'[i][1] = Sendable(relay.rcpts[i])
                            /\ statuses'[i][2] => statuses'[i][1] \in taken'
            OBVIOUS
        <2>1. i \in 1..n
            BY <1>8
        <2>2. CASE i = n
            BY <1>1, <1>8, <2>2 DEF SentForm
        <2>3. CASE i # n
            <3>1. i \in 1..relay.indx /\ i \in DOMAIN statuses
                BY <1>2, <2>1, <2>3 DEF n
            <3> QED
                BY <1>1, <1>2, <1>8, <3>1 DEF RelayInv, RelaySettled, SentForm
        <2> QED
            BY <2>2, <2>3
    <1>11. n <= Len(relay.rcpts) /\ Len(relay.rcpts) \in Nat
        BY <1>2 DEF n
    <1> QED
        BY <1>2, <1>3, <1>8, <1>9, <1>10, <1>11 DEF RelayInv, RelaySettled, AllSent, SentForm

(* The server stops answering: the others get the error, each once. *)
LEMMA RelayBroken == ASSUME RelayInv, LmtpBreaks PROVE RelayInv'
    <1> DEFINE k == relay.indx
               m == Len(relay.rcpts)
               rest == SubSeq(relay.rcpts, k + 1, m)
               s == [i \in DOMAIN rest |-> <<rest[i], FALSE>>]
    <1>1. /\ relay.pc = "lmtp" /\ UNCHANGED conns
          /\ k \in Nat /\ k < m /\ m \in Nat
          /\ relay.rcpts \in Seq(RelayRcpts) /\ statuses \in Seq(Reported)
          /\ Len(statuses) = k
          /\ taken \subseteq taken'
          /\ statuses' = statuses \o s
          /\ relay' = [relay EXCEPT !.pc = "answered"]
        BY DEF RelayInv, LmtpBreaks, Unanswered, Report, Relay, To
    <1>2. /\ rest \in Seq(RelayRcpts) /\ Len(rest) = m - k
          /\ \A i \in 1..m - k : rest[i] = relay.rcpts[k + i]
        BY ONLY <1>1, ListRest
    <1>3. s \in Seq(Reported) /\ Len(s) = m - k /\ \A i \in 1..m - k : s[i] = <<relay.rcpts[k + i], FALSE>>
        <2> HIDE DEF rest, k, m
        <2>1. s \in Seq(Reported) /\ Len(s) = Len(rest) /\ \A i \in 1..Len(rest) : s[i] = <<rest[i], FALSE>>
            BY ONLY <1>2, Refusals
        <2> HIDE DEF s
        <2> QED
            BY ONLY <1>2, <2>1
    <1> HIDE DEF rest, s
    <1>4. /\ statuses \o s \in Seq(Reported)
          /\ Len(statuses \o s) = Len(statuses) + Len(s)
          /\ \A i \in 1..Len(statuses) : (statuses \o s)[i] = statuses[i]
          /\ \A i \in Len(statuses) + 1..Len(statuses) + Len(s) : (statuses \o s)[i] = s[i - Len(statuses)]
        BY ONLY <1>1, <1>3, ListConcat
    <1> HIDE DEF k, m
    <1>5. /\ statuses' \in Seq(Reported) /\ Len(statuses') = m
          /\ \A i \in 1..k : statuses'[i] = statuses[i]
          /\ \A i \in k + 1..m : statuses'[i] = <<relay.rcpts[i], FALSE>>
        <2>1. Len(statuses') = m /\ \A i \in 1..k : statuses'[i] = statuses[i]
            BY <1>1, <1>3, <1>4
        <2>2. ASSUME NEW i \in k + 1..m PROVE statuses'[i] = <<relay.rcpts[i], FALSE>>
            <3>1. i - k \in 1..m - k /\ k + (i - k) = i
                BY <1>1
            <3>2. statuses'[i] = s[i - k]
                BY <1>1, <1>3, <1>4
            <3> QED
                BY <1>3, <3>1, <3>2
        <2> QED
            BY <1>1, <1>4, <2>1, <2>2
    <1>6. /\ \A i \in DOMAIN statuses' : statuses'[i][1] \in {relay.rcpts[i], Sendable(relay.rcpts[i])}
          /\ \A i \in DOMAIN statuses' : statuses'[i][2] => statuses'[i][1] \in taken'
        <2> SUFFICES ASSUME NEW i \in DOMAIN statuses'
                     PROVE  /\ statuses'[i][1] \in {relay.rcpts[i], Sendable(relay.rcpts[i])}
                            /\ statuses'[i][2] => statuses'[i][1] \in taken'
            OBVIOUS
        <2>1. CASE i \in 1..k
            BY <1>1, <1>5, <2>1 DEF RelayInv, RelaySettled, SentForm
        <2>2. CASE i \in k + 1..m
            <3>1. statuses'[i] = <<relay.rcpts[i], FALSE>>
                BY <1>5, <2>2
            <3> QED
                BY <3>1
        <2> QED
            BY <1>1, <1>5, <2>1, <2>2
    <1>7. /\ relay'.rcpts = relay.rcpts /\ relay'.indx = relay.indx /\ relay'.body = relay.body
          /\ relay'.endp = relay.endp /\ DOMAIN relay' = DOMAIN relay /\ relay'.pc = "answered"
        BY <1>1 DEF RelayInv
    <1> QED
        BY <1>1, <1>5, <1>6, <1>7 DEF RelayInv, RelaySettled, AllSent, SentForm, m

LEMMA RelayStep == RelayInv /\ [RelayNext]_relayVars => RelayInv'
    <1> SUFFICES ASSUME RelayInv, [RelayNext]_relayVars PROVE RelayInv'
        OBVIOUS
    <1>1. CASE UNCHANGED relayVars
        BY <1>1 DEF relayVars, RelayInv, RelaySettled, AllSent, SentForm
    <1>2. CASE RelayNext
        BY <1>2, RelayConnects, RelayTakesRcpt, RelaySendsBody, RelayBodyUnread, RelayAnswered,
           RelayBroken, RelayEnds DEF RelayNext
    <1> QED
        BY <1>1, <1>2

------------------------------------------------------------------------------
(* Deliveries into mailboxes: proofs. *)

(* The first folder that a filter names is a folder that a filter names. *)
LEMMA FirstNamed ==
    ASSUME NEW results \in FilterResults
    PROVE  FinalFolder(results) \in Folders \cup {"INBOX"}
    <1> DEFINE named == {i \in DOMAIN results : results[i] \notin {"", "failed"}}
               first == CHOOSE i \in named : \A j \in named : i <= j
    <1>1. SUFFICES ASSUME named # {} PROVE results[first] \in Folders
        BY DEF FinalFolder
    <1>2. named \subseteq Nat
        <2>1. DOMAIN results = 1..Filters
            BY DEF FilterResults
        <2>2. named \subseteq 1..Filters
            BY <2>1
        <2> HIDE DEF named
        <2> QED
            BY <2>2, StorageAssumption
    <1>3. PICK i \in named : \A j \in named : <<j, i>> \notin OpToRel(<, Nat)
        BY <1>1, <1>2, NatLessThanWellFounded, WFMin
    <1>4. \A j \in named : i <= j
        <2>1. OpToRel(<, Nat) = {ss \in Nat \X Nat : ss[1] < ss[2]}
            BY DEF OpToRel
        <2>2. \A j \in named : <<j, i>> \notin {ss \in Nat \X Nat : ss[1] < ss[2]}
            BY <1>3, <2>1, Zenon
        <2> HIDE DEF named
        <2>3. \A j \in named : ~(j < i)
            BY <1>2, <2>2
        <2> QED
            BY <1>2, <2>3
    <1>5. first \in named
        BY <1>4
    <1> QED
        BY <1>5 DEF FilterResults

LEMMA StoreInitially == StoreInit => StoreInv
    BY DEF StoreInit, StoreInv, StoredOnce, DlvOK, UsersOK, Deliveries, DlvPcs, Boxes, NewDelivery

(* A delivery's record without accounts. *)
LEMMA NewDlv ==
    \E f \in [Accts -> Boxes] :
      /\ \A a \in Accts : f[a] = "INBOX"
      /\ NewDelivery = [pc |-> "idle", quarantine |-> FALSE, told |-> {}, addedRcpts |-> {},
                        users |-> <<>>, folder |-> f]
    <1>1. [a \in Accts |-> "INBOX"] \in [Accts -> Boxes]
        BY DEF Boxes
    <1> QED
        BY <1>1 DEF NewDelivery

LEMMA NoUsers ==
    ASSUME NEW r, r.users = <<>>, r.addedRcpts = {}, r.told = {}
    PROVE  UsersOK(r.users, r.addedRcpts, r.told)
    BY DEF UsersOK

(* A step of a delivery that commits nothing. *)
LEMMA DlvMoves ==
    ASSUME StoreInv, NEW d \in Dlvs, NEW r \in Deliveries, Dlv(d, r),
           UNCHANGED <<stored, accts>>, dlv[d].pc # "committed", r.pc # "committed",
           DlvOK(d, r)
    PROVE  StoreInv'
    <1>1. /\ dlv' \in [Dlvs -> Deliveries] /\ dlv'[d] = r
          /\ \A e \in Dlvs : e # d => dlv'[e] = dlv[e]
        BY DEF StoreInv, Dlv
    <1>2. ASSUME NEW e \in Dlvs PROVE DlvOK(e, dlv[e])'
        BY <1>1 DEF StoreInv, DlvOK, UsersOK, Account
    <1>3. StoredOnce'
        <2> SUFFICES ASSUME NEW e \in Dlvs, e # d
                     PROVE  IF dlv[e].pc = "committed"
                            THEN /\ \A a \in Accts : Cardinality({i \in DOMAIN stored[e] : stored[e][i][1] = a})
                                      = IF a \in {Account(t) : t \in dlv[e].told} THEN 1 ELSE 0
                                 /\ \A i \in DOMAIN stored[e] : dlv[e].quarantine <=> stored[e][i][2] = "Junk"
                            ELSE stored[e] = <<>>
            BY <1>1, <1>2 DEF StoredOnce, DlvOK, Account
        <2> QED
            BY DEF StoreInv, StoredOnce, Account
    <1> QED
        BY <1>1, <1>2, <1>3 DEF StoreInv

LEMMA DlvStarts == ASSUME StoreInv, NEW d \in Dlvs, StartDlv(d) PROVE StoreInv'
    <1>1. PICK q \in BOOLEAN : Dlv(d, [NewDelivery EXCEPT !.pc = "rcpts", !.quarantine = q])
        BY DEF StartDlv
    <1> DEFINE r == [NewDelivery EXCEPT !.pc = "rcpts", !.quarantine = q]
    <1>2. /\ r \in Deliveries /\ r.pc = "rcpts" /\ r.users = <<>> /\ r.addedRcpts = {} /\ r.told = {}
          /\ \A a \in Accts : r.folder[a] = "INBOX"
        <2>1. PICK f \in [Accts -> Boxes] :
                /\ \A a \in Accts : f[a] = "INBOX"
                /\ NewDelivery = [pc |-> "idle", quarantine |-> FALSE, told |-> {}, addedRcpts |-> {},
                                  users |-> <<>>, folder |-> f]
            BY NewDlv
        <2>2. <<>> \in Seq(Accts)
            OBVIOUS
        <2> QED
            BY <2>1, <2>2 DEF Deliveries, DlvPcs
    <1> HIDE DEF r
    <1>3. dlv[d].pc = "idle" /\ UNCHANGED <<stored, accts>> /\ stored[d] = <<>>
        BY DEF StartDlv, StoreInv, DlvOK
    <1>4. DlvOK(d, r)
        BY <1>2, <1>3, NoUsers DEF DlvOK
    <1> QED
        BY <1>1, <1>2, <1>3, <1>4, DlvMoves DEF r

(* An account that is added is new to the list. *)
LEMMA DlvAddsRcpt == ASSUME StoreInv, NEW d \in Dlvs, AddRcptTo(d) PROVE StoreInv'
    <1>1. PICK t \in RcptTos : /\ Account(t) \in dlv[d].addedRcpts \cup accts
                               /\ Dlv(d, [Added(dlv[d], Account(t)) EXCEPT !.told = @ \cup {t}])
        BY DEF AddRcptTo
    <1>2. PICK o \in Deliveries : o = dlv[d]
        BY DEF StoreInv
    <1>3. /\ o.pc = "rcpts" /\ UNCHANGED <<stored, accts>>
          /\ stored[d] = <<>> /\ UsersOK(o.users, o.addedRcpts, o.told) /\ \A a \in Accts : o.folder[a] = "INBOX"
        BY <1>2 DEF AddRcptTo, StoreInv, DlvOK
    <1>4. PICK a \in Accts : a = Account(t)
        BY <1>1, <1>2 DEF StoreInv, Deliveries
    <1>5. PICK r : r = [Added(o, a) EXCEPT !.told = @ \cup {t}]
        OBVIOUS
    <1>6. o.users \in Seq(Accts) /\ o.addedRcpts \subseteq Accts /\ o.told \subseteq RcptTos
        BY DEF Deliveries
    <1>7. /\ r \in Deliveries /\ r.pc = "rcpts" /\ r.folder = o.folder /\ r.told = o.told \cup {t}
          /\ r.addedRcpts = o.addedRcpts \cup {a}
          /\ r.users = IF a \in o.addedRcpts THEN o.users ELSE Append(o.users, a)
        <2>1. CASE a \in o.addedRcpts
            BY <1>3, <1>5, <2>1 DEF Added, Deliveries
        <2>2. CASE a \notin o.addedRcpts
            <3>1. Append(o.users, a) \in Seq(Accts)
                BY <1>6
            <3> HIDE DEF UsersOK
            <3>2. r = [[o EXCEPT !.addedRcpts = @ \cup {a}, !.users = Append(@, a)] EXCEPT !.told = @ \cup {t}]
                BY <1>5, <2>2 DEF Added
            <3> QED
                BY <1>3, <2>2, <3>1, <3>2 DEF Deliveries
        <2> QED
            BY <2>1, <2>2
    <1>8. /\ \A i, j \in DOMAIN r.users : r.users[i] = r.users[j] => i = j
          /\ r.addedRcpts = {r.users[i] : i \in DOMAIN r.users}
        <2>1. CASE a \in o.addedRcpts
            <3>1. r.users = o.users /\ r.addedRcpts = o.addedRcpts
                BY <1>7, <2>1
            <3>2. UsersOK(r.users, r.addedRcpts, o.told)
                BY <1>3, <3>1
            <3> QED
                BY <3>2 DEF UsersOK
        <2>2. CASE a \notin o.addedRcpts
            <3>1. PICK n \in Nat : n = Len(o.users)
                BY <1>6
            <3>2. /\ DOMAIN o.users = 1..n /\ DOMAIN r.users = 1..n + 1
                  /\ \A i \in 1..n : r.users[i] = o.users[i] /\ r.users[i] # a
                  /\ r.users[n + 1] = a
                <4>1. DOMAIN o.users = 1..n
                    BY <1>6, <3>1
                <4>2. \A i \in 1..n : o.users[i] # a
                    BY <1>3, <2>2, <4>1 DEF UsersOK
                <4>3. PICK us \in Seq(Accts) : us = o.users
                    BY <1>6
                <4>4. r.users = Append(us, a) /\ Len(us) = n
                    BY <1>7, <2>2, <3>1, <4>3
                <4>5. /\ DOMAIN Append(us, a) = 1..n + 1
                      /\ \A i \in 1..n : Append(us, a)[i] = us[i]
                      /\ Append(us, a)[n + 1] = a
                    BY ONLY <4>3, <4>4, <3>1
                <4> QED
                    BY <4>1, <4>2, <4>3, <4>4, <4>5
            <3>3. 1..n + 1 = 1..n \cup {n + 1}
                BY <3>1
            <3>4. o.addedRcpts = {o.users[i] : i \in 1..n}
                BY <1>3, <3>2 DEF UsersOK
            <3>5. \A i, j \in 1..n : o.users[i] = o.users[j] => i = j
                BY <1>3, <3>2 DEF UsersOK
            <3> QED
                BY <1>7, <3>2, <3>3, <3>4, <3>5
        <2> QED
            BY <2>1, <2>2
    <1>9. r.addedRcpts = {Account(u) : u \in r.told}
        BY <1>3, <1>4, <1>7 DEF UsersOK
    <1>10. DlvOK(d, r)
        BY <1>3, <1>7, <1>8, <1>9 DEF DlvOK, UsersOK
    <1>11. Dlv(d, r)
        BY <1>1, <1>2, <1>4, <1>5
    <1> QED
        BY <1>2, <1>3, <1>7, <1>10, <1>11, DlvMoves

LEMMA DlvBegins == ASSUME StoreInv, NEW d \in Dlvs, BodyBegins(d) PROVE StoreInv'
    <1>1. PICK o \in Deliveries : o = dlv[d]
        BY DEF StoreInv
    <1>2. PICK r : r = [o EXCEPT !.pc = "filters"]
        OBVIOUS
    <1>3. /\ o.pc = "rcpts" /\ UNCHANGED <<stored, accts>> /\ Dlv(d, r)
          /\ stored[d] = <<>> /\ UsersOK(o.users, o.addedRcpts, o.told) /\ \A a \in Accts : o.folder[a] = "INBOX"
        BY <1>1, <1>2 DEF BodyBegins, StoreInv, DlvOK
    <1>4. r \in Deliveries /\ r.pc = "filters" /\ DlvOK(d, r)
        BY <1>2, <1>3 DEF Deliveries, DlvPcs, DlvOK, UsersOK
    <1> QED
        BY <1>1, <1>3, <1>4, DlvMoves

LEMMA DlvAborts == ASSUME StoreInv, NEW d \in Dlvs, AbortDlv(d) PROVE StoreInv'
    <1>1. PICK r : r = [NewDelivery EXCEPT !.pc = "aborted"]
        OBVIOUS
    <1>2. /\ dlv[d].pc # "committed" /\ UNCHANGED <<stored, accts>> /\ Dlv(d, r) /\ stored[d] = <<>>
        BY <1>1 DEF AbortDlv, StoreInv, DlvOK
    <1>3. r \in Deliveries /\ r.pc = "aborted" /\ DlvOK(d, r)
        <2>1. PICK f \in [Accts -> Boxes] :
                NewDelivery = [pc |-> "idle", quarantine |-> FALSE, told |-> {}, addedRcpts |-> {},
                               users |-> <<>>, folder |-> f]
            BY NewDlv
        <2>2. <<>> \in Seq(Accts)
            OBVIOUS
        <2>3. /\ r \in Deliveries /\ r.pc = "aborted" /\ r.told = {}
              /\ r.users = <<>> /\ r.addedRcpts = {}
            BY <1>1, <2>1, <2>2 DEF Deliveries, DlvPcs
        <2> QED
            BY <1>2, <2>3, NoUsers DEF DlvOK
    <1> QED
        BY <1>2, <1>3, DlvMoves

(* Folders are chosen for the accounts of the delivery.  That a message is  *)
(* in Junk only when it is quarantined supposes that no filter names Junk.  *)
LEMMA DlvFiled ==
    ASSUME StoreInv, "Junk" \notin Folders, NEW d \in Dlvs, BodyDlv(d)
    PROVE  StoreInv'
    <1>1. PICK o \in Deliveries : o = dlv[d]
        BY DEF StoreInv
    <1>2. PICK results \in [Accts -> FilterResults], fails \in BOOLEAN :
            Dlv(d, [Filed(o, results) EXCEPT !.pc = IF fails THEN "failed" ELSE "body"])
        BY <1>1 DEF BodyDlv
    <1>3. PICK r : r = [Filed(o, results) EXCEPT !.pc = IF fails THEN "failed" ELSE "body"]
        OBVIOUS
    <1>4. /\ o.pc = "filters" /\ UNCHANGED <<stored, accts>>
          /\ stored[d] = <<>> /\ UsersOK(o.users, o.addedRcpts, o.told) /\ \A a \in Accts : o.folder[a] = "INBOX"
        BY <1>1 DEF BodyDlv, StoreInv, DlvOK
    <1>5. \A a \in Accts : FinalFolder(results[a]) \in Folders \cup {"INBOX"}
        BY FirstNamed
    <1>6. /\ r \in Deliveries /\ r.pc \in {"failed", "body"} /\ r.quarantine = o.quarantine
          /\ r.told = o.told /\ r.users = o.users /\ r.addedRcpts = o.addedRcpts
          /\ \A a \in r.addedRcpts : r.quarantine <=> r.folder[a] = "Junk"
        <2>1. CASE o.quarantine
            BY <1>3, <2>1 DEF Filed, Deliveries, DlvPcs, Boxes
        <2>2. CASE ~o.quarantine /\ Filters = 0
            BY <1>3, <1>4, <2>2 DEF Filed, Deliveries, DlvPcs, Boxes
        <2>3. CASE ~o.quarantine /\ Filters # 0
            <3>1. PICK f : f = [a \in Accts |-> IF a \in o.addedRcpts THEN FinalFolder(results[a])
                                               ELSE o.folder[a]]
                OBVIOUS
            <3>2. f \in [Accts -> Boxes] /\ \A a \in Accts : f[a] # "Junk"
                BY <1>4, <1>5, <3>1 DEF Boxes, Deliveries
            <3>3. r = [o EXCEPT !.folder = f, !.pc = IF fails THEN "failed" ELSE "body"]
                BY <1>3, <2>3, <3>1 DEF Filed
            <3> QED
                BY <2>3, <3>2, <3>3 DEF Deliveries, DlvPcs
        <2> QED
            BY <2>1, <2>2, <2>3
    <1>7. DlvOK(d, r)
        <2>1. UsersOK(r.users, r.addedRcpts, r.told)
            BY <1>4, <1>6
        <2> QED
            BY <1>4, <1>6, <2>1 DEF DlvOK
    <1> QED
        BY <1>1, <1>2, <1>3, <1>4, <1>6, <1>7, DlvMoves

(* One mailbox for each account of the delivery. *)
LEMMA DlvCommits == ASSUME StoreInv, NEW d \in Dlvs, CommitDlv(d) PROVE StoreInv'
    <1>1. PICK o \in Deliveries : o = dlv[d]
        BY DEF StoreInv
    <1>2. o.pc = "body" /\ accts' = accts /\ UsersOK(o.users, o.addedRcpts, o.told) /\ stored[d] = <<>>
        BY <1>1 DEF CommitDlv, StoreInv, DlvOK
    <1>3. CASE Dlv(d, [o EXCEPT !.pc = "failed"]) /\ UNCHANGED stored
        <2>1. PICK r : r = [o EXCEPT !.pc = "failed"]
            OBVIOUS
        <2>2. /\ r \in Deliveries /\ r.pc = "failed"
              /\ r.told = o.told /\ r.users = o.users /\ r.addedRcpts = o.addedRcpts
            BY <2>1 DEF Deliveries, DlvPcs
        <2>3. UsersOK(r.users, r.addedRcpts, r.told)
            BY <1>2, <2>2
        <2>4. DlvOK(d, r)
            BY <1>2, <2>2, <2>3 DEF DlvOK
        <2> QED
            BY <1>1, <1>2, <1>3, <2>1, <2>2, <2>4, DlvMoves
    <1>4. CASE /\ stored' = [stored EXCEPT ![d] = [i \in DOMAIN o.users |-> <<o.users[i], o.folder[o.users[i]]>>]]
               /\ Dlv(d, [NewDelivery EXCEPT !.pc = "committed", !.quarantine = o.quarantine, !.told = o.told])
        <2>1. PICK r : r = [NewDelivery EXCEPT !.pc = "committed", !.quarantine = o.quarantine, !.told = o.told]
            OBVIOUS
        <2>2. PICK s : s = [i \in DOMAIN o.users |-> <<o.users[i], o.folder[o.users[i]]>>]
            OBVIOUS
        <2>3. r \in Deliveries /\ r.pc = "committed" /\ r.told = o.told /\ r.quarantine = o.quarantine
            <3>1. PICK f \in [Accts -> Boxes] :
                    NewDelivery = [pc |-> "idle", quarantine |-> FALSE, told |-> {}, addedRcpts |-> {},
                                   users |-> <<>>, folder |-> f]
                BY NewDlv
            <3>2. <<>> \in Seq(Accts)
                OBVIOUS
            <3> QED
                BY <2>1, <3>1, <3>2 DEF Deliveries, DlvPcs
        <2>4. /\ DOMAIN stored' = Dlvs /\ stored'[d] = s
              /\ \A e \in Dlvs : e # d => stored'[e] = stored[e]
            BY <1>4, <2>2 DEF StoreInv
        <2>5. /\ dlv' \in [Dlvs -> Deliveries] /\ dlv'[d] = r
              /\ \A e \in Dlvs : e # d => dlv'[e] = dlv[e]
            BY <1>4, <2>1, <2>3 DEF StoreInv, Dlv
        <2>6. ASSUME NEW e \in Dlvs PROVE DlvOK(e, dlv[e])'
            BY <2>3, <2>4, <2>5 DEF StoreInv, DlvOK, UsersOK, Account
        <2>7. \A i \in DOMAIN s : r.quarantine <=> s[i][2] = "Junk"
            <3> SUFFICES ASSUME NEW i \in DOMAIN o.users
                         PROVE  o.quarantine <=> o.folder[o.users[i]] = "Junk"
                BY <2>2, <2>3
            <3>1. o.users[i] \in o.addedRcpts
                BY <1>2 DEF UsersOK
            <3> QED
                BY <1>1, <1>2, <3>1 DEF StoreInv, DlvOK
        <2>8. ASSUME NEW a \in Accts
              PROVE  Cardinality({i \in DOMAIN s : s[i][1] = a}) = IF a \in {Account(t) : t \in r.told} THEN 1 ELSE 0
            <3>1. {i \in DOMAIN s : s[i][1] = a} = {i \in DOMAIN o.users : o.users[i] = a}
                BY <2>2
            <3>2. {Account(t) : t \in r.told} = {o.users[i] : i \in DOMAIN o.users}
                BY <1>2, <2>3 DEF UsersOK
            <3>3. CASE \E i \in DOMAIN o.users : o.users[i] = a
                <4>1. PICK i \in DOMAIN o.users : o.users[i] = a
                    BY <3>3
                <4>2. {j \in DOMAIN o.users : o.users[j] = a} = {i}
                    BY <1>2, <4>1 DEF UsersOK
                <4>3. Cardinality({i}) = 1
                    BY FS_Singleton
                <4>4. a \in {Account(t) : t \in r.told}
                    BY <3>2, <4>1
                <4> QED
                    BY <3>1, <4>2, <4>3, <4>4
            <3>4. CASE ~\E i \in DOMAIN o.users : o.users[i] = a
                <4>1. {j \in DOMAIN o.users : o.users[j] = a} = {}
                    BY <3>4
                <4>2. Cardinality({}) = 0
                    BY FS_EmptySet
                <4>3. a \notin {Account(t) : t \in r.told}
                    BY <3>2, <3>4
                <4> QED
                    BY <3>1, <4>1, <4>2, <4>3
            <3> QED
                BY <3>3, <3>4
        <2>9. StoredOnce'
            <3> SUFFICES ASSUME NEW e \in Dlvs
                         PROVE  IF dlv'[e].pc = "committed"
                                THEN /\ \A a \in Accts : Cardinality({i \in DOMAIN stored'[e] : stored'[e][i][1] = a})
                                          = IF a \in {Account(t) : t \in dlv'[e].told} THEN 1 ELSE 0
                                     /\ \A i \in DOMAIN stored'[e] : dlv'[e].quarantine <=> stored'[e][i][2] = "Junk"
                                ELSE stored'[e] = <<>>
                BY DEF StoredOnce, Account
            <3>1. CASE e = d
                BY <2>3, <2>4, <2>5, <2>7, <2>8, <3>1
            <3>2. CASE e # d
                BY <2>4, <2>5, <3>2 DEF StoreInv, StoredOnce
            <3> QED
                BY <3>1, <3>2
        <2> QED
            BY <1>2, <2>4, <2>5, <2>6, <2>9 DEF StoreInv
    <1> QED
        BY <1>1, <1>3, <1>4 DEF CommitDlv

LEMMA StoreStep == "Junk" \notin Folders /\ StoreInv /\ [StoreNext]_storeVars => StoreInv'
    <1> SUFFICES ASSUME "Junk" \notin Folders, StoreInv, [StoreNext]_storeVars PROVE StoreInv'
        OBVIOUS
    <1>1. CASE UNCHANGED storeVars
        BY <1>1 DEF storeVars, StoreInv, StoredOnce, DlvOK, UsersOK, Account
    <1>2. CASE ChangeAcct
        BY <1>2 DEF ChangeAcct, StoreInv, StoredOnce, DlvOK, UsersOK, Account
    <1>3. ASSUME NEW d \in Dlvs,
                 \/ StartDlv(d) \/ AddRcptTo(d) \/ BodyBegins(d) \/ BodyDlv(d)
                 \/ CommitDlv(d) \/ AbortDlv(d)
          PROVE  StoreInv'
        BY <1>3, DlvStarts, DlvAddsRcpt, DlvBegins, DlvFiled, DlvCommits, DlvAborts
    <1> QED
        BY <1>1, <1>2, <1>3 DEF StoreNext

------------------------------------------------------------------------------
(* Logins: proofs. *)

LEMMA ConfigType ==
    \A c \in LoginCfgs :
      /\ c.providers \in Seq(Providers)
      /\ \A i \in DOMAIN c.providers : /\ c.providers[i].users \in Seq(UserTables)
                                       /\ c.providers[i].pass \in Seq(Backends)
    <1> SUFFICES ASSUME NEW c \in LoginCfgs
                 PROVE  /\ c.providers \in Seq(Providers)
                        /\ \A i \in DOMAIN c.providers : /\ c.providers[i].users \in Seq(UserTables)
                                                         /\ c.providers[i].pass \in Seq(Backends)
        OBVIOUS
    <1>1. c.providers \in Seq(Providers)
        BY AuthAssumption
    <1>2. \A i \in DOMAIN c.providers : c.providers[i] \in Providers
        BY <1>1
    <1> QED
        BY <1>1, <1>2 DEF Providers

(* A back end that answers "ok" vouches for the password. *)
LEMMA AnswerVouches ==
    ASSUME NEW h, Pairs(hashes) \subseteq h, NEW n, NEW w, NEW kind \in Backends, kind # "ldap",
           "ok" \in Answers(kind, n, w)
    PROVE  Vouches(lcfg, h, kind, n, w)
    <1>1. CASE kind = "table"
        <2>1. "ok" \in TableAnswers(n, w)
            BY <1>1 DEF Answers
        <2>2. <<Folded(n), w>> \in h
            BY <2>1 DEF TableAnswers, Pairs
        <2> QED
            BY <1>1, <2>2 DEF Vouches
    <1>2. CASE kind = "external"
        <2>1. "ok" \in ExternalAnswers(n, w)
            BY <1>2 DEF Answers
        <2>2. /\ (Len(n) = 2 => n[2] = "" \/ Lower(n[2]) \in lcfg.domains)
              /\ <<(IF lcfg.perDomain THEN n ELSE <<n[1]>>), w>> \in HelperKnows
            BY <2>1 DEF ExternalAnswers, CheckDomainAuth, Helper, Verdict
        <2>3. \E d \in lcfg.domains \cup {""} : Len(n) = 2 => d = Lower(n[2])
            BY <2>2, AuthAssumption
        <2> QED
            BY <1>2, <2>2, <2>3 DEF Vouches
    <1>3. CASE kind = "shadow"
        <2>1. "ok" \in ShadowAnswers(n, w)
            BY <1>3 DEF Answers
        <2> QED
            BY <1>3, <2>1 DEF ShadowAnswers, Helper, VerifyPassword, HasEntry, Verdict, Vouches
    <1>4. CASE kind = "pam"
        <2>1. "ok" \in PamAnswers(n, w)
            BY <1>4 DEF Answers
        <2> QED
            BY <1>4, <2>1 DEF PamAnswers, RunPAMAuth, Verdict, Vouches
    <1>5. CASE kind = "netauth"
        <2>1. "ok" \in NetauthAnswers(n, w)
            BY <1>5 DEF Answers
        <2> QED
            BY <1>5, <2>1 DEF NetauthAnswers, MustGroup, Vouches
    <1>6. CASE kind = "dovecot"
        <2>1. "ok" \in DovecotAnswers(n, w)
            BY <1>6 DEF Answers
        <2> QED
            BY <1>6, <2>1 DEF DovecotAnswers, Verdict, Vouches
    <1>7. CASE kind = "evm"
        <2>1. "ok" \in EvmAnswers(n, w)
            BY <1>7 DEF Answers
        <2> QED
            BY <1>7, <2>1 DEF EvmAnswers, Verdict, Vouches
    <1> QED
        BY <1>1, <1>2, <1>3, <1>4, <1>5, <1>6, <1>7 DEF Backends

(* What a login may rely on only grows. *)
LEMMA VouchesMore ==
    ASSUME NEW c \in LoginCfgs, NEW h, NEW g, h \subseteq g, NEW r, Deserved(c, h, r)
    PROVE  Deserved(c, g, r)
    <1>1. ASSUME NEW kind \in Backends, NEW n, NEW w, Vouches(c, h, kind, n, w)
          PROVE  Vouches(c, g, kind, n, w)
        <2>1. CASE kind = "table"
            BY <1>1, <2>1 DEF Vouches
        <2>2. CASE kind = "ldap"
            BY <1>1, <2>2 DEF Vouches
        <2>3. CASE kind = "external"
            BY <1>1, <2>3 DEF Vouches
        <2>4. CASE kind = "shadow"
            BY <1>1, <2>4 DEF Vouches
        <2>5. CASE kind \in {"pam", "netauth", "dovecot", "evm"}
            BY <1>1, <2>5 DEF Vouches
        <2> QED
            BY <2>1, <2>2, <2>3, <2>4, <2>5 DEF Backends
    <1>2. \A i \in DOMAIN c.providers : \A j \in DOMAIN c.providers[i].pass : c.providers[i].pass[j] \in Backends
        BY ConfigType
    <1> QED
        BY <1>1, <1>2 DEF Deserved, Vouched

(* The next provider's turn, or the end. *)
LEMMA NextProviderOK ==
    ASSUME lcfg \in LoginCfgs, NEW r, DOMAIN r = LoginFields, r.prov \in DOMAIN lcfg.providers,
           NEW k, k = NextProvider(r)
    PROVE  Progress(lcfg, k) /\ k.pc \in {"map", "denied"}
    <1>1. PICK n \in Nat : DOMAIN lcfg.providers = 1..n /\ Len(lcfg.providers) = n
        BY ConfigType
    <1>2. CASE r.prov = n
        BY <1>1, <1>2 DEF NextProvider, Denied, NotBegun, Progress, LoginFields, AsksName, AsksWord,
                          InDirectory, InLock
    <1>3. CASE r.prov # n
        <2>1. k = [r EXCEPT !.pc = "map", !.prov = @ + 1]
            BY <1>1, <1>3 DEF NextProvider
        <2>2. k.pc = "map" /\ DOMAIN k = LoginFields /\ k.prov = r.prov + 1
            BY <2>1 DEF LoginFields
        <2>3. k.prov \in DOMAIN lcfg.providers
            BY <1>1, <1>3, <2>2
        <2> QED
            BY <2>2, <2>3 DEF Progress, AsksName, AsksWord, InDirectory, InLock
    <1> QED
        BY <1>2, <1>3

(* The name is known: the back ends are asked, if there are any. *)
LEMMA AskPassOK ==
    ASSUME lcfg \in LoginCfgs, NEW r, DOMAIN r = LoginFields, r.prov \in DOMAIN lcfg.providers,
           Listed(Provider(r).users, r.name), NEW k, k = AskPass(r)
    PROVE  /\ Progress(lcfg, k) /\ k.pc \in {"pass", "open"}
           /\ PassConfigured(lcfg) => k.pc # "open"
    <1>1. Provider(r) = lcfg.providers[r.prov]
        BY DEF Provider
    <1>2. CASE lcfg.providers[r.prov].pass = <<>>
        <2>1. k = [r EXCEPT !.pc = "open"]
            BY <1>1, <1>2 DEF AskPass
        <2>2. k.pc = "open" /\ DOMAIN k = LoginFields
            BY <2>1 DEF LoginFields
        <2> QED
            BY <1>2, <2>2 DEF Progress, PassConfigured, AsksName, AsksWord, InDirectory, InLock
    <1>3. CASE lcfg.providers[r.prov].pass # <<>>
        <2>1. k = [r EXCEPT !.pc = "pass", !.pas = 1]
            BY <1>1, <1>3 DEF AskPass
        <2>2. k.pc = "pass" /\ DOMAIN k = LoginFields /\ k.pas = 1 /\ k.prov = r.prov /\ k.name = r.name
            BY <2>1 DEF LoginFields
        <2>3. 1 \in DOMAIN lcfg.providers[r.prov].pass
            BY <1>3, ConfigType
        <2> QED
            BY <1>1, <2>2, <2>3 DEF Progress, AsksName, AsksWord, InDirectory, InLock
    <1> QED
        BY <1>2, <1>3

(* A user table has answered. *)
LEMMA KnownOK ==
    ASSUME lcfg \in LoginCfgs, NEW r, DOMAIN r = LoginFields, r.prov \in DOMAIN lcfg.providers,
           r.tab \in DOMAIN Provider(r).users, NEW ans \in {"ok", "no", "err"},
           ans = "ok" => Listed(Provider(r).users, r.name), NEW k, k = Known(r, ans)
    PROVE  /\ Progress(lcfg, k) /\ k.pc \in {"map", "table", "pass", "open", "denied"}
           /\ PassConfigured(lcfg) => k.pc # "open"
    <1>1. CASE ans = "ok"
        BY <1>1, AskPassOK DEF Known
    <1>2. CASE k = NextProvider(r)
        BY <1>2, NextProviderOK
    <1>3. CASE ans = "no" /\ r.tab # Len(Provider(r).users)
        <2>1. k = [r EXCEPT !.pc = "table", !.tab = @ + 1]
            BY <1>3 DEF Known
        <2>2. k.pc = "table" /\ DOMAIN k = LoginFields /\ k.prov = r.prov /\ k.tab = r.tab + 1
            BY <2>1 DEF LoginFields
        <2>3. Provider(r) = lcfg.providers[r.prov]
            BY DEF Provider
        <2>4. PICK n \in Nat : DOMAIN lcfg.providers[r.prov].users = 1..n /\ Len(lcfg.providers[r.prov].users) = n
            BY ConfigType
        <2>5. k.tab \in DOMAIN lcfg.providers[k.prov].users
            BY <1>3, <2>2, <2>3, <2>4
        <2> QED
            BY <2>2, <2>5 DEF Progress, AsksName, AsksWord, InDirectory, InLock
    <1> QED
        BY <1>1, <1>2, <1>3 DEF Known

(* A back end has answered. *)
LEMMA CheckedOK ==
    ASSUME lcfg \in LoginCfgs, NEW r, DOMAIN r = LoginFields, r.prov \in DOMAIN lcfg.providers,
           r.pas \in DOMAIN Provider(r).pass, Listed(Provider(r).users, r.name),
           NEW h, NEW ans, ans = "ok" => Vouches(lcfg, h, Provider(r).pass[r.pas], r.name, r.word),
           NEW k, k = Checked(r, ans)
    PROVE  /\ Progress(lcfg, k) /\ k.pc \in {"map", "pass", "open", "denied"}
           /\ Deserved(lcfg, h, k)
    <1>1. Provider(r) = lcfg.providers[r.prov]
        BY DEF Provider
    <1>2. CASE ans = "ok"
        <2>1. k = [r EXCEPT !.pc = "open"]
            BY <1>2 DEF Checked
        <2>2. k.pc = "open" /\ DOMAIN k = LoginFields /\ k.name = r.name /\ k.word = r.word
            BY <2>1 DEF LoginFields
        <2>3. Vouched(lcfg, h, k.name, k.word)
            BY <1>1, <1>2, <2>2 DEF Vouched
        <2> QED
            BY <2>2, <2>3 DEF Progress, Deserved, AsksName, AsksWord, InDirectory, InLock
    <1>3. CASE k = NextProvider(r)
        BY <1>3, NextProviderOK DEF Deserved
    <1>4. CASE ans # "ok" /\ r.pas # Len(Provider(r).pass)
        <2>1. k = [r EXCEPT !.pc = "pass", !.pas = @ + 1]
            BY <1>4 DEF Checked
        <2>2. /\ k.pc = "pass" /\ DOMAIN k = LoginFields /\ k.prov = r.prov /\ k.pas = r.pas + 1
              /\ k.name = r.name
            BY <2>1 DEF LoginFields
        <2>3. PICK n \in Nat : DOMAIN lcfg.providers[r.prov].pass = 1..n /\ Len(lcfg.providers[r.prov].pass) = n
            BY ConfigType
        <2>4. k.pas \in DOMAIN lcfg.providers[k.prov].pass
            BY <1>1, <1>4, <2>2, <2>3
        <2> QED
            BY <1>1, <2>2, <2>4 DEF Progress, Deserved, AsksName, AsksWord, InDirectory, InLock
    <1> QED
        BY <1>2, <1>3, <1>4 DEF Checked

(* The directory has answered. *)
LEMMA AnsweredOK ==
    ASSUME lcfg \in LoginCfgs, NEW r, Progress(lcfg, r), InDirectory(r), NEW h,
           NEW ans \in {"ok", "no", "err"},
           ans = "ok" => IF r.op = "lookup" THEN Single(Entries(r.name)) ELSE DirVouches(r.name, r.word),
           NEW k, k = Answered(r, ans)
    PROVE  /\ Progress(lcfg, k) /\ k.pc \in {"map", "table", "pass", "open", "denied"}
           /\ Deserved(lcfg, h, k)
    <1>1. /\ DOMAIN r = LoginFields /\ r.prov \in DOMAIN lcfg.providers
          /\ \/ r.op = "lookup" /\ lcfg.providers[r.prov].users[r.tab].kind = "ldap"
             \/ r.op = "auth" /\ lcfg.providers[r.prov].pass[r.pas] = "ldap"
        BY DEF Progress, AsksName, AsksWord
    <1>2. Provider(r) = lcfg.providers[r.prov]
        BY DEF Provider
    <1>3. CASE r.op = "lookup"
        <2>1. r.tab \in DOMAIN Provider(r).users
            BY <1>2, <1>3 DEF Progress, AsksName
        <2>2. ans = "ok" => Listed(Provider(r).users, r.name)
            BY <1>1, <1>2, <1>3, <2>1 DEF Listed
        <2>3. k = Known(r, ans)
            BY <1>3 DEF Answered
        <2> QED
            BY <1>1, <2>1, <2>2, <2>3, KnownOK DEF Deserved
    <1>4. CASE r.op = "auth"
        <2>1. r.pas \in DOMAIN Provider(r).pass /\ Listed(Provider(r).users, r.name)
            BY <1>2, <1>4 DEF Progress, AsksWord
        <2>2. ans = "ok" => Vouches(lcfg, h, "ldap", r.name, r.word)
            BY <1>4 DEF Vouches, DirVouches
        <2>3. Provider(r).pass[r.pas] = "ldap"
            BY <1>1, <1>2, <1>4
        <2>4. k = Checked(r, ans)
            BY <1>4 DEF Answered
        <2> QED
            BY <1>1, <2>1, <2>2, <2>3, <2>4, CheckedOK
    <1> QED
        BY <1>1, <1>3, <1>4

(* One step of a login that leaves the table of hashes alone. *)
LEMMA LoginMoves ==
    ASSUME AuthInv, NEW l \in Logins, NEW k, Set(l, k), UNCHANGED <<lcfg, hashes, held>>,
           Progress(lcfg, k), Deserved(lcfg, held[l], k), Active(k) => Active(login[l]),
           InLock(k) => dirLock' = l,
           dirLock' = dirLock \/ dirLock = "free" \/ InLock(login[l]),
           DOMAIN dirConn' = {"open", "bound", "nil"},
           \/ dirConn' = dirConn /\ login[l].pc # "return"
           \/ k.pc = "return"
           \/ lcfg.bind # "off" /\ dirConn'.open => dirConn'.bound = Reader
    PROVE  AuthInv'
    <1>1. DOMAIN login' = Logins /\ login'[l] = k /\ \A m \in Logins : m # l => login'[m] = login[m]
        BY DEF AuthInv, Set
    <1>2. ASSUME NEW m \in Logins
          PROVE  /\ Progress(lcfg', login'[m])
                 /\ Deserved(lcfg', held'[m], login'[m])
                 /\ Active(login'[m]) => Pairs(hashes') \subseteq held'[m]
        <2>1. CASE m = l
            BY <1>1, <2>1 DEF AuthInv
        <2>2. CASE m # l
            BY <1>1, <2>2 DEF AuthInv
        <2> QED
            BY <2>1, <2>2
    <1>3. LockOK'
        <2> SUFFICES ASSUME NEW m \in Logins, InLock(login'[m]) PROVE dirLock' = m
            BY DEF LockOK
        <2>1. CASE m = l
            BY <1>1, <2>1
        <2>2. CASE m # l
            <3>1. InLock(login[m])
                BY <1>1, <2>2
            <3>2. dirLock = m
                BY <3>1 DEF AuthInv, LockOK
            <3>3. ~InLock(login[l])
                BY <2>2, <3>2 DEF AuthInv, LockOK
            <3> QED
                BY <3>2, <3>3, AuthAssumption
        <2> QED
            BY <2>1, <2>2
    <1>4. BindOK'
        <2> SUFFICES ASSUME lcfg'.bind # "off", dirConn'.open, \A m \in Logins : login'[m].pc # "return"
                     PROVE  dirConn'.bound = Reader
            BY DEF BindOK
        <2>1. CASE dirConn' = dirConn /\ login[l].pc # "return"
            <3>1. \A m \in Logins : login[m].pc # "return"
                BY <1>1, <2>1
            <3> QED
                BY <2>1, <3>1 DEF AuthInv, BindOK
        <2> QED
            BY <1>1, <2>1
    <1>5. lcfg' \in LoginCfgs /\ DOMAIN held' = Logins
        BY DEF AuthInv
    <1> QED
        BY <1>1, <1>2, <1>3, <1>4, <1>5 DEF AuthInv

(* Steps that touch nothing but the login. *)
LEMMA LoginAlone ==
    ASSUME AuthInv, NEW l \in Logins, NEW k, Set(l, k), OnlyLogin,
           Progress(lcfg, k), Deserved(lcfg, held[l], k), Active(login[l]), ~InLock(k), login[l].pc # "return"
    PROVE  AuthInv'
    BY LoginMoves DEF OnlyLogin, AuthInv, BindOK

LEMMA LoginMapsFirst == ASSUME AuthInv, NEW l \in Logins, MapFirst(l) PROVE AuthInv'
    <1>1. PICK n : Set(l, IF n = NoName THEN Denied(login[l]) ELSE [login[l] EXCEPT !.user = n, !.pc = "map"])
        BY DEF MapFirst
    <1>2. PICK k : k = IF n = NoName THEN Denied(login[l]) ELSE [login[l] EXCEPT !.user = n, !.pc = "map"]
        OBVIOUS
    <1>3. login[l].pc = "mapFirst" /\ OnlyLogin /\ Progress(lcfg, login[l])
        BY DEF MapFirst, AuthInv
    <1>4. /\ DOMAIN k = LoginFields
          /\ \/ k.pc = "denied"
             \/ k.pc = "map" /\ k.prov = login[l].prov
        BY <1>2, <1>3 DEF Progress, Denied, NotBegun, LoginFields
    <1>5. Progress(lcfg, k) /\ Deserved(lcfg, held[l], k) /\ ~InLock(k) /\ Active(login[l])
        BY <1>3, <1>4 DEF Progress, Deserved, AsksName, AsksWord, InDirectory, InLock, Active, Ended
    <1> QED
        BY <1>1, <1>2, <1>3, <1>5, LoginAlone

LEMMA LoginMaps == ASSUME AuthInv, NEW l \in Logins, MapName(l) PROVE AuthInv'
    <1>1. PICK n : \E r : /\ r = [login[l] EXCEPT !.name = n, !.tab = 1]
                          /\ Set(l, IF n = NoName THEN Denied(r)
                                    ELSE IF Provider(r).users = <<>> THEN AskPass(r)
                                    ELSE [r EXCEPT !.pc = "table"])
        BY DEF MapName
    <1>2. PICK r : /\ r = [login[l] EXCEPT !.name = n, !.tab = 1]
                   /\ Set(l, IF n = NoName THEN Denied(r)
                             ELSE IF Provider(r).users = <<>> THEN AskPass(r)
                             ELSE [r EXCEPT !.pc = "table"])
        BY <1>1
    <1>3. PICK k : k = IF n = NoName THEN Denied(r)
                       ELSE IF Provider(r).users = <<>> THEN AskPass(r)
                       ELSE [r EXCEPT !.pc = "table"]
        OBVIOUS
    <1>4. login[l].pc = "map" /\ OnlyLogin /\ Progress(lcfg, login[l]) /\ lcfg \in LoginCfgs
        BY DEF MapName, AuthInv
    <1>5. /\ DOMAIN r = LoginFields /\ r.prov \in DOMAIN lcfg.providers /\ r.tab = 1
          /\ Provider(r) = lcfg.providers[r.prov]
        BY <1>2, <1>4 DEF Progress, LoginFields, Provider
    <1>6. /\ Progress(lcfg, k) /\ k.pc \in {"denied", "pass", "open", "table"}
          /\ PassConfigured(lcfg) => k.pc # "open"
        <2>1. CASE n = NoName
            BY <1>3, <2>1 DEF Denied, NotBegun, Progress, LoginFields, AsksName, AsksWord, InDirectory, InLock
        <2>2. CASE n # NoName /\ Provider(r).users = <<>>
            <3>1. Listed(Provider(r).users, r.name)
                BY <2>2 DEF Listed
            <3> QED
                BY <1>3, <1>4, <1>5, <2>2, <3>1, AskPassOK
        <2>3. CASE n # NoName /\ Provider(r).users # <<>>
            <3>1. k = [r EXCEPT !.pc = "table"]
                BY <1>3, <2>3
            <3>2. k.pc = "table" /\ DOMAIN k = LoginFields /\ k.prov = r.prov /\ k.tab = 1
                BY <1>5, <3>1 DEF LoginFields
            <3>3. lcfg.providers[r.prov].users \in Seq(UserTables)
                BY <1>4, <1>5, ConfigType
            <3>4. 1 \in DOMAIN lcfg.providers[r.prov].users
                BY <1>5, <2>3, <3>3
            <3> QED
                BY <1>5, <3>2, <3>4 DEF Progress, AsksName, AsksWord, InDirectory, InLock
        <2> QED
            BY <2>1, <2>2, <2>3
    <1>7. Deserved(lcfg, held[l], k) /\ ~InLock(k) /\ Active(login[l])
        BY <1>4, <1>6 DEF Deserved, InLock, Active, Ended
    <1> QED
        BY <1>2, <1>3, <1>4, <1>6, <1>7, LoginAlone

(* Waiting for the connection. *)
LEMMA AskDirectoryOK ==
    ASSUME NEW c, NEW r, Progress(c, r), NEW op, NEW k, k = AskDirectory(r, op),
           \/ r.pc = "table" /\ op = "lookup" /\ c.providers[r.prov].users[r.tab].kind = "ldap"
           \/ r.pc = "pass" /\ op = "auth" /\ c.providers[r.prov].pass[r.pas] = "ldap"
    PROVE  Progress(c, k) /\ k.pc = "lock"
    <1>1. /\ DOMAIN k = LoginFields /\ k.pc = "lock" /\ k.op = op /\ k.prov = r.prov /\ k.tab = r.tab
          /\ k.pas = r.pas /\ k.name = r.name
        BY DEF AskDirectory, Progress, LoginFields
    <1> QED
        BY <1>1 DEF Progress, AsksName, AsksWord, InDirectory, InLock

LEMMA LoginLooksUp == ASSUME AuthInv, NEW l \in Logins, LookupUser(l) PROVE AuthInv'
    <1>1. PICK r : r = login[l]
        OBVIOUS
    <1>2. /\ r.pc = "table" /\ OnlyLogin /\ Progress(lcfg, r) /\ lcfg \in LoginCfgs
          /\ Provider(r) = lcfg.providers[r.prov]
        BY <1>1 DEF LookupUser, AuthInv, Provider
    <1>3. DOMAIN r = LoginFields /\ r.prov \in DOMAIN lcfg.providers /\ r.tab \in DOMAIN Provider(r).users
        BY <1>2 DEF Progress, AsksName
    <1>4. Active(login[l]) /\ login[l].pc # "return"
        BY <1>1, <1>2 DEF Active, Ended
    <1>5. CASE Provider(r).users[r.tab].kind = "ldap"
        <2>1. PICK k : k = AskDirectory(r, "lookup")
            OBVIOUS
        <2>2. Set(l, k)
            BY <1>1, <1>5, <2>1 DEF LookupUser
        <2>3. Progress(lcfg, k) /\ k.pc = "lock"
            BY <1>2, <1>5, <2>1, AskDirectoryOK
        <2> QED
            BY <1>2, <1>4, <2>2, <2>3, LoginAlone DEF Deserved, InLock
    <1>6. CASE Provider(r).users[r.tab].kind # "ldap"
        <2>1. PICK a \in Verdict(r.name \in Provider(r).users[r.tab].has) : Set(l, Known(r, a))
            BY <1>1, <1>6 DEF LookupUser
        <2>2. PICK k : k = Known(r, a)
            OBVIOUS
        <2>3. a \in {"ok", "no", "err"} /\ (a = "ok" => r.name \in Provider(r).users[r.tab].has)
            BY <2>1 DEF Verdict
        <2>4. a = "ok" => Listed(Provider(r).users, r.name)
            BY <1>3, <1>6, <2>3 DEF Listed
        <2>5. /\ Progress(lcfg, k) /\ k.pc \in {"map", "table", "pass", "open", "denied"}
              /\ PassConfigured(lcfg) => k.pc # "open"
            BY <1>2, <1>3, <2>2, <2>3, <2>4, KnownOK
        <2> QED
            BY <1>2, <1>4, <2>1, <2>2, <2>5, LoginAlone DEF Deserved, InLock
    <1> QED
        BY <1>5, <1>6

LEMMA LoginChecks == ASSUME AuthInv, NEW l \in Logins, CheckWord(l) PROVE AuthInv'
    <1>1. PICK r : r = login[l]
        OBVIOUS
    <1>2. /\ r.pc = "pass" /\ OnlyLogin /\ Progress(lcfg, r) /\ lcfg \in LoginCfgs
          /\ Provider(r) = lcfg.providers[r.prov]
        BY <1>1 DEF CheckWord, AuthInv, Provider
    <1>3. /\ DOMAIN r = LoginFields /\ r.prov \in DOMAIN lcfg.providers
          /\ r.pas \in DOMAIN Provider(r).pass /\ Listed(Provider(r).users, r.name)
        BY <1>2 DEF Progress, AsksWord
    <1>4. Active(login[l]) /\ login[l].pc # "return"
        BY <1>1, <1>2 DEF Active, Ended
    <1>5. PICK kind \in Backends : kind = Provider(r).pass[r.pas]
        BY <1>2, <1>3, ConfigType
    <1>6. CASE kind = "ldap"
        <2>1. PICK k : k = AskDirectory(r, "auth")
            OBVIOUS
        <2>2. Set(l, k)
            BY <1>1, <1>5, <1>6, <2>1 DEF CheckWord
        <2>3. Progress(lcfg, k) /\ k.pc = "lock"
            BY <1>2, <1>5, <1>6, <2>1, AskDirectoryOK
        <2> QED
            BY <1>2, <1>4, <2>2, <2>3, LoginAlone DEF Deserved, InLock
    <1>7. CASE kind # "ldap"
        <2>1. PICK a \in Answers(kind, r.name, r.word) : Set(l, Checked(r, a))
            BY <1>1, <1>5, <1>7 DEF CheckWord
        <2>2. PICK k : k = Checked(r, a)
            OBVIOUS
        <2>3. Pairs(hashes) \subseteq held[l]
            BY <1>4 DEF AuthInv
        <2>4. a = "ok" => Vouches(lcfg, held[l], kind, r.name, r.word)
            BY <1>7, <2>1, <2>3, AnswerVouches
        <2>5. /\ Progress(lcfg, k) /\ k.pc \in {"map", "pass", "open", "denied"}
              /\ Deserved(lcfg, held[l], k)
            BY <1>2, <1>3, <1>5, <2>2, <2>4, CheckedOK
        <2> QED
            BY <1>2, <1>4, <2>1, <2>2, <2>5, LoginAlone DEF InLock
    <1> QED
        BY <1>6, <1>7

(* The account of an accepted login is opened, or the login is refused. *)
LEMMA LoginOpens == ASSUME AuthInv, NEW l \in Logins, OpenAccount(l) PROVE AuthInv'
    <1>1. PICK r : r = login[l]
        OBVIOUS
    <1>2. PICK a : Set(l, IF a = NoName THEN Denied(r)
                          ELSE [NotBegun EXCEPT !.pc = "in", !.given = r.given, !.name = r.name,
                                                !.word = r.word, !.dn = a])
        BY <1>1 DEF OpenAccount
    <1>3. PICK k : k = IF a = NoName THEN Denied(r)
                       ELSE [NotBegun EXCEPT !.pc = "in", !.given = r.given, !.name = r.name,
                                             !.word = r.word, !.dn = a]
        OBVIOUS
    <1>4. /\ r.pc = "open" /\ Progress(lcfg, r) /\ Deserved(lcfg, held[l], r)
          /\ UNCHANGED <<lcfg, hashes, dirLock, dirConn, held>> /\ DOMAIN dirConn = {"open", "bound", "nil"}
        BY <1>1 DEF OpenAccount, AuthInv, BindOK
    <1>5. /\ DOMAIN k = LoginFields
          /\ \/ k.pc = "denied"
             \/ k.pc = "in" /\ k.name = r.name /\ k.word = r.word
        BY <1>3, <1>4 DEF Denied, NotBegun, LoginFields
    <1>6. Progress(lcfg, k) /\ Deserved(lcfg, held[l], k) /\ ~InLock(k) /\ Active(login[l])
        BY <1>1, <1>4, <1>5 DEF Progress, Deserved, AsksName, AsksWord, InDirectory, InLock, Active, Ended
    <1> QED
        BY <1>1, <1>2, <1>3, <1>4, <1>6, LoginMoves

LEMMA LoginLocks == ASSUME AuthInv, NEW l \in Logins, LockConn(l) PROVE AuthInv'
    <1>1. PICK r : r = login[l]
        OBVIOUS
    <1>2. PICK k : k = [r EXCEPT !.pc = "conn"]
        OBVIOUS
    <1>3. /\ r.pc = "lock" /\ Progress(lcfg, r) /\ Set(l, k) /\ dirLock = "free" /\ dirLock' = l
          /\ UNCHANGED <<lcfg, hashes, dirConn, held>> /\ DOMAIN dirConn = {"open", "bound", "nil"}
        BY <1>1, <1>2 DEF LockConn, OnlyDirectory, AuthInv, BindOK
    <1>4. /\ DOMAIN k = LoginFields /\ k.pc = "conn" /\ k.op = r.op /\ k.prov = r.prov /\ k.tab = r.tab
          /\ k.pas = r.pas /\ k.name = r.name
        BY <1>2, <1>3 DEF Progress, LoginFields
    <1>5. Progress(lcfg, k) /\ Deserved(lcfg, held[l], k) /\ Active(login[l])
        BY <1>1, <1>3, <1>4 DEF Progress, Deserved, AsksName, AsksWord, InDirectory, InLock, Active, Ended
    <1> QED
        BY <1>1, <1>3, <1>5, LoginMoves

(* What the record of a login is once it has the connection. *)
LEMMA HaveConnOK ==
    ASSUME NEW r, Progress(lcfg, r), r.pc = "conn", NEW k, k = HaveConn(r)
    PROVE  Progress(lcfg, k) /\ k.pc \in {"search", "return", "bind"}
    <1>1. r.op \in {"lookup", "auth"} /\ DOMAIN r = LoginFields
        BY DEF Progress, InDirectory, InLock
    <1>2. /\ DOMAIN k = LoginFields /\ k.op = r.op /\ k.prov = r.prov /\ k.tab = r.tab
          /\ k.pas = r.pas /\ k.name = r.name
          /\ \/ k.pc = "search"
             \/ k.pc = "return" /\ k.res = "err"
             \/ k.pc = "bind" /\ k.dn = r.name /\ r.op = "auth"
        BY <1>1 DEF HaveConn, LoginFields
    <1> QED
        BY <1>2 DEF Progress, AsksName, AsksWord, InDirectory, InLock

LEMMA LoginConnects == ASSUME AuthInv, NEW l \in Logins, GetConn(l) PROVE AuthInv'
    <1>1. PICK r : r = login[l]
        OBVIOUS
    <1>2. /\ r.pc = "conn" /\ Progress(lcfg, r) /\ lcfg \in LoginCfgs /\ dirLock = l
          /\ UNCHANGED <<lcfg, hashes, held>> /\ DOMAIN dirConn = {"open", "bound", "nil"}
        BY <1>1 DEF GetConn, OnlyDirectory, AuthInv, BindOK, LockOK, InLock
    <1>3. Active(login[l]) /\ InLock(login[l]) /\ InDirectory(r) /\ login[l].pc # "return"
        BY <1>1, <1>2 DEF Active, Ended, InLock, InDirectory
    <1>4. CASE Set(l, HaveConn(r)) /\ UNCHANGED dirLock /\ (dirConn' = dirConn \/ dirConn' = NewConn)
        <2>1. PICK k : k = HaveConn(r)
            OBVIOUS
        <2>2. Progress(lcfg, k) /\ k.pc \in {"search", "return", "bind"}
            BY <1>2, <2>1, HaveConnOK
        <2>3. Deserved(lcfg, held[l], k) /\ dirLock' = l
            BY <1>2, <1>4, <2>2 DEF Deserved
        <2>4. dirConn' # dirConn => /\ DOMAIN dirConn' = {"open", "bound", "nil"}
                                    /\ lcfg.bind # "off" => dirConn'.bound = Reader
            BY <1>4 DEF NewConn, ReadBound
        <2> QED
            BY <1>2, <1>3, <1>4, <2>1, <2>2, <2>3, <2>4, LoginMoves
    <1>5. CASE ConnFails(l)
        <2>1. PICK k : k = Answered(r, "err")
            OBVIOUS
        <2>2. /\ Progress(lcfg, k) /\ k.pc \in {"map", "table", "pass", "open", "denied"}
              /\ Deserved(lcfg, held[l], k)
            BY <1>2, <1>3, <2>1, AnsweredOK
        <2>3. Set(l, k) /\ dirConn' = dirConn
            BY <1>1, <1>5, <2>1 DEF ConnFails
        <2>4. ~InLock(k)
            BY <2>2 DEF InLock
        <2> QED
            BY <1>2, <1>3, <2>2, <2>3, <2>4, LoginMoves
    <1> QED
        BY <1>1, <1>4, <1>5 DEF GetConn

LEMMA LoginSearches == ASSUME AuthInv, NEW l \in Logins, Search(l) PROVE AuthInv'
    <1>1. PICK r : r = login[l]
        OBVIOUS
    <1>2. /\ r.pc = "search" /\ Progress(lcfg, r) /\ dirLock = l
          /\ UNCHANGED <<lcfg, hashes, held, dirLock, dirConn>> /\ DOMAIN dirConn = {"open", "bound", "nil"}
        BY <1>1 DEF Search, OnlyDirectory, AuthInv, BindOK, LockOK, InLock
    <1>3. Active(login[l]) /\ login[l].pc # "return"
        BY <1>1, <1>2 DEF Active, Ended
    <1>4. PICK s \in {"ok", "no", "err", "found"} :
            /\ Set(l, IF s = "found" THEN [r EXCEPT !.pc = "bind", !.dn = CHOOSE d \in Entries(r.name) : TRUE]
                      ELSE [r EXCEPT !.pc = "return", !.res = s])
            /\ s = "ok" => r.op = "lookup" /\ Single(Entries(r.name))
            /\ s = "found" => r.op # "lookup" /\ Entries(r.name) # {}
        BY <1>1 DEF Search
    <1>5. PICK e : e = CHOOSE d \in Entries(r.name) : TRUE
        OBVIOUS
    <1>6. DOMAIN r = LoginFields /\ r.op \in {"lookup", "auth"}
        BY <1>2 DEF Progress, InDirectory, InLock
    <1>7. s = "found" => e \in Entries(r.name)
        BY <1>4, <1>5
    <1>8. PICK k : k = IF s = "found" THEN [r EXCEPT !.pc = "bind", !.dn = e] ELSE [r EXCEPT !.pc = "return", !.res = s]
        OBVIOUS
    <1>9. Set(l, k)
        BY <1>4, <1>5, <1>8
    <1>10. /\ DOMAIN k = LoginFields /\ k.op = r.op /\ k.prov = r.prov /\ k.tab = r.tab
           /\ k.pas = r.pas /\ k.name = r.name
           /\ \/ k.pc = "return" /\ k.res = s /\ s # "found"
              \/ k.pc = "bind" /\ k.dn = e /\ s = "found"
        BY <1>6, <1>8 DEF LoginFields
    <1>11. Progress(lcfg, k)
        BY <1>2, <1>4, <1>6, <1>7, <1>10 DEF Progress, AsksName, AsksWord, InDirectory, InLock
    <1>12. Deserved(lcfg, held[l], k)
        BY <1>10 DEF Deserved
    <1> QED
        BY <1>2, <1>3, <1>9, <1>11, <1>12, LoginMoves

LEMMA LoginBinds == ASSUME AuthInv, NEW l \in Logins, BindUser(l) PROVE AuthInv'
    <1>1. PICK r : r = login[l]
        OBVIOUS
    <1>2. PICK good \in BOOLEAN : good = (dirConn.open /\ <<r.dn, r.word>> \in DirWords)
        OBVIOUS
    <1>3. PICK k : k = [r EXCEPT !.pc = "return", !.res = IF good THEN "ok" ELSE "no"]
        OBVIOUS
    <1>4. /\ r.pc = "bind" /\ Progress(lcfg, r) /\ dirLock = l /\ Set(l, k)
          /\ UNCHANGED <<lcfg, hashes, held, dirLock>> /\ DOMAIN dirConn = {"open", "bound", "nil"}
          /\ dirConn' = IF dirConn.open THEN [dirConn EXCEPT !.bound = IF good THEN r.dn ELSE Anonymous]
                        ELSE dirConn
        BY <1>1, <1>2, <1>3 DEF BindUser, OnlyDirectory, AuthInv, BindOK, LockOK, InLock
    <1>5. DOMAIN r = LoginFields /\ r.op = "auth" /\ r.dn \in Entries(r.name) \cup {r.name}
        BY <1>4 DEF Progress
    <1>6. /\ DOMAIN k = LoginFields /\ k.op = r.op /\ k.prov = r.prov /\ k.tab = r.tab
          /\ k.pas = r.pas /\ k.name = r.name /\ k.word = r.word /\ k.pc = "return"
          /\ k.res = IF good THEN "ok" ELSE "no"
        BY <1>3, <1>5 DEF LoginFields
    <1>7. good => DirVouches(r.name, r.word)
        BY <1>2, <1>5 DEF DirVouches
    <1>8. Progress(lcfg, k)
        BY <1>4, <1>5, <1>6, <1>7 DEF Progress, AsksName, AsksWord, InDirectory, InLock
    <1>9. Deserved(lcfg, held[l], k) /\ Active(login[l]) /\ DOMAIN dirConn' = {"open", "bound", "nil"}
        BY <1>1, <1>4, <1>6 DEF Deserved, Active, Ended
    <1> QED
        BY <1>4, <1>6, <1>8, <1>9, LoginMoves

LEMMA LoginReturns == ASSUME AuthInv, NEW l \in Logins, ReturnConn(l) PROVE AuthInv'
    <1>1. PICK r : r = login[l]
        OBVIOUS
    <1>2. /\ r.pc = "return" /\ Progress(lcfg, r) /\ lcfg \in LoginCfgs
          /\ UNCHANGED <<lcfg, hashes, held>> /\ DOMAIN dirConn = {"open", "bound", "nil"}
        BY <1>1 DEF ReturnConn, OnlyDirectory, AuthInv, BindOK
    <1>3. Active(login[l]) /\ InLock(login[l]) /\ InDirectory(r)
        BY <1>1, <1>2 DEF Active, Ended, InLock, InDirectory
    <1>4. CASE dirConn' = NoConn /\ Set(l, [NotBegun EXCEPT !.pc = "panicked"])
        <2>1. PICK k : k = [NotBegun EXCEPT !.pc = "panicked"]
            OBVIOUS
        <2>2. k.pc = "panicked" /\ DOMAIN k = LoginFields
            BY <2>1 DEF NotBegun, LoginFields
        <2>3. Progress(lcfg, k) /\ Deserved(lcfg, held[l], k) /\ ~InLock(k)
            BY <2>2 DEF Progress, Deserved, AsksName, AsksWord, InDirectory, InLock
        <2>4. DOMAIN dirConn' = {"open", "bound", "nil"} /\ ~dirConn'.open
            BY <1>4 DEF NoConn
        <2> QED
            BY <1>2, <1>3, <1>4, <2>1, <2>3, <2>4, LoginMoves
    <1>5. CASE dirConn' = Rebound(dirConn) /\ Set(l, Answered(r, r.res))
        <2>1. PICK k : k = Answered(r, r.res)
            OBVIOUS
        <2>2. /\ r.res \in {"ok", "no", "err"}
              /\ r.res = "ok" => IF r.op = "lookup" THEN Single(Entries(r.name)) ELSE DirVouches(r.name, r.word)
            BY <1>2 DEF Progress
        <2>3. /\ Progress(lcfg, k) /\ k.pc \in {"map", "table", "pass", "open", "denied"}
              /\ Deserved(lcfg, held[l], k)
            BY <1>2, <1>3, <2>1, <2>2, AnsweredOK
        <2>4. /\ DOMAIN dirConn' = {"open", "bound", "nil"}
              /\ lcfg.bind # "off" => dirConn'.bound = Reader
            BY <1>2, <1>5 DEF Rebound, ReadBound
        <2>5. ~InLock(k)
            BY <2>3 DEF InLock
        <2> QED
            BY <1>2, <1>3, <1>5, <2>1, <2>3, <2>4, <2>5, LoginMoves
    <1> QED
        BY <1>1, <1>4, <1>5 DEF ReturnConn

(* The login begins with what the table of hashes holds. *)
LEMMA LoginBegins == ASSUME AuthInv, NEW l \in Logins, BeginLogin(l) PROVE AuthInv'
    <1>1. PICK n \in Names, w \in Words, denied \in BOOLEAN, first \in BOOLEAN :
            /\ Set(l, IF denied THEN Denied([NotBegun EXCEPT !.given = n, !.user = n, !.word = w, !.prov = 1])
                      ELSE [[NotBegun EXCEPT !.given = n, !.user = n, !.word = w, !.prov = 1]
                              EXCEPT !.pc = IF first THEN "mapFirst" ELSE "map"])
            /\ ~denied => lcfg.providers # <<>>
        <2>1. PICK m \in Mechs, n \in Names, w \in Words, sameId \in BOOLEAN :
                LET r == [NotBegun EXCEPT !.given = n, !.user = n, !.word = w, !.prov = 1]
                IN Set(l, IF \/ m = "PLAIN" /\ ~sameId
                             \/ m = "LOGIN" /\ ~lcfg.enableLogin
                             \/ lcfg.providers = <<>>
                          THEN Denied(r)
                          ELSE [r EXCEPT !.pc = IF m = "LOGIN" THEN "mapFirst" ELSE "map"])
            BY DEF BeginLogin
        <2> DEFINE denied == \/ m = "PLAIN" /\ ~sameId
                             \/ m = "LOGIN" /\ ~lcfg.enableLogin
                             \/ lcfg.providers = <<>>
                   first == m = "LOGIN"
        <2>2. denied \in BOOLEAN /\ first \in BOOLEAN
            OBVIOUS
        <2>3. /\ Set(l, IF denied THEN Denied([NotBegun EXCEPT !.given = n, !.user = n, !.word = w, !.prov = 1])
                        ELSE [[NotBegun EXCEPT !.given = n, !.user = n, !.word = w, !.prov = 1]
                                EXCEPT !.pc = IF first THEN "mapFirst" ELSE "map"])
              /\ ~denied => lcfg.providers # <<>>
            BY <2>1
        <2> QED
            BY <2>2, <2>3
    <1>2. PICK k : k = IF denied THEN Denied([NotBegun EXCEPT !.given = n, !.user = n, !.word = w, !.prov = 1])
                       ELSE [[NotBegun EXCEPT !.given = n, !.user = n, !.word = w, !.prov = 1]
                               EXCEPT !.pc = IF first THEN "mapFirst" ELSE "map"]
        OBVIOUS
    <1>3. /\ login[l].pc = "idle" /\ Set(l, k) /\ held' = [held EXCEPT ![l] = Pairs(hashes)]
          /\ UNCHANGED <<lcfg, hashes, dirLock, dirConn>> /\ lcfg \in LoginCfgs
        BY <1>1, <1>2 DEF BeginLogin, AuthInv
    <1>4. /\ DOMAIN k = LoginFields
          /\ \/ k.pc = "denied"
             \/ k.pc \in {"mapFirst", "map"} /\ k.prov = 1 /\ ~denied
        BY <1>2 DEF Denied, NotBegun, LoginFields
    <1>5. ~denied => 1 \in DOMAIN lcfg.providers
        BY <1>1, <1>3, ConfigType
    <1>6. /\ Progress(lcfg, k) /\ ~InLock(k) /\ k.pc \notin {"return", "open", "in"}
        BY <1>4, <1>5 DEF Progress, AsksName, AsksWord, InDirectory, InLock
    <1>7. /\ DOMAIN login' = Logins /\ login'[l] = k /\ \A m \in Logins : m # l => login'[m] = login[m]
          /\ DOMAIN held' = Logins /\ held'[l] = Pairs(hashes) /\ \A m \in Logins : m # l => held'[m] = held[m]
        BY <1>3 DEF AuthInv, Set
    <1>8. ASSUME NEW m \in Logins
          PROVE  /\ Progress(lcfg', login'[m])
                 /\ Deserved(lcfg', held'[m], login'[m])
                 /\ Active(login'[m]) => Pairs(hashes') \subseteq held'[m]
        <2>1. CASE m = l
            <3>1. Deserved(lcfg, held'[l], k)
                BY <1>6 DEF Deserved
            <3>2. Pairs(hashes') = Pairs(hashes)
                BY <1>3
            <3> QED
                BY <1>3, <1>6, <1>7, <2>1, <3>1, <3>2
        <2>2. CASE m # l
            BY <1>3, <1>7, <2>2 DEF AuthInv
        <2> QED
            BY <2>1, <2>2
    <1>9. LockOK' /\ BindOK'
        BY <1>3, <1>6, <1>7 DEF AuthInv, LockOK, BindOK, InLock
    <1> QED
        BY <1>3, <1>7, <1>8, <1>9 DEF AuthInv

(* The `creds' tools change the table of hashes under the logins. *)
LEMMA HashesChange ==
    ASSUME AuthInv, NEW h, Changed(h), UNCHANGED <<lcfg, login, dirLock, dirConn>>
    PROVE  AuthInv'
    <1>1. /\ hashes' = h
          /\ held' = [l \in Logins |-> IF login[l].pc \in {"idle"} \cup Ended THEN held[l]
                                        ELSE held[l] \cup Pairs(h)]
        BY DEF Changed, Remembered
    <1>2. ASSUME NEW l \in Logins
          PROVE  /\ Progress(lcfg', login'[l])
                 /\ Deserved(lcfg', held'[l], login'[l])
                 /\ Active(login'[l]) => Pairs(hashes') \subseteq held'[l]
        <2>1. held[l] \subseteq held'[l] /\ (Active(login[l]) => Pairs(h) \subseteq held'[l])
            BY <1>1 DEF Active
        <2>2. Deserved(lcfg, held'[l], login[l])
            <3>1. PICK g, f, r : g = held[l] /\ f = held'[l] /\ r = login[l]
                OBVIOUS
            <3>2. Deserved(lcfg, g, r) /\ lcfg \in LoginCfgs /\ g \subseteq f
                BY <2>1, <3>1 DEF AuthInv
            <3> QED
                BY <3>1, <3>2, VouchesMore
        <2> QED
            BY <1>1, <2>1, <2>2 DEF AuthInv
    <1>3. DOMAIN held' = Logins
        BY <1>1
    <1>4. LockOK' /\ BindOK'
        BY DEF AuthInv, LockOK, BindOK
    <1> QED
        BY <1>2, <1>3, <1>4 DEF AuthInv

LEMMA CredsMove == ASSUME AuthInv, NEW t \in CredsTools, CredsStep(t) PROVE AuthInv'
    <1>1. CASE CreateLookup(t)
        BY <1>1 DEF CreateLookup, OnlyCreds, AuthInv, LockOK, BindOK
    <1>2. CASE CreateSet(t) \/ SetUserPassword(t) \/ DeleteUser(t)
        <2>1. PICK h : Changed(h)
            BY <1>2 DEF CreateSet, SetUserPassword, DeleteUser
        <2>2. UNCHANGED <<lcfg, login, dirLock, dirConn>>
            BY <1>2 DEF CreateSet, SetUserPassword, DeleteUser, OnlyCreds
        <2> QED
            BY <2>1, <2>2, HashesChange
    <1> QED
        BY <1>1, <1>2 DEF CredsStep

LEMMA AuthInitially == AuthInit => AuthInv
    <1> SUFFICES ASSUME AuthInit PROVE AuthInv
        OBVIOUS
    <1>1. /\ lcfg \in LoginCfgs /\ DOMAIN login = Logins /\ DOMAIN held = Logins
          /\ \A l \in Logins : login[l] = NotBegun
          /\ dirConn = NewConn \/ dirConn = NoConn
        BY DEF AuthInit
    <1>2. DOMAIN NotBegun = LoginFields /\ NotBegun.pc = "idle"
        BY DEF NotBegun, LoginFields
    <1>3. PICK r : r = NotBegun
        OBVIOUS
    <1>4. Progress(lcfg, r) /\ (\A h : Deserved(lcfg, h, r)) /\ ~Active(r) /\ ~InLock(r) /\ r.pc = "idle"
        BY <1>2, <1>3 DEF Progress, Deserved, AsksName, AsksWord, InDirectory, InLock, Active
    <1>5. BindOK
        BY <1>1 DEF BindOK, NewConn, NoConn, ReadBound
    <1>6. LockOK
        BY <1>1, <1>3, <1>4 DEF LockOK
    <1> QED
        BY <1>1, <1>3, <1>4, <1>5, <1>6 DEF AuthInv

LEMMA AuthStep == AuthInv /\ [AuthNext]_authVars => AuthInv'
    <1> SUFFICES ASSUME AuthInv, [AuthNext]_authVars PROVE AuthInv'
        OBVIOUS
    <1>1. CASE UNCHANGED authVars
        BY <1>1 DEF authVars, AuthInv, LockOK, BindOK
    <1>2. ASSUME NEW l \in Logins, BeginLogin(l) \/ LoginStep(l) PROVE AuthInv'
        BY <1>2, LoginBegins, LoginMapsFirst, LoginMaps, LoginLooksUp, LoginChecks, LoginOpens, LoginLocks,
           LoginConnects, LoginSearches, LoginBinds, LoginReturns DEF LoginStep
    <1>3. ASSUME NEW t \in CredsTools, CredsStep(t) PROVE AuthInv'
        BY <1>3, CredsMove
    <1>4. CASE DirDrops
        BY <1>4 DEF DirDrops, AuthInv, LockOK, BindOK
    <1> QED
        BY <1>1, <1>2, <1>3, <1>4 DEF AuthNext

------------------------------------------------------------------------------
(* The update pipe: proofs. *)

LEMMA Appended ==
    ASSUME NEW S, NEW s \in Seq(S), NEW x \in S
    PROVE  /\ Append(s, x) \in Seq(S)
           /\ \A u : In(u, Append(s, x)) <=> In(u, s) \/ u = x
           /\ Once(s) /\ (~In(x, s) \/ x = Torn) => Once(Append(s, x))
    <1>1. PICK n \in Nat : n = Len(s) /\ DOMAIN s = 1..n
        OBVIOUS
    <1>2. PICK a \in Seq(S) : a = Append(s, x)
        <2>1. Append(s, x) \in Seq(S)
            OBVIOUS
        <2> QED
            BY <2>1, Zenon
    <1>3. DOMAIN a = 1..n + 1 /\ (\A i \in 1..n : a[i] = s[i]) /\ a[n + 1] = x
        BY <1>1, <1>2
    <1>4. 1..n + 1 = 1..n \cup {n + 1} /\ n + 1 \notin 1..n
        OBVIOUS
    <1>5. \A u : In(u, a) <=> In(u, s) \/ u = x
        BY <1>1, <1>3, <1>4 DEF In
    <1>6. Once(s) /\ (~In(x, s) \/ x = Torn) => Once(a)
        <2> SUFFICES ASSUME Once(s), ~In(x, s) \/ x = Torn, NEW i \in 1..n + 1, NEW j \in 1..n + 1,
                            a[i] = a[j], a[i] # Torn
                     PROVE  i = j
            BY <1>3 DEF Once
        <2>1. CASE i \in 1..n /\ j \in 1..n
            BY <1>1, <1>3, <2>1 DEF Once
        <2>2. CASE i = n + 1 /\ j \in 1..n
            BY <1>1, <1>3, <2>2 DEF In
        <2>3. CASE i \in 1..n /\ j = n + 1
            BY <1>1, <1>3, <2>3 DEF In
        <2> QED
            BY <1>4, <2>1, <2>2, <2>3
    <1> QED
        BY <1>2, <1>5, <1>6

LEMMA Tailed ==
    ASSUME NEW S, NEW s \in Seq(S), s # <<>>
    PROVE  /\ Tail(s) \in Seq(S) /\ Head(s) \in S /\ In(Head(s), s)
           /\ \A u : In(u, Tail(s)) => In(u, s)
           /\ Once(s) => Once(Tail(s)) /\ (Head(s) # Torn => ~In(Head(s), Tail(s)))
    <1>1. PICK n \in Nat : Len(s) = n + 1 /\ DOMAIN s = 1..n + 1
        <2>1. Len(s) \in Nat /\ Len(s) # 0 /\ DOMAIN s = 1..Len(s)
            OBVIOUS
        <2>2. Len(s) - 1 \in Nat /\ Len(s) = (Len(s) - 1) + 1
            BY <2>1
        <2> QED
            BY <2>1, <2>2
    <1>2. PICK b \in Seq(S) : b = Tail(s)
        <2>1. Tail(s) \in Seq(S)
            OBVIOUS
        <2> QED
            BY <2>1, Zenon
    <1>3. DOMAIN b = 1..n /\ (\A i \in 1..n : b[i] = s[i + 1]) /\ Head(s) = s[1]
        BY <1>1, <1>2
    <1>4. 1 \in 1..n + 1 /\ \A i \in 1..n : i + 1 \in 1..n + 1 /\ i + 1 # 1
        OBVIOUS
    <1>5. In(Head(s), s) /\ Head(s) \in S
        BY <1>1, <1>3, <1>4 DEF In
    <1>6. \A u : In(u, b) => In(u, s)
        BY <1>1, <1>3, <1>4 DEF In
    <1>7. Once(s) => Once(b)
        <2> SUFFICES ASSUME Once(s), NEW i \in 1..n, NEW j \in 1..n, b[i] = b[j], b[i] # Torn
                     PROVE  i = j
            BY <1>3 DEF Once
        <2>1. i + 1 = j + 1
            BY <1>1, <1>3, <1>4 DEF Once
        <2> QED
            BY <2>1
    <1>8. Once(s) /\ Head(s) # Torn => ~In(Head(s), b)
        BY <1>1, <1>3, <1>4 DEF Once, In
    <1> QED
        BY <1>2, <1>5, <1>6, <1>7, <1>8

LEMMA NoneIn ==
    ASSUME NEW S
    PROVE  <<>> \in Seq(S) /\ Once(<<>>) /\ \A u : ~In(u, <<>>)
    BY DEF Once, In

LEMMA PipeInitially == PipeInit => PipeInv
    <1> SUFFICES ASSUME PipeInit PROVE PipeInv
        OBVIOUS
    <1>1. /\ \A p \in Procs : outbound[p] = <<>> /\ line[p] = <<>>
          /\ inbound = <<>> /\ seen = {} /\ seenAgain = {}
        BY DEF PipeInit
    <1>2. PipeTypes
        <2>1. <<>> \in Seq(Updates) /\ <<>> \in Seq(Updates \cup {Torn})
            OBVIOUS
        <2> QED
            BY <2>1 DEF PipeInit, PipeTypes
    <1>3. StoreTools \subseteq Procs
        BY DEF Procs
    <1>4. NumbersOK /\ PlacesOK
        BY <1>1, <1>3, NoneIn DEF NumbersOK, PlacesOK
    <1> QED
        BY <1>1, <1>2, <1>4 DEF PipeInv, ToldOnce

LEMMA ProcsType ==
    /\ Server \in Procs /\ Server \notin StoreTools /\ StoreTools \subseteq Procs
    /\ \A p \in Procs : p # Server => p \in StoreTools
    /\ Torn \notin Updates /\ Torn.from # Server
    BY PipeAssumption DEF Procs, Server, Torn, Updates

LEMMA MadeKept ==
    ASSUME PipeInv, srv'.made = srv.made, \A t \in StoreTools : tool'[t].made = tool[t].made
    PROVE  \A p \in Procs : Made(p) <= Made(p)'
    <1> SUFFICES ASSUME NEW p \in Procs PROVE Made(p) <= Made(p)'
        OBVIOUS
    <1>1. srv.made \in Nat /\ \A t \in StoreTools : tool[t].made \in Nat
        BY DEF PipeInv, PipeTypes
    <1>2. CASE p = Server
        BY <1>1, <1>2 DEF Made
    <1>3. CASE p # Server
        BY <1>1, <1>3, ProcsType DEF Made
    <1> QED
        BY <1>2, <1>3

(* A step that makes or moves no update, although it may lose some. *)
LEMMA PipeLoses ==
    ASSUME PipeInv, PipeTypes', \A p \in Procs : Made(p) <= Made(p)',
           \A p \in Procs : \A u \in Updates : /\ In(u, outbound'[p]) => In(u, outbound[p])
                                               /\ In(u, line'[p]) => In(u, line[p]),
           \A u \in Updates : In(u, inbound') => In(u, inbound),
           \A t \in StoreTools : Once(outbound'[t]) /\ Once(line'[t]),
           Once(inbound'), UNCHANGED <<seen, seenAgain>>
    PROVE  PipeInv'
    <1>1. \A p \in Procs : Made(p) \in Nat /\ Made(p)' \in Nat
        BY ProcsType DEF PipeInv, PipeTypes, Made
    <1>2. \A u \in Updates : u.from \in Procs /\ u.n \in Nat
        BY DEF Updates
    <1>3. NumbersOK'
        <2>1. ASSUME NEW p \in Procs, NEW u \in Updates, In(u, outbound'[p]) \/ In(u, line'[p])
              PROVE  u.from = p /\ u.n <= Made(p)'
            <3>1. u.from = p /\ u.n <= Made(p)
                BY <2>1 DEF PipeInv, NumbersOK
            <3> QED
                BY <1>1, <1>2, <3>1
        <2>2. ASSUME NEW u \in Updates, In(u, inbound') \/ u \in seen
              PROVE  (In(u, inbound') => u.from \in StoreTools) /\ u.n <= Made(u.from)'
            <3>1. (In(u, inbound') => u.from \in StoreTools) /\ u.n <= Made(u.from)
                BY <2>2 DEF PipeInv, NumbersOK
            <3>2. PICK p \in Procs : p = u.from
                BY <1>2
            <3>3. u.n <= Made(p)'
                BY <1>1, <1>2, <3>1, <3>2
            <3> QED
                BY <3>1, <3>2, <3>3
        <2>3. seen' \subseteq Updates /\ seen' = seen
            BY DEF PipeInv, PipeTypes
        <2> QED
            BY <2>1, <2>2, <2>3 DEF NumbersOK
    <1>4. PlacesOK'
        BY ProcsType DEF PipeInv, PlacesOK
    <1> QED
        BY <1>3, <1>4 DEF PipeInv, ToldOnce

(* The steps that leave the channels as they are. *)
LEMMA PipeRearranged ==
    ASSUME PipeInv, PipeTypes', UNCHANGED flowVars, \A p \in Procs : Made(p) <= Made(p)'
    PROVE  PipeInv'
    BY PipeLoses DEF PipeInv, PlacesOK, flowVars

LEMMA PipeServerTurns ==
    ASSUME PipeInv, StartServer \/ CloseServer \/ CarrierEnds \/ (\E k \in Keys : Watch(k))
    PROVE  PipeInv'
    <1>1. /\ UNCHANGED flowVars /\ tool' = tool /\ srv'.made = srv.made
          /\ DOMAIN srv' = {"pc", "pipe", "carrier", "made", "crashes"}
        BY DEF PipeInv, PipeTypes, StartServer, CloseServer, CarrierEnds, Watch
    <1>2. PipeTypes'
        BY <1>1 DEF PipeInv, PipeTypes, flowVars
    <1>3. \A p \in Procs : Made(p) <= Made(p)'
        BY <1>1, MadeKept
    <1> QED
        BY <1>1, <1>2, <1>3, PipeRearranged

LEMMA PipeToolTurns ==
    ASSUME PipeInv, NEW t \in StoreTools, OpenTool(t) \/ CloseTool(t)
    PROVE  PipeInv'
    <1>1. /\ UNCHANGED flowVars /\ srv' = srv /\ DOMAIN tool' = StoreTools
          /\ \A s \in StoreTools : /\ DOMAIN tool'[s] = {"pc", "key", "pipe", "linked", "made"}
                                   /\ tool'[s].made = tool[s].made /\ tool'[s].key \in Keys \cup {""}
        <2>1. CASE OpenTool(t)
            <3>1. PICK k \in Keys, on \in BOOLEAN :
                    tool' = [tool EXCEPT ![t] = [@ EXCEPT !.pc = "open", !.key = k, !.pipe = on, !.linked = on]]
                BY <2>1 DEF OpenTool
            <3> QED
                BY <2>1, <3>1 DEF OpenTool, OnlyTool, PipeInv, PipeTypes
        <2>2. CASE CloseTool(t)
            BY <2>2 DEF CloseTool, OnlyTool, PipeInv, PipeTypes
        <2> QED
            BY <2>1, <2>2
    <1>2. PipeTypes'
        BY <1>1 DEF PipeInv, PipeTypes, flowVars
    <1>3. \A p \in Procs : Made(p) <= Made(p)'
        BY <1>1, MadeKept
    <1> QED
        BY <1>1, <1>2, <1>3, PipeRearranged

(* The server's end, by Close or by a crash: what is under way is lost. *)
LEMMA PipeServerGone ==
    ASSUME PipeInv, Dies \/ ServerCloses
    PROVE  PipeInv'
    <1>1. /\ srv'.made = srv.made /\ DOMAIN srv' = {"pc", "pipe", "carrier", "made", "crashes"}
          /\ tool' = Unlinked
          /\ inbound' = <<>> /\ line' = [p \in Procs |-> <<>>] /\ outbound' = None(Server)
          /\ seen' = seen /\ seenAgain' = seenAgain
        BY DEF PipeInv, PipeTypes, Dies, ServerCloses, Crashed
    <1>2. /\ DOMAIN tool' = StoreTools
          /\ \A s \in StoreTools : /\ DOMAIN tool'[s] = {"pc", "key", "pipe", "linked", "made"}
                                   /\ tool'[s].made = tool[s].made /\ tool'[s].key = tool[s].key
        BY <1>1 DEF PipeInv, PipeTypes, Unlinked
    <1>3. <<>> \in Seq(Updates) /\ <<>> \in Seq(Updates \cup {Torn})
        OBVIOUS
    <1>4. /\ outbound' \in [Procs -> Seq(Updates)] /\ outbound'[Server] = <<>>
          /\ \A p \in Procs : p # Server => outbound'[p] = outbound[p]
          /\ line' \in [Procs -> Seq(Updates \cup {Torn})] /\ \A p \in Procs : line'[p] = <<>>
        BY <1>1, <1>3, ProcsType DEF PipeInv, PipeTypes, None
    <1>5. PipeTypes'
        BY <1>1, <1>2, <1>3, <1>4 DEF PipeInv, PipeTypes
    <1>6. \A p \in Procs : Made(p) <= Made(p)'
        BY <1>1, <1>2, MadeKept
    <1>7. \A p \in Procs : \A u \in Updates : /\ In(u, outbound'[p]) => In(u, outbound[p])
                                              /\ In(u, line'[p]) => In(u, line[p])
        BY <1>4, NoneIn
    <1>8. \A t \in StoreTools : Once(outbound'[t]) /\ Once(line'[t])
        BY <1>4, ProcsType, NoneIn DEF PipeInv, PlacesOK
    <1>9. Once(inbound') /\ \A u \in Updates : In(u, inbound') => In(u, inbound)
        BY <1>1, NoneIn
    <1> QED
        BY <1>1, <1>5, <1>6, <1>7, <1>8, <1>9, PipeLoses

(* A tool's end.  Half an update is none. *)
LEMMA PipeToolGone ==
    ASSUME PipeInv, NEW t \in StoreTools, ToolCloses(t) \/ KillTool(t)
    PROVE  PipeInv'
    <1>1. /\ srv' = srv /\ DOMAIN tool' = StoreTools
          /\ \A s \in StoreTools : /\ DOMAIN tool'[s] = {"pc", "key", "pipe", "linked", "made"}
                                   /\ tool'[s].made = tool[s].made /\ tool'[s].key = tool[s].key
          /\ outbound' = None(t) /\ UNCHANGED <<inbound, seen, seenAgain>>
          /\ line' = line \/ line' = [line EXCEPT ![t] = Append(@, Torn)]
        <2>1. CASE ToolCloses(t)
            BY <2>1 DEF ToolCloses, OnlyTool, PipeInv, PipeTypes
        <2>2. CASE KillTool(t)
            <3>1. /\ srv' = srv /\ tool' = [tool EXCEPT ![t].pc = "killed"] /\ outbound' = None(t)
                  /\ UNCHANGED <<inbound, seen, seenAgain>>
                BY <2>2 DEF KillTool, OnlyTool
            <3>2. line' = line \/ line' = [line EXCEPT ![t] = Append(@, Torn)]
                BY <2>2 DEF KillTool
            <3> QED
                BY <3>1, <3>2 DEF PipeInv, PipeTypes
        <2> QED
            BY <2>1, <2>2
    <1>2. <<>> \in Seq(Updates) /\ t \in Procs /\ line[t] \in Seq(Updates \cup {Torn})
        <2>1. t \in Procs
            BY ProcsType
        <2>2. line \in [Procs -> Seq(Updates \cup {Torn})]
            BY DEF PipeInv, PipeTypes
        <2> QED
            BY <2>1, <2>2
    <1>3. /\ outbound' \in [Procs -> Seq(Updates)] /\ outbound'[t] = <<>>
          /\ \A p \in Procs : p # t => outbound'[p] = outbound[p]
        BY <1>1, <1>2 DEF PipeInv, PipeTypes, None
    <1>4. PICK a : a = Append(line[t], Torn)
        OBVIOUS
    <1>5. /\ a \in Seq(Updates \cup {Torn})
          /\ \A u : In(u, a) <=> In(u, line[t]) \/ u = Torn
          /\ Once(line[t]) => Once(a)
        <2>1. Torn \in Updates \cup {Torn}
            OBVIOUS
        <2> QED
            BY <1>2, <1>4, <2>1, Appended
    <1>6. /\ line' \in [Procs -> Seq(Updates \cup {Torn})]
          /\ line'[t] = line[t] \/ line'[t] = a
          /\ \A p \in Procs : p # t => line'[p] = line[p]
        <2>1. line \in [Procs -> Seq(Updates \cup {Torn})]
            BY DEF PipeInv, PipeTypes
        <2>2. line' = line \/ line' = [line EXCEPT ![t] = a]
            BY <1>1, <1>4
        <2> QED
            BY <1>2, <1>5, <2>1, <2>2
    <1>7. PipeTypes'
        BY <1>1, <1>3, <1>6 DEF PipeInv, PipeTypes
    <1>8. \A p \in Procs : Made(p) <= Made(p)'
        BY <1>1, MadeKept
    <1>9. \A p \in Procs : \A u \in Updates : /\ In(u, outbound'[p]) => In(u, outbound[p])
                                              /\ In(u, line'[p]) => In(u, line[p])
        BY <1>3, <1>5, <1>6, ProcsType, NoneIn
    <1>10. \A s \in StoreTools : Once(outbound'[s]) /\ Once(line'[s])
        BY <1>3, <1>5, <1>6, ProcsType, NoneIn DEF PipeInv, PlacesOK
    <1>11. Once(inbound') /\ \A u \in Updates : In(u, inbound') => In(u, inbound)
        BY <1>1 DEF PipeInv, PlacesOK
    <1> QED
        BY <1>1, <1>7, <1>8, <1>9, <1>10, <1>11, PipeLoses

(* A change of the server: the sessions are told at once, of an update with *)
(* a new number, and its copy in the server's own channel is no tool's.     *)
LEMMA PipeServerChanges == ASSUME PipeInv, ServerChange PROVE PipeInv'
    <1>1. PICK n \in Nat : n = srv.made
        BY DEF PipeInv, PipeTypes
    <1>2. PICK k \in Keys : \E u : /\ u = Update(Server, n + 1, k)
                                   /\ outbound' = IF srv.pipe THEN [outbound EXCEPT ![Server] = Append(@, u)]
                                                  ELSE outbound
                                   /\ Tell(u)
        BY <1>1 DEF ServerChange
    <1>3. PICK u : /\ u = Update(Server, n + 1, k)
                   /\ outbound' = IF srv.pipe THEN [outbound EXCEPT ![Server] = Append(@, u)] ELSE outbound
                   /\ Tell(u)
        BY <1>2
    <1>4. /\ srv' = [srv EXCEPT !.made = n + 1] /\ UNCHANGED <<tool, line, inbound>>
        BY <1>1 DEF ServerChange
    <1>5. u \in Updates /\ u.from = Server /\ u.n = n + 1
        <2>1. n + 1 \in Nat
            BY SMT
        <2>2. Server \in Procs
            BY ProcsType, Zenon
        <2>3. PICK v : v = Update(Server, n + 1, k)
            OBVIOUS
        <2>4. v \in Updates /\ v.from = Server /\ v.n = n + 1
            BY ONLY k \in Keys, <2>1, <2>2, <2>3 DEF Update, Updates
        <2>5. u = v
            BY <1>3, <2>3, Zenon
        <2> QED
            BY <2>4, <2>5, Zenon
    <1>6. /\ outbound \in [Procs -> Seq(Updates)] /\ Server \in Procs
          /\ outbound[Server] \in Seq(Updates)
        BY ProcsType DEF PipeInv, PipeTypes
    <1>7. PICK a : a = Append(outbound[Server], u)
        OBVIOUS
    <1>8. a \in Seq(Updates) /\ \A v : In(v, a) <=> In(v, outbound[Server]) \/ v = u
        BY <1>5, <1>6, <1>7, Appended
    <1>9. /\ outbound' \in [Procs -> Seq(Updates)]
          /\ outbound'[Server] = outbound[Server] \/ outbound'[Server] = a
          /\ \A p \in Procs : p # Server => outbound'[p] = outbound[p]
        <2>1. outbound' = outbound \/ outbound' = [outbound EXCEPT ![Server] = a]
            BY <1>3, <1>7
        <2> QED
            BY <1>6, <1>8, <2>1
    <1>10. seen' = seen \cup {u} /\ seenAgain' = seenAgain \cup (seen \cap {u})
        BY <1>3 DEF Tell
    <1>11. /\ srv'.made = n + 1 /\ DOMAIN srv' = {"pc", "pipe", "carrier", "made", "crashes"}
        BY <1>4 DEF PipeInv, PipeTypes
    <1>12. PipeTypes'
        <2>1. line' = line /\ inbound' = inbound /\ tool' = tool /\ seen' \subseteq Updates
            BY <1>4, <1>5, <1>10, Zenon DEF PipeInv, PipeTypes
        <2>2. srv'.made \in Nat
            BY <1>11
        <2> QED
            BY <1>9, <1>11, <2>1, <2>2, Zenon DEF PipeInv, PipeTypes
    <1>13. /\ Made(Server) = n /\ Made(Server)' = n + 1
           /\ \A p \in Procs : p # Server => Made(p)' = Made(p) /\ Made(p) \in Nat
        BY <1>1, <1>4, <1>11, ProcsType DEF Made, PipeInv, PipeTypes
    <1>14. \A p \in Procs : \A m \in Nat : m <= Made(p) => m <= Made(p)'
        BY <1>13
    <1>15. \A v \in Updates : v.from \in Procs /\ v.n \in Nat
        BY DEF Updates
    <1>16. u \notin seen
        BY <1>5, <1>13 DEF PipeInv, NumbersOK
    <1>17. NumbersOK'
        <2>1. ASSUME NEW p \in Procs, NEW v \in Updates, In(v, outbound'[p]) \/ In(v, line'[p])
              PROVE  v.from = p /\ v.n <= Made(p)'
            <3>1. CASE In(v, outbound[p]) \/ In(v, line[p])
                BY <1>14, <1>15, <3>1 DEF PipeInv, NumbersOK
            <3>2. CASE ~(In(v, outbound[p]) \/ In(v, line[p]))
                <4>1. p = Server /\ v = u
                    BY <1>4, <1>8, <1>9, <2>1, <3>2
                <4> QED
                    BY <1>5, <1>13, <4>1
            <3> QED
                BY <3>1, <3>2
        <2>2. ASSUME NEW v \in Updates, In(v, inbound') PROVE v.from \in StoreTools /\ v.n <= Made(v.from)'
            <3>1. v.from \in StoreTools /\ v.n <= Made(v.from)
                BY <1>4, <2>2 DEF PipeInv, NumbersOK
            <3> QED
                BY <1>14, <1>15, <3>1
        <2>3. ASSUME NEW v \in seen' PROVE v.n <= Made(v.from)'
            <3>1. CASE v \in seen
                <4>1. v.n <= Made(v.from) /\ v \in Updates
                    BY <3>1 DEF PipeInv, NumbersOK, PipeTypes
                <4> QED
                    BY <1>14, <1>15, <4>1
            <3>2. CASE v = u
                BY <1>5, <1>13, <3>2
            <3> QED
                BY <1>10, <2>3, <3>1, <3>2
        <2> QED
            BY <2>1, <2>2, <2>3 DEF NumbersOK
    <1>18. PlacesOK'
        <2>1. \A v \in Updates : In(v, inbound) => v # u
            BY <1>5, ProcsType DEF PipeInv, NumbersOK
        <2>2. \A t \in StoreTools : \A v \in Updates : In(v, outbound[t]) \/ In(v, line[t]) => v # u
            BY <1>5, ProcsType DEF PipeInv, NumbersOK
        <2>3. \A t \in StoreTools : outbound'[t] = outbound[t] /\ line'[t] = line[t]
            BY <1>4, <1>9, ProcsType
        <2> QED
            BY <1>4, <1>10, <2>1, <2>2, <2>3 DEF PipeInv, PlacesOK
    <1> QED
        BY <1>10, <1>12, <1>16, <1>17, <1>18 DEF PipeInv, ToldOnce

(* A change of a tool: an update with a new number in the tool's channel. *)
LEMMA PipeToolChanges == ASSUME PipeInv, NEW t \in StoreTools, ToolChange(t) PROVE PipeInv'
    <1>1. PICK n \in Nat : n = tool[t].made
        BY DEF PipeInv, PipeTypes
    <1>2. PICK u : u = Update(t, n + 1, tool[t].key)
        OBVIOUS
    <1>3. /\ outbound' = IF tool[t].pipe THEN [outbound EXCEPT ![t] = Append(@, u)] ELSE outbound
          /\ tool' = [tool EXCEPT ![t].made = n + 1]
          /\ UNCHANGED <<srv, line, inbound, seen, seenAgain>>
        BY <1>1, <1>2 DEF ToolChange, OnlyTool
    <1>4. u \in Updates /\ u.from = t /\ u.n = n + 1 /\ t \in Procs /\ t # Server
        <2>1. n + 1 \in Nat
            BY SMT
        <2>2. tool[t].key \in Keys \cup {""} /\ t \in Procs /\ t # Server
            BY ProcsType DEF PipeInv, PipeTypes
        <2>3. PICK k \in Keys \cup {""} : k = tool[t].key
            BY <2>2, Zenon
        <2>4. PICK v : v = Update(t, n + 1, k)
            OBVIOUS
        <2>5. v \in Updates /\ v.from = t /\ v.n = n + 1
            BY ONLY k \in Keys \cup {""}, <2>1, <2>2, <2>4 DEF Update, Updates
        <2>6. u = v
            BY <1>2, <2>3, <2>4, Zenon
        <2> QED
            BY <2>2, <2>5, <2>6, Zenon
    <1>5. outbound \in [Procs -> Seq(Updates)] /\ outbound[t] \in Seq(Updates)
        BY <1>4 DEF PipeInv, PipeTypes
    <1>6. PICK a : a = Append(outbound[t], u)
        OBVIOUS
    <1>7. /\ a \in Seq(Updates) /\ \A v : In(v, a) <=> In(v, outbound[t]) \/ v = u
          /\ Once(outbound[t]) /\ ~In(u, outbound[t]) => Once(a)
        BY <1>4, <1>5, <1>6, Appended
    <1>8. /\ outbound' \in [Procs -> Seq(Updates)]
          /\ outbound'[t] = outbound[t] \/ outbound'[t] = a
          /\ \A p \in Procs : p # t => outbound'[p] = outbound[p]
        <2>1. outbound' = outbound \/ outbound' = [outbound EXCEPT ![t] = a]
            BY <1>3, <1>6
        <2> QED
            BY <1>4, <1>5, <1>7, <2>1
    <1>9. /\ DOMAIN tool' = StoreTools /\ tool'[t].made = n + 1
          /\ \A s \in StoreTools : /\ DOMAIN tool'[s] = {"pc", "key", "pipe", "linked", "made"}
                                   /\ tool'[s].key = tool[s].key
                                   /\ s # t => tool'[s].made = tool[s].made
        BY <1>3 DEF PipeInv, PipeTypes
    <1>10. PipeTypes'
        <2>1. \A s \in StoreTools : tool'[s].made \in Nat
            <3>1. n + 1 \in Nat
                BY SMT
            <3> QED
                BY <1>9, <3>1, Zenon DEF PipeInv, PipeTypes
        <2>2. srv' = srv /\ line' = line /\ inbound' = inbound /\ seen' = seen
            BY <1>3
        <2> QED
            BY <1>8, <1>9, <2>1, <2>2 DEF PipeInv, PipeTypes
    <1>11. /\ Made(t) = n /\ Made(t)' = n + 1
           /\ \A p \in Procs : p # t => Made(p)' = Made(p) /\ Made(p) \in Nat
        BY <1>1, <1>3, <1>4, <1>9, ProcsType DEF Made, PipeInv, PipeTypes
    <1>12. \A p \in Procs : \A m \in Nat : m <= Made(p) => m <= Made(p)'
        BY <1>11
    <1>13. \A v \in Updates : v.from \in Procs /\ v.n \in Nat
        BY DEF Updates
    <1>14. ~In(u, outbound[t]) /\ ~In(u, line[t]) /\ ~In(u, inbound) /\ u \notin seen
        <2>1. ~(u.n <= Made(t)) /\ ~(u.n <= Made(u.from))
            BY <1>4, <1>11
        <2> QED
            BY <1>4, <2>1 DEF PipeInv, NumbersOK
    <1>15. NumbersOK'
        <2>1. ASSUME NEW p \in Procs, NEW v \in Updates, In(v, outbound'[p]) \/ In(v, line'[p])
              PROVE  v.from = p /\ v.n <= Made(p)'
            <3>1. CASE In(v, outbound[p]) \/ In(v, line[p])
                BY <1>12, <1>13, <3>1 DEF PipeInv, NumbersOK
            <3>2. CASE ~(In(v, outbound[p]) \/ In(v, line[p]))
                <4>1. p = t /\ v = u
                    BY <1>3, <1>7, <1>8, <2>1, <3>2
                <4> QED
                    BY <1>4, <1>11, <4>1
            <3> QED
                BY <3>1, <3>2
        <2>2. ASSUME NEW v \in Updates, In(v, inbound') PROVE v.from \in StoreTools /\ v.n <= Made(v.from)'
            <3>1. v.from \in StoreTools /\ v.n <= Made(v.from)
                BY <1>3, <2>2 DEF PipeInv, NumbersOK
            <3> QED
                BY <1>12, <1>13, <3>1
        <2>3. ASSUME NEW v \in seen' PROVE v.n <= Made(v.from)'
            <3>1. v.n <= Made(v.from) /\ v \in Updates
                BY <1>3, <2>3 DEF PipeInv, NumbersOK, PipeTypes
            <3> QED
                BY <1>12, <1>13, <3>1
        <2> QED
            BY <2>1, <2>2, <2>3 DEF NumbersOK
    <1>16. PlacesOK'
        <2>1. ASSUME NEW s \in StoreTools PROVE Once(outbound'[s])
            <3>1. Once(outbound[s]) /\ (s = t => Once(a)) /\ s \in Procs
                BY <1>7, <1>14, <2>1, ProcsType DEF PipeInv, PlacesOK
            <3> QED
                BY <1>8, <3>1
        <2>2. ASSUME NEW s \in StoreTools, NEW v \in Updates, In(v, outbound'[s])
              PROVE  ~In(v, line[s]) /\ ~In(v, inbound) /\ v \notin seen
            <3>1. CASE In(v, outbound[s])
                BY <3>1 DEF PipeInv, PlacesOK
            <3>2. CASE ~In(v, outbound[s])
                <4>1. s = t /\ v = u
                    BY <1>7, <1>8, <2>2, <3>2, ProcsType
                <4> QED
                    BY <1>14, <4>1
            <3> QED
                BY <3>1, <3>2
        <2> QED
            BY <1>3, <2>1, <2>2 DEF PipeInv, PlacesOK
    <1> QED
        BY <1>3, <1>10, <1>15, <1>16 DEF PipeInv, ToldOnce

(* The carrier's push: the first update leaves the channel before it is on  *)
(* the line, if it gets there.                                              *)
LEMMA PipePushes == ASSUME PipeInv, NEW p \in Procs, PushOut(p) PROVE PipeInv'
    <1>1. PICK u : u = Head(outbound[p])
        OBVIOUS
    <1>2. PICK b : b = Tail(outbound[p])
        OBVIOUS
    <1>3. PICK a : a = Append(line[p], u)
        OBVIOUS
    <1>4. /\ outbound \in [Procs -> Seq(Updates)] /\ outbound[p] \in Seq(Updates) /\ outbound[p] # <<>>
          /\ line \in [Procs -> Seq(Updates \cup {Torn})] /\ line[p] \in Seq(Updates \cup {Torn})
        BY DEF PipeInv, PipeTypes, PushOut
    <1>5. /\ outbound' = [outbound EXCEPT ![p] = b]
          /\ line' = line \/ line' = [line EXCEPT ![p] = a]
          /\ UNCHANGED <<srv, tool, inbound, seen, seenAgain>>
        BY <1>1, <1>2, <1>3 DEF PushOut
    <1>6. /\ b \in Seq(Updates) /\ u \in Updates /\ In(u, outbound[p])
          /\ \A v : In(v, b) => In(v, outbound[p])
          /\ Once(outbound[p]) => Once(b) /\ (u # Torn => ~In(u, b))
        BY <1>1, <1>2, <1>4, Tailed
    <1>7. u # Torn /\ u \in Updates \cup {Torn}
        BY <1>6, ProcsType
    <1>8. /\ a \in Seq(Updates \cup {Torn}) /\ \A v : In(v, a) <=> In(v, line[p]) \/ v = u
          /\ Once(line[p]) /\ ~In(u, line[p]) => Once(a)
        BY <1>3, <1>4, <1>7, Appended
    <1>9. /\ outbound' \in [Procs -> Seq(Updates)] /\ outbound'[p] = b
          /\ \A q \in Procs : q # p => outbound'[q] = outbound[q]
        BY <1>4, <1>5, <1>6
    <1>10. /\ line' \in [Procs -> Seq(Updates \cup {Torn})]
           /\ line'[p] = line[p] \/ line'[p] = a
           /\ \A q \in Procs : q # p => line'[q] = line[q]
        BY <1>4, <1>5, <1>8
    <1>11. PipeTypes'
        <2>1. srv' = srv /\ tool' = tool /\ inbound' = inbound /\ seen' = seen
            BY <1>5
        <2>2. outbound' \in [Procs -> Seq(Updates)]
            BY <1>9, Zenon
        <2>3. line' \in [Procs -> Seq(Updates \cup {Torn})]
            BY <1>10, Zenon
        <2> QED
            BY <2>1, <2>2, <2>3, Zenon DEF PipeInv, PipeTypes
    <1>12. \A q \in Procs : Made(q)' = Made(q)
        BY <1>5 DEF Made
    <1>13. \A v \in Updates : v.from \in Procs
        BY DEF Updates
    <1>14. \A q \in Procs : \A v \in Updates :
              /\ In(v, outbound'[q]) => In(v, outbound[q])
              /\ In(v, line'[q]) => In(v, line[q]) \/ (q = p /\ v = u)
        BY <1>6, <1>8, <1>9, <1>10
    <1>15. NumbersOK'
        <2>1. ASSUME NEW q \in Procs, NEW v \in Updates, In(v, outbound'[q]) \/ In(v, line'[q])
              PROVE  v.from = q /\ v.n <= Made(q)'
            <3>1. In(v, outbound[q]) \/ In(v, line[q])
                BY <1>6, <1>14, <2>1
            <3> QED
                BY <1>12, <3>1, Zenon DEF PipeInv, NumbersOK
        <2>2. ASSUME NEW v \in Updates, In(v, inbound') PROVE v.from \in StoreTools /\ v.n <= Made(v.from)'
            BY <1>5, <1>12, <1>13, <2>2, Zenon DEF PipeInv, NumbersOK
        <2>3. ASSUME NEW v \in seen' PROVE v.n <= Made(v.from)'
            <3>1. v \in Updates /\ v.n <= Made(v.from)
                BY <1>5, <2>3, Zenon DEF PipeInv, PipeTypes, NumbersOK
            <3> QED
                BY <1>12, <1>13, <3>1, Zenon
        <2> QED
            BY <2>1, <2>2, <2>3 DEF NumbersOK
    <1>16. PlacesOK'
        <2> SUFFICES ASSUME NEW t \in StoreTools
                     PROVE  /\ Once(outbound'[t]) /\ Once(line'[t])
                            /\ \A v \in Updates :
                                 /\ In(v, outbound'[t]) => ~In(v, line'[t]) /\ ~In(v, inbound) /\ v \notin seen
                                 /\ In(v, line'[t]) => ~In(v, inbound) /\ v \notin seen
            BY <1>5 DEF PipeInv, PlacesOK
        <2>1. t \in Procs /\ Once(outbound[t]) /\ Once(line[t])
            BY ProcsType DEF PipeInv, PlacesOK
        <2>2. \A v \in Updates :
                 /\ In(v, outbound[t]) => ~In(v, line[t]) /\ ~In(v, inbound) /\ v \notin seen
                 /\ In(v, line[t]) => ~In(v, inbound) /\ v \notin seen
            BY DEF PipeInv, PlacesOK
        <2>3. CASE t # p
            BY <1>9, <1>10, <2>1, <2>2, <2>3
        <2>4. CASE t = p
            <3>1. Once(b) /\ ~In(u, b) /\ ~In(u, line[t]) /\ ~In(u, inbound) /\ u \notin seen
                BY <1>6, <1>7, <2>1, <2>2, <2>4
            <3>2. Once(a)
                BY <1>8, <2>1, <2>4, <3>1
            <3>3. Once(outbound'[t]) /\ Once(line'[t])
                BY <1>9, <1>10, <2>1, <2>4, <3>1, <3>2
            <3>4. \A v \in Updates : In(v, outbound'[t]) => In(v, outbound[t]) /\ v # u
                BY <1>6, <1>9, <2>4, <3>1
            <3>5. \A v \in Updates : In(v, line'[t]) => In(v, line[t]) \/ v = u
                BY <1>14, <2>1
            <3> QED
                BY <2>2, <3>1, <3>3, <3>4, <3>5
        <2> QED
            BY <2>3, <2>4
    <1> QED
        BY <1>5, <1>11, <1>15, <1>16 DEF PipeInv, ToldOnce

(* The reader: the first update leaves the line before it is in the         *)
(* server's channel; the server's own, and half an update, go nowhere.      *)
LEMMA PipeReads == ASSUME PipeInv, NEW p \in Procs, ReadUpdate(p) PROVE PipeInv'
    <1>1. PICK u : u = Head(line[p])
        OBVIOUS
    <1>2. CASE u = Torn /\ driver = "sqlite3"
        BY <1>1, <1>2, PipeServerGone DEF ReadUpdate
    <1>3. CASE ~(u = Torn /\ driver = "sqlite3")
        <2>1. PICK b : b = Tail(line[p])
            OBVIOUS
        <2>2. PICK a : a = Append(inbound, u)
            OBVIOUS
        <2>3. /\ line' = [line EXCEPT ![p] = b]
              /\ inbound' = inbound \/ (u # Torn /\ u.from # Server /\ inbound' = a)
              /\ UNCHANGED <<srv, tool, outbound, seen, seenAgain>>
            BY <1>1, <1>3, <2>1, <2>2 DEF ReadUpdate, Own
        <2>4. /\ line \in [Procs -> Seq(Updates \cup {Torn})] /\ line[p] \in Seq(Updates \cup {Torn})
              /\ line[p] # <<>> /\ inbound \in Seq(Updates)
            BY DEF PipeInv, PipeTypes, ReadUpdate
        <2>5. /\ b \in Seq(Updates \cup {Torn}) /\ u \in Updates \cup {Torn} /\ In(u, line[p])
              /\ \A v : In(v, b) => In(v, line[p])
              /\ Once(line[p]) => Once(b) /\ (u # Torn => ~In(u, b))
            BY <1>1, <2>1, <2>4, Tailed
        <2>6. /\ line' \in [Procs -> Seq(Updates \cup {Torn})] /\ line'[p] = b
              /\ \A q \in Procs : q # p => line'[q] = line[q]
            BY <2>3, <2>4, <2>5
        <2>7. \A q \in Procs : Made(q)' = Made(q)
            BY <2>3 DEF Made
        <2>8. \A q \in Procs : Made(q) <= Made(q)'
            BY <2>3, MadeKept
        <2>9. \A q \in Procs : \A v \in Updates : In(v, line'[q]) => In(v, line[q])
            BY <2>5, <2>6
        <2>10. \A t \in StoreTools : Once(outbound'[t]) /\ Once(line'[t])
            BY <2>3, <2>5, <2>6, ProcsType DEF PipeInv, PlacesOK
        <2>11. CASE inbound' = inbound
            <3>1. PipeTypes'
                BY <2>3, <2>6, <2>11, Zenon DEF PipeInv, PipeTypes
            <3>2. Once(inbound') /\ \A v \in Updates : In(v, inbound') => In(v, inbound)
                BY <2>11 DEF PipeInv, PlacesOK
            <3>3. \A q \in Procs : \A v \in Updates : /\ In(v, outbound'[q]) => In(v, outbound[q])
                                                      /\ In(v, line'[q]) => In(v, line[q])
                BY <2>3, <2>9
            <3> QED
                BY <2>3, <2>8, <2>10, <3>1, <3>2, <3>3, PipeLoses
        <2>12. CASE u # Torn /\ u.from # Server /\ inbound' = a
            <3>1. u \in Updates /\ u.from = p /\ p \in StoreTools /\ u.n <= Made(p)
                <4>1. u \in Updates
                    BY <2>5, <2>12
                <4>2. u.from = p /\ u.n <= Made(p)
                    BY <2>5, <4>1 DEF PipeInv, NumbersOK
                <4> QED
                    BY <2>12, <4>1, <4>2, ProcsType
            <3>2. ~In(u, inbound) /\ u \notin seen /\ ~In(u, outbound[p]) /\ Once(line[p]) /\ Once(inbound)
                BY <2>5, <3>1 DEF PipeInv, PlacesOK
            <3>3. a \in Seq(Updates) /\ (\A v : In(v, a) <=> In(v, inbound) \/ v = u) /\ Once(a)
                BY <2>2, <2>4, <3>1, <3>2, Appended
            <3>4. PipeTypes'
                BY <2>3, <2>6, <2>12, <3>3, Zenon DEF PipeInv, PipeTypes
            <3>5. \A v \in Updates : v.from \in Procs
                BY DEF Updates
            <3>6. NumbersOK'
                <4>1. ASSUME NEW q \in Procs, NEW v \in Updates, In(v, outbound'[q]) \/ In(v, line'[q])
                      PROVE  v.from = q /\ v.n <= Made(q)'
                    <5>1. In(v, outbound[q]) \/ In(v, line[q])
                        BY <2>3, <2>9, <4>1
                    <5> QED
                        BY <2>7, <5>1, Zenon DEF PipeInv, NumbersOK
                <4>2. ASSUME NEW v \in Updates, In(v, inbound')
                      PROVE  v.from \in StoreTools /\ v.n <= Made(v.from)'
                    <5>1. v.from \in StoreTools /\ v.n <= Made(v.from)
                        BY <2>12, <3>1, <3>3, <4>2, Zenon DEF PipeInv, NumbersOK
                    <5> QED
                        BY <2>7, <3>5, <5>1, Zenon
                <4>3. ASSUME NEW v \in seen' PROVE v.n <= Made(v.from)'
                    <5>1. v \in Updates /\ v.n <= Made(v.from)
                        BY <2>3, <4>3, Zenon DEF PipeInv, PipeTypes, NumbersOK
                    <5> QED
                        BY <2>7, <3>5, <5>1, Zenon
                <4> QED
                    BY <4>1, <4>2, <4>3 DEF NumbersOK
            <3>7. PlacesOK'
                <4>1. \A v \in Updates : In(v, inbound') => v \notin seen
                    BY <2>12, <3>2, <3>3 DEF PipeInv, PlacesOK
                <4>2. ASSUME NEW t \in StoreTools, NEW v \in Updates
                      PROVE  /\ In(v, outbound'[t]) => ~In(v, line'[t]) /\ ~In(v, inbound') /\ v \notin seen
                             /\ In(v, line'[t]) => ~In(v, inbound') /\ v \notin seen
                    <5>1. /\ In(v, outbound[t]) => ~In(v, line[t]) /\ ~In(v, inbound) /\ v \notin seen
                          /\ In(v, line[t]) => ~In(v, inbound) /\ v \notin seen
                        BY DEF PipeInv, PlacesOK
                    <5>2. /\ t \in Procs /\ outbound'[t] = outbound[t]
                          /\ In(v, line'[t]) => In(v, line[t])
                        BY <2>3, <2>9, ProcsType
                    <5>3. In(v, inbound') <=> In(v, inbound) \/ v = u
                        BY <2>12, <3>3
                    <5>4. In(v, outbound[t]) \/ In(v, line[t]) => v.from = t
                        BY <5>2 DEF PipeInv, NumbersOK
                    <5>5. v = u => ~In(v, outbound[t]) /\ ~In(v, line'[t])
                        BY <2>5, <2>6, <2>12, <3>1, <3>2, <5>2, <5>4
                    <5> QED
                        BY <5>1, <5>2, <5>3, <5>5
                <4>3. Once(inbound')
                    BY <2>12, <3>3
                <4> QED
                    BY <2>3, <2>10, <4>1, <4>2, <4>3 DEF PlacesOK
            <3> QED
                BY <2>3, <3>4, <3>6, <3>7 DEF PipeInv, ToldOnce
        <2> QED
            BY <2>3, <2>11, <2>12
    <1> QED
        BY <1>2, <1>3

(* The carrier hands over an update that nobody was told of. *)
LEMMA PipeTakes == ASSUME PipeInv, TakeIn PROVE PipeInv'
    <1>1. PICK u : u = Head(inbound)
        OBVIOUS
    <1>2. PICK b : b = Tail(inbound)
        OBVIOUS
    <1>3. /\ inbound' = b /\ seen' = seen \cup {u} /\ seenAgain' = seenAgain \cup (seen \cap {u})
          /\ UNCHANGED <<srv, tool, outbound, line>> /\ inbound # <<>>
        BY <1>1, <1>2 DEF TakeIn, Tell
    <1>4. inbound \in Seq(Updates)
        BY DEF PipeInv, PipeTypes
    <1>5. /\ b \in Seq(Updates) /\ u \in Updates /\ In(u, inbound)
          /\ \A v : In(v, b) => In(v, inbound)
          /\ Once(inbound) => Once(b) /\ (u # Torn => ~In(u, b))
        BY <1>1, <1>2, <1>3, <1>4, Tailed
    <1>6. /\ u \notin seen /\ Once(b) /\ ~In(u, b) /\ u.n <= Made(u.from)
          /\ \A t \in StoreTools : ~In(u, outbound[t]) /\ ~In(u, line[t])
        BY <1>5, ProcsType DEF PipeInv, PlacesOK, NumbersOK
    <1>7. PipeTypes'
        BY <1>3, <1>5, Zenon DEF PipeInv, PipeTypes
    <1>8. \A q \in Procs : Made(q)' = Made(q)
        BY <1>3 DEF Made
    <1>9. \A v \in Updates : v.from \in Procs
        BY DEF Updates
    <1>10. NumbersOK'
        <2>1. ASSUME NEW q \in Procs, NEW v \in Updates, In(v, outbound'[q]) \/ In(v, line'[q])
              PROVE  v.from = q /\ v.n <= Made(q)'
            BY <1>3, <1>8, <2>1, Zenon DEF PipeInv, NumbersOK
        <2>2. ASSUME NEW v \in Updates, In(v, inbound') PROVE v.from \in StoreTools /\ v.n <= Made(v.from)'
            BY <1>3, <1>5, <1>8, <1>9, <2>2, Zenon DEF PipeInv, NumbersOK
        <2>3. ASSUME NEW v \in seen' PROVE v.n <= Made(v.from)'
            <3>1. v \in Updates /\ v.n <= Made(v.from)
                BY <1>3, <1>5, <1>6, <2>3, Zenon DEF PipeInv, PipeTypes, NumbersOK
            <3> QED
                BY <1>8, <1>9, <3>1, Zenon
        <2> QED
            BY <2>1, <2>2, <2>3 DEF NumbersOK
    <1>11. PlacesOK'
        <2>1. \A v \in Updates : In(v, inbound') => v \notin seen'
            BY <1>3, <1>5, <1>6 DEF PipeInv, PlacesOK
        <2>2. \A t \in StoreTools : \A v \in Updates : In(v, outbound[t]) \/ In(v, line[t]) => v # u
            BY <1>6
        <2> QED
            BY <1>3, <1>5, <1>6, <2>1, <2>2 DEF PipeInv, PlacesOK
    <1> QED
        BY <1>3, <1>6, <1>7, <1>10, <1>11 DEF PipeInv, ToldOnce

LEMMA PipeStep == PipeInv /\ [PipeNext]_pipeVars => PipeInv'
    <1> SUFFICES ASSUME PipeInv, [PipeNext]_pipeVars PROVE PipeInv'
        OBVIOUS
    <1>1. CASE UNCHANGED pipeVars
        <2>1. PipeTypes'
            BY <1>1, Zenon DEF PipeInv, PipeTypes, pipeVars
        <2>2. \A p \in Procs : Made(p) <= Made(p)'
            BY <1>1, MadeKept DEF pipeVars
        <2> QED
            BY <1>1, <2>1, <2>2, PipeRearranged DEF pipeVars, flowVars
    <1>2. CASE CrashServer
        BY <1>2, PipeServerGone DEF CrashServer
    <1>3. CASE StartServer \/ CloseServer \/ CarrierEnds \/ \E k \in Keys : Watch(k)
        BY <1>3, PipeServerTurns
    <1> QED
        BY <1>1, <1>2, <1>3, PipeServerGone, PipeServerChanges, PipeTakes, PipePushes, PipeReads,
           PipeToolTurns, PipeToolChanges, PipeToolGone
        DEF PipeNext

------------------------------------------------------------------------------
(* Theorems *)

(* The invariants of the logins and of the relay hold in every reachable    *)
(* state, for every configuration.                                          *)
THEOREM AccountsInvariant == Spec => [](AuthInv /\ RelayInv)
    <1>1. Init => AuthInv /\ RelayInv
        BY AuthInitially, RelayInitially DEF Init, AuthRests, RelayRests
    <1>2. [Next]_vars => [AuthNext]_authVars /\ [RelayNext]_relayVars
        BY DEF Next, vars, authVars, relayVars
    <1>3. AuthInv /\ RelayInv /\ [Next]_vars => AuthInv' /\ RelayInv'
        BY <1>2, AuthStep, RelayStep
    <1> QED
        BY <1>1, <1>3, PTL DEF Spec

(* Where every provider has a back end, nobody is let in whose password no  *)
(* back end of a provider that lists the name vouched for while the login   *)
(* lasted (sasl.go, plain_separate.go, pass_table, ldap.go), however the    *)
(* creds tools, the directory and the other logins interfere.               *)
THEOREM AccountsVouchedFor == Spec => [](PassConfigured(lcfg) => VouchedFor)
    <1>1. AuthInv => (PassConfigured(lcfg) => VouchedFor)
        BY DEF AuthInv, VouchedFor, Deserved, Vouched
    <1> QED
        BY <1>1, AccountsInvariant, PTL

(* Unless `bind off' is configured, the directory is searched as the        *)
(* configured reader only, although one connection serves all logins and is *)
(* bound as their users in between (ldap.go returnConn).                    *)
THEOREM AccountsReadsAsReader == Spec => [](lcfg.bind # "off" => ReadsAsReader)
    <1>1. AuthInv => (lcfg.bind # "off" => ReadsAsReader)
        <2> SUFFICES ASSUME AuthInv, lcfg.bind # "off", NEW l \in Logins, login[l].pc = "search", dirConn.open
                     PROVE  dirConn.bound = ConfiguredReader
            BY DEF ReadsAsReader
        <2>1. \A m \in Logins : login[m].pc # "return"
            BY DEF AuthInv, LockOK, InLock
        <2> QED
            BY <2>1 DEF AuthInv, BindOK, ConfiguredReader, NewConn, ReadBound
    <1> QED
        BY <1>1, AccountsInvariant, PTL

(* The sessions are told of no update twice, although the server is         *)
(* connected to itself, the tools are killed and the server crashes at any  *)
(* moment (imapsql.go EnableUpdatePipe, unix_pipe.go, pubsub_pipe.go).      *)
THEOREM AccountsToldOnce == Spec => []ToldOnce
    <1>1. Init => PipeInv
        BY PipeInitially DEF Init, PipeRests
    <1>2. [Next]_vars => [PipeNext]_pipeVars
        BY DEF Next, vars, pipeVars
    <1>3. PipeInv /\ [Next]_vars => PipeInv'
        BY <1>2, PipeStep
    <1>4. PipeInv => ToldOnce
        BY DEF PipeInv
    <1> QED
        BY <1>1, <1>3, <1>4, PTL DEF Spec

(* No filter names Junk itself. *)
JunkReserved == "Junk" \notin Folders

(* A message is stored once for every account its recipients map to and     *)
(* nowhere else, and one that is relayed leaves no connection and a         *)
(* truthful answer for every recipient, for any recipients, maps, filters   *)
(* and endpoints (delivery.go, smtp_downstream.go, smtpconn.go).            *)
THEOREM AccountsMessagesSettled ==
    ASSUME JunkReserved
    PROVE  Spec => []MessagesSettled
    <1>1. Init => StoreInv
        BY StoreInitially DEF Init
    <1>2. [Next]_vars => [StoreNext]_storeVars
        BY DEF Next, vars, storeVars
    <1>3. StoreInv /\ [Next]_vars => StoreInv'
        BY <1>2, StoreStep DEF JunkReserved
    <1>4. StoreInv /\ RelayInv => MessagesSettled
        BY DEF StoreInv, RelayInv, MessagesSettled
    <1> QED
        BY <1>1, <1>3, <1>4, AccountsInvariant, PTL DEF Spec
==============================================================================
