-------------------------------- MODULE Auth --------------------------------
(***************************************************************************)
(* Logging in.  A login (SASL PLAIN, SASL LOGIN or the IMAP LOGIN command) *)
(* passes through SASLAuth (internal/auth/sasl.go): its user name is       *)
(* normalised and mapped, then every configured provider is asked in turn. *)
(* A provider is one back end, or a plain_separate block that first looks  *)
(* the name up in its user tables and then asks its own back ends.  The    *)
(* table of hashes (pass_table) is changed meanwhile by the `creds' tools, *)
(* which are other processes; the directory (auth.ldap) is one connection  *)
(* that all logins share under connLock, bound now as the reader, now as   *)
(* the user whose password is tried.  An accepted login opens its account. *)
(*                                                                         *)
(* A name is the sequence of its parts between at-signs, <<>> no name.     *)
(* What the back ends know is constant data, except the table of hashes:   *)
(* a hash is the password it was computed from.                            *)
(***************************************************************************)
EXTENDS Naturals, Sequences

CONSTANTS Logins,        \* login attempts
          CredsTools,    \* invocations of `sirrmeshd creds'
          Names,         \* the names a client gives
          Words,         \* passwords
          FirstHashes,   \* the table of hashes before the first login
          LoginCfgs,     \* the configurations of the endpoint
          Lower(_),      \* case folding of one part of a name
          HelperKnows, Entities, Signers, PamKnows, DovecotKnows, \* sets of <<name, password>>
          Shadow,        \* /etc/shadow: name -> entry
          Entries(_),    \* the directory entries that match a name
          DirWords       \* the passwords of the directory's entries

(* What a provider is made of: the user tables of a plain_separate block,  *)
(* the directory one of them, and the back ends that check passwords.      *)
Backends == {"external", "shadow", "pam", "netauth", "dovecot", "evm", "table", "ldap"}
UserTables == [kind : {"ldap"}] \cup [kind : {"static"}, has : SUBSET Seq(STRING)]
Providers == [users : Seq(UserTables), pass : Seq(Backends)]

ASSUME AuthAssumption ==
    /\ "free" \notin Logins
    /\ Lower("") = ""
    /\ \A c \in LoginCfgs : c.providers \in Seq(Providers)

VARIABLES lcfg,          \* the configuration, a member of LoginCfgs
          login,         \* login attempt -> its record
          hashes,        \* the table of pass_table: key -> password
          creds,         \* creds tool -> its record
          dirLock,       \* ldap.Auth.connLock: the login that holds it, or "free"
          dirConn,       \* ldap.Auth.conn
          opened,        \* the accounts that exist in the storage
          held           \* history: what the table held since a login began

authVars == <<lcfg, login, hashes, creds, dirLock, dirConn, opened, held>>

NoName == <<>>
NoConn == [open |-> FALSE, bound |-> NoName, nil |-> TRUE]
Reader == <<"reader">>
Anonymous == <<"anonymous">>

-----------------------------------------------------------------------------
(* Names. *)

Folded(n) == [i \in DOMAIN n |-> Lower(n[i])]

\* authz.NormalizeAuto: a valid address is folded as one and any other name
\* as a whole, to the same.  Names has none with characters PRECIS refuses.
Normalize(n) == Folded(n)

\* auth_map or storage_map: not configured, or a partial function on names
\* whose lookup may fail.
Mapped(tbl, n) ==
    IF n = NoName THEN {NoName}
    ELSE IF ~tbl.set THEN {n}
    ELSE {NoName, IF n \in DOMAIN tbl.at THEN tbl.at[n] ELSE NoName}

\* What usernameForAuth may return, NoName for an error.
UsernameForAuth(n) == Mapped(lcfg.authMap, Normalize(n))

UsernameForStorage(n) == Mapped(lcfg.storageMap, Normalize(n))

\* auth.CheckDomainAuth: the name to ask about, NoName when the domain is not allowed.
CheckDomainAuth(n, perDomain, domains) ==
    LET dom == IF Len(n) = 2 THEN n[2] ELSE ""
        allowed == dom = "" \/ Lower(dom) \in domains
    IN IF ~allowed \/ (perDomain /\ Len(n) # 2) THEN NoName
       ELSE IF perDomain THEN n ELSE <<n[1]>>

-----------------------------------------------------------------------------
(* The back ends that are asked once: "ok", "no" or, for whatever keeps    *)
(* them from answering, "err".                                             *)

Verdict(b) == {IF b THEN "ok" ELSE "no", "err"}

\* external.AuthUsingHelper: the helper's exit status.
Helper(n, w) == Verdict(<<n, w>> \in HelperKnows)

\* shadow.Lookup: the entry of that name.
HasEntry(n) == n \in DOMAIN Shadow

\* Entry.VerifyPassword: no empty and no locked password.
VerifyPassword(e, w) == IF e.pass \in {"", "!"} THEN {"err"} ELSE Verdict(e.pass = w)

\* shadow.Auth.AuthPlain: an entry that has expired is an error.
ShadowAnswers(n, w) ==
    IF lcfg.useHelper THEN Helper(n, w)
    ELSE IF HasEntry(n) /\ Shadow[n].accountValid /\ Shadow[n].passwordValid
         THEN VerifyPassword(Shadow[n], w) ELSE {"err"}

\* runPAMAuth: a build without libpam always fails.
RunPAMAuth(n, w) == IF lcfg.libpam THEN Verdict(<<n, w>> \in PamKnows) ELSE {"err"}

\* pam.Auth.AuthPlain: a helper that accepts does not end the function.
PamAnswers(n, w) ==
    IF ~lcfg.useHelper THEN RunPAMAuth(n, w)
    ELSE (Helper(n, w) \ {"ok"}) \cup (IF "ok" \in Helper(n, w) THEN RunPAMAuth(n, w) ELSE {})

\* netauth checkMustGroup: no group is required, or the entity is in it.
MustGroup(n) == lcfg.mustGroup = {} \/ n \in lcfg.mustGroup

\* netauth.Auth.AuthPlain.
NetauthAnswers(n, w) ==
    IF <<n, w>> \notin Entities THEN {"no"}
    ELSE {"no", "err"} \cup (IF MustGroup(n) THEN {"ok"} ELSE {})

\* dovecot_sasl.Auth.AuthPlain: PLAIN, else LOGIN, else nothing.
DovecotAnswers(n, w) ==
    IF lcfg.dovecotMechs \cap {"PLAIN", "LOGIN"} = {} THEN {"err"}
    ELSE Verdict(<<n, w>> \in DovecotKnows)

\* pass_blockchain EVMAuth.AuthPlain: the local part is the public key.
EvmAnswers(n, w) ==
    IF Len(n) < 2 \/ n[1] = "" \/ n[Len(n)] = "" THEN {"err"} ELSE Verdict(<<n[1], w>> \in Signers)

\* pass_table Auth.AuthPlain: the hash found under the key is verified; the
\* lookup may fail.  Mutant: a name that is found will do.
TableAnswersFound(n, w) == IF Folded(n) \in DOMAIN hashes THEN {"ok", "no"} ELSE {"no"}
TableAnswers(n, w) ==
    IF Folded(n) \in DOMAIN hashes /\ hashes[Folded(n)] = w THEN {"ok", "no"} ELSE {"no"}

\* external.ExternalAuth.AuthPlain.
ExternalAnswers(n, w) ==
    LET a == CheckDomainAuth(n, lcfg.perDomain, lcfg.domains)
    IN IF a = NoName THEN {"no"} ELSE Helper(a, w)

Answers(kind, n, w) ==
    CASE kind = "external" -> ExternalAnswers(n, w)
      [] kind = "shadow" -> ShadowAnswers(n, w)
      [] kind = "pam" -> PamAnswers(n, w)
      [] kind = "netauth" -> NetauthAnswers(n, w)
      [] kind = "dovecot" -> DovecotAnswers(n, w)
      [] kind = "evm" -> EvmAnswers(n, w)
      [] kind = "table" -> TableAnswers(n, w)

-----------------------------------------------------------------------------
(* Logins. *)

Mechs == {"PLAIN", "LOGIN", "command"}
Ended == {"in", "denied", "panicked"}

NotBegun == [pc |-> "idle", given |-> NoName, user |-> NoName, word |-> "",
             name |-> NoName, prov |-> 0, tab |-> 0, pas |-> 0, op |-> "none", dn |-> NoName, res |-> "none"]

Set(l, r) == login' = [login EXCEPT ![l] = r]
OnlyLogin == UNCHANGED <<lcfg, hashes, creds, dirLock, dirConn, opened, held>>

Provider(r) == lcfg.providers[r.prov]

\* The continuations of a login's record: the login is refused, a provider
\* has refused, the user tables know the name, the back end has answered.
Denied(r) == [NotBegun EXCEPT !.pc = "denied"]
NextProvider(r) == IF r.prov = Len(lcfg.providers) THEN Denied(r)
                   ELSE [r EXCEPT !.pc = "map", !.prov = @ + 1]
AskPass(r) == IF Provider(r).pass = <<>> THEN [r EXCEPT !.pc = "open"]
              ELSE [r EXCEPT !.pc = "pass", !.pas = 1]
Known(r, ans) ==
    CASE ans = "ok" -> AskPass(r)
      [] ans = "err" -> NextProvider(r)
      [] ans = "no" -> IF r.tab = Len(Provider(r).users) THEN NextProvider(r)
                       ELSE [r EXCEPT !.pc = "table", !.tab = @ + 1]
Checked(r, ans) ==
    IF ans = "ok" THEN [r EXCEPT !.pc = "open"]
    ELSE IF r.pas = Len(Provider(r).pass) THEN NextProvider(r)
    ELSE [r EXCEPT !.pc = "pass", !.pas = @ + 1]

Pairs(h) == {<<k, h[k]>> : k \in DOMAIN h}

\* A client starts a SASL exchange or sends LOGIN.
BeginLogin(l) ==
    /\ login[l].pc = "idle" /\ l \in lcfg.clients
    /\ \E m \in Mechs, n \in Names, w \in Words, sameId \in BOOLEAN :
         LET r == [NotBegun EXCEPT !.given = n, !.user = n, !.word = w, !.prov = 1]
         IN Set(l, IF \/ m = "PLAIN" /\ ~sameId
                      \/ m = "LOGIN" /\ ~lcfg.enableLogin
                      \/ lcfg.providers = <<>>
                   THEN Denied(r)
                   ELSE [r EXCEPT !.pc = IF m = "LOGIN" THEN "mapFirst" ELSE "map"])
    /\ held' = [held EXCEPT ![l] = Pairs(hashes)]
    /\ UNCHANGED <<lcfg, hashes, creds, dirLock, dirConn, opened>>

\* The LOGIN mechanism maps the name before it calls AuthPlain, which maps it again.
MapFirst(l) ==
    /\ login[l].pc = "mapFirst"
    /\ \E n \in UsernameForAuth(login[l].user) :
         Set(l, IF n = NoName THEN Denied(login[l])
                ELSE [login[l] EXCEPT !.user = n, !.pc = "map"])
    /\ OnlyLogin

\* SASLAuth.AuthPlain: one provider's turn begins.
MapName(l) ==
    /\ login[l].pc = "map"
    /\ \E n \in UsernameForAuth(login[l].user) :
         LET r == [login[l] EXCEPT !.name = n, !.tab = 1]
         IN Set(l, IF n = NoName THEN Denied(r)
                   ELSE IF Provider(r).users = <<>> THEN AskPass(r)
                   ELSE [r EXCEPT !.pc = "table"])
    /\ OnlyLogin

AskDirectory(r, op) == [r EXCEPT !.pc = "lock", !.op = op]

\* plain_separate: one user table is asked for the name.
LookupUser(l) ==
    LET r == login[l]  tbl == Provider(r).users[r.tab] IN
    /\ r.pc = "table"
    /\ IF tbl.kind = "ldap" THEN Set(l, AskDirectory(r, "lookup"))
       ELSE \E a \in Verdict(r.name \in tbl.has) : Set(l, Known(r, a))
    /\ OnlyLogin

\* A back end is asked for the password.
CheckWord(l) ==
    LET r == login[l]  kind == Provider(r).pass[r.pas] IN
    /\ r.pc = "pass"
    /\ IF kind = "ldap" THEN Set(l, AskDirectory(r, "auth"))
       ELSE \E a \in Answers(kind, r.name, r.word) : Set(l, Checked(r, a))
    /\ OnlyLogin

\* The endpoint opens the account of an accepted login: by the name the
\* client gave, or for the LOGIN mechanism by the mapped one.  The storage
\* normalises it again, which changes nothing, and may fail.
OpenAccount(l) ==
    /\ login[l].pc = "open"
    /\ \E a \in UsernameForStorage(login[l].user) \cup {NoName} :
         IF a = NoName THEN Set(l, Denied(login[l])) /\ UNCHANGED opened
         ELSE Set(l, [NotBegun EXCEPT !.pc = "in", !.given = login[l].given, !.name = login[l].name,
                                      !.word = login[l].word, !.dn = a]) /\ opened' = opened \cup {a}
    /\ UNCHANGED <<lcfg, hashes, creds, dirLock, dirConn, held>>

-----------------------------------------------------------------------------
(* The directory. *)

OnlyDirectory == UNCHANGED <<lcfg, hashes, creds, opened, held>>

\* What readBind leaves a connection bound as: `bind off' sends nothing.
ReadBound(conn) == IF lcfg.bind = "off" THEN conn.bound ELSE Reader
NewConn == [open |-> TRUE, bound |-> ReadBound([bound |-> Anonymous]), nil |-> FALSE]
ConfiguredReader == NewConn.bound

\* A directory operation has ended with an answer.
Answered(r, ans) == IF r.op = "lookup" THEN Known(r, ans) ELSE Checked(r, ans)

LockConn(l) ==
    /\ login[l].pc = "lock" /\ dirLock = "free"
    /\ dirLock' = l
    /\ Set(l, [login[l] EXCEPT !.pc = "conn"])
    /\ OnlyDirectory /\ UNCHANGED dirConn

\* getConn with the lock: the connection is used, or a new one dialled.
\* Mutant: a path that forgets connLock.
ConnFailsLocked(l) == Set(l, Answered(login[l], "err")) /\ UNCHANGED <<dirLock, dirConn>>
ConnFails(l) == dirLock' = "free" /\ Set(l, Answered(login[l], "err")) /\ UNCHANGED dirConn
HaveConn(r) ==
    IF ~lcfg.template THEN [r EXCEPT !.pc = "search"]
    ELSE IF r.op = "lookup" THEN [r EXCEPT !.pc = "return", !.res = "err"]
    ELSE [r EXCEPT !.pc = "bind", !.dn = r.name]
GetConn(l) ==
    /\ login[l].pc = "conn"
    /\ IF dirConn.open THEN Set(l, HaveConn(login[l])) /\ UNCHANGED <<dirLock, dirConn>>
       ELSE \E reachable \in BOOLEAN :
              IF reachable THEN /\ dirConn' = NewConn /\ Set(l, HaveConn(login[l]))
                                /\ UNCHANGED dirLock
              ELSE ConnFails(l)
    /\ OnlyDirectory

\* Search: an error, no entry, one entry, or too many.
Single(found) == \E d \in found : found = {d}
Search(l) ==
    LET r == login[l]  found == Entries(r.name)
        res == IF ~dirConn.open THEN "err"
               ELSE IF found = {} THEN "no"
               ELSE IF ~Single(found) THEN "err"
               ELSE IF r.op = "lookup" THEN "ok" ELSE "found"
    IN /\ r.pc = "search"
       /\ \E s \in {res, "err"} :
            Set(l, IF s = "found" THEN [r EXCEPT !.pc = "bind", !.dn = CHOOSE d \in found : TRUE]
                   ELSE [r EXCEPT !.pc = "return", !.res = s])
       /\ OnlyDirectory /\ UNCHANGED <<dirLock, dirConn>>

\* Bind as the user; a refused bind leaves the connection anonymous.
BindUser(l) ==
    LET r == login[l]  good == dirConn.open /\ <<r.dn, r.word>> \in DirWords IN
    /\ r.pc = "bind"
    /\ dirConn' = IF dirConn.open THEN [dirConn EXCEPT !.bound = IF good THEN r.dn ELSE Anonymous]
                  ELSE dirConn
    /\ Set(l, [r EXCEPT !.pc = "return", !.res = IF good THEN "ok" ELSE "no"])
    /\ OnlyDirectory /\ UNCHANGED dirLock

\* returnConn: the reader's bind is restored.  When that fails the connection
\* is closed and forgotten, and Close is called on the nil that is left.
ReboundNot(conn) == conn  \* mutant: the user's bind stays
Rebound(conn) == [conn EXCEPT !.bound = ReadBound(conn)]

ReturnConn(l) ==
    /\ login[l].pc = "return"
    /\ dirLock' = "free"
    /\ \E fails \in BOOLEAN :
         IF lcfg.bind # "off" /\ (fails \/ ~dirConn.open)
         THEN dirConn' = NoConn /\ Set(l, [NotBegun EXCEPT !.pc = "panicked"])
         ELSE dirConn' = Rebound(dirConn) /\ Set(l, Answered(login[l], login[l].res))
    /\ OnlyDirectory

\* The directory server, or the network, ends the connection.
DirDrops ==
    /\ dirConn.open
    /\ dirConn' = [dirConn EXCEPT !.open = FALSE]
    /\ UNCHANGED <<lcfg, login, hashes, creds, dirLock, opened, held>>

-----------------------------------------------------------------------------
(* sirrmeshd creds create, password and remove, each a process of its own. *)

OnlyCreds == UNCHANGED <<lcfg, login, dirLock, dirConn, opened>>

\* sql_query SetKey: INSERT, else UPDATE.
SetKey(h, k, w) == [x \in DOMAIN h \cup {k} |-> IF x = k THEN w ELSE h[x]]
Remembered(h) == held' = [l \in Logins |-> IF login[l].pc \in {"idle"} \cup Ended THEN held[l]
                                           ELSE held[l] \cup Pairs(h)]
Changed(h) == hashes' = h /\ Remembered(h)
Tool(t, r) == creds' = [creds EXCEPT ![t] = r]

\* CreateUserHash looks the key up, and only later sets it.
CreateLookup(t) ==
    /\ creds[t].pc = "idle"
    /\ \E n \in Names, w \in Words :
         LET k == Folded(n) IN
         Tool(t, [pc |-> IF k \in DOMAIN hashes THEN "failed" ELSE "set", key |-> k, word |-> w])
    /\ OnlyCreds /\ UNCHANGED <<hashes, held>>
CreateSet(t) ==
    /\ creds[t].pc = "set"
    /\ Changed(SetKey(hashes, creds[t].key, creds[t].word))
    /\ Tool(t, [creds[t] EXCEPT !.pc = "created"])
    /\ OnlyCreds
SetUserPassword(t) ==
    /\ creds[t].pc = "idle"
    /\ \E n \in Names, w \in Words :
         /\ Changed(SetKey(hashes, Folded(n), w))
         /\ Tool(t, [pc |-> "changed", key |-> Folded(n), word |-> w])
    /\ OnlyCreds
DeleteUser(t) ==
    /\ creds[t].pc = "idle"
    /\ \E n \in Names :
         /\ Changed([k \in DOMAIN hashes \ {Folded(n)} |-> hashes[k]])
         /\ Tool(t, [pc |-> "removed", key |-> Folded(n), word |-> ""])
    /\ OnlyCreds

-----------------------------------------------------------------------------
\* The back ends that the configuration has.
Uses(kind) == \E i \in DOMAIN lcfg.providers :
    \/ \E j \in DOMAIN lcfg.providers[i].pass : lcfg.providers[i].pass[j] = kind
    \/ \E j \in DOMAIN lcfg.providers[i].users : lcfg.providers[i].users[j].kind = kind

AuthInit ==
    /\ lcfg \in LoginCfgs
    /\ login = [l \in Logins |-> NotBegun]
    /\ hashes = IF Uses("table") THEN FirstHashes ELSE <<>>
    /\ creds = [t \in CredsTools |-> [pc |-> "idle", key |-> NoName, word |-> ""]]
    /\ dirLock = "free" /\ dirConn = IF Uses("ldap") THEN NewConn ELSE NoConn
    /\ opened = {} /\ held = [l \in Logins |-> {}]

LoginStep(l) ==
    \/ MapFirst(l) \/ MapName(l) \/ LookupUser(l) \/ CheckWord(l) \/ OpenAccount(l)
    \/ LockConn(l) \/ GetConn(l) \/ Search(l) \/ BindUser(l) \/ ReturnConn(l)

CredsStep(t) == CreateLookup(t) \/ CreateSet(t) \/ SetUserPassword(t) \/ DeleteUser(t)

AuthNext ==
    \/ \E l \in Logins : BeginLogin(l) \/ LoginStep(l)
    \/ Uses("table") /\ \E t \in CredsTools : CredsStep(t)
    \/ DirDrops

\* A goroutine that can run runs; the mutex is handed to whoever waits.
AuthFair == \A l \in Logins : WF_authVars(LoginStep(l))

-----------------------------------------------------------------------------
(* Properties. *)

\* What a back end configured by c says of a password, whatever is asked
\* around it; the table of hashes is known by what it held, h, during the login.
Vouches(c, h, kind, n, w) ==
    CASE kind = "table" -> <<Folded(n), w>> \in h
      [] kind = "ldap" -> \E d \in Entries(n) \cup {n} : <<d, w>> \in DirWords
      [] kind = "external" -> \E d \in c.domains \cup {""} :
              /\ (Len(n) = 2 => d = Lower(n[2]))
              /\ <<(IF c.perDomain THEN n ELSE <<n[1]>>), w>> \in HelperKnows
      [] kind = "shadow" -> \/ c.useHelper /\ <<n, w>> \in HelperKnows
                            \/ n \in DOMAIN Shadow /\ Shadow[n].pass = w
                               /\ Shadow[n].accountValid /\ Shadow[n].passwordValid
      [] kind = "pam" -> <<n, w>> \in PamKnows
      [] kind = "netauth" -> <<n, w>> \in Entities /\ (c.mustGroup = {} \/ n \in c.mustGroup)
      [] kind = "dovecot" -> <<n, w>> \in DovecotKnows
      [] kind = "evm" -> <<n[1], w>> \in Signers

Listed(users, n) ==
    \/ users = <<>>
    \/ \E i \in DOMAIN users : IF users[i].kind = "ldap" THEN Single(Entries(n))
                               ELSE n \in users[i].has

\* A login is let in only when one provider both lists the mapped name among
\* its users and has a back end that vouched for the password while the login
\* lasted: a password that was replaced or removed before it began is refused,
\* and the tables of one provider are never combined with the back ends of
\* another (sasl.go AuthPlain, plain_separate.go AuthPlain, pass_table).
VouchedFor ==
    \A l \in Logins : login[l].pc \in {"open", "in"} =>
        LET n == login[l].name IN
        \E i \in DOMAIN lcfg.providers :
          /\ Listed(lcfg.providers[i].users, n)
          /\ \E j \in DOMAIN lcfg.providers[i].pass :
               Vouches(lcfg, held[l], lcfg.providers[i].pass[j], n, login[l].word)

\* Every search of the directory is made with the bind that the configuration
\* names, never as the user whose password was tried last (ldap.go returnConn).
ReadsAsReader ==
    \A l \in Logins : login[l].pc = "search" /\ dirConn.open => dirConn.bound = ConfiguredReader

\* A login that began is answered, however the directory fails: connLock is
\* given back on every path (ldap.go getConn, returnConn).
LoginsEnd == \A l \in Logins : login[l].pc # "idle" ~> login[l].pc \in Ended

\* An expectation the code does not meet: restoring the reader's bind does not panic.
LdapNeverPanics == \A l \in Logins : login[l].pc # "panicked"

\* An expectation the code does not meet: the same name opens the same
\* account whichever way it was given.
MechanismsAgree ==
    \A l, m \in Logins : login[l].pc = "in" /\ login[m].pc = "in" /\ login[l].given = login[m].given
                         => login[l].dn = login[m].dn

\* An expectation the code does not meet: of two `creds create' of one name,
\* with no removal between them, one is told that the name exists.
CreateTellsTruth ==
    \A t, u \in CredsTools : t # u /\ creds[t].pc = "created" /\ creds[u].pc = "created"
                             => creds[t].key # creds[u].key
=============================================================================
