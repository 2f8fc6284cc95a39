----------------------------- MODULE MCAccounts -----------------------------
(* Two logins at a time against seven configurations, a message to three    *)
(* addresses of two accounts beside one tool, and a relayed message.        *)
EXTENDS Accounts

CONSTANTS l1, l2, t1, t2, d1, s1

ToLower(s) == CASE s = "U" -> "u" [] s = "D" -> "d" [] OTHER -> s

u == <<"u">>
ud == <<"u", "d">>
NamesHere == {<<"U", "d">>, <<"v">>}
\* Every back end knows the name in the form it is asked for, with its own password.
HelperHere == {<<u, "p">>, <<ud, "p">>}
EntitiesHere == {<<ud, "p">>, <<<<"v">>, "q">>}
SignersHere == {<<"u", "p">>}
PamHere == {<<ud, "q">>}
DovecotHere == {<<ud, "q">>}
DirHere == {<<<<"dn">>, "p">>, <<ud, "q">>}

ShadowHere == ud :> [pass |-> "p", accountValid |-> TRUE, passwordValid |-> TRUE]
              @@ <<"v">> :> [pass |-> "p", accountValid |-> FALSE, passwordValid |-> TRUE]
EntriesHere(n) == CASE n = ud -> {<<"dn">>} [] n = <<"v">> -> {<<"dn">>, <<"dn2">>} [] OTHER -> {}

NoMap == [set |-> FALSE]
MapTo(f) == [set |-> TRUE, at |-> f]

FirstHere == ud :> "p"
Base == [clients |-> {l1}, providers |-> <<>>, authMap |-> NoMap, storageMap |-> NoMap, enableLogin |-> TRUE,
         perDomain |-> FALSE, domains |-> {"d"}, useHelper |-> FALSE, libpam |-> TRUE,
         mustGroup |-> {}, dovecotMechs |-> {"PLAIN"}, bind |-> "plain", template |-> FALSE]

Of(users, pass) == [users |-> users, pass |-> pass]
Dir == [kind |-> "ldap"]
Tbl(ns) == [kind |-> "static", has |-> ns]

Table == [Base EXCEPT !.providers = <<Of(<<>>, <<"table">>)>>,
                      !.authMap = MapTo(ud :> ud), !.storageMap = MapTo(ud :> u @@ u :> u)]
Separate == [Base EXCEPT !.clients = {l1, l2}, !.providers = <<Of(<<Tbl({<<"v">>}), Dir>>, <<"ldap">>), Of(<<Tbl({u})>>, <<"external">>)>>]
Template == [Base EXCEPT !.providers = <<Of(<<Dir>>, <<"shadow">>), Of(<<>>, <<"ldap">>)>>, !.template = TRUE]
Helpers == [Base EXCEPT !.providers = <<Of(<<>>, <<"external">>), Of(<<Tbl({ud})>>, <<"shadow", "pam">>)>>]
ViaHelper == [Base EXCEPT !.providers = <<Of(<<>>, <<"shadow", "pam">>)>>, !.useHelper = TRUE, !.libpam = FALSE]
Networked == [Base EXCEPT !.providers = <<Of(<<>>, <<"netauth", "dovecot", "evm">>)>>,
                          !.mustGroup = {<<"v">>}, !.dovecotMechs = {"GSSAPI"}, !.perDomain = TRUE]
Nobody == [Base EXCEPT !.enableLogin = FALSE]

AllLogins == {Table, Separate, Template, Helpers, ViaHelper, Networked, Nobody}
\* Configurations of the known deviations.
MappedTwice == {[Base EXCEPT !.clients = {l1, l2}, !.providers = <<Of(<<>>, <<"external">>)>>,
                             !.authMap = MapTo(ud :> u @@ u :> u)]}
BindOff == {[Separate EXCEPT !.bind = "off"]}
NoPass == {[Base EXCEPT !.providers = <<Of(<<Tbl({ud})>>, <<>>)>>]}

Map3 == "a" :> "A" @@ "alias" :> "A" @@ "b" :> "B"
Acyclic == "alias" :> "a"
Swapped == "a" :> "b" @@ "b" :> "a"

Converted(r) == IF r = "idn" THEN "ascii" ELSE IF r = "utf8" THEN "" ELSE r
AllRelays == {[lmtp |-> l, starttls |-> l, auth |-> a, clientAuth |-> c, endpoints |-> 2] :
                l, c \in BOOLEAN, a \in {"off", "forward", "plain"}}
=============================================================================
