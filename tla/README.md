# SirrMesh: specifications, model checks and proofs

SirrMesh is a mail server: SMTP, submission and LMTP endpoints, a message
pipeline of checks and modifiers, an on-disk delivery queue, a remote SMTP
target with a pool of connections, an IMAP endpoint on a SQL storage, and a
command line. This directory holds TLA+ modules for the parts in which goroutines,
processes, failures and long call sequences meet, the TLC configurations that check
them on small instances, and TLAPS proofs of the properties that matter most. Line
numbers refer to the Go files of this repository; PROJECT.json maps every
definition to the lines it stands for.

    tlc -workers 2 -config MCQueueFaults.cfg MCQueue      # a run
    tlapm QueueProofs.tla                                 # a proof

## 1. Inventory

A message travels like this:

    client -> SMTP session -> message pipeline -> target: queue, remote, SQL storage, downstream
                  |                |    |
             flow limits       checks  modifiers
    queue -> time wheel -> delivery goroutine -> its target (usually remote)
    remote -> flow limits, connection pool, MX security policies, SMTP client
    IMAP client -> login (auth providers) -> account in the SQL storage
    command line tools -> credentials table, SQL storage -> update pipe -> IMAP sessions
    configuration files -> parser -> directives -> modules, hooks, signals

Every arrow to a target is the interface `module.Delivery` (`Start`, `AddRcpt`,
`Body` or `BodyNonAtomic`, then `Commit` or `Abort`; framework/module/delivery_target.go).
It is the contract most properties are about: a delivery that was started is
ended, what was committed is not forgotten, what was refused does not go out.

| Component | State | Operations | What is hard | What makes it correct |
|---|---|---|---|---|
| Time wheel (`target/queue/timewheel.go`) | list of slots, stop flag, two unbuffered channels | `Add`, `Close`, tick goroutine | lost wakeups, stop handshake, `Add` against `Close` | a slot fires once, in time order, not early, not after `Close` |
| Delivery queue (`target/queue/queue.go`) | spool files, slots, goroutines, semaphore, wait group | delivery calls, `dispatch`, `tryDelivery`, `readDiskQueue`, `Close` | kill at any step, failing file operations, panics, shutdown | an accepted recipient is delivered to or reported; no needless duplicates; it ends |
| Flow limits (`limits/`) | semaphores, token buckets, bucket sets by key | `TakeMsg`, `ReleaseMsg`, `TakeDest`, `ReleaseDest`, refill | time-outs half way, releases without take, full sets | places are taken and given back exactly; rates hold |
| Connection pool (`smtpconn/pool`) | buckets of idle connections | `Get`, `Return`, `CleanUp`, `Close` | bucket used after unlock, closed channels | one owner per connection, none unreachable |
| SMTP session (`endpoint/smtp/session.go`) | sender, delivery, deferred error, limits held | `Mail`, `Rcpt`, `Data`, `Reset`, `Logout` | several transactions, server `Close` during a command | the delivery has the envelope the client was told; limits and deliveries end |
| Message pipeline (`msgpipeline/`), check runner, modifier groups | deliveries by target, check states and what each saw, modifier states | delivery calls | late checks, partial failure, several targets | nothing unchecked reaches a target; all or nothing up to `Commit` |
| Remote target (`target/remote/`), policies, SMTP client (`smtpconn/`) | connections by domain, TLS and MX levels, lookups in the background | delivery calls, `connect`, `attemptMX` | TLS fall-back, limits and pool on error paths, parallel statuses | never below the security level asked for; places given back; statuses complete |
| Checks (`check/`), DMARC (`dmarc/`) | verdicts of a stage, scores, background tasks | stages of the runner | order of goroutines, verdicts deferred to another check, lookups that fail | no verdict is lost; somebody decides what was deferred; stages end |
| Configuration (`cfgparser`, `config`, `msgpipeline/config.go`) | macros, snippets, tree | parse, import, map | imports in passes, duplicate blocks, inheritance | the tree is what the text says; values are those of the nearest directive |
| Start-up (`hooks`, `module/instances.go`, `signal.go`) | registry, hooks, signals | `GetInstance`, `RunHooks`, signal loop | circular references, order of shutdown, reload against close | a module is closed after what uses it; SIGTERM ends the process |
| File table (`table/file.go`), TLS loader (`internal/tls`) | map, time stamp, reloader | `Lookup`, reload, `Close` | changes while reading, a reloader that died | whole versions only; the last one in the end |
| Authentication (`auth/`), `creds` | table of hashes, LDAP connection, accounts | SASL, IMAP LOGIN, tools | shared LDAP connection, tools of other processes | who is let in was vouched for by the provider that lists them |
| SQL storage, IMAP filters (`storage/imapsql`, `imap_filter`), `imap-acct` | accounts and mailboxes (external) | delivery calls | accounts removed half way, several addresses of one account | once in each account, or nowhere |
| Update pipe (`updatepipe`) | channels, socket or notifications | `Push`, `Listen`, `Close` | updates of another process, echoes, shutdown, crash | an update arrives once and never comes back |
| SMTP/LMTP downstream (`target/smtp`) | connection, recipients, statuses | delivery calls | statuses by position, connection on error paths | one truthful status per recipient; no connection left |
| Blob stores, other tables, modifiers, DSN, address helpers, DNS providers, blockchain RPC, PROXY protocol, CLI, logging | mostly none | I/O, string functions | - | - |

PROJECT.json lists each of these under "components", with its files and with
the reason where it is not modelled, and lists under "hazards" the lines where
the behaviours named above can go wrong.

## 2. Modules

| Module | Models | Runs |
|---|---|---|
| `Scheduler` | abstract specification: what the queue expects of a timer | (property of `time_wheel`) |
| `TimeWheel` | the wheel, goroutine by goroutine | `time_wheel` |
| `Queue`, `MCQueue` | the queue with its spool, over the wheel's interface | `queue_faults`, `queue_close_progress`, `queue_close_quarantines` |
| `QueueProofs` | proofs about the wheel and the refinement of `Scheduler`; about the queue: what is owed to a message; claims, tries, the body, `Close` | |
| `Limits`, `MCLimits` | flow limits and the deliveries that use them | `limits` |
| `LimitsProofs` | proofs about it | |
| `ConnPool`, `MCConnPool` | the pool and the remote deliveries that use it | `conn_pool` |
| `ConnPoolProofs` | proofs about it | |
| `SmtpSession`, `MCSmtpSession` | sessions, with the limits and deliveries they hold | `smtp_session` |
| `SmtpSessionProofs` | proofs about it | |
| `MsgPipeline`, `MCMsgPipeline` | a message in the pipeline, check runner, modifier groups | `pipeline` |
| `MsgPipelineProofs` | proofs about it and about `Checks` | |
| `Remote`, `MCRemote` | the remote target, MX policies and the SMTP client | `remote` |
| `RemoteProofs` | proofs about it | |
| `CheckRules` | what each check makes of an answer, DMARC's rules | (part of `checks`) |
| `Checks`, `MCChecks` | the checks of a message running beside each other | `checks` |
| `ConfigNode`, `ConfigTree`, `ConfigMap`, `PipelineConfig` | a directive and its arguments, parser, what directives are mapped to, pipeline blocks | (part of `process`) |
| `FileTable` | the file table and its reloader | (part of `process`) |
| `Process` | the process from its configuration to its end, for any parser: composes `ConfigMap` and `FileTable` | (part of `process`) |
| `Server`, `MCProcess` | the process with the parsers of `ConfigTree` and `PipelineConfig` | `process` |
| `ProcessProofs` | proofs about `FileTable` within the process, about start-up and shutdown, and about the values modules run with | |
| `Auth`, `Storage`, `UpdatePipe`, `Downstream` | login, mailbox deliveries, update pipe, downstream relay | (parts of `accounts`) |
| `Accounts`, `MCAccounts` | the four side by side; they share no state, so a behaviour is of one of them | `accounts` |
| `AccountsProofs` | proofs about each of the four | |

Definitions commented as "Mutant" or "Seeded fault" are wrong on purpose: each is
a plausible slip in the code next to it, and shows that a property notices it.

### TimeWheel and Scheduler

`wheelSlots` is `tw.slots`, numbered in the order of `PushBack`; `tick` says where the
tick goroutine is (scanning, idle, armed with a timer, acknowledging, done);
`add[a]` and `closer` do the same for each `Add` call and for `Close`. A send and
the receive it meets on an unbuffered channel are one step. `Scheduler` keeps only
a bag of slots: *schedule*, *announce*, *fire* (not early, not past an announced
earlier slot), *stop*. `TimeWheel` is shown to implement it with pending = the list
and running = the tick goroutine has not been stopped.

### Queue

`disk[m]` holds the spool files of message `m`: header, body (none, torso, full),
metadata, broken metadata. `sess[m]` is the source's delivery (store header,
create and copy the body, rename the metadata into place, sync, commit), `wpc[w]`
a delivery goroutine from `dispatch` to its deferred function, `wheel` the stage of
`Close`, `proc`/`toLoad` start-up. The wheel appears through the interface
`TimeWheel` establishes: a pushed slot may be dispatched while the tick goroutine
lives, and a notification that meets the closed channel panics. `Fault(kind)` is
the only way a file operation fails or the process is killed; `faults` counts
them. `accepted`, `delivered`, `reported` and `attempts` record what the outside
has seen. The target is free in everything its interface allows: any recipient
may fail, temporarily or for good, at `AddRcpt`, at the body or at `Commit`.

### Limits

A limiter's channel is a number. `TakeMsg` takes global, IP and source limiters
one by one (one step each, each may time out), undoing what it took; the refill
goroutine of each rate limiter is an action. `Init` of the group is the operator
`Configured`, which builds the destination set the way the code does.

### ConnPool

Buckets have identities, so a `Get` can hold one that is no longer in the map. The
lock, the closing of a bucket's channel and each receive are separate steps.
The users are remote deliveries: get, possibly open, use, return or close.

### SmtpSession

go-smtp is external: one command at a time per connection, no MAIL within a
transaction, no RCPT without MAIL, `Reset` after DATA, `Logout` at the end. Handlers
run under `msgLock`, so each is one step; a command may be on its way when the
server's `Close` calls `Logout` (`AsyncClose`). `asked` is what the client was told,
`dlv` what the pipeline was told, `global`/`source`/`buckets` the limits. The endpoint
(deferred or immediate sender rejection, closing or not) is chosen at the start.

### MsgPipeline

A call of the source is a list of jobs (`todo`): run a group of checks, run a group
of modifiers, route an address, hand an address or the body to a target. A failed
job ends the call and leaves what earlier jobs did. Check verdicts, modifier
failures and targets are free; expansion and routing are constants. `seen`
is the runner's record of what each check state was shown.

### Remote

One delivery at a time with what it leaves in the pool for the next. `AddRcpt` is cut
at every point where it waits: pool, MX lookup, each policy's `CheckMX`, dialling
(authenticated TLS, TLS without verification, plain text), each policy's `CheckConn`,
REQUIRETLS, `TakeDest`, MAIL, RCPT. The lookups that the MTA-STS and DANE policies
start are tasks of their own which answer into the policy's future, also after the delivery has moved
on; the TLSA lookup may panic instead, which leaves its future unset. `Body` sends over all connections at once, one step per goroutine, and `Close`
gives back places and connections. Servers, DNS and certificates answer freely.

### CheckRules and Checks

`CheckRules` holds functions from an answer to a verdict: SPF results, DKIM signature sets,
DNSBL scores, milter and command replies, rspamd actions, authorisation of the sender,
and DMARC's record discovery, alignment and policy. `Checks` runs them: in a stage every
check is a goroutine (`running`) whose result is merged when it returns; SPF and
DMARC have background tasks with a channel; DNSBL looks its lists up one by one in
any order. `said` records what each check said, for the properties.

### ConfigNode, ConfigTree, ConfigMap, PipelineConfig, FileTable, Process, Server

`ConfigTree` takes nested directives (words and quotes are left out) through macros,
snippets, imports and environment variables as parse.go and imports.go do;
`ConfigMap` reads a block's directives with matchers, defaults, inheritance and the mappers'
errors; `PipelineConfig` turns directives into source and recipient blocks and the
modules they name. In `Process`, `Init` of a module is a frame on a stack: a
directive that names another module puts that module's `Init` on top. Its parsers are the operator
constants `ReadFiles` and `ParsePipeline`; `Server` brings the real ones, `Read` and `ParseRoot`, which the configuration of
the run names. So the RECURSIVE operators of the parsers are outside of what is proved about `Process`, and the proofs hold
whatever a parser makes of the files. `insts`, `names`,
`aliases`, `initialized` and `hooks` are the registries; signals, the second
signal handler, reload and shutdown hooks, listeners and the TLS loader's goroutine are actions.
`FileTable` is the reloader between its two `Stat` calls, against somebody who
writes, replaces or removes the file; a reader that overlaps a writer gets lines of no version.

### Auth, Storage, UpdatePipe, Downstream, Accounts

`Auth`: a login is a record with the provider and back end it is at. `auth.ldap` is
modelled step by step (lock, search, bind as the user, rebind as the reader, unlock), the
other back ends by what they answer; `creds` tools are other processes that read the table
of hashes and write it in two steps. `Storage`: a delivery into accounts that `imap-acct` creates and
removes meanwhile; go-imap-sql is external and commits to all mailboxes or none. `UpdatePipe`:
carrier goroutine, outbound and inbound channels, a socket with a reader per
connection (the server is connected to itself) or PostgreSQL notifications,
tools that exit or are killed, a server that crashes. `Downstream`: `Start` over the configured
endpoints, recipients, `Body` or `BodyNonAtomic`, the connection's end.

## 3. What the runs check

**time_wheel** (two `Add` callers, three slots, times 0..2, one `Close`). No slot is
missed while the tick goroutine sleeps (`NoMissedWakeup`), although `Add` may come
between scan and sleep and although the shortcut at timewheel.go:133 keeps an old timer
running; every pushed slot is dispatched unless the wheel is closed
(`EventuallyDispatched`); `Close` returns (`CloseReturns`); and the wheel implements
`Scheduler` (`ImplementsScheduler`), so nothing is dispatched twice, early or after `Close`.

**queue_faults** (one message, two recipients, two goroutines, two tries, any two
faults out of eight kinds). No accepted recipient is forgotten (`RcptAccounted`):
it was delivered to, reported, or is named by a metadata file (the proof adds that
header and body are there too).
Attempts and duplicates stay within max_tries and one more for every fault
(`RetriesBounded`); the body is complete whenever a target is given it (`ContentPresent`); no
two goroutines work on one message (`OneAttemptAtATime`).
One message is enough because messages share only the semaphore and the wheel, on
which nothing is decided by another message; the proofs remove the bound.

**queue_close_progress** (the same with one kill and one `Close`, semaphore of one
place, a target that is all or nothing). Nothing runs after `Close` returned and a graceful
restart duplicates nothing (`CloseIsClean`); every accepted recipient is disposed of and the
files go away, or the message was set aside as broken (`EventuallySettled`).

**queue_close_quarantines** is expected to fail and shows where code and comment disagree
("findings" in PROJECT.json): a message that is being rescheduled while the queue is closed is
set aside as broken, against `PreservedOnDisk`.

**limits** (two deliveries that share IP keys, semaphores and a rate, one refill
interval, two messages each). Every semaphore holds exactly the places of those
who have not released them, whatever timed out, and no limiter is released that was
not taken (`SemaphoresExact`); no more messages pass than the rates allow (`RateRespected`).

**conn_pool** (two deliveries, two domains, map of one bucket, bucket of one connection, so that both
limits are hit). A connection is idle in one place or used by one delivery (`OneOwner`); a
bucket in the map is open, and an idle connection can be reached by somebody
(`NoOrphans`); `Close` returns and idle connections end (`CloseEnds`).

**smtp_session** (two sessions, two transactions each, with immediate rejection of the sender, or with a
server that closes at any point). The limits held are exactly those of the
sessions that have a delivery, in every interleaving (`TokensMatch`); a delivery has
the sender and recipients the client was told (`EnvelopeAgrees`); a finished session owns
nothing (`ClosedOwnsNothing`).

**pipeline** (three RCPT commands, one an alias of two addresses in two blocks,
three checks, two targets, `Body` or `BodyNonAtomic`, checks of their own or shared by two groups,
everything may fail). An address reaches a target only after the pipeline's, the
source's and its block's checks saw it (`CheckedBeforeTarget`); a check that first appears with a
later block has been shown everything before it judges (`ReplayComplete`); nothing is committed
before all bodies succeeded (`CommitNeedsAllBodies`).

**remote** (one message to two domains, one of them with two MX records, or two messages to one domain;
REQUIRETLS and its override; MTA-STS, DANE, DNSSEC and local policies). MAIL goes only over a
channel that is as good as message and policies ask, whatever fall-back, failed QUIT, refused MX or reuse came
before (`SecureEnough`); places of the limits are those of the message and its connections on every path
(`PlacesBalanced`); when `Body` returns every accepted recipient has the status of its own server
(`EveryRcptAnswered`); `AddRcpt` ends,
except where it waits for a TLSA lookup that panicked (`AddRcptEnds`).

**checks** (SPF, DKIM and DMARC with seven kinds of DNS answers; DNSBL with three lists, one of
good senders; milter, command and rspamd; sender authorisation with and without `check_header`, MX and TLS). In every order in which the
goroutines of a stage finish no verdict is lost (`VerdictsEnforced`); what SPF leaves to DMARC is
decided there (`DeferredDecided`); a message passes DNSBL only by the sum of all its listings
(`ListingsCounted`); stages and background lookups end (`StagesEnd`).

**process** (82 configurations, three complete, one per way of being refused late, the others
varied line by line; the server or a tool; two signals; one edit of the table's file). What
the parser hands over is what the files say, stated without passes or tree surgery (`ConfigMeaning`);
every module runs with the values of the nearest directive, once, and nothing that should
be refused is started (`ConfigHonoured`); the table serves whole versions only (`TableWhole`) and in the
end the last one (`TableCatchesUp`); modules are closed after their users (`UsersClosedFirst`);
SIGTERM ends the process whatever reloads are under way (`ShutdownEnds`).

**accounts** (seven login configurations with every back end, one or two logins beside a `creds` tool; a
message to three addresses of two accounts, two of them of one, beside `imap-acct`; a server, a tool and a
crash on either pipe; a relay over two endpoints with SMTP or LMTP). Whoever is let in was listed and
vouched for by one provider while the login lasted (`VouchedFor`); directory searches are made with the
reader's bind (`ReadsAsReader`); logins end (`LoginsEnd`); a message is stored once in each account
or nowhere, or relayed with a truthful answer for every recipient (`MessagesSettled`); a change of a tool
reaches the sessions exactly once and every `Close` ends (`UpdatesArrive`).

### Known deviations

Places where the code does not meet what a comment, a test or a reader expects. Each has a property in the
module of its component. To reproduce one: take the configuration of the first column, replace its
INVARIANTS and PROPERTIES by the property (an invariant unless marked *temporal*), and make the change
of the third column. TLC then ends in a counterexample.

| Configuration | Property | Change | What happens | What the source says |
|---|---|---|---|---|
| MCTimeWheel | `AddNeverPanics` | | `Add` that passed the flag sends on the channel `Close` closes (timewheel.go:70, 86) | "Already stopped, ignore." (timewheel.go:58) |
| MCQueueFaults | `SafeOnDisk` | | a failed metadata update is logged and the retry rereads the old list (queue.go:435) | "it is safe on disk and next try will reread it" (queue.go:453) |
| MCQueueFaults | `FailedBodyNotDelivered` | | `Sync` fails after the metadata is in place; delivered after a restart (queue.go:757) | "message is assumed to be undeliverable to all recipients" (delivery_target.go:63) |
| MCLimits | `DestinationLimited` | `Clients = {c1, c2, c3}`, `SourceL <- NoLimits` | destination limiters are built from the source's list (limits.go:121) | "per-source, per-destination basis" (limits.go:19) |
| MCLimits | `FullBucketSetRefuses` | `MaxBuckets = 0` | nil limiter returned and used; nothing is ever stale (bucket.go:89, 102) | "Take will return false." (bucket.go:32) |
| MCLimits | `SourceLimitWorksAlone` | `IpL <- NoLimits`, `DestL <- NoLimits` | undo releases an IP set that is nil (limits.go:191) | limits.go:19 |
| MCConnPool | `DropsIdleOnly` *temporal* | `Slots = {s1, s2, s3, s4}`, `MaxConnLifetime = 1`, `StaleKeyLifetime = 2`, `MaxClock = 3` | `lastUse` is written to a copy (pool.go:190) | "half of recommended idle time" (remote.go:152) |
| MCSmtpSession | `PlacesReturned` | `Endpoints <- Eager` | sender overwritten by its raw form, limit released under another key (session.go:309) | "for deferred startDelivery" (session.go:308) |
| MCSmtpSession | `ResetForgets` | `Endpoints <- Deferred` | the deferred error survives RSET (session.go:117) | "Specific for the currently handled message." (session.go:84) |
| MCSmtpSession | `CommittedOrAborted` | `Endpoints <- Deferred` | failed `Body` or routing loop: neither `Commit` nor `Abort` (session.go:488-502) | delivery_target.go:66 |
| MCSmtpSession | `CountsSessions` | `Endpoints <- Deferred` | refused client subtracted, never added (smtp.go:361) | smtp_server.go:408 of the test helpers |
| MCSmtpSession | `NothingSurvivesClose` | `Endpoints <- DeferredClosing` | RCPT after an asynchronous `Logout` starts a delivery (session.go:353) | "prevent Close from accessing inconsistent state" (session.go:87) |
| MCMsgPipeline | `ClosedOnce` | `Setups <- Shared` | a failing group closes states it shares (check_runner.go:74) | check_test.go:58 |
| MCMsgPipeline | `ModifiersClosed` | | state lost when `RewriteSender` fails (msgpipeline.go:172) | "even if any of the Rewrite* functions return an error" (modifier.go:80) |
| MCMsgPipeline | `VerdictKept` | `Setups <- ApartPartial` | `BodyNonAtomic` does not apply the verdicts (msgpipeline.go:464) | "copied into MsgMetadata by the msgpipeline" (check.go:103) |
| MCMsgPipeline | `OneStatusPerRcpt` | `Setups <- ApartPartial` | several statuses for a recipient with several targets (msgpipeline.go:486) | "should not be called multiple times" (partial_delivery.go:38) |
| MCMsgPipeline | `RejectedStaysOut` | | a rejected recipient passes when RCPT is repeated, since it counts as checked (check_runner.go:256) | "Reject is the flag that specifies that the message should be rejected" (check.go:94) |
| MCRemote | `DestReturned` | | MAIL refused: the connection is not in `rd.connections`, its place is lost (connect.go:275) | release in `Close` (remote.go) |
| MCRemote | `OwnStatuses` | | statuses for converted addresses, and for those of an earlier message of a reused connection (remote.go:427) | "should not be called multiple times" (partial_delivery.go:38) |
| MCRemote | `PoolKeepsPolicy` | | a connection made under an override is reused without one | override is per message (remote.go:219) |
| MCRemote | `OwnLookup` | | the goroutine writes into the future the policy holds when it is done, another domain's (security.go:163) | |
| MCRemote | `RequireTLSKept` | `MinMX = 0`, `Relaxed = TRUE` | REQUIRETLS is switched off in the message for all later domains (connect.go:272) | "enforce strict security only on the path to the MX" (connect.go:268) |
| MCRemote | `AddRcptReturns` *temporal* | `Scenarios <- Long` | the TLSA lookup panics: its goroutine recovers and the future is never set, `CheckConn` waits on a context without a deadline (security.go:483-490, 504) | "panic during extended resolver lookup" is only logged (security.go:486) |
| MCChecks | `RejectWins` | | a result with both flags is only a quarantine (check_runner.go:209) | check.go:94 |
| MCChecks | `DeferralSafe` | `Scenarios <- NoDmarc` | SPF defers to DMARC although the pipeline has it off, or its lookup differs (spf.go:397) | "deferring action due to a DMARC policy" (spf.go:399) |
| MCChecks | `PctRespected` | `DnsAnswers <- ZeroPct` | a draw of 0 is not greater than pct=0 (verifier.go:164) | "whether to apply a policy with the pct key" (verifier.go:128) |
| MCChecks | `LocalChecked` | | `CheckSender` of the milter dereferences a nil `Conn` for local messages; the panic is caught and the check counts as passed (milter.go:354) | "the message is likely generated locally" (milter.go:226) |
| MCProcess | `ReadyWhenUsed` | `Inputs <- Cyclic` | a circular reference gets a module whose `Init` has not returned (instances.go:89) | "Break circular dependencies" (instances.go:85) |
| MCProcess | `UsersClosedFirst` | `Inputs <- Cyclic` | of two modules that use each other one is closed first, although the other one still uses it (instances.go:89) | instances.go:85 |
| MCProcess | `NextSignalForces` *temporal* | `Inputs <- OnlyFull`, `MaxSignals = 3` | SIGUSR2 during the shutdown: the second handler waits for a table that is closed and hears no SIGTERM (signal.go:57) | "next signal will force immediate shutdown" (signal.go:62) |
| MCProcess | `ShutdownEnds` *temporal* | `SPECIFICATION StatSpec` | a `Stat` error other than "not found": nil info, the reloader is gone, `Close` waits (file.go:148-150) | |
| MCProcess | `TableCatchesUp` *temporal* | `SPECIFICATION RestoreSpec` | a file put back with its old time is never read (file.go:150) | |
| MCAccounts | `LdapNeverPanics` | | a rebind that fails sets `conn` to nil and then closes it (ldap.go:208-211) | "failed to rebind for reading" is logged (ldap.go:206) |
| MCAccounts | `CreateTellsTruth` | `CredsTools = {t1, t2}` | two `creds create` of one name both succeed (table.go:135-148) | "credentials for %s already exist" |
| MCAccounts | `ReadsAsReader` | `LoginCfgs <- BindOff` | with `bind off`, the default, the connection stays bound as the last user | ldap.go:203 |
| MCAccounts | `VouchedFor` | `LoginCfgs <- NoPass` | `plain_separate` without `pass` asks nobody for the password | |
| MCAccounts | `MechanismsAgree` | `LoginCfgs <- MappedTwice` | SASL LOGIN maps the name twice and opens another account than PLAIN (sasl.go:162-178) | |
| MCAccounts | `PipeRestored` | | the socket a crash leaves keeps the pipe off after the restart (imapsql.go:319) | |
| MCAccounts | `ServerSurvives` | `Crashes = 0`, `TornWrites = TRUE` | a malformed line is logged and its nil update used (unix_pipe.go:62-72) | "malformed update received" (unix_pipe.go:64) |
| MCAccounts | `FilteringEnds` *temporal* | `Originals <- Swapped` | `{original_rcpt_to}` follows a cyclic history for ever (command.go:143) | |
| MCAccounts | `StatusOfSource` | `RelayRcpts = {"x", "idn"}` | statuses under the converted address | "should not be called multiple times" (partial_delivery.go:38) |
| MCAccounts | `RelayNeverPanics` | `BodyOpens = FALSE` | no return after the error: a nil reader is closed (smtp_downstream.go:291-299) | |
| MCAccounts | `BodyAtomic` | | over LMTP, `Body` fails when one recipient does, the others have the message (smtpconn.go:442) | "undeliverable to all recipients" (delivery_target.go:63) |

The passing runs state what holds in spite of these: either the configuration keeps away from the
case (no failing `Stat` for `ShutdownEnds`, `bind plain` for `ReadsAsReader`), or the property names what is exempt (`RcptAccounted` counts
broken metadata as remembered, `PlacesBalanced` counts the places of refused MAIL commands,
`SecureEnough` leaves out connections made under an override, `AddRcptEnds` the wait for a
TLSA lookup that panicked).

Smaller things seen while translating, modelled as they are or outside the models: a
snippet of an imported file silently replaces the importer's of the same name, and its macros are unusable
there; a module written inside a global directive inherits no global value, since the global block is read
by a map without globals (mail.go:322); a floating-point directive ignores a block; an empty recipient block is accepted; the daily refresh of the
MTA-STS cache is never started; a tool runs the shutdown hooks without closing
what its block depends on; `auth.pam` with `use_helper` on a build without libpam
accepts nobody; `newConn` of `auth.ldap` leaves the connection open when STARTTLS or the bind fails; `shadow.Read` does not
close its file; `imap-acct create` does not normalise the name; `creds password` creates a
missing user; the pure Go build of SQLite has another driver name and so no
update pipe; `imap-acct appendlimit` truncates to 32 bits.

### Bounds

Every bound is a constant named in the module and a conjunct of a guard: `MaxAdds`, `MaxTime`, `MaxFaults`,
`MaxCloses`, `MaxClock`, `MaxIntervals`, `MaxMsgs`, `MaxRcptCalls`; `Scenarios` (recipients and messages),
`MaxMX` and `ReuseLimit` of `Remote`; `MaxRcpts` of `Checks`; `MaxNesting`, `MaxExpansion`
(255 in the code), `MaxWrites` and `MaxSignals` of `Process`; `AcctChanges`, `Changes`, `Cap` (32 and 10 in
the code) and `Crashes` of `Accounts`. They are chosen so that each interesting event can happen at
least once more than needed for a first collision: two callers, two recipients (one
delivered, one retried), two tries, two faults, buckets, maps and channels of size one, two MX records
for the fall-back to the next, two messages for a reused connection, two RCPT for a repeated one, two signals for a
reload during the shutdown. Deadlock checking is off where the system may stop: a queue that is
idle, a session that is over, a process that ended, a bounded clock. Symmetry is used in
safety runs only, over sets whose members are interchangeable.

### Fairness

* Time wheel: goroutines that can run do run, the timer fires, time passes; strong
  fairness for the stop handshake, since `select` picks among ready cases at random.
* Queue: weak fairness of goroutines, of each message's dispatch (shown by
  `EventuallyDispatched` for the wheel), and of the restart (service manager).
  None for the source: a client may go away.
* Pool: weak fairness of steps without the lock; strong for those that need it
  (`sync.Mutex` hands over to a waiter after a millisecond) and for the stop channel.
* Remote and checks: weak fairness of the goroutine of the call and of the background lookups, which end by an answer, a
  time-out or a panic. None for clients. What waits without a time-out is exempt by name: a helper command
  that hangs in `StagesEnd`, and in `AddRcptEnds` the DANE policy whose lookup panicked.
* Process: weak fairness of goroutines; strong for a reload or a hook that hands over to the reloader's
  `select`; an editor that began to write finishes. None for signals.
* Accounts: weak fairness of the goroutine of a login, of a filter and of socket readers; strong for the carrier, whose
  `select` has several ready cases. None for tools, except that a tool that began to close does.

## 4. What is proved

The proofs hold for all constants that satisfy the named assumptions of the modules, which
only say of what kind a constant is and what is finite:

| Assumption | Says |
|---|---|
| `WheelAssumption`, `QueueAssumption` | bounds are natural numbers, max_tries and max_parallelism at least 1 |
| `LimitsAssumption` | limiters are configurations; finitely many deliveries, and keys (at least one) |
| `PoolAssumption` | the pool's limits are numbers; the names for the lock's other holders are not names of deliveries |
| `SessionAssumption` | finitely many sessions; normalising a domain twice changes nothing more |
| `PipelineAssumption` | groups without repetition, expansions and routes are functions; finitely many targets and blocks |
| `ListsAssumption`, `AnswersAssumption` | finitely many DNSBLs, scores and thresholds are integers; what a DNS answer may be |
| `TypesAssumption` | an endpoint that listens can be closed |
| `DirectivesAssumption` | a directive that names no module has a known kind of value; one that is inherited is read with the same kind and words by the global block, or is not the name of a module type |
| `RemoteAssumption` | recipients have a domain, levels are those of the code |
| `AuthAssumption` | configurations list providers; the empty name is its own lower case; no login is called "free", the lock's value when nobody has it |
| `StorageAssumption`, `PipeAssumption` | filters are counted; tools are neither the server nor the mark of a torn write |

None of the properties is inductive as it stands. Each proof module states the invariant `IInv` that is,
as a conjunction of named parts; TLC checked every `IInv` on the instance of the component's run before it was
proved. A lemma for each action, or for a few that do the same, shows that it is preserved.

`QueueProofs`, the wheel: `WheelInv` = types, numbers of listed slots below the next number,
`NoMissedWakeup`, `ClosestStaysListed`. Numbers are needed because the step that pushes
a slot must know it is new. From it follow `WheelNoMissedWakeup`,
`WheelClosestStaysListed`, and `WheelImplementsScheduler`: each action is
mapped to one action of `Scheduler` or to a stutter; the interesting one is the timer, where
`NoMissedWakeup` gives that no announced slot is due earlier.

`QueueProofs`, the queue: `RcptAccounted` fails to be inductive because a goroutine may be about to
rewrite or remove the files. `IInv` is built around `Owed(m)`, the recipients accepted (or
about to be, once the source is in `Commit`) and not yet disposed of: the files name each
of them and hold the message (`DiskOK`); metadata on the wheel names them (`SlotOK`); a
goroutine has them in its metadata, is not removing files while there are any,
and has an error for each it is not delivering to (`WorkOK`); what the source has stored so
far (`SessOK`); and at start-up nobody is in the middle of anything (`BootOK`).
Theorems: `QueueInvariant`, `QueueTypeOK`, `QueueRcptAccounted`.

Its second part adds that a message has at most one *claim* (`OneClaim`), handed from its source to
the slot `Commit` pushes, from the slot to the goroutine, from the goroutine to the slot of the
retry, and over a restart to the directory listing. Only the holder of the claim changes body and
counts, so what the next holder reads, in memory or on disk, agrees with what happened, up to one attempt per
fault (`Agree`, with `Tallies` relating the tries recorded to those made). `Stops` says that `Close` waits. Theorems:
`QueueOneAttempt`, `QueueContentPresent`, `QueueRetriesBounded`, `QueueCloseIsClean`, for any number of messages,
goroutines, tries and faults.

`LimitsProofs`: where each call is (`Where`), that the buckets a delivery has entered exist when it
releases them (`InBuckets`; it rests on `UsedInThePast`, no bucket ever counts as stale), that every token of a rate
limiter comes from a burst (`Burst`) and that a semaphore's count is the number of its holders unless somebody
panicked (`Counted`, by cardinalities of finite sets). `LimitsRateRespected` and the action property
`LimitsReleasesMatch` (a delivery's release never meets an empty channel) hold under every
configuration; `LimitsSemaphoresExact` is stated with `SoundConfig`, a source limit comes with an
IP limit and bucket sets have room, since the code panics otherwise (see the deviations).

`ConnPoolProofs`: the channels together hold each idle connection once (`Buffered`), a connection in use
has one user who is at a point where he has it (`Owned`), a bucket that was taken out of the map is closed for good
even when a `Get` still receives from it (`Mapped`), a bucket with connections in it is in the map, doomed
under the lock, or being emptied (`Reachable`), and who may hold the lock (`Locked`). Theorems: `PoolOneOwner`, `PoolNoOrphans`.

`SmtpSessionProofs`: `OpenOK` relates the envelope the client was told, the delivery and the command on its way;
`DeliveryOK` what the session would release and what it took; `EndsOK` what a closed session may still
receive. Theorems: `SessionTokensMatch`, `SessionEnvelopeAgrees`, `SessionClosedOwnsNothing`.

`MsgPipelineProofs`: `OrderOK` says of every job still to come that its checks were shown the address or will
be by a job before it, whatever is inserted in between; `MadeOK` counts the state objects made and dropped by the calls so far (each
call drops at most one per check, since a failure ends the call), which bounds their number; `BodyOK` says that every
started target has the body or will get it in this call. The check runner's four outcomes are summed up in one
predicate, `RunnerKeeps`: no check forgets what it was shown. Theorems: `PipelineCheckedBeforeTarget`,
`PipelineReplayComplete`, `PipelineCommitNeedsAllBodies`.

Its second part is about `Checks`. `ChecksInv` says what a stage has merged so far: every verdict of a check that is done is in
`found` or in `merged` (`VerdictsKept`), the sender was compared when a later stage runs (`OwnersKept`), SPF
defers only where it found a record that asks for an action, and its result and DKIM's are among those DMARC judges by (`DeferralKept`), and the score
that DNSBL has reached is the sum over the lists that have answered (`ListingsKept`). That the sum over a set grows by the
score of the list that is added would be an induction; it is proved instead by the least set for which it fails,
with the cardinality of finite sets. Theorems: `ChecksEnforceVerdicts`, `ChecksDecideDeferred`, `ChecksCountListings`.

`RemoteProofs`: what is known of the connection being made at each point of `AddRcpt` (`AttemptOK`: above all
that the level `connect` believes in is the level of the channel) and of those that are kept (`Sound`: they meet what
the policies of *their* message asked), so that a reused connection is as good as a new one; the recipients a connection knows are
of its own domain (`ConnOK`, `KnownOK`), and those answered have their own server's status (`ToldOK`). Theorems: `RemoteSecureEnough`,
`RemotePlacesBalanced`, `RemoteEveryRcptAnswered`, for any set of configured policies, minimum levels and numbers of MX
records, relaxed REQUIRETLS included.

`AccountsProofs` has one invariant for each of the four parts, since a step of one leaves the others alone.

* Logins: `Progress` says what the place a login has reached shows of what it found: a login that asks for a
  password belongs to a provider that lists the name; one that returns the connection with success found the single
  entry, or an entry with the password. `Deserved` is the conclusion, kept while other processes change the
  credentials because `held`, what the login may rely on, only grows. `LockOK` says that whoever is
  between `getConn` and `returnConn` has `connLock`, and `BindOK` that the connection is the reader's whenever nobody is about to
  return it; neither holds without the other. Theorems: `AccountsVouchedFor`, under `PassConfigured` (a
  `plain_separate` without a back end lets in whom its tables list), and `AccountsReadsAsReader`, where `bind` is
  not `off`: both conditions are in the statement because the code does otherwise without them (see the deviations).
* Deliveries: `UsersOK` says that the list of users, the set of added recipients and the accounts of the recipients that
  were told yes agree, each account once; `DlvOK` ties the folder to the quarantine. Relay: in the middle of LMTP there is
  one status for each recipient passed, in their order. Theorem: `AccountsMessagesSettled`, under `JunkReserved`
  (no filter names Junk, for then a message that is not quarantined may be there too).
* Update pipe: an update of a tool is in one place at most, its channel, its line, the server's channel or
  the sessions (`PlacesOK`), and a new one is in none, since its number is above all numbers its process has
  used (`NumbersOK`). Theorem: `AccountsToldOnce`, with torn writes and crashes.

`ProcessProofs`, the table: `TableInv` says what the reloader holds between its two `Stat` calls, that what was
read is of one version if the file still has the time the first saw (`ReaderOK`), and `TableWhole`. What `Init` reads is not checked by a
second `Stat`, so the property is about `stamp > 0`; `QuietTable` says that until the server runs the file
counts as recent, so the reloader leaves it alone and the unchecked read of an `Init` never comes after a reload. Theorem: `ProcessTableWhole`.

`ProcessProofs`, start-up and shutdown: `ServerInv` is about five things. A name belongs to one block, and it is marked
initialised exactly when that block's `Init` has begun (`NamesOK`). The frames of the stack are the `Init` calls in progress: none has returned, each is
there once, and each block's object is used, directly or over others, by those below it (`StackOK`). Whoever is used is done or in progress, and
whoever is done uses only what is done (`UsesOK`). Every module that is done and can be closed has one hook, behind those of all it
uses (`HooksOK`). The hooks that have run are the last ones, and whoever still serves has not been closed (`ClosingOK`). The
relation "uses, over others" is defined by the sets that are closed under it, so its steps are proved without
induction: one more use adds to the users of `d` only those who reach it over the new edge. Theorem: `ProcessUsersClosedFirst`, for every
configuration, any module types, and any number of signals, where no module uses itself over others. The condition
is in the statement because the code breaks circles by handing out a module whose `Init` has not returned (instances.go:85), and
then no order of closing is right (see the deviations).

`ProcessProofs`, the configuration: `ConfigHonoured` compares what a module runs with to what its block, the globals and the defaults
say, and nothing in it speaks of the time between. `ConfigRun` adds, for every `Init` in progress, how far in its block it is and that it has been
given what the lines before that say (`FramesRead`); what the global block kept, once it was read (`GlobalsOK`); that afterwards no object
of a global directive is still in its `Init` (`LateOK`), so that what an `Init` may inherit is settled when it ends; that whoever is done has the values
of its block (`ValuesOK`); that an object whose `Init` is still to come is an endpoint or has a name, so the start-up comes to it, and
that aliases lead to names (`PlacedOK`, `AliasesOK`); and that when the server runs every `Init` has returned (`RunningOK`). Most of the proof is that starting a module in the middle of another's block
moves no other frame and that only the frame on top advances. The attempt showed that a module created by a global directive inherits
nothing, so the property says so. Theorem: `ProcessConfigHonoured`, for any files, module types and directives. Its hypothesis `Trees(T)` is what
`Process` asks of its two parsers, which are constants: they return lists of nodes, and the blocks of nodes are lists
of nodes again. The parsers themselves are RECURSIVE operators and stay with TLC.

Only model-checked: all liveness (fairness and ENABLED are outside the prover's
reach), and `ConfigMeaning`, which is about the RECURSIVE operators of `ConfigTree` and `PipelineConfig`, with which the prover
loses its SMT back end. What recursive functions compute for every input would need induction over data, which is out of reach too.

## 5. What is abstracted or not modelled

Message texts, headers, error wording, logging and metrics are left out. Retry
delays are "some time": every slot may be the next one due in `Queue`, and
`TimeWheel` treats order and time. Recipients of a queued message are a set. A check is a verdict in
`MsgPipeline` and a rule in `CheckRules`, a modifier an expansion, a target a set of possible answers, a domain
a value with a canonical form, a hash the password it was computed from, a file's lines a version. DNS, servers,
certificates, databases and helpers answer freely.

Not modelled: a second `Close` of a pool or wheel, a check listed twice in one group, nested pipelines at run
time, the rDNS future of a session; the IMAP protocol and the SQL of go-imap-sql, go-smtp, certmagic, the MTA-STS
cache (external libraries); blob stores, DNS providers and their commands, blockchain RPC
(calls to clients, no state of their own); address, IDN and DSN functions on strings, signing with DKIM (text and
cryptography); lexing of configuration files; PROXY protocol; prompts and flags of the command line.

## 6. Plan

Modelled so far: everything the first plan named except the contract of a delivery. Left, in this order:

1. *Delivery contract* (`Delivery`): the abstract life of one delivery, as a refinement target for the
   queue's source side, the pipeline's targets, the storage's and the relay's deliveries.
2. *Other tables and modifiers*: the chain of tables and address rewriting, against a reference definition.

Runs of one component are merged where one instance can answer both questions, so that
the list stays one that is run in full after every change.
