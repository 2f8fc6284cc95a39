----------------------------- MODULE UpdatePipe -----------------------------
(***************************************************************************)
(* The update pipe of storage.imapsql: how the IMAP sessions of the server *)
(* learn what other processes (the `imap-msgs', `imap-mboxes' and          *)
(* `imap-acct' commands) change in the same database.                      *)
(*                                                                         *)
(* Every process with the pipe on has one goroutine, the carrier, that     *)
(* moves updates from the outbound channel into the pipe and, in the       *)
(* server, from the inbound channel to the sessions.  The pipe is a Unix   *)
(* socket with one reader goroutine per connection (sqlite3; the server is *)
(* connected to itself too), or PostgreSQL notifications (postgres).  The  *)
(* tool may be killed; the server may crash and be started again.  The     *)
(* socket, the notifications and the update manager are external.          *)
(***************************************************************************)
EXTENDS Naturals, Sequences, SequencesExt

CONSTANTS Keys,          \* mailboxes
          StoreTools,    \* tool processes
          Changes,       \* Cap: the changes one process makes
          Cap,           \* the room in a channel and in a socket
          Crashes,       \* Cap: crashes of the server
          TornWrites     \* whether a killed tool may leave half an update in the socket

ASSUME PipeAssumption == StoreTools \cap {"server", "torn"} = {}

VARIABLES driver,        \* "sqlite3" or "postgres"
          srv,           \* the server: pc, pipe, whether the carrier runs, made, crashes
          tool,          \* tool process -> [pc, key, pipe, linked, made]
          sock,          \* the socket file: "none", "live" or "stale"
          subs,          \* the mailboxes that sessions watch
          outbound,      \* process -> Storage.outboundUpds
          line,          \* process -> what it wrote and nobody read yet
          inbound,       \* the server's inbound channel
          seen,          \* the updates that the sessions were told of
          seenAgain,     \* those of them they were told of more than once
          missed         \* the updates published while nobody was subscribed

pipeVars == <<driver, srv, tool, sock, subs, outbound, line, inbound, seen, seenAgain, missed>>
flowVars == <<outbound, line, inbound, seen, seenAgain, missed>>
worldVars == <<driver, sock, subs>>

Server == "server"
Procs == {Server} \cup StoreTools
Update(p, k, key) == [from |-> p, n |-> k, key |-> key]
Torn == [from |-> "torn", n |-> 0, key |-> "none"]
None(p) == [outbound EXCEPT ![p] = <<>>]

\* The update manager tells the sessions.
Tell(u) == seen' = seen \cup {u} /\ seenAgain' = seenAgain \cup (seen \cap {u})

-----------------------------------------------------------------------------
(* The server's side of the pipe. *)

\* EnableUpdatePipe(ModeReplicate), called by the IMAP endpoint's Init; a
\* failure is logged and the server runs without the pipe.
StartServer ==
    /\ srv.pc = "down"
    /\ LET on == driver = "postgres" \/ sock = "none" IN
       /\ srv' = [srv EXCEPT !.pc = "running", !.pipe = on, !.carrier = on]
       /\ sock' = IF on /\ driver = "sqlite3" THEN "live" ELSE sock
    /\ UNCHANGED <<driver, tool, subs>> /\ UNCHANGED flowVars

\* A session opens or leaves a mailbox (PubSubPipe.Subscribe, Unsubscribe).
Watch(k) ==
    /\ driver = "postgres" /\ srv.pc = "running"
    /\ subs' = IF k \in subs THEN subs \ {k} ELSE subs \cup {k}
    /\ UNCHANGED <<driver, srv, tool, sock>> /\ UNCHANGED flowVars

\* A session or a delivery of the server changes a mailbox: the other
\* sessions are told, and the sink.
ServerChange ==
    /\ srv.pc = "running" /\ srv.made < Changes
    /\ srv.pipe => Len(outbound[Server]) < Cap
    /\ srv' = [srv EXCEPT !.made = @ + 1]
    /\ \E k \in Keys : LET u == Update(Server, srv.made + 1, k) IN
         /\ outbound' = IF srv.pipe THEN [outbound EXCEPT ![Server] = Append(@, u)] ELSE outbound
         /\ Tell(u)
    /\ UNCHANGED <<tool, line, inbound, missed, worldVars>>

\* Who reads what is pushed: the listening server.
Listening == srv.pc \in {"running", "closing"} /\ srv.pipe
CarrierRuns(p) == IF p = Server THEN srv.carrier ELSE tool[p].pipe /\ tool[p].pc \in {"open", "closing"}

\* The carrier pushes one update: to the socket, which may be full or have
\* nobody at the other end, or as a notification of the mailbox's channel.
PushOut(p) ==
    /\ CarrierRuns(p) /\ outbound[p] # <<>>
    /\ LET u == Head(outbound[p]) IN
       /\ outbound' = [outbound EXCEPT ![p] = Tail(@)]
       /\ IF \/ ~Listening \/ (p # Server /\ ~tool[p].linked)
             \/ (driver = "postgres" /\ u.key \notin subs)
          THEN missed' = missed \cup {u} /\ UNCHANGED line
          ELSE /\ driver = "sqlite3" => Len(line[p]) < Cap
               /\ line' = [line EXCEPT ![p] = Append(@, u)] /\ UNCHANGED missed
    /\ UNCHANGED <<srv, tool, inbound, seen, seenAgain>> /\ UNCHANGED worldVars

\* UnixSockPipe.readUpdates and the goroutine of PubSubPipe.Listen: an update
\* of its own is skipped; one that cannot be parsed is skipped by the latter
\* and dereferenced, nil, by the former.
Own(u) == u.from = Server

\* The tools' connections end with the process at the other end.
Unlinked == [t \in StoreTools |-> [tool[t] EXCEPT !.linked = driver = "postgres" /\ @]]
Crashed == [srv EXCEPT !.pc = "down", !.pipe = FALSE, !.carrier = FALSE, !.crashes = @ + 1]
Dies ==
    /\ srv' = Crashed
    /\ sock' = IF sock = "live" THEN "stale" ELSE sock
    /\ subs' = {} /\ inbound' = <<>>
    /\ outbound' = None(Server) /\ line' = [p \in Procs |-> <<>>]
    /\ tool' = Unlinked
    /\ UNCHANGED <<driver, seen, seenAgain, missed>>

ReadUpdate(p) ==
    /\ Listening /\ line[p] # <<>>
    /\ LET u == Head(line[p]) IN
       IF u = Torn /\ driver = "sqlite3" THEN Dies
       ELSE /\ IF u = Torn \/ Own(u) THEN UNCHANGED inbound
               ELSE Len(inbound) < Cap /\ inbound' = Append(inbound, u)
            /\ line' = [line EXCEPT ![p] = Tail(@)]
            /\ UNCHANGED <<srv, tool, outbound, seen, seenAgain, missed>> /\ UNCHANGED worldVars

\* The carrier hands an update from outside to the sessions.  Its select
\* takes this or an own change; while it waits for room in a socket it takes
\* nothing, which is not told apart here: its own socket is always drained,
\* since the reader skips the server's own updates.
TakeIn ==
    /\ srv.carrier /\ inbound # <<>>
    /\ inbound' = Tail(inbound) /\ Tell(Head(inbound))
    /\ UNCHANGED <<srv, tool, outbound, line, missed>> /\ UNCHANGED worldVars

\* Storage.Close: outbound is closed, the carrier ends when it has pushed
\* what is left there, then the pipe is closed.  The endpoints and pipelines
\* that use the storage were closed before it.
CloseServer ==
    /\ srv.pc = "running"
    /\ srv' = [srv EXCEPT !.pc = "closing"]
    /\ UNCHANGED <<tool, worldVars, flowVars>>
PushedSoon(p) == TRUE  \* mutant: Close does not wait for the carrier
Pushed(p) == outbound[p] = <<>>

CarrierEnds ==
    /\ srv.pc = "closing" /\ srv.carrier /\ Pushed(Server)
    /\ srv' = [srv EXCEPT !.carrier = FALSE]
    /\ UNCHANGED <<tool, worldVars, flowVars>>
ServerCloses ==
    /\ srv.pc = "closing" /\ ~srv.carrier
    /\ srv' = [srv EXCEPT !.pc = "closed", !.pipe = FALSE]
    /\ sock' = IF srv.pipe /\ driver = "sqlite3" THEN "none" ELSE sock
    /\ subs' = {} /\ inbound' = <<>> /\ line' = [p \in Procs |-> <<>>] /\ outbound' = None(Server)
    /\ tool' = Unlinked
    /\ UNCHANGED <<driver, seen, seenAgain, missed>>

CrashServer ==
    /\ srv.pc = "running" /\ srv.crashes < Crashes
    /\ Dies

-----------------------------------------------------------------------------
(* A tool: openStorage with EnableUpdatePipe(ModePush), changes, Close. *)

OnlyTool == UNCHANGED srv /\ UNCHANGED worldVars
OpenTool(t) ==
    /\ tool[t].pc = "idle"
    /\ LET on == driver = "postgres" \/ sock = "live"
       IN \E k \in Keys : tool' = [tool EXCEPT ![t] = [@ EXCEPT !.pc = "open", !.key = k, !.pipe = on, !.linked = on]]
    /\ OnlyTool /\ UNCHANGED flowVars

\* A change of the mailbox that the command was given goes to the sink.
ToolChange(t) ==
    /\ tool[t].pc = "open" /\ tool[t].made < Changes
    /\ tool[t].pipe => Len(outbound[t]) < Cap
    /\ tool' = [tool EXCEPT ![t].made = @ + 1]
    /\ outbound' = IF tool[t].pipe
                   THEN [outbound EXCEPT ![t] = Append(@, Update(t, tool[t].made + 1, tool[t].key))]
                   ELSE outbound
    /\ OnlyTool /\ UNCHANGED <<line, inbound, seen, seenAgain, missed>>
CloseTool(t) ==
    /\ tool[t].pc = "open"
    /\ tool' = [tool EXCEPT ![t].pc = "closing"]
    /\ OnlyTool /\ UNCHANGED flowVars
ToolCloses(t) ==
    /\ tool[t].pc = "closing" /\ (tool[t].pipe => Pushed(t))
    /\ tool' = [tool EXCEPT ![t].pc = "closed"]
    /\ outbound' = None(t)
    /\ OnlyTool /\ UNCHANGED <<line, inbound, seen, seenAgain, missed>>
KillTool(t) ==
    /\ tool[t].pc \in {"open", "closing"}
    /\ tool' = [tool EXCEPT ![t].pc = "killed"]
    /\ outbound' = None(t)
    /\ line' = IF TornWrites /\ Listening /\ outbound[t] # <<>> THEN [line EXCEPT ![t] = Append(@, Torn)] ELSE line
    /\ OnlyTool /\ UNCHANGED <<inbound, seen, seenAgain, missed>>

-----------------------------------------------------------------------------
PipeInit ==
    /\ driver \in {"sqlite3", "postgres"}
    /\ srv = [pc |-> "down", pipe |-> FALSE, carrier |-> FALSE, made |-> 0, crashes |-> 0]
    /\ tool = [t \in StoreTools |-> [pc |-> "idle", key |-> "", pipe |-> FALSE, linked |-> FALSE, made |-> 0]]
    /\ sock = "none" /\ subs = {}
    /\ outbound = [p \in Procs |-> <<>>] /\ line = [p \in Procs |-> <<>>]
    /\ inbound = <<>> /\ seen = {} /\ seenAgain = {} /\ missed = {}

PipeNext ==
    \/ StartServer \/ ServerChange \/ TakeIn \/ CloseServer \/ CarrierEnds \/ ServerCloses \/ CrashServer
    \/ \E p \in Procs : PushOut(p) \/ ReadUpdate(p)
    \/ \E k \in Keys : Watch(k)
    \/ \E t \in StoreTools : OpenTool(t) \/ ToolChange(t) \/ CloseTool(t) \/ ToolCloses(t) \/ KillTool(t)

\* Goroutines run.  The carrier's select takes each ready channel in the end:
\* Go chooses between ready cases at random.
PipeFair ==
    /\ \A p \in Procs : SF_pipeVars(PushOut(p)) /\ WF_pipeVars(ReadUpdate(p))
    /\ SF_pipeVars(TakeIn) /\ SF_pipeVars(CarrierEnds) /\ WF_pipeVars(ServerCloses)
    /\ \A t \in StoreTools : WF_pipeVars(ToolCloses(t))

-----------------------------------------------------------------------------
(* Properties. *)

Sent(t, k) == \E key \in Keys : Update(t, k, key) \in ToSet(outbound[t])
Arrived(t, k) == \E key \in Keys : Update(t, k, key) \in seen \cup missed

\* No update is told twice: the server's own come back to it through the
\* socket and are skipped (unix_pipe.go readUpdates; pubsub_pipe.go Listen).
ToldOnce == seenAgain = {}

\* What a tool changed while it was connected reaches the sessions although
\* the tool exits at once, unless the server stops, the tool is killed or
\* nobody watches the mailbox; and every Close ends, although the carrier may
\* be writing to a socket that is full; and no update is told twice (imapsql.go
\* EnableUpdatePipe, Close; unix_pipe.go readUpdates; pubsub_pipe.go Listen).
UpdatesArrive ==
    /\ []ToldOnce
    /\ \A t \in StoreTools, k \in 1..Changes :
         Sent(t, k) ~> (Arrived(t, k) \/ tool[t].pc = "killed" \/ srv.pc # "running" \/ srv.crashes > 0)
    /\ srv.pc = "closing" ~> srv.pc = "closed"
    /\ \A t \in StoreTools : tool[t].pc = "closing" ~> tool[t].pc \in {"closed", "killed"}

\* An expectation the code does not meet: a server that is running is
\* reachable through the pipe, also after a crash.
PipeRestored == srv.pc = "running" => srv.pipe

\* An expectation the code does not meet: what a killed tool leaves in the
\* socket does not end the server.
ServerSurvives == srv.crashes = 0
=============================================================================
