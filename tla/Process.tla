------------------------------- MODULE Process -------------------------------
(***************************************************************************)
(* The server process: it reads its configuration, creates and initialises *)
(* modules that refer to each other, serves, reloads on SIGUSR2 and closes *)
(* everything on SIGTERM (cmd/sirrmeshd/cmd, framework/module,             *)
(* framework/config/module, framework/hooks).  The same start is used by   *)
(* the command line tools for one block.                                   *)
(*                                                                         *)
(* Init of a module is a frame on a stack: the directives of its block are *)
(* taken one by one, and one that names another module puts the Init of    *)
(* that module on top.                                                     *)
(***************************************************************************)
EXTENDS ConfigMap, FileTable

CONSTANTS
    Inputs,       \* configurations the process may be given: name -> text of each file
    Types,        \* module name -> what its Init reads, see below
    Prefixed,     \* namespace -> short name -> full name
    GlobalDirectives,  \* the matchers of ReadGlobals
    Modes,        \* "run", and the blocks a tool may be asked for
    MaxSignals,   \* bound on signals
    BusyAddrs,    \* addresses net.Listen may fail for
    ReadFiles(_),      \* parser.Read: the tree of directives of the files, see ConfigTree
    ParsePipeline(_)   \* parseMsgPipelineRootCfg, see PipelineConfig

(* Types[t] == [matchers, own, endpoint, closer, pipeline, ifaces]: own is  *)
(* what Init does besides reading directives ("file", "certs", "listen",    *)
(* "nothing"), pipeline whether directives it does not know are a pipeline. *)

(* Every endpoint that listens can be closed. *)
ASSUME TypesAssumption == \A t \in DOMAIN Types : Types[t].own = "listen" => Types[t].closer

(* A directive whose value may be inherited is read globally as it is in    *)
(* the block, or else it is not the name of a module: what is unknown to    *)
(* ReadGlobals is taken for a block.                                        *)
ASSUME DirectivesAssumption ==
    \A t \in DOMAIN Types : \A d \in DOMAIN Types[t].matchers :
        LET m == Types[t].matchers[d]
        IN  m.kind \notin ModuleKinds =>
              /\ m.kind \in ValueKinds
              /\ m.inherit => IF d \in DOMAIN GlobalDirectives
                              THEN GlobalDirectives[d].kind = m.kind /\ GlobalDirectives[d].allowed = m.allowed
                              ELSE d \notin DOMAIN Types

VARIABLES
    input, mode,  \* the configuration, and what the process is started for
    pc,           \* the main goroutine
    todo,         \* blocks that are not registered, or endpoints not initialised
    globals,      \* values of the global directives
    insts,        \* module objects, in the order of their creation
    names,        \* instances: name -> object
    aliases,      \* alias -> name
    initialized,  \* names marked in module.Initialized
    stack,        \* Init calls in progress
    values,       \* object -> values of its directives, once its Init is done
    uses,         \* <<user, used>>
    hooks,        \* EventShutdown hooks and EventReload hooks, as objects
    closed,       \* objects whose Close has returned
    serving,      \* listeners: <<object, address>>
    ticker,       \* the certificate loader's goroutine
    queue,        \* signals waiting for main and for the second handler
    second,       \* the handler started by the first SIGTERM
    left,         \* hooks still to run: by main and by the second handler
    signals       \* signals sent

startVars == <<input, mode, todo, globals, insts, names, aliases, initialized, stack, values, uses>>
runVars == <<closed, serving, ticker, queue, second, left, signals>>
vars == <<pc, startVars, hooks, runVars, tableVars>>

files == Inputs[input]
Globals == 0   \* the object of the global directives
NoHooks == [shutdown |-> <<>>, reload |-> <<>>]

Init ==
    /\ input \in DOMAIN Inputs /\ mode \in Modes
    /\ pc = "read"
    /\ todo = <<>> /\ globals = <<>> /\ insts = <<>> /\ names = <<>> /\ aliases = <<>>
    /\ initialized = {} /\ stack = <<>> /\ values = <<>> /\ uses = {}
    /\ hooks = NoHooks /\ closed = {} /\ serving = {} /\ ticker = "none"
    /\ queue = [main |-> <<>>, second |-> <<>>] /\ second = "none"
    /\ left = [main |-> <<>>, second |-> <<>>] /\ signals = 0
    /\ TableInit

------------------------------------------------------------------------------
(* Frames *)

Top == stack[Len(stack)]
Below == SubSeq(stack, 1, Len(stack) - 1)
NewFrame(obj, sort, kids) ==
    [obj |-> obj, sort |-> sort, kids |-> kids, at |-> 1, vals |-> <<>>, unknown |-> <<>>, piped |-> FALSE]

(* Directives inside 'tls', and of a pipeline, which are modules to create. *)
TLSDirectives ==
    [loader_arg |-> Module("module", FALSE, FALSE, "tls.loader", "loader"),
     loader |-> Module("module", FALSE, FALSE, "tls.loader", "loader"),
     protocols |-> Matcher("string_list", FALSE, FALSE, <<"tls1.0">>)]
PipelineDirectives ==
    [deliver_to |-> Module("callback", FALSE, FALSE, "target", "target"),
     table |-> Module("callback", FALSE, FALSE, "table", "table"),
     check |-> Module("callback", FALSE, FALSE, "", "checks"),
     modify |-> Module("callback", FALSE, FALSE, "", "modifiers")]

Fail ==
    /\ pc' = "failed"
    /\ stack' = <<>>
    /\ UNCHANGED <<input, mode, todo, globals, insts, names, aliases, initialized, values, uses, hooks>>

(* The directive at hand has the value v; next one. *)
Done(frame, name, v) == [frame EXCEPT !.at = @ + 1, !.vals = Assign(@, name, v)]

------------------------------------------------------------------------------
(* The start: the file, the global directives, the blocks *)

ReadConfig ==
    LET cfg == ReadFiles(files)
    IN  /\ pc = "read"
        /\ IF cfg.err THEN Fail
           ELSE /\ pc' = "init"
                /\ stack' = <<NewFrame(Globals, "block", cfg.nodes)>>
                /\ UNCHANGED <<input, mode, todo, globals, insts, names, aliases, initialized, values, uses, hooks>>
        /\ UNCHANGED <<runVars, tableVars>>

HasInstance(name) == (IF name \in DOMAIN aliases THEN aliases[name] ELSE name) \in DOMAIN names
NewObject(name, type, node) == [name |-> name, type |-> type, node |-> node]

(* RegisterModules, one block.  The block's own name is an argument or the  *)
(* module's name; further arguments are aliases.                            *)
RegisterModule ==
    LET n == Head(todo)
        a == Args(n)
        name == IF a = <<>> THEN n.name ELSE a[1]
        al == IF a = <<>> THEN {} ELSE Range(Tail(a))
        obj == Len(insts) + 1
    IN  /\ pc = "register" /\ todo # <<>>
        /\ IF \/ n.name \notin DOMAIN Types
              \/ ~Types[n.name].endpoint /\ \/ HasInstance(name) \/ name \in al
                                                \/ Cardinality(al) + 1 < Len(a)
                                                \/ \E x \in al : HasInstance(x)
           THEN Fail
           ELSE /\ insts' = Append(insts, NewObject(name, n.name, n))
                /\ IF Types[n.name].endpoint THEN UNCHANGED <<names, aliases>>
                   ELSE /\ names' = Assign(names, name, obj)
                        /\ aliases' = Over([x \in al |-> name], aliases)
                /\ todo' = Tail(todo)
                /\ UNCHANGED <<input, mode, pc, globals, initialized, stack, values, uses, hooks>>
        /\ UNCHANGED <<runVars, tableVars>>

Endpoints == {i \in DOMAIN insts : insts[i].type \in DOMAIN Types /\ Types[insts[i].type].endpoint}

(* All blocks are registered.  A tool runs the shutdown hooks at once and   *)
(* then initialises the block it was asked for, and no other endpoint.      *)
Registered ==
    /\ pc = "register" /\ todo = <<>>
    /\ IF Endpoints = {} \/ (mode # "run" /\ mode \notin DOMAIN names) THEN Fail
       ELSE /\ pc' = IF mode = "run" THEN "start" ELSE "stopping"
            /\ UNCHANGED <<startVars, hooks>>
    /\ left' = [left EXCEPT !.main = IF mode = "run" THEN <<>> ELSE hooks.shutdown]
    /\ UNCHANGED <<closed, serving, ticker, queue, second, signals, tableVars>>

(* initModules: the next endpoint, or the end: every block must be used. *)
NextEndpoint ==
    LET rest == {i \in Endpoints : i \notin DOMAIN values}
        next == CHOOSE i \in rest : \A j \in rest : i <= j
    IN  /\ pc = "start"
        /\ IF rest # {}
           THEN /\ stack' = <<NewFrame(next, "block", insts[next].node.kids)>>
                /\ pc' = "init"
                /\ UNCHANGED <<input, mode, todo, globals, insts, names, aliases, initialized, values, uses, hooks>>
           ELSE IF \E n \in DOMAIN names : n \notin initialized THEN Fail
           ELSE pc' = "running" /\ UNCHANGED <<startVars, hooks>>
        /\ UNCHANGED <<runVars, tableVars>>

------------------------------------------------------------------------------
(* Init: taking directives *)

Matchers ==
    CASE Top.sort = "tls" -> TLSDirectives
      [] Top.sort = "pipeline" -> PipelineDirectives
      [] Top.sort = "block" -> IF Top.obj = Globals THEN GlobalDirectives ELSE Types[insts[Top.obj].type].matchers
Node1 == Top.kids[Top.at]
Known == Node1.name \in DOMAIN Matchers
Taking == pc = "init" /\ Top.at <= Len(Top.kids)
SetTop(frame) == stack' = Append(Below, frame)

(* Unknown directives are refused, or set aside for the pipeline and, of    *)
(* the global block, for RegisterModules.                                   *)
AllowUnknown == Top.sort = "block" /\ (Top.obj # Globals => Types[insts[Top.obj].type].pipeline)

TakeUnknown ==
    /\ Taking /\ ~Known
    /\ IF ~AllowUnknown THEN Fail
       ELSE /\ SetTop([Top EXCEPT !.at = @ + 1, !.unknown = Append(@, Node1)])
            /\ UNCHANGED <<input, mode, pc, todo, globals, insts, names, aliases, initialized, values, uses, hooks>>
    /\ UNCHANGED <<runVars, tableVars>>

Duplicate == Matchers[Node1.name].kind # "callback" /\ Node1.name \in DOMAIN Top.vals

TakeValue ==
    /\ Taking /\ Known
    /\ Matchers[Node1.name].kind \notin ModuleKinds
    /\ LET v == Mapped(Matchers[Node1.name], Node1)
       IN  IF Duplicate \/ v = {} THEN Fail
           ELSE /\ SetTop(Done(Top, Node1.name, CHOOSE x \in v : TRUE))
                /\ UNCHANGED <<input, mode, pc, todo, globals, insts, names, aliases, initialized, values, uses, hooks>>
    /\ UNCHANGED <<runVars, tableVars>>

(* readTLSBlock: 'off', or a loader in the arguments or in the block. *)
TakeTLS ==
    LET args == Node1.args
        kids == (IF args = <<>> THEN <<>> ELSE <<Dir("loader_arg", args)>>) \o Node1.kids
    IN  /\ Taking /\ Known
        /\ Matchers[Node1.name].kind = "tls"
        /\ IF Duplicate THEN Fail
           ELSE /\ IF args # <<>> /\ Head(args).v = "off" THEN SetTop(Done(Top, Node1.name, <<"off">>))
                   ELSE stack' = Append(Append(Below, Done(Top, Node1.name, <<"on">>)), NewFrame(Top.obj, "tls", kids))
                /\ UNCHANGED <<input, mode, pc, todo, globals, insts, names, aliases, initialized, values, uses, hooks>>
        /\ UNCHANGED <<runVars, tableVars>>

Implements(obj, m) == m.iface \in Types[insts[obj].type].ifaces
IsReference(n) == IF n.args = <<>> THEN FALSE ELSE n.args[1].is = "ref"
Uses(d) == uses' = uses \cup {<<Top.obj, d>>}
Marked == Append(Below, Done(Top, Node1.name, <<"module">>))

(* ModuleFromNode with &name: GetInstance, which initialises it if nobody   *)
(* has asked for it before.  It is marked before its Init is called.        *)
TakeReference ==
    LET name == IF Node1.args[1].v \in DOMAIN aliases THEN aliases[Node1.args[1].v] ELSE Node1.args[1].v
        obj == names[name]
    IN  /\ Taking /\ Known
        /\ Matchers[Node1.name].kind \in {"module", "callback"}
        /\ IsReference(Node1)
        /\ IF Duplicate \/ Len(Node1.args) # 1 \/ Node1.block \/ name \notin DOMAIN names THEN Fail
           ELSE IF ~Implements(obj, Matchers[Node1.name]) THEN Fail
           ELSE /\ Uses(obj)
                /\ initialized' = initialized \cup {name}
                /\ stack' = IF name \in initialized THEN Marked
                            ELSE Append(Marked, NewFrame(obj, "block", insts[obj].node.kids))
                /\ UNCHANGED <<input, mode, pc, todo, globals, insts, names, aliases, values, hooks>>
        /\ UNCHANGED <<runVars, tableVars>>

(* ModuleFromNode with a module's name: an object of its own, initialised   *)
(* with the block that follows.  Groups may leave the name out, and module  *)
(* Get finds no endpoints.                                                  *)
TypeOf(m, n) ==
    LET space == IF m.space \in DOMAIN Prefixed THEN Prefixed[m.space] ELSE <<>>
        word == IF n.args = <<>> THEN m.iface ELSE n.args[1].v
    IN  IF word \in DOMAIN space THEN space[word] ELSE word

TakeInline ==
    LET m == Matchers[Node1.name]
        type == TypeOf(m, Node1)
        group == m.space = ""
        obj == Len(insts) + 1
    IN  /\ Taking /\ Known
        /\ m.kind \in {"module", "callback"}
        /\ ~IsReference(Node1)
        /\ IF \/ Duplicate
              \/ Node1.args = <<>> /\ ~group
              \/ type \notin DOMAIN Types
              \/ Types[type].endpoint
           THEN Fail
           ELSE IF m.iface \notin Types[type].ifaces THEN Fail
           ELSE /\ insts' = Append(insts, NewObject("", type, Node1))
                /\ Uses(obj)
                /\ stack' = Append(Marked, NewFrame(obj, "block", Node1.kids))
                /\ UNCHANGED <<input, mode, pc, todo, globals, names, aliases, initialized, values, hooks>>
        /\ UNCHANGED <<runVars, tableVars>>

------------------------------------------------------------------------------
(* Init: the end of a block *)

AtEnd == pc = "init" /\ Top.at > Len(Top.kids)
Lacking == Missing(Matchers, DOMAIN Top.vals, globals)
FilledIn == Filled(Matchers, DOMAIN Top.vals, globals)

(* The block of 'tls' and the modules of a pipeline belong to the object of *)
(* the frame below or to the object itself, whose Init goes on.             *)
EndTLS ==
    /\ AtEnd /\ Top.sort = "tls"
    /\ stack' = Below
    /\ UNCHANGED <<input, mode, pc, todo, globals, insts, names, aliases, initialized, values, uses, hooks, runVars, tableVars>>

EndMissing ==
    /\ AtEnd /\ Top.sort = "block"
    /\ Lacking # {}
    /\ Fail
    /\ UNCHANGED <<runVars, tableVars>>

EndGlobals ==
    /\ AtEnd /\ Top.obj = Globals /\ Top.sort = "block" /\ Lacking = {}
    /\ globals' = Kept(Matchers, Top.vals, FilledIn)
    /\ todo' = Top.unknown
    /\ stack' = <<>>
    /\ pc' = "register"
    /\ UNCHANGED <<input, mode, insts, names, aliases, initialized, values, uses, hooks, runVars, tableVars>>

OwnType == Types[insts[Top.obj].type]

(* msgpipeline.New with what was set aside. *)
EndPipeline ==
    LET cfg == ParsePipeline(Top.unknown)
    IN  /\ AtEnd /\ Top.sort = "block" /\ Top.obj # Globals /\ Lacking = {}
        /\ OwnType.pipeline /\ ~Top.piped
        /\ IF cfg.err THEN Fail
           ELSE /\ stack' = Append(Append(Below, [Top EXCEPT !.piped = TRUE]), NewFrame(Top.obj, "pipeline", cfg.refs))
                /\ UNCHANGED <<input, mode, pc, todo, globals, insts, names, aliases, initialized, values, uses, hooks>>
        /\ UNCHANGED <<runVars, tableVars>>
EndPipelineModules ==
    /\ AtEnd /\ Top.sort = "pipeline"
    /\ stack' = Below
    /\ UNCHANGED <<input, mode, pc, todo, globals, insts, names, aliases, initialized, values, uses, hooks, runVars, tableVars>>

(* setupListeners: every address, TLS ones only with a TLS configuration. *)
Listens(obj, vals) ==
    \A i \in DOMAIN insts[obj].node.args :
        LET a == insts[obj].node.args[i].v
        IN  a \notin BusyAddrs /\ (a = "tls" => vals.tls # <<"off">>)

AddHookFirst(list, obj) == <<obj>> \o list
AddHook(list, obj) == Append(list, obj)

(* Init returns; a module with Close gets its hook now.  What is specific   *)
(* to a module is done before: the table's file is read and its reloader    *)
(* started, certificates are loaded, listeners opened; any of it may fail.  *)
EndInit ==
    LET obj == Top.obj
        vals == Over(Top.vals, FilledIn)
    IN  /\ AtEnd /\ Top.sort = "block" /\ obj # Globals /\ Lacking = {}
        /\ OwnType.pipeline => Top.piped
        /\ \/ OwnType.own = "listen" /\ ~Listens(obj, vals) /\ Fail /\ UNCHANGED <<runVars, tableVars>>
           \/ OwnType.own = "certs" /\ Fail /\ UNCHANGED <<runVars, tableVars>>
           \/ OwnType.own = "file" /\ file.there /\ ~file.whole /\ Fail /\ UNCHANGED <<runVars, tableVars>>
           \/ /\ OwnType.own = "listen" => Listens(obj, vals)
              /\ values' = Assign(values, obj, vals)
              /\ hooks' = [shutdown |-> IF OwnType.closer /\ (mode = "run" \/ Below # <<>>)
                                        THEN AddHook(hooks.shutdown, obj) ELSE hooks.shutdown,
                           reload |-> IF OwnType.own \in {"file", "certs"} THEN AddHook(hooks.reload, obj) ELSE hooks.reload]
              /\ stack' = Below
              /\ pc' = IF Below # <<>> THEN pc ELSE IF mode = "run" THEN "start" ELSE "tool"
              /\ IF OwnType.own = "file" THEN ReadAtInit ELSE UNCHANGED tableVars
              /\ ticker' = IF OwnType.own = "certs" THEN "select" ELSE ticker
              /\ serving' = serving \cup IF OwnType.own = "listen"
                                         THEN {<<obj, i>> : i \in DOMAIN insts[obj].node.args} ELSE {}
              /\ UNCHANGED <<input, mode, todo, globals, insts, names, aliases, initialized, uses, closed, queue, second, left, signals>>

------------------------------------------------------------------------------
(* Signals and hooks *)

Running == pc \in {"running", "reloading", "stopping", "closing", "waiting"}
Up == pc \notin {"exited", "failed"}
Own(obj) == Types[insts[obj].type].own
NextHook(who) == Last(left[who])
HookDone(who) == left' = [left EXCEPT ![who] = Front(@)]
configVars == <<startVars, hooks>>

(* The kernel puts the signal into every channel that was registered. *)
Signal(s) ==
    /\ Running /\ mode = "run"
    /\ signals < MaxSignals
    /\ signals' = signals + 1
    /\ queue' = [main |-> Append(queue.main, s),
                 second |-> IF second \in {"none", "starting"} THEN <<>> ELSE Append(queue.second, s)]
    /\ UNCHANGED <<pc, configVars, closed, serving, ticker, second, left, tableVars>>

(* handleSignals in main: USR1 reopens the logs, USR2 runs the reload       *)
(* hooks, all others begin the shutdown and start the second handler.       *)
MainSignal ==
    /\ pc = "running" /\ queue.main # <<>>
    /\ LET s == Head(queue.main)
       IN  /\ pc' = CASE s = "USR1" -> "running" [] s = "USR2" -> "reloading" [] OTHER -> "stopping"
           /\ left' = [left EXCEPT !.main = CASE s = "USR1" -> <<>> [] s = "USR2" -> hooks.reload [] OTHER -> hooks.shutdown]
           /\ second' = IF s = "TERM" THEN "starting" ELSE second
    /\ queue' = [queue EXCEPT !.main = Tail(@)]
    /\ UNCHANGED <<configVars, closed, serving, ticker, signals, tableVars>>

(* The last of the hooks that are left, for a reload: the table's waits for *)
(* the reloader, the loader's reads the certificates by itself.             *)
RunReload(who) ==
    /\ left[who] # <<>>
    /\ IF Own(NextHook(who)) = "file" THEN TakeReload ELSE UNCHANGED tableVars
    /\ HookDone(who)

MainReload ==
    /\ pc = "reloading"
    /\ \/ RunReload("main") /\ UNCHANGED pc
       \/ left.main = <<>> /\ pc' = "running" /\ UNCHANGED <<left, tableVars>>
    /\ UNCHANGED <<configVars, closed, serving, ticker, queue, second, signals>>

(* A shutdown hook: Close of the module. *)
CloseNext ==
    LET obj == NextHook("main")
    IN  /\ pc = "stopping" /\ left.main # <<>>
        /\ \/ /\ Own(obj) = "file"
              /\ TakeStop
              /\ pc' = "closing"
              /\ UNCHANGED <<closed, ticker, left>>
           \/ /\ Own(obj) = "certs"
              /\ ticker = "select"
              /\ ticker' = "ended"
              /\ closed' = closed \cup {obj} /\ HookDone("main")
              /\ UNCHANGED <<pc, tableVars>>
           \/ /\ Own(obj) = "listen"
              /\ pc' = "waiting"
              /\ UNCHANGED <<closed, ticker, left, tableVars>>
           \/ /\ Own(obj) = "nothing"
              /\ closed' = closed \cup {obj} /\ HookDone("main")
              /\ UNCHANGED <<pc, ticker, tableVars>>
    /\ UNCHANGED <<configVars, serving, queue, second, signals>>

CloseEnds ==
    /\ \/ pc = "closing" /\ AckStop
       \/ pc = "waiting" /\ (\A l \in serving : l[1] # NextHook("main")) /\ UNCHANGED tableVars
    /\ closed' = closed \cup {NextHook("main")}
    /\ HookDone("main")
    /\ pc' = "stopping"
    /\ UNCHANGED <<configVars, serving, ticker, queue, second, signals>>

(* Serve returns after the server was closed. *)
ServeReturns(l) ==
    /\ pc = "waiting" /\ l \in serving /\ l[1] = NextHook("main")
    /\ serving' = serving \ {l}
    /\ UNCHANGED <<pc, configVars, closed, ticker, queue, second, left, signals, tableVars>>

(* All hooks have run: main returns, or the tool goes on with its block,    *)
(* which it initialises without GetInstance.                                *)
Stopped ==
    /\ pc = "stopping" /\ left.main = <<>>
    /\ IF mode = "run" THEN pc' = "exited" /\ UNCHANGED stack
       ELSE LET obj == names[mode]
            IN  /\ pc' = "init"
                /\ stack' = <<NewFrame(obj, "block", insts[obj].node.kids)>>
    /\ UNCHANGED <<input, mode, todo, globals, insts, names, aliases, initialized, values, uses, hooks, runVars, tableVars>>

(* The command of the tool ends with closeIfNeeded. *)
ToolEnds ==
    LET obj == names[mode]
    IN  /\ pc = "tool"
        /\ pc' = "exited"
        /\ closed' = IF Types[insts[obj].type].closer THEN closed \cup {obj} ELSE closed
        /\ UNCHANGED <<configVars, serving, ticker, queue, second, left, signals, tableVars>>

(* The second handler: until it has called Notify, signals pass it by. *)
SecondStarts ==
    /\ Up /\ second = "starting"
    /\ second' = "listening"
    /\ UNCHANGED <<pc, configVars, closed, serving, ticker, queue, left, signals, tableVars>>

SecondSignal ==
    /\ Up /\ second = "listening" /\ queue.second # <<>>
    /\ LET s == Head(queue.second)
       IN  /\ second' = IF s = "USR2" THEN "reloading" ELSE second
           /\ left' = [left EXCEPT !.second = IF s = "USR2" THEN hooks.reload ELSE <<>>]
           /\ pc' = IF s = "TERM" THEN "exited" ELSE pc
    /\ queue' = [queue EXCEPT !.second = Tail(@)]
    /\ UNCHANGED <<configVars, closed, serving, ticker, signals, tableVars>>

SecondReload ==
    /\ Up /\ second = "reloading"
    /\ \/ RunReload("second") /\ UNCHANGED second
       \/ left.second = <<>> /\ second' = "listening" /\ UNCHANGED <<left, tableVars>>
    /\ UNCHANGED <<pc, configVars, closed, serving, ticker, queue, signals>>

(* reloadTicker: a load, and the wait for the next one. *)
LoadCerts ==
    /\ Up /\ ticker \in {"select", "load"}
    /\ ticker' = IF ticker = "select" THEN "load" ELSE "select"
    /\ UNCHANGED <<pc, configVars, closed, serving, queue, second, left, signals, tableVars>>

Others == UNCHANGED <<pc, startVars, hooks, runVars>>
TableStep == Up /\ (Tick \/ ReloadStep) /\ Others
Editing == pc = "running" /\ (Edit \/ Settle) /\ Others

------------------------------------------------------------------------------
StartStep ==
    \/ ReadConfig \/ RegisterModule \/ Registered \/ NextEndpoint
    \/ TakeUnknown \/ TakeValue \/ TakeTLS \/ TakeReference \/ TakeInline
    \/ EndTLS \/ EndMissing \/ EndGlobals \/ EndPipeline \/ EndPipelineModules \/ EndInit

MainStep == StartStep \/ MainSignal \/ MainReload \/ CloseNext \/ CloseEnds \/ Stopped \/ ToolEnds
SecondStep == SecondStarts \/ SecondSignal \/ SecondReload

Next ==
    \/ MainStep \/ SecondStep \/ LoadCerts \/ TableStep \/ Editing
    \/ \E s \in {"TERM", "USR1", "USR2"} : Signal(s)
    \/ \E l \in serving : ServeReturns(l)

(* Goroutines are scheduled and time passes; of several ready cases select  *)
(* takes each now and then, so a hand-over that is offered again and again  *)
(* takes place.  Nothing is said of how long the start takes.               *)
Fairness ==
    /\ WF_vars(MainSignal \/ CloseEnds \/ Stopped \/ ToolEnds)
    /\ SF_vars(MainReload \/ CloseNext)
    /\ WF_vars(SecondStarts)
    /\ WF_vars(LoadCerts)
    /\ WF_vars(TableStep)
    /\ WF_vars(pc = "running" /\ (EndWrite \/ Settle) /\ Others)
    /\ WF_vars(\E l \in serving : ServeReturns(l))

Spec == Init /\ [][Next]_vars /\ Fairness

------------------------------------------------------------------------------
TypeOK ==
    /\ input \in DOMAIN Inputs /\ mode \in Modes
    /\ pc \in {"read", "register", "start", "init", "tool", "running", "reloading", "stopping", "closing", "waiting",
               "exited", "failed"}
    /\ Range(names) \subseteq DOMAIN insts
    /\ initialized \subseteq DOMAIN names
    /\ DOMAIN values \subseteq DOMAIN insts
    /\ uses \subseteq (0 .. Len(insts)) \X DOMAIN insts
    /\ closed \subseteq DOMAIN insts
    /\ ticker \in {"none", "select", "load", "ended"}
    /\ second \in {"none", "starting", "listening", "reloading"}
    /\ signals \in 0 .. MaxSignals

(* A server that runs does so with what its files say: every block is in    *)
(* use, every directive has the value it was given, in the block or else    *)
(* globally, and none that is required was left out (map.go:653, mail.go:456). *)
(* A module that a global directive creates, older than all blocks, has     *)
(* nothing to inherit: its globals are nil (mail.go:322).                   *)
GivenIn(nodes, d) == {n \in Range(nodes) : n.name = d}
OfGlobals(obj) == \A b \in Endpoints \cup Range(names) : obj < b
Expected(obj, d) ==
    LET m == Types[insts[obj].type].matchers[d]
        inherits == m.inherit /\ ~OfGlobals(obj)
        own == GivenIn(insts[obj].node.kids, d)
        global == IF inherits THEN GivenIn(ReadFiles(files).nodes, d) ELSE {}
        preset == IF inherits /\ d \in DOMAIN GlobalDirectives
                  THEN {v \in {GlobalDirectives[d].dflt} : v # Zero(m.kind)} ELSE {}
    IN  IF own # {} THEN UNION {Mapped(m, n) : n \in own}
        ELSE IF global # {} THEN UNION {Mapped(m, n) : n \in global}
        ELSE IF preset # {} THEN preset
        ELSE IF m.required THEN {} ELSE {m.dflt}
ConfigHonoured ==
    pc = "running" =>
        \A obj \in DOMAIN insts :
            /\ obj \in DOMAIN values
            /\ \A d \in DOMAIN Types[insts[obj].type].matchers :
                  Types[insts[obj].type].matchers[d].kind \notin ModuleKinds => {values[obj][d]} = Expected(obj, d)

(* A module is closed only after everything that uses it, directly or not,  *)
(* has been: an endpoint stops accepting before its queue and its tables go *)
(* (hooks.go:67, instances.go:95).                                          *)
UsersOf(objs) == {e[1] : e \in {x \in uses : x[2] \in objs}} \ {Globals}
Users(d) ==
    {u \in DOMAIN insts : \A S \in SUBSET DOMAIN insts : UsersOf(S \cup {d}) \subseteq S => u \in S}
UsersClosedFirst ==
    mode = "run" =>
        \A d \in closed : \A u \in Users(d) :
            /\ Types[insts[u].type].closer => u \in closed
            /\ \A l \in serving : l[1] # u

(* A SIGTERM ends the process, whatever reloads and signals come with it    *)
(* (signal.go:55, file.go:184, tls/file.go:111).                            *)
ShutdownEnds == (\E i \in DOMAIN queue.main : queue.main[i] = "TERM") ~> (pc = "exited")

(* While the server runs, a file that is no longer edited is what the table *)
(* serves in the end (file.go:139).                                         *)
TableCatchesUp == <>[](Served \/ ~Alive \/ ~Running)

------------------------------------------------------------------------------
(* With a Stat that fails ShutdownEnds does not hold: Close waits for the   *)
(* reloader that is gone (file.go:148).  With a file put back with its old  *)
(* time TableCatchesUp does not: it is never read (file.go:150).            *)
StatSpec == Init /\ [][Next \/ (Up /\ StatFails /\ Others)]_vars /\ Fairness
RestoreSpec == Init /\ [][Next \/ (pc = "running" /\ Restore /\ Others)]_vars /\ Fairness

(* Not so in the code: a reference never hands out a module whose Init has  *)
(* not returned.  "Break circular dependencies" (instances.go:85) does.     *)
ReadyWhenUsed ==
    \A e \in uses : \/ e[2] \in DOMAIN values
                    \/ \E i, j \in DOMAIN stack : i < j /\ stack[i].obj = e[1] /\ stack[j].obj = e[2]
                    \/ pc = "failed"
(* Not so in the code: the second SIGTERM forces the shutdown (signal.go:62 *)
(* promises it); a reload that waits for a closed table swallows it.        *)
NextSignalForces == (second = "reloading" /\ Len(queue.second) > 0) ~> (second # "reloading")
==============================================================================
