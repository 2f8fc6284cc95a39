------------------------------ MODULE MCProcess ------------------------------
(***************************************************************************)
(* The server with a few module types of each sort, complete               *)
(* configurations that start, and generated ones that mostly do not.       *)
(***************************************************************************)
EXTENDS Server

CEnvironment == [HOST |-> "mx"]
CDurations == ("1m" :> 60) @@ ("0s" :> 0) @@ ("-1m" :> -60)
CSizes == ("1K" :> 1024) @@ ("1B" :> 1)
CPrefixed == ("tls.loader" :> ("file" :> "tls.loader.file"))
          @@ ("table" :> ("file" :> "table.file") @@ ("static" :> "table.static"))
          @@ ("target" :> ("queue" :> "target.queue"))

CGlobals ==
    [hostname |-> Matcher("string", FALSE, FALSE, <<"">>),
     tls |-> Module("tls", FALSE, FALSE, "", ""),
     debug |-> Matcher("bool", FALSE, FALSE, <<"no">>),
     auth_map_normalize |-> Enum(TRUE, <<"auto">>, {"auto", "noop"}),
     auth_map |-> Module("module", TRUE, FALSE, "table", "table")]

Type(matchers, own, closer, pipeline, iface) ==
    [matchers |-> matchers, own |-> own, endpoint |-> own = "listen", closer |-> closer, pipeline |-> pipeline, ifaces |-> {iface}]
Debug == ("debug" :> Matcher("bool", TRUE, FALSE, <<"no">>))
CTypes ==
    ("smtp" :> Type(Debug @@
        [hostname |-> Matcher("string", TRUE, TRUE, <<"">>),
         tls |-> Module("tls", TRUE, TRUE, "", ""),
         auth_map |-> Module("module", TRUE, FALSE, "table", "table"),
         auth_map_normalize |-> Enum(TRUE, <<"auto">>, {"auto", "noop"}),
         write_timeout |-> Matcher("duration", FALSE, FALSE, <<60>>),
         max_message_size |-> Matcher("size", FALSE, FALSE, <<1024>>),
         max_recipients |-> Matcher("int", FALSE, FALSE, <<"20000">>)], "listen", TRUE, TRUE, "")) @@
    ("target.queue" :> Type(Debug @@
        [target |-> Module("module", FALSE, TRUE, "target", "target"),
         scale |-> Matcher("float", FALSE, FALSE, <<"1">>)], "nothing", TRUE, FALSE, "target")) @@
    ("target.remote" :> Type(Debug @@ [hostname |-> Matcher("string", TRUE, TRUE, <<"">>)], "nothing", TRUE, FALSE, "target")) @@
    ("table.file" :> Type(Debug @@ [file |-> Matcher("string", FALSE, FALSE, <<"">>)], "file", TRUE, FALSE, "table")) @@
    ("table.static" :> Type(Debug, "nothing", FALSE, FALSE, "table")) @@
    ("modifiers" :> Type([replace_rcpt |-> Module("callback", FALSE, FALSE, "table", "table")], "nothing", FALSE, FALSE, "modifiers")) @@
    ("tls.loader.file" :> Type([certs |-> Matcher("string_list", FALSE, FALSE, <<>>)], "certs", TRUE, FALSE, "loader"))

------------------------------------------------------------------------------
One(name, word) == Dir(name, <<Lit(word)>>)
To(name) == Dir("deliver_to", <<Ref(name)>>)
Reject == Dir("reject", <<>>)
Endpoint(kids) == Block("smtp", <<Lit("tcp")>>, kids)
Remote == Block("target.remote", <<Lit("out"), Lit("remote")>>, <<>>)
QueueBlock == Block("target.queue", <<Lit("queue")>>, <<Dir("target", <<Ref("remote")>>)>>)
Aliases == Block("table.file", <<Lit("aliases")>>, <<One("file", "/etc/aliases")>>)
Rewrite == Block("modify", <<>>, <<Dir("replace_rcpt", <<Ref("aliases")>>)>>)

(* Everything: certificates, a table, a queue before the remote target. *)
Full ==
    [main |-> <<MacroDecl("host", <<Env("HOST")>>), Dir("hostname", <<Macro("host")>>), Dir("tls", <<Lit("file")>>),
                Aliases, Remote, QueueBlock, Snippet("routes", <<Rewrite, To("queue")>>),
                Endpoint(<<Import("routes")>>)>>]

(* Rules, with the blocks in a file of their own, TLS off. *)
Routed ==
    [main |-> <<Import("blocks"), Dir("tls", <<Lit("off")>>), One("hostname", "mx"),
                Endpoint(<<Block("source", <<Lit("a")>>, <<Reject>>),
                           Block("source", <<Lit("a"), Lit("b")>>,
                                 <<Block("destination", <<Lit("a")>>, <<To("queue")>>), Block("default_destination", <<>>, <<Reject>>)>>),
                           Block("default_source", <<>>, <<To("out")>>), One("debug", "yes")>>)>>,
     blocks |-> <<Remote, QueueBlock>>]

(* A table the directive brings with it, and a tool's block. *)
Inline ==
    [main |-> <<Dir("tls", <<Lit("off")>>), One("hostname", "mx"), Remote,
                Endpoint(<<Dir("auth_map", <<Lit("static")>>), To("out")>>)>>]

(* A table of the global directives, which inherits none of them. *)
Shared ==
    [main |-> <<Dir("debug", <<>>), Dir("auth_map", <<Lit("static")>>), One("auth_map_normalize", "noop"),
                Dir("tls", <<Lit("off")>>), One("hostname", "mx"), Remote, Endpoint(<<To("out")>>)>>]

(* What is refused late: no endpoint, lines nobody knows, a second 'tls',   *)
(* modules of no name, of no type and of another kind, TLS without          *)
(* certificates.                                                            *)
With(lines) == [main |-> <<Dir("tls", <<Lit("off")>>), One("hostname", "mx")>> \o lines]
Refused ==
    <<With(<<Remote>>), With(<<Block("target.remote", <<Lit("out")>>, <<One("nothing", "x")>>), Endpoint(<<To("out")>>)>>),
      With(<<Dir("tls", <<Lit("off")>>)>>), With(<<Endpoint(<<Dir("deliver_to", <<>>)>>)>>),
      With(<<Endpoint(<<One("deliver_to", "unknown")>>)>>), With(<<Endpoint(<<One("deliver_to", "modifiers")>>)>>),
      With(<<Endpoint(<<One("deliver_to", "queue")>>)>>),
      With(<<Block("smtp", <<Lit("tls")>>, <<Reject>>)>>)>>

(* Variations: lines of the main file and of the endpoint's block. *)
MainLines == <<<<>>, <<One("hostname", "mx")>>, <<One("hostname", "mx"), One("hostname", "my")>>, <<Import("none")>>, <<Import("more")>>,
              <<MacroDecl("w", <<Lit("mx"), Lit("my")>>), MacroDecl("w", <<Macro("w"), Lit("mz")>>), Dir("hostname", <<Macro("w")>>)>>,
              <<Dir("hostname", <<Macro("w")>>), MacroDecl("w", <<Lit("mx")>>)>>>>
Tls == <<<<>>, <<Dir("tls", <<Lit("off")>>)>>, <<Block("tls", <<>>, <<Dir("loader", <<Lit("file")>>)>>)>>>>
EndpointLines ==
    <<<<To("out")>>, <<Import("s"), To("out")>>, <<>>, <<Reject>>,
     <<One("hostname", "mx"), Dir("debug", <<>>), To("out")>>,
     <<Dir("write_timeout", <<Lit("1m"), Lit("1m")>>), One("max_message_size", "1K"), One("auth_map_normalize", "noop"), To("out")>>,
     <<One("write_timeout", "-1m"), To("out")>>,
     <<Dir("write_timeout", <<Lit("1m"), Lit("-1m")>>), To("out")>>,
     <<One("max_recipients", "many"), To("out")>>,
     <<Block("destination", <<Lit("a")>>, <<To("out")>>), Block("destination", <<Lit("b"), Lit("a")>>, <<Reject>>),
       Block("default_destination", <<>>, <<To("remote")>>)>>,
     <<Block("destination", <<Lit("a")>>, <<To("out")>>), To("out")>>,
     <<Block("destination_in", <<Ref("out")>>, <<Reject>>), To("out")>>,
     <<Block("default_source", <<>>, <<Block("reroute", <<>>, <<To("out")>>)>>)>>,
     <<To("unknown")>>, <<Reject, To("out")>>>>
More == <<<<Remote>>, <<Remote, One("hostname", "mx"), Snippet("u", <<Dir("debug", <<>>)>>)>>>>
Varied(l, t, e, m) ==
    [main |-> MainLines[l] \o Tls[t]
              \o <<Snippet("s", <<Dir("debug", <<>>), Import("t")>>), Snippet("t", <<Dir("write_timeout", <<Lit("0s")>>)>>),
                   Remote, Endpoint(EndpointLines[e])>>,
     more |-> More[m]]

(* Every file with the first endpoint, and every endpoint with two files. *)
Varieties ==
    ((1 .. Len(MainLines)) \X (1 .. Len(Tls)) \X {1} \X (1 .. Len(More)))
    \cup ({2, 5} \X {2} \X (1 .. Len(EndpointLines)) \X {1})
CInputs ==
    [x \in {<<0, 0, 0, k>> : k \in 1 .. Len(Refused) + 4} \cup Varieties |->
        IF x[1] = 0 THEN (<<Full, Routed, Inline, Shared>> \o Refused)[x[4]] ELSE Varied(x[1], x[2], x[3], x[4])]

OnlyFull == <<Full>>

(* Two blocks that need each other. *)
Cyclic ==
    <<[main |-> <<Dir("tls", <<Lit("off")>>), One("hostname", "mx"),
                 Block("target.queue", <<Lit("q1")>>, <<Dir("target", <<Ref("q2")>>)>>),
                 Block("target.queue", <<Lit("q2")>>, <<Dir("target", <<Ref("q1")>>)>>), Endpoint(<<To("q1")>>)>>]>>
==============================================================================
