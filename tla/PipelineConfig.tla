--------------------------- MODULE PipelineConfig ----------------------------
(***************************************************************************)
(* internal/msgpipeline/config.go: from the directives of a pipeline to    *)
(* the blocks a message is routed with.  A matching rule is a word; rules  *)
(* that normalisation or validation refuses are the ones in BadRules.      *)
(***************************************************************************)
EXTENDS ConfigTree

CONSTANT BadRules

(* A parsed part: refs are the modules it names, in the order they are      *)
(* created; rcptBlock keeps its targets and whether it rejects.             *)
ParseError == [err |-> TRUE, refs |-> <<>>, blk |-> <<>>]
Parsed(refs, blk) == [err |-> FALSE, refs |-> refs, blk |-> blk]
Named(nodes, names) == SelectSeq(nodes, LAMBDA n : n.name \in names)
Handling == {"deliver_to", "reroute", "reject"}

(* parseRejectDirective: code and enhanced code start with 4 or 5. *)
ParseReject(n) == Len(n.args) <= 3 /\ \A i \in DOMAIN n.args : n.args[i].v \notin BadRules

RECURSIVE ParseRoot(_)

(* parseMsgPipelineRcptCfg, one directive at a time. *)
ParseRcptNode(acc, n) ==
    CASE acc.err -> acc
      [] n.name \in {"check", "modify"} -> [acc EXCEPT !.refs = Append(@, n)]
      [] n.name = "deliver_to" ->
            IF acc.blk.reject \/ n.args = <<>> THEN ParseError
            ELSE [acc EXCEPT !.refs = Append(@, n), !.blk.targets = Append(@, n)]
      [] n.name = "reroute" ->
            LET sub == ParseRoot(n.kids)
            IN  IF n.kids = <<>> \/ sub.err THEN ParseError
                ELSE [acc EXCEPT !.refs = @ \o sub.refs, !.blk.targets = Append(@, n)]
      [] n.name = "reject" ->
            IF acc.blk.targets # <<>> \/ ~ParseReject(n) THEN ParseError ELSE [acc EXCEPT !.blk.reject = TRUE]
      [] OTHER -> ParseError

ParseRcpt(nodes) == FoldLeft(ParseRcptNode, Parsed(<<>>, [targets |-> <<>>, reject |-> FALSE]), nodes)

(* The rule blocks of a level: the first block a rule appears in has it. *)
AddRulesAgain(acc, n, sub) ==
    IF sub.err \/ n.args = <<>> THEN ParseError
    ELSE [acc EXCEPT !.refs = @ \o sub.refs,
                     !.blk.rules = [r \in {n.args[i].v : i \in DOMAIN n.args} |-> sub.blk] @@ @]
AddRules(acc, n, sub) ==
    IF sub.err \/ n.args = <<>> \/ \E i \in DOMAIN n.args : n.args[i].v \in BadRules THEN ParseError
    ELSE [acc EXCEPT !.refs = @ \o sub.refs,
                     !.blk.rules = @ @@ [r \in {n.args[i].v : i \in DOMAIN n.args} |-> sub.blk]]

(* A block whose rules are the entries of a table. *)
AddTable(acc, n, sub) ==
    IF sub.err \/ n.args = <<>> THEN ParseError
    ELSE [acc EXCEPT !.refs = Append(@, Dir("table", n.args)) \o sub.refs,
                     !.blk.tables = Append(@, [table |-> n.args, blk |-> sub.blk])]

NoRules == [rules |-> <<>>, tables |-> <<>>, dflt |-> <<>>]

(* parseMsgPipelineSrcCfg *)
ParseSourceNode(acc, n) ==
    CASE acc.err -> acc
      [] n.name \in {"check", "modify"} -> [acc EXCEPT !.refs = Append(@, n)]
      [] n.name = "destination" -> AddRules(acc, n, ParseRcpt(n.kids))
      [] n.name = "destination_in" -> AddTable(acc, n, ParseRcpt(n.kids))
      [] n.name \in {"default_destination"} \cup Handling -> acc
      [] OTHER -> ParseError

(* The directives the default of a level is parsed from, after its other    *)
(* blocks: the ones that stand there bare if there are no rules, else those *)
(* of the default block.                                                    *)
DefaultBody(acc, nodes, name, bare) ==
    LET dflts == Named(nodes, {name})
        body == IF dflts = <<>> THEN <<>> ELSE Last(dflts).kids
        others == Named(nodes, bare)
        plain == DOMAIN acc.blk.rules = {} /\ body = <<>>
    IN  [err |-> \/ \E i \in 1 .. Len(dflts) - 1 : dflts[i].block
                 \/ IF plain THEN others = <<>> ELSE others # <<>> \/ body = <<>>,
         nodes |-> IF plain THEN others ELSE body]

ParseSource(nodes) ==
    LET acc == FoldLeft(ParseSourceNode, Parsed(<<>>, NoRules), nodes)
        body == DefaultBody(acc, nodes, "default_destination", Handling)
        last == ParseRcpt(body.nodes)
    IN  IF acc.err \/ body.err \/ last.err THEN ParseError
        ELSE [acc EXCEPT !.refs = @ \o last.refs, !.blk.dflt = last.blk]

(* parseMsgPipelineRootCfg *)
ParseRootNode(acc, n) ==
    CASE acc.err -> acc
      [] n.name \in {"check", "modify"} -> [acc EXCEPT !.refs = Append(@, n)]
      [] n.name = "source" -> AddRules(acc, n, ParseSource(n.kids))
      [] n.name = "source_in" -> AddTable(acc, n, ParseSource(n.kids))
      [] n.name = "dmarc" -> IF Len(n.args) = 1 /\ n.args[1].v \notin {"yes", "no"} THEN ParseError ELSE acc
      [] n.name \in {"default_source", "destination_in", "destination", "default_destination"} \cup Handling -> acc
      [] OTHER -> ParseError

ParseRoot(nodes) ==
    LET acc == FoldLeft(ParseRootNode, Parsed(<<>>, NoRules), nodes)
        body == DefaultBody(acc, nodes, "default_source",
                            {"destination_in", "destination", "default_destination"} \cup Handling)
        last == ParseSource(body.nodes)
    IN  IF acc.err \/ body.err \/ last.err THEN ParseError
        ELSE [acc EXCEPT !.refs = @ \o last.refs, !.blk.dflt = last.blk]

------------------------------------------------------------------------------
(* Routing by the parsed blocks, and by the text: the first block with the  *)
(* rule, else the default block, else the directives of the level itself.   *)

Pick(blk, rule) == IF rule \in DOMAIN blk.rules THEN blk.rules[rule] ELSE blk.dflt
Route(nodes, sender, rcpt) == Pick(Pick(ParseRoot(nodes).blk, sender), rcpt).targets

Holders(nodes, name, rule) == SelectSeq(nodes, LAMBDA n : n.name = name /\ \E i \in DOMAIN n.args : n.args[i].v = rule)
Chosen(nodes, name, dflt, rule) ==
    LET named == Holders(nodes, name, rule)
        dflts == Named(nodes, {dflt})
    IN  IF named # <<>> THEN named[1].kids ELSE IF dflts # <<>> THEN dflts[1].kids ELSE nodes
Written(nodes, sender, rcpt) ==
    Named(Chosen(Chosen(nodes, "source", "default_source", sender), "destination", "default_destination", rcpt),
          {"deliver_to", "reroute"})
==============================================================================
