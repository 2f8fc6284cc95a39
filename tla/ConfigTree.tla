----------------------------- MODULE ConfigTree ------------------------------
(***************************************************************************)
(* framework/cfgparser: from the directives of a file and of the files it  *)
(* imports to the tree of plain directives the server is started with.     *)
(* Macros are replaced while a file is read, imports of snippets and of    *)
(* other files in passes over the finished tree, environment variables at  *)
(* the end.  The text of a file is given here as nested directives, so     *)
(* words, quotes and line breaks are left out.                             *)
(***************************************************************************)
EXTENDS ConfigNode, Naturals, Sequences, SequencesExt, TLC

CONSTANTS
    MaxNesting,     \* "nesting limit reached", 255 in the code
    MaxExpansion,   \* "hit import expansion limit", 255 in the code
    Environment     \* variable -> value

------------------------------------------------------------------------------
(* Reading a file *)

(* parseContext, and what has been read of the current block. *)
NoContext == [out |-> <<>>, macros |-> <<>>, snips |-> <<>>, err |-> FALSE]
Failed(ctx) == [ctx EXCEPT !.err = TRUE]
Put(f, k, v) == (k :> v) @@ f

(* expandMacros on the arguments; an undefined macro stands for none. *)
ExpandMacros(args, macros) ==
    FlattenSeq([i \in DOMAIN args |->
        IF args[i].is # "macro" THEN <<args[i]>>
        ELSE IF args[i].v \in DOMAIN macros THEN macros[args[i].v] ELSE <<>>])

RECURSIVE ReadNodes(_, _, _)

ReadNode(ctx, n, nesting) ==
    LET inner == IF n.block THEN ReadNodes(ctx, n.kids, nesting + 1) ELSE ctx
        args == ExpandMacros(n.args, ctx.macros)
    IN  CASE ctx.err -> ctx
          [] inner.err -> Failed(ctx)
          [] n.decl = "macro" ->
                IF nesting = 0 /\ n.args # <<>> THEN [ctx EXCEPT !.macros = Put(@, n.name, args)] ELSE Failed(ctx)
          [] n.decl = "snippet" ->
                IF nesting = 0 /\ n.args = <<>> THEN [ctx EXCEPT !.snips = Put(@, n.name, inner.out)] ELSE Failed(ctx)
          [] OTHER -> [ctx EXCEPT !.out = Append(@, [n EXCEPT !.args = args, !.kids = IF n.block THEN inner.out ELSE <<>>])]

(* Directives inside a block see the macros declared before it. *)
ReadNodes(ctx, nodes, nesting) ==
    IF nesting > MaxNesting + 1 THEN Failed(ctx)
    ELSE FoldLeft(LAMBDA c, n : ReadNode(c, n, nesting), [ctx EXCEPT !.out = <<>>], nodes)

------------------------------------------------------------------------------
(* Imports *)

RECURSIVE ReadTree(_, _, _)
RECURSIVE ExpandImports(_, _, _, _)

(* resolveImport: a snippet, else a file, which is read with macros and     *)
(* snippets of its own; its snippets are known to the importer from now on. *)
ResolveImport(ctx, files, name, depth) ==
    IF name \in DOMAIN ctx.snips THEN [ctx EXCEPT !.out = ctx.snips[name]]
    ELSE IF name \notin DOMAIN files THEN Failed(ctx)
    ELSE LET sub == ReadTree(files, name, depth + 1)
         IN  [ctx EXCEPT !.err = sub.err, !.out = sub.out, !.snips = sub.snips @@ @, !.macros = sub.macros @@ @]

(* One child of the tree: done has the children before it. *)
ExpandChild(done, child, files, depth) ==
    LET kids == IF child.block THEN ExpandImports(done, files, child.kids, depth + 1) ELSE [done EXCEPT !.out = <<>>]
        sub == ResolveImport(kids, files, child.args[1].v, depth)
    IN  CASE done.err -> done
          [] kids.err -> Failed(done)
          [] child.name = "import" ->
                IF depth > MaxExpansion \/ Len(child.args) # 1 \/ sub.err THEN Failed(done)
                ELSE [sub EXCEPT !.out = done.out \o @]
          [] OTHER -> [kids EXCEPT !.out = Append(done.out, [child EXCEPT !.kids = kids.out])]

(* Another pass while there was an import in the last one. *)
ExpandImports(ctx, files, nodes, depth) ==
    LET pass == FoldLeft(LAMBDA done, n : ExpandChild(done, n, files, depth), [ctx EXCEPT !.out = <<>>], nodes)
    IN  IF ~pass.err /\ \E i \in DOMAIN nodes : nodes[i].name = "import"
        THEN ExpandImports(pass, files, pass.out, depth + 1)
        ELSE pass

ReadTree(files, name, depth) ==
    LET ctx == ReadNodes(NoContext, files[name], 0)
    IN  IF ctx.err THEN ctx ELSE ExpandImports(ctx, files, ctx.out, depth)

------------------------------------------------------------------------------
(* The environment, and Read *)

(* An unknown variable is removed from the word it is in. *)
RECURSIVE ExpandEnvironment(_)
ExpandEnvironment(nodes) ==
    [i \in DOMAIN nodes |->
        [nodes[i] EXCEPT
            !.args = [j \in DOMAIN @ |->
                IF @[j].is = "env" THEN Lit(IF @[j].v \in DOMAIN Environment THEN Environment[@[j].v] ELSE "") ELSE @[j]],
            !.kids = ExpandEnvironment(@)]]

Read(files) ==
    LET tree == ReadTree(files, "main", 0)
    IN  [err |-> tree.err, nodes |-> ExpandEnvironment(tree.out)]

------------------------------------------------------------------------------
(* What a configuration means, without passes over trees: an import stands  *)
(* for what it names, in place, and a macro for the words last given to it. *)

Latest(nodes, kind, name, before) ==
    LET at == {i \in 1 .. before - 1 : nodes[i].decl = kind /\ nodes[i].name = name}
    IN  IF at = {} THEN 0 ELSE CHOOSE i \in at : \A j \in at : j <= i

(* The words a use at the position p of a file's top level stands for. *)
RECURSIVE Words(_, _, _)
Words(nodes, p, args) ==
    FlattenSeq([k \in DOMAIN args |->
        LET a == args[k]
            decl == Latest(nodes, "macro", a.v, p)
        IN  CASE a.is \in {"lit", "ref"} -> <<a>>
              [] a.is = "env" -> <<Lit(IF a.v \in DOMAIN Environment THEN Environment[a.v] ELSE "")>>
              [] a.is = "macro" -> IF decl = 0 THEN <<>> ELSE Words(nodes, decl, nodes[decl].args)])

(* The meaning of nodes that stand at the position at of the file f (0:     *)
(* each at its own).                                                        *)
RECURSIVE Meaning(_, _, _, _)
Meaning(files, f, nodes, at) ==
    FlattenSeq([i \in DOMAIN nodes |->
        LET n == nodes[i]
            p == IF at = 0 THEN i ELSE at
            target == n.args[1].v
            snippet == Latest(files[f], "snippet", target, Len(files[f]) + 1)
        IN  CASE n.decl # "no" -> <<>>
              [] n.decl = "no" /\ n.name # "import" ->
                    <<[n EXCEPT !.args = Words(files[f], p, @), !.kids = Meaning(files, f, @, p)]>>
              [] n.decl = "no" /\ n.name = "import" ->
                    IF snippet # 0 THEN Meaning(files, f, files[f][snippet].kids, snippet)
                    ELSE Meaning(files, target, files[target], 0)])
==============================================================================
