----------------------------- MODULE ConfigNode ------------------------------
(***************************************************************************)
(* The directives of a configuration (framework/cfgparser, Node): what the *)
(* parser makes and the rest of the program reads.                         *)
(***************************************************************************)

(* An argument: a word, &name, $(macro) or {env:variable}. *)
Lit(v) == [is |-> "lit", v |-> v]
Ref(v) == [is |-> "ref", v |-> v]
Macro(v) == [is |-> "macro", v |-> v]
Env(v) == [is |-> "env", v |-> v]

(* Node; kids is <<>> with an empty block too.  decl tells declarations of  *)
(* macros and snippets from directives.                                     *)
Node(name, args, block, kids) == [decl |-> "no", name |-> name, args |-> args, block |-> block, kids |-> kids]
Dir(name, args) == Node(name, args, FALSE, <<>>)
Block(name, args, kids) == Node(name, args, TRUE, kids)
MacroDecl(name, args) == [Dir(name, args) EXCEPT !.decl = "macro"]
Snippet(name, kids) == [Block(name, <<>>, kids) EXCEPT !.decl = "snippet"]
Import(name) == Dir("import", <<Lit(name)>>)
==============================================================================
