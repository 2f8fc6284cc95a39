------------------------------- MODULE Server --------------------------------
(***************************************************************************)
(* The process with the parsers it is built with: ReadFiles is Read of     *)
(* ConfigTree and ParsePipeline is ParseRoot of PipelineConfig.            *)
(***************************************************************************)
EXTENDS Process, PipelineConfig

(* What the parser hands to the server is what the files say: imports in    *)
(* place, macros by their last declaration, and of a pipeline the first     *)
(* block with a rule (imports.go:28, parse.go:219, config.go:108 and 219).  *)
Meant == Meaning(files, "main", files["main"], 0)
ConfigMeaning ==
    pc = "init" /\ Len(stack) = 1 /\ Top.obj = Globals /\ Top.at = 1 =>
        /\ Top.kids = Meant
        /\ \A i \in DOMAIN Meant :
              LET lines == SelectSeq(Meant[i].kids, LAMBDA n : n.name \notin {"hostname", "tls", "debug"})
              IN  Meant[i].name = "smtp" /\ ~ParseRoot(lines).err =>
                    \A s, r \in {"a", "b"} : Route(lines, s, r) = Written(lines, s, r)
==============================================================================
