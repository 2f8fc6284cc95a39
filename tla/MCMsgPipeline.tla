---------------------------- MODULE MCMsgPipeline ----------------------------
EXTENDS MsgPipeline, TLC

CONSTANTS c1, c2, c3, b1, b2, t1, t2, r1, r2, a

OwnChecks == b1 :> <<c3>> @@ b2 :> <<>>
SharedChecks == b1 :> <<c1, c3>> @@ b2 :> <<c2>>

(* Every group with checks of its own, or blocks that repeat the pipeline's *)
(* check; an SMTP or an LMTP source.                                        *)
Setup(src, block, partial) == [global |-> <<c1>>, source |-> src, block |-> block, partial |-> partial]
Apart == {Setup(<<c2>>, OwnChecks, FALSE)}
ApartPartial == {Setup(<<c2>>, OwnChecks, TRUE)}
Shared == {Setup(<<>>, SharedChecks, FALSE)}
SharedPartial == {Setup(<<>>, SharedChecks, TRUE)}
Both == Apart \cup SharedPartial

(* r2 is an alias of another address and of r1. *)
AliasOfTwo == r1 :> <<r1>> @@ r2 :> <<a, r1>>
Same == [x \in {r1, r2, a} |-> <<x>>]
AliasApart == [x \in {r1, r2, a} |-> IF x = a THEN b2 ELSE b1]
AliasToBoth == b1 :> <<t1>> @@ b2 :> <<t1, t2>>
==============================================================================
