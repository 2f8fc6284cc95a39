------------------------------- MODULE MCRemote ------------------------------
EXTENDS Remote, TLC

CONSTANTS d1, d2, r1, r2

RcptDomain == [r \in Rcpts |-> IF r = r1 THEN d1 ELSE d2]
TwoRecords == d1 :> 2 @@ d2 :> 1
Flag(req, over) == [requireTLS |-> req, override |-> over]
PlainOrRequired == {Flag(FALSE, FALSE), Flag(TRUE, FALSE)}
(* Two domains and one message, or two messages to one domain. *)
WideOrLong == {[rcpts |-> {r1, r2}, msgs |-> 1], [rcpts |-> {r1}, msgs |-> 2]}
Wide == {[rcpts |-> {r1, r2}, msgs |-> 1]}
Long == {[rcpts |-> {r1}, msgs |-> 2]}
AllFlags == PlainOrRequired \cup {Flag(FALSE, TRUE), Flag(TRUE, TRUE)}
==============================================================================
