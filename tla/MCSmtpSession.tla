---------------------------- MODULE MCSmtpSession ----------------------------
EXTENDS SmtpSession, TLC

CONSTANTS d1, Upper

(* One domain, written in its canonical form and in another, and the null sender. *)
DomainForms == {Null, d1, Upper}
LowerCase == [d \in DomainForms |-> IF d = Upper THEN d1 ELSE d]

Endpoint(defer, async) == [deferReject |-> defer, asyncClose |-> async]
Eager == {Endpoint(FALSE, FALSE)}
Deferred == {Endpoint(TRUE, FALSE)}
DeferredClosing == {Endpoint(TRUE, TRUE)}
EagerOrClosing == Eager \cup DeferredClosing

Symmetry == Permutations(Sessions) \cup Permutations(Rcpts)
==============================================================================
