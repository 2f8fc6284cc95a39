------------------------------ MODULE MCLimits -------------------------------
(* Small configurations of Limits. *)
EXTENDS Limits, TLC

CONSTANTS c1, c2, c3, k1, k2

MCIpOf == [c \in Clients |-> IF c = c3 THEN k2 ELSE k1]
MCSourceOf == [c \in Clients |-> IF c = c1 THEN k1 ELSE k2]

Semaphore(n) == [kind |-> "semaphore", max |-> n]
Rate(n) == [kind |-> "rate", max |-> n]

NoopThenTwo == <<Semaphore(0), Semaphore(2)>>
OneSemaphore == <<Semaphore(1)>>
TwoSemaphore == <<Semaphore(2)>>
SemaphoreThenRate == <<Semaphore(1), Rate(1)>>
NoLimits == <<>>
==============================================================================
