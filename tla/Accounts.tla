------------------------------ MODULE Accounts ------------------------------
(***************************************************************************)
(* What stands behind the endpoints and the pipeline for a local user:     *)
(* logging in (Auth), the deliveries into the mailboxes (Storage), the     *)
(* news of them that crosses processes (UpdatePipe), and the downstream    *)
(* server a message may be relayed to instead (Downstream).  The four      *)
(* share no state, so a behaviour is one of one of them, and the others    *)
(* rest.                                                                   *)
(***************************************************************************)
EXTENDS Auth, Storage, UpdatePipe, Downstream

VARIABLE part  \* which of the four moves

vars == <<part, authVars, storeVars, pipeVars, relayVars>>

AuthRests == AuthInit /\ lcfg = CHOOSE c \in LoginCfgs : TRUE
PipeRests == PipeInit /\ driver = "sqlite3"
RelayRests == RelayInit /\ rcfg = CHOOSE c \in RelayCfgs : TRUE

Init ==
    \/ part = "login" /\ AuthInit /\ StoreInit /\ PipeRests /\ RelayRests
    \/ part = "store" /\ AuthRests /\ StoreInit /\ PipeRests /\ RelayRests
    \/ part = "pipe" /\ AuthRests /\ StoreInit /\ PipeInit /\ RelayRests
    \/ part = "relay" /\ AuthRests /\ StoreInit /\ PipeRests /\ RelayInit

Next ==
    \/ part = "login" /\ AuthNext /\ UNCHANGED <<part, storeVars, pipeVars, relayVars>>
    \/ part = "store" /\ StoreNext /\ UNCHANGED <<part, authVars, pipeVars, relayVars>>
    \/ part = "pipe" /\ PipeNext /\ UNCHANGED <<part, authVars, storeVars, relayVars>>
    \/ part = "relay" /\ RelayNext /\ UNCHANGED <<part, authVars, storeVars, pipeVars>>

Spec == Init /\ [][Next]_vars /\ AuthFair /\ StoreFair /\ PipeFair

\* A message is settled wherever it goes: stored once in each account that an
\* accepted recipient maps to, and in no other, or relayed with a truthful
\* answer for every recipient and no connection left behind (delivery.go,
\* smtp_downstream.go; see StoredOnce and RelaySettled).
MessagesSettled == StoredOnce /\ RelaySettled
=============================================================================
