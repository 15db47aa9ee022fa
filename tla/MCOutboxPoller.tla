--------------------------- MODULE MCOutboxPoller ---------------------------
(***************************************************************************)
(* OutboxPoller for TLC: one poller or all of them; the configurations     *)
(* give the constants.                                                     *)
(***************************************************************************)
EXTENDS OutboxPoller

CONSTANT Spare   \* events that are not written when all pollers run

MCInit == Init /\ replicas \in {Pollers, {CHOOSE p \in Pollers : TRUE}}

MCNext == Next /\ (Single \/ \A e \in Spare : status'[e] = "none")

MCSpec == MCInit /\ [][MCNext]_vars /\ Fairness
=============================================================================
