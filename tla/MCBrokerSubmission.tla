------------------------- MODULE MCBrokerSubmission -------------------------
(***************************************************************************)
(* BrokerSubmission for TLC.  Workers are interchangeable.                 *)
(***************************************************************************)
EXTENDS BrokerSubmission, TLC

Workers == Permutations(Worker)
=============================================================================
