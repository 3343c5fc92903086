------------------------------- MODULE MCPolling -------------------------------
(***************************************************************************)
(* Small sets of channels for TLC.                                         *)
(***************************************************************************)
EXTENDS Polling

OneChannel  == {1}
TwoChannels == {1, 2}

NoShort     == {}
SecondShort == {<<1, 2>>}
=============================================================================
