----------------------------- MODULE MCMobilePush -----------------------------
(***************************************************************************)
(* One device for TLC.                                                     *)
(***************************************************************************)
EXTENDS MobilePush

OneDevice == {1}
=============================================================================
