-------------------------- MODULE MCTelegramListener --------------------------
(***************************************************************************)
(* Small sets of updates for TLC.                                          *)
(***************************************************************************)
EXTENDS TelegramListener

CommandsAroundOther == {1, 3}
FirstUpdate == {1}
=============================================================================
