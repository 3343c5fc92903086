----------------------- MODULE MCTelegramCommandQueue -----------------------
(* TelegramCommandQueue for TLC: handlers and videos are interchangeable.  *)
EXTENDS TelegramCommandQueue, TLC

VideoSymmetry == Permutations(Video \ Shorts)
Symmetry == Permutations(Worker) \union VideoSymmetry
=============================================================================
