--------------------------- MODULE MCBrokerChunking ---------------------------
(***************************************************************************)
(* Small settings for TLC: pieces of one to five characters.               *)
(***************************************************************************)
EXTENDS BrokerChunking

Setting(context, chunk, overlap, most, tokens, num, den) ==
    [enabled |-> TRUE, context |-> context, chunk |-> chunk, overlap |-> overlap,
     most |-> most, tokens |-> tokens, num |-> num, den |-> den,
     up |-> {}, down |-> {}]

SmallSettings ==
    {Setting(4, 5, 1, 3, 1, 2, 1),    \* the context bounds the pieces
     Setting(3, 3, 2, 4, 1, 1, 1),    \* pieces of one character, no overlap left
     Setting(5, 4, 3, 9, 1, 1, 1),    \* the overlap is cut down
     Setting(6, 4, 1, 4, 2, 5, 4),    \* 1.25 characters per token
     Setting(5, 3, 0, 1, 1, 1, 1),    \* too few pieces allowed
     Setting(5, 3, 3, 1, 1, 1, 1),    \* invalid
     Setting(2, 3, 0, 9, 1, 1, 1),    \* no room for a transcript
     \* two tokens are 10/3 characters and computed as 4; then also 4 as two tokens
     [Setting(5, 5, 1, 3, 2, 5, 3) EXCEPT !.up = {2}],
     [Setting(5, 5, 1, 3, 2, 5, 3) EXCEPT !.up = {2}, !.down = {4}],
     [Setting(4, 5, 1, 3, 1, 1, 1) EXCEPT !.enabled = FALSE]}
=============================================================================
