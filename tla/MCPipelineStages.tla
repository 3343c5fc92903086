--------------------------- MODULE MCPipelineStages ---------------------------
(***************************************************************************)
(* Small sets of videos for TLC.                                           *)
(***************************************************************************)
EXTENDS PipelineStages

TheVideo == {1}
NoShort  == {}

TwoVideos == {1, 2}
LastIsShort == {2}
=============================================================================
