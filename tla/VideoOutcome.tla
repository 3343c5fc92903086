----------------------------- MODULE VideoOutcome -----------------------------
(***************************************************************************)
(* What the pipeline promises the user about each video: the chat is told  *)
(* its summary or that there is none, and what it was told stands.  Only a *)
(* delay, the notice that the summary waits for the operator, may be       *)
(* followed by the summary.                                                *)
(*                                                                         *)
(* Nothing is said of stages, attempts, sessions or crashes: this is the   *)
(* specification PipelineStages implements.                                *)
(***************************************************************************)
CONSTANT Video

VARIABLE told       \* of each video, what the program has on record

Outcome == {"nothing", "summary", "failure", "delay"}

Init == told = [v \in Video |-> "nothing"]

Tell(v) ==
    /\ told[v] = "nothing"
    /\ \E o \in Outcome \ {"nothing"} : told' = [told EXCEPT ![v] = o]

FollowDelay(v) ==
    /\ told[v] = "delay"
    /\ told' = [told EXCEPT ![v] = "summary"]

Next == \E v \in Video : Tell(v) \/ FollowDelay(v)

Spec == Init /\ [][Next]_told
=============================================================================
