-------------------------- MODULE SummaryInference --------------------------
(***************************************************************************)
(* What the broker route promises about one video: inferences run one at a *)
(* time, in the order of the plan, a step is repeated only after an        *)
(* inference of it that is known to be useless, and one usable result of   *)
(* the last step is published, once.                                       *)
(*                                                                         *)
(* Nothing is said of rows, keys, POSTs, markers or crashes: this is the   *)
(* specification BrokerSubmission implements.                              *)
(***************************************************************************)
EXTENDS Integers

CONSTANTS
    LastStep,       \* the plan's steps are 0 .. LastStep
    Generation,     \* how often a step may be repeated
    NoInference     \* nothing is published

Inference == [step : 0 .. LastStep, epoch : Generation]

VARIABLES
    state,      \* of every possible inference
    published   \* the inference whose result the video shows

vars == <<state, published>>

Init ==
    /\ state = [i \in Inference |-> "never"]
    /\ published = NoInference

\* Nothing runs and nothing is published; every earlier step has a usable
\* result, this one has none.
Begin(i) ==
    /\ state[i] = "never"
    /\ published = NoInference
    /\ \A j \in Inference :
          /\ state[j] # "running"
          /\ j.step = i.step => state[j] # "usable"
    /\ \A s \in 0 .. i.step - 1 :
          \E j \in Inference : j.step = s /\ state[j] = "usable"
    /\ state' = [state EXCEPT ![i] = "running"]
    /\ UNCHANGED published

End(i) ==
    /\ state[i] = "running"
    /\ \E s \in {"usable", "useless"} : state' = [state EXCEPT ![i] = s]
    /\ UNCHANGED published

Publish(i) ==
    /\ published = NoInference
    /\ state[i] = "usable"
    /\ i.step = LastStep
    /\ published' = i
    /\ UNCHANGED state

Next == \E i \in Inference : Begin(i) \/ End(i) \/ Publish(i)

Spec == Init /\ [][Next]_vars
=============================================================================
