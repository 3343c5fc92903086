------------------------ MODULE SummaryFailurePolicy ------------------------
(***************************************************************************)
(* The pure rules that decide what becomes of a failed summary attempt:    *)
(* classify_summary_failure (app/services/summary_failure_policy.py) and   *)
(* can_advance_submission_epoch (app/services/broker_safe_retry.py).       *)
(*                                                                         *)
(* A failure is a stable code and a class; the absent class (None in the   *)
(* code) is "none".  Codes and classes the code does not name behave alike *)
(* and are represented by any other string.                                *)
(***************************************************************************)
EXTENDS Integers

\* Codes after which the broker may or may not hold a task.
QuarantineCodes ==
    {"broker_timeout", "broker_transport_error", "broker_task_indeterminate",
     "broker_location_invalid"}

TerminalCodes ==
    {"broker_output_invalid", "broker_output_incomplete", "broker_task_failed",
     "broker_task_cancelled", "broker_task_expired", "broker_invalid_request",
     "broker_input_too_large", "broker_protocol_error",
     "broker_chunk_plan_invalid", "broker_location_invalid",
     "broker_unauthorized"}

\* SAFE_TERMINAL_CLASSES of broker_safe_retry.py; the same two classes are the
\* transient ones of the policy.
SafeTerminalClasses == {"transient_safe", "transient_unsent"}

RejectedClasses ==
    {"client_invalid", "policy_rejected", "backend_rejected", "output_invalid",
     "internal"}

-----------------------------------------------------------------------------

IsAmbiguous(code, class) ==
    \/ class = "indeterminate"
    \/ class = "none" /\ code \in QuarantineCodes

IsRejected(code, class) ==
    /\ class \notin SafeTerminalClasses
    /\ class \in RejectedClasses \/ code \in TerminalCodes

\* A class this version of the program does not know is held for the operator.
IsUnknownClass(class) ==
    class \notin SafeTerminalClasses \union RejectedClasses
                 \union {"none", "indeterminate"}

\* The order of the tests is the code's: a code may be both a quarantine code
\* and a terminal code, and a class decides before a code does.
Disposition(route, code, class, attempts, maxAttempts) ==
    IF route = "broker" /\ IsAmbiguous(code, class) THEN "quarantine"
    ELSE IF route = "broker" /\ IsRejected(code, class) THEN "terminal"
    ELSE IF route = "broker" /\ IsUnknownClass(class) THEN "quarantine"
    ELSE IF attempts >= 1 /\ attempts >= maxAttempts THEN "terminal"
    ELSE "retry"

\* Mutant: the class of the failure does not matter.
CanAdvanceSubmissionEpoch_AnyClass(route, confirmed, task, current, class, n, max, epoch, none) ==
    /\ route = "broker" /\ confirmed
    /\ task # none /\ task = current
    /\ n < max /\ epoch < max

\* May the stage open a new broker submission generation?  n of max attempts have
\* been made; current is the task the row names.
CanAdvanceSubmissionEpoch(route, confirmed, task, current, class, n, max, epoch, none) ==
    /\ route = "broker"
    /\ confirmed
    /\ task # none
    /\ task = current
    /\ class \in SafeTerminalClasses
    /\ n < max
    /\ epoch < max
=============================================================================
