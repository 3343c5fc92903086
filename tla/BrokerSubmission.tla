-------------------------- MODULE BrokerSubmission --------------------------
(***************************************************************************)
(* The crash-safe submission of one summary stage to the inference broker: *)
(* BrokerSubmissionCoordinator (app/services/broker_submission.py), the    *)
(* broker branch of the summary stage and the GET-only reconciliation of   *)
(* quarantined stages (app/services/pipeline.py), under the execution lock *)
(* (app/services/execution_lock.py).                                       *)
(*                                                                         *)
(* `row' is the committed pipeline_stages row, the only thing that         *)
(* survives a crash.  An execution reads it without a row lock, may fetch  *)
(* a transcript or wait for the inference lock of its process, and writes  *)
(* what it made of the row it read; every POST and GET separates two more  *)
(* steps.  A crash, another execution and the broker itself may act in     *)
(* between.  The broker is external: it keeps one task per idempotency     *)
(* key.                                                                    *)
(*                                                                         *)
(* A transcript that fits the model is one operation; a longer one is a    *)
(* persisted plan of PlanLength partial summaries and a final one.         *)
(***************************************************************************)
EXTENDS Integers, Sequences, SummaryFailurePolicy

CONSTANTS
    Worker,         \* processes that may execute the pipeline
    MaxAttempts,    \* pipeline_stages.max_attempts
    PlanLength,     \* partial summaries of the plan; 0 when none is needed
    MaxCrashes,     \* bound: crashes of a working process
    None            \* no task, no key, no lock holder

Step  == 0 .. PlanLength
Epoch == 0 .. MaxAttempts

\* broker_idempotency_key: a stage's operations and generations have distinct
\* keys, and nothing else enters the key.  A task is named by the key it was
\* created under.
Key == [step : Step, epoch : Epoch]

ASSUME ConstantsAssumption ==
    /\ MaxAttempts \in Nat \ {0}
    /\ PlanLength \in Nat
    /\ MaxCrashes \in Nat
    /\ None \notin Key
    /\ None \notin Worker

VARIABLES
    row,        \* the committed row of the stage
    summary,    \* videos.summary: the task whose result was published
    lock,       \* holder of the PostgreSQL advisory lock
    sess,       \* per worker: where its execution is, and what it holds
    task,       \* the broker's tasks, by key
    posts,      \* per key, the POSTs issued: none, one or more (history)
    crashes     \* crashes so far (bound)

vars == <<row, summary, lock, sess, task, posts, crashes>>

-----------------------------------------------------------------------------
(* The shape of the state.                                                 *)

Status == {"pending", "pending_retry", "completed", "failed"}

Reconciliation ==
    {"none", "submission_prepared", "submission_accepted",
     "awaiting_operator_resolution", "get_eligible"}

\* planned, next: broker_chunk_plan and its next_step.  backoff: next_attempt_at
\* or next_reconcile_at lies in the future.
Row == [status : Status, attempts : Nat, epoch : Epoch, history : Seq(Epoch),
        planned : BOOLEAN, next : Step, task : Key \union {None},
        key : Key \union {None}, recon : Reconciliation,
        quarantined : BOOLEAN, backoff : BOOLEAN]

\* What a task of the broker may end as: a usable summary, an output that fails
\* validation, a failure the broker classifies, a cancellation (or expiry).
TaskEnd == {"succeeded", "unusable", "transient_safe", "backend_rejected",
            "indeterminate", "cancelled"}

\* An indeterminate task is one the broker itself cannot vouch for.
Unresolved == {"pending", "indeterminate"}

TaskState == {"absent", "pending"} \union TaskEnd

\* What the gateway returned or raised.  An error carries the code and class the
\* policy sees, whether a task ID came with it, and whether it is a confirmed
\* `failed' task.
Answer(kind) ==
    [kind |-> kind, code |-> "none", class |-> "none", id |-> FALSE,
     confirmed |-> FALSE]

Error(code, class, id, confirmed) ==
    [kind |-> "error", code |-> code, class |-> class, id |-> id,
     confirmed |-> confirmed]

NoReply  == Answer("none")
Accepted == Answer("accepted")
Result   == Answer("result")

\* POST errors that leave it open whether a task exists.
AmbiguousPostErrors ==
    {Error(c, "none", FALSE, FALSE) :
        c \in {"broker_transport_error", "broker_timeout",
               "broker_location_invalid", "broker_task_indeterminate"}}

\* POST answered with a problem document (or with one that cannot be read).
RefusedPostErrors ==
    {Error(c, "none", FALSE, FALSE) :
        c \in {"broker_unauthorized", "broker_invalid_request",
               "broker_protocol_error"}}

\* A valid Location with an envelope that does not validate.
MalformedPostError == Error("broker_protocol_error", "none", TRUE, FALSE)

\* Raised before the request leaves the process: the content is too large, or
\* the deadline of the plan has passed.
UnsentErrors ==
    {Error("broker_input_too_large", "none", FALSE, FALSE)}
    \union IF PlanLength > 0
           THEN {Error("broker_timeout", "indeterminate", FALSE, FALSE)}
           ELSE {}

\* GET errors that say nothing about the task.
GetErrors ==
    {Error(c, "none", TRUE, FALSE) :
        c \in {"broker_transport_error", "broker_protocol_error",
               "broker_unauthorized"}}

DeadlineError == Error("broker_timeout", "indeterminate", TRUE, FALSE)

\* Mutant: an output that does not validate is taken for a result.
TaskAnswer_OutputNotValidated(s) ==
    CASE s \in {"succeeded", "unusable"} -> {Result}
      [] s = "cancelled"  -> {Error("task_cancelled", "terminal", TRUE, FALSE)}
      [] s \in {"transient_safe", "backend_rejected", "indeterminate"} ->
                             {Error("backend_error", s, TRUE, TRUE)}
      [] OTHER            -> {}

\* What a GET of a task in state s answers; a pending task answers nothing.
TaskAnswer(s) ==
    CASE s = "succeeded"  -> {Result}
      [] s = "unusable"   -> {Error("broker_output_incomplete", "none", TRUE, FALSE)}
      [] s = "cancelled"  -> {Error("task_cancelled", "terminal", TRUE, FALSE)}
      [] s \in {"transient_safe", "backend_rejected", "indeterminate"} ->
                             {Error("backend_error", s, TRUE, TRUE)}
      [] OTHER            -> {}

Reply ==
    {NoReply, Accepted, Result, MalformedPostError, DeadlineError}
    \union AmbiguousPostErrors \union RefusedPostErrors \union UnsentErrors
    \union GetErrors \union UNION {TaskAnswer(s) : s \in TaskEnd}

\* out         not executing
\* reconciling, draining, done    the passes of one execution
\* taken, planning, residue       stage read; to be prepared, planned, held
\* prepared    key committed, POST not issued      replied  POST answered
\* accepted    task ID committed, polling          polled   GET answered
\* loop        between two steps of the plan
Reading == {"taken", "planning", "residue"}

Phase == {"out", "reconciling", "draining", "done", "prepared", "replied",
          "accepted", "polled", "loop"} \union Reading

\* read: the row as the execution has read it, until it has written it.
Session == [pc : Phase, key : Key \union {None}, reply : Reply,
            read : Row \union {None}]

Outside == [pc |-> "out", key |-> None, reply |-> NoReply, read |-> None]

\* The execution has written the row and is through with it.
Finished == [Outside EXCEPT !.pc = "done"]

Goto(w, pc) == sess' = [sess EXCEPT ![w].pc = pc]

GotoWith(w, pc, reply) == sess' = [sess EXCEPT ![w].pc = pc, ![w].reply = reply]

-----------------------------------------------------------------------------
(* One execution at a time: ExecutionLock.                                 *)

\* A poll reconciles, then drains; the other entry points (startup, a Telegram
\* command, reconciliation of missing uploads) only advance the stage.
Start(w) ==
    /\ sess[w].pc = "out"
    /\ lock = None
    /\ lock' = w
    /\ \E pc \in {"reconciling", "draining"} : Goto(w, pc)
    /\ UNCHANGED <<row, summary, task, posts, crashes>>

Release(w) ==
    /\ sess[w].pc = "done"
    /\ sess' = [sess EXCEPT ![w] = Outside]
    /\ lock' = IF lock = w THEN None ELSE lock
    /\ UNCHANGED <<row, summary, task, posts, crashes>>

\* The lock lives on a connection of its own; the worker does not notice.
DropLock(w) ==
    /\ lock = w
    /\ lock' = None
    /\ UNCHANGED <<row, summary, sess, task, posts, crashes>>

Crash(w) ==
    /\ sess[w].pc # "out"
    /\ crashes < MaxCrashes
    /\ crashes' = crashes + 1
    /\ sess' = [sess EXCEPT ![w] = Outside]
    /\ lock' = IF lock = w THEN None ELSE lock
    /\ UNCHANGED <<row, summary, task, posts>>

-----------------------------------------------------------------------------
(* The summary stage: _attempt_summary_stage, broker branch.               *)

\* Mutant: a crash between the prepared marker and the POST is not a residue.
Residue_AcceptedOnly == {"submission_accepted"}

Residue == {"submission_prepared", "submission_accepted"}

\* The stage is selected by the drain and passes the early returns.
Due ==
    /\ row.status \in {"pending", "pending_retry"}
    /\ ~row.quarantined
    /\ ~row.backoff
    /\ summary = None

NothingDue(w) ==
    /\ sess[w].pc = "draining"
    /\ ~Due
    /\ Goto(w, "done")
    /\ UNCHANGED <<row, summary, lock, task, posts, crashes>>

Quarantine(r) ==
    [r EXCEPT !.quarantined = TRUE, !.recon = "awaiting_operator_resolution",
              !.status = "pending_retry", !.backoff = FALSE]

Terminate(r) ==
    [r EXCEPT !.status = "failed", !.recon = "none", !.planned = FALSE,
              !.next = 0, !.backoff = FALSE]

RetryLater(r) ==
    [r EXCEPT !.status = "pending_retry", !.recon = "none", !.backoff = TRUE]

\* The unit of work writes the columns whose value is no longer the one that was
\* read, unconditionally; the others keep what the row has by now.  The plan is
\* one column.
Flush(read, new) ==
    LET Same(f) == IF f \in {"planned", "next"}
                   THEN new.planned = read.planned /\ new.next = read.next
                   ELSE new[f] = read[f]
    IN  [f \in DOMAIN row |-> IF Same(f) THEN row[f] ELSE new[f]]

\* The stage is read, with its generation, before the transcript is fetched and
\* the inference lock waited for.  Within the plan's loop the row is read again;
\* the generation stays the one the loop was entered with.
Take(w) ==
    /\ \/ sess[w].pc = "draining" /\ Due
       \/ sess[w].pc = "loop" /\ row.planned
    /\ LET epoch == IF sess[w].pc = "loop" THEN sess[w].key.epoch ELSE row.epoch
           pc == IF row.recon \in Residue THEN "residue"
                ELSE IF PlanLength > 0 /\ ~row.planned THEN "planning"
                ELSE "taken"
       IN  sess' = [sess EXCEPT ![w] =
                      [pc |-> pc, key |-> [step |-> row.next, epoch |-> epoch],
                       reply |-> NoReply, read |-> row]]
    /\ UNCHANGED <<row, summary, lock, task, posts, crashes>>

\* Mutant: a stage whose task ID was never recorded is left alone.
QuarantineResidue_AcceptedOnly(w) ==
    /\ sess[w].pc = "residue"
    /\ LET read == sess[w].read IN
         row' = IF read.recon = "submission_accepted"
                THEN Flush(read, Quarantine([read EXCEPT !.attempts = @ + 1]))
                ELSE row
    /\ sess' = [sess EXCEPT ![w] = Finished]
    /\ UNCHANGED <<summary, lock, task, posts, crashes>>

\* A residue of a crash is quarantined without a POST or a GET.
QuarantineResidue(w) ==
    /\ sess[w].pc = "residue"
    /\ LET read == sess[w].read IN
         row' = Flush(read, Quarantine([read EXCEPT !.attempts = @ + 1]))
    /\ sess' = [sess EXCEPT ![w] = Finished]
    /\ UNCHANGED <<summary, lock, task, posts, crashes>>

\* build_plan; the plan is committed before the first step is prepared.
PersistPlan(w) ==
    /\ sess[w].pc = "planning"
    /\ LET read == sess[w].read IN
         row' = Flush(read, [read EXCEPT !.planned = TRUE, !.next = 0])
    /\ sess' = [sess EXCEPT ![w].pc = "loop", ![w].read = None]
    /\ UNCHANGED <<summary, lock, task, posts, crashes>>

Abandon(r) ==
    [r EXCEPT !.attempts = @ + 1, !.status = "failed", !.planned = FALSE,
              !.next = 0, !.task = None, !.key = None, !.backoff = FALSE]

\* _record_local_broker_failure: the plan cannot be built, or the final request
\* outgrew the context of the model.
FailLocally(w) ==
    /\ \/ sess[w].pc = "planning"
       \/ sess[w].pc = "taken" /\ PlanLength > 0 /\ sess[w].read.next = PlanLength
    /\ row' = Flush(sess[w].read, Abandon(sess[w].read))
    /\ sess' = [sess EXCEPT ![w] = Finished]
    /\ UNCHANGED <<summary, lock, task, posts, crashes>>

MarkPrepared(r, key) ==
    [r EXCEPT !.attempts = @ + 1, !.key = key, !.recon = "submission_prepared"]

\* The attempt is counted, and its key and the pre-submit marker committed.
Prepare(w) ==
    /\ sess[w].pc = "taken"
    /\ LET read == sess[w].read IN
         row' = Flush(read, MarkPrepared(read, sess[w].key))
    /\ sess' = [sess EXCEPT ![w].pc = "prepared", ![w].read = None]
    /\ UNCHANGED <<summary, lock, task, posts, crashes>>

\* The plan's deadline has come, or another execution has cleared the plan.
LeaveLoop(w) ==
    /\ sess[w].pc = "loop"
    /\ Goto(w, "done")
    /\ UNCHANGED <<row, summary, lock, task, posts, crashes>>

\* The request leaves the process; it may be lost, and so may its answer.
\* A key the broker knows yields the task it already has.
Post(w) ==
    LET key == sess[w].key
        reached == [task EXCEPT ![key] = IF @ = "absent" THEN "pending" ELSE @]
    IN
    /\ sess[w].pc = "prepared"
    /\ \/ /\ task' = reached
          /\ \E reply \in {Accepted, MalformedPostError}
                          \union AmbiguousPostErrors \union RefusedPostErrors :
                GotoWith(w, "replied", reply)
       \/ /\ task' = task
          /\ \E reply \in AmbiguousPostErrors \union RefusedPostErrors :
                GotoWith(w, "replied", reply)
    /\ posts' = [posts EXCEPT ![key] = IF @ < 2 THEN @ + 1 ELSE @]
    /\ UNCHANGED <<row, summary, lock, crashes>>

GiveUpBeforePost(w) ==
    /\ sess[w].pc = "prepared"
    /\ \E reply \in UnsentErrors :
          GotoWith(w, "replied", reply)
    /\ UNCHANGED <<row, summary, lock, task, posts, crashes>>

\* The task ID is committed before the first GET.
RecordAccepted(w) ==
    /\ sess[w].pc = "replied"
    /\ sess[w].reply = Accepted
    /\ row' = [row EXCEPT !.task = sess[w].key, !.key = sess[w].key,
                          !.recon = "submission_accepted"]
    /\ GotoWith(w, "accepted", NoReply)
    /\ UNCHANGED <<summary, lock, task, posts, crashes>>

\* One GET, or the deadline; while the task is pending the loop goes on.
Poll(w) ==
    /\ sess[w].pc = "accepted"
    /\ \E reply \in TaskAnswer(task[sess[w].key]) \union GetErrors
                    \union {DeadlineError} :
          GotoWith(w, "polled", reply)
    /\ UNCHANGED <<row, summary, lock, task, posts, crashes>>

\* _classify: a protocol error that carries a task ID is post-Location
\* ambiguity; the policy decides every other failure.
DispositionOf(reply, attempts) ==
    IF reply.id /\ reply.code = "broker_protocol_error" THEN "quarantine"
    ELSE Disposition("broker", reply.code, reply.class, attempts, MaxAttempts)

\* What opening a generation writes, and which failures enter the history.
Advance(r) == [r EXCEPT !.epoch = @ + 1, !.task = None, !.key = None]
RecordsEpoch(reply) == reply.confirmed /\ reply.class \in SafeTerminalClasses

\* _apply_outcome on the row r for the submission made under key k.
ApplyOutcome(r, k, reply) ==
    LET disposition == DispositionOf(reply, r.attempts)
        correlated == [r EXCEPT !.task = IF reply.id THEN k ELSE @, !.key = k]
        long == Append(r.history, r.epoch)
        recorded == IF ~RecordsEpoch(reply) THEN correlated
                    ELSE [correlated EXCEPT
                            !.history = IF Len(long) > MaxAttempts
                                        THEN Tail(long) ELSE long]
        advanced ==
            IF CanAdvanceSubmissionEpoch("broker", reply.confirmed, k,
                   recorded.task, reply.class, r.attempts, MaxAttempts,
                   r.epoch, None)
            THEN Advance(recorded)
            ELSE recorded
    IN  CASE disposition = "quarantine" -> Quarantine(advanced)
          [] disposition = "terminal"   -> Terminate(advanced)
          [] disposition = "retry"      -> RetryLater(advanced)

\* A confirmed failure is applied under a row lock, and only while the row still
\* names the task that failed.
Settle(w) ==
    /\ sess[w].pc \in {"replied", "polled"}
    /\ sess[w].reply.kind = "error"
    /\ LET reply == sess[w].reply IN
         row' = IF reply.confirmed /\ row.task # sess[w].key THEN row
                ELSE ApplyOutcome(row, sess[w].key, reply)
    /\ sess' = [sess EXCEPT ![w] = Finished]
    /\ UNCHANGED <<summary, lock, task, posts, crashes>>

LessOne(n) == IF n > 0 THEN n - 1 ELSE 0

Cleared(r) == [r EXCEPT !.recon = "none", !.quarantined = FALSE, !.backoff = FALSE]

\* Mutant: the plan skips a step.
CompletedPart_SkipsStep(r, step) ==
    [Cleared(r) EXCEPT !.status = "pending_retry", !.attempts = LessOne(@),
        !.planned = TRUE, !.next = step + 2, !.task = None, !.key = None]

CompletedPart(r, step) ==
    [Cleared(r) EXCEPT !.status = "pending_retry", !.attempts = LessOne(@),
        !.planned = TRUE, !.next = step + 1, !.task = None, !.key = None]

\* _complete: a partial summary advances the plan and frees the correlation in
\* the transaction that stores it.
CompletePartial(w) ==
    /\ sess[w].pc = "polled"
    /\ sess[w].reply = Result
    /\ sess[w].key.step < PlanLength
    /\ row' = CompletedPart(row, sess[w].key.step)
    /\ GotoWith(w, "loop", NoReply)
    /\ UNCHANGED <<summary, lock, task, posts, crashes>>

CompleteFinal(w) ==
    /\ sess[w].pc = "polled"
    /\ sess[w].reply = Result
    /\ sess[w].key.step = PlanLength
    /\ row' = [Cleared(row) EXCEPT !.status = "completed",
                   !.attempts = IF PlanLength > 0 THEN LessOne(@) ELSE @,
                   !.planned = FALSE, !.next = 0]
    /\ summary' = sess[w].key
    /\ sess' = [sess EXCEPT ![w] = Finished]
    /\ UNCHANGED <<lock, task, posts, crashes>>

-----------------------------------------------------------------------------
(* Quarantine: operator resolution and GET-only reconciliation.            *)

\* Mutant: the operator's release is not what selects the stage.
Reconcilable_Unreleased ==
    /\ row.quarantined
    /\ row.task # None
    /\ row.recon = "awaiting_operator_resolution"
    /\ ~row.backoff

Reconcilable ==
    /\ row.quarantined
    /\ row.task # None
    /\ row.recon = "get_eligible"
    /\ ~row.backoff

\* request_quarantine_reconciliation, itself under the execution lock.
MakeQuarantineGetEligible ==
    /\ lock = None
    /\ row.quarantined
    /\ row.task # None
    /\ row.recon = "awaiting_operator_resolution"
    /\ row' = [row EXCEPT !.recon = "get_eligible", !.backoff = FALSE]
    /\ UNCHANGED <<summary, lock, sess, task, posts, crashes>>

NothingToReconcile(w) ==
    /\ sess[w].pc = "reconciling"
    /\ ~Reconcilable
    /\ Goto(w, "draining")
    /\ UNCHANGED <<row, summary, lock, task, posts, crashes>>

\* The GET says the task is pending, or leaves the outcome indeterminate: a
\* class that is absent counts as indeterminate, whatever the code.
ReconcileLater(w) ==
    /\ sess[w].pc = "reconciling"
    /\ Reconcilable
    /\ \/ task[row.task] = "pending"
       \/ \E reply \in TaskAnswer(task[row.task]) \union GetErrors :
            reply.kind = "error" /\ reply.class \in {"none", "indeterminate"}
    /\ row' = [row EXCEPT !.backoff = TRUE]
    /\ Goto(w, "draining")
    /\ UNCHANGED <<summary, lock, task, posts, crashes>>

ReconcileFailure(w) ==
    /\ sess[w].pc = "reconciling"
    /\ Reconcilable
    /\ \E reply \in TaskAnswer(task[row.task]) :
         reply.kind = "error" /\ reply.class \notin {"none", "indeterminate"}
    /\ row' = [row EXCEPT !.status = "failed", !.quarantined = FALSE,
                          !.recon = "none", !.planned = FALSE, !.next = 0]
    /\ Goto(w, "draining")
    /\ UNCHANGED <<summary, lock, task, posts, crashes>>

\* The plan is changed in place and assigned to the attribute it was read from:
\* old and new value are one object, so the flush finds nothing to write and
\* next_step stays as it was, while the rest of the row is written.
ReconcilePartial(w) ==
    /\ sess[w].pc = "reconciling"
    /\ Reconcilable
    /\ Result \in TaskAnswer(task[row.task])
    /\ row.planned /\ row.next < PlanLength
    /\ row' = [Cleared(row) EXCEPT !.status = "pending_retry",
                   !.attempts = LessOne(@), !.task = None, !.key = None]
    /\ Goto(w, "draining")
    /\ UNCHANGED <<summary, lock, task, posts, crashes>>

ReconcileFinal(w) ==
    /\ sess[w].pc = "reconciling"
    /\ Reconcilable
    /\ Result \in TaskAnswer(task[row.task])
    /\ row.planned => row.next = PlanLength
    /\ row' = [Cleared(row) EXCEPT !.status = "completed",
                   !.attempts = IF row.planned THEN LessOne(@) ELSE @,
                   !.planned = FALSE, !.next = 0]
    /\ summary' = row.task
    /\ Goto(w, "draining")
    /\ UNCHANGED <<lock, task, posts, crashes>>

-----------------------------------------------------------------------------
(* The environment: the clock and the broker.                              *)

BackoffElapses ==
    /\ row.backoff
    /\ row' = [row EXCEPT !.backoff = FALSE]
    /\ UNCHANGED <<summary, lock, sess, task, posts, crashes>>

TaskEnds(k) ==
    /\ task[k] = "pending"
    /\ \E end \in TaskEnd : task' = [task EXCEPT ![k] = end]
    /\ UNCHANGED <<row, summary, lock, sess, posts, crashes>>

\* `llm-broker worker resolve', run by the operator at the broker.
ResolveTask(k) ==
    /\ task[k] = "indeterminate"
    /\ \E end \in {"succeeded", "backend_rejected", "cancelled"} :
          task' = [task EXCEPT ![k] = end]
    /\ UNCHANGED <<row, summary, lock, sess, posts, crashes>>

-----------------------------------------------------------------------------

Init ==
    /\ row = [status |-> "pending", attempts |-> 0, epoch |-> 0,
              history |-> <<>>, planned |-> FALSE, next |-> 0, task |-> None,
              key |-> None, recon |-> "none", quarantined |-> FALSE,
              backoff |-> FALSE]
    /\ summary = None
    /\ lock = None
    /\ sess = [w \in Worker |-> Outside]
    /\ task = [k \in Key |-> "absent"]
    /\ posts = [k \in Key |-> 0]
    /\ crashes = 0

Submission(w) ==
    \/ NothingDue(w) \/ Take(w) \/ QuarantineResidue(w) \/ PersistPlan(w)
    \/ FailLocally(w) \/ Prepare(w) \/ LeaveLoop(w) \/ Post(w)
    \/ GiveUpBeforePost(w) \/ RecordAccepted(w) \/ Poll(w) \/ Settle(w)
    \/ CompletePartial(w) \/ CompleteFinal(w)

ReconcilePass(w) ==
    \/ NothingToReconcile(w) \/ ReconcileLater(w) \/ ReconcileFailure(w)
    \/ ReconcilePartial(w) \/ ReconcileFinal(w)

WorkerStep(w) == Submission(w) \/ ReconcilePass(w) \/ Release(w)

Broker == \E k \in Key : TaskEnds(k) \/ ResolveTask(k)

Next ==
    \/ \E w \in Worker : WorkerStep(w) \/ Start(w) \/ Crash(w)
    \/ MakeQuarantineGetEligible
    \/ BackoffElapses
    \/ Broker

Spec == Init /\ [][Next]_vars

\* The same when the connection of the lock may die under a running execution.
UnreliableNext == Next \/ \E w \in Worker : DropLock(w)

UnreliableSpec == Init /\ [][UnreliableNext]_vars

-----------------------------------------------------------------------------
(* Properties.                                                             *)

TypeOK ==
    /\ row \in Row
    /\ summary \in Key \union {None}
    /\ lock \in Worker \union {None}
    /\ sess \in [Worker -> Session]
    /\ task \in [Key -> TaskState]
    /\ posts \in [Key -> 0 .. 2]
    /\ crashes \in 0 .. MaxCrashes

\* A worker about to POST (_attempt_broker_summary_stage after the prepared
\* commit) finds every earlier task of the stage resolved: no inference of the
\* stage runs twice, whatever crashed, timed out or was reconciled before.
SubmissionIsAlone ==
    \A w \in Worker : sess[w].pc = "prepared" =>
        \A k \in Key : task[k] \notin Unresolved

\* The broker never works on two tasks of one stage at the same time.
AtMostOneUnresolvedTask ==
    \A j, k \in Key :
        task[j] \in Unresolved /\ task[k] \in Unresolved => j = k

\* While the row names a task it is the task of the plan's next step in the
\* current generation, made under the committed key: what is completed or
\* reconciled is stored as the output of the step it was computed for.
CorrelationIsCurrent ==
    row.status \in {"pending", "pending_retry"} /\ row.task # None =>
        /\ row.key = row.task
        /\ row.task = [step |-> row.next, epoch |-> row.epoch]

\* Each key is POSTed at most once ("never re-submitted").
SubmittedOnce == \A k \in Key : posts[k] <= 1

\* Every generation is paid for by a counted attempt, so the epoch stays below
\* the bound of the database constraint although a completed partial summary
\* gives its attempt back.
EpochWithinAttempts == row.epoch <= row.attempts /\ row.epoch < MaxAttempts

\* A stage is completed exactly when a summary was published, and what was
\* published is the usable result of a final operation.
PublishedIsFinalResult ==
    /\ (row.status = "completed") = (summary # None)
    /\ summary # None => task[summary] = "succeeded" /\ summary.step = PlanLength

\* A POST is only ever made of the key that is committed as prepared, by a stage
\* that is not quarantined and has no task (the prepared commit precedes it).
PostOnlyOfPreparedKey ==
    [][\A w \in Worker :
          sess[w].pc = "prepared" /\ sess'[w].pc = "replied" =>
              /\ row.recon = "submission_prepared" /\ row.key = sess[w].key
              /\ ~row.quarantined /\ row.task = None]_vars

\* make_quarantine_get_eligible: a stage held without a task ID stays exactly as
\* it is, whoever executes, crashes or presses buttons.
HeldWithoutTaskStaysHeld ==
    [][row.quarantined /\ row.task = None => row' = row]_vars

\* A new generation opens one at a time, and only over a task the broker has
\* confirmed as failed in a way that is safe to repeat.
NewGenerationOnlyAfterSafeFailure ==
    [][row'.epoch # row.epoch =>
          /\ row'.epoch = row.epoch + 1
          /\ row.task # None /\ task[row.task] = "transient_safe"
          /\ row'.task = None /\ row'.status = "pending_retry"]_vars

\* _apply_outcome ("another worker already handled this terminal task"): however
\* many executions learn that a task failed, its failure opens one generation.
EachFailureOpensOneGeneration ==
    [][row'.epoch # row.epoch =>
          row.task # None /\ row.task.epoch = row.epoch]_vars

\* What the broker's tasks amount to: a task it cannot vouch for may still run.
InferenceState(s) ==
    CASE s = "absent"       -> "never"
      [] s \in Unresolved   -> "running"
      [] s = "succeeded"    -> "usable"
      [] OTHER              -> "useless"

Inferences == INSTANCE SummaryInference WITH
    LastStep <- PlanLength, Generation <- Epoch, NoInference <- None,
    state <- [k \in Key |-> InferenceState(task[k])], published <- summary

\* The whole machinery of keys, markers, quarantine and reconciliation gives at
\* most one inference at a time, no repetition of a usable one, and one
\* published result.
ImplementsInferences == Inferences!Spec

-----------------------------------------------------------------------------
(* Liveness.  The scheduler keeps polling, a started execution runs on, the *)
(* clock advances and the broker ends what it accepted.  MaxCrashes bounds  *)
(* the crashes, the operator owes nothing.                                  *)

AnsweredReconcile(w) ==
    /\ sess[w].pc = "reconciling"
    /\ Reconcilable
    /\ TaskAnswer(task[row.task]) # {}
    /\ ReconcileFailure(w) \/ ReconcilePartial(w) \/ ReconcileFinal(w)

StartPoll(w) == Start(w) /\ sess'[w].pc = "reconciling"

Fairness ==
    /\ \A w \in Worker : WF_vars(WorkerStep(w))
    /\ \A w \in Worker : SF_vars(StartPoll(w))
    /\ \A w \in Worker : SF_vars(AnsweredReconcile(w))
    /\ WF_vars(BackoffElapses)
    /\ \A k \in Key : WF_vars(TaskEnds(k))

FairSpec == Spec /\ Fairness

\* A submission in flight, or left behind by a crash, is eventually settled: no
\* stage stays prepared or accepted.
ResiduesAreSettled == row.recon \in Residue ~> row.recon \notin Residue

\* Once the operator has released a stage whose task succeeded, failed or was
\* cancelled, polling takes it out of quarantine.
ReleasedStageLeavesQuarantine ==
    /\ row.recon = "get_eligible" /\ row.task # None
    /\ task[row.task] \in {"succeeded", "transient_safe", "backend_rejected", "cancelled"}
    ~> ~row.quarantined

-----------------------------------------------------------------------------
(* The inductive invariant behind the safety properties, under the          *)
(* exclusive lock.                                                          *)

Open == row.status \in {"pending", "pending_retry"}

PostReply ==
    {Accepted, MalformedPostError} \union AmbiguousPostErrors
        \union RefusedPostErrors \union UnsentErrors

PollReply ==
    {Result, DeadlineError} \union GetErrors
        \union UNION {TaskAnswer(s) : s \in TaskEnd}

\* Who executes holds the lock.
Exclusive == \A w \in Worker : sess[w].pc # "out" => lock = w

\* Quarantine, marker and status fit together, and a summary is published
\* exactly when the stage is completed.
RowShape ==
    /\ row.quarantined =>
          /\ row.status = "pending_retry"
          /\ row.recon \in {"awaiting_operator_resolution", "get_eligible"}
    /\ ~row.quarantined => row.recon \in {"none"} \union Residue
    /\ row.recon # "none" => Open
    /\ (row.status = "completed") = (summary # None)
    /\ ~row.planned => row.next = 0
    /\ row.planned => PlanLength > 0

\* A marked row carries the key of its next step in its generation, and its
\* attempt has been counted; only a marked row of an open stage names a task.
CorrelationShape ==
    /\ row.recon # "none" =>
          /\ row.key = [step |-> row.next, epoch |-> row.epoch]
          /\ row.planned = (PlanLength > 0)
          /\ row.epoch < row.attempts
    /\ Open /\ row.task # None => row.recon # "none" /\ row.task = row.key
    /\ row.recon = "submission_prepared" => row.task = None
    /\ row.recon = "submission_accepted" => row.task # None
    /\ row.epoch <= row.attempts
    /\ row.epoch < MaxAttempts

\* A working session agrees with the row, what it has read is still the row, and
\* what it holds in its hands was said by the broker about the task as it still is.
SessionAgrees(w) ==
    /\ sess[w].pc \in Reading => sess[w].read = row /\ ~row.backoff
    /\ sess[w].pc \in {"taken", "planning"} =>
          /\ Open /\ row.recon = "none"
          /\ sess[w].key = [step |-> row.next, epoch |-> row.epoch]
    /\ sess[w].pc = "taken" => row.planned = (PlanLength > 0)
    /\ sess[w].pc = "planning" => PlanLength > 0 /\ ~row.planned
    /\ sess[w].pc = "residue" => row.recon \in Residue
    /\ sess[w].pc \in {"prepared", "replied"} => row.recon = "submission_prepared"
    /\ sess[w].pc \in {"accepted", "polled"} => row.recon = "submission_accepted"
    /\ sess[w].pc \in {"prepared", "replied", "accepted", "polled"} =>
          sess[w].key = row.key
    /\ sess[w].pc = "prepared" => \A k \in Key : task[k] \notin Unresolved
    /\ sess[w].pc = "replied" => sess[w].reply \in PostReply
    /\ sess[w].pc = "polled" =>
          /\ sess[w].reply \in PollReply
          /\ sess[w].reply = Result => task[row.key] = "succeeded"
          /\ sess[w].reply.class = "transient_safe" =>
                task[row.key] = "transient_safe"
    /\ sess[w].pc = "loop" =>
          /\ Open /\ row.recon = "none" /\ PlanLength > 0 /\ ~row.backoff
          /\ sess[w].key \in Key /\ sess[w].key.epoch = row.epoch

SessionShape == \A w \in Worker : SessionAgrees(w)

\* The only task of an open stage that may be unresolved is the one the marked
\* row stands for.
Alone ==
    /\ AtMostOneUnresolvedTask
    /\ Open => \A k \in Key : task[k] \in Unresolved =>
                   row.recon # "none" /\ k = row.key

Published ==
    summary # None => task[summary] = "succeeded" /\ summary.step = PlanLength

\* Every step before the next has a usable result, and the next one, if it has,
\* has it in the current generation.
StepsInOrder ==
    Open =>
      /\ \A s \in 0 .. row.next - 1 :
            \E k \in Key : k.step = s /\ task[k] = "succeeded"
      /\ \A k \in Key : task[k] = "succeeded" /\ k.step >= row.next =>
            k = [step |-> row.next, epoch |-> row.epoch]

IInv ==
    /\ TypeOK
    /\ Exclusive
    /\ RowShape
    /\ CorrelationShape
    /\ SessionShape
    /\ Alone
    /\ Published
    /\ StepsInOrder
=============================================================================
