----------------------- MODULE BrokerSubmissionProofs -----------------------
(***************************************************************************)
(* Theorems about BrokerSubmission: IInv is an invariant of the            *)
(* specification under the exclusive lock, the safety properties follow    *)
(* from it, and the module implements SummaryInference.                    *)
(*                                                                         *)
(* A lemma says that the action it is named for preserves IInv; it goes    *)
(* through the parts of IInv in their order.  Most actions of a worker     *)
(* are one of a few kinds, which the lemmas QuietMove, QuietStep, BusyMove *)
(* and ClosedRow treat once.                                               *)
(*                                                                         *)
(* The last section is about the keys of a stage that is one operation:    *)
(* KeysSpent adds to IInv which of them may still be posted.               *)
(***************************************************************************)
EXTENDS BrokerSubmission, SequenceTheorems, TLAPS

Quiet == {"out", "reconciling", "draining", "done"}

\* The values the actions write have their types.
LEMMA Values ==
    /\ "pending_retry" \in Status /\ "completed" \in Status
    /\ "failed" \in Status
    /\ "none" \in Reconciliation /\ "submission_prepared" \in Reconciliation
    /\ "submission_accepted" \in Reconciliation
    /\ "get_eligible" \in Reconciliation
    /\ "awaiting_operator_resolution" \in Reconciliation
    /\ 0 \in Step
BY ConstantsAssumption DEF Status, Reconciliation, Step

\* The fields a quarantine and a marked attempt leave behind.
LEMMA QuarantineRow ==
    ASSUME NEW r \in Row
    PROVE  /\ Quarantine(r) \in Row
           /\ Quarantine(r).quarantined /\ Quarantine(r).status = "pending_retry"
           /\ Quarantine(r).recon = "awaiting_operator_resolution"
           /\ Quarantine(r).attempts = r.attempts
           /\ Quarantine(r).epoch = r.epoch /\ Quarantine(r).next = r.next
           /\ Quarantine(r).planned = r.planned
           /\ Quarantine(r).task = r.task /\ Quarantine(r).key = r.key
           /\ Quarantine(r).history = r.history
BY DEF Quarantine, Row, Status, Reconciliation

\* The committed marker of an attempt (attempt, prepared): key, counted attempt, and
\* everything else as it was.
LEMMA MarkedRow ==
    ASSUME NEW r \in Row, NEW k \in Key
    PROVE  /\ MarkPrepared(r, k) \in Row
           /\ MarkPrepared(r, k).recon = "submission_prepared"
           /\ MarkPrepared(r, k).key = k
           /\ MarkPrepared(r, k).attempts = r.attempts + 1
           /\ MarkPrepared(r, k).epoch = r.epoch
           /\ MarkPrepared(r, k).next = r.next
           /\ MarkPrepared(r, k).planned = r.planned
           /\ MarkPrepared(r, k).status = r.status
           /\ MarkPrepared(r, k).quarantined = r.quarantined
           /\ MarkPrepared(r, k).task = r.task
<1>1. r.attempts + 1 \in Nat
  BY DEF Row
<1>2. MarkPrepared(r, k) \in Row
  BY <1>1, Values, ZenonT(60) DEF MarkPrepared, Row
<1> QED
  BY <1>2, SMT DEF MarkPrepared, Row

\* The phases a worker passes through are phases.
LEMMA PhaseNames ==
    /\ "prepared" \in Phase /\ "replied" \in Phase /\ "accepted" \in Phase
    /\ "polled" \in Phase /\ "loop" \in Phase
BY DEF Phase

\* Writing one session leaves the function well-typed and the others alone.
LEMMA OneSession ==
    ASSUME TypeOK, NEW w \in Worker, NEW s \in Session,
           sess' = [sess EXCEPT ![w] = s]
    PROVE  /\ sess' \in [Worker -> Session]
           /\ sess'[w] = s
           /\ \A v \in Worker : v # w => sess'[v] = sess[v]
BY DEF TypeOK

\* Goto moves one session.
LEMMA GotoMoves ==
    ASSUME TypeOK, NEW w \in Worker, NEW p \in Phase, Goto(w, p)
    PROVE  \E s \in Session : s.pc = p /\ sess' = [sess EXCEPT ![w] = s]
<1> DEFINE s == [sess[w] EXCEPT !.pc = p]
<1>1. s \in Session /\ s.pc = p
  BY DEF TypeOK, Session
<1>2. sess' = [sess EXCEPT ![w] = s]
  BY DEF TypeOK, Session, Goto
<1> QED
  BY <1>1, <1>2

\* A session that goes quiet disturbs nothing of the exclusion and holds nothing
\* that could disagree with the row.
LEMMA QuietMove ==
    ASSUME TypeOK, Exclusive, NEW w \in Worker, NEW s \in Session,
           s.pc \in Quiet, sess' = [sess EXCEPT ![w] = s],
           \/ sess[w].pc # "out" /\ lock' = lock
           \/ s.pc = "out" /\ lock' = (IF lock = w THEN None ELSE lock)
           \/ lock = None /\ lock' = w,
           \A v \in Worker : v # w => sess[v].pc = "out"
    PROVE  /\ sess' \in [Worker -> Session]
           /\ Exclusive'
           /\ SessionShape'
<1>1. /\ sess' \in [Worker -> Session]
      /\ sess'[w] = s
      /\ \A v \in Worker : v # w => sess'[v] = sess[v]
  BY OneSession
<1>2. Exclusive'
  BY <1>1 DEF Exclusive, Quiet
<1>3. \A v \in Worker : sess'[v].pc \in Quiet
  BY <1>1 DEF Quiet
<1>4. SessionShape'
  BY <1>3 DEF SessionShape, SessionAgrees, Reading, Quiet
<1> QED
  BY <1>1, <1>2, <1>4

\* The lock excludes.
LEMMA OthersAreOut ==
    ASSUME TypeOK, Exclusive, NEW w \in Worker,
           sess[w].pc # "out" \/ lock = None
    PROVE  \A v \in Worker : v # w => sess[v].pc = "out"
BY ConstantsAssumption DEF Exclusive, TypeOK

\* A step that leaves the row, the summary and the tasks alone.
LEMMA QuietStep ==
    ASSUME IInv, NEW w \in Worker, NEW s \in Session,
           s.pc \in Quiet, sess' = [sess EXCEPT ![w] = s],
           \/ sess[w].pc # "out" /\ lock' = lock
           \/ s.pc = "out" /\ lock' = (IF lock = w THEN None ELSE lock)
           \/ lock = None /\ lock' = w,
           sess[w].pc # "out" \/ lock = None,
           UNCHANGED <<row, summary, task, posts>>, crashes' \in 0 .. MaxCrashes
    PROVE  IInv'
<1>1. /\ sess' \in [Worker -> Session]
      /\ Exclusive'
      /\ SessionShape'
  BY OthersAreOut, QuietMove DEF IInv
<1>2. TypeOK'
  BY <1>1 DEF IInv, TypeOK
<1>3. (RowShape /\ CorrelationShape /\ Alone /\ Published /\ StepsInOrder)'
  BY DEF IInv, RowShape, CorrelationShape, Alone, AtMostOneUnresolvedTask,
         Published, StepsInOrder, Open
<1> QED
  BY <1>1, <1>2, <1>3 DEF IInv

\* A working session moves on and agrees with the row it leaves.
LEMMA BusyMove ==
    ASSUME TypeOK, Exclusive, NEW w \in Worker, NEW s \in Session,
           sess[w].pc # "out", sess' = [sess EXCEPT ![w] = s], lock' = lock,
           SessionAgrees(w)'
    PROVE  /\ sess' \in [Worker -> Session]
           /\ Exclusive'
           /\ SessionShape'
<1>1. /\ sess' \in [Worker -> Session]
      /\ sess'[w] = s
      /\ \A v \in Worker : v # w => sess'[v] = sess[v]
  BY OneSession
<1>2. \A v \in Worker : v # w => sess'[v].pc = "out"
  BY <1>1, OthersAreOut
<1>3. Exclusive'
  BY <1>1, <1>2 DEF Exclusive
<1>4. ASSUME NEW v \in Worker PROVE SessionAgrees(v)'
  <2>1. CASE v = w
    BY <2>1
  <2>2. CASE v # w
    BY <2>2, <1>2 DEF SessionAgrees, Reading
  <2> QED
    BY <2>1, <2>2
<1>5. SessionShape'
  BY <1>4 DEF SessionShape
<1> QED
  BY <1>1, <1>3, <1>5

\* A stage that is closed is in nobody's way.
LEMMA ClosedRow ==
    ASSUME CorrelationShape, AtMostOneUnresolvedTask, task' = task,
           row \in Row, row' \in Row,
           row'.status \in {"failed", "completed"}, row'.recon = "none",
           ~row'.quarantined, row'.epoch = row.epoch,
           row'.epoch <= row'.attempts, ~row'.planned, row'.next = 0,
           (row'.status = "completed") = (summary' # None)
    PROVE  (RowShape /\ CorrelationShape /\ Alone /\ StepsInOrder)'
<1>1. ~Open'
  BY DEF Open
<1>2. RowShape'
  BY DEF RowShape
<1>3. CorrelationShape'
  BY <1>1 DEF CorrelationShape
<1>4. Alone' /\ StepsInOrder'
  BY <1>1 DEF Alone, AtMostOneUnresolvedTask, StepsInOrder
<1> QED
  BY <1>2, <1>3, <1>4

-----------------------------------------------------------------------------
(* Steps that only move a session.                                         *)

\* A worker without work is a well-typed session.
LEMMA OutsideIsSession ==
    /\ Outside \in Session /\ Finished \in Session
    /\ Outside.pc \in Quiet /\ Finished.pc \in Quiet
BY DEF Outside, Finished, Session, Phase, Reading, Reply, NoReply, Answer, Quiet

\* acquire_execution_lock: a call that gets the free lock keeps the invariant.
LEMMA StartStep ==
    ASSUME IInv, NEW w \in Worker, Start(w)
    PROVE  IInv'
<1> USE DEF IInv
<1>1. PICK p \in {"reconciling", "draining"} : Goto(w, p)
  BY DEF Start
<1>2. PICK s \in Session : s.pc = p /\ sess' = [sess EXCEPT ![w] = s]
  BY <1>1, GotoMoves DEF Phase
<1>3. crashes' \in 0 .. MaxCrashes
  BY DEF Start, TypeOK
<1> QED
  BY <1>2, <1>3, QuietStep DEF Start, Quiet

\* A lock holder that ends its work on the stage keeps the invariant.
LEMMA GoingQuiet ==
    ASSUME IInv, NEW w \in Worker, sess[w].pc # "out",
           NEW p \in {"reconciling", "draining", "done"}, Goto(w, p),
           UNCHANGED <<row, summary, lock, task, posts, crashes>>
    PROVE  IInv'
<1> USE DEF IInv
<1>1. PICK s \in Session : s.pc = p /\ sess' = [sess EXCEPT ![w] = s]
  BY GotoMoves DEF Phase
<1>2. crashes' \in 0 .. MaxCrashes
  BY DEF TypeOK
<1> QED
  BY <1>1, <1>2, QuietStep DEF Quiet

\* Leaving the `with' block, or dying, keeps the invariant: what is committed stays
\* a residue or a quarantine.
LEMMA ReleaseStep ==
    ASSUME IInv, NEW w \in Worker, Release(w) \/ Crash(w)
    PROVE  IInv'
<1>1. sess' = [sess EXCEPT ![w] = Outside] /\ sess[w].pc # "out"
  BY DEF Release, Crash
<1>2. Outside \in Session /\ Outside.pc \in Quiet
  BY OutsideIsSession DEF Outside, Quiet
<1>3. crashes' \in 0 .. MaxCrashes
  BY ConstantsAssumption DEF IInv, TypeOK, Release, Crash
<1> QED
  BY <1>1, <1>2, <1>3, QuietStep DEF Release, Crash, Outside

\* A worker that finds nothing to do goes on, and the stage stays as it is.
LEMMA PassiveStep ==
    ASSUME IInv, NEW w \in Worker,
           NothingDue(w) \/ LeaveLoop(w) \/ NothingToReconcile(w)
    PROVE  IInv'
<1>1. sess[w].pc # "out" /\ UNCHANGED <<row, summary, lock, task, posts, crashes>>
  BY DEF NothingDue, LeaveLoop, NothingToReconcile
<1>2. Goto(w, "done") \/ Goto(w, "draining")
  BY DEF NothingDue, LeaveLoop, NothingToReconcile
<1> QED
  BY <1>1, <1>2, GoingQuiet

-----------------------------------------------------------------------------
(* The summary stage.                                                      *)

\* Under the lock nobody has written what the execution has read: the unit of work
\* writes the row as the execution made it.
LEMMA FlushFresh ==
    ASSUME row \in Row, NEW n \in Row
    PROVE  Flush(row, n) = n
<1> DEFINE Same(f) == IF f \in {"planned", "next"}
                      THEN n.planned = row.planned /\ n.next = row.next
                      ELSE n[f] = row[f]
           out == [f \in DOMAIN row |-> IF Same(f) THEN row[f] ELSE n[f]]
<1>1. DOMAIN row = DOMAIN n
  BY DEF Row
<1>2. ASSUME NEW f \in DOMAIN row PROVE out[f] = n[f]
  BY <1>2
<1>3. out = [f \in DOMAIN n |-> n[f]]
  <2> HIDE DEF Same
  <2>1. \A f \in DOMAIN row : (IF Same(f) THEN row[f] ELSE n[f]) = n[f]
    BY <1>2
  <2> QED
    BY <1>1, <2>1
<1>4. n = [f \in DOMAIN n |-> n[f]]
  BY DEF Row
<1>5. Flush(row, n) = out
  BY Zenon DEF Flush
<1> QED
  BY <1>3, <1>4, <1>5

\* A stage about to be attempted has no marker, no task and nothing unresolved.
LEMMA FreshRow ==
    ASSUME IInv, NEW w \in Worker, sess[w].pc \in {"taken", "planning"}
    PROVE  /\ row \in Row /\ sess[w].read = row
           /\ sess[w].key = [step |-> row.next, epoch |-> row.epoch]
           /\ sess[w].key \in Key
           /\ Open /\ ~row.quarantined /\ row.recon = "none" /\ row.task = None
           /\ ~row.backoff
           /\ \A k \in Key : task[k] \notin Unresolved
           /\ sess[w].pc = "taken" => row.planned = (PlanLength > 0)
           /\ sess[w].pc = "planning" => PlanLength > 0 /\ ~row.planned
<1>1. SessionAgrees(w) /\ row \in Row
  BY DEF IInv, SessionShape, TypeOK
<1>2. /\ Open /\ row.recon = "none" /\ sess[w].read = row /\ ~row.backoff
      /\ sess[w].key = [step |-> row.next, epoch |-> row.epoch]
      /\ sess[w].pc = "taken" => row.planned = (PlanLength > 0)
      /\ sess[w].pc = "planning" => PlanLength > 0 /\ ~row.planned
  BY <1>1 DEF SessionAgrees, Reading
<1>3. sess[w].key \in Key
  BY <1>1, <1>2 DEF Row, Key
<1>4. ~row.quarantined
  BY <1>2 DEF IInv, RowShape
<1> QED
  BY <1>1, <1>2, <1>3, <1>4 DEF IInv, CorrelationShape, Alone

\* The read that an attempt starts with.
LEMMA TakeStep ==
    ASSUME IInv, NEW w \in Worker, Take(w)
    PROVE  IInv'
<1> USE ConstantsAssumption DEF IInv
<1>1. row \in Row /\ SessionAgrees(w)
  BY DEF TypeOK, SessionShape
<1>2. /\ sess[w].pc \in {"draining", "loop"} /\ Open /\ ~row.backoff
      /\ sess[w].pc = "loop" => row.recon = "none" /\ row.planned
                                /\ sess[w].key.epoch = row.epoch
      /\ ~row.quarantined
  BY <1>1 DEF Take, Due, Open, SessionAgrees, RowShape
<1> DEFINE epoch == IF sess[w].pc = "loop" THEN sess[w].key.epoch ELSE row.epoch
           pc == IF row.recon \in Residue THEN "residue"
                   ELSE IF PlanLength > 0 /\ ~row.planned THEN "planning"
                   ELSE "taken"
           key == [step |-> row.next, epoch |-> epoch]
           s == [pc |-> pc, key |-> key, reply |-> NoReply, read |-> row]
<1>3. sess' = [sess EXCEPT ![w] = s]
      /\ UNCHANGED <<row, summary, lock, task, posts, crashes>>
  BY DEF Take
<1>4. epoch = row.epoch /\ key \in Key
  BY <1>1, <1>2 DEF Row, Key
<1>5. /\ pc \in Reading
      /\ pc = "residue" => row.recon \in Residue
      /\ pc # "residue" => row.recon = "none"
      /\ pc = "planning" => PlanLength > 0 /\ ~row.planned
      /\ pc = "taken" => (PlanLength > 0 => row.planned)
  <2>1. row.recon \in Residue \/ row.recon = "none"
    BY <1>2 DEF RowShape
  <2>2. CASE row.recon \in Residue
    <3>1. pc = "residue"
      BY <2>2
    <3> QED
      BY <2>2, <3>1 DEF Reading
  <2>3. CASE row.recon \notin Residue /\ PlanLength > 0 /\ ~row.planned
    <3>1. pc = "planning"
      BY <2>3
    <3> QED
      BY <2>1, <2>3, <3>1 DEF Reading
  <2>4. CASE row.recon \notin Residue /\ ~(PlanLength > 0 /\ ~row.planned)
    <3>1. pc = "taken"
      BY <2>4
    <3> QED
      BY <2>1, <2>4, <3>1 DEF Reading
  <2> QED
    BY <2>2, <2>3, <2>4
<1> HIDE DEF pc, epoch
<1>6. s \in Session
  BY <1>1, <1>4, <1>5 DEF Session, Phase, Reply
<1>7. sess'[w] = s /\ s.pc = pc /\ s.key = key /\ s.read = row
  BY <1>3, <1>6, OneSession
<1>8. row.planned => PlanLength > 0
  BY DEF RowShape
<1>9. SessionAgrees(w)'
  <2>1. sess'[w].pc \in Reading /\ sess'[w].read = row' /\ ~row'.backoff
    BY <1>2, <1>3, <1>5, <1>7
  <2>2. sess'[w].pc # "residue" =>
          /\ Open' /\ row'.recon = "none"
          /\ sess'[w].key = [step |-> row'.next, epoch |-> row'.epoch]
    BY <1>2, <1>3, <1>4, <1>5, <1>7 DEF Open
  <2>3. /\ sess'[w].pc = "taken" => row'.planned = (PlanLength > 0)
        /\ sess'[w].pc = "planning" => PlanLength > 0 /\ ~row'.planned
        /\ sess'[w].pc = "residue" => row'.recon \in Residue
    <3>1. row.planned \in BOOLEAN
      BY <1>1 DEF Row
    <3> QED
      BY <1>3, <1>5, <1>7, <1>8, <3>1
  <2> QED
    BY <2>1, <2>2, <2>3 DEF SessionAgrees, Reading
<1>10. sess' \in [Worker -> Session] /\ Exclusive' /\ SessionShape'
  BY <1>2, <1>3, <1>6, <1>9, BusyMove
<1>11. TypeOK'
  BY <1>3, <1>10 DEF TypeOK
<1>12. (RowShape /\ CorrelationShape /\ Alone /\ Published /\ StepsInOrder)'
  BY <1>3 DEF RowShape, CorrelationShape, Alone, AtMostOneUnresolvedTask,
              Published, StepsInOrder, Open
<1> QED
  BY <1>10, <1>11, <1>12

\* What the commit of a quarantined residue writes.
LEMMA ResidueWritten ==
    ASSUME IInv, NEW w \in Worker, QuarantineResidue(w)
    PROVE  /\ row \in Row /\ row.recon \in Residue /\ row' \in Row
           /\ row'.quarantined /\ row'.status = "pending_retry"
           /\ row'.recon = "awaiting_operator_resolution" /\ ~row'.backoff
           /\ row'.attempts = row.attempts + 1
           /\ row'.epoch = row.epoch /\ row'.next = row.next
           /\ row'.planned = row.planned
           /\ row'.task = row.task /\ row'.key = row.key
<1> DEFINE r == [row EXCEPT !.attempts = @ + 1]
<1>1. row \in Row /\ row.recon \in Residue /\ sess[w].read = row
  BY DEF IInv, TypeOK, SessionShape, SessionAgrees, QuarantineResidue, Reading
<1>2. /\ r \in Row
      /\ r.attempts = row.attempts + 1
      /\ r.epoch = row.epoch /\ r.next = row.next
      /\ r.planned = row.planned
      /\ r.task = row.task /\ r.key = row.key
  BY <1>1 DEF Row
<1>3. row' = Flush(row, Quarantine(r))
  BY <1>1 DEF QuarantineResidue
<1> HIDE DEF r
<1>4. row' = Quarantine(r)
  BY <1>1, <1>2, <1>3, QuarantineRow, FlushFresh
<1>5. ~Quarantine(r).backoff
  BY <1>2 DEF Quarantine, Row
<1> QED
  BY <1>1, <1>2, <1>4, <1>5, QuarantineRow

\* What the commit of the plan writes.
LEMMA PlanWritten ==
    ASSUME IInv, NEW w \in Worker, PersistPlan(w)
    PROVE  /\ row' \in Row
           /\ row'.planned /\ row'.next = 0 /\ row'.status = row.status
           /\ row'.recon = row.recon /\ row'.epoch = row.epoch
           /\ row'.attempts = row.attempts /\ row'.task = row.task
           /\ row'.key = row.key /\ row'.quarantined = row.quarantined
           /\ row'.backoff = row.backoff
<1> DEFINE r == [row EXCEPT !.planned = TRUE, !.next = 0]
<1>1. row \in Row /\ sess[w].read = row
  BY FreshRow DEF PersistPlan
<1>2. r \in Row
  BY <1>1, Values, ZenonT(60) DEF Row
<1>3. row' = r
  BY <1>1, <1>2, FlushFresh DEF PersistPlan
<1> QED
  BY <1>1, <1>2, <1>3 DEF Row

\* What the commit of a local failure writes.
LEMMA FailureWritten ==
    ASSUME IInv, NEW w \in Worker, FailLocally(w)
    PROVE  /\ row' \in Row
           /\ row'.status = "failed" /\ row'.recon = "none"
           /\ ~row'.quarantined /\ ~row'.backoff
           /\ row'.epoch = row.epoch /\ row'.attempts = row.attempts + 1
           /\ ~row'.planned /\ row'.next = 0
<1>1. /\ row \in Row /\ sess[w].read = row /\ row.recon = "none"
      /\ ~row.quarantined
  BY FreshRow DEF FailLocally
<1>2. row.attempts + 1 \in Nat
  BY <1>1 DEF Row
<1>3. Abandon(row) \in Row
  BY <1>1, <1>2, Values, ZenonT(60) DEF Abandon, Row
<1>4. row' = Abandon(row)
  BY <1>1, <1>3, FlushFresh DEF FailLocally
<1> QED
  BY <1>1, <1>3, <1>4 DEF Abandon, Row

\* What the commit of the prepared marker writes.
LEMMA MarkerWritten ==
    ASSUME IInv, NEW w \in Worker, Prepare(w)
    PROVE  /\ row' \in Row
           /\ row'.recon = "submission_prepared" /\ row'.key = sess[w].key
           /\ row'.attempts = row.attempts + 1
           /\ row'.epoch = row.epoch /\ row'.next = row.next
           /\ row'.planned = row.planned /\ row'.status = row.status
           /\ ~row'.quarantined /\ row'.task = None
<1>1. /\ row \in Row /\ sess[w].read = row /\ sess[w].key \in Key
      /\ ~row.quarantined /\ row.task = None
  BY FreshRow DEF Prepare
<1>2. row' = Flush(row, MarkPrepared(row, sess[w].key))
  BY <1>1 DEF Prepare
<1>3. row' = MarkPrepared(row, sess[w].key)
  BY <1>1, <1>2, MarkedRow, FlushFresh
<1> QED
  BY <1>1, <1>3, MarkedRow

\* The session that has written what it made of its reading keeps its key and its
\* answer.
LEMMA SessionWrites ==
    ASSUME TypeOK, NEW w \in Worker, NEW p \in Phase,
           sess' = [sess EXCEPT ![w].pc = p, ![w].read = None]
    PROVE  \E s \in Session :
              /\ s.pc = p /\ s.key = sess[w].key
              /\ sess' = [sess EXCEPT ![w] = s]
<1> DEFINE s == [sess[w] EXCEPT !.pc = p, !.read = None]
<1>1. sess[w] \in Session
  BY DEF TypeOK
<1>2. s \in Session /\ s.pc = p /\ s.key = sess[w].key
  BY <1>1 DEF Session
<1>3. sess' = [sess EXCEPT ![w] = s]
  BY <1>1 DEF TypeOK, Session
<1> QED
  BY <1>2, <1>3

\* _attempt_broker_summary_stage: a residue found at entry is quarantined.
LEMMA QuarantineResidueStep ==
    ASSUME IInv, NEW w \in Worker, QuarantineResidue(w)
    PROVE  IInv'
<1> USE ConstantsAssumption DEF IInv
<1>1. sess' = [sess EXCEPT ![w] = Finished] /\ sess[w].pc = "residue"
  BY DEF QuarantineResidue
<1>2. sess' \in [Worker -> Session] /\ Exclusive' /\ SessionShape'
  BY <1>1, OutsideIsSession, OthersAreOut, QuietMove DEF QuarantineResidue
<1>3. row \in Row /\ row.recon \in Residue
  BY ResidueWritten
<1>4. /\ row' \in Row
      /\ row'.quarantined /\ row'.status = "pending_retry"
      /\ row'.recon = "awaiting_operator_resolution"
      /\ row'.attempts = row.attempts + 1
      /\ row'.epoch = row.epoch /\ row'.next = row.next
      /\ row'.planned = row.planned
      /\ row'.task = row.task /\ row'.key = row.key
  BY ResidueWritten
<1>5. Open /\ row.recon # "none" /\ row.status # "completed"
  BY <1>3 DEF RowShape, Residue, Open
<1>6. TypeOK'
  BY <1>2, <1>4 DEF TypeOK, QuarantineResidue
<1>7. RowShape'
  BY <1>3, <1>4, <1>5 DEF RowShape, Open, QuarantineResidue
<1>8. CorrelationShape'
  BY <1>3, <1>4, <1>5 DEF CorrelationShape, Open, Row, Epoch
<1>9. (Alone /\ Published /\ StepsInOrder)'
  BY <1>4, <1>5 DEF Alone, AtMostOneUnresolvedTask, Published, StepsInOrder,
                    Open, QuarantineResidue
<1> QED
  BY <1>2, <1>6, <1>7, <1>8, <1>9

\* The plan is persisted once, before the first submission.
LEMMA PersistPlanStep ==
    ASSUME IInv, NEW w \in Worker, PersistPlan(w)
    PROVE  IInv'
<1> USE ConstantsAssumption DEF IInv
<1>1. /\ row \in Row /\ Open /\ ~row.quarantined /\ row.recon = "none"
      /\ row.task = None /\ ~row.backoff /\ PlanLength > 0 /\ ~row.planned
      /\ sess[w].key \in Key /\ sess[w].key.epoch = row.epoch
  BY FreshRow DEF PersistPlan
<1>2. row.next = 0
  BY <1>1 DEF RowShape
<1>3. /\ row' \in Row
      /\ row'.planned /\ row'.next = row.next /\ row'.status = row.status
      /\ row'.recon = row.recon /\ row'.epoch = row.epoch
      /\ row'.attempts = row.attempts /\ row'.task = row.task
      /\ row'.key = row.key /\ row'.quarantined = row.quarantined
      /\ row'.backoff = row.backoff
  BY <1>2, PlanWritten
<1>4. PICK s \in Session :
         s.pc = "loop" /\ s.key = sess[w].key /\ sess' = [sess EXCEPT ![w] = s]
  BY PhaseNames, SessionWrites DEF PersistPlan
<1>5. sess'[w] = s
  BY <1>4, OneSession
<1>6. SessionAgrees(w)'
  BY <1>1, <1>3, <1>4, <1>5 DEF SessionAgrees, Reading, Open
<1>7. sess' \in [Worker -> Session] /\ Exclusive' /\ SessionShape'
  BY <1>4, <1>6, BusyMove DEF PersistPlan
<1>8. TypeOK'
  BY <1>3, <1>7 DEF TypeOK, PersistPlan
<1>9. (RowShape /\ CorrelationShape)'
  BY <1>1, <1>3 DEF RowShape, CorrelationShape, Open, PersistPlan
<1>10. (Alone /\ Published /\ StepsInOrder)'
  BY <1>1, <1>3 DEF Alone, AtMostOneUnresolvedTask, Published, StepsInOrder,
                    Open, PersistPlan
<1> QED
  BY <1>7, <1>8, <1>9, <1>10

\* _record_local_broker_failure: a failure before any submission.
LEMMA FailLocallyStep ==
    ASSUME IInv, NEW w \in Worker, FailLocally(w)
    PROVE  IInv'
<1> USE ConstantsAssumption DEF IInv
<1>1. row \in Row /\ Open /\ sess[w].pc # "out"
  BY FreshRow DEF FailLocally
<1>2. sess' \in [Worker -> Session] /\ Exclusive' /\ SessionShape'
  BY <1>1, OutsideIsSession, OthersAreOut, QuietMove DEF FailLocally
<1>3. /\ row' \in Row
      /\ row'.status = "failed" /\ row'.recon = "none" /\ ~row'.quarantined
      /\ row'.epoch = row.epoch /\ row'.attempts = row.attempts + 1
      /\ ~row'.planned /\ row'.next = 0
  BY FailureWritten
<1>4. summary' = None /\ row'.epoch <= row'.attempts
  BY <1>1, <1>3 DEF FailLocally, RowShape, Open, CorrelationShape, Row, Epoch
<1>5. (RowShape /\ CorrelationShape /\ Alone /\ StepsInOrder)'
  BY <1>1, <1>3, <1>4, ClosedRow DEF FailLocally, Alone
<1>6. TypeOK' /\ Published'
  BY <1>2, <1>3, <1>4 DEF TypeOK, Published, FailLocally
<1> QED
  BY <1>2, <1>5, <1>6

\* The commit of submission_prepared keeps the invariant: nothing was unresolved.
LEMMA PrepareStep ==
    ASSUME IInv, NEW w \in Worker, Prepare(w)
    PROVE  IInv'
<1> USE ConstantsAssumption DEF IInv
<1>1. /\ row \in Row /\ Open /\ row.recon = "none" /\ row.task = None
      /\ sess[w].key = [step |-> row.next, epoch |-> row.epoch]
      /\ \A k \in Key : task[k] \notin Unresolved
      /\ row.planned = (PlanLength > 0)
      /\ sess[w].pc = "taken"
  BY FreshRow DEF Prepare
<1>2. /\ row' \in Row
      /\ row'.recon = "submission_prepared" /\ row'.key = sess[w].key
      /\ row'.attempts = row.attempts + 1
      /\ row'.epoch = row.epoch /\ row'.next = row.next
      /\ row'.planned = row.planned /\ row'.status = row.status
      /\ ~row'.quarantined /\ row'.task = None
  BY MarkerWritten
<1>3. PICK s \in Session :
         s.pc = "prepared" /\ s.key = sess[w].key /\ sess' = [sess EXCEPT ![w] = s]
  BY PhaseNames, SessionWrites DEF Prepare
<1>4. sess'[w] = s
  BY <1>3, OneSession
<1>5. SessionAgrees(w)'
  BY <1>1, <1>2, <1>3, <1>4 DEF SessionAgrees, Reading, Prepare
<1>6. sess' \in [Worker -> Session] /\ Exclusive' /\ SessionShape'
  BY <1>1, <1>3, <1>5, BusyMove DEF Prepare
<1>7. TypeOK'
  BY <1>2, <1>6 DEF TypeOK, Prepare
<1>8. RowShape'
  BY <1>1, <1>2 DEF RowShape, Residue, Open, Prepare
<1>9. CorrelationShape'
  BY <1>1, <1>2 DEF CorrelationShape, Open, Prepare, Row, Epoch
<1>10. (Alone /\ Published /\ StepsInOrder)'
  BY <1>1, <1>2 DEF Alone, AtMostOneUnresolvedTask, Published, StepsInOrder,
                    Open, Prepare
<1> QED
  BY <1>6, <1>7, <1>8, <1>9, <1>10

-----------------------------------------------------------------------------
(* The POST, its answer and the polls.                                     *)

\* What POST and GET may answer are replies.
LEMMA RepliesAreReplies == PostReply \subseteq Reply /\ PollReply \subseteq Reply
BY DEF PostReply, PollReply, Reply

\* TaskAnswer: only a safe failure is reported as transient_safe, and only a
\* usable output as a result.
LEMMA AnswerMeaning ==
    ASSUME NEW s \in TaskState, NEW reply \in TaskAnswer(s)
    PROVE  /\ reply \in PollReply
           /\ reply = Result => s = "succeeded"
           /\ reply.class = "transient_safe" => s = "transient_safe"
           /\ s \notin {"absent", "pending"}
<1>1. s \in TaskEnd
  BY DEF TaskState, TaskAnswer, TaskEnd
<1>2. reply \in PollReply
  BY <1>1 DEF PollReply
<1>3. reply = Result => s = "succeeded"
  BY DEF TaskAnswer, Result, Answer, Error
<1>4. reply.class = "transient_safe" => s = "transient_safe"
  BY DEF TaskAnswer, Result, Answer, Error
<1> QED
  BY <1>1, <1>2, <1>3, <1>4 DEF TaskEnd

\* An error of the GET itself and the local deadline say nothing of the task.
LEMMA OtherPollReplies ==
    ASSUME NEW reply \in GetErrors \union {DeadlineError}
    PROVE  /\ reply \in PollReply /\ reply # Result
           /\ reply.class # "transient_safe"
BY DEF GetErrors, DeadlineError, PollReply, Result, Answer, Error

\* The worker keeps its key and takes a new phase and a new answer.
LEMMA SessionTakes ==
    ASSUME TypeOK, NEW w \in Worker, NEW p \in Phase, NEW reply \in Reply,
           GotoWith(w, p, reply)
    PROVE  \E s \in Session :
              /\ s.pc = p /\ s.key = sess[w].key /\ s.reply = reply
              /\ sess' = [sess EXCEPT ![w] = s]
<1> DEFINE s == [sess[w] EXCEPT !.pc = p, !.reply = reply]
<1>1. sess[w] \in Session
  BY DEF TypeOK
<1>2. s \in Session /\ s.pc = p /\ s.key = sess[w].key /\ s.reply = reply
  BY <1>1 DEF Session
<1>3. sess' = [sess EXCEPT ![w] = s]
  BY <1>1 DEF TypeOK, Session, GotoWith
<1> QED
  BY <1>2, <1>3

\* _submit_task_response: the POST, whether or not the broker has the task.
LEMMA PostStep ==
    ASSUME IInv, NEW w \in Worker, Post(w)
    PROVE  IInv'
<1> USE ConstantsAssumption DEF IInv
<1> DEFINE key == sess[w].key
<1>1. PICK reply \in PostReply :
         GotoWith(w, "replied", reply)
  BY DEF Post, PostReply
<1>2. reply \in Reply
  BY RepliesAreReplies
<1>3. PICK s \in Session :
         /\ s.pc = "replied" /\ s.key = key /\ s.reply = reply
         /\ sess' = [sess EXCEPT ![w] = s]
  BY <1>1, <1>2, SessionTakes, PhaseNames
<1>4. /\ row.recon = "submission_prepared" /\ key = row.key
      /\ \A k \in Key : task[k] \notin Unresolved
      /\ sess[w].pc = "prepared"
  BY DEF Post, SessionShape, SessionAgrees
<1>5. key = [step |-> row.next, epoch |-> row.epoch] /\ key \in Key
      /\ Open /\ summary = None
  BY <1>4 DEF CorrelationShape, RowShape, TypeOK, Row, Key, Open
<1>6. /\ task' \in [Key -> TaskState]
      /\ \A k \in Key : k # key => task'[k] = task[k]
      /\ task'[key] = "succeeded" => task[key] = "succeeded"
  BY <1>5 DEF Post, TypeOK, TaskState
<1>7. sess'[w] = s
  BY <1>3, OneSession
<1>8. SessionAgrees(w)'
  BY <1>3, <1>4, <1>7 DEF SessionAgrees, Reading, Post
<1>9. sess' \in [Worker -> Session] /\ Exclusive' /\ SessionShape'
  BY <1>3, <1>4, <1>8, BusyMove DEF Post
<1>10. posts' \in [Key -> 0 .. 2]
  BY <1>5 DEF Post, TypeOK
<1>11. TypeOK'
  BY <1>6, <1>9, <1>10 DEF TypeOK, Post
<1>12. (RowShape /\ CorrelationShape /\ Published)'
  BY <1>5 DEF RowShape, CorrelationShape, Published, Open, Post
<1>13. Alone'
  BY <1>4, <1>5, <1>6 DEF Alone, AtMostOneUnresolvedTask, Open, Post
<1>14. StepsInOrder'
  <2>1. \A k \in Key : task[k] = "succeeded" <=> task'[k] = "succeeded"
    BY <1>5, <1>6 DEF Post, TypeOK
  <2> QED
    BY <2>1 DEF StepsInOrder, Open, Post
<1> QED
  BY <1>9, <1>11, <1>12, <1>13, <1>14

\* submit_task: the request is given up before it leaves.
LEMMA GiveUpBeforePostStep ==
    ASSUME IInv, NEW w \in Worker, GiveUpBeforePost(w)
    PROVE  IInv'
<1> USE DEF IInv
<1>1. PICK reply \in UnsentErrors :
         GotoWith(w, "replied", reply)
  BY DEF GiveUpBeforePost
<1>2. reply \in PostReply /\ reply \in Reply
  BY RepliesAreReplies DEF PostReply
<1>3. PICK s \in Session :
         /\ s.pc = "replied" /\ s.key = sess[w].key /\ s.reply = reply
         /\ sess' = [sess EXCEPT ![w] = s]
  BY <1>1, <1>2, SessionTakes, PhaseNames
<1>4. sess'[w] = s
  BY <1>3, OneSession
<1>5. SessionAgrees(w)'
  BY <1>2, <1>3, <1>4 DEF SessionAgrees, Reading, SessionShape, GiveUpBeforePost
<1>6. sess' \in [Worker -> Session] /\ Exclusive' /\ SessionShape'
  BY <1>3, <1>5, BusyMove DEF GiveUpBeforePost
<1>7. TypeOK'
  BY <1>6 DEF TypeOK, GiveUpBeforePost
<1>8. (RowShape /\ CorrelationShape /\ Alone /\ Published /\ StepsInOrder)'
  BY DEF RowShape, CorrelationShape, Alone, AtMostOneUnresolvedTask,
         Published, StepsInOrder, Open, GiveUpBeforePost
<1> QED
  BY <1>6, <1>7, <1>8

\* One poll of the accepted task, answered or not.
LEMMA PollStep ==
    ASSUME IInv, NEW w \in Worker, Poll(w)
    PROVE  IInv'
<1> USE DEF IInv
<1>1. PICK reply \in TaskAnswer(task[sess[w].key]) \union GetErrors
                     \union {DeadlineError} :
         GotoWith(w, "polled", reply)
  BY DEF Poll
<1>2. /\ row.recon = "submission_accepted" /\ sess[w].key = row.key
      /\ row.key \in Key
  BY DEF Poll, SessionShape, SessionAgrees, CorrelationShape, TypeOK, Row, Key
<1>3. task[row.key] \in TaskState
  BY <1>2 DEF TypeOK
<1>4. /\ reply \in PollReply
      /\ reply = Result => task[row.key] = "succeeded"
      /\ reply.class = "transient_safe" => task[row.key] = "transient_safe"
  BY <1>1, <1>2, <1>3, AnswerMeaning, OtherPollReplies
<1>5. reply \in Reply
  BY <1>4, RepliesAreReplies
<1>6. PICK s \in Session :
         /\ s.pc = "polled" /\ s.key = sess[w].key /\ s.reply = reply
         /\ sess' = [sess EXCEPT ![w] = s]
  BY <1>1, <1>5, SessionTakes, PhaseNames
<1>7. sess'[w] = s
  BY <1>6, OneSession
<1>8. SessionAgrees(w)'
  BY <1>2, <1>4, <1>6, <1>7 DEF SessionAgrees, Reading, Poll
<1>9. sess' \in [Worker -> Session] /\ Exclusive' /\ SessionShape'
  BY <1>6, <1>8, BusyMove DEF Poll
<1>10. TypeOK'
  BY <1>9 DEF TypeOK, Poll
<1>11. (RowShape /\ CorrelationShape /\ Alone /\ Published /\ StepsInOrder)'
  BY DEF RowShape, CorrelationShape, Alone, AtMostOneUnresolvedTask,
         Published, StepsInOrder, Open, Poll
<1> QED
  BY <1>9, <1>10, <1>11

\* The commit of submission_accepted with the broker's task id.
LEMMA RecordAcceptedStep ==
    ASSUME IInv, NEW w \in Worker, RecordAccepted(w)
    PROVE  IInv'
<1> USE DEF IInv
<1> DEFINE k == sess[w].key
<1>1. /\ row.recon = "submission_prepared" /\ k = row.key /\ k \in Key
      /\ sess[w].pc = "replied"
  BY DEF RecordAccepted, SessionShape, SessionAgrees, CorrelationShape, TypeOK,
         Row, Key
<1>2. NoReply \in Reply
  BY DEF Reply
<1>3. PICK s \in Session :
         /\ s.pc = "accepted" /\ s.key = k /\ s.reply = NoReply
         /\ sess' = [sess EXCEPT ![w] = s]
  BY <1>2, SessionTakes, PhaseNames DEF RecordAccepted
<1>4. sess'[w] = s
  BY <1>3, OneSession
<1>5. row \in Row
  BY DEF TypeOK
<1>6. row' = [row EXCEPT !.task = k, !.key = k, !.recon = "submission_accepted"]
  BY DEF RecordAccepted
<1>7. k \in Key \union {None}
  BY <1>1
<1>8. row' \in Row
  BY <1>5, <1>6, <1>7, Values, ZenonT(60) DEF Row
<1>9. /\ row'.recon = "submission_accepted" /\ row'.task = k /\ row'.key = k
      /\ row'.epoch = row.epoch /\ row'.next = row.next
      /\ row'.planned = row.planned /\ row'.status = row.status
      /\ row'.quarantined = row.quarantined /\ row'.attempts = row.attempts
  BY <1>5, <1>6 DEF Row
<1>10. SessionAgrees(w)'
  BY <1>3, <1>4, <1>9 DEF SessionAgrees, Reading
<1>11. sess' \in [Worker -> Session] /\ Exclusive' /\ SessionShape'
  BY <1>1, <1>3, <1>10, BusyMove DEF RecordAccepted
<1>12. TypeOK'
  BY <1>8, <1>11 DEF TypeOK, RecordAccepted
<1>13. RowShape'
  BY <1>1, <1>9 DEF RowShape, Residue, Open, RecordAccepted
<1>14. CorrelationShape'
  BY <1>1, <1>9, ConstantsAssumption DEF CorrelationShape, Open, RecordAccepted
<1>15. (Alone /\ Published /\ StepsInOrder)'
  BY <1>1, <1>9 DEF Alone, AtMostOneUnresolvedTask, Published, StepsInOrder,
                    Open, RecordAccepted
<1> QED
  BY <1>11, <1>12, <1>13, <1>14, <1>15

-----------------------------------------------------------------------------
(* A failed submission.                                                    *)

\* No answer to a POST is retried, and none says that the task has failed.
LEMMA PostErrorsAreNotRetried ==
    ASSUME NEW reply \in PostReply, reply.kind = "error", NEW n \in Nat
    PROVE  /\ DispositionOf(reply, n) \in {"quarantine", "terminal"}
           /\ ~reply.confirmed
BY ConstantsAssumption
   DEF PostReply, Accepted, Answer, MalformedPostError, Error,
       AmbiguousPostErrors, RefusedPostErrors, UnsentErrors, DispositionOf,
       Disposition, IsAmbiguous, IsRejected, IsUnknownClass, QuarantineCodes,
       TerminalCodes, SafeTerminalClasses, RejectedClasses

\* A poll is retried exactly when the task has failed safely and attempts are
\* left; every answer to it names the task.
LEMMA PollErrorsRetriedWhenSafe ==
    ASSUME NEW reply \in PollReply, reply.kind = "error", NEW n \in Nat
    PROVE  /\ reply.id
           /\ \/ /\ reply.class = "transient_safe" /\ reply.confirmed
                 /\ reply.class \in SafeTerminalClasses
                 /\ DispositionOf(reply, n) =
                       IF n >= MaxAttempts THEN "terminal" ELSE "retry"
              \/ /\ reply.class \notin SafeTerminalClasses
                 /\ DispositionOf(reply, n) \in {"quarantine", "terminal"}
BY ConstantsAssumption
   DEF PollReply, Result, Answer, DeadlineError, Error, GetErrors, TaskAnswer,
       TaskEnd, DispositionOf, Disposition, IsAmbiguous, IsRejected,
       IsUnknownClass, QuarantineCodes, TerminalCodes, SafeTerminalClasses,
       RejectedClasses

\* c is row with another correlation and history.
Recorrelated(c, k) ==
    /\ c \in Row
    /\ c.status = row.status /\ c.attempts = row.attempts /\ c.epoch = row.epoch
    /\ c.planned = row.planned /\ c.next = row.next /\ c.recon = row.recon
    /\ c.quarantined = row.quarantined
    /\ c.key = k

\* The history is a sequence of epochs, however often it is cut.
LEMMA HistoryKept ==
    ASSUME NEW h \in Seq(Epoch), NEW e \in Epoch
    PROVE  (IF Len(Append(h, e)) > MaxAttempts THEN Tail(Append(h, e))
            ELSE Append(h, e)) \in Seq(Epoch)
<1> DEFINE long == Append(h, e)
<1>1. long \in Seq(Epoch) /\ long # <<>>
  BY AppendProperties
<1>2. Tail(long) \in Seq(Epoch)
  BY <1>1, HeadTailProperties
<1> QED
  BY <1>1, <1>2

\* The three things that can become of the row.
LEMMA SettledRow ==
    ASSUME IInv, NEW w \in Worker, Settle(w)
    PROVE  \E c : /\ Recorrelated(c, row.key)
                  /\ row.key \in Key
                  /\ c.task \in {None, row.key}
                  /\ row.recon \in Residue
                  /\ \/ row' = Quarantine(c)
                     \/ row' = Terminate(c)
                     \/ /\ row' = RetryLater(Advance(c))
                        /\ row.attempts < MaxAttempts
                        /\ row.task = row.key
                        /\ task[row.key] = "transient_safe"
<1> USE DEF IInv
<1> DEFINE k == sess[w].key
           reply == sess[w].reply
           correlated == [row EXCEPT !.task = IF reply.id THEN k ELSE @,
                                     !.key = k]
           long == Append(row.history, row.epoch)
           recorded == [correlated EXCEPT
                          !.history = IF Len(long) > MaxAttempts
                                      THEN Tail(long) ELSE long]
<1>1. /\ row.recon \in Residue /\ k = row.key /\ k \in Key /\ k # None
      /\ row.task \in {None, k}
      /\ row \in Row
  BY ConstantsAssumption
     DEF Settle, SessionShape, SessionAgrees, CorrelationShape, RowShape, TypeOK,
         Row, Key, Residue, Open
<1>2. reply.kind = "error" /\ row.attempts \in Nat /\ row.epoch \in Epoch
      /\ row.history \in Seq(Epoch)
  BY <1>1 DEF Settle, Row
<1>3. correlated \in Row
  <2>1. (IF reply.id THEN k ELSE row.task) \in Key \union {None}
    BY <1>1 DEF Row
  <2> QED
    BY <1>1, <2>1, ZenonT(60) DEF Row
<1>4. Recorrelated(correlated, row.key) /\ correlated.task \in {None, row.key}
  BY <1>1, <1>3 DEF Recorrelated, Row
<1>5. correlated.history = row.history
  BY <1>1, <1>3 DEF Row
<1>6. recorded \in Row
  <2>1. (IF Len(long) > MaxAttempts THEN Tail(long) ELSE long) \in Seq(Epoch)
    BY <1>2, HistoryKept
  <2> HIDE DEF correlated, long
  <2> QED
    BY <1>3, <2>1, ZenonT(60) DEF Row
<1>7. Recorrelated(recorded, row.key) /\ recorded.task = correlated.task
  <2> HIDE DEF correlated, long
  <2> QED
    BY <1>3, <1>4, <1>6 DEF Recorrelated, Row
<1>8. CASE sess[w].pc = "replied"
  <2>1. reply \in PostReply
    BY <1>8 DEF SessionShape, SessionAgrees
  <2>2. /\ DispositionOf(reply, row.attempts) \in {"quarantine", "terminal"}
        /\ ~reply.confirmed
    BY <1>2, <2>1, PostErrorsAreNotRetried
  <2>3. row' = ApplyOutcome(row, k, reply)
    BY <2>2 DEF Settle
  <2>4. row' = Quarantine(correlated) \/ row' = Terminate(correlated)
    BY <2>2, <2>3 DEF ApplyOutcome, RecordsEpoch, CanAdvanceSubmissionEpoch
  <2> QED
    BY <1>1, <1>4, <2>4
<1>9. CASE sess[w].pc = "polled"
  <2>1. /\ reply \in PollReply
        /\ reply.class = "transient_safe" => task[row.key] = "transient_safe"
        /\ row.recon = "submission_accepted"
    BY <1>9 DEF SessionShape, SessionAgrees
  <2>2. /\ reply.id
        /\ \/ /\ reply.class = "transient_safe" /\ reply.confirmed
              /\ reply.class \in SafeTerminalClasses
              /\ DispositionOf(reply, row.attempts) =
                    IF row.attempts >= MaxAttempts THEN "terminal" ELSE "retry"
           \/ /\ reply.class \notin SafeTerminalClasses
              /\ DispositionOf(reply, row.attempts) \in {"quarantine", "terminal"}
    BY <1>2, <2>1, PollErrorsRetriedWhenSafe
  <2>3. row.task = k
    BY <1>1, <2>1 DEF CorrelationShape
  <2>4. row' = ApplyOutcome(row, k, reply)
    BY <2>3 DEF Settle
  <2>5. CASE reply.class \notin SafeTerminalClasses
    <3>1. row' = Quarantine(correlated) \/ row' = Terminate(correlated)
      BY <2>2, <2>4, <2>5
         DEF ApplyOutcome, RecordsEpoch, CanAdvanceSubmissionEpoch,
             SafeTerminalClasses
    <3> QED
      BY <1>1, <1>4, <3>1
  <2>6. CASE reply.class \in SafeTerminalClasses
    <3>1. RecordsEpoch(reply) /\ task[row.key] = "transient_safe"
      BY <2>1, <2>2, <2>6 DEF RecordsEpoch
    <3>2. recorded.task = k
      BY <1>1, <1>3, <1>7, <2>2 DEF Row
    <3>3. row.epoch < MaxAttempts
      BY DEF CorrelationShape
    <3>4. CASE row.attempts < MaxAttempts
      <4>1. CanAdvanceSubmissionEpoch("broker", reply.confirmed, k, recorded.task,
               reply.class, row.attempts, MaxAttempts, row.epoch, None)
        BY <1>1, <2>2, <2>6, <3>2, <3>3, <3>4 DEF CanAdvanceSubmissionEpoch
      <4>2. DispositionOf(reply, row.attempts) = "retry"
        BY <1>2, <2>2, <2>6, <3>4, ConstantsAssumption
      <4>3. row' = RetryLater(Advance(recorded))
        BY <2>4, <3>1, <4>1, <4>2 DEF ApplyOutcome
      <4> QED
        BY <1>1, <1>4, <1>7, <2>3, <3>1, <3>4, <4>3
    <3>5. CASE ~(row.attempts < MaxAttempts)
      <4>1. ~CanAdvanceSubmissionEpoch("broker", reply.confirmed, k, recorded.task,
               reply.class, row.attempts, MaxAttempts, row.epoch, None)
        BY <3>5 DEF CanAdvanceSubmissionEpoch
      <4>2. DispositionOf(reply, row.attempts) = "terminal"
        BY <1>2, <2>2, <2>6, <3>5, ConstantsAssumption
      <4>3. row' = Terminate(recorded)
        BY <2>4, <3>1, <4>1, <4>2 DEF ApplyOutcome
      <4> QED
        BY <1>1, <1>4, <1>7, <4>3
    <3> QED
      BY <3>4, <3>5
  <2> QED
    BY <2>5, <2>6
<1> QED
  BY <1>8, <1>9 DEF Settle

\* _classify and _apply_outcome: every disposition of an error keeps the invariant.
LEMMA SettleStep ==
    ASSUME IInv, NEW w \in Worker, Settle(w)
    PROVE  IInv'
<1> USE DEF IInv
<1>1. PICK c :
         /\ Recorrelated(c, row.key)
         /\ row.key \in Key
         /\ c.task \in {None, row.key}
         /\ row.recon \in Residue
         /\ \/ row' = Quarantine(c)
            \/ row' = Terminate(c)
            \/ /\ row' = RetryLater(Advance(c))
               /\ row.attempts < MaxAttempts
               /\ task[row.key] = "transient_safe"
  BY SettledRow
<1>2. /\ c \in Row /\ row \in Row
      /\ c.attempts = row.attempts /\ c.epoch = row.epoch
      /\ c.planned = row.planned /\ c.next = row.next /\ c.key = row.key
      /\ c.quarantined = row.quarantined
  BY <1>1 DEF Recorrelated, TypeOK
<1>3. /\ Open /\ ~row.quarantined /\ row.recon # "none"
      /\ summary = None /\ summary' = None
      /\ row.key = [step |-> row.next, epoch |-> row.epoch]
      /\ row.planned = (PlanLength > 0)
      /\ row.epoch < row.attempts /\ row.epoch < MaxAttempts
      /\ ~row.planned => row.next = 0
  BY <1>1 DEF RowShape, CorrelationShape, Residue, Open, Settle
<1> DEFINE s == Finished
<1>4. s \in Session /\ s.pc \in Quiet
  BY OutsideIsSession
<1>5. sess' \in [Worker -> Session] /\ Exclusive' /\ SessionShape'
  BY <1>4, OthersAreOut, QuietMove DEF Settle
<1>6. Published'
  BY <1>3 DEF Published
<1>7. ASSUME row' \in Row PROVE TypeOK'
  BY <1>5, <1>7 DEF TypeOK, Settle
<1>8. CASE row' = Quarantine(c)
  <2>1. /\ row' \in Row
        /\ row'.quarantined /\ row'.status = "pending_retry"
        /\ row'.recon = "awaiting_operator_resolution"
        /\ row'.attempts = row.attempts
        /\ row'.epoch = row.epoch /\ row'.next = row.next
        /\ row'.planned = row.planned
        /\ row'.task = c.task /\ row'.key = row.key
    BY <1>2, <1>8, QuarantineRow
  <2>2. RowShape'
    BY <1>3, <2>1 DEF RowShape, Open
  <2>3. CorrelationShape'
    BY <1>1, <1>2, <1>3, <2>1 DEF CorrelationShape, Open, Row, Epoch
  <2>4. (Alone /\ StepsInOrder)'
    BY <1>3, <2>1 DEF Alone, AtMostOneUnresolvedTask, StepsInOrder, Open, Settle
  <2> QED
    BY <1>5, <1>6, <1>7, <2>1, <2>2, <2>3, <2>4
<1>9. CASE row' = Terminate(c)
  <2>1. row' = [c EXCEPT !.status = "failed", !.recon = "none",
                         !.planned = FALSE, !.next = 0, !.backoff = FALSE]
    BY <1>9 DEF Terminate
  <2>2. row' \in Row
    BY <1>2, <2>1, Values, ZenonT(60) DEF Row
  <2>3. /\ row'.status = "failed" /\ row'.recon = "none"
        /\ row'.next = 0 /\ ~row'.planned
        /\ row'.epoch = row.epoch /\ row'.attempts = row.attempts
        /\ ~row'.quarantined
    BY <1>2, <1>3, <2>1, <2>2 DEF Row
  <2>4. row'.epoch <= row'.attempts
    BY <1>2, <1>3, <2>3, ConstantsAssumption DEF Row, Epoch
  <2>5. (RowShape /\ CorrelationShape /\ Alone /\ StepsInOrder)'
    BY <1>2, <1>3, <2>2, <2>3, <2>4, ClosedRow DEF Settle, Alone
  <2> QED
    BY <1>5, <1>6, <1>7, <2>2, <2>5
<1>10. CASE /\ row' = RetryLater(Advance(c))
            /\ row.attempts < MaxAttempts
            /\ task[row.key] = "transient_safe"
  <2> DEFINE a == [c EXCEPT !.epoch = c.epoch + 1, !.task = None, !.key = None]
  <2>1. c.epoch + 1 \in Epoch /\ row.attempts \in Nat /\ row.epoch \in Nat
    BY <1>2, <1>3, <1>10, ConstantsAssumption DEF Row, Epoch
  <2>2. a \in Row
    BY <1>2, <2>1, ZenonT(60) DEF Row
  <2>3. row' = [a EXCEPT !.status = "pending_retry", !.recon = "none",
                         !.backoff = TRUE]
    BY <1>10 DEF RetryLater, Advance
  <2>4. /\ a.epoch = row.epoch + 1 /\ a.task = None
        /\ a.next = row.next /\ a.planned = row.planned
        /\ a.attempts = row.attempts /\ ~a.quarantined
    BY <1>2, <1>3, <2>2 DEF Row
  <2> HIDE DEF a
  <2>5. row' \in Row
    BY <2>2, <2>3, Values, ZenonT(60) DEF Row
  <2>6. /\ row'.status = "pending_retry" /\ row'.recon = "none"
        /\ row'.epoch = row.epoch + 1 /\ row'.task = None
        /\ row'.next = row.next /\ row'.planned = row.planned
        /\ row'.attempts = row.attempts /\ ~row'.quarantined
    BY <2>2, <2>3, <2>4 DEF Row
  <2>7. RowShape'
    BY <1>3, <2>6 DEF RowShape, Open
  <2>8. CorrelationShape'
    BY <1>3, <1>10, <2>1, <2>6, ConstantsAssumption DEF CorrelationShape, Open
  <2>9. Alone'
    BY <1>3, <1>10, <2>6
       DEF Alone, AtMostOneUnresolvedTask, Unresolved, Open, Settle
  <2>10. StepsInOrder'
    BY <1>3, <1>10, <2>6 DEF StepsInOrder, Open, Settle
  <2> QED
    BY <1>5, <1>6, <1>7, <2>5, <2>7, <2>8, <2>9, <2>10
<1> QED
  BY <1>1, <1>8, <1>9, <1>10

-----------------------------------------------------------------------------
(* Results.                                                                *)

\* What a worker with a result knows.
LEMMA ResultInHand ==
    ASSUME IInv, NEW w \in Worker, sess[w].pc = "polled", sess[w].reply = Result
    PROVE  /\ row \in Row /\ row.key \in Key
           /\ Open /\ summary = None /\ ~row.quarantined
           /\ sess[w].key = row.key
           /\ row.key = [step |-> row.next, epoch |-> row.epoch]
           /\ row.planned = (PlanLength > 0)
           /\ row.epoch < row.attempts /\ row.epoch < MaxAttempts
           /\ task[row.key] = "succeeded"
BY DEF IInv, SessionShape, SessionAgrees, CorrelationShape, RowShape, TypeOK,
       Row, Key, Open

\* LessOne gives an attempt back and stays a natural number.
LEMMA Decrement ==
    ASSUME NEW r \in Row, r.epoch < r.attempts
    PROVE  LessOne(r.attempts) \in Nat /\ r.epoch <= LessOne(r.attempts)
BY ConstantsAssumption DEF LessOne, Row, Epoch

\* _complete: markers and task are cleared, the plan is not touched.
LEMMA ClearedRow ==
    ASSUME NEW r \in Row
    PROVE  /\ Cleared(r) \in Row
           /\ Cleared(r).recon = "none" /\ ~Cleared(r).quarantined
           /\ Cleared(r).epoch = r.epoch /\ Cleared(r).attempts = r.attempts
           /\ Cleared(r).next = r.next /\ Cleared(r).planned = r.planned
           /\ Cleared(r).task = r.task /\ Cleared(r).key = r.key
           /\ ~Cleared(r).backoff
<1>1. Cleared(r) \in Row
  BY Values, ZenonT(60) DEF Cleared, Row
<1> QED
  BY <1>1 DEF Cleared, Row

\* _complete of a partial summary: its step is finished in the same commit.
LEMMA CompletePartialStep ==
    ASSUME IInv, NEW w \in Worker, CompletePartial(w)
    PROVE  IInv'
<1> USE DEF IInv
<1> DEFINE c == Cleared(row)
           n == row.next + 1
<1>1. /\ row \in Row /\ row.key \in Key
      /\ Open /\ summary = None /\ sess[w].key = row.key
      /\ row.key = [step |-> row.next, epoch |-> row.epoch]
      /\ row.planned = (PlanLength > 0)
      /\ row.epoch < row.attempts /\ row.epoch < MaxAttempts
      /\ task[row.key] = "succeeded"
      /\ sess[w].pc = "polled"
  BY ResultInHand DEF CompletePartial
<1>2. row.next < PlanLength /\ n \in Step /\ row.next \in Nat /\ PlanLength > 0
  BY <1>1, ConstantsAssumption DEF CompletePartial, Row, Step
<1>3. LessOne(row.attempts) \in Nat /\ row.epoch <= LessOne(row.attempts)
  BY <1>1, Decrement
<1>4. row' = [c EXCEPT !.status = "pending_retry",
                  !.attempts = LessOne(c.attempts), !.planned = TRUE,
                  !.next = n, !.task = None, !.key = None]
  BY <1>1 DEF CompletePartial, CompletedPart
<1>5. /\ c \in Row /\ c.recon = "none" /\ ~c.quarantined /\ c.epoch = row.epoch
      /\ c.attempts = row.attempts /\ ~c.backoff
  BY <1>1, ClearedRow
<1> HIDE DEF c
<1>6. row' \in Row
  BY <1>2, <1>3, <1>4, <1>5, Values, ZenonT(60) DEF Row
<1>7. /\ row'.status = "pending_retry" /\ row'.recon = "none"
      /\ row'.attempts = LessOne(row.attempts) /\ row'.epoch = row.epoch
      /\ row'.planned /\ row'.next = n /\ row'.task = None
      /\ ~row'.quarantined /\ ~row'.backoff
  BY <1>4, <1>5, <1>6 DEF Row
<1>8. NoReply \in Reply
  BY DEF Reply
<1>9. PICK s \in Session :
         /\ s.pc = "loop" /\ s.key = sess[w].key /\ s.reply = NoReply
         /\ sess' = [sess EXCEPT ![w] = s]
  BY <1>8, SessionTakes, PhaseNames DEF CompletePartial
<1>10. sess'[w] = s
  BY <1>9, OneSession
<1>11. SessionAgrees(w)'
  <2>1. sess'[w].pc = "loop" /\ sess'[w].key = row.key
    BY <1>1, <1>9, <1>10
  <2>2. sess'[w].key \in Key /\ sess'[w].key.epoch = row'.epoch
    BY <1>1, <1>7, <2>1
  <2> QED
    BY <1>2, <1>7, <2>1, <2>2 DEF SessionAgrees, Reading, Open
<1>12. sess' \in [Worker -> Session] /\ Exclusive' /\ SessionShape'
  BY <1>1, <1>9, <1>11, BusyMove DEF CompletePartial
<1>13. TypeOK'
  BY <1>6, <1>12 DEF TypeOK, CompletePartial
<1>14. RowShape' /\ Published'
  BY <1>1, <1>7 DEF RowShape, Published, CompletePartial
<1>15. CorrelationShape'
  BY <1>1, <1>3, <1>7 DEF CorrelationShape
<1>16. Alone'
  BY <1>1, <1>7 DEF Alone, AtMostOneUnresolvedTask, Unresolved, Open,
                    CompletePartial
<1>17. StepsInOrder'
  <2>1. ASSUME NEW i \in 0 .. n - 1
        PROVE  \E k \in Key : k.step = i /\ task[k] = "succeeded"
    <3>1. CASE i = row.next
      BY <1>1, <3>1
    <3>2. CASE i # row.next
      BY <1>1, <1>2, <3>2 DEF StepsInOrder
    <3> QED
      BY <3>1, <3>2
  <2>2. \A k \in Key : ~(task[k] = "succeeded" /\ k.step >= n)
    BY <1>1, <1>2 DEF StepsInOrder, Key, Step
  <2> QED
    BY <1>7, <2>1, <2>2 DEF StepsInOrder, CompletePartial
<1> QED
  BY <1>12, <1>13, <1>14, <1>15, <1>16, <1>17

\* _complete of the final summary: the stage is completed and published.
LEMMA CompleteFinalStep ==
    ASSUME IInv, NEW w \in Worker, CompleteFinal(w)
    PROVE  IInv'
<1> USE DEF IInv
<1> DEFINE c == Cleared(row)
           n == IF PlanLength > 0 THEN LessOne(c.attempts) ELSE c.attempts
           s == Finished
<1>1. /\ row \in Row /\ row.key \in Key /\ sess[w].key = row.key
      /\ row.key = [step |-> row.next, epoch |-> row.epoch]
      /\ row.epoch < row.attempts
      /\ task[row.key] = "succeeded" /\ sess[w].pc = "polled"
  BY ResultInHand DEF CompleteFinal
<1>2. /\ c \in Row /\ c.recon = "none" /\ ~c.quarantined /\ c.epoch = row.epoch
      /\ c.attempts = row.attempts
  BY <1>1, ClearedRow
<1>3. row' = [c EXCEPT !.status = "completed", !.attempts = n,
                       !.planned = FALSE, !.next = 0]
  BY DEF CompleteFinal
<1>4. n \in Nat /\ row.epoch <= n
  BY <1>1, <1>2, Decrement, ConstantsAssumption DEF Row, Epoch
<1> HIDE DEF c, n
<1>5. row' \in Row
  BY <1>2, <1>3, <1>4, Values, ZenonT(60) DEF Row
<1>6. /\ row'.status = "completed" /\ row'.recon = "none" /\ row'.attempts = n
      /\ row'.epoch = row.epoch /\ row'.next = 0 /\ ~row'.quarantined
  BY <1>2, <1>3, <1>5 DEF Row
<1>7. summary' = row.key /\ summary' # None /\ summary'.step = PlanLength
  BY <1>1, ConstantsAssumption DEF CompleteFinal
<1>8. (RowShape /\ CorrelationShape /\ Alone /\ StepsInOrder)'
  BY <1>1, <1>4, <1>5, <1>6, <1>7, ClosedRow DEF CompleteFinal, Alone
<1>9. sess' \in [Worker -> Session] /\ Exclusive' /\ SessionShape'
  <2>1. s \in Session /\ s.pc \in Quiet
    BY OutsideIsSession
  <2> QED
    BY <1>1, <2>1, OthersAreOut, QuietMove DEF CompleteFinal
<1>10. TypeOK' /\ Published'
  BY <1>1, <1>5, <1>7, <1>9 DEF TypeOK, Published, CompleteFinal
<1> QED
  BY <1>8, <1>9, <1>10

-----------------------------------------------------------------------------
(* Reconciliation and its release.                                         *)

\* A released stage names the task of its next step.
LEMMA ReconcilableRow ==
    ASSUME IInv, Reconcilable
    PROVE  /\ row \in Row /\ row.key \in Key /\ row.task = row.key
           /\ Open /\ summary = None /\ row.status # "completed"
           /\ row.recon = "get_eligible"
           /\ row.key = [step |-> row.next, epoch |-> row.epoch]
           /\ row.planned = (PlanLength > 0)
           /\ row.epoch < row.attempts /\ row.epoch < MaxAttempts
           /\ task[row.task] \in TaskState
<1>1. /\ row \in Row /\ Open /\ summary = None /\ row.status # "completed"
      /\ row.recon = "get_eligible" /\ row.task # None
  BY DEF IInv, TypeOK, Reconcilable, RowShape, Open
<1>2. row.task = row.key /\ row.key \in Key
  BY <1>1 DEF IInv, CorrelationShape, Row
<1> QED
  BY <1>1, <1>2 DEF IInv, CorrelationShape, TypeOK

\* The reconciler is done with the stage and goes on to drain.
LEMMA ReconcilerMoves ==
    ASSUME TypeOK, Exclusive, NEW w \in Worker, sess[w].pc = "reconciling",
           Goto(w, "draining"), lock' = lock
    PROVE  sess' \in [Worker -> Session] /\ Exclusive' /\ SessionShape'
<1>1. PICK s \in Session : s.pc = "draining" /\ sess' = [sess EXCEPT ![w] = s]
  BY GotoMoves DEF Phase
<1> QED
  BY <1>1, OthersAreOut, QuietMove DEF Quiet

\* reconcile_quarantined_summaries: the GET tells nothing yet.
LEMMA ReconcileLaterStep ==
    ASSUME IInv, NEW w \in Worker, ReconcileLater(w)
    PROVE  IInv'
<1> USE DEF IInv
<1>1. sess' \in [Worker -> Session] /\ Exclusive' /\ SessionShape'
  BY ReconcilerMoves DEF ReconcileLater
<1>2. row \in Row /\ row' = [row EXCEPT !.backoff = TRUE]
  BY DEF ReconcileLater, TypeOK
<1>3. /\ row' \in Row
      /\ row'.status = row.status /\ row'.attempts = row.attempts
      /\ row'.epoch = row.epoch /\ row'.planned = row.planned
      /\ row'.next = row.next /\ row'.task = row.task /\ row'.key = row.key
      /\ row'.recon = row.recon /\ row'.quarantined = row.quarantined
  BY <1>2 DEF Row
<1>4. TypeOK'
  BY <1>1, <1>3 DEF TypeOK, ReconcileLater
<1>5. (RowShape /\ CorrelationShape /\ Alone /\ Published /\ StepsInOrder)'
  BY <1>3 DEF RowShape, CorrelationShape, Alone, AtMostOneUnresolvedTask,
              Published, StepsInOrder, Open, ReconcileLater
<1> QED
  BY <1>1, <1>4, <1>5

\* reconcile_quarantined_summaries: the GET reports a failure.
LEMMA ReconcileFailureStep ==
    ASSUME IInv, NEW w \in Worker, ReconcileFailure(w)
    PROVE  IInv'
<1> USE DEF IInv
<1>1. sess' \in [Worker -> Session] /\ Exclusive' /\ SessionShape'
  BY ReconcilerMoves DEF ReconcileFailure
<1>2. row \in Row /\ summary' = None /\ row.epoch < row.attempts
  BY ReconcilableRow DEF ReconcileFailure
<1>3. row' = [row EXCEPT !.status = "failed", !.quarantined = FALSE,
                         !.recon = "none", !.planned = FALSE, !.next = 0]
  BY DEF ReconcileFailure
<1>4. row' \in Row
  BY <1>2, <1>3, Values, ZenonT(60) DEF Row
<1>5. /\ row'.status = "failed" /\ row'.recon = "none"
        /\ row'.next = 0 /\ ~row'.planned
      /\ row'.epoch = row.epoch /\ row'.attempts = row.attempts
      /\ ~row'.quarantined
  BY <1>2, <1>3, <1>4 DEF Row
<1>6. row'.epoch <= row'.attempts
  BY <1>2, <1>5, ConstantsAssumption DEF Row, Epoch
<1>7. (RowShape /\ CorrelationShape /\ Alone /\ StepsInOrder)'
  BY <1>2, <1>4, <1>5, <1>6, ClosedRow DEF ReconcileFailure, Alone
<1>8. TypeOK' /\ Published'
  BY <1>1, <1>2, <1>4 DEF TypeOK, Published, ReconcileFailure
<1> QED
  BY <1>1, <1>7, <1>8

\* reconcile_quarantined_summaries: a partial summary is recovered, the plan as
\* stored does not advance.
LEMMA ReconcilePartialStep ==
    ASSUME IInv, NEW w \in Worker, ReconcilePartial(w)
    PROVE  IInv'
<1> USE DEF IInv
<1> DEFINE c == Cleared(row)
<1>1. sess' \in [Worker -> Session] /\ Exclusive' /\ SessionShape'
  BY ReconcilerMoves DEF ReconcilePartial
<1>2. /\ row \in Row /\ row.key \in Key /\ row.task = row.key
      /\ Open /\ summary = None
      /\ row.key = [step |-> row.next, epoch |-> row.epoch]
      /\ row.planned = (PlanLength > 0)
      /\ row.epoch < row.attempts /\ row.epoch < MaxAttempts
      /\ task[row.task] \in TaskState
  BY ReconcilableRow DEF ReconcilePartial
<1>3. task[row.key] = "succeeded"
  BY <1>2, AnswerMeaning DEF ReconcilePartial
<1>4. LessOne(row.attempts) \in Nat /\ row.epoch <= LessOne(row.attempts)
  BY <1>2, Decrement
<1>5. /\ c \in Row /\ c.recon = "none" /\ ~c.quarantined /\ c.epoch = row.epoch
      /\ c.attempts = row.attempts /\ c.next = row.next
      /\ c.planned = row.planned
  BY <1>2, ClosedRow, ClearedRow
<1>6. row' = [c EXCEPT !.status = "pending_retry",
                  !.attempts = LessOne(c.attempts), !.task = None, !.key = None]
  BY DEF ReconcilePartial
<1> HIDE DEF c
<1>7. row' \in Row
  BY <1>4, <1>5, <1>6, Values, ZenonT(60) DEF Row
<1>8. /\ row'.status = "pending_retry" /\ row'.recon = "none"
      /\ row'.attempts = LessOne(row.attempts) /\ row'.epoch = row.epoch
      /\ row'.planned = row.planned /\ row'.next = row.next /\ row'.task = None
      /\ ~row'.quarantined
  BY <1>5, <1>6, <1>7 DEF Row
<1>9. TypeOK'
  BY <1>1, <1>7 DEF TypeOK, ReconcilePartial
<1>10. RowShape' /\ Published'
  BY <1>2, <1>8 DEF RowShape, Published, ReconcilePartial
<1>11. CorrelationShape'
  BY <1>2, <1>4, <1>8 DEF CorrelationShape
<1>12. Alone'
  BY <1>2, <1>3, <1>8 DEF Alone, AtMostOneUnresolvedTask, Unresolved, Open,
                    ReconcilePartial
<1>13. StepsInOrder'
  BY <1>2, <1>8 DEF StepsInOrder, Open, ReconcilePartial
<1> QED
  BY <1>1, <1>9, <1>10, <1>11, <1>12, <1>13

\* reconcile_quarantined_summaries: the final summary is recovered and published.
LEMMA ReconcileFinalStep ==
    ASSUME IInv, NEW w \in Worker, ReconcileFinal(w)
    PROVE  IInv'
<1> USE DEF IInv
<1> DEFINE c == Cleared(row)
           n == IF row.planned THEN LessOne(c.attempts) ELSE c.attempts
<1>1. sess' \in [Worker -> Session] /\ Exclusive' /\ SessionShape'
  BY ReconcilerMoves DEF ReconcileFinal
<1>2. /\ row \in Row /\ row.key \in Key /\ row.task = row.key
      /\ Open /\ summary = None
      /\ row.key = [step |-> row.next, epoch |-> row.epoch]
      /\ row.planned = (PlanLength > 0)
      /\ row.epoch < row.attempts /\ row.epoch < MaxAttempts
      /\ task[row.task] \in TaskState
  BY ReconcilableRow DEF ReconcileFinal
<1>3. task[row.key] = "succeeded"
  BY <1>2, AnswerMeaning DEF ReconcileFinal
<1>4. row.next = PlanLength
  BY <1>2, ConstantsAssumption DEF ReconcileFinal, RowShape, Row, Step
<1>5. /\ c \in Row /\ c.recon = "none" /\ ~c.quarantined /\ c.epoch = row.epoch
      /\ c.attempts = row.attempts
  BY <1>2, ClearedRow
<1>6. row' = [c EXCEPT !.status = "completed", !.attempts = n,
                       !.planned = FALSE, !.next = 0]
  BY DEF ReconcileFinal
<1>7. n \in Nat /\ row.epoch <= n
  BY <1>2, <1>5, Decrement, ConstantsAssumption DEF Row, Epoch
<1> HIDE DEF c, n
<1>8. row' \in Row
  BY <1>5, <1>6, <1>7, Values, ZenonT(60) DEF Row
<1>9. /\ row'.status = "completed" /\ row'.recon = "none" /\ row'.attempts = n
      /\ row'.epoch = row.epoch /\ row'.next = 0 /\ ~row'.quarantined
  BY <1>5, <1>6, <1>8 DEF Row
<1>10. summary' = row.key /\ summary' # None /\ summary'.step = PlanLength
  BY <1>2, <1>4, ConstantsAssumption DEF ReconcileFinal
<1>11. (RowShape /\ CorrelationShape /\ Alone /\ StepsInOrder)'
  BY <1>2, <1>7, <1>8, <1>9, <1>10, ClosedRow DEF ReconcileFinal, Alone
<1>12. TypeOK' /\ Published'
  BY <1>1, <1>2, <1>3, <1>8, <1>10 DEF TypeOK, Published, ReconcileFinal
<1> QED
  BY <1>1, <1>11, <1>12

\* Steps that touch only the release of the row or its clock.
LEMMA ReleaseStageStep ==
    ASSUME IInv, MakeQuarantineGetEligible \/ BackoffElapses
    PROVE  IInv'
<1> USE DEF IInv
<1>1. PICK r \in {"get_eligible", row.recon} :
         /\ row' = [row EXCEPT !.recon = r, !.backoff = FALSE]
         /\ r # row.recon => row.quarantined /\ row.task # None
                             /\ row.recon = "awaiting_operator_resolution"
                             /\ lock = None
  <2>1. row \in Row
    BY DEF TypeOK
  <2>2. CASE MakeQuarantineGetEligible
    BY <2>2 DEF MakeQuarantineGetEligible
  <2>3. CASE BackoffElapses
    <3>1. row' = [row EXCEPT !.recon = row.recon, !.backoff = FALSE]
      BY <2>1, <2>3 DEF BackoffElapses, Row
    <3> QED
      BY <3>1
  <2> QED
    BY <2>2, <2>3
<1>2. row \in Row
  BY DEF TypeOK
<1>3. r \in Reconciliation
  BY <1>2, Values DEF Row
<1>4. row' \in Row
  BY <1>1, <1>2, <1>3, ZenonT(60) DEF Row
<1>5. /\ row'.status = row.status /\ row'.attempts = row.attempts
      /\ row'.epoch = row.epoch /\ row'.planned = row.planned
      /\ row'.next = row.next /\ row'.task = row.task /\ row'.key = row.key
      /\ row'.recon = r /\ row'.quarantined = row.quarantined
  BY <1>1, <1>2, <1>4 DEF Row
<1>6. UNCHANGED <<summary, lock, sess, task, posts, crashes>>
  BY DEF MakeQuarantineGetEligible, BackoffElapses
<1>7. TypeOK' /\ Exclusive' /\ Published'
  BY <1>4, <1>6 DEF TypeOK, Exclusive, Published
<1>8. CASE r = row.recon
  <2>1. (RowShape /\ CorrelationShape /\ Alone /\ StepsInOrder)'
    BY <1>5, <1>6, <1>8 DEF RowShape, CorrelationShape, Alone,
                            AtMostOneUnresolvedTask, StepsInOrder, Open
  <2>2. SessionShape'
    <3>1. CASE row.backoff
      <4>1. \A v \in Worker : sess'[v].pc \notin Reading \union {"loop"}
        BY <1>6, <3>1 DEF SessionShape, SessionAgrees
      <4> QED
        BY <1>5, <1>6, <1>8, <4>1
           DEF SessionShape, SessionAgrees, Reading, Open
    <3>2. CASE ~row.backoff
      <4>1. row' = row
        BY <1>1, <1>2, <1>8, <3>2 DEF Row
      <4> QED
        BY <1>6, <4>1 DEF SessionShape, SessionAgrees, Open
    <3> QED
      BY <3>1, <3>2
  <2> QED
    BY <1>7, <2>1, <2>2
<1>9. CASE r # row.recon
  <2>1. (RowShape /\ CorrelationShape /\ Alone /\ StepsInOrder)'
    BY <1>1, <1>5, <1>6, <1>9 DEF RowShape, CorrelationShape, Alone,
                            AtMostOneUnresolvedTask, StepsInOrder, Open
  <2>2. \A v \in Worker : sess'[v].pc = "out"
    BY <1>1, <1>6, <1>9, ConstantsAssumption DEF Exclusive
  <2>3. SessionShape'
    BY <2>2 DEF SessionShape, SessionAgrees, Reading
  <2> QED
    BY <1>7, <2>1, <2>3
<1> QED
  BY <1>8, <1>9

-----------------------------------------------------------------------------
(* The broker.                                                             *)

\* The broker ends or resolves a task it has: no known outcome changes.
LEMMA BrokerStep ==
    ASSUME IInv, NEW k \in Key, TaskEnds(k) \/ ResolveTask(k)
    PROVE  IInv'
<1> USE DEF IInv
<1>1. PICK end \in TaskEnd : task' = [task EXCEPT ![k] = end]
  BY DEF TaskEnds, ResolveTask, TaskEnd
<1>2. /\ task[k] \in Unresolved
      /\ UNCHANGED <<row, summary, lock, sess, posts, crashes>>
  BY DEF TaskEnds, ResolveTask, Unresolved
<1>3. /\ task' \in [Key -> TaskState]
      /\ \A j \in Key : j # k => task'[j] = task[j]
  BY <1>1 DEF TypeOK, TaskState
<1>4. TypeOK' /\ Exclusive' /\ RowShape' /\ CorrelationShape'
  BY <1>2, <1>3 DEF TypeOK, Exclusive, RowShape, CorrelationShape, Open
<1>5. SessionShape'
  <2>1. ASSUME NEW w \in Worker PROVE SessionAgrees(w)'
    <3>1. SessionAgrees(w)
      BY DEF SessionShape
    <3>2. sess[w].pc # "prepared"
      BY <1>2, <3>1 DEF SessionAgrees
    <3>3. sess[w].pc = "polled" => row.key \in Key
      BY <3>1 DEF SessionAgrees, CorrelationShape, TypeOK, Row, Key
    <3>4. task[k] # "succeeded" /\ task[k] # "transient_safe"
      BY <1>2 DEF Unresolved
    <3> QED
      BY <1>2, <1>3, <3>1, <3>2, <3>3, <3>4 DEF SessionAgrees, Open
  <2> QED
    BY <2>1 DEF SessionShape
<1>6. Alone'
  BY <1>2, <1>3 DEF Alone, AtMostOneUnresolvedTask, Open
<1>7. Published'
  BY <1>2, <1>3 DEF Published, Unresolved, TypeOK
<1>8. StepsInOrder'
  <2>1. \A j \in Key : task[j] = "succeeded" => task'[j] = "succeeded"
    BY <1>2, <1>3 DEF Unresolved
  <2>2. Open => k = [step |-> row.next, epoch |-> row.epoch]
    BY <1>2 DEF Alone, CorrelationShape
  <2>3. \A j \in Key : task'[j] = "succeeded" => task[j] = "succeeded" \/ j = k
    BY <1>3
  <2> QED
    BY <1>2, <2>1, <2>2, <2>3 DEF StepsInOrder, Open
<1> QED
  BY <1>4, <1>5, <1>6, <1>7, <1>8

-----------------------------------------------------------------------------
(* The theorems.                                                           *)

\* create_content_stages_for_video: the new stage satisfies the invariant.
LEMMA InitEstablishes == Init => IInv
<1> SUFFICES ASSUME Init PROVE IInv
  OBVIOUS
<1> USE ConstantsAssumption DEF Init
<1>1. TypeOK
  BY DEF TypeOK, Row, Status, Reconciliation, Key, Step, Epoch, Session,
         Outside, Phase, NoReply, Answer, Reply, TaskState
<1>2. Exclusive
  BY DEF Exclusive, Outside
<1>3. RowShape /\ CorrelationShape
  BY DEF RowShape, CorrelationShape, Residue, Open
<1>4. SessionShape /\ Alone /\ Published /\ StepsInOrder
  <2>1. \A w \in Worker : sess[w].pc = "out"
    BY DEF Outside
  <2>2. SessionShape
    BY <2>1 DEF SessionShape, SessionAgrees, Reading
  <2> QED
    BY <2>2 DEF Alone, Published, StepsInOrder, AtMostOneUnresolvedTask, Unresolved
<1> QED
  BY <1>1, <1>2, <1>3, <1>4 DEF IInv

\* Every step of a worker keeps the invariant.
LEMMA WorkerPreserves ==
    ASSUME IInv, NEW w \in Worker, WorkerStep(w)
    PROVE  IInv'
<1>1. CASE Release(w)
  BY <1>1, ReleaseStep
<1>2. CASE Submission(w)
  BY <1>2, PassiveStep, TakeStep, QuarantineResidueStep, PersistPlanStep, FailLocallyStep,
     PrepareStep, PostStep, GiveUpBeforePostStep, RecordAcceptedStep, PollStep,
     SettleStep, CompletePartialStep, CompleteFinalStep
     DEF Submission
<1>3. CASE ReconcilePass(w)
  BY <1>3, PassiveStep, ReconcileLaterStep, ReconcileFailureStep,
     ReconcilePartialStep, ReconcileFinalStep
     DEF ReconcilePass
<1> QED
  BY <1>1, <1>2, <1>3 DEF WorkerStep

\* Every step keeps the invariant.
LEMMA StepPreserves ==
    ASSUME IInv, [Next]_vars
    PROVE  IInv'
<1>1. CASE UNCHANGED vars
  BY <1>1 DEF vars, IInv, TypeOK, Exclusive, RowShape, CorrelationShape,
       SessionShape, SessionAgrees, Alone, AtMostOneUnresolvedTask, Published,
       StepsInOrder, Open
<1>2. ASSUME NEW w \in Worker,
             WorkerStep(w) \/ Start(w) \/ Crash(w)
      PROVE  IInv'
  BY <1>2, WorkerPreserves, StartStep, ReleaseStep
<1>3. CASE MakeQuarantineGetEligible \/ BackoffElapses
  BY <1>3, ReleaseStageStep
<1>4. CASE Broker
  BY <1>4, BrokerStep DEF Broker
<1> QED
  BY <1>1, <1>2, <1>3, <1>4 DEF Next

-----------------------------------------------------------------------------
(* What a step may do to the row.                                          *)

\* A stage that is held without a task waits for nothing: _quarantine clears
\* next_attempt_at, and only a stage with a task is polled again later.
HeldIsNotDelayed == row.quarantined /\ row.task = None => ~row.backoff

\* How a step may change the row: not at all while it is held without a task, and
\* its generation only over a safe failure.
RowStep ==
    /\ row.quarantined /\ row.task = None => row' = row
    /\ row'.epoch # row.epoch =>
          /\ row'.epoch = row.epoch + 1
          /\ row.task # None /\ task[row.task] = "transient_safe"
          /\ row'.task = None /\ row'.status = "pending_retry"

\* A step that leaves the row alone.
LEMMA SameRow ==
    ASSUME IInv, HeldIsNotDelayed, row' = row
    PROVE  RowStep /\ HeldIsNotDelayed'
BY DEF RowStep, HeldIsNotDelayed

\* A step on a stage that is not quarantined, by the worker that attempts it.
LEMMA AttemptedRow ==
    ASSUME IInv, NEW w \in Worker,
           \/ QuarantineResidue(w) \/ PersistPlan(w) \/ FailLocally(w)
           \/ Prepare(w) \/ RecordAccepted(w)
           \/ CompletePartial(w) \/ CompleteFinal(w)
    PROVE  RowStep /\ HeldIsNotDelayed'
<1> USE DEF IInv
<1>1. row \in Row /\ SessionAgrees(w)
  BY DEF TypeOK, SessionShape
<1>2. ~row.quarantined
  BY <1>1 DEF QuarantineResidue, PersistPlan, FailLocally, Prepare,
       RecordAccepted, CompletePartial, CompleteFinal, SessionAgrees,
       RowShape, Residue
<1>3. row'.epoch = row.epoch /\ (row'.quarantined => ~row'.backoff)
  <2>1. CASE QuarantineResidue(w) \/ PersistPlan(w) \/ FailLocally(w) \/ Prepare(w)
    BY <1>2, <2>1, ResidueWritten, PlanWritten, FailureWritten, MarkerWritten
  <2>5. CASE RecordAccepted(w)
    BY <1>1, <1>2, <2>5 DEF RecordAccepted, Row
  <2>6. CASE CompletePartial(w)
    BY <1>1, <1>2, <2>6 DEF CompletePartial, CompletedPart, Cleared, Row
  <2>7. CASE CompleteFinal(w)
    BY <1>1, <1>2, <2>7 DEF CompleteFinal, Cleared, Row
  <2> QED
    BY <2>1, <2>5, <2>6, <2>7
<1> QED
  BY <1>2, <1>3 DEF RowStep, HeldIsNotDelayed

\* _apply_outcome: the only step that opens a generation.
LEMMA SettledRowStep ==
    ASSUME IInv, HeldIsNotDelayed, NEW w \in Worker, Settle(w)
    PROVE  RowStep /\ HeldIsNotDelayed'
<1> USE DEF IInv
<1>1. PICK c :
         /\ Recorrelated(c, row.key)
         /\ row.key \in Key
         /\ c.task \in {None, row.key}
         /\ row.recon \in Residue
         /\ \/ row' = Quarantine(c)
            \/ row' = Terminate(c)
            \/ /\ row' = RetryLater(Advance(c))
               /\ row.attempts < MaxAttempts
               /\ row.task = row.key
               /\ task[row.key] = "transient_safe"
  BY SettledRow
<1>2. /\ c \in Row /\ c.epoch = row.epoch /\ c.quarantined = row.quarantined
      /\ row.key # None /\ ~row.quarantined
  BY <1>1, ConstantsAssumption DEF Recorrelated, RowShape, Residue
<1>3. CASE row' = Quarantine(c)
  BY <1>2, <1>3 DEF Quarantine, Row, RowStep, HeldIsNotDelayed
<1>4. CASE row' = Terminate(c)
  BY <1>2, <1>4 DEF Terminate, Row, RowStep, HeldIsNotDelayed
<1>5. CASE /\ row' = RetryLater(Advance(c))
           /\ row.task = row.key
           /\ task[row.key] = "transient_safe"
  BY <1>2, <1>5 DEF RetryLater, Advance, Row, RowStep, HeldIsNotDelayed
<1> QED
  BY <1>1, <1>3, <1>4, <1>5

\* Reconciliation, release and clock: a held stage needs a task to be moved.
LEMMA HeldRowStep ==
    ASSUME IInv, HeldIsNotDelayed,
           \/ \E w \in Worker : \/ ReconcileLater(w) \/ ReconcileFailure(w)
                                \/ ReconcilePartial(w) \/ ReconcileFinal(w)
           \/ MakeQuarantineGetEligible \/ BackoffElapses
    PROVE  RowStep /\ HeldIsNotDelayed'
<1> USE DEF IInv, RowStep, HeldIsNotDelayed
<1>1. row \in Row
  BY DEF TypeOK
<1>2. CASE BackoffElapses
  BY <1>1, <1>2 DEF BackoffElapses, Row
<1>3. CASE MakeQuarantineGetEligible
  BY <1>1, <1>3 DEF MakeQuarantineGetEligible, Row
<1>4. ASSUME NEW w \in Worker, ReconcileLater(w)
      PROVE  RowStep /\ HeldIsNotDelayed'
  BY <1>1, <1>4 DEF ReconcileLater, Reconcilable, Row
<1>5. ASSUME NEW w \in Worker, ReconcileFailure(w)
      PROVE  RowStep /\ HeldIsNotDelayed'
  BY <1>1, <1>5 DEF ReconcileFailure, Reconcilable, Row
<1>6. ASSUME NEW w \in Worker, ReconcilePartial(w)
      PROVE  RowStep /\ HeldIsNotDelayed'
  BY <1>1, <1>6 DEF ReconcilePartial, Reconcilable, Cleared, Row
<1>7. ASSUME NEW w \in Worker, ReconcileFinal(w)
      PROVE  RowStep /\ HeldIsNotDelayed'
  BY <1>1, <1>7 DEF ReconcileFinal, Reconcilable, Cleared, Row
<1> QED
  BY <1>2, <1>3, <1>4, <1>5, <1>6, <1>7

\* Every step changes the row as RowStep allows.
LEMMA EveryRowStep ==
    ASSUME IInv, HeldIsNotDelayed, [Next]_vars
    PROVE  RowStep /\ HeldIsNotDelayed'
<1>1. ASSUME NEW w \in Worker, Submission(w)
      PROVE  RowStep /\ HeldIsNotDelayed'
  <2>1. CASE \/ NothingDue(w) \/ Take(w) \/ LeaveLoop(w) \/ Post(w)
             \/ GiveUpBeforePost(w) \/ Poll(w)
    BY <2>1, SameRow
       DEF NothingDue, Take, LeaveLoop, Post, GiveUpBeforePost, Poll
  <2> QED
    BY <1>1, <2>1, AttemptedRow, SettledRowStep DEF Submission
<1>2. ASSUME NEW w \in Worker,
             NothingToReconcile(w) \/ Release(w) \/ Start(w) \/ Crash(w)
      PROVE  RowStep /\ HeldIsNotDelayed'
  BY <1>2, SameRow DEF NothingToReconcile, Release, Start, Crash
<1>3. CASE Broker \/ UNCHANGED vars
  BY <1>3, SameRow DEF Broker, TaskEnds, ResolveTask, vars
<1> QED
  BY <1>1, <1>2, <1>3, HeldRowStep DEF Next, WorkerStep, ReconcilePass

-----------------------------------------------------------------------------

\* The conjunction of type correctness, the exclusion of executions, the shape of
\* the row, the agreement of every session with it, and what is known of the
\* broker's tasks holds in every reachable state, for every number of workers,
\* attempts, partial summaries and crashes, as long as the lock is not lost
\* (BrokerSubmissionCoordinator under acquire_execution_lock).
THEOREM InductiveInvariant == Spec => []IInv
<1>1. Init => IInv
  BY InitEstablishes
<1>2. IInv /\ [Next]_vars => IInv'
  BY StepPreserves
<1> QED
  BY <1>1, <1>2, PTL DEF Spec

\* Every variable keeps its type: in particular a generation and the step of the
\* plan stay within their bounds (the CHECK constraint of pipeline_stages).
THEOREM TypeCorrectness == Spec => []TypeOK
<1>1. IInv => TypeOK
  BY DEF IInv
<1> QED
  BY <1>1, InductiveInvariant, PTL

\* No POST is made while an earlier task of the stage is unresolved (the prepared
\* marker, the quarantine and the safe-retry rule).
THEOREM AloneAtTheBroker == Spec => []SubmissionIsAlone
<1>1. IInv => SubmissionIsAlone
  BY DEF IInv, SessionShape, SessionAgrees, SubmissionIsAlone, Alone
<1> QED
  BY <1>1, InductiveInvariant, PTL

\* Nor does the broker ever hold two unresolved tasks of the stage: what was
\* accepted is settled before the next generation or step is posted.
THEOREM OneTaskAtATime == Spec => []AtMostOneUnresolvedTask
<1>1. IInv => AtMostOneUnresolvedTask
  BY DEF IInv, SessionShape, SessionAgrees, Alone
<1> QED
  BY <1>1, InductiveInvariant, PTL

\* The task an open stage names belongs to the next step of its plan and to its
\* generation, so no result is stored for another step than its own.
THEOREM CorrelationStaysCurrent == Spec => []CorrelationIsCurrent
<1>1. IInv => CorrelationIsCurrent
  BY DEF IInv, CorrelationIsCurrent, CorrelationShape, Open
<1> QED
  BY <1>1, InductiveInvariant, PTL

\* A generation is opened only at the price of a counted attempt, although every
\* completed partial summary returns the attempt it took.
THEOREM GenerationsAreBounded == Spec => []EpochWithinAttempts
<1>1. IInv => EpochWithinAttempts
  BY DEF IInv, EpochWithinAttempts, CorrelationShape
<1> QED
  BY <1>1, InductiveInvariant, PTL

\* A stage is completed exactly when a summary is published, and the summary is
\* the usable result of the plan's final operation.
THEOREM OnlyFinalResultsArePublished ==
    Spec => []PublishedIsFinalResult
<1>1. IInv => PublishedIsFinalResult
  BY DEF IInv, PublishedIsFinalResult, Published, RowShape
<1> QED
  BY <1>1, InductiveInvariant, PTL

\* A POST is only ever made of the key that is committed as prepared, by a stage
\* that is neither quarantined nor correlated (attempt, prepared commit).
THEOREM PostsArePrepared == Spec => PostOnlyOfPreparedKey
<1> DEFINE Prepared ==
        \A w \in Worker :
            sess[w].pc = "prepared" /\ sess'[w].pc = "replied" =>
                /\ row.recon = "submission_prepared" /\ row.key = sess[w].key
                /\ ~row.quarantined /\ row.task = None
<1>1. IInv => Prepared
  BY DEF IInv, SessionShape, SessionAgrees, RowShape, CorrelationShape
<1>2. [][Prepared]_vars => PostOnlyOfPreparedKey
  BY DEF PostOnlyOfPreparedKey
<1> HIDE DEF Prepared
<1> QED
  BY <1>1, <1>2, InductiveInvariant, PTL

\* The rows RowStep allows are the only ones a step reaches.
LEMMA RowSteps == Spec => [][RowStep]_vars
<1>1. Init => HeldIsNotDelayed
  BY DEF Init, HeldIsNotDelayed
<1>2. IInv /\ HeldIsNotDelayed /\ [Next]_vars => RowStep /\ HeldIsNotDelayed'
  BY EveryRowStep
<1>3. Spec => []IInv
  BY InductiveInvariant
<1> QED
  BY <1>1, <1>2, <1>3, PTL DEF Spec

\* A stage held without a task ID stays as it is, whoever executes, crashes or
\* releases it (make_quarantine_get_eligible, _attempt_broker_summary_stage).
THEOREM HeldStagesStayHeld == Spec => HeldWithoutTaskStaysHeld
<1>1. RowStep => [row.quarantined /\ row.task = None => row' = row]_vars
  BY DEF RowStep
<1> QED
  BY <1>1, RowSteps, PTL DEF HeldWithoutTaskStaysHeld

\* A generation opens one at a time, and only over a task that failed in a way
\* that is safe to repeat (can_advance_submission_epoch, _apply_outcome).
THEOREM GenerationsFollowSafeFailures ==
    Spec => NewGenerationOnlyAfterSafeFailure
<1>1. RowStep =>
        [row'.epoch # row.epoch =>
            /\ row'.epoch = row.epoch + 1
            /\ row.task # None /\ task[row.task] = "transient_safe"
            /\ row'.task = None /\ row'.status = "pending_retry"]_vars
  BY DEF RowStep
<1> QED
  BY <1>1, RowSteps, PTL DEF NewGenerationOnlyAfterSafeFailure

-----------------------------------------------------------------------------
(* BrokerSubmission implements SummaryInference.                           *)

bar == [k \in Key |-> InferenceState(task[k])]

\* The refinement mapping of a task, by cases.
LEMMA MeaningOfTasks ==
    ASSUME NEW s \in TaskState
    PROVE  /\ InferenceState(s) = "running" <=> s \in Unresolved
           /\ InferenceState(s) = "usable" <=> s = "succeeded"
           /\ InferenceState(s) = "never" <=> s = "absent"
           /\ s \notin Unresolved /\ s # "absent"
                 => InferenceState(s) \in {"usable", "useless"}
BY DEF InferenceState, Unresolved

\* The summary a step publishes is the usable result of the last step.
LEMMA PublishRefines ==
    ASSUME IInv, NEW k \in Key, task[k] = "succeeded", k.step = PlanLength,
           summary = None, summary' = k, task' = task
    PROVE  Inferences!Next
<1>1. k \in Inferences!Inference
  BY DEF Inferences!Inference, Key, Step
<1>2. bar[k] = "usable"
  BY MeaningOfTasks DEF bar, IInv, TypeOK
<1>3. Inferences!Publish(k)
  BY <1>2 DEF Inferences!Publish, bar
<1> QED
  BY <1>1, <1>3 DEF Inferences!Next

\* A POST that reaches the broker with a new key begins an inference; with a key
\* the broker knows it begins nothing.
LEMMA PostRefines ==
    ASSUME IInv, NEW w \in Worker, Post(w)
    PROVE  Inferences!Next \/ UNCHANGED Inferences!vars
<1> USE DEF IInv
<1> DEFINE key == sess[w].key
<1>1. /\ row.recon = "submission_prepared" /\ key = row.key
      /\ \A k \in Key : task[k] \notin Unresolved
  BY DEF Post, SessionShape, SessionAgrees
<1>2. key = [step |-> row.next, epoch |-> row.epoch] /\ key \in Key
      /\ Open /\ summary = None /\ summary' = None
  BY <1>1 DEF CorrelationShape, RowShape, TypeOK, Row, Key, Open, Post
<1>3. CASE task' = task
  BY <1>3 DEF Post, Inferences!vars
<1>4. CASE task[key] # "absent" /\ task' # task
  <2>1. task' = task
    BY <1>2, <1>4 DEF Post, TypeOK
  <2> QED
    BY <1>4, <2>1
<1>5. CASE task[key] = "absent" /\ task' # task
  <2>1. task' = [task EXCEPT ![key] = "pending"]
    BY <1>2, <1>5 DEF Post, TypeOK
  <2>2. task \in [Key -> TaskState]
    BY DEF TypeOK
  <2>3. bar[key] = "never"
    BY <1>2, <1>5, <2>2, MeaningOfTasks DEF bar
  <2>4. bar' = [bar EXCEPT ![key] = "running"]
    <3>1. InferenceState("pending") = "running"
      BY DEF InferenceState, Unresolved
    <3> QED
      BY <1>2, <2>1, <2>2, <3>1 DEF bar
  <2>5. ASSUME NEW j \in Key
        PROVE  /\ bar[j] # "running"
               /\ j.step = key.step => bar[j] # "usable"
    <3>1. bar[j] # "running"
      BY <1>1, <2>2, MeaningOfTasks DEF bar
    <3>2. ASSUME j.step = key.step, task[j] = "succeeded" PROVE FALSE
      <4>1. j = key
        BY <1>2, <3>2 DEF StepsInOrder, Key, Step, TypeOK, Row
      <4> QED
        BY <1>5, <3>2, <4>1
    <3> QED
      BY <2>2, <3>1, <3>2, MeaningOfTasks DEF bar
  <2>6. ASSUME NEW s \in 0 .. key.step - 1
        PROVE  \E j \in Key : j.step = s /\ bar[j] = "usable"
    <3>1. PICK j \in Key : j.step = s /\ task[j] = "succeeded"
      BY <1>2 DEF StepsInOrder
    <3> QED
      BY <2>2, <3>1, MeaningOfTasks DEF bar
  <2>7. Key = Inferences!Inference
    BY DEF Inferences!Inference, Key, Step
  <2>8. Inferences!Begin(key)
    BY <1>2, <2>3, <2>4, <2>5, <2>6, <2>7 DEF Inferences!Begin, bar
  <2> QED
    BY <1>2, <2>7, <2>8 DEF Inferences!Next
<1> QED
  BY <1>3, <1>4, <1>5

\* A task that ends ends an inference, unless it ends indeterminate.
LEMMA BrokerRefines ==
    ASSUME IInv, NEW k \in Key, TaskEnds(k) \/ ResolveTask(k)
    PROVE  Inferences!Next \/ UNCHANGED Inferences!vars
<1> USE DEF IInv
<1>1. PICK end \in TaskEnd : task' = [task EXCEPT ![k] = end]
  BY DEF TaskEnds, ResolveTask, TaskEnd
<1>2. /\ task[k] \in Unresolved /\ summary' = summary
      /\ task \in [Key -> TaskState]
  BY DEF TaskEnds, ResolveTask, Unresolved, TypeOK
<1>3. bar[k] = "running" /\ end \in TaskState /\ end # "absent"
  BY <1>2, MeaningOfTasks DEF bar, TaskState, TaskEnd
<1>4. bar' = [bar EXCEPT ![k] = InferenceState(end)]
  BY <1>1, <1>2 DEF bar
<1>5. CASE end \in Unresolved
  <2>1. bar' = bar
    BY <1>3, <1>4, <1>5, MeaningOfTasks DEF bar
  <2> QED
    BY <1>2, <2>1 DEF Inferences!vars, bar
<1>6. CASE end \notin Unresolved
  <2>1. InferenceState(end) \in {"usable", "useless"}
    BY <1>3, <1>6, MeaningOfTasks
  <2>2. k \in Inferences!Inference
    BY DEF Inferences!Inference, Key, Step
  <2>3. Inferences!End(k)
    BY <1>2, <1>3, <1>4, <2>1 DEF Inferences!End, bar
  <2> QED
    BY <2>2, <2>3 DEF Inferences!Next
<1> QED
  BY <1>5, <1>6

\* Every step is a step of SummaryInference or a stutter.
LEMMA StepRefines ==
    ASSUME IInv, [Next]_vars
    PROVE  [Inferences!Next]_(Inferences!vars)
<1>1. ASSUME UNCHANGED <<task, summary>> PROVE UNCHANGED Inferences!vars
  BY <1>1 DEF Inferences!vars
<1>2. CASE UNCHANGED vars
  BY <1>1, <1>2 DEF vars
<1>3. CASE MakeQuarantineGetEligible \/ BackoffElapses
  BY <1>1, <1>3 DEF MakeQuarantineGetEligible, BackoffElapses
<1>4. CASE Broker
  BY <1>4, BrokerRefines DEF Broker
<1>5. ASSUME NEW w \in Worker, Submission(w)
      PROVE  Inferences!Next \/ UNCHANGED Inferences!vars
  <2>1. CASE Post(w)
    BY <2>1, PostRefines
  <2>2. CASE CompleteFinal(w)
    <3>1. /\ row.key \in Key /\ task[row.key] = "succeeded"
          /\ sess[w].key = row.key /\ summary = None
      BY <2>2, ResultInHand DEF CompleteFinal
    <3> QED
      BY <2>2, <3>1, PublishRefines DEF CompleteFinal
  <2>3. CASE ~Post(w) /\ ~CompleteFinal(w)
    BY <1>1, <1>5, <2>3
       DEF Submission, NothingDue, Take, QuarantineResidue, PersistPlan, FailLocally,
           Prepare, LeaveLoop, GiveUpBeforePost, RecordAccepted, Poll, Settle,
           CompletePartial
  <2> QED
    BY <2>1, <2>2, <2>3
<1>6. ASSUME NEW w \in Worker, ReconcilePass(w)
      PROVE  Inferences!Next \/ UNCHANGED Inferences!vars
  <2>1. CASE ReconcileFinal(w)
    <3>1. /\ row \in Row /\ row.task = row.key /\ row.key \in Key /\ summary = None
          /\ row.key = [step |-> row.next, epoch |-> row.epoch]
          /\ row.planned = (PlanLength > 0)
          /\ task[row.task] \in TaskState
      BY <2>1, ReconcilableRow DEF ReconcileFinal
    <3>2. task[row.key] = "succeeded"
      BY <2>1, <3>1, AnswerMeaning DEF ReconcileFinal
    <3>3. row.key.step = PlanLength
      BY <2>1, <3>1, ConstantsAssumption
         DEF ReconcileFinal, IInv, RowShape, Row, Step
    <3> QED
      BY <2>1, <3>1, <3>2, <3>3, PublishRefines DEF ReconcileFinal
  <2>2. CASE ~ReconcileFinal(w)
    BY <1>1, <1>6, <2>2 DEF ReconcilePass, NothingToReconcile, ReconcileLater,
                            ReconcileFailure, ReconcilePartial
  <2> QED
    BY <2>1, <2>2
<1>7. ASSUME NEW w \in Worker, Release(w) \/ Start(w) \/ Crash(w)
      PROVE  UNCHANGED Inferences!vars
  BY <1>1, <1>7 DEF Release, Start, Crash
<1> QED
  BY <1>2, <1>3, <1>4, <1>5, <1>6, <1>7 DEF Next, WorkerStep

\* The submission, its recovery and its reconciliation implement the promise of
\* SummaryInference: one inference at a time, in the order of the plan, none
\* repeated once it is usable, one result published.
THEOREM Implementation == Spec => ImplementsInferences
<1> SUFFICES Spec => Inferences!Spec
  BY DEF ImplementsInferences
<1>1. Init => Inferences!Init
  <2> SUFFICES ASSUME Init PROVE Inferences!Init
    OBVIOUS
  <2>1. \A k \in Key : task[k] = "absent"
    BY DEF Init
  <2>2. InferenceState("absent") = "never"
    BY DEF InferenceState, Unresolved
  <2>3. Key = Inferences!Inference
    BY DEF Inferences!Inference, Key, Step
  <2> QED
    BY <2>1, <2>2, <2>3 DEF Init, Inferences!Init
<1>2. IInv /\ [Next]_vars => [Inferences!Next]_(Inferences!vars)
  BY StepRefines
<1>3. Spec => []IInv
  BY InductiveInvariant
<1> QED
  BY <1>1, <1>2, <1>3, PTL DEF Spec, Inferences!Spec

-----------------------------------------------------------------------------
(* The keys of a stage that is one operation (PlanLength = 0).              *)

\* The stage may still be posted under its current key: it waits for an attempt,
\* or its attempt is prepared.
Fresh == Open /\ (row.recon = "none" \/ \E w \in Worker : sess[w].pc = "prepared")

\* Every key has been posted at most once, those of later generations not at all,
\* and the current one not while the stage may still be posted under it.
KeysSpent ==
    /\ SubmittedOnce
    /\ \A k \in Key : posts[k] # 0 =>
          k.epoch < row.epoch \/ (k.epoch = row.epoch /\ ~Fresh)

\* A single operation has no plan, so none is stored, completed in part or given
\* up, and a key is its generation.
LEMMA NoPlan ==
    ASSUME PlanLength = 0, IInv, NEW w \in Worker
    PROVE  /\ ~PersistPlan(w) /\ ~FailLocally(w)
           /\ ~CompletePartial(w) /\ ~ReconcilePartial(w)
           /\ \A j, k \in Key : j.epoch = k.epoch => j = k
<1>1. ~PersistPlan(w) /\ ~FailLocally(w)
  BY FreshRow DEF PersistPlan, FailLocally
<1>2. ~CompletePartial(w)
  <2> SUFFICES ASSUME CompletePartial(w) PROVE FALSE
    OBVIOUS
  <2>1. row.key \in Key /\ sess[w].key = row.key /\ sess[w].key.step < 0
    BY ResultInHand DEF CompletePartial
  <2> QED
    BY <2>1 DEF Key, Step
<1>3. ~ReconcilePartial(w)
  BY DEF ReconcilePartial, IInv, RowShape
<1>4. \A j, k \in Key : j.epoch = k.epoch => j = k
  <2>1. Step = {0}
    BY DEF Step
  <2> QED
    BY <2>1 DEF Key
<1> QED
  BY <1>1, <1>2, <1>3, <1>4

\* No request is made, no generation opened, and nothing becomes postable.
LEMMA KeysKept ==
    ASSUME KeysSpent, posts' = posts, row'.epoch = row.epoch, Fresh' => Fresh
    PROVE  KeysSpent'
BY DEF KeysSpent, SubmittedOnce

\* A row that is left alone, by a worker that does not prepare.
LEMMA RowKept ==
    ASSUME IInv, KeysSpent, posts' = posts, row' = row,
           \A w \in Worker : sess'[w].pc = "prepared" => sess[w].pc = "prepared"
    PROVE  KeysSpent'
<1>1. Fresh' => Fresh
  BY DEF Fresh, Open
<1> QED
  BY <1>1, KeysKept

\* A stage that is held or closed, by the worker that holds the lock.
LEMMA KeysPutAway ==
    ASSUME IInv, KeysSpent, posts' = posts, row'.epoch = row.epoch,
           NEW w \in Worker, sess[w].pc # "out", sess'[w].pc # "prepared",
           \A v \in Worker : v # w => sess'[v] = sess[v],
           row'.status \in {"failed", "completed"} \/ row'.recon # "none"
    PROVE  KeysSpent'
<1>1. \A v \in Worker : sess'[v].pc # "prepared"
  BY OthersAreOut DEF IInv
<1>2. ~Fresh'
  BY <1>1 DEF Fresh, Open
<1> QED
  BY <1>2, KeysKept

\* A worker that only moves on.
LEMMA MovesKeepKeys ==
    ASSUME IInv, KeysSpent, NEW w \in Worker,
           \/ Start(w) \/ Release(w) \/ Crash(w) \/ NothingDue(w) \/ Take(w)
           \/ LeaveLoop(w) \/ NothingToReconcile(w) \/ GiveUpBeforePost(w)
           \/ Poll(w)
    PROVE  KeysSpent'
<1>1. posts' = posts /\ row' = row
  BY DEF Start, Release, Crash, NothingDue, Take, LeaveLoop,
         NothingToReconcile, GiveUpBeforePost, Poll
<1>2. sess \in [Worker -> Session]
  BY DEF IInv, TypeOK
<1>3. \A v \in Worker : v # w => sess'[v] = sess[v]
  BY <1>2 DEF Start, Release, Crash, NothingDue, Take, LeaveLoop,
              NothingToReconcile, GiveUpBeforePost, Poll, Goto, GotoWith
<1>4. sess'[w].pc # "prepared"
  <2>1. CASE Start(w) \/ NothingDue(w) \/ LeaveLoop(w) \/ NothingToReconcile(w)
    BY <1>2, <2>1 DEF Start, NothingDue, LeaveLoop, NothingToReconcile, Goto,
                      Session
  <2>2. CASE Release(w) \/ Crash(w)
    BY <1>2, <2>2 DEF Release, Crash, Outside
  <2>3. CASE Take(w)
    BY <1>2, <2>3 DEF Take
  <2>4. CASE GiveUpBeforePost(w) \/ Poll(w)
    BY <1>2, <2>4 DEF GiveUpBeforePost, Poll, GotoWith, Session
  <2> QED
    BY <2>1, <2>2, <2>3, <2>4
<1> QED
  BY <1>1, <1>3, <1>4, RowKept

\* The POST spends the current key, which is then no longer fresh.
LEMMA PostSpendsKey ==
    ASSUME PlanLength = 0, IInv, KeysSpent, NEW w \in Worker, Post(w)
    PROVE  KeysSpent'
<1> DEFINE key == sess[w].key
<1>1. PICK reply \in PostReply : GotoWith(w, "replied", reply)
  BY DEF Post, PostReply
<1>2. PICK s \in Session :
         /\ s.pc = "replied" /\ s.key = key /\ sess' = [sess EXCEPT ![w] = s]
  BY <1>1, RepliesAreReplies, SessionTakes, PhaseNames DEF IInv
<1>3. /\ row.recon = "submission_prepared" /\ key = row.key /\ row' = row
      /\ sess[w].pc = "prepared"
  BY DEF Post, IInv, SessionShape, SessionAgrees
<1>4. key \in Key /\ key.epoch = row.epoch /\ Open
  BY <1>3 DEF IInv, CorrelationShape, RowShape, TypeOK, Row, Key, Open
<1>5. Fresh
  BY <1>3, <1>4 DEF Fresh
<1>6. posts[key] = 0 /\ posts \in [Key -> 0 .. 2]
  BY <1>4, <1>5, ConstantsAssumption DEF KeysSpent, IInv, TypeOK, Key, Epoch
<1>7. posts'[key] = 1 /\ \A k \in Key : k # key => posts'[k] = posts[k]
  BY <1>4, <1>6 DEF Post
<1>8. \A v \in Worker : sess'[v].pc # "prepared"
  BY <1>2, <1>3, OneSession, OthersAreOut DEF IInv
<1>9. ~Fresh'
  BY <1>3, <1>8 DEF Fresh
<1>10. SubmittedOnce'
  BY <1>7 DEF KeysSpent, SubmittedOnce
<1>11. ASSUME NEW k \in Key, posts'[k] # 0
       PROVE  k.epoch < row.epoch \/ k.epoch = row.epoch
  BY <1>4, <1>7, <1>11 DEF KeysSpent
<1> QED
  BY <1>3, <1>9, <1>10, <1>11 DEF KeysSpent

\* A failure is settled: the stage is held or closed, or a new generation has a key
\* of its own.
LEMMA SettleKeepsKeys ==
    ASSUME IInv, KeysSpent, NEW w \in Worker, Settle(w)
    PROVE  KeysSpent'
<1>1. PICK c :
         /\ Recorrelated(c, row.key)
         /\ \/ row' = Quarantine(c)
            \/ row' = Terminate(c)
            \/ row' = RetryLater(Advance(c))
  BY SettledRow
<1>2. /\ sess[w].pc # "out" /\ posts' = posts
      /\ sess' = [sess EXCEPT ![w] = Finished]
  BY DEF Settle
<1>3. sess'[w] = Finished /\ \A v \in Worker : v # w => sess'[v] = sess[v]
  BY <1>2, OutsideIsSession, OneSession DEF IInv
<1>4. sess'[w].pc # "prepared"
  BY <1>3 DEF Finished, Outside
<1>5. c \in Row /\ c.epoch = row.epoch /\ row.epoch \in Nat
  BY <1>1, ConstantsAssumption DEF Recorrelated, Row, Epoch, IInv, TypeOK
<1>6. CASE row' = Quarantine(c)
  <2>1. row'.epoch = row.epoch /\ row'.recon # "none"
    BY <1>5, <1>6, QuarantineRow
  <2> QED
    BY <1>2, <1>3, <1>4, <2>1, KeysPutAway
<1>7. CASE row' = Terminate(c)
  <2>1. row'.epoch = row.epoch /\ row'.status = "failed"
    BY <1>5, <1>7 DEF Terminate, Row
  <2> QED
    BY <1>2, <1>3, <1>4, <2>1, KeysPutAway
<1>8. CASE row' = RetryLater(Advance(c))
  <2>1. row'.epoch = row.epoch + 1
    BY <1>5, <1>8 DEF RetryLater, Advance, Row
  <2>2. \A k \in Key : k.epoch \in Nat
    BY ConstantsAssumption DEF Key, Epoch
  <2> QED
    BY <1>2, <1>5, <2>1, <2>2 DEF KeysSpent, SubmittedOnce
<1> QED
  BY <1>1, <1>6, <1>7, <1>8

\* The other steps of a worker write a row that holds a marker, or is held or
\* closed; the marker of an attempt is written over a row that had none.
LEMMA WritesKeepKeys ==
    ASSUME PlanLength = 0, IInv, KeysSpent, NEW w \in Worker,
           \/ QuarantineResidue(w) \/ Prepare(w) \/ RecordAccepted(w)
           \/ CompleteFinal(w) \/ ReconcileLater(w) \/ ReconcileFailure(w)
           \/ ReconcileFinal(w)
    PROVE  KeysSpent'
<1>1. /\ posts' = posts /\ row \in Row /\ sess \in [Worker -> Session]
      /\ sess[w].pc # "out"
  BY DEF QuarantineResidue, Prepare, RecordAccepted, CompleteFinal,
         ReconcileLater, ReconcileFailure, ReconcileFinal, IInv, TypeOK
<1>2. \A v \in Worker : v # w => sess'[v] = sess[v]
  BY <1>1 DEF QuarantineResidue, Prepare, RecordAccepted, CompleteFinal,
              ReconcileLater, ReconcileFailure, ReconcileFinal, Goto, GotoWith
<1>3. CASE Prepare(w)
  <2>1. Fresh /\ row'.epoch = row.epoch
    BY <1>3, FreshRow, MarkerWritten DEF Fresh, Prepare
  <2> QED
    BY <1>1, <2>1, KeysKept
<1>4. CASE QuarantineResidue(w)
  <2>1. row'.epoch = row.epoch /\ row'.recon # "none"
    BY <1>4, ResidueWritten
  <2>2. sess'[w].pc # "prepared"
    BY <1>1, <1>4 DEF QuarantineResidue, Finished, Outside
  <2> QED
    BY <1>1, <1>2, <2>1, <2>2, KeysPutAway
<1>5. CASE RecordAccepted(w)
  <2>1. row'.epoch = row.epoch /\ row'.recon # "none"
    BY <1>1, <1>5 DEF RecordAccepted, Row
  <2>2. sess'[w].pc # "prepared"
    BY <1>1, <1>5 DEF RecordAccepted, GotoWith, Session
  <2> QED
    BY <1>1, <1>2, <2>1, <2>2, KeysPutAway
<1>6. CASE CompleteFinal(w)
  <2>1. row'.epoch = row.epoch /\ row'.status = "completed"
    BY <1>1, <1>6 DEF CompleteFinal, Cleared, Row
  <2>2. sess'[w].pc # "prepared"
    BY <1>1, <1>6 DEF CompleteFinal, Finished, Outside
  <2> QED
    BY <1>1, <1>2, <2>1, <2>2, KeysPutAway
<1>7. CASE ReconcileLater(w) \/ ReconcileFailure(w) \/ ReconcileFinal(w)
  <2>1. row.recon # "none"
    BY <1>7 DEF ReconcileLater, ReconcileFailure, ReconcileFinal, Reconcilable
  <2>2. /\ row'.epoch = row.epoch
        /\ row'.status \in {"failed", "completed"} \/ row'.recon # "none"
    BY <1>1, <1>7, <2>1
       DEF ReconcileLater, ReconcileFailure, ReconcileFinal, Cleared, Row
  <2>3. sess'[w].pc # "prepared"
    BY <1>1, <1>7
       DEF ReconcileLater, ReconcileFailure, ReconcileFinal, Goto, Session
  <2> QED
    BY <1>1, <1>2, <2>2, <2>3, KeysPutAway
<1> QED
  BY <1>3, <1>4, <1>5, <1>6, <1>7

\* Every step keeps the books of the keys.
LEMMA StepKeepsKeys ==
    ASSUME PlanLength = 0, IInv, KeysSpent, [Next]_vars
    PROVE  KeysSpent'
<1>1. ASSUME NEW w \in Worker, WorkerStep(w) \/ Start(w) \/ Crash(w)
      PROVE  KeysSpent'
  BY <1>1, NoPlan, MovesKeepKeys, PostSpendsKey, SettleKeepsKeys, WritesKeepKeys
     DEF WorkerStep, Submission, ReconcilePass
<1>2. CASE MakeQuarantineGetEligible \/ BackoffElapses
  <2>1. row \in Row
    BY DEF IInv, TypeOK
  <2>2. /\ posts' = posts /\ sess' = sess /\ row'.epoch = row.epoch
        /\ row'.status = row.status
        /\ row'.recon = "none" => row.recon = "none"
    BY <1>2, <2>1 DEF MakeQuarantineGetEligible, BackoffElapses, Row
  <2> QED
    BY <2>2, KeysKept DEF Fresh, Open
<1>3. CASE Broker \/ UNCHANGED vars
  BY <1>3, RowKept DEF Broker, TaskEnds, ResolveTask, vars
<1> QED
  BY <1>1, <1>2, <1>3 DEF Next

\* No key of a stage that is one operation is POSTed twice, whatever crashes, times
\* out or is reconciled (attempt: "never re-submitted"); with a plan the key of a
\* reconciled partial summary is.
THEOREM EachKeyOnce == PlanLength = 0 /\ Spec => []SubmittedOnce
<1> SUFFICES ASSUME PlanLength = 0 PROVE Spec => []SubmittedOnce
  OBVIOUS
<1>1. Init => KeysSpent
  BY DEF Init, KeysSpent, SubmittedOnce
<1>2. IInv /\ KeysSpent /\ [Next]_vars => KeysSpent'
  BY StepKeepsKeys
<1>3. KeysSpent => SubmittedOnce
  BY DEF KeysSpent
<1>4. Spec => []IInv
  BY InductiveInvariant
<1> QED
  BY <1>1, <1>2, <1>3, <1>4, PTL DEF Spec
=============================================================================
