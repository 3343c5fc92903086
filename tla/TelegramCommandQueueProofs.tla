--------------------- MODULE TelegramCommandQueueProofs ---------------------
(***************************************************************************)
(* Theorems about TelegramCommandQueue.  IInv is an invariant whether or   *)
(* not the lock can be lost; under the exclusive lock the queue also       *)
(* implements CommandLedger.                                               *)
(*                                                                         *)
(* All steps but Accept and Claim move every row as Evolves allows, which  *)
(* is all that the parts of IInv need to know of them.                     *)
(***************************************************************************)
EXTENDS TelegramCommandQueue, FiniteSetTheorems, TLAPS

Closed == {"sent", "failed", "suppressed"}

\* The way of a row through the queue, when nothing is accepted or claimed: a
\* lease is kept or given up, a decision and a closed reply stay.
Evolves(old, new) ==
    /\ new \in Row /\ RowShape(new)
    /\ new.video = old.video /\ new.replies = old.replies
    /\ (new.status = "absent") = (old.status = "absent")
    /\ new.status \in Unsettled => old.status \in Unsettled
    /\ old.status \in Terminal => new.status = old.status
    /\ old.reply \in Closed => new.reply = old.reply
    /\ new.token # None =>
          new.token = old.token /\ new.status = old.status /\ new.reply = old.reply

-----------------------------------------------------------------------------
(* Rows.                                                                   *)

\* The values the actions write have their types.
LEMMA Values ==
    /\ "absent" \in Status /\ "pending" \in Status
    /\ "processing" \in Status /\ "pending_retry" \in Status
    /\ "completed" \in Status /\ "failed" \in Status /\ "rejected" \in Status
    /\ "pending" \in ReplyStatus /\ "sending" \in ReplyStatus
    /\ "sent" \in ReplyStatus /\ "failed" \in ReplyStatus
    /\ "suppressed" \in ReplyStatus /\ "pending_retry" \in ReplyStatus
    /\ None \in Worker \union {None} /\ None \in Video \union {None}
    /\ TRUE \in BOOLEAN /\ FALSE \in BOOLEAN
BY DEF Status, ReplyStatus, ReplyDue, Unsettled, Terminal

\* What is not touched evolves.
LEMMA EvolvesRefl ==
    ASSUME NEW row \in Row, RowShape(row)
    PROVE  Evolves(row, row)
BY DEF Evolves

\* Two moves in a row are a move.
LEMMA EvolvesTrans ==
    ASSUME NEW a \in Row, RowShape(a), NEW b, NEW c, Evolves(a, b), Evolves(b, c)
    PROVE  Evolves(a, c)
BY DEF Evolves, RowShape, Unsettled, Terminal, Closed

\* Freed gives up the lease and nothing else.
LEMMA FreedRow ==
    ASSUME NEW row \in Row
    PROVE  /\ Freed(row) \in Row
           /\ Freed(row).token = None /\ ~Freed(row).expired
           /\ Freed(row).video = row.video /\ Freed(row).status = row.status
           /\ Freed(row).attempts = row.attempts
           /\ Freed(row).resolved = row.resolved
           /\ Freed(row).reply = row.reply /\ Freed(row).replies = row.replies
           /\ Freed(row).waits = row.waits
<1>1. Freed(row) \in Row
  BY Values, ZenonT(60) DEF Freed, Row
<1> QED
  BY <1>1 DEF Freed, Row

\* _recover_stale_claims: an expired claim is given up and taken up again later.
LEMMA RecoveredRow ==
    ASSUME NEW row \in Row, RowShape(row)
    PROVE  /\ Evolves(row, Recovered(row))
           /\ Recovered(row).status = "completed" => row.status = "completed"
           /\ row.token # None /\ ~row.expired => Recovered(row) = row
<1>1. CASE ~row.expired
  BY <1>1, EvolvesRefl DEF Recovered
<1>2. CASE row.expired /\ row.status = "processing"
  <2> DEFINE f == Freed(row)
  <2>1. /\ f \in Row /\ f.token = None /\ ~f.expired /\ f.video = row.video
        /\ f.status = row.status /\ f.reply = row.reply
        /\ f.replies = row.replies
    BY FreedRow
  <2>2. Recovered(row) = [f EXCEPT !.status = "pending_retry", !.waits = FALSE]
    BY <1>2 DEF Recovered
  <2> HIDE DEF f
  <2>3. Recovered(row) \in Row
    BY <2>1, <2>2, Values, ZenonT(60) DEF Row
  <2> QED
    BY <1>2, <2>1, <2>2, <2>3
       DEF Evolves, RowShape, Row, Unsettled, Terminal, Closed
<1>3. CASE row.expired /\ row.status # "processing"
  <2> DEFINE f == Freed(row)
  <2>1. /\ f \in Row /\ f.token = None /\ ~f.expired /\ f.video = row.video
        /\ f.status = row.status /\ f.reply = row.reply
        /\ f.replies = row.replies
    BY FreedRow
  <2>2. Recovered(row) = [f EXCEPT !.reply = "pending_retry", !.waits = FALSE]
    BY <1>3 DEF Recovered
  <2> HIDE DEF f
  <2>3. Recovered(row) \in Row
    BY <2>1, <2>2, Values, ZenonT(60) DEF Row
  <2> QED
    BY <1>3, <2>1, <2>2, <2>3
       DEF Evolves, RowShape, Row, Unsettled, Terminal, Closed
<1> QED
  BY <1>1, <1>2, <1>3

\* _terminalize_exhausted_requests: what is exhausted was not claimed.
LEMMA ExhaustedRow ==
    ASSUME NEW row \in Row, RowShape(row)
    PROVE  /\ Evolves(row, Exhausted(row))
           /\ Exhausted(row).status = "completed" => row.status = "completed"
           /\ row.token # None => Exhausted(row) = row
           /\ ReplyIsDue(Exhausted(row)) =>
                 Exhausted(row).replies < ReplyMaxAttempts
<1>1. CASE /\ row.status \in {"pending", "pending_retry"}
           /\ row.attempts >= MaxAttempts
  <2>1. Exhausted(row) = [row EXCEPT !.status = "failed", !.waits = FALSE]
    BY <1>1 DEF Exhausted, Terminal
  <2>2. Exhausted(row) \in Row
    BY <2>1, Values, ZenonT(60) DEF Row
  <2>3. row.token = None /\ row.reply = "pending"
    BY <1>1 DEF RowShape, Terminal
  <2> QED
    BY <1>1, <2>1, <2>2, <2>3, QueueAssumption
       DEF Evolves, RowShape, Row, Unsettled, Terminal, Closed, ReplyIsDue
<1>2. CASE /\ row.status \in Terminal
           /\ row.reply \in ReplyDue
           /\ row.replies >= ReplyMaxAttempts
  <2>1. Exhausted(row) = [row EXCEPT !.reply = "failed", !.waits = FALSE]
    BY <1>2 DEF Exhausted, Terminal
  <2>2. Exhausted(row) \in Row
    BY <2>1, Values, ZenonT(60) DEF Row
  <2>3. row.token = None
    BY <1>2 DEF RowShape, Terminal, ReplyDue
  <2> QED
    BY <1>2, <2>1, <2>2, <2>3
       DEF Evolves, RowShape, Row, Unsettled, Terminal, Closed, ReplyIsDue,
           ReplyDue
<1>3. CASE /\ ~(/\ row.status \in {"pending", "pending_retry"}
                /\ row.attempts >= MaxAttempts)
           /\ ~(/\ row.status \in Terminal
                /\ row.reply \in ReplyDue
                /\ row.replies >= ReplyMaxAttempts)
  <2>1. Exhausted(row) = row
    BY <1>3 DEF Exhausted
  <2> QED
    BY <1>3, <2>1, EvolvesRefl, QueueAssumption DEF ReplyIsDue, Row
<1> QED
  BY <1>1, <1>2, <1>3

\* The housekeeping of one row: what is due afterwards is nobody's claim, and has
\* a reply left if it is a reply that is due.
LEMMA HousekeptRow ==
    ASSUME IInv, NEW r \in Request
    PROVE  /\ Evolves(req[r], Housekept[r])
           /\ Housekept[r].status = "completed" => req[r].status = "completed"
           /\ req[r].token # None /\ ~req[r].expired => Housekept[r] = req[r]
           /\ ReplyIsDue(Housekept[r]) => Housekept[r].replies < ReplyMaxAttempts
           /\ ProcessingIsDue(Housekept[r]) \/ ReplyIsDue(Housekept[r]) =>
                 Housekept[r].token = None
<1> DEFINE row == req[r]
           mid == Recovered(row)
           new == Exhausted(mid)
<1>1. row \in Row /\ RowShape(row)
  BY DEF IInv, TypeOK
<1>2. /\ Evolves(row, mid)
      /\ mid.status = "completed" => row.status = "completed"
      /\ row.token # None /\ ~row.expired => mid = row
  BY <1>1, RecoveredRow
<1>3. mid \in Row /\ RowShape(mid)
  BY <1>2 DEF Evolves
<1>4. /\ Evolves(mid, new)
      /\ new.status = "completed" => mid.status = "completed"
      /\ mid.token # None => new = mid
      /\ ReplyIsDue(new) => new.replies < ReplyMaxAttempts
  BY <1>3, ExhaustedRow
<1>5. Housekept[r] = new
  BY DEF Housekept
<1> HIDE DEF mid, new
<1>6. Evolves(row, new)
  BY <1>1, <1>2, <1>4, EvolvesTrans
<1>7. ProcessingIsDue(new) \/ ReplyIsDue(new) => new.token = None
  BY <1>6 DEF Evolves, RowShape, ProcessingIsDue, ReplyIsDue, Terminal, ReplyDue
<1> QED
  BY <1>2, <1>4, <1>5, <1>6, <1>7

\* _conditional_update: the row of a call that holds its lease.
LEMMA WrittenRow ==
    ASSUME NEW row \in Row, RowShape(row), row.status = "processing",
           NEW status \in {"pending_retry", "completed", "failed", "rejected"},
           NEW new \in Row,
           new.video = row.video, new.status = status, new.reply = row.reply,
           new.replies = row.replies, new.token = row.token,
           new.expired = row.expired
    PROVE  Evolves(row, Freed(new)) /\ Freed(new).status = status
<1>1. /\ Freed(new) \in Row
      /\ Freed(new).token = None /\ ~Freed(new).expired
      /\ Freed(new).video = new.video /\ Freed(new).status = new.status
      /\ Freed(new).reply = new.reply /\ Freed(new).replies = new.replies
  BY FreedRow
<1>2. row.reply = "pending" /\ row.video # None
  BY DEF RowShape, Unsettled, Terminal
<1> QED
  BY <1>1, <1>2 DEF Evolves, RowShape, Unsettled, Terminal, Closed

\* _finish_processing, with or without the video it has just learnt.
LEMMA FinishedRow ==
    ASSUME NEW row \in Row, RowShape(row), row.status = "processing",
           NEW status \in {"pending_retry", "completed", "failed", "rejected"}
    PROVE  /\ Finished(row, status) \in Row
           /\ Finished(Resolved(row), status) \in Row
           /\ Evolves(row, Freed(Finished(row, status)))
           /\ Freed(Finished(row, status)).status = status
           /\ Evolves(row, Freed(Finished(Resolved(row), status)))
           /\ Freed(Finished(Resolved(row), status)).status = status
<1> DEFINE known == Resolved(row)
<1>1. known \in Row
  BY Values, ZenonT(60) DEF Resolved, Row
<1>2. /\ known.video = row.video /\ known.status = row.status
      /\ known.reply = row.reply /\ known.replies = row.replies
      /\ known.token = row.token /\ known.expired = row.expired
  BY <1>1 DEF Resolved, Row
<1> HIDE DEF known
<1>3. ASSUME NEW old \in Row,
             old.video = row.video, old.status = row.status,
             old.reply = row.reply, old.replies = row.replies,
             old.token = row.token, old.expired = row.expired
      PROVE  /\ Finished(old, status) \in Row
             /\ Evolves(row, Freed(Finished(old, status)))
             /\ Freed(Finished(old, status)).status = status
  <2> DEFINE new == Finished(old, status)
  <2>1. status \in Status
    BY Values
  <2>2. (status = "pending_retry") \in BOOLEAN
    OBVIOUS
  <2>3. new \in Row
    BY <2>1, <2>2, ZenonT(60) DEF Finished, Row
  <2>4. /\ new.video = row.video /\ new.status = status
        /\ new.reply = row.reply /\ new.replies = row.replies
        /\ new.token = row.token /\ new.expired = row.expired
    BY <1>3, <2>3 DEF Finished, Row
  <2> HIDE DEF new
  <2>5. Evolves(row, Freed(new)) /\ Freed(new).status = status
    BY <2>3, <2>4, WrittenRow DEF Row
  <2> QED
    BY <2>3, <2>5 DEF new
<1>4. Finished(row, status) \in Row
      /\ Evolves(row, Freed(Finished(row, status)))
      /\ Freed(Finished(row, status)).status = status
  BY <1>3
<1>5. Finished(known, status) \in Row
      /\ Evolves(row, Freed(Finished(known, status)))
      /\ Freed(Finished(known, status)).status = status
  BY <1>1, <1>2, <1>3
<1> QED
  BY <1>4, <1>5 DEF known

-----------------------------------------------------------------------------
(* Moves: what every step but Accept and Claim does.                       *)

TableMove ==
    /\ req' \in [Request -> Row]
    /\ \A r \in Request : Evolves(req[r], req'[r])
    /\ content' \in [Video -> Content]
    /\ \A v \in Video : content[v] = "done" => content'[v] = "done"
    /\ \A r \in Request :
          req'[r].status = "completed" =>
              req[r].status = "completed" \/ content'[req'[r].video] = "done"

\* A call stays where it is, returns, or goes on with the request it has.
SessionMove(w) ==
    \/ sess'[w] = sess[w]
    \/ sess'[w].pc = "out"
    \/ /\ sess[w].pc # "out" /\ sess'[w].r = sess[w].r
       /\ sess'[w].pc \in Working => sess[w].pc \in Working
       /\ sess'[w].pc \in Answering => sess[w].pc \in Answering
       /\ sess'[w].pc \in {"replying", "sending"} =>
             sess[w].pc \in {"replying", "sending"}
       /\ sess'[w].pc = "advanced" =>
             /\ sess'[w].outcome \in {"completed", "failed", "later"}
             /\ sess'[w].outcome = "completed" =>
                   content'[Claimed(w).video] = "done"

\* A lease that has not run out is given up only by the call that holds it.
Fenced ==
    \A r \in Request :
        req[r].token # None /\ ~req[r].expired /\ req'[r].token # req[r].token
            => sess'[req[r].token] = Outside /\ sess[req[r].token].r = r

Move ==
    /\ TableMove
    /\ sess' \in [Worker -> Session]
    /\ \A w \in Worker : SessionMove(w)
    /\ Fenced
    /\ lock' \in Worker \union {None}
    /\ allowed' \in BOOLEAN

\* A move keeps everything that is said of table and sessions.
LEMMA MoveKeeps ==
    ASSUME IInv, Move
    PROVE  /\ \A r \in Request : RowShape(req'[r])
           /\ AcceptedInOrder' /\ LeaderWorksAlone' /\ CompletedHasSummary'
           /\ \A w \in Worker : SessionAgrees(w)'
<1> USE DEF IInv
<1>1. \A r \in Request : Evolves(req[r], req'[r])
  BY DEF Move, TableMove
<1>2. \A r \in Request : RowShape(req'[r])
  BY <1>1 DEF Evolves
<1>3. AcceptedInOrder'
  BY <1>1 DEF AcceptedInOrder, Evolves
<1>4. LeaderWorksAlone'
  <2> SUFFICES ASSUME NEW q \in Request, NEW r \in Request,
                      q < r, req'[r].status = "processing",
                      req'[q].status \in Unsettled
               PROVE  req'[q].video # req'[r].video
    BY DEF LeaderWorksAlone
  <2>1. Evolves(req[q], req'[q]) /\ Evolves(req[r], req'[r])
    BY <1>1
  <2>2. req'[r].token # None
    BY <1>2 DEF RowShape
  <2>3. req[r].status = "processing"
    BY <2>1, <2>2 DEF Evolves
  <2>4. req[q].status \in Unsettled
    BY <2>1 DEF Evolves
  <2>5. req[q].video # req[r].video
    BY <2>3, <2>4 DEF LeaderWorksAlone
  <2> QED
    BY <2>1, <2>5 DEF Evolves
<1>5. CompletedHasSummary'
  <2> SUFFICES ASSUME NEW r \in Request, req'[r].status = "completed"
               PROVE  content'[req'[r].video] = "done"
    BY DEF CompletedHasSummary
  <2>1. CASE req[r].status = "completed"
    <3>1. content[req[r].video] = "done" /\ req'[r].video = req[r].video
      BY <1>1, <2>1 DEF CompletedHasSummary, Evolves
    <3>2. req[r].video \in Video \union {None}
      BY DEF TypeOK, Row
    <3>3. req[r].video # None
      BY <2>1 DEF RowShape
    <3> QED
      BY <3>1, <3>2, <3>3 DEF Move, TableMove
  <2> QED
    BY <2>1 DEF Move, TableMove
<1>6. ASSUME NEW w \in Worker PROVE SessionAgrees(w)'
  <2>1. SessionAgrees(w) /\ SessionMove(w)
    BY DEF Move
  <2>2. CASE sess'[w].pc = "out"
    BY <2>2 DEF SessionAgrees, Working, Answering
  <2>3. CASE sess[w].pc = "out" /\ sess'[w] = sess[w]
    BY <2>2, <2>3
  <2>4. CASE /\ sess[w].pc # "out" /\ sess'[w].pc # "out"
             /\ sess'[w].r = sess[w].r
             /\ sess'[w].pc \in Working => sess[w].pc \in Working
             /\ sess'[w].pc \in Answering => sess[w].pc \in Answering
             /\ sess'[w].pc = "advanced" =>
                   /\ sess'[w].outcome \in {"completed", "failed", "later"}
                   /\ sess'[w].outcome = "completed" =>
                         content'[Claimed(w).video] = "done"
    <3>1. PICK r \in Request : r = sess[w].r
      BY <2>1, <2>4 DEF SessionAgrees
    <3>2. Evolves(req[r], req'[r]) /\ RowShape(req'[r])
      BY <1>1, <1>2
    <3>3. Claimed(w) = req[r] /\ Claimed(w)' = req'[r]
      BY <2>4, <3>1 DEF Claimed
    <3>4. sess'[w].pc \in Working =>
             /\ req[r].video # None
             /\ req[r].token = w => req[r].status = "processing"
      BY <2>1, <2>4, <3>3 DEF SessionAgrees, Owns
    <3>5. sess'[w].pc \in Answering =>
             (req[r].token = w => req[r].reply = "sending")
      BY <2>1, <2>4, <3>3 DEF SessionAgrees, Owns
    <3>6. w # None
      BY QueueAssumption
    <3>7. req'[r].video = req[r].video /\ req'[r].status # "absent"
      BY <2>1, <2>4, <3>2, <3>3 DEF Evolves, SessionAgrees
    <3>8. req'[r].token = w =>
             /\ req[r].token = w /\ req'[r].status = req[r].status
             /\ req'[r].reply = req[r].reply
      BY <3>2, <3>6 DEF Evolves
    <3> QED
      BY <2>4, <3>1, <3>3, <3>4, <3>5, <3>7, <3>8 DEF SessionAgrees, Owns
  <2>5. CASE sess[w].pc # "out" /\ sess'[w] = sess[w]
    <3>1. sess[w].pc = "advanced" =>
            /\ sess[w].outcome \in {"completed", "failed", "later"}
            /\ sess[w].outcome = "completed" =>
                  content'[Claimed(w).video] = "done"
      <4> SUFFICES ASSUME sess[w].pc = "advanced"
                   PROVE  /\ sess[w].outcome \in {"completed", "failed", "later"}
                          /\ sess[w].outcome = "completed" =>
                                content'[Claimed(w).video] = "done"
        OBVIOUS
      <4>1. PICK r \in Request : r = sess[w].r
        BY <2>1, <2>5 DEF SessionAgrees
      <4>2. req[r].video \in Video
        BY <2>1, <4>1 DEF SessionAgrees, Working, Claimed, TypeOK, Row
      <4> QED
        BY <2>1, <4>1, <4>2 DEF SessionAgrees, Claimed, Move, TableMove
    <3> QED
      BY <2>4, <2>5, <3>1
  <2> QED
    BY <2>1, <2>2, <2>3, <2>4, <2>5 DEF SessionMove
<1> QED
  BY <1>2, <1>3, <1>4, <1>5, <1>6

\* No call is in flight that was not before, so the count holds.
LEMMA CountKeeps ==
    ASSUME IInv, Move, sends' = sends
    PROVE  Counted'
<1> SUFFICES ASSUME NEW r \in Request
             PROVE  sends'[r] + Cardinality(InFlight(r)') <= req'[r].replies
  BY DEF Counted
<1>1. InFlight(r)' \subseteq InFlight(r)
  BY DEF InFlight, Move, SessionMove
<1>2. IsFiniteSet(InFlight(r))
  BY QueueAssumption, FS_Subset DEF InFlight
<1>3. /\ Cardinality(InFlight(r)') <= Cardinality(InFlight(r))
      /\ Cardinality(InFlight(r)') \in Nat /\ Cardinality(InFlight(r)) \in Nat
  BY <1>1, <1>2, FS_Subset, FS_CardinalityType
<1>4. sends[r] + Cardinality(InFlight(r)) <= req[r].replies
  BY DEF IInv, Counted
<1>5. req'[r].replies = req[r].replies
  BY DEF Move, TableMove, Evolves
<1>6. sends[r] \in Nat /\ req[r].replies \in Nat
  BY DEF IInv, TypeOK, Row
<1> QED
  BY <1>3, <1>4, <1>5, <1>6

\* A move that sends nothing keeps the invariant.
LEMMA MoveInvariant ==
    ASSUME IInv, Move, sends' = sends
    PROVE  IInv'
<1>1. TypeOK'
  BY DEF IInv, TypeOK, Move, TableMove
<1> QED
  BY <1>1, MoveKeeps, CountKeeps DEF IInv

-----------------------------------------------------------------------------
(* The pieces steps are made of.                                           *)

\* A call returns (acquire_execution_lock).
LEMMA EndMoves ==
    ASSUME IInv, NEW w \in Worker, End(w)
    PROVE  /\ sess' \in [Worker -> Session] /\ lock' \in Worker \union {None}
           /\ \A v \in Worker : SessionMove(v)
           /\ sess'[w] = Outside
<1>1. Outside \in Session /\ Outside.pc = "out"
  BY DEF Outside, Session, Phase, Outcome
<1>2. sess \in [Worker -> Session] /\ lock \in Worker \union {None}
  BY DEF IInv, TypeOK
<1> QED
  BY <1>1, <1>2 DEF End, SessionMove

\* A call goes on.
LEMMA GotoMoves ==
    ASSUME IInv, NEW w \in Worker, NEW pc \in Phase, Goto(w, pc)
    PROVE  /\ sess' \in [Worker -> Session]
           /\ sess'[w].pc = pc /\ sess'[w].r = sess[w].r
           /\ \A v \in Worker : v # w => sess'[v] = sess[v]
<1> DEFINE s == [sess[w] EXCEPT !.pc = pc]
<1>1. sess \in [Worker -> Session] /\ sess[w] \in Session
  BY DEF IInv, TypeOK
<1>2. s \in Session /\ s.pc = pc /\ s.r = sess[w].r
  BY <1>1 DEF Session
<1>3. sess' = [sess EXCEPT ![w] = s]
  BY DEF Goto
<1> HIDE DEF s
<1> QED
  BY <1>1, <1>2, <1>3

\* The table is not touched, and no summary is lost.
LEMMA SameTable ==
    ASSUME IInv, req' = req, content' \in [Video -> Content],
           \A v \in Video : content[v] = "done" => content'[v] = "done"
    PROVE  TableMove /\ Fenced
<1>1. req \in [Request -> Row] /\ \A r \in Request : RowShape(req[r])
  BY DEF IInv, TypeOK
<1>2. \A r \in Request : Evolves(req[r], req'[r])
  BY <1>1, EvolvesRefl
<1> QED
  BY <1>1, <1>2 DEF TableMove, Fenced

\* One row evolves, and its lease is kept or given up by its call.
LEMMA OneRowMoves ==
    ASSUME IInv, NEW r \in Request, NEW new,
           Evolves(req[r], new), req' = [req EXCEPT ![r] = new],
           content' \in [Video -> Content],
           \A v \in Video : content[v] = "done" => content'[v] = "done",
           new.status = "completed" =>
               req[r].status = "completed" \/ content'[req[r].video] = "done",
           \/ new.token = req[r].token
           \/ sess'[req[r].token] = Outside /\ sess[req[r].token].r = r
    PROVE  TableMove /\ Fenced
<1>1. req \in [Request -> Row] /\ \A q \in Request : RowShape(req[q])
  BY DEF IInv, TypeOK
<1>2. new \in Row /\ new.video = req[r].video
  BY DEF Evolves
<1>3. req' \in [Request -> Row] /\ req'[r] = new
      /\ \A q \in Request : q # r => req'[q] = req[q]
  BY <1>1, <1>2
<1>4. ASSUME NEW q \in Request PROVE Evolves(req[q], req'[q])
  BY <1>1, <1>3, EvolvesRefl
<1>5. TableMove
  BY <1>2, <1>3, <1>4 DEF TableMove
<1>6. Fenced
  BY <1>3 DEF Fenced
<1> QED
  BY <1>5, <1>6

\* _conditional_update: what a call writes reaches its own claim or nothing.
LEMMA UpdateMoves ==
    ASSUME IInv, NEW w \in Worker, sess[w].pc # "out", NEW new,
           ConditionalUpdate(w, new), sess'[w] = Outside,
           Owns(w) => Evolves(Claimed(w), Freed(new)),
           content' \in [Video -> Content],
           \A v \in Video : content[v] = "done" => content'[v] = "done",
           Owns(w) /\ Freed(new).status = "completed" =>
               \/ Claimed(w).status = "completed"
               \/ content'[Claimed(w).video] = "done"
    PROVE  TableMove /\ Fenced
<1>1. PICK r \in Request : r = sess[w].r
  BY DEF IInv, SessionAgrees
<1>2. Claimed(w) = req[r] /\ (Owns(w) = (req[r].token = w))
  BY <1>1 DEF Claimed, Owns
<1>3. CASE Owns(w)
  <2>1. req' = [req EXCEPT ![r] = Freed(new)]
    BY <1>1, <1>3 DEF ConditionalUpdate
  <2> DEFINE row == Freed(new)
  <2>2. req' = [req EXCEPT ![r] = row] /\ Evolves(req[r], row)
    BY <1>2, <1>3, <2>1
  <2>3. row.status = "completed" =>
            req[r].status = "completed" \/ content'[req[r].video] = "done"
    BY <1>2, <1>3
  <2> HIDE DEF row
  <2>4. sess'[req[r].token] = Outside /\ sess[req[r].token].r = r
    BY <1>1, <1>2, <1>3
  <2> QED
    BY <2>2, <2>3, <2>4, OneRowMoves
<1>4. CASE ~Owns(w)
  <2>1. req \in [Request -> Row]
    BY DEF IInv, TypeOK
  <2>2. req' = req
    BY <1>1, <1>4, <2>1 DEF ConditionalUpdate
  <2> QED
    BY <2>2, SameTable
<1> QED
  BY <1>3, <1>4

-----------------------------------------------------------------------------
(* The steps.                                                              *)

\* Steps that leave the table alone: a call goes on, returns or dies, the lock
\* drops, the settings change, or the automatic pipeline works on a video.
LEMMA QuietSteps ==
    ASSUME IInv,
           \/ \E w \in Worker :
                 \/ LeaseIsLost(w) \/ VideoIsKnown(w) \/ LookupSucceeds(w)
                 \/ CheckOwnership(w) \/ Abort(w) \/ DropLock(w)
           \/ Reconfigure \/ UNCHANGED vars
           \/ \E v \in Video : AutomaticPipeline(v)
    PROVE  Move /\ sends' = sends
<1> USE DEF IInv
<1>1. TypeOK
  OBVIOUS
<1>2. ASSUME NEW w \in Worker, LeaseIsLost(w) \/ Abort(w)
      PROVE  Move /\ sends' = sends
  <2>1. /\ End(w) /\ req' = req /\ content' = content /\ allowed' = allowed
        /\ sends' = sends
    BY <1>2 DEF LeaseIsLost, Abort
  <2> QED
    BY <1>1, <2>1, EndMoves, SameTable DEF Move, TypeOK
<1>3. ASSUME NEW w \in Worker, VideoIsKnown(w) \/ LookupSucceeds(w)
      PROVE  Move /\ sends' = sends
  <2>1. /\ Goto(w, "content") /\ sess[w].pc \in {"claimed", "lookup"}
        /\ req' = req /\ content' = content /\ allowed' = allowed
        /\ sends' = sends /\ lock' = lock
    BY <1>3 DEF VideoIsKnown, LookupSucceeds
  <2>2. /\ sess' \in [Worker -> Session]
        /\ sess'[w].pc = "content" /\ sess'[w].r = sess[w].r
        /\ \A u \in Worker : u # w => sess'[u] = sess[u]
    BY <2>1, GotoMoves DEF Phase
  <2>3. \A u \in Worker : SessionMove(u)
    BY <2>1, <2>2 DEF SessionMove, Working, Answering
  <2> QED
    BY <1>1, <2>1, <2>2, <2>3, SameTable DEF Move, TypeOK
<1>4. ASSUME NEW w \in Worker, CheckOwnership(w)
      PROVE  Move /\ sends' = sends
  <2>1. /\ Goto(w, "sending") /\ sess[w].pc = "replying"
        /\ req' = req /\ content' = content /\ allowed' = allowed
        /\ sends' = sends /\ lock' = lock
    BY <1>4 DEF CheckOwnership
  <2>2. /\ sess' \in [Worker -> Session]
        /\ sess'[w].pc = "sending" /\ sess'[w].r = sess[w].r
        /\ \A u \in Worker : u # w => sess'[u] = sess[u]
    BY <2>1, GotoMoves DEF Phase
  <2>3. \A u \in Worker : SessionMove(u)
    BY <2>1, <2>2 DEF SessionMove, Working, Answering
  <2> QED
    BY <1>1, <2>1, <2>2, <2>3, SameTable DEF Move, TypeOK
<1>5. CASE (\E w \in Worker : DropLock(w)) \/ Reconfigure \/ UNCHANGED vars
  <2>1. /\ req' = req /\ content' = content /\ sess' = sess /\ sends' = sends
        /\ lock' \in Worker \union {None} /\ allowed' \in BOOLEAN
    BY <1>1, <1>5 DEF DropLock, Reconfigure, vars, TypeOK
  <2> QED
    BY <1>1, <2>1, SameTable DEF Move, SessionMove, TypeOK
<1>6. ASSUME NEW v \in Video, AutomaticPipeline(v)
      PROVE  Move /\ sends' = sends
  <2>1. PICK c \in Content : content' = [content EXCEPT ![v] = c]
    BY <1>6 DEF AutomaticPipeline
  <2>2. /\ req' = req /\ sess' = sess /\ sends' = sends /\ lock' = lock
        /\ allowed' = allowed /\ content[v] # "done"
    BY <1>6 DEF AutomaticPipeline
  <2>3. /\ content' \in [Video -> Content]
        /\ \A u \in Video : content[u] = "done" => content'[u] = "done"
    BY <1>1, <2>1, <2>2 DEF TypeOK
  <2> QED
    BY <1>1, <2>2, <2>3, SameTable DEF Move, SessionMove, TypeOK
<1> QED
  BY <1>2, <1>3, <1>4, <1>5, <1>6

\* The clocks, and the two writes a call makes on its way.
LEMMA RowSteps ==
    ASSUME IInv,
           \/ \E r \in Request : LeaseExpires(r) \/ WaitElapses(r)
           \/ \E w \in Worker : CountMetadataAttempt(w)
    PROVE  Move /\ sends' = sends
<1> USE DEF IInv
<1>1. TypeOK /\ \A r \in Request : req[r] \in Row /\ RowShape(req[r])
  BY DEF TypeOK
<1>2. ASSUME NEW r \in Request, LeaseExpires(r)
      PROVE  Move /\ sends' = sends
  <2> DEFINE new == [req[r] EXCEPT !.expired = TRUE]
  <2>1. req' = [req EXCEPT ![r] = new] /\ req[r].token # None
        /\ UNCHANGED <<content, allowed, lock, sess, sends>>
    BY <1>2 DEF LeaseExpires
  <2>2. new \in Row
    BY <1>1, ZenonT(60) DEF Row
  <2>3. Evolves(req[r], new) /\ new.token = req[r].token
        /\ new.status = req[r].status
    BY <1>1, <2>1, <2>2 DEF Evolves, RowShape, Row
  <2> HIDE DEF new
  <2>4. TableMove /\ Fenced
    BY <1>1, <2>1, <2>3, OneRowMoves DEF TypeOK
  <2> QED
    BY <1>1, <2>1, <2>4 DEF Move, SessionMove, TypeOK
<1>3. ASSUME NEW r \in Request, WaitElapses(r)
      PROVE  Move /\ sends' = sends
  <2> DEFINE new == [req[r] EXCEPT !.waits = FALSE]
  <2>1. req' = [req EXCEPT ![r] = new]
        /\ UNCHANGED <<content, allowed, lock, sess, sends>>
    BY <1>3 DEF WaitElapses
  <2>2. new \in Row
    BY <1>1, ZenonT(60) DEF Row
  <2>3. Evolves(req[r], new) /\ new.token = req[r].token
        /\ new.status = req[r].status
    BY <1>1, <2>1, <2>2 DEF Evolves, RowShape, Row
  <2> HIDE DEF new
  <2>4. TableMove /\ Fenced
    BY <1>1, <2>1, <2>3, OneRowMoves DEF TypeOK
  <2> QED
    BY <1>1, <2>1, <2>4 DEF Move, SessionMove, TypeOK
<1>4. ASSUME NEW w \in Worker, CountMetadataAttempt(w)
      PROVE  Move /\ sends' = sends
  <2>1. PICK q \in Request : q = sess[w].r
    BY <1>4 DEF SessionAgrees, CountMetadataAttempt
  <2> DEFINE new == [req[q] EXCEPT !.attempts = req[q].attempts + 1]
  <2>2. /\ req' = [req EXCEPT ![q] = new] /\ Goto(w, "lookup")
        /\ sess[w].pc = "claimed"
        /\ UNCHANGED <<content, allowed, lock, sends>>
    BY <1>4, <2>1 DEF CountMetadataAttempt
  <2>3. req[q] \in Row /\ RowShape(req[q])
    BY DEF TypeOK
  <2>4. req[q].attempts + 1 \in Nat
    BY <2>3 DEF Row
  <2>5. new \in Row
    BY <2>3, <2>4, ZenonT(60) DEF Row
  <2>6. Evolves(req[q], new) /\ new.token = req[q].token
        /\ new.status = req[q].status
    BY <2>3, <2>5 DEF Evolves, RowShape, Row
  <2> HIDE DEF new
  <2>7. TableMove /\ Fenced
    BY <1>1, <2>2, <2>6, OneRowMoves DEF TypeOK
  <2>8. /\ sess' \in [Worker -> Session]
        /\ sess'[w].pc = "lookup" /\ sess'[w].r = sess[w].r
        /\ \A u \in Worker : u # w => sess'[u] = sess[u]
    BY <2>2, GotoMoves DEF Phase
  <2>9. \A u \in Worker : SessionMove(u)
    BY <2>2, <2>8 DEF SessionMove, Working, Answering
  <2> QED
    BY <1>1, <2>2, <2>7, <2>8, <2>9 DEF Move, TypeOK
<1> QED
  BY <1>2, <1>3, <1>4

\* A call ends its processing: _finish_processing under the token.
LEMMA WorkingEnds ==
    ASSUME IInv, NEW w \in Worker, sess[w].pc \in Working,
           NEW status \in {"pending_retry", "completed", "failed", "rejected"},
           NEW new \in {Finished(Claimed(w), status),
                        Finished(Resolved(Claimed(w)), status)},
           ConditionalUpdate(w, new), End(w),
           content' \in [Video -> Content],
           \A v \in Video : content[v] = "done" => content'[v] = "done",
           Owns(w) /\ status = "completed" => content'[Claimed(w).video] = "done",
           allowed' = allowed
    PROVE  Move
<1> USE DEF IInv
<1>1. sess[w].pc # "out" /\ sess[w].r \in Request
  BY DEF Working, SessionAgrees
<1>2. Claimed(w) \in Row /\ RowShape(Claimed(w))
  BY <1>1 DEF Claimed, TypeOK
<1>3. ASSUME Owns(w)
      PROVE  Evolves(Claimed(w), Freed(new)) /\ Freed(new).status = status
  <2>1. Claimed(w).status = "processing"
    BY <1>3 DEF SessionAgrees
  <2> QED
    BY <1>2, <2>1, FinishedRow
<1>4. /\ sess' \in [Worker -> Session] /\ lock' \in Worker \union {None}
      /\ \A v \in Worker : SessionMove(v)
      /\ sess'[w] = Outside
  BY EndMoves
<1>5. TableMove /\ Fenced
  BY <1>1, <1>3, <1>4, UpdateMoves
<1> QED
  BY <1>4, <1>5 DEF Move, TypeOK

\* The lookup is paused: the attempt is given back with the claim.
LEMMA PausedStep ==
    ASSUME IInv, NEW w \in Worker, LookupPaused(w)
    PROVE  Move /\ sends' = sends
<1> USE DEF IInv
<1> DEFINE row == Claimed(w)
           f == Finished(row, "pending_retry")
           new == [f EXCEPT !.attempts = IF f.attempts > 0 THEN f.attempts - 1
                                         ELSE 0]
<1>1. /\ ConditionalUpdate(w, new) /\ End(w) /\ sess[w].pc = "lookup"
      /\ UNCHANGED <<content, allowed, sends>>
  BY DEF LookupPaused
<1>2. sess[w].r \in Request
  BY <1>1 DEF SessionAgrees
<1>3. row \in Row /\ RowShape(row)
  BY <1>2 DEF Claimed, TypeOK
<1>4. ASSUME Owns(w)
      PROVE  Evolves(row, Freed(new)) /\ Freed(new).status = "pending_retry"
  <2>1. row.status = "processing"
    BY <1>1, <1>4 DEF SessionAgrees, Working
  <2>2. f \in Row
    BY <1>3, <2>1, FinishedRow
  <2>3. /\ f.video = row.video /\ f.status = "pending_retry"
        /\ f.reply = row.reply /\ f.replies = row.replies
        /\ f.token = row.token /\ f.expired = row.expired
    BY <1>3, <2>2 DEF Finished, Row
  <2> HIDE DEF f, row
  <2>4. (IF f.attempts > 0 THEN f.attempts - 1 ELSE 0) \in Nat
    BY <2>2 DEF Row
  <2>5. new \in Row
    BY <2>2, <2>4, ZenonT(60) DEF Row
  <2>6. /\ new.video = row.video /\ new.status = "pending_retry"
        /\ new.reply = row.reply /\ new.replies = row.replies
        /\ new.token = row.token /\ new.expired = row.expired
    BY <2>2, <2>3, <2>5 DEF Row
  <2> HIDE DEF new
  <2> QED
    BY <1>3, <2>1, <2>5, <2>6, WrittenRow
<1>5. /\ sess' \in [Worker -> Session] /\ lock' \in Worker \union {None}
      /\ \A v \in Worker : SessionMove(v)
      /\ sess'[w] = Outside
  BY <1>1, EndMoves
<1> HIDE DEF new, row
<1>6. TableMove /\ Fenced
  BY <1>1, <1>4, <1>5, UpdateMoves DEF TypeOK, row
<1> QED
  BY <1>1, <1>5, <1>6 DEF Move, TypeOK

\* The other ends of _process_content.
LEMMA ProcessingEnds ==
    ASSUME IInv, NEW w \in Worker,
           \/ NotAuthenticated(w) \/ LookupFails(w) \/ ShortIsDisabled(w)
           \/ SummaryExists(w) \/ FinishAdvanced(w)
    PROVE  Move /\ sends' = sends
<1> USE DEF IInv
<1>1. content \in [Video -> Content]
  BY DEF TypeOK
<1>2. CASE NotAuthenticated(w)
  BY <1>1, <1>2, WorkingEnds DEF NotAuthenticated, Working
<1>3. CASE LookupFails(w)
  BY <1>1, <1>3, WorkingEnds DEF LookupFails, Working
<1>4. CASE ShortIsDisabled(w)
  BY <1>1, <1>4, WorkingEnds DEF ShortIsDisabled, Working
<1>5. CASE SummaryExists(w)
  BY <1>1, <1>5, WorkingEnds DEF SummaryExists, Working
<1>6. CASE FinishAdvanced(w)
  <2>1. /\ StatusOf(sess[w].outcome) \in {"pending_retry", "completed", "failed"}
        /\ StatusOf(sess[w].outcome) = "completed" =>
              content[Claimed(w).video] = "done"
    BY <1>6 DEF FinishAdvanced, SessionAgrees, StatusOf
  <2> QED
    BY <1>1, <1>6, <2>1, WorkingEnds DEF FinishAdvanced, Working
<1> QED
  BY <1>2, <1>3, <1>4, <1>5, <1>6

\* process_content_stages: completed means that there is a summary now.
LEMMA OutcomeMeaning ==
    ASSUME NEW before \in Content, NEW after \in Content
    PROVE  /\ ContentOutcome(before, after) \in {"completed", "failed", "later"}
           /\ ContentOutcome(before, after) = "completed" => after = "done"
           /\ StatusOf(ContentOutcome(before, after)) \in
                 {"pending_retry", "completed", "failed"}
           /\ StatusOf(ContentOutcome(before, after)) = "completed" =>
                 after = "done"
BY DEF ContentOutcome, StatusOf, Content

\* The pipeline works on the content: in the direct route with the end of the
\* call, in the broker route with its markers.
LEMMA PipelineSteps ==
    ASSUME IInv, NEW w \in Worker, AdvanceContent(w) \/ PipelineCommits(w)
    PROVE  Move /\ sends' = sends
<1> USE DEF IInv
<1> DEFINE v == Claimed(w).video
<1>1. sess[w].pc = "content" /\ content[v] # "done"
  BY DEF AdvanceContent, PipelineCommits
<1>2. PICK r \in Request : r = sess[w].r
  BY <1>1 DEF SessionAgrees
<1>3. /\ Claimed(w) = req[r] /\ req[r] \in Row /\ RowShape(req[r])
      /\ v \in Video
  BY <1>1, <1>2 DEF Claimed, TypeOK, Row, SessionAgrees, Working
<1>4. content \in [Video -> Content] /\ content[v] \in Content
  BY <1>3 DEF TypeOK
<1>5. \A c \in Advanced(content[v]) : c \in Content
  BY <1>4 DEF Advanced
<1>6. CASE AdvanceContent(w)
  <2>1. PICK c \in Advanced(content[v]) :
          /\ content' = IF Owns(w) THEN [content EXCEPT ![v] = c] ELSE content
          /\ ConditionalUpdate(w, Finished(Resolved(Claimed(w)),
                                      StatusOf(ContentOutcome(content[v], c))))
    BY <1>6 DEF AdvanceContent
  <2>2. /\ StatusOf(ContentOutcome(content[v], c)) \in
              {"pending_retry", "completed", "failed"}
        /\ StatusOf(ContentOutcome(content[v], c)) = "completed" => c = "done"
    BY <1>4, <1>5, <2>1, OutcomeMeaning
  <2>3. /\ content' \in [Video -> Content]
        /\ \A u \in Video : content[u] = "done" => content'[u] = "done"
        /\ Owns(w) => content'[v] = c
    BY <1>1, <1>3, <1>4, <1>5, <2>1
  <2>4. End(w) /\ allowed' = allowed /\ sends' = sends
    BY <1>6 DEF AdvanceContent
  <2> DEFINE status == StatusOf(ContentOutcome(content[v], c))
  <2>5. /\ status \in {"pending_retry", "completed", "failed", "rejected"}
        /\ ConditionalUpdate(w, Finished(Resolved(Claimed(w)), status))
        /\ Owns(w) /\ status = "completed" => content'[v] = "done"
    BY <2>1, <2>2, <2>3
  <2> HIDE DEF status
  <2> QED
    BY <1>1, <2>3, <2>4, <2>5, WorkingEnds DEF Working
<1>7. CASE PipelineCommits(w)
  <2> DEFINE new == [req[r] EXCEPT !.resolved = TRUE]
  <2>1. PICK c \in Advanced(content[v]) :
          /\ content' = [content EXCEPT ![v] = c]
          /\ sess' = [sess EXCEPT ![w].pc = "advanced",
                          ![w].outcome = ContentOutcome(content[v], c)]
    BY <1>7 DEF PipelineCommits
  <2>2. /\ ContentOutcome(content[v], c) \in {"completed", "failed", "later"}
        /\ ContentOutcome(content[v], c) = "completed" => c = "done"
    BY <1>4, <1>5, <2>1, OutcomeMeaning
  <2>3. /\ content' \in [Video -> Content] /\ content'[v] = c
        /\ \A u \in Video : content[u] = "done" => content'[u] = "done"
    BY <1>1, <1>3, <1>4, <1>5, <2>1
  <2>4. /\ req' = [req EXCEPT ![r] = new]
        /\ UNCHANGED <<allowed, lock, sends>>
    BY <1>2, <1>7 DEF PipelineCommits
  <2>5. new \in Row
    BY <1>3, ZenonT(60) DEF Row
  <2>6. Evolves(req[r], new) /\ new.token = req[r].token
        /\ new.status = req[r].status
    BY <1>3, <2>5 DEF Evolves, RowShape, Row
  <2> HIDE DEF new
  <2>7. TableMove /\ Fenced
    BY <2>3, <2>4, <2>6, OneRowMoves
  <2> DEFINE o == ContentOutcome(content[v], c)
             s == [sess[w] EXCEPT !.pc = "advanced", !.outcome = o]
  <2>8. sess \in [Worker -> Session] /\ sess[w] \in Session
    BY DEF TypeOK
  <2>9. o \in Outcome /\ "advanced" \in Phase
    BY <2>2 DEF Outcome, Phase
  <2>10. sess' = [sess EXCEPT ![w] = s]
    BY <2>1
  <2> HIDE DEF o
  <2>11. s \in Session /\ s.pc = "advanced" /\ s.r = sess[w].r /\ s.outcome = o
    BY <2>8, <2>9 DEF Session
  <2> HIDE DEF s
  <2>12. /\ sess' \in [Worker -> Session] /\ sess'[w] = s
         /\ \A u \in Worker : u # w => sess'[u] = sess[u]
    BY <2>8, <2>10, <2>11
  <2>13. SessionMove(w)
    BY <1>1, <2>2, <2>3, <2>11, <2>12 DEF SessionMove, Working, Answering, o
  <2>14. \A u \in Worker : SessionMove(u)
    BY <2>12, <2>13 DEF SessionMove
  <2> QED
    BY <2>4, <2>7, <2>12, <2>14 DEF Move, TypeOK
<1> QED
  BY <1>6, <1>7

\* What is written of a reply closes it, or leaves it due while replies are left.
LEMMA RepliedRow ==
    ASSUME NEW row \in Row, RowShape(row), row.reply = "sending", NEW outcome
    PROVE  /\ Evolves(row, Freed(Replied(row, outcome)))
           /\ Freed(Replied(row, outcome)).status = row.status
<1> DEFINE new == Replied(row, outcome)
<1>1. row.status \in Terminal /\ row.video = row.video
  BY DEF RowShape
<1>2. \/ new = [row EXCEPT !.reply = "sent"]
      \/ new = [row EXCEPT !.reply = "pending_retry", !.waits = TRUE]
      \/ new = [row EXCEPT !.reply = "failed"]
  BY DEF Replied
<1> HIDE DEF new
<1>3. new \in Row
  <2>1. CASE new = [row EXCEPT !.reply = "sent"]
    BY <2>1, Values, ZenonT(60) DEF Row
  <2>2. CASE new = [row EXCEPT !.reply = "pending_retry", !.waits = TRUE]
    BY <2>2, Values, ZenonT(60) DEF Row
  <2>3. CASE new = [row EXCEPT !.reply = "failed"]
    BY <2>3, Values, ZenonT(60) DEF Row
  <2> QED
    BY <1>2, <2>1, <2>2, <2>3
<1>4. /\ new.reply \in {"sent", "pending_retry", "failed"}
      /\ new.video = row.video /\ new.status = row.status
      /\ new.replies = row.replies
  BY <1>2, <1>3 DEF Row
<1>5. /\ Freed(new) \in Row
      /\ Freed(new).token = None /\ ~Freed(new).expired
      /\ Freed(new).video = new.video /\ Freed(new).status = new.status
      /\ Freed(new).reply = new.reply /\ Freed(new).replies = new.replies
  BY <1>3, FreedRow
<1>6. Evolves(row, Freed(new)) /\ Freed(new).status = row.status
  BY <1>1, <1>4, <1>5 DEF Evolves, RowShape, Unsettled, Terminal, Closed
<1> QED
  BY <1>6 DEF new

\* A call records what became of its reply.
LEMMA RecordReplyStep ==
    ASSUME IInv, NEW w \in Worker, RecordReply(w)
    PROVE  Move /\ sends' = sends
<1> USE DEF IInv
<1> DEFINE new == Replied(Claimed(w), sess[w].outcome)
<1>1. /\ ConditionalUpdate(w, new) /\ End(w) /\ sess[w].pc = "answered"
      /\ UNCHANGED <<content, allowed, sends>>
  BY DEF RecordReply
<1>2. sess[w].r \in Request
  BY <1>1 DEF SessionAgrees
<1>3. Claimed(w) \in Row /\ RowShape(Claimed(w))
  BY <1>2 DEF Claimed, TypeOK
<1>4. Owns(w) => /\ Evolves(Claimed(w), Freed(new))
                 /\ Freed(new).status = Claimed(w).status
  BY <1>1, <1>3, RepliedRow DEF SessionAgrees, Answering
<1>5. /\ sess' \in [Worker -> Session] /\ lock' \in Worker \union {None}
      /\ \A v \in Worker : SessionMove(v)
      /\ sess'[w] = Outside
  BY <1>1, EndMoves
<1> HIDE DEF new
<1>6. TableMove /\ Fenced
  BY <1>1, <1>4, <1>5, UpdateMoves DEF TypeOK
<1> QED
  BY <1>1, <1>5, <1>6 DEF Move, TypeOK

\* The reply leaves: what was in flight is sent now, if it arrives.
LEMMA SendReplyStep ==
    ASSUME IInv, NEW w \in Worker, SendReply(w)
    PROVE  /\ Move /\ IInv'
           /\ \E r \in Request :
                 /\ req[r].status \in Terminal /\ req'[r] = req[r]
                 /\ Owns(w) => req[r].reply = "sending"
                 /\ r = sess[w].r
                 /\ sends[r] < ReplyMaxAttempts
                 /\ sends' \in {sends, [sends EXCEPT ![r] = sends[r] + 1]}
<1> USE DEF IInv
<1>1. PICK outcome \in {"delivered", "retryable", "permanent"} :
        sess' = [sess EXCEPT ![w].pc = "answered", ![w].outcome = outcome]
  BY DEF SendReply
<1>2. PICK r \in Request : r = sess[w].r
  BY DEF SendReply, SessionAgrees
<1>3. /\ sess[w].pc = "sending" /\ UNCHANGED <<req, content, allowed, lock>>
      /\ sends' \in {sends, [sends EXCEPT ![r] = sends[r] + 1]}
  BY <1>2 DEF SendReply
<1> DEFINE s == [sess[w] EXCEPT !.pc = "answered", !.outcome = outcome]
<1>4. sess \in [Worker -> Session] /\ sess[w] \in Session /\ sends \in [Request -> Nat]
  BY DEF TypeOK
<1>5. s \in Session /\ s.pc = "answered" /\ s.r = r
  BY <1>2, <1>4 DEF Session, Outcome, Phase
<1>6. sess' = [sess EXCEPT ![w] = s]
  BY <1>1
<1> HIDE DEF s
<1>7. /\ sess' \in [Worker -> Session] /\ sess'[w] = s
      /\ \A u \in Worker : u # w => sess'[u] = sess[u]
  BY <1>4, <1>5, <1>6
<1>8. \A u \in Worker : SessionMove(u)
  BY <1>2, <1>3, <1>5, <1>7 DEF SessionMove, Working, Answering
<1>9. Move
  <2>1. TableMove /\ Fenced
    BY <1>3, SameTable DEF TypeOK
  <2> QED
    BY <1>3, <1>7, <1>8, <2>1 DEF Move, TypeOK
<1>10. /\ InFlight(r)' = InFlight(r) \ {w} /\ w \in InFlight(r)
       /\ \A q \in Request : q # r => InFlight(q)' = InFlight(q)
  BY <1>2, <1>3, <1>5, <1>7 DEF InFlight
<1>11. \A q \in Request :
         IsFiniteSet(InFlight(q)) /\ Cardinality(InFlight(q)) \in Nat
  BY QueueAssumption, FS_Subset, FS_CardinalityType DEF InFlight
<1>12. /\ Cardinality(InFlight(r)') = Cardinality(InFlight(r)) - 1
       /\ Cardinality(InFlight(r)) \in Nat \ {0}
  <2> DEFINE I == InFlight(r)
             J == InFlight(r)'
  <2>1. J = I \ {w} /\ w \in I /\ IsFiniteSet(I) /\ Cardinality(I) \in Nat
    BY <1>10, <1>11
  <2> HIDE DEF I, J
  <2>2. IsFiniteSet(I \ {w}) /\ Cardinality(I \ {w}) = Cardinality(I) - 1
    BY <2>1, FS_RemoveElement
  <2>3. Cardinality(J) = Cardinality(I) - 1
    BY <2>1, <2>2
  <2>4. Cardinality(J) \in Nat
    BY <2>1, <2>2, FS_CardinalityType
  <2> QED
    BY <2>1, <2>3, <2>4 DEF I, J
<1>13. Counted'
  <2> SUFFICES ASSUME NEW q \in Request
               PROVE  sends'[q] + Cardinality(InFlight(q)') <= req'[q].replies
    BY DEF Counted
  <2>1. /\ sends[q] + Cardinality(InFlight(q)) <= req[q].replies
        /\ sends[q] \in Nat /\ req[q].replies \in Nat /\ req'[q] = req[q]
    BY <1>3 DEF Counted, TypeOK, Row
  <2>2. CASE q = r
    <3>1. sends'[r] <= sends[r] + 1 /\ sends'[r] \in Nat
      BY <1>3, <1>4
    <3> HIDE DEF Counted
    <3> QED
      BY <1>12, <2>1, <2>2, <3>1
  <2>3. CASE q # r
    <3>1. sends'[q] = sends[q]
      BY <1>3, <1>4, <2>3
    <3> QED
      BY <1>10, <2>1, <2>3, <3>1
  <2> QED
    BY <2>2, <2>3
<1>14. sends[r] < ReplyMaxAttempts
  <2>1. /\ sends[r] + Cardinality(InFlight(r)) <= req[r].replies
        /\ sends[r] \in Nat /\ req[r].replies \in Nat
        /\ req[r].replies <= ReplyMaxAttempts
    BY DEF Counted, TypeOK, Row, RowShape
  <2> QED
    BY <1>12, <2>1, QueueAssumption
<1>15. sends' \in [Request -> Nat]
  BY <1>3, <1>4
<1>16. IInv'
  BY <1>9, <1>13, <1>15, MoveKeeps DEF Move, TableMove, TypeOK
<1>17. req[r].status \in Terminal
  <2>1. /\ sends[r] + Cardinality(InFlight(r)) <= req[r].replies
        /\ sends[r] \in Nat /\ req[r].replies \in Nat
        /\ RowShape(req[r])
    BY DEF Counted, TypeOK, Row
  <2>2. req[r].replies # 0
    BY <1>12, <2>1
  <2> QED
    BY <2>1, <2>2 DEF RowShape
<1>18. Owns(w) => req[r].reply = "sending"
  BY <1>2, <1>3 DEF SessionAgrees, Answering, Claimed, Owns
<1>19. req'[r] = req[r]
  BY <1>3
<1> QED
  BY <1>2, <1>3, <1>9, <1>14, <1>16, <1>17, <1>18, <1>19

\* A transaction of the claim step: housekeeping, and perhaps one row that
\* nobody holds goes on.
LEMMA TransactionMoves ==
    ASSUME IInv, req' \in [Request -> Row],
           \A q \in Request :
              \/ req'[q] = Housekept[q]
              \/ /\ Housekept[q].token = None
                 /\ Evolves(Housekept[q], req'[q])
                 /\ req'[q].status = "completed" =>
                       Housekept[q].status = "completed",
           UNCHANGED <<content, allowed, lock, sess, sends>>
    PROVE  Move /\ sends' = sends
<1>1. TypeOK /\ \A q \in Request : req[q] \in Row /\ RowShape(req[q])
  BY DEF IInv, TypeOK
<1>2. ASSUME NEW q \in Request
      PROVE  /\ Evolves(req[q], req'[q])
             /\ req'[q].status = "completed" => req[q].status = "completed"
             /\ req[q].token # None /\ ~req[q].expired => req'[q] = req[q]
  <2> DEFINE row == req[q]
             mid == Housekept[q]
             new == req'[q]
  <2>1. /\ Evolves(row, mid)
        /\ mid.status = "completed" => row.status = "completed"
        /\ row.token # None /\ ~row.expired => mid = row
    BY HousekeptRow
  <2>2. \/ new = mid
        \/ /\ mid.token = None /\ Evolves(mid, new)
           /\ new.status = "completed" => mid.status = "completed"
    OBVIOUS
  <2>3. row \in Row /\ RowShape(row)
    BY <1>1
  <2> HIDE DEF row, mid, new
  <2>4. Evolves(row, new)
    BY <2>1, <2>2, <2>3, EvolvesTrans
  <2>5. /\ new.status = "completed" => row.status = "completed"
        /\ row.token # None /\ ~row.expired => new = row
    BY <2>1, <2>2
  <2> QED
    BY <2>4, <2>5 DEF row, new
<1>3. TableMove /\ Fenced
  BY <1>1, <1>2 DEF TableMove, Fenced, TypeOK
<1> QED
  BY <1>1, <1>3 DEF Move, SessionMove, TypeOK

\* The table after housekeeping has the same shape.
LEMMA HousekeptTable ==
    ASSUME IInv
    PROVE  /\ Housekept \in [Request -> Row]
           /\ \A q \in Request : RowShape(Housekept[q])
<1>1. \A q \in Request : Housekept[q] \in Row /\ RowShape(Housekept[q])
  BY HousekeptRow DEF Evolves
<1>2. Housekept = [q \in Request |-> Housekept[q]]
  BY DEF Housekept
<1> HIDE DEF Housekept
<1>3. Housekept \in [Request -> Row]
  BY <1>1, <1>2
<1> QED
  BY <1>1, <1>3

\* What the transaction selects is due, and nobody holds it.
LEMMA SelectedRow ==
    ASSUME IInv, NEW r \in Request, Selects(Housekept, r)
    PROVE  /\ Housekept[r].token = None
           /\ \/ Housekept[r].status \in {"pending", "pending_retry"}
              \/ /\ Housekept[r].status \in Terminal
                 /\ Housekept[r].reply \in ReplyDue
                 /\ Housekept[r].replies < ReplyMaxAttempts
<1>1. ProcessingIsDue(Housekept[r]) \/ ReplyIsDue(Housekept[r])
  BY DEF Selects, Due
<1>2. /\ ReplyIsDue(Housekept[r]) => Housekept[r].replies < ReplyMaxAttempts
      /\ Housekept[r].token = None
  BY <1>1, HousekeptRow
<1> HIDE DEF Housekept
<1> QED
  BY <1>1, <1>2 DEF ProcessingIsDue, ReplyIsDue

\* process_next without a claim: nothing is due, the sender is not the configured
\* one any more, or an older command leads the video.
LEMMA SelectionSteps ==
    ASSUME IInv,
           \E w \in Worker :
              \/ NothingDue(w)
              \/ \E r \in Request :
                    SuppressUnauthorized(w, r) \/ WaitForLeader(w, r)
    PROVE  Move /\ sends' = sends
<1>1. /\ Housekept \in [Request -> Row]
      /\ \A q \in Request : RowShape(Housekept[q])
  BY HousekeptTable
<1>2. CASE \E w \in Worker : NothingDue(w)
  <2>1. req' = Housekept /\ UNCHANGED <<content, allowed, lock, sess, sends>>
    BY <1>2 DEF NothingDue
  <2> QED
    BY <1>1, <2>1, TransactionMoves
<1>3. ASSUME NEW w \in Worker, NEW r \in Request, SuppressUnauthorized(w, r)
      PROVE  Move /\ sends' = sends
  <2> DEFINE row == Housekept[r]
             freed == Freed(row)
             status == IF row.status \in Terminal THEN row.status ELSE "rejected"
             new == Suppressed(row)
  <2>1. row \in Row /\ RowShape(row)
    BY <1>1
  <2>2. /\ row.token = None
        /\ \/ row.status \in {"pending", "pending_retry"}
           \/ row.status \in Terminal /\ row.reply \in ReplyDue
    BY <1>3, SelectedRow DEF SuppressUnauthorized
  <2>3. /\ req' = [Housekept EXCEPT ![r] = new]
        /\ UNCHANGED <<content, allowed, lock, sess, sends>>
    BY <1>3 DEF SuppressUnauthorized
  <2>4. new = [freed EXCEPT !.status = status, !.reply = "suppressed",
                            !.waits = FALSE]
    BY DEF Suppressed
  <2> HIDE DEF row, new
  <2>5. /\ freed \in Row /\ freed.token = None /\ ~freed.expired
        /\ freed.video = row.video /\ freed.replies = row.replies
    BY <2>1, FreedRow
  <2>6. status \in Status /\ status \in Terminal
    BY <2>1, Values DEF Terminal, Row
  <2>7. /\ row.status \in Terminal => status = row.status
        /\ status = "completed" => row.status = "completed"
    OBVIOUS
  <2> HIDE DEF status, freed
  <2>8. new \in Row
    BY <2>4, <2>5, <2>6, Values, ZenonT(60) DEF Row
  <2>9. /\ new.status = status /\ new.reply = "suppressed" /\ ~new.waits
        /\ new.token = None /\ ~new.expired /\ new.video = row.video
        /\ new.replies = row.replies
    BY <2>4, <2>5 DEF Row
  <2>10. Evolves(row, new)
    BY <2>1, <2>2, <2>6, <2>7, <2>8, <2>9
       DEF Evolves, RowShape, Terminal, Unsettled, Closed, ReplyDue
  <2>11. new.status = "completed" => row.status = "completed"
    BY <2>7, <2>9
  <2>12. /\ req' \in [Request -> Row] /\ req'[r] = new
         /\ \A q \in Request : q # r => req'[q] = Housekept[q]
    BY <1>1, <2>3, <2>8
  <2>13. \A q \in Request :
           \/ req'[q] = Housekept[q]
           \/ /\ Housekept[q].token = None
              /\ Evolves(Housekept[q], req'[q])
              /\ req'[q].status = "completed" =>
                    Housekept[q].status = "completed"
    BY <2>2, <2>10, <2>11, <2>12 DEF row
  <2> QED
    BY <2>3, <2>12, <2>13, TransactionMoves
<1>4. ASSUME NEW w \in Worker, NEW r \in Request, WaitForLeader(w, r)
      PROVE  Move /\ sends' = sends
  <2> DEFINE row == Housekept[r]
             new == [row EXCEPT !.status = "pending_retry", !.waits = TRUE]
  <2>1. row \in Row /\ RowShape(row)
    BY <1>1
  <2>2. row.token = None /\ row.status \in {"pending", "pending_retry"}
    BY <1>4, SelectedRow DEF WaitForLeader, ProcessingIsDue
  <2>3. /\ req' = [Housekept EXCEPT ![r] = new]
        /\ UNCHANGED <<content, allowed, lock, sess, sends>>
    BY <1>1, <1>4 DEF WaitForLeader
  <2> HIDE DEF row
  <2>4. new \in Row
    BY <2>1, Values, ZenonT(60) DEF Row
  <2>5. Evolves(row, new) /\ new.status = "pending_retry"
    BY <2>1, <2>2, <2>4
       DEF Evolves, RowShape, Row, Terminal, Unsettled, Closed
  <2> HIDE DEF new
  <2>6. /\ req' \in [Request -> Row] /\ req'[r] = new
        /\ \A q \in Request : q # r => req'[q] = Housekept[q]
    BY <1>1, <2>3, <2>4
  <2>7. \A q \in Request :
           \/ req'[q] = Housekept[q]
           \/ /\ Housekept[q].token = None
              /\ Evolves(Housekept[q], req'[q])
              /\ req'[q].status = "completed" =>
                    Housekept[q].status = "completed"
    BY <2>2, <2>5, <2>6 DEF row
  <2> QED
    BY <2>3, <2>6, <2>7, TransactionMoves
<1> QED
  BY <1>2, <1>3, <1>4

-----------------------------------------------------------------------------
(* The two steps that are no moves.                                        *)

\* What is decided and what is closed stays.
Settles(r) ==
    /\ req[r].status \in Terminal => req'[r].status = req[r].status
    /\ req[r].reply \in Closed => req'[r].reply = req[r].reply

\* A command comes in: no session and no younger command knows its row yet.
LEMMA AcceptStep ==
    ASSUME IInv, NEW r \in Request, NEW v \in Video \union {None}, Accept(r, v)
    PROVE  /\ IInv' /\ Fenced /\ \A q \in Request : Settles(q)
           /\ sess' = sess /\ lock' = lock /\ sends' = sends
           /\ \A q \in Request :
                 \/ req'[q] = req[q]
                 \/ /\ q = r /\ req[q].status = "absent"
                    /\ req'[q].status \in {"pending", "rejected"}
                    /\ req'[q].reply = req[q].reply
                    /\ req'[q].token = req[q].token
<1> USE DEF IInv
<1> DEFINE row == req[r]
           status == IF v = None THEN "rejected" ELSE "pending"
           new == [row EXCEPT !.video = v, !.status = status]
<1>1. /\ req' = [req EXCEPT ![r] = new]
      /\ row.status = "absent"
      /\ \A q \in 1 .. r - 1 : req[q].status # "absent"
      /\ UNCHANGED <<content, allowed, lock, sess, sends>>
  BY DEF Accept
<1>2. row \in Row /\ RowShape(row) /\ req \in [Request -> Row]
  BY DEF TypeOK
<1>3. /\ status \in Status /\ status \in {"pending", "rejected"}
      /\ status = "rejected" \/ v # None
  BY Values
<1> HIDE DEF row, status
<1>4. new \in Row
  BY <1>2, <1>3, ZenonT(60) DEF Row
<1>5. /\ new.video = v /\ new.status = status /\ new.reply = row.reply
      /\ new.replies = row.replies /\ new.token = row.token
      /\ new.expired = row.expired
  BY <1>2, <1>4 DEF Row
<1> HIDE DEF new
<1>6. /\ req' \in [Request -> Row] /\ req'[r] = new
      /\ \A q \in Request : q # r => req'[q] = req[q]
  BY <1>1, <1>2, <1>4
<1>7. RowShape(new) /\ row.reply = "pending" /\ row.token = None
  BY <1>1, <1>2, <1>3, <1>5 DEF RowShape, Terminal, row
<1>8. TypeOK'
  BY <1>1, <1>6 DEF TypeOK
<1>9. \A q \in Request : RowShape(req'[q])
  BY <1>6, <1>7
<1>10. AcceptedInOrder'
  <2> SUFFICES ASSUME NEW a \in Request, NEW b \in Request,
                      a < b, req'[b].status # "absent"
               PROVE  req'[a].status # "absent"
    BY DEF AcceptedInOrder
  <2>1. CASE a = r
    BY <1>3, <1>5, <1>6, <2>1
  <2>2. CASE a # r /\ b = r
    <3>1. a \in 1 .. r - 1
      BY <2>2, QueueAssumption DEF Request
    <3> QED
      BY <1>1, <1>6, <2>2, <3>1
  <2>3. CASE a # r /\ b # r
    BY <1>6, <2>3 DEF AcceptedInOrder
  <2> QED
    BY <2>1, <2>2, <2>3
<1>11. LeaderWorksAlone'
  <2> SUFFICES ASSUME NEW a \in Request, NEW b \in Request, a < b,
                      req'[b].status = "processing",
                      req'[a].status \in Unsettled
               PROVE  req'[a].video # req'[b].video
    BY DEF LeaderWorksAlone
  <2>1. b # r /\ req'[b] = req[b]
    BY <1>3, <1>5, <1>6
  <2>2. a # r
    BY <1>1, <2>1 DEF AcceptedInOrder, row
  <2> QED
    BY <1>6, <2>1, <2>2 DEF LeaderWorksAlone
<1>12. CompletedHasSummary'
  BY <1>1, <1>3, <1>5, <1>6 DEF CompletedHasSummary
<1>13. ASSUME NEW w \in Worker PROVE SessionAgrees(w)'
  <2>1. SessionAgrees(w) /\ sess' = sess /\ content' = content
    BY <1>1
  <2>2. CASE sess[w].pc = "out"
    BY <2>1, <2>2 DEF SessionAgrees, Working, Answering
  <2>3. CASE sess[w].pc # "out"
    <3>1. /\ sess[w].r \in Request /\ sess[w].r # r
      BY <1>1, <2>1, <2>3 DEF SessionAgrees, Claimed, row
    <3>2. Claimed(w)' = Claimed(w)
      BY <1>6, <2>1, <3>1 DEF Claimed
    <3> QED
      BY <2>1, <3>2 DEF SessionAgrees, Owns
  <2> QED
    BY <2>2, <2>3
<1>14. Counted'
  <2>1. \A q \in Request : req'[q].replies = req[q].replies
    BY <1>5, <1>6 DEF row
  <2>2. \A q \in Request : InFlight(q)' = InFlight(q)
    BY <1>1 DEF InFlight
  <2> QED
    BY <1>1, <2>1, <2>2 DEF Counted
<1>15. Fenced
  BY <1>5, <1>6 DEF Fenced, row
<1>16. \A q \in Request : Settles(q)
  BY <1>1, <1>5, <1>6, <1>7 DEF Settles, Closed, Terminal, row
<1> QED
  BY <1>1, <1>3, <1>5, <1>6, <1>8, <1>9, <1>10, <1>11, <1>12, <1>13, <1>14,
     <1>15, <1>16 DEF row

\* The row of a fresh claim.
LEMMA ClaimedRow ==
    ASSUME NEW w \in Worker, NEW row \in Row, RowShape(row), row.token = None,
           \/ row.status \in {"pending", "pending_retry"}
           \/ /\ row.status \in Terminal /\ row.reply \in ReplyDue
              /\ row.replies < ReplyMaxAttempts
    PROVE  /\ row.status \in {"pending", "pending_retry"} =>
                 LET new == ClaimedProcessing(row, w) IN
                 /\ new \in Row /\ RowShape(new) /\ new.video = row.video
                 /\ new.video # None /\ new.token = w
                 /\ new.status = "processing" /\ new.reply = "pending"
                 /\ row.reply = "pending" /\ new.replies = row.replies
           /\ row.status \in Terminal =>
                 LET new == ClaimedReply(row, w) IN
                 /\ new \in Row /\ RowShape(new) /\ new.video = row.video
                 /\ new.token = w /\ new.status = row.status
                 /\ new.reply = "sending" /\ new.replies = row.replies + 1
<1>1. w \in Worker \union {None} /\ w # None
  BY QueueAssumption
<1>2. CASE row.status \in {"pending", "pending_retry"}
  <2> DEFINE new == ClaimedProcessing(row, w)
  <2>1. new \in Row
    BY <1>1, Values, ZenonT(60) DEF ClaimedProcessing, Row
  <2>2. /\ new.video = row.video /\ new.token = w /\ ~new.expired
        /\ new.status = "processing" /\ new.reply = row.reply
        /\ new.replies = row.replies
    BY <2>1 DEF ClaimedProcessing, Row
  <2> HIDE DEF new
  <2>3. /\ row.reply = "pending" /\ row.video # None /\ RowShape(new)
    BY <1>1, <1>2, <2>1, <2>2 DEF RowShape, Terminal, Row
  <2> QED
    BY <1>2, <2>1, <2>2, <2>3 DEF Terminal, new
<1>3. CASE /\ row.status \in Terminal /\ row.reply \in ReplyDue
           /\ row.replies < ReplyMaxAttempts
  <2> DEFINE new == ClaimedReply(row, w)
  <2>1. row.replies + 1 \in Nat
    BY DEF Row
  <2>2. new \in Row
    BY <1>1, <2>1, Values, ZenonT(60) DEF ClaimedReply, Row
  <2>3. /\ new.video = row.video /\ new.token = w /\ ~new.expired
        /\ new.status = row.status /\ new.reply = "sending"
        /\ new.replies = row.replies + 1
    BY <2>2 DEF ClaimedReply, Row
  <2> HIDE DEF new
  <2>4. RowShape(new)
    BY <1>1, <1>3, <2>2, <2>3, QueueAssumption DEF RowShape, Terminal, Row
  <2> QED
    BY <1>3, <2>2, <2>3, <2>4 DEF Terminal, new
<1> QED
  BY <1>2, <1>3

\* A claim: housekeeping, and the oldest due request gets the call as its holder.
LEMMA ClaimStep ==
    ASSUME IInv, NEW w \in Worker, NEW r \in Request, Claim(w, r)
    PROVE  /\ IInv' /\ Fenced /\ \A q \in Request : Settles(q)
           /\ sess[w].pc = "out" /\ sess'[w].r = r /\ req'[r].token = w
           /\ \A u \in Worker : u # w => sess'[u] = sess[u]
           /\ lock = None /\ lock' = w /\ sends' = sends
           /\ \A q \in Request :
                 \/ req'[q] = Housekept[q]
                 \/ /\ Housekept[q].status \in Unsettled
                    /\ req'[q].status \in Unsettled
                    /\ Housekept[q].reply = "pending"
                    /\ req'[q].reply = "pending"
                 \/ /\ Housekept[q].status \in Terminal
                    /\ req'[q].status = Housekept[q].status
                    /\ Housekept[q].reply \in ReplyDue
                    /\ req'[q].reply = "sending"
<1> USE DEF IInv
<1> DEFINE table == Housekept
           row == table[r]
           processing == ProcessingIsDue(row)
           new == IF processing THEN ClaimedProcessing(row, w)
                                ELSE ClaimedReply(row, w)
           s == [pc |-> IF processing THEN "claimed" ELSE "replying",
                 r |-> r, outcome |-> "none"]
<1>1. /\ table \in [Request -> Row] /\ \A q \in Request : RowShape(table[q])
      /\ \A q \in Request :
            /\ Evolves(req[q], table[q])
            /\ table[q].status = "completed" => req[q].status = "completed"
            /\ req[q].token # None /\ ~req[q].expired => table[q] = req[q]
  BY HousekeptTable, HousekeptRow
<1>2. /\ row.token = None
      /\ \/ row.status \in {"pending", "pending_retry"}
         \/ /\ row.status \in Terminal /\ row.reply \in ReplyDue
            /\ row.replies < ReplyMaxAttempts
  BY SelectedRow DEF Claim
<1>3. ProcessingIsDue(row) \/ ReplyIsDue(row)
  BY DEF Claim, Selects, Due
<1>4. /\ processing => row.status \in {"pending", "pending_retry"}
      /\ ~processing => row.status \in Terminal
  <2> HIDE DEF row
  <2> QED
    BY <1>3 DEF ProcessingIsDue, ReplyIsDue
<1>5. /\ sess[w].pc = "out" /\ lock = None /\ lock' = w
      /\ UNCHANGED <<content, allowed, sends>>
      /\ req' = [table EXCEPT ![r] = new]
      /\ sess' = [sess EXCEPT ![w] = s]
      /\ processing => ~HasOlderContentLeader(table, r)
  BY DEF Claim
<1> HIDE DEF table
<1>6. row \in Row /\ RowShape(row) /\ w # None
  BY <1>1, QueueAssumption
<1>7. /\ processing =>
            /\ row.status \in {"pending", "pending_retry"}
            /\ new \in Row /\ RowShape(new) /\ new.video = row.video
            /\ new.video # None /\ new.token = w
            /\ new.status = "processing" /\ new.reply = "pending"
            /\ row.reply = "pending" /\ new.replies = row.replies
      /\ ~processing =>
            /\ row.status \in Terminal /\ row.reply \in ReplyDue
            /\ new \in Row /\ RowShape(new) /\ new.video = row.video
            /\ new.token = w /\ new.status = row.status
            /\ new.reply = "sending" /\ new.replies = row.replies + 1
  <2> HIDE DEF row
  <2>1. CASE processing
    BY <1>2, <1>4, <1>6, <2>1, ClaimedRow
  <2>2. CASE ~processing
    <3>1. row.reply \in ReplyDue
      BY <1>2, <1>4, <2>2 DEF Terminal
    <3> QED
      BY <1>2, <1>4, <1>6, <2>2, <3>1, ClaimedRow
  <2> QED
    BY <2>1, <2>2
<1>8. sess \in [Worker -> Session] /\ s \in Session
      /\ s.r = r /\ s.pc = IF processing THEN "claimed" ELSE "replying"
  BY DEF TypeOK, Session, Phase, Outcome
<1> HIDE DEF row, processing, new, s
<1>9. /\ req' \in [Request -> Row] /\ req'[r] = new
      /\ \A q \in Request : q # r => req'[q] = table[q]
  BY <1>1, <1>5, <1>7
<1>10. /\ sess' \in [Worker -> Session] /\ sess'[w] = s
       /\ \A u \in Worker : u # w => sess'[u] = sess[u]
  BY <1>5, <1>8
<1>11. TypeOK'
  BY <1>5, <1>9, <1>10 DEF TypeOK
<1>12. \A q \in Request : RowShape(req'[q])
  BY <1>1, <1>7, <1>9
<1>13. \A q \in Request :
          /\ (req'[q].status = "absent") = (table[q].status = "absent")
          /\ req'[q].status \in Unsettled => table[q].status \in Unsettled
          /\ table[q].status \in Terminal => req'[q].status = table[q].status
          /\ req'[q].video = table[q].video
  BY <1>7, <1>9 DEF Unsettled, Terminal, row
<1>14. AcceptedInOrder'
  BY <1>1, <1>13 DEF AcceptedInOrder, Evolves
<1>15. LeaderWorksAlone'
  <2> SUFFICES ASSUME NEW a \in Request, NEW b \in Request, a < b,
                      req'[b].status = "processing",
                      req'[a].status \in Unsettled
               PROVE  req'[a].video # req'[b].video
    BY DEF LeaderWorksAlone
  <2>1. table[a].status \in Unsettled /\ req'[a].video = table[a].video
        /\ req'[b].video = table[b].video
    BY <1>13
  <2>2. CASE b = r
    <3>1. processing
      BY <1>7, <1>9, <2>2 DEF Terminal
    <3>2. a \in 1 .. r - 1
      BY <2>2, QueueAssumption DEF Request
    <3> QED
      BY <1>5, <2>1, <2>2, <3>1, <3>2 DEF HasOlderContentLeader
  <2>3. CASE b # r
    <3>1. table[b].status = "processing"
      BY <1>9, <2>3
    <3>2. table[b].token # None
      BY <1>1, <3>1 DEF RowShape
    <3>3. req[b].status = "processing" /\ req[b].video = table[b].video
      BY <1>1, <3>1, <3>2 DEF Evolves
    <3>4. req[a].status \in Unsettled /\ req[a].video = table[a].video
      BY <1>1, <2>1 DEF Evolves
    <3> QED
      BY <2>1, <3>3, <3>4 DEF LeaderWorksAlone
  <2> QED
    BY <2>2, <2>3
<1>16. CompletedHasSummary'
  <2> SUFFICES ASSUME NEW q \in Request, req'[q].status = "completed"
               PROVE  content'[req'[q].video] = "done"
    BY DEF CompletedHasSummary
  <2>1. table[q].status = "completed"
    BY <1>7, <1>9 DEF row
  <2>2. req[q].status = "completed" /\ req'[q].video = req[q].video
    BY <1>1, <1>13, <2>1 DEF Evolves
  <2> QED
    BY <1>5, <2>2 DEF CompletedHasSummary
<1>17. ASSUME NEW u \in Worker PROVE SessionAgrees(u)'
  <2>1. CASE u = w
    <3>1. sess'[u].r = r /\ Claimed(u)' = new
          /\ sess'[u].pc = IF processing THEN "claimed" ELSE "replying"
      BY <1>8, <1>9, <1>10, <2>1 DEF Claimed
    <3>2. new.status # "absent"
      BY <1>7 DEF Terminal
    <3> QED
      BY <1>7, <3>1, <3>2 DEF SessionAgrees, Working, Answering
  <2>2. CASE u # w /\ sess[u].pc = "out"
    BY <1>10, <2>2 DEF SessionAgrees, Working, Answering
  <2>3. CASE u # w /\ sess[u].pc # "out"
    <3>1. SessionAgrees(u) /\ sess'[u] = sess[u] /\ content' = content
      BY <1>5, <1>10, <2>3
    <3>2. PICK q \in Request : q = sess[u].r
      BY <2>3, <3>1 DEF SessionAgrees
    <3>3. Claimed(u) = req[q] /\ Claimed(u)' = req'[q]
      BY <3>1, <3>2 DEF Claimed
    <3>4. req'[q].video = req[q].video
          /\ (req'[q].status = "absent") = (req[q].status = "absent")
      BY <1>1, <1>13 DEF Evolves
    <3>5. req'[q].token = u =>
             /\ req[q].token = u /\ req'[q].status = req[q].status
             /\ req'[q].reply = req[q].reply
      <4>1. u # None
        BY QueueAssumption
      <4>2. req'[q].token = u => q # r
        BY <1>7, <1>9, <2>3
      <4> QED
        BY <1>1, <1>9, <4>1, <4>2 DEF Evolves
    <3> QED
      BY <3>1, <3>2, <3>3, <3>4, <3>5 DEF SessionAgrees, Owns
  <2> QED
    BY <2>1, <2>2, <2>3
<1>18. Counted'
  <2> SUFFICES ASSUME NEW q \in Request
               PROVE  sends'[q] + Cardinality(InFlight(q)') <= req'[q].replies
    BY DEF Counted
  <2> DEFINE I == InFlight(q)
             J == InFlight(q)'
  <2>1. /\ sends[q] + Cardinality(I) <= req[q].replies
        /\ sends[q] \in Nat /\ req[q].replies \in Nat /\ sends' = sends
        /\ req[q].replies = table[q].replies
    BY <1>1, <1>5 DEF Counted, TypeOK, Row, Evolves
  <2>2. IsFiniteSet(I)
    BY QueueAssumption, FS_Subset DEF InFlight
  <2>3. Cardinality(I) \in Nat
    BY <2>2, FS_CardinalityType
  <2>4. CASE q = r /\ ~processing
    <3>1. J = I \union {w} /\ w \notin I
      BY <1>5, <1>8, <1>10, <2>4 DEF InFlight
    <3>2. req'[q].replies = req[q].replies + 1
      BY <1>7, <1>9, <2>1, <2>4 DEF row
    <3> HIDE DEF I, J
    <3>3. Cardinality(J) = Cardinality(I) + 1
      BY <2>2, <3>1, FS_AddElement
    <3> QED
      BY <2>1, <2>3, <3>2, <3>3 DEF J
  <2>5. CASE q # r \/ processing
    <3>1. J = I
      BY <1>5, <1>8, <1>10, <2>5 DEF InFlight
    <3>2. req'[q].replies = req[q].replies
      BY <1>7, <1>9, <2>1, <2>5 DEF row
    <3> QED
      BY <2>1, <2>3, <3>1, <3>2
  <2> QED
    BY <2>4, <2>5
<1>19. Fenced
  <2> SUFFICES ASSUME NEW q \in Request, req[q].token # None, ~req[q].expired,
                      req'[q].token # req[q].token
               PROVE  FALSE
    BY DEF Fenced
  <2>1. table[q] = req[q]
    BY <1>1
  <2>2. q # r
    BY <1>2, <2>1 DEF row
  <2> QED
    BY <1>9, <2>1, <2>2
<1>20. \A q \in Request :
          \/ req'[q] = table[q]
          \/ /\ table[q].status \in Unsettled /\ req'[q].status \in Unsettled
             /\ table[q].reply = "pending" /\ req'[q].reply = "pending"
          \/ /\ table[q].status \in Terminal
             /\ req'[q].status = table[q].status
             /\ table[q].reply \in ReplyDue /\ req'[q].reply = "sending"
  BY <1>7, <1>9 DEF Unsettled, row
<1>21. \A q \in Request : Settles(q)
  BY <1>1, <1>20 DEF Settles, Evolves, Terminal, Unsettled, Closed, ReplyDue
<1> QED
  BY <1>5, <1>7, <1>8, <1>9, <1>10, <1>11, <1>12, <1>14, <1>15, <1>16, <1>17,
     <1>18, <1>19, <1>20, <1>21 DEF table

-----------------------------------------------------------------------------
(* The theorems.                                                           *)

\* Every step but Accept, Claim and SendReply is a move that sends nothing.
LEMMA PlainSteps ==
    ASSUME IInv, [Next]_vars,
           ~ \E r \in Request, v \in Video \union {None} : Accept(r, v),
           ~ \E w \in Worker, r \in Request : Claim(w, r),
           ~ \E w \in Worker : SendReply(w)
    PROVE  Move /\ sends' = sends
<1>1. CASE \E w \in Worker : \/ NothingDue(w)
                             \/ \E r \in Request : Select(w, r)
  BY <1>1, SelectionSteps DEF Select
<1>2. ASSUME NEW w \in Worker, Processing(w)
      PROVE  Move /\ sends' = sends
  BY <1>2, QuietSteps, RowSteps, ProcessingEnds, PausedStep, PipelineSteps
     DEF Processing
<1>3. ASSUME NEW w \in Worker, Replying(w)
      PROVE  Move /\ sends' = sends
  BY <1>3, QuietSteps, RecordReplyStep DEF Replying
<1>4. CASE \/ \E w \in Worker : Abort(w) \/ DropLock(w)
           \/ Reconfigure \/ UNCHANGED vars
           \/ \E v \in Video : AutomaticPipeline(v)
  BY <1>4, QuietSteps
<1>5. CASE \E r \in Request : LeaseExpires(r) \/ WaitElapses(r)
  BY <1>5, RowSteps
<1> QED
  BY <1>1, <1>2, <1>3, <1>4, <1>5 DEF Next

\* A move settles nothing anew.
LEMMA MoveSettles ==
    ASSUME Move
    PROVE  Fenced /\ \A r \in Request : Settles(r)
BY DEF Move, TableMove, Evolves, Settles

\* Every step keeps the invariant, the leases and what is settled.
LEMMA EveryStep ==
    ASSUME IInv, [Next]_vars
    PROVE  IInv' /\ Fenced /\ \A r \in Request : Settles(r)
<1>1. CASE \E r \in Request, v \in Video \union {None} : Accept(r, v)
  BY <1>1, AcceptStep
<1>2. CASE \E w \in Worker, r \in Request : Claim(w, r)
  BY <1>2, ClaimStep
<1>3. CASE \E w \in Worker : SendReply(w)
  BY <1>3, SendReplyStep, MoveSettles
<1> QED
  BY <1>1, <1>2, <1>3, PlainSteps, MoveInvariant, MoveSettles

\* The empty queue satisfies the invariant.
LEMMA InitEstablishes ==
    ASSUME Init
    PROVE  IInv
<1>1. Absent \in Row /\ RowShape(Absent)
  <2>1. 0 \in Nat /\ ReplyMaxAttempts \in Nat \ {0}
    BY QueueAssumption
  <2>2. Absent \in Row
    BY <2>1, Values, ZenonT(60) DEF Absent, Row
  <2> QED
    BY <2>1, <2>2 DEF Absent, RowShape
<1>2. Absent.status = "absent" /\ Absent.replies = 0
  BY DEF Absent
<1> HIDE DEF Absent
<1>3. Outside \in Session /\ Outside.pc = "out"
  BY DEF Outside, Session, Phase, Outcome
<1>4. TypeOK
  BY <1>1, <1>3 DEF Init, TypeOK, Content
<1>5. \A r \in Request : req[r] = Absent
  BY DEF Init
<1>6. AcceptedInOrder /\ LeaderWorksAlone /\ CompletedHasSummary
  BY <1>2, <1>5
     DEF AcceptedInOrder, LeaderWorksAlone, CompletedHasSummary
<1>7. \A w \in Worker : SessionAgrees(w)
  BY <1>3 DEF Init, SessionAgrees, Working, Answering
<1>8. Counted
  <2> SUFFICES ASSUME NEW r \in Request
               PROVE  sends[r] + Cardinality(InFlight(r)) <= req[r].replies
    BY DEF Counted
  <2>1. InFlight(r) = {}
    BY <1>3 DEF Init, InFlight
  <2>2. sends[r] = 0 /\ req[r].replies = 0
    BY <1>2, <1>5 DEF Init
  <2> QED
    BY <2>1, <2>2, FS_EmptySet
<1> QED
  BY <1>1, <1>4, <1>5, <1>6, <1>7, <1>8 DEF IInv

\* IInv holds in every state, whether or not the lock can be lost: the leases
\* and the conditional updates carry it.
THEOREM InductiveInvariant == Spec => []IInv
<1>1. Init => IInv
  BY InitEstablishes
<1>2. IInv /\ [Next]_vars => IInv'
  BY EveryStep
<1> QED
  BY <1>1, <1>2, PTL DEF Spec

\* The variables have their types.
THEOREM TypeCorrectness == Spec => []TypeOK
<1>1. IInv => TypeOK
  BY DEF IInv
<1> QED
  BY <1>1, InductiveInvariant, PTL

\* A row carries a lease exactly while it is claimed, for one purpose at a time.
THEOREM Leases == Spec => []ClaimsAreLeased
<1>1. IInv => ClaimsAreLeased
  BY DEF IInv, ClaimsAreLeased, RowShape
<1> QED
  BY <1>1, InductiveInvariant, PTL

\* No reply reaches the chat that a committed claim has not paid for.
THEOREM RepliesArePaid == Spec => []RepliesAreCounted
<1>1. IInv => RepliesAreCounted
  <2> SUFFICES ASSUME IInv, NEW r \in Request
               PROVE  sends[r] <= req[r].replies
                      /\ req[r].replies <= ReplyMaxAttempts
    BY DEF RepliesAreCounted
  <2>1. Cardinality(InFlight(r)) \in Nat
    BY QueueAssumption, FS_Subset, FS_CardinalityType DEF InFlight
  <2>2. /\ sends[r] + Cardinality(InFlight(r)) <= req[r].replies
        /\ sends[r] \in Nat /\ req[r].replies \in Nat
        /\ req[r].replies <= ReplyMaxAttempts
    BY DEF IInv, Counted, TypeOK, Row, RowShape
  <2> QED
    BY <2>1, <2>2
<1> QED
  BY <1>1, InductiveInvariant, PTL

\* Of the commands for one video only the oldest undecided one is in processing.
THEOREM Leader == Spec => []LeaderWorksAlone
<1>1. IInv => LeaderWorksAlone
  BY DEF IInv
<1> QED
  BY <1>1, InductiveInvariant, PTL

\* A completed command has a summary to reply with.
THEOREM Completion == Spec => []CompletedHasSummary
<1>1. IInv => CompletedHasSummary
  BY DEF IInv
<1> QED
  BY <1>1, InductiveInvariant, PTL

\* No call, however late, reopens a decision or a closed reply.
THEOREM Settlement == Spec => SettledStaysSettled
<1> DEFINE Kept == \A r \in Request :
               /\ req[r].status \in Terminal => req'[r].status = req[r].status
               /\ req[r].reply \in {"sent", "failed", "suppressed"} =>
                     req'[r].reply = req[r].reply
<1>1. IInv /\ [Next]_vars => Kept
  BY EveryStep DEF Settles, Closed
<1>2. [][Kept]_vars => SettledStaysSettled
  BY DEF SettledStaysSettled
<1> HIDE DEF Kept
<1> QED
  BY <1>1, <1>2, InductiveInvariant, PTL DEF Spec

\* Until a lease expires, only the call that holds it ends it.
THEOREM Fencing == Spec => LeaseIsRespected
<1>1. IInv /\ [Next]_vars => Fenced
  BY EveryStep
<1>2. [][Fenced]_vars => LeaseIsRespected
  BY DEF LeaseIsRespected, Fenced
<1> QED
  BY <1>1, <1>2, InductiveInvariant, PTL DEF Spec

-----------------------------------------------------------------------------
(* The queue keeps the books of CommandLedger while the lock is exclusive.  *)

\* The only call that runs holds the lock and its lease.
Exclusive == \A w \in Worker : sess[w].pc # "out" => lock = w /\ Owns(w)

\* A call that returns leaves no other call behind.
LEMMA EndKeepsExclusive ==
    ASSUME IInv, Exclusive, NEW w \in Worker, End(w), sess[w].pc # "out"
    PROVE  Exclusive'
<1>1. \A u \in Worker : u # w => sess[u].pc = "out"
  BY DEF Exclusive
<1>2. sess \in [Worker -> Session]
  BY DEF IInv, TypeOK
<1>3. \A u \in Worker : sess'[u].pc = "out"
  BY <1>1, <1>2 DEF End, Outside
<1> QED
  BY <1>3 DEF Exclusive

\* Calls go on with what they hold.
LEMMA HoldKeepsExclusive ==
    ASSUME IInv, Exclusive, lock' = lock,
           \A r \in Request : req'[r].token = req[r].token,
           \A w \in Worker :
              sess'[w].pc # "out" =>
                  sess[w].pc # "out" /\ sess'[w].r = sess[w].r
    PROVE  Exclusive'
<1> SUFFICES ASSUME NEW w \in Worker, sess'[w].pc # "out"
             PROVE  lock' = w /\ Owns(w)'
  BY DEF Exclusive
<1>1. sess[w].pc # "out" /\ sess'[w].r = sess[w].r /\ sess[w].r \in Request
  BY DEF IInv, SessionAgrees
<1> QED
  BY <1>1 DEF Exclusive, Owns, Claimed

\* A row keeps its lease when other fields are written.
LEMMA TokenStays ==
    ASSUME IInv,
           \/ \E r \in Request : LeaseExpires(r) \/ WaitElapses(r)
           \/ \E w \in Worker : CountMetadataAttempt(w) \/ PipelineCommits(w)
    PROVE  \A q \in Request : req'[q].token = req[q].token
<1>1. /\ req \in [Request -> Row]
      /\ \A w \in Worker : sess[w].pc # "out" => sess[w].r \in Request
  BY DEF IInv, TypeOK, SessionAgrees
<1>2. CASE \E r \in Request : LeaseExpires(r) \/ WaitElapses(r)
  BY <1>1, <1>2 DEF LeaseExpires, WaitElapses, Row
<1>3. CASE \E w \in Worker : CountMetadataAttempt(w) \/ PipelineCommits(w)
  BY <1>1, <1>3 DEF CountMetadataAttempt, PipelineCommits, Row
<1> QED
  BY <1>2, <1>3

\* While the lock cannot be lost, a step leaves at most one call.
LEMMA ExclusiveStep ==
    ASSUME ~LockMayDrop, IInv, Exclusive, [Next]_vars
    PROVE  Exclusive'
<1>1. sess \in [Worker -> Session] /\ req \in [Request -> Row]
  BY DEF IInv, TypeOK
<1>2. ASSUME lock = None PROVE \A w \in Worker : sess[w].pc = "out"
  BY <1>2, QueueAssumption DEF Exclusive
<1>3. CASE \/ \E w \in Worker :
                 \/ NothingDue(w)
                 \/ \E r \in Request :
                       SuppressUnauthorized(w, r) \/ WaitForLeader(w, r)
           \/ \E v \in Video : AutomaticPipeline(v)
  <2>1. lock = None /\ sess' = sess
    BY <1>3 DEF NothingDue, SuppressUnauthorized, WaitForLeader,
                AutomaticPipeline
  <2> QED
    BY <1>2, <2>1 DEF Exclusive
<1>4. CASE \E w \in Worker, r \in Request : Claim(w, r)
  <2>1. PICK w \in Worker, r \in Request : Claim(w, r)
    BY <1>4
  <2>2. /\ \A u \in Worker : u # w => sess'[u] = sess[u]
        /\ sess'[w].r = r /\ req'[r].token = w /\ lock = None /\ lock' = w
    BY <2>1, ClaimStep
  <2> QED
    BY <1>2, <2>2 DEF Exclusive, Owns, Claimed
<1>5. CASE \E r \in Request, v \in Video \union {None} : Accept(r, v)
  <2>1. /\ \A q \in Request : req'[q].token = req[q].token
        /\ sess' = sess /\ lock' = lock
    BY <1>5, AcceptStep
  <2> QED
    BY <2>1, HoldKeepsExclusive
<1>6. ASSUME NEW w \in Worker,
             \/ LeaseIsLost(w) \/ NotAuthenticated(w) \/ LookupPaused(w)
             \/ LookupFails(w) \/ ShortIsDisabled(w) \/ SummaryExists(w)
             \/ AdvanceContent(w) \/ FinishAdvanced(w) \/ RecordReply(w)
             \/ Abort(w)
      PROVE  Exclusive'
  <2>1. End(w) /\ sess[w].pc # "out"
    BY <1>6 DEF LeaseIsLost, NotAuthenticated, LookupPaused, LookupFails,
                ShortIsDisabled, SummaryExists, AdvanceContent, FinishAdvanced,
                RecordReply, Abort
  <2> QED
    BY <2>1, EndKeepsExclusive
<1>7. ASSUME NEW w \in Worker,
             \/ VideoIsKnown(w) \/ LookupSucceeds(w) \/ CheckOwnership(w)
             \/ SendReply(w)
      PROVE  Exclusive'
  <2>1. /\ sess[w].pc # "out" /\ lock' = lock /\ req' = req
        /\ sess'[w].r = sess[w].r
        /\ \A u \in Worker : u # w => sess'[u] = sess[u]
    BY <1>1, <1>7 DEF VideoIsKnown, LookupSucceeds, CheckOwnership, SendReply,
                      Goto, Session
  <2> QED
    BY <2>1, HoldKeepsExclusive
<1>8. ASSUME NEW w \in Worker, CountMetadataAttempt(w) \/ PipelineCommits(w)
      PROVE  Exclusive'
  <2>1. /\ sess[w].pc # "out" /\ lock' = lock
        /\ sess'[w].r = sess[w].r
        /\ \A u \in Worker : u # w => sess'[u] = sess[u]
    BY <1>1, <1>8 DEF CountMetadataAttempt, PipelineCommits, Goto, Session
  <2> QED
    BY <1>8, <2>1, TokenStays, HoldKeepsExclusive
<1>9. CASE \E r \in Request : LeaseExpires(r) \/ WaitElapses(r)
  <2>1. sess' = sess /\ lock' = lock
    BY <1>9 DEF LeaseExpires, WaitElapses
  <2> QED
    BY <1>9, <2>1, TokenStays, HoldKeepsExclusive
<1>10. CASE Reconfigure \/ UNCHANGED vars
  <2>1. sess' = sess /\ lock' = lock /\ req' = req
    BY <1>10 DEF Reconfigure, vars
  <2> QED
    BY <2>1, HoldKeepsExclusive
<1>11. ASSUME NEW w \in Worker PROVE ~DropLock(w)
  BY DEF DropLock
<1> QED
  BY <1>3, <1>4, <1>5, <1>6, <1>7, <1>8, <1>9, <1>10, <1>11
     DEF Next, Select, Processing, Replying

\* Without a message, a row's books are decided, closed or left alone.
Entry(old, new) ==
    \/ /\ Decision(old) = "open"
       /\ Decision(new) \in {"completed", "failed", "rejected"}
    \/ /\ Decision(old) \in {"completed", "failed", "rejected"}
       /\ Decision(new) = Decision(old) /\ new.reply \in Closed
    \/ /\ Decision(new) = Decision(old)
       /\ (new.reply \in Closed) = (old.reply \in Closed)

\* A row that evolves makes such an entry.
LEMMA EvolvesEntry ==
    ASSUME NEW old \in Row, RowShape(old), NEW new, Evolves(old, new)
    PROVE  Entry(old, new)
<1>1. new \in Row /\ RowShape(new)
  BY DEF Evolves
<1>2. /\ old.status \in {"absent"} \union Unsettled \union Terminal
      /\ new.status \in {"absent"} \union Unsettled \union Terminal
  BY <1>1 DEF Row, Status
<1>3. CASE old.status = "absent"
  BY <1>1, <1>3
     DEF Entry, Evolves, RowShape, Decision, Terminal, Unsettled, Closed
<1>4. CASE old.status \in Unsettled
  BY <1>1, <1>2, <1>4
     DEF Entry, Evolves, RowShape, Decision, Terminal, Unsettled, Closed
<1>5. CASE old.status \in Terminal
  BY <1>1, <1>2, <1>5
     DEF Entry, Evolves, RowShape, Decision, Terminal, Unsettled, Closed
<1> QED
  BY <1>2, <1>3, <1>4, <1>5

\* Such entries are a step of the ledger.
LEMMA EntriesRefine ==
    ASSUME \A r \in Request : Entry(req[r], req'[r]), sends' = sends
    PROVE  Ledger!Next
<1> SUFFICES ASSUME NEW r \in Request
             PROVE  Ledger!Decide(r) \/ Ledger!Close(r) \/ Ledger!Same(r)
  BY DEF Ledger!Next
<1>1. Entry(req[r], req'[r])
  OBVIOUS
<1>2. CASE /\ Decision(req[r]) = "open"
           /\ Decision(req'[r]) \in {"completed", "failed", "rejected"}
  BY <1>2 DEF Ledger!Decide, Ledger!Decided
<1>3. CASE /\ Decision(req[r]) \in {"completed", "failed", "rejected"}
           /\ Decision(req'[r]) = Decision(req[r]) /\ req'[r].reply \in Closed
  BY <1>3 DEF Ledger!Close, Ledger!Decided, Closed
<1>4. CASE /\ Decision(req'[r]) = Decision(req[r])
           /\ (req'[r].reply \in Closed) = (req[r].reply \in Closed)
  BY <1>4 DEF Ledger!Same, Closed
<1> QED
  BY <1>1, <1>2, <1>3, <1>4 DEF Entry

\* Every step of the queue is a step of the ledger.
LEMMA StepRefines ==
    ASSUME IInv, Exclusive, [Next]_vars
    PROVE  [Ledger!Next]_(Ledger!ledger)
<1>1. \A r \in Request : req[r] \in Row /\ RowShape(req[r])
  BY DEF IInv, TypeOK
<1>2. CASE \E r \in Request, v \in Video \union {None} : Accept(r, v)
  <2>1. PICK r \in Request, v \in Video \union {None} : Accept(r, v)
    BY <1>2
  <2>2. sends' = sends
        /\ \A q \in Request :
              \/ req'[q] = req[q]
              \/ /\ req[q].status = "absent"
                 /\ req'[q].status \in {"pending", "rejected"}
                 /\ req'[q].reply = req[q].reply
    BY <2>1, AcceptStep
  <2>3. ASSUME NEW q \in Request PROVE Ledger!Accept(q) \/ Ledger!Same(q)
    <3>1. CASE req'[q] = req[q]
      BY <2>2, <3>1 DEF Ledger!Same
    <3>2. CASE /\ req[q].status = "absent"
               /\ req'[q].status \in {"pending", "rejected"}
               /\ req'[q].reply = req[q].reply
      <4>1. Decision(req[q]) = "none"
            /\ Decision(req'[q]) \in {"open", "rejected"}
        BY <3>2 DEF Decision, Unsettled
      <4> QED
        BY <2>2, <3>2, <4>1 DEF Ledger!Accept
    <3> QED
      BY <2>2, <3>1, <3>2
  <2> QED
    BY <2>3 DEF Ledger!Next
<1>3. CASE \E w \in Worker, r \in Request : Claim(w, r)
  <2>1. PICK w \in Worker, r \in Request : Claim(w, r)
    BY <1>3
  <2>2. sends' = sends
    BY <2>1, ClaimStep
  <2>3. ASSUME NEW q \in Request PROVE Entry(req[q], req'[q])
    <3> DEFINE mid == Housekept[q]
               new == req'[q]
    <3>1. Entry(req[q], mid)
      BY <1>1, HousekeptRow, EvolvesEntry
    <3>2. \/ new = mid
          \/ /\ mid.status \in Unsettled /\ new.status \in Unsettled
             /\ mid.reply = "pending" /\ new.reply = "pending"
          \/ /\ mid.status \in Terminal /\ new.status = mid.status
             /\ mid.reply \in ReplyDue /\ new.reply = "sending"
      BY <2>1, ClaimStep
    <3> HIDE DEF mid, new
    <3>3. /\ Decision(new) = Decision(mid)
          /\ (new.reply \in Closed) = (mid.reply \in Closed)
      BY <3>2 DEF Decision, Unsettled, Terminal, Closed, ReplyDue
    <3> QED
      BY <3>1, <3>3 DEF Entry, new
  <2> QED
    BY <2>2, <2>3, EntriesRefine
<1>4. CASE \E w \in Worker : SendReply(w)
  <2>1. PICK w \in Worker : SendReply(w)
    BY <1>4
  <2>2. Owns(w) /\ req' = req
    BY <2>1 DEF SendReply, Exclusive
  <2>3. PICK r \in Request :
          /\ req[r].status \in Terminal /\ req[r].reply = "sending"
          /\ sends[r] < ReplyMaxAttempts
          /\ sends' \in {sends, [sends EXCEPT ![r] = sends[r] + 1]}
    BY <2>1, <2>2, SendReplyStep
  <2>4. sends \in [Request -> Nat]
    BY DEF IInv, TypeOK
  <2>5. ASSUME NEW q \in Request PROVE Ledger!Answer(q) \/ Ledger!Same(q)
    <3>1. CASE sends'[q] = sends[q]
      BY <2>2, <3>1 DEF Ledger!Same
    <3>2. CASE sends'[q] # sends[q]
      <4>1. q = r /\ sends'[q] = sends[q] + 1
        BY <2>3, <2>4, <3>2
      <4>2. Decision(req[q]) \in {"completed", "failed", "rejected"}
        BY <2>3, <4>1 DEF Decision, Unsettled, Terminal
      <4> QED
        BY <2>2, <2>3, <4>1, <4>2 DEF Ledger!Answer, Ledger!Decided
    <3> QED
      BY <3>1, <3>2
  <2> QED
    BY <2>5 DEF Ledger!Next
<1>5. CASE Move /\ sends' = sends
  <2>1. \A r \in Request : Entry(req[r], req'[r])
    BY <1>1, <1>5, EvolvesEntry DEF Move, TableMove
  <2> QED
    BY <1>5, <2>1, EntriesRefine
<1> QED
  BY <1>2, <1>3, <1>4, <1>5, PlainSteps

\* While the lock is exclusive, the queue keeps the books of CommandLedger: each
\* command is decided once and answered, after that and before its books are
\* closed, at most reply_max_attempts times.
THEOREM Implementation == ~LockMayDrop /\ Spec => ImplementsLedger
<1> SUFFICES ASSUME ~LockMayDrop PROVE Spec => Ledger!Spec
  BY DEF ImplementsLedger
<1>1. Init => Ledger!Init /\ Exclusive
  <2> SUFFICES ASSUME Init PROVE Ledger!Init /\ Exclusive
    OBVIOUS
  <2>1. Absent.status = "absent" /\ Absent.reply = "pending"
    BY DEF Absent
  <2> HIDE DEF Absent
  <2>2. ASSUME NEW r \in Request
        PROVE  /\ Decision(req[r]) = "none" /\ sends[r] = 0
               /\ (req[r].reply \in {"sent", "failed", "suppressed"}) = FALSE
    <3>1. req[r] = Absent /\ sends[r] = 0
      BY DEF Init
    <3>2. req[r] \in Row
      BY InitEstablishes DEF IInv, TypeOK
    <3>3. Decision(req[r]) = "none"
      BY <2>1, <3>1, <3>2 DEF Decision, Unsettled
    <3>4. req[r].reply \notin {"sent", "failed", "suppressed"}
      BY <2>1, <3>1
    <3> QED
      BY <3>1, <3>3, <3>4
  <2>3. Ledger!Init
    BY <2>2, Zenon DEF Init, Ledger!Init
  <2> QED
    BY <2>3 DEF Init, Exclusive, Outside
<1>2. IInv /\ Exclusive /\ [Next]_vars => Exclusive'
  BY ExclusiveStep
<1>3. IInv /\ Exclusive /\ [Next]_vars => [Ledger!Next]_(Ledger!ledger)
  BY StepRefines
<1>4. Spec => []IInv
  BY InductiveInvariant
<1> QED
  BY <1>1, <1>2, <1>3, <1>4, PTL DEF Spec, Ledger!Spec
=============================================================================
