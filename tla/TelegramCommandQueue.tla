------------------------- MODULE TelegramCommandQueue -------------------------
(***************************************************************************)
(* The durable queue of Telegram commands: TelegramCommandQueueService     *)
(* (app/services/telegram_command_queue.py), one process_next call after   *)
(* another, each under the execution lock.                                 *)
(*                                                                         *)
(* `req' is the committed table.  A transaction is one step; the YouTube   *)
(* lookup, the content pipeline and the Telegram send separate two of      *)
(* them, so that a crash, an expired lease or, once the lock is lost,      *)
(* another call may come in between.  The shared content of a video is     *)
(* what its transcript and summary stages amount to; the automatic         *)
(* pipeline works on it too.                                               *)
(***************************************************************************)
EXTENDS Integers, FiniteSets

CONSTANTS
    Worker,             \* handlers that may execute process_next
    Video,              \* videos the commands ask for
    Shorts,             \* the Shorts among them; their processing is disabled
    MaxRequests,        \* bound: commands accepted
    MaxAttempts,        \* max_attempts
    ReplyMaxAttempts,   \* reply_max_attempts
    LockMayDrop,        \* may the lock's connection die under a running call?
    CallMayOverrun,     \* may a call outlive its lease of an hour?
    None                \* no video, no lease token, no lock holder

\* Identifiers grow in the order of acceptance, as created_at does.
Request == 1 .. MaxRequests

ASSUME QueueAssumption ==
    /\ MaxRequests \in Nat
    /\ MaxAttempts \in Nat \ {0}
    /\ ReplyMaxAttempts \in Nat \ {0}
    /\ Shorts \subseteq Video
    /\ LockMayDrop \in BOOLEAN
    /\ CallMayOverrun \in BOOLEAN
    /\ IsFiniteSet(Worker)
    /\ None \notin Worker \union Video \union Request

VARIABLES
    req,        \* telegram_command_requests
    content,    \* per video: its shared transcript and summary stages
    allowed,    \* is the configured identity the one that sent the commands?
    lock,       \* holder of the advisory lock
    sess,       \* per worker: where its process_next is
    sends       \* per request, replies that reached the chat (history)

vars == <<req, content, allowed, lock, sess, sends>>

-----------------------------------------------------------------------------
(* The shape of the state.                                                 *)

Terminal  == {"completed", "failed", "rejected"}
Unsettled == {"pending", "processing", "pending_retry"}

\* "absent": not accepted yet.
Status == {"absent"} \union Unsettled \union Terminal

ReplyDue    == {"pending", "pending_retry"}
ReplyStatus == ReplyDue \union {"sending", "sent", "failed", "suppressed"}

\* resolved: video_id is set.  waits: the next_attempt_at (or, once the status
\* is terminal, the reply_next_attempt_at) lies in the future.  token names the
\* call that holds the lease, expired says that the lease has run out.
Row == [video : Video \union {None}, status : Status, attempts : Nat,
        resolved : BOOLEAN, reply : ReplyStatus, replies : Nat,
        waits : BOOLEAN, token : Worker \union {None}, expired : BOOLEAN]

Absent == [video |-> None, status |-> "absent", attempts |-> 0,
           resolved |-> FALSE, reply |-> "pending", replies |-> 0,
           waits |-> FALSE, token |-> None, expired |-> FALSE]

\* open    work is left for the pipeline        held    summary quarantined
\* failed  a stage failed or was skipped        done    videos.summary is set
Content == {"open", "held", "failed", "done"}

\* claimed    committed claim, nothing done     lookup   metadata call
\* content    pipeline                          advanced pipeline has committed
\* replying   committed claim of the reply      sending  ownership rechecked
\* answered   Telegram has answered
Phase == {"out", "claimed", "lookup", "content", "advanced", "replying",
          "sending", "answered"}

\* outcome: what the pipeline or Telegram answered.
Outcome == {"none", "completed", "failed", "later", "delivered", "retryable",
            "permanent"}

Session == [pc : Phase, r : Request \union {None}, outcome : Outcome]

Outside == [pc |-> "out", r |-> None, outcome |-> "none"]

Goto(w, pc) == sess' = [sess EXCEPT ![w].pc = pc]

\* The call returns and its `with' block frees the lock.
End(w) ==
    /\ sess' = [sess EXCEPT ![w] = Outside]
    /\ lock' = IF lock = w THEN None ELSE lock

Claimed(w) == req[sess[w].r]

Owns(w) == Claimed(w).token = w

-----------------------------------------------------------------------------
(* Intake: a new row, for a URL that parses or for one that does not.      *)

Accept(r, v) ==
    /\ allowed
    /\ req[r].status = "absent"
    /\ \A q \in 1 .. r - 1 : req[q].status # "absent"
    /\ req' = [req EXCEPT ![r].video = v,
                          ![r].status = IF v = None THEN "rejected" ELSE "pending"]
    /\ UNCHANGED <<content, allowed, lock, sess, sends>>

-----------------------------------------------------------------------------
(* The claim transaction of process_next: expired claims are recovered,    *)
(* exhausted requests closed, and the oldest due request is taken.         *)

Freed(row) == [row EXCEPT !.token = None, !.expired = FALSE]

\* Mutants: the lease of a reply is never recovered; a lease is taken over before
\* it expires.
Recovered_ProcessingOnly(row) ==
    IF row.expired /\ row.status = "processing"
    THEN [Freed(row) EXCEPT !.status = "pending_retry", !.waits = FALSE]
    ELSE row

Recovered_BeforeExpiry(row) ==
    IF row.token = None THEN row
    ELSE IF row.status = "processing"
         THEN [Freed(row) EXCEPT !.status = "pending_retry", !.waits = FALSE]
         ELSE [Freed(row) EXCEPT !.reply = "pending_retry", !.waits = FALSE]

Recovered(row) ==
    IF ~row.expired THEN row
    ELSE IF row.status = "processing"
         THEN [Freed(row) EXCEPT !.status = "pending_retry", !.waits = FALSE]
         ELSE [Freed(row) EXCEPT !.reply = "pending_retry", !.waits = FALSE]

\* Mutant: attempts to reply are not limited.
Exhausted_ProcessingOnly(row) ==
    IF row.status \in {"pending", "pending_retry"} /\ row.attempts >= MaxAttempts
    THEN [row EXCEPT !.status = "failed", !.waits = FALSE]
    ELSE row

Exhausted(row) ==
    CASE /\ row.status \in {"pending", "pending_retry"}
         /\ row.attempts >= MaxAttempts ->
             [row EXCEPT !.status = "failed", !.waits = FALSE]
      [] /\ row.status \in Terminal
         /\ row.reply \in ReplyDue
         /\ row.replies >= ReplyMaxAttempts ->
             [row EXCEPT !.reply = "failed", !.waits = FALSE]
      [] OTHER -> row

Housekept == [r \in Request |-> Exhausted(Recovered(req[r]))]

ProcessingIsDue(row) ==
    \/ row.status = "pending"
    \/ row.status = "pending_retry" /\ ~row.waits

ReplyIsDue(row) ==
    row.status \in Terminal /\ row.reply \in ReplyDue /\ ~row.waits

Due(table) ==
    {r \in Request : ProcessingIsDue(table[r]) \/ ReplyIsDue(table[r])}

\* r is the request the transaction selects.
Selects(table, r) == r \in Due(table) /\ \A q \in Due(table) : r <= q

\* Mutant: a request that waits for its retry does not lead.
HasOlderContentLeader_PendingOnly(table, r) ==
    \E q \in 1 .. r - 1 :
        table[q].video = table[r].video /\ table[q].status = "pending"

HasOlderContentLeader(table, r) ==
    \E q \in 1 .. r - 1 :
        table[q].video = table[r].video /\ table[q].status \in Unsettled

NothingDue(w) ==
    /\ sess[w].pc = "out" /\ lock = None
    /\ Due(Housekept) = {}
    /\ req' = Housekept
    /\ UNCHANGED <<content, allowed, lock, sess, sends>>

Suppressed(row) ==
    [Freed(row) EXCEPT
        !.status = IF row.status \in Terminal THEN row.status ELSE "rejected",
        !.reply = "suppressed", !.waits = FALSE]

\* _suppress_unauthorized_request: the configured identity has changed.
SuppressUnauthorized(w, r) ==
    /\ sess[w].pc = "out" /\ lock = None
    /\ ~allowed
    /\ Selects(Housekept, r)
    /\ req' = [Housekept EXCEPT ![r] = Suppressed(Housekept[r])]
    /\ UNCHANGED <<content, allowed, lock, sess, sends>>

\* A sibling waits without an attempt while an older command leads its video.
WaitForLeader(w, r) ==
    /\ sess[w].pc = "out" /\ lock = None
    /\ allowed
    /\ Selects(Housekept, r)
    /\ ProcessingIsDue(Housekept[r])
    /\ HasOlderContentLeader(Housekept, r)
    /\ req' = [Housekept EXCEPT ![r].status = "pending_retry", ![r].waits = TRUE]
    /\ UNCHANGED <<content, allowed, lock, sess, sends>>

ClaimedReply(row, w) ==
    [row EXCEPT !.token = w, !.expired = FALSE, !.reply = "sending",
                !.replies = @ + 1]

ClaimedProcessing(row, w) ==
    [row EXCEPT !.token = w, !.expired = FALSE, !.status = "processing"]

\* The claim is committed before any external work.
Claim(w, r) ==
    /\ sess[w].pc = "out" /\ lock = None
    /\ allowed
    /\ Selects(Housekept, r)
    /\ LET row == Housekept[r]
           processing == ProcessingIsDue(row) IN
         /\ processing => ~HasOlderContentLeader(Housekept, r)
         /\ req' = [Housekept EXCEPT ![r] = IF processing
                                            THEN ClaimedProcessing(row, w)
                                            ELSE ClaimedReply(row, w)]
         /\ sess' = [sess EXCEPT ![w] =
                        [pc |-> IF processing THEN "claimed" ELSE "replying",
                         r |-> r, outcome |-> "none"]]
    /\ lock' = w
    /\ UNCHANGED <<content, allowed, sends>>

-----------------------------------------------------------------------------
(* Processing: _process_content.                                           *)

\* Mutant: the row is written although another call holds the lease now.
ConditionalUpdate_AnyToken(w, new) ==
    req' = [req EXCEPT ![sess[w].r] = Freed(new)]

\* _conditional_update: nothing is written by a call that lost its lease.
ConditionalUpdate(w, new) ==
    req' = [req EXCEPT ![sess[w].r] = IF Owns(w) THEN Freed(new) ELSE @]

Finished(row, status) ==
    [row EXCEPT !.status = status, !.waits = (status = "pending_retry")]

\* A call that finds its lease taken returns without a trace.
LeaseIsLost(w) ==
    /\ sess[w].pc \in {"claimed", "replying"}
    /\ ~Owns(w)
    /\ End(w)
    /\ UNCHANGED <<req, content, allowed, sends>>

\* There is no user, or no Google account to look the video up with.
NotAuthenticated(w) ==
    /\ sess[w].pc = "claimed" /\ Owns(w)
    /\ ConditionalUpdate(w, Finished(Claimed(w), "pending_retry"))
    /\ End(w)
    /\ UNCHANGED <<content, allowed, sends>>

\* _increment_metadata_attempt, committed before the lookup.
CountMetadataAttempt(w) ==
    /\ sess[w].pc = "claimed" /\ Owns(w)
    /\ ~Claimed(w).resolved
    /\ Claimed(w).attempts < MaxAttempts
    /\ req' = [req EXCEPT ![sess[w].r].attempts = @ + 1]
    /\ Goto(w, "lookup")
    /\ UNCHANGED <<content, allowed, lock, sends>>

VideoIsKnown(w) ==
    /\ sess[w].pc = "claimed" /\ Owns(w)
    /\ Claimed(w).resolved
    /\ Goto(w, "content")
    /\ UNCHANGED <<req, content, allowed, lock, sends>>

\* Credentials or quota: the attempt is given back.
LookupPaused(w) ==
    /\ sess[w].pc = "lookup"
    /\ LET row == Claimed(w) IN
         ConditionalUpdate(w, [Finished(row, "pending_retry") EXCEPT
                                 !.attempts = IF @ > 0 THEN @ - 1 ELSE 0])
    /\ End(w)
    /\ UNCHANGED <<content, allowed, sends>>

LookupFails(w) ==
    /\ sess[w].pc = "lookup"
    /\ \/ ConditionalUpdate(w, Finished(Claimed(w), "failed"))
       \/ /\ Claimed(w).attempts < MaxAttempts
          /\ ConditionalUpdate(w, Finished(Claimed(w), "pending_retry"))
    /\ End(w)
    /\ UNCHANGED <<content, allowed, sends>>

\* The canonical video is flushed, not committed.
LookupSucceeds(w) ==
    /\ sess[w].pc = "lookup"
    /\ Goto(w, "content")
    /\ UNCHANGED <<req, content, allowed, lock, sends>>

Resolved(row) == [row EXCEPT !.resolved = TRUE]

ShortIsDisabled(w) ==
    /\ sess[w].pc = "content"
    /\ Claimed(w).video \in Shorts
    /\ ConditionalUpdate(w, Finished(Resolved(Claimed(w)), "rejected"))
    /\ End(w)
    /\ UNCHANGED <<content, allowed, sends>>

SummaryExists(w) ==
    /\ sess[w].pc = "content"
    /\ Claimed(w).video \notin Shorts
    /\ content[Claimed(w).video] = "done"
    /\ ConditionalUpdate(w, Finished(Resolved(Claimed(w)), "completed"))
    /\ End(w)
    /\ UNCHANGED <<content, allowed, sends>>

\* What one pass of the pipeline makes of a video's content.
Advanced(c) == IF c = "open" THEN Content ELSE {c}

\* Mutant: a summary that has just been quarantined counts as completed.
ContentOutcome_HeldCompletes(before, after) ==
    CASE after = "failed" \/ before = "held" -> "failed"
      [] after \in {"done", "held"}          -> "completed"
      [] OTHER                               -> "later"

\* process_content_stages: what was quarantined before the pass fails the
\* command, what is quarantined by it is looked at again.
ContentOutcome(before, after) ==
    CASE after = "failed" \/ before = "held" -> "failed"
      [] after = "done"                      -> "completed"
      [] OTHER                               -> "later"

StatusOf(outcome) == IF outcome = "later" THEN "pending_retry" ELSE outcome

\* The direct route commits nothing before _finish_processing: content and
\* request change together, or not at all.
AdvanceContent(w) ==
    LET v == Claimed(w).video IN
    /\ sess[w].pc = "content"
    /\ v \notin Shorts /\ content[v] # "done"
    /\ \E c \in Advanced(content[v]) :
         /\ content' = IF Owns(w) THEN [content EXCEPT ![v] = c] ELSE content
         /\ ConditionalUpdate(w, Finished(Resolved(Claimed(w)),
                                     StatusOf(ContentOutcome(content[v], c))))
    /\ End(w)
    /\ UNCHANGED <<allowed, sends>>

\* The broker route commits its markers on the way, and with them whatever the
\* session holds: the content's progress and the video of the request.
PipelineCommits(w) ==
    LET v == Claimed(w).video IN
    /\ sess[w].pc = "content"
    /\ v \notin Shorts /\ content[v] = "open"
    /\ \E c \in Advanced(content[v]) :
         /\ content' = [content EXCEPT ![v] = c]
         /\ sess' = [sess EXCEPT ![w].pc = "advanced",
                                 ![w].outcome = ContentOutcome(content[v], c)]
    /\ req' = [req EXCEPT ![sess[w].r].resolved = TRUE]
    /\ UNCHANGED <<allowed, lock, sends>>

FinishAdvanced(w) ==
    /\ sess[w].pc = "advanced"
    /\ ConditionalUpdate(w, Finished(Claimed(w), StatusOf(sess[w].outcome)))
    /\ End(w)
    /\ UNCHANGED <<content, allowed, sends>>

-----------------------------------------------------------------------------
(* The reply: _deliver_reply.                                              *)

\* The last look at the token before the message leaves.
CheckOwnership(w) ==
    /\ sess[w].pc = "replying" /\ Owns(w)
    /\ Goto(w, "sending")
    /\ UNCHANGED <<req, content, allowed, lock, sends>>

\* A retryable failure may hide a message that did arrive.
SendReply(w) ==
    LET arrived == [sends EXCEPT ![sess[w].r] = @ + 1] IN
    /\ sess[w].pc = "sending"
    /\ \E outcome \in {"delivered", "retryable", "permanent"} :
         /\ sess' = [sess EXCEPT ![w].pc = "answered", ![w].outcome = outcome]
         /\ \/ outcome # "permanent" /\ sends' = arrived
            \/ outcome # "delivered" /\ UNCHANGED sends
    /\ UNCHANGED <<req, content, allowed, lock>>

Replied(row, outcome) ==
    CASE outcome = "delivered" -> [row EXCEPT !.reply = "sent"]
      [] outcome = "retryable" /\ row.replies < ReplyMaxAttempts ->
             [row EXCEPT !.reply = "pending_retry", !.waits = TRUE]
      [] OTHER -> [row EXCEPT !.reply = "failed"]

RecordReply(w) ==
    /\ sess[w].pc = "answered"
    /\ ConditionalUpdate(w, Replied(Claimed(w), sess[w].outcome))
    /\ End(w)
    /\ UNCHANGED <<content, allowed, sends>>

-----------------------------------------------------------------------------
(* The environment.                                                        *)

\* A crash, or an exception that leaves process_next: the transaction is
\* rolled back, the lease stays until it expires.
Abort(w) ==
    /\ sess[w].pc # "out"
    /\ End(w)
    /\ UNCHANGED <<req, content, allowed, sends>>

\* The lock's connection dies; the call does not notice.
DropLock(w) ==
    /\ LockMayDrop
    /\ lock = w
    /\ lock' = None
    /\ UNCHANGED <<req, content, allowed, sess, sends>>

LeaseExpires(r) ==
    /\ req[r].token # None /\ ~req[r].expired
    /\ CallMayOverrun \/ \A w \in Worker : sess[w].r # r
    /\ req' = [req EXCEPT ![r].expired = TRUE]
    /\ UNCHANGED <<content, allowed, lock, sess, sends>>

WaitElapses(r) ==
    /\ req[r].waits
    /\ req' = [req EXCEPT ![r].waits = FALSE]
    /\ UNCHANGED <<content, allowed, lock, sess, sends>>

\* Settings are read at start-up: a change needs a restart.
Reconfigure ==
    /\ \A w \in Worker : sess[w].pc = "out"
    /\ allowed' = ~allowed
    /\ UNCHANGED <<req, content, lock, sess, sends>>

\* Polling and startup, under the lock: drains, and reconciles what is held.
AutomaticPipeline(v) ==
    /\ lock = None
    /\ v \notin Shorts
    /\ content[v] \in {"open", "held"}
    /\ \E c \in Content \ {content[v]} : content' = [content EXCEPT ![v] = c]
    /\ UNCHANGED <<req, allowed, lock, sess, sends>>

-----------------------------------------------------------------------------

Init ==
    /\ req = [r \in Request |-> Absent]
    /\ content = [v \in Video |-> "open"]
    /\ allowed = TRUE
    /\ lock = None
    /\ sess = [w \in Worker |-> Outside]
    /\ sends = [r \in Request |-> 0]

Select(w, r) == SuppressUnauthorized(w, r) \/ WaitForLeader(w, r) \/ Claim(w, r)

Processing(w) ==
    \/ LeaseIsLost(w) \/ NotAuthenticated(w) \/ CountMetadataAttempt(w)
    \/ VideoIsKnown(w) \/ LookupPaused(w) \/ LookupFails(w) \/ LookupSucceeds(w)
    \/ ShortIsDisabled(w) \/ SummaryExists(w) \/ AdvanceContent(w)
    \/ PipelineCommits(w) \/ FinishAdvanced(w)

Replying(w) == CheckOwnership(w) \/ SendReply(w) \/ RecordReply(w)

Next ==
    \/ \E r \in Request, v \in Video \union {None} : Accept(r, v)
    \/ \E w \in Worker :
          \/ NothingDue(w) \/ Processing(w) \/ Replying(w)
          \/ Abort(w) \/ DropLock(w)
          \/ \E r \in Request : Select(w, r)
    \/ \E r \in Request : LeaseExpires(r) \/ WaitElapses(r)
    \/ \E v \in Video : AutomaticPipeline(v)
    \/ Reconfigure

Spec == Init /\ [][Next]_vars
-----------------------------------------------------------------------------
(* Properties.                                                             *)

TypeOK ==
    /\ req \in [Request -> Row]
    /\ content \in [Video -> Content]
    /\ allowed \in BOOLEAN
    /\ lock \in Worker \union {None}
    /\ sess \in [Worker -> Session]
    /\ sends \in [Request -> Nat]

\* A row carries a lease exactly while it is claimed, for one purpose at a time:
\* no claim can be forgotten by _recover_stale_claims.
ClaimsAreLeased ==
    \A r \in Request :
        /\ (req[r].token # None) =
              (req[r].status = "processing" \/ req[r].reply = "sending")
        /\ req[r].reply # "pending" => req[r].status \in Terminal
        /\ req[r].expired => req[r].token # None

\* Every reply that reaches the chat was paid for by a committed claim, so that
\* crashes and lost answers cannot repeat it more often than reply_max_attempts.
RepliesAreCounted ==
    \A r \in Request :
        sends[r] <= req[r].replies /\ req[r].replies <= ReplyMaxAttempts

\* The Shared-Content Leader Rule: of the commands for one video only the oldest
\* undecided one is ever in processing.
LeaderWorksAlone ==
    \A q, r \in Request :
        q < r /\ req[r].status = "processing" /\ req[q].status \in Unsettled
            => req[q].video # req[r].video

\* A command is completed only when its video has a summary to reply with.
CompletedHasSummary ==
    \A r \in Request :
        req[r].status = "completed" => content[req[r].video] = "done"

\* No call, however late, reopens a decision or a closed reply.
SettledStaysSettled ==
    [][\A r \in Request :
          /\ req[r].status \in Terminal => req'[r].status = req[r].status
          /\ req[r].reply \in {"sent", "failed", "suppressed"} =>
                req'[r].reply = req[r].reply]_vars

\* The lease fences: until it expires, only the call that holds it ends it.
LeaseIsRespected ==
    [][\A r \in Request :
          req[r].token # None /\ ~req[r].expired /\ req'[r].token # req[r].token
              => sess'[req[r].token] = Outside /\ sess[req[r].token].r = r]_vars

\* The books CommandLedger keeps: decided by the status, closed by the reply.
Decision(row) ==
    CASE row.status = "absent"      -> "none"
      [] row.status \in Unsettled   -> "open"
      [] OTHER                      -> row.status

Ledger == INSTANCE CommandLedger WITH
    Command <- Request, MaxAnswers <- ReplyMaxAttempts,
    decision <- [r \in Request |-> Decision(req[r])],
    closed <- [r \in Request |-> req[r].reply \in {"sent", "failed", "suppressed"}],
    answers <- sends

\* Under the exclusive lock the queue keeps the books of CommandLedger.
ImplementsLedger == Ledger!Spec

-----------------------------------------------------------------------------
(* Liveness.  A call that has started runs on, clocks advance, and the      *)
(* listener keeps calling.  Calls may fail for ever; a request that is the  *)
(* oldest due one again and again is eventually selected (a retry waits at  *)
(* least 30 seconds, and the listener's drain goes on at once).  Without    *)
(* CallMayOverrun the lease of an hour outlasts a call.                     *)

Selected(r) == \E w \in Worker : Select(w, r)

Recovers(r) ==
    /\ req[r].expired
    /\ \E w \in Worker : NothingDue(w) \/ \E q \in Request : Select(w, q)

Fairness ==
    /\ \A w \in Worker : WF_vars(Processing(w) \/ Replying(w))
    /\ \A r \in Request :
          /\ SF_vars(Selected(r))
          /\ SF_vars(Recovers(r))
          /\ WF_vars(LeaseExpires(r))
          /\ WF_vars(WaitElapses(r))

FairSpec == Spec /\ Fairness

\* Every decided command is answered, given up after reply_max_attempts, or
\* suppressed.
DecisionsAreClosed ==
    \A r \in Request :
        req[r].status \in Terminal ~>
            req[r].reply \in {"sent", "failed", "suppressed"}

-----------------------------------------------------------------------------
(* The inductive invariant behind the safety properties.  It needs no lock: *)
(* the leases and the conditional updates carry it.                         *)

\* A row by itself: its claim, its lease and its count of replies fit together,
\* and a command that is to be processed has a video.
RowShape(row) ==
    /\ (row.token # None) = (row.status = "processing" \/ row.reply = "sending")
    /\ row.reply # "pending" => row.status \in Terminal
    /\ row.expired => row.token # None
    /\ row.replies <= ReplyMaxAttempts
    /\ row.reply = "pending" => row.replies = 0
    /\ row.status \notin {"absent", "rejected"} => row.video # None

\* Commands are accepted in the order of their identifiers.
AcceptedInOrder ==
    \A q, r \in Request :
        q < r /\ req[r].status # "absent" => req[q].status # "absent"

Working   == {"claimed", "lookup", "content", "advanced"}
Answering == {"replying", "sending", "answered"}

\* A call that still holds its lease finds its request in the state it claimed
\* it in, and knows no summary that is not there.
SessionAgrees(w) ==
    /\ sess[w].pc # "out" =>
          sess[w].r \in Request /\ Claimed(w).status # "absent"
    /\ sess[w].pc \in Working => Claimed(w).video # None
    /\ sess[w].pc \in Working /\ Owns(w) => Claimed(w).status = "processing"
    /\ sess[w].pc \in Answering /\ Owns(w) => Claimed(w).reply = "sending"
    /\ sess[w].pc = "advanced" =>
          /\ sess[w].outcome \in {"completed", "failed", "later"}
          /\ sess[w].outcome = "completed" => content[Claimed(w).video] = "done"

\* The calls that have claimed a reply to r and have not sent it.
InFlight(r) ==
    {w \in Worker : sess[w].pc \in {"replying", "sending"} /\ sess[w].r = r}

\* What was sent and what may still be sent has been counted.
Counted ==
    \A r \in Request : sends[r] + Cardinality(InFlight(r)) <= req[r].replies

IInv ==
    /\ TypeOK
    /\ \A r \in Request : RowShape(req[r])
    /\ AcceptedInOrder
    /\ LeaderWorksAlone
    /\ CompletedHasSummary
    /\ \A w \in Worker : SessionAgrees(w)
    /\ Counted
=============================================================================
