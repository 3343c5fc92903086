---------------------------- MODULE PipelineStages ----------------------------
(***************************************************************************)
(* The stages of a video (app/services/pipeline.py): transcript, summary,  *)
(* the Telegram message, and the notice sent in its place when one of them *)
(* fails.  A run (poll, startup, manual command) works in one database     *)
(* session under the execution lock, so one run at a time; what it has not *)
(* committed is lost when it dies.                                         *)
(*                                                                         *)
(* The broker's part of the summary is kept as far as its commits and the  *)
(* row it leaves behind show here: BrokerSubmission has the rest, among it *)
(* the plan of a long video, which is one attempt here.  The application   *)
(* always passes a transcript, a summary and a Telegram service.           *)
(***************************************************************************)
EXTENDS Integers, Sequences, FiniteSets

CONSTANTS
    Video,          \* numbered in the order of publication
    Short,          \* the videos that are Shorts
    MaxAttempts,    \* max_attempts of a stage
    MaxFaults       \* bound: crashes, restarts, answers lost on the way

ASSUME PipelineAssumption ==
    /\ Video \subseteq Nat /\ IsFiniteSet(Video)
    /\ Short \subseteq Video
    /\ MaxAttempts \in Nat \ {0}
    /\ MaxFaults \in Nat

VARIABLES
    db,             \* the committed rows of every video
    mem,            \* the same as the session of the run sees them
    run,            \* the run in progress
    shortsEnabled,  \* shorts_processing_enabled, read when the program starts
    copies,         \* messages about a video that reached the chat (history)
    doubts,         \* those the program cannot know of (history)
    faults

history == <<copies, doubts>>
vars == <<db, mem, run, shortsEnabled, history, faults>>

-----------------------------------------------------------------------------
(* The rows of one video.                                                  *)

Content   == {"transcript", "summary"}
Automatic == Content \union {"telegram"}
Stage     == Automatic \union {"fallback"}
Message   == {"telegram", "fallback"}

\* pending is STATUS_PENDING or STATUS_PENDING_RETRY: no rule tells them apart.
Status == {"absent", "pending", "completed", "failed", "skipped"}

\* at        the status of the stage rows     tries     attempt_count
\* text      what the video row holds         delayed   next_attempt_at is ahead
\* residue   the broker marker of a submission that has not ended
\* held      the summary is quarantined: without a task (blocked), until the
\*           operator looks at its task (awaiting), or to be asked for (eligible)
\* alerted   reconciliation_alerted_at is set
Rows == [at : [Stage -> Status], tries : [Automatic -> 0 .. MaxAttempts + MaxFaults],
         text : SUBSET Content, delayed : BOOLEAN,
         residue : {"none", "prepared", "accepted"},
         held : {"no", "blocked", "awaiting", "eligible"}, alerted : BOOLEAN]

NoRows == [at |-> [s \in Stage |-> "absent"], tries |-> [s \in Automatic |-> 0],
           text |-> {}, delayed |-> FALSE, residue |-> "none", held |-> "no",
           alerted |-> FALSE]

Open(r, s)        == r.at[s] = "pending"
Ended(r, s, end)  == [r EXCEPT !.at[s] = end]
Attempted(r, s)   == [r EXCEPT !.tries[s] = @ + 1]

\* Mutant: no attempt is the last.
Retried_NeverGivenUp(r, s) == Ended(r, s, "pending")

\* The stage of an attempt that failed: given up at max_attempts.
Retried(r, s) == Ended(r, s, IF r.tries[s] >= MaxAttempts THEN "failed" ELSE "pending")

\* _skip_stage leaves a completed and a failed stage alone.
Skipped(r, s) == IF Open(r, s) THEN Ended(r, s, "skipped") ELSE r

SkippedShort(r) ==
    [r EXCEPT !.at = [s \in Stage |-> IF Open(r, s) THEN "skipped" ELSE @[s]]]

\* create_stages_for_video, create_content_stages_for_video
WithStages(r, stages) ==
    [r EXCEPT !.at = [s \in Stage |->
                         IF s \in stages /\ @[s] = "absent" THEN "pending" ELSE @[s]]]

MayProcess(v) == shortsEnabled \/ v \notin Short

\* A manual command leaves content stages only: they are no reason to drain.
AutomaticIntent(r) == r.at["telegram"] # "absent" \/ r.at["fallback"] # "absent"

SummaryIsDue(r) == r.held = "no" /\ ~r.delayed

\* Mutant: an open notice is no reason to drain.
IsDue_NoticeAside(r) ==
    \/ Open(r, "telegram")
    \/ AutomaticIntent(r) /\ Open(r, "transcript")
    \/ AutomaticIntent(r) /\ Open(r, "summary") /\ SummaryIsDue(r)

\* A video is drained for any stage that is open and may be tried.
IsDue(r) ==
    \/ Open(r, "telegram") \/ Open(r, "fallback")
    \/ AutomaticIntent(r) /\ Open(r, "transcript")
    \/ AutomaticIntent(r) /\ Open(r, "summary") /\ SummaryIsDue(r)

\* Mutants: only the message's own failure is reported; so is a failed attempt.
MustReport_MessageOnly(r) == r.at["telegram"] = "failed" \/ r.held # "no"
MustReport_FailedAttempt(r) ==
    (\E s \in Automatic : r.at[s] = "failed" \/ (r.tries[s] > 0 /\ Open(r, s))) \/ r.held # "no"

\* _should_trigger_fallback
MustReport(r) == (\E s \in Automatic : r.at[s] = "failed") \/ r.held # "no"

-----------------------------------------------------------------------------
(* The run and its session.                                                *)

Phase == {"idle", "reconcile", "select", "next", "content", "transcript",
          "summary", "inference", "telegram", "notice", "commit"}

Run == [kind : {"none", "poll", "startup", "manual"}, pc : Phase, queue : Seq(Video)]

NoRun == [kind |-> "none", pc |-> "idle", queue |-> <<>>]

Goto(pc) == run' = [run EXCEPT !.pc = pc]

Begin(kind, pc, queue) ==
    /\ run = NoRun
    /\ run' = [kind |-> kind, pc |-> pc, queue |-> queue]
    /\ UNCHANGED <<db, mem, shortsEnabled, history, faults>>

Current == Head(run.queue)

At(pc) == run.pc = pc /\ UNCHANGED <<shortsEnabled, db>>

\* The session's rows of the video at hand become r.
Becomes(r) == mem' = [mem EXCEPT ![Current] = r]

\* ... and the broker coordinator commits them at once.
BecomesCommitted(r) == Becomes(r) /\ db' = mem'

-----------------------------------------------------------------------------
(* What starts and ends a run.                                             *)

\* The polling channel loop meets a new upload (its session is Polling's).
Discover(v) ==
    /\ run = NoRun /\ MayProcess(v)
    /\ ~AutomaticIntent(db[v])
    /\ db' = [db EXCEPT ![v] = WithStages(@, Automatic)]
    /\ mem' = db'
    /\ UNCHANGED <<run, shortsEnabled, history, faults>>

StartPoll      == Begin("poll", "reconcile", <<>>)
StartStartup   == Begin("startup", "select", <<>>)
StartManual(v) == Begin("manual", "content", <<v>>)

\* make_quarantine_get_eligible, the operator's command
MakeEligible(v) ==
    /\ run = NoRun /\ db[v].held = "awaiting"
    /\ db' = [db EXCEPT ![v].held = "eligible"]
    /\ mem' = db'
    /\ UNCHANGED <<run, shortsEnabled, history, faults>>

\* Time: the delay of a committed retry is over.
DelayEnds(v) ==
    /\ db[v].delayed
    /\ db' = [db EXCEPT ![v].delayed = FALSE]
    /\ mem' = [mem EXCEPT ![v].delayed = FALSE]
    /\ UNCHANGED <<run, shortsEnabled, history, faults>>

\* A message of the video at hand that the database does not know of.
Uncommitted(v, s) ==
    /\ run.queue # <<>> /\ v = Current
    /\ mem[v].at[s] = "completed" /\ db[v].at[s] # "completed"

\* The run dies, by an exception that rolls back or with the program, which may
\* come back with the other setting.
Crash ==
    /\ faults < MaxFaults
    /\ faults' = faults + 1
    /\ run' = NoRun /\ mem' = db
    /\ shortsEnabled' \in BOOLEAN
    /\ doubts' = [v \in Video |-> [s \in Message |->
                     doubts[v][s] + IF Uncommitted(v, s) THEN 1 ELSE 0]]
    /\ UNCHANGED <<db, copies>>

-----------------------------------------------------------------------------
(* reconcile_quarantined_summaries and the selection of a drain            *)

\* The GET of an eligible summary's task: nothing that decides; a task that ended
\* without a summary; an interim summary of a long video, which goes on with the
\* next part; the summary.
GetAnswer == {"undecided", "useless", "part", "summary"}

AfterGet(r, answer) ==
    LET released == [r EXCEPT !.held = "no"] IN
    CASE answer = "undecided" -> r
      [] answer = "useless"   -> Ended(released, "summary", "failed")
      [] answer = "part"      -> [Ended(released, "summary", "pending") EXCEPT
                                     !.delayed = FALSE,
                                     !.tries["summary"] = IF @ > 0 THEN @ - 1 ELSE 0]
      [] answer = "summary"   -> [Ended(released, "summary", "completed") EXCEPT
                                     !.text = @ \union {"summary"}]

\* Every eligible row is asked for, whatever the status of its stage.
Reconcile ==
    /\ At("reconcile")
    /\ LET eligible == {v \in Video : mem[v].held = "eligible"} IN
       \E answer \in [eligible -> GetAnswer] :
           mem' = [v \in Video |-> IF v \in eligible THEN AfterGet(mem[v], answer[v])
                                   ELSE mem[v]]
    /\ Goto("select")
    /\ UNCHANGED <<history, faults>>

SkipDisabledShorts ==
    [v \in Video |-> IF MayProcess(v) THEN mem[v] ELSE SkippedShort(mem[v])]

\* The videos of S in the order of publication: the i-th has i - 1 before it.
OldestFirst(S) ==
    [i \in 1 .. Cardinality(S) |-> CHOOSE v \in S : Cardinality({u \in S : u < v}) = i - 1]

\* Oldest first; at startup one video.
Select ==
    /\ At("select")
    /\ mem' = SkipDisabledShorts
    /\ LET due == OldestFirst({v \in Video : IsDue(mem'[v])}) IN
       run' = [run EXCEPT !.pc = "next",
                          !.queue = IF run.kind = "startup" /\ due # <<>>
                                    THEN <<Head(due)>> ELSE due]
    /\ UNCHANGED <<history, faults>>

\* process_new_video_stages
TakeVideo ==
    /\ At("next") /\ run.queue # <<>>
    /\ IF MayProcess(Current)
       THEN Becomes(WithStages(mem[Current], Automatic)) /\ Goto("transcript")
       ELSE Becomes(SkippedShort(mem[Current])) /\ Goto("commit")
    /\ UNCHANGED <<history, faults>>

\* process_content_stages
TakeManual ==
    /\ At("content")
    /\ LET r == WithStages(mem[Current], Content) IN
       IF MayProcess(Current)
       THEN /\ Becomes(r)
            /\ Goto(IF r.held # "no" \/ \E s \in Content : r.at[s] = "skipped"
                    THEN "commit" ELSE "transcript")
       ELSE Goto("commit") /\ UNCHANGED mem
    /\ UNCHANGED <<history, faults>>

\* Mutant: the poll commits at its end.
Commit_AtEnd ==
    /\ run.pc = "commit"
    /\ IF run.kind = "manual" THEN db' = mem /\ run' = NoRun
       ELSE UNCHANGED db /\ run' = [run EXCEPT !.pc = "next", !.queue = Tail(@)]
    /\ UNCHANGED <<mem, shortsEnabled, history, faults>>

\* The video is committed; a manual command, committed by the queue, ends.
Commit ==
    /\ run.pc = "commit"
    /\ db' = mem
    /\ run' = IF run.kind = "manual" THEN NoRun
              ELSE [run EXCEPT !.pc = "next", !.queue = Tail(@)]
    /\ UNCHANGED <<mem, shortsEnabled, history, faults>>

EndRun ==
    /\ run.pc = "next" /\ run.queue = <<>>
    /\ db' = mem
    /\ run' = NoRun
    /\ UNCHANGED <<mem, shortsEnabled, history, faults>>

-----------------------------------------------------------------------------
(* The transcript.                                                         *)

\* No transcript to be had, now (retryable) or ever.
TranscriptAttempts(r) ==
    LET a == Attempted(r, "transcript") IN
    {Retried(a, "transcript"), Ended(a, "transcript", "failed"),
     [Ended(a, "transcript", "completed") EXCEPT !.text = @ \union {"transcript"}]}

\* _attempt_transcript_stage
AfterTranscript(r) ==
    IF ~Open(r, "transcript") THEN {r}
    ELSE IF "transcript" \in r.text THEN {Ended(r, "transcript", "completed")}
    ELSE TranscriptAttempts(r)

\* What follows it depends on what is there now, tried in this run or not.
Transcript ==
    /\ At("transcript")
    /\ \E r \in AfterTranscript(mem[Current]) :
          \/ /\ r.at["transcript"] = "completed"
             /\ Becomes(r) /\ Goto("summary")
          \/ /\ r.at["transcript"] = "failed"
             /\ Becomes(Skipped(r, "summary"))
             /\ Goto(IF run.kind = "manual" THEN "commit" ELSE "telegram")
          \/ /\ r.at["transcript"] \notin {"completed", "failed"}
             /\ Becomes(r)
             /\ Goto(IF run.kind = "manual" THEN "commit" ELSE "telegram")
    /\ UNCHANGED <<history, faults>>

-----------------------------------------------------------------------------
(* The summary: _attempt_summary_stage                                     *)

AfterSummary == Goto(IF run.kind = "manual" THEN "commit" ELSE "telegram")

MayTrySummary(r) == Open(r, "summary") /\ SummaryIsDue(r)

SummaryStays ==
    /\ At("summary")
    /\ LET r == mem[Current] IN
       \/ ~MayTrySummary(r) /\ UNCHANGED mem
       \/ MayTrySummary(r) /\ "summary" \in r.text /\ Becomes(Ended(r, "summary", "completed"))
    /\ AfterSummary
    /\ UNCHANGED <<history, faults>>

Summarised(r) == [Ended(r, "summary", "completed") EXCEPT !.text = @ \union {"summary"},
                                                          !.residue = "none"]

\* A failure the policy retries is delayed until the attempts are used up.
Postponed(r) ==
    IF r.tries["summary"] >= MaxAttempts THEN Ended(r, "summary", "failed")
    ELSE [Ended(r, "summary", "pending") EXCEPT !.delayed = TRUE]

\* llama.cpp: answered; failed; an empty answer, not delayed.
SummariseDirectly ==
    /\ At("summary")
    /\ LET a == Attempted(mem[Current], "summary") IN
       /\ MayTrySummary(mem[Current]) /\ "summary" \notin a.text /\ a.residue = "none"
       /\ \E r \in {Summarised(a), Postponed(a), Retried(a, "summary")} : Becomes(r)
    /\ AfterSummary
    /\ UNCHANGED <<history, faults>>

\* Who asks for a task that is known waits for the operator, else it is blocked.
Quarantined(r) ==
    [Ended(r, "summary", "pending") EXCEPT
        !.residue = "none", !.held = IF r.residue = "accepted" THEN "awaiting" ELSE "blocked"]

\* The broker: the marker is committed, and with it the transcript.
Prepare ==
    /\ run.pc = "summary" /\ UNCHANGED shortsEnabled
    /\ LET r == mem[Current] IN
       /\ MayTrySummary(r) /\ "summary" \notin r.text /\ r.residue = "none"
       /\ BecomesCommitted([Attempted(r, "summary") EXCEPT !.residue = "prepared"])
    /\ Goto("inference")
    /\ UNCHANGED <<history, faults>>

\* A marker found here is what a crash left.
QuarantineResidue ==
    /\ run.pc = "summary" /\ UNCHANGED shortsEnabled
    /\ LET r == mem[Current] IN
       /\ MayTrySummary(r) /\ "summary" \notin r.text /\ r.residue # "none"
       /\ BecomesCommitted(Quarantined(Attempted(r, "summary")))
    /\ AfterSummary
    /\ UNCHANGED <<history, faults>>

Accept ==
    /\ run.pc = "inference" /\ mem[Current].residue = "prepared"
    /\ BecomesCommitted([mem[Current] EXCEPT !.residue = "accepted"])
    /\ UNCHANGED <<run, shortsEnabled, history, faults>>

\* The broker's answers, classified: SummaryFailurePolicy.
Conclude ==
    /\ run.pc = "inference" /\ UNCHANGED shortsEnabled
    /\ LET r == mem[Current]
           ended == [r EXCEPT !.residue = "none"] IN
       \/ r.residue = "accepted" /\ BecomesCommitted(Summarised(r))
       \/ BecomesCommitted(Quarantined(r))
       \/ BecomesCommitted(Ended(ended, "summary", "failed"))
       \/ BecomesCommitted(Postponed(ended))
    /\ AfterSummary
    /\ UNCHANGED <<history, faults>>

-----------------------------------------------------------------------------
(* The message, and the notice in its place.                               *)

\* The chat gets a message, or not; the program hears of it, or not.
Sent(s) == copies' = [copies EXCEPT ![Current][s] = @ + 1]

InDoubt(s) ==
    /\ faults < MaxFaults
    /\ faults' = faults + 1
    /\ Sent(s)
    /\ doubts' = [doubts EXCEPT ![Current][s] = @ + 1]

MaySend(r) == r.at["summary"] = "completed" /\ Open(r, "telegram")

\* _attempt_telegram_stage
SendTelegram ==
    /\ At("telegram")
    /\ MaySend(mem[Current])
    /\ LET a == Attempted(mem[Current], "telegram") IN
       \/ /\ Becomes(Ended(a, "telegram", "completed"))
          /\ Sent("telegram") /\ UNCHANGED <<doubts, faults>>
       \/ /\ Becomes(Retried(a, "telegram"))
          /\ InDoubt("telegram") \/ UNCHANGED <<history, faults>>
       \/ /\ Becomes(Ended(a, "telegram", "failed"))
          /\ UNCHANGED <<history, faults>>
    /\ Goto("notice")

\* Mutant: the message is not given up with the summary.
NoTelegram_Waits ==
    /\ At("telegram")
    /\ ~MaySend(mem[Current])
    /\ UNCHANGED mem
    /\ Goto("notice")
    /\ UNCHANGED <<history, faults>>

NoTelegram ==
    /\ At("telegram")
    /\ ~MaySend(mem[Current])
    /\ IF mem[Current].at["summary"] \in {"failed", "skipped"}
       THEN Becomes(Skipped(mem[Current], "telegram")) ELSE UNCHANGED mem
    /\ Goto("notice")
    /\ UNCHANGED <<history, faults>>

\* Mutant: the notice of a quarantine is like any other.
NoticeSent_NotRecorded(r) == Ended(r, "fallback", "completed")

\* The notice of a quarantine is recorded as such.
NoticeSent(r) == [Ended(r, "fallback", "completed") EXCEPT !.alerted = @ \/ r.held # "no"]

\* _attempt_fallback_telegram, _attempt_single_fallback: tried until it is sent
\* or refused, however often.
SendNotice ==
    /\ At("notice")
    /\ MustReport(mem[Current])
    /\ LET r == WithStages(mem[Current], {"fallback"}) IN
       /\ Open(r, "fallback")
       /\ \/ /\ Becomes(NoticeSent(r))
             /\ Sent("fallback") /\ UNCHANGED <<doubts, faults>>
          \/ /\ Becomes(r)
             /\ InDoubt("fallback") \/ UNCHANGED <<history, faults>>
          \/ /\ Becomes(Ended(r, "fallback", "failed"))
             /\ UNCHANGED <<history, faults>>
    /\ Goto("commit")

NoNotice ==
    /\ At("notice")
    /\ MustReport(mem[Current]) => mem[Current].at["fallback"] \notin {"absent", "pending"}
    /\ UNCHANGED mem
    /\ Goto("commit")
    /\ UNCHANGED <<history, faults>>

-----------------------------------------------------------------------------
Init ==
    /\ db = [v \in Video |-> NoRows] /\ mem = db
    /\ run = NoRun
    /\ shortsEnabled \in BOOLEAN
    /\ copies = [v \in Video |-> [s \in Message |-> 0]] /\ doubts = copies
    /\ faults = 0

ProcessVideo ==
    \/ TakeVideo \/ TakeManual \/ Transcript
    \/ SummaryStays \/ SummariseDirectly \/ Prepare \/ QuarantineResidue \/ Accept \/ Conclude
    \/ SendTelegram \/ NoTelegram \/ SendNotice \/ NoNotice
    \/ Commit

RunStep == Reconcile \/ Select \/ ProcessVideo \/ EndRun

Next ==
    \/ StartPoll \/ StartStartup
    \/ \E v \in Video : Discover(v) \/ StartManual(v) \/ MakeEligible(v) \/ DelayEnds(v)
    \/ RunStep
    \/ Crash

Spec == Init /\ [][Next]_vars

-----------------------------------------------------------------------------
(* Safety.                                                                 *)

\* Every variable keeps to the values the code can store.
TypeOK ==
    /\ db \in [Video -> Rows] /\ mem \in [Video -> Rows]
    /\ run \in Run /\ (run.pc = "idle") = (run = NoRun)
    /\ shortsEnabled \in BOOLEAN
    /\ copies \in [Video -> [Message -> Nat]] /\ doubts \in [Video -> [Message -> Nat]]
    /\ faults \in 0 .. MaxFaults

\* The summary, and the notice, reach the chat once, but for an answer that was
\* lost or a run that died before its commit (_attempt_telegram_stage,
\* _attempt_single_fallback, drain_pending_videos: one commit per video).
RepeatsAreExplained ==
    \A v \in Video, s \in Message : copies[v][s] <= 1 + doubts[v][s]

\* A video that is no Short is never dropped in silence: once its message is
\* given up, by its own failure or by an earlier stage's, the notice exists
\* (_skip_stage and _should_trigger_fallback in one run, one commit).
NoSilentFailure ==
    \A v \in Video \ Short :
        db[v].at["telegram"] \in {"failed", "skipped"}
        => db[v].at["fallback"] \in {"pending", "completed", "failed"}

\* No video is announced both with its summary and as failed: only the notice
\* of a quarantine may be followed by the summary (_build_fallback_reason), or
\* one the program cannot know of.
NoFailureNoticeOfSummary ==
    \A v \in Video :
        /\ copies[v]["telegram"] > 0 /\ copies[v]["fallback"] > 0
        => mem[v].alerted \/ \E s \in Message : doubts[v][s] > 0

-----------------------------------------------------------------------------
(* The pipeline implements VideoOutcome, as far as it knows.               *)

Told(r) == IF r.at["telegram"] = "completed" THEN "summary"
           ELSE IF r.at["fallback"] # "completed" THEN "nothing"
           ELSE IF r.alerted THEN "delay" ELSE "failure"

Outcomes == INSTANCE VideoOutcome WITH told <- [v \in Video |-> Told(db[v])]

\* What the committed rows say the user was told follows VideoOutcome through
\* retries, quarantines, crashes and a change of the Shorts setting.
ImplementsOutcomes == Outcomes!Spec

-----------------------------------------------------------------------------
(* Liveness: polls are started by a timer again and again, a run goes on,  *)
(* delays end, and Telegram answers in the end.                            *)

NoticeAnswered == SendNotice /\ ~Open(mem'[Current], "fallback")

Fairness ==
    /\ SF_vars(StartPoll)
    /\ WF_vars(RunStep)
    /\ \A v \in Video : WF_vars(DelayEnds(v))
    /\ SF_vars(NoticeAnswered)

FairSpec == Spec /\ Fairness

\* A video that is owed its message is settled, or waits for the operator
\* (drain_pending_videos takes every video with an open stage).
EveryVideoSettles ==
    \A v \in Video :
        Open(db[v], "telegram") ~> ~Open(db[v], "telegram") \/ db[v].held # "no"

\* A failure that is found while the message is still owed, or the notice still
\* open, is reported or its notice refused, unless it is released, or the Short
\* disabled, meanwhile (_attempt_fallback_telegram in every poll).
FailureIsReported ==
    \A v \in Video :
        /\ MustReport(db[v])
        /\ Open(db[v], "telegram") \/ Open(db[v], "fallback")
        ~> \/ db[v].at["fallback"] \in {"completed", "failed", "skipped"}
           \/ ~MustReport(db[v]) \/ ~MayProcess(v)
=============================================================================
