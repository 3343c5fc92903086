------------------------------- MODULE Polling -------------------------------
(***************************************************************************)
(* The poll of the monitored channels and the reconciliation of missed     *)
(* uploads (app/services/polling.py, app/api/routes/polling.py), with the  *)
(* quota of the YouTube API they share with the metadata lookup of a       *)
(* manual command (app/services/youtube_video_metadata.py).                *)
(*                                                                         *)
(* All three run under the execution lock, one at a time, each in one      *)
(* database session: mem is what the session sees, db what is committed.   *)
(* The drain of the pipeline commits after every video, and with it all    *)
(* the session holds; PipelineStages has the rest of it, MobilePush the    *)
(* push.  The quota safety stop and the pipeline are configured.           *)
(***************************************************************************)
EXTENDS Integers, Sequences, FiniteSets, FiniteSetsExt

CONSTANTS
    Channel,        \* monitored channels, in the order of their rows
    MaxUploads,     \* bound: uploads of a channel
    Existing,       \* those from before it was monitored
    Short,          \* the videos, <<channel, number>>, that are Shorts
    ShortsEnabled,  \* shorts_processing_enabled
    Budget,         \* daily_quota_budget
    PageSize,       \* uploads on a page of the playlist
    MaxPages,       \* reconciliation_max_pages_per_channel
    MaxCommands,    \* bound: reconciliations and manual lookups
    MaxFaults       \* bound: runs lost, errors, answers lost, uploads withdrawn

Number == 1 .. MaxUploads
Video  == Channel \X Number

ASSUME PollingAssumption ==
    /\ Channel \subseteq Nat /\ IsFiniteSet(Channel)
    /\ Short \subseteq Video
    /\ ShortsEnabled \in BOOLEAN
    /\ {Budget, PageSize, MaxPages} \subseteq Nat \ {0}
    /\ {MaxUploads, MaxCommands, MaxFaults} \subseteq Nat
    /\ Existing \in 0 .. MaxUploads

VARIABLES
    playlist,   \* the uploads of every channel that are on YouTube
    published,  \* how many there were
    db,         \* committed: markers, videos, the quota counted today
    mem,        \* the same as the run's session sees it
    run,        \* the run in progress
    ctx,        \* its quota context
    base,       \* the marker that was taken for a baseline (history)
    mailed,     \* e-mails that were sent for a video (history)
    doubts,     \* those the program cannot know of (history)
    units,      \* units spent today, and not yet or never counted (history)
    commands, faults

history == <<base, mailed, doubts>>
external == <<playlist, published, commands>>
vars == <<external, db, mem, run, ctx, history, units, faults>>

-----------------------------------------------------------------------------
(* The rows.                                                               *)

\* retry is pending_retry, after one attempt; pending has none.
Mail == {"none", "pending", "retry", "delivered", "failed", "skipped"}

Row == [known : BOOLEAN, short : {"unknown", "yes", "no"},
        stages : {"none", "open", "done"}, mail : Mail]

NoRow == [known |-> FALSE, short |-> "unknown", stages |-> "none", mail |-> "none"]

Tables == [marker : [Channel -> 0 .. MaxUploads], based : [Channel -> BOOLEAN],
           video : [Video -> Row], used : Nat]

MayProcess(r) == ShortsEnabled \/ r.short # "yes"

\* Mutant: the reason is written where the status belongs.
SkippedShort_Reason(r) ==
    IF MayProcess(r) THEN r
    ELSE [r EXCEPT !.stages = IF @ = "open" THEN "done" ELSE @,
                   !.mail = IF @ \in {"pending", "retry"} THEN "short_disabled" ELSE @]

\* _skip_disabled_short_work
SkippedShort(r) ==
    IF MayProcess(r) THEN r
    ELSE [r EXCEPT !.stages = IF @ = "open" THEN "done" ELSE @,
                   !.mail = IF @ \in {"pending", "retry"} THEN "skipped" ELSE @]

SkipShorts(t) == [t EXCEPT !.video = [v \in Video |-> SkippedShort(@[v])]]

\* Mutant: stages only for a video the poll itself inserted.
WithStages_NewOnly(r) ==
    [r EXCEPT !.known = TRUE, !.stages = IF ~r.known /\ MayProcess(r) THEN "open" ELSE @]

\* _get_or_create_video, then create_stages_for_video unless a disabled Short.
WithStages(r) ==
    [r EXCEPT !.known = TRUE, !.stages = IF @ = "none" /\ MayProcess(r) THEN "open" ELSE @]

WithDelivery(r) == [r EXCEPT !.mail = IF @ = "none" /\ MayProcess(r) THEN "pending" ELSE @]

\* _attempt_detect_and_mark_short: nothing to do, by the title, by the duration
\* (one unit), or not at all.
Truth(v) == IF v \in Short THEN "yes" ELSE "no"

Detections(v, r) ==
    IF r.short # "unknown" THEN {[short |-> r.short, cost |-> 0]}
    ELSE {[short |-> Truth(v), cost |-> 1], [short |-> "unknown", cost |-> 1]}
         \union {[short |-> "yes", cost |-> 0] : x \in {v} \intersect Short}

-----------------------------------------------------------------------------
(* The run, its quota context and its session.                             *)

Phase == {"idle", "drain", "mails", "channels", "drain again"}

Run == [kind : {"none", "poll", "reconcile"}, pc : Phase, queue : Seq(Video \union Channel)]

NoRun == [kind |-> "none", pc |-> "idle", queue |-> <<>>]

\* stale    midnight passed since the context was built
Context == [used : Nat, blocked : BOOLEAN, stale : BOOLEAN]

NoContext == [used |-> 0, blocked |-> FALSE, stale |-> FALSE]

\* spent    units used today     unsaved    those of this run, not yet written
\* uncounted  those of runs and lookups that did not live to write them
Units == [spent : Nat, unsaved : Nat, uncounted : Nat]

Newest(c) == IF playlist[c] = {} THEN 0 ELSE Max(playlist[c])

\* The rows of S in their order: the i-th has i - 1 before it.
Ordered(S, Before(_, _)) ==
    [i \in 1 .. Cardinality(S) |-> CHOOSE x \in S : Cardinality({y \in S : Before(y, x)}) = i - 1]

Channels == Ordered(Channel, <)

Earlier(v, w) == v[1] < w[1] \/ (v[1] = w[1] /\ v[2] < w[2])
Videos(t, S(_)) == Ordered({v \in Video : S(t.video[v])}, Earlier)

OpenVideos(t) ==
    LET IsOpen(r) == r.stages = "open" IN Videos(t, IsOpen)

\* Mutant: deliveries are selected for a retry after their second attempt.
Deliveries_NoRetry(t) ==
    LET Initial(r) == r.mail = "pending" IN Videos(t, Initial)

\* The deliveries of _process_pending_initial_deliveries, then those of
\* _process_pending_retry_deliveries; the second query does not see what the
\* first pass left unflushed.
Deliveries(t) ==
    LET Initial(r) == r.mail = "pending"
        Again(r)   == r.mail = "retry"
    IN Videos(t, Initial) \o Videos(t, Again)

Fault == faults < MaxFaults /\ faults' = faults + 1
Command == commands < MaxCommands /\ commands' = commands + 1

Spend(n) ==
    units' = [units EXCEPT !.spent = @ + n, !.unsaved = @ + n]

\* The context's count becomes the row's: worth nothing on the day after its own.
Counted(t) == [t EXCEPT !.used = IF ctx.stale THEN 0 ELSE ctx.used]

CountUnits ==
    units' = [units EXCEPT !.unsaved = 0,
                           !.uncounted = IF ctx.stale THEN @ + units.unsaved ELSE @]

CommitAndEnd(t) == db' = t /\ mem' = t /\ run' = NoRun /\ ctx' = NoContext

-----------------------------------------------------------------------------
(* The world.                                                              *)

Upload(c) ==
    /\ published[c] < MaxUploads
    /\ published' = [published EXCEPT ![c] = @ + 1]
    /\ playlist' = [playlist EXCEPT ![c] = @ \union {published'[c]}]
    /\ UNCHANGED <<commands, db, mem, run, ctx, history, units, faults>>

Withdraw(c) ==
    /\ Fault
    /\ \E n \in playlist[c] : playlist' = [playlist EXCEPT ![c] = @ \ {n}]
    /\ UNCHANGED <<published, commands, db, mem, run, ctx, history, units>>

\* usage_day is another: what was counted counts no longer.
NewDay ==
    /\ db' = [db EXCEPT !.used = 0]
    /\ mem' = [mem EXCEPT !.used = 0]
    /\ ctx' = [ctx EXCEPT !.stale = run # NoRun]
    /\ units' = [spent |-> 0, unsaved |-> 0, uncounted |-> 0]
    /\ UNCHANGED <<external, run, history, faults>>

LookedUp(v, r) ==
    [r EXCEPT !.known = TRUE, !.short = IF @ = "unknown" THEN Truth(v) ELSE @]

\* resolve_and_upsert of a manual command, committed by the command's worker.
Lookup(v) ==
    /\ run = NoRun /\ Command
    /\ db.used < Budget
    /\ \/ db' = [db EXCEPT !.used = @ + 1]
       \/ /\ v[2] \in playlist[v[1]]
          /\ db' = [db EXCEPT !.used = @ + 1, !.video[v] = LookedUp(v, @)]
    /\ mem' = db'
    /\ units' = [units EXCEPT !.spent = @ + 1]
    /\ UNCHANGED <<playlist, published, run, ctx, history, faults>>

\* The unit is counted in the worker's session before the request: a crash ahead
\* of its commit forgets it.
LookupLost ==
    /\ run = NoRun /\ Command /\ Fault
    /\ db.used < Budget
    /\ units' = [units EXCEPT !.spent = @ + 1, !.uncounted = @ + 1]
    /\ UNCHANGED <<playlist, published, db, mem, run, ctx, history>>

-----------------------------------------------------------------------------
(* The poll.                                                               *)

\* _build_quota_context
NewContext == [used |-> db.used, blocked |-> db.used >= Budget, stale |-> FALSE]

Begin(kind, pc, queue, t) ==
    /\ run' = [kind |-> kind, pc |-> pc, queue |-> queue]
    /\ ctx' = NewContext
    /\ mem' = t
    /\ UNCHANGED db

\* Mutant: the safety stop is not looked at.
StartPoll_Unchecked ==
    LET t == SkipShorts(db) IN
    /\ run = NoRun
    /\ Begin("poll", "drain", OpenVideos(t), t)
    /\ UNCHANGED <<external, history, units, faults>>

\* With the safety stop active nothing but the skipped Shorts is written.
StartPoll ==
    LET t == SkipShorts(db) IN
    /\ run = NoRun
    /\ IF NewContext.blocked
       THEN CommitAndEnd(t)
       ELSE Begin("poll", "drain", OpenVideos(t), t)
    /\ UNCHANGED <<external, history, units, faults>>

In(kind, pc) == run.kind = kind /\ run.pc = pc /\ UNCHANGED external

Goto(pc, queue) == run' = [run EXCEPT !.pc = pc, !.queue = queue]
Onward == run' = [run EXCEPT !.queue = Tail(@)]

\* drain_pending_videos: the stages of one video, then a commit of the session.
DrainVideo ==
    /\ run.pc \in {"drain", "drain again"} /\ run.queue # <<>>
    /\ mem' \in {mem, [mem EXCEPT !.video[Head(run.queue)].stages = "done"]}
    /\ db' = mem'
    /\ Onward
    /\ UNCHANGED <<external, ctx, history, units, faults>>

DrainEnds ==
    /\ In("poll", "drain") /\ run.queue = <<>>
    /\ Goto("mails", Deliveries(mem))
    /\ UNCHANGED <<db, mem, ctx, history, units, faults>>

\* How an attempt ends: the row's new status, whether the e-mail left, whether
\* the answer to it was lost.
Attempt(r) ==
    IF ~MayProcess(r) THEN {[mail |-> "skipped", sent |-> 0, lost |-> 0]}
    ELSE LET refused == IF r.mail = "retry" THEN {"failed"} ELSE {"retry", "failed"}
             unheard == IF r.mail = "retry" THEN "failed" ELSE "retry"
         IN {[mail |-> "delivered", sent |-> 1, lost |-> 0]}
            \union [mail : refused, sent : {0}, lost : {0}]
            \union [mail : {unheard}, sent : {1}, lost : {1}]

\* An e-mail leaves for v; an answer that is lost is a fault.
Mails(v, a) ==
    /\ mailed' = [mailed EXCEPT ![v] = @ + a.sent]
    /\ doubts' = [doubts EXCEPT ![v] = @ + a.lost]
    /\ IF a.lost = 1 THEN Fault ELSE UNCHANGED faults

SendMail ==
    /\ In("poll", "mails") /\ run.queue # <<>>
    /\ LET v == Head(run.queue) IN
       \E a \in Attempt(mem.video[v]) :
          /\ Mails(v, a)
          /\ mem' = [mem EXCEPT !.video[v].mail = a.mail]
    /\ Onward
    /\ UNCHANGED <<db, ctx, base, units>>

MailsEnd ==
    /\ In("poll", "mails") /\ run.queue = <<>>
    /\ Goto("channels", Channels)
    /\ UNCHANGED <<db, mem, ctx, history, units, faults>>

Visiting(kind) == In(kind, "channels") /\ run.queue # <<>> /\ Onward /\ UNCHANGED db
Here == Head(run.queue)

Costs(n) == ctx' = [ctx EXCEPT !.used = @ + n] /\ Spend(n)

\* The request for the newest upload fails: the channel is left for the next poll.
FetchFails ==
    /\ Visiting("poll") /\ Fault
    /\ Costs(1)
    /\ UNCHANGED <<mem, history>>

Baseline ==
    /\ Visiting("poll") /\ ~mem.based[Here]
    /\ mem' = [mem EXCEPT !.marker[Here] = Newest(Here), !.based[Here] = TRUE]
    /\ base' = [base EXCEPT ![Here] = Newest(Here)]
    /\ Costs(1)
    /\ UNCHANGED <<mailed, doubts, faults>>

NothingNew ==
    /\ Visiting("poll") /\ mem.based[Here]
    /\ Newest(Here) \in {0, mem.marker[Here]}
    /\ Costs(1)
    /\ UNCHANGED <<mem, history, faults>>

Marked(c, n, v, r) == mem' = [mem EXCEPT !.marker[c] = n, !.video[v] = r]

Detected(v, d) == [mem.video[v] EXCEPT !.short = d.short]

IsNew(c) == mem.based[c] /\ Newest(c) \notin {0, mem.marker[c]}

\* Mutant: the e-mail is sent whatever became of the delivery before.
NewUpload_MailAgain ==
    LET v == <<Here, Newest(Here)>> IN
    /\ Visiting("poll") /\ IsNew(Here)
    /\ \E d \in Detections(v, mem.video[v]) :
          LET r == WithDelivery(WithStages(Detected(v, d))) IN
          /\ Costs(1 + d.cost)
          /\ \E a \in Attempt(r) : Mails(v, a) /\ Marked(Here, v[2], v, [r EXCEPT !.mail = a.mail])
    /\ UNCHANGED base

\* A new upload: the video and its stages are recorded, a delivery that was not
\* attempted before is, and the marker moves.  A disabled Short only moves it.
NewUpload ==
    LET v == <<Here, Newest(Here)>> IN
    /\ Visiting("poll") /\ IsNew(Here)
    /\ \E d \in Detections(v, mem.video[v]) :
          LET r == WithDelivery(WithStages(Detected(v, d))) IN
          /\ Costs(1 + d.cost)
          /\ IF MayProcess(r) /\ r.mail = "pending"
             THEN \E a \in Attempt(r) :
                     Mails(v, a) /\ Marked(Here, v[2], v, [r EXCEPT !.mail = a.mail])
             ELSE Marked(Here, v[2], v, r) /\ UNCHANGED <<mailed, doubts, faults>>
    /\ UNCHANGED base

\* An error the e-mail service does not expect: the delivery is still to attempt
\* and the marker behind, the session goes on.
MailBreaks ==
    LET v == <<Here, Newest(Here)>> IN
    /\ Visiting("poll") /\ IsNew(Here) /\ Fault
    /\ \E d \in Detections(v, mem.video[v]) :
          LET r == WithDelivery(WithStages(Detected(v, d))) IN
          /\ Costs(1 + d.cost)
          /\ r.mail = "pending"
          /\ mem' = [mem EXCEPT !.video[v] = r]
    /\ UNCHANGED history

\* The flush, and the drain of the videos just recorded.
ChannelsEnd ==
    /\ In("poll", "channels") /\ run.queue = <<>>
    /\ Goto("drain again", OpenVideos(mem))
    /\ UNCHANGED <<db, mem, ctx, history, units, faults>>

EndPoll ==
    /\ In("poll", "drain again") /\ run.queue = <<>>
    /\ CommitAndEnd(Counted(mem)) /\ CountUnits
    /\ UNCHANGED <<history, faults>>

-----------------------------------------------------------------------------
(* The reconciliation of missed uploads.                                   *)

StartReconcile ==
    /\ run = NoRun /\ Command
    /\ Begin("reconcile", "channels", Channels, SkipShorts(db))
    /\ UNCHANGED <<playlist, published, history, units, faults>>

\* No page is requested for a channel without a durable marker.
MissingBaseline ==
    /\ Visiting("reconcile") /\ mem.marker[Here] = 0
    /\ UNCHANGED <<mem, ctx, history, units, faults>>

\* The uploads in front of the marker, and the pages up to the one that has it.
InFront(c) == {n \in playlist[c] : n > mem.marker[c]}
Pages(n)   == Max({1, (n + PageSize - 1) \div PageSize})
Wanted(c)  ==
    IF mem.marker[c] \in playlist[c] THEN Pages(Cardinality(InFront(c)) + 1)
    ELSE Pages(Cardinality(playlist[c]))

\* The quota is looked at before a page, and counted with it.
Affordable == IF ctx.blocked THEN 0 ELSE Max({1, Budget - ctx.used})
Requested(c) == Min({Wanted(c), MaxPages, Affordable})

\* Those of them on the pages that were requested.
Window(c) ==
    {n \in InFront(c) : Cardinality({k \in playlist[c] : k > n}) < PageSize * Requested(c)}

MarkerFound(c) == mem.marker[c] \in playlist[c] /\ Requested(c) = Wanted(c)

Fetches(pages, lookups) ==
    /\ ctx' = [ctx EXCEPT !.used = @ + pages + lookups,
                          !.blocked = IF pages = 0 THEN @ ELSE ctx.used + pages >= Budget]
    /\ Spend(pages + lookups)

\* The marker is out of reach, by the pages or by the quota: the channel stays.
MarkerNotFound ==
    /\ Visiting("reconcile") /\ mem.marker[Here] # 0 /\ ~MarkerFound(Here)
    /\ Fetches(Requested(Here), 0)
    /\ UNCHANGED <<mem, history, faults>>

PageFails ==
    /\ Visiting("reconcile") /\ mem.marker[Here] # 0 /\ Affordable > 0 /\ Fault
    /\ Fetches(1, 0)
    /\ UNCHANGED <<mem, history>>

\* Mutant: an upload that cannot be recorded is passed over.
Recover_ErrorsPassedOver ==
    LET window == {<<Here, n>> : n \in Window(Here)} IN
    /\ Visiting("reconcile") /\ mem.marker[Here] # 0 /\ MarkerFound(Here)
    /\ \E recorded \in SUBSET window :
          mem' = [mem EXCEPT
             !.video = [v \in Video |-> IF v \in recorded THEN WithStages(@[v]) ELSE @[v]],
             !.marker[Here] = IF window = {} THEN @ ELSE Newest(Here)]
    /\ Fetches(Requested(Here), 0)
    /\ UNCHANGED <<history, faults>>

\* The window is recorded, the oldest first, without deliveries; then the marker moves.
Recover ==
    LET window == {<<Here, n>> : n \in Window(Here)} IN
    /\ Visiting("reconcile") /\ mem.marker[Here] # 0 /\ MarkerFound(Here)
    /\ \E d \in [window -> [short : {"unknown", "yes", "no"}, cost : {0, 1}]] :
          /\ \A v \in window : d[v] \in Detections(v, mem.video[v])
          /\ mem' = [mem EXCEPT
                !.video = [v \in Video |-> IF v \in window THEN WithStages(Detected(v, d[v])) ELSE @[v]],
                !.marker[Here] = IF window = {} THEN @ ELSE Newest(Here)]
          /\ Fetches(Requested(Here), Cardinality({v \in window : d[v].cost = 1}))
    /\ UNCHANGED <<history, faults>>

\* The quota is written; without process_recovered that is all, with it the
\* records are committed and the drain follows.
WindowsEnd ==
    /\ In("reconcile", "channels") /\ run.queue = <<>>
    /\ CountUnits
    /\ \/ CommitAndEnd(Counted(mem))
       \/ /\ db' = Counted(mem) /\ mem' = db'
          /\ Goto("drain again", OpenVideos(mem))
          /\ UNCHANGED ctx
    /\ UNCHANGED <<history, faults>>

EndReconcile ==
    /\ In("reconcile", "drain again") /\ run.queue = <<>>
    /\ CommitAndEnd(mem)
    /\ UNCHANGED <<history, units, faults>>

\* A crash, or an error the channel loop does not catch and the route rolls back.
LoseRun ==
    /\ run # NoRun /\ Fault
    /\ CommitAndEnd(db)
    /\ base' = [c \in Channel |-> IF db.based[c] THEN base[c] ELSE 0]
    /\ doubts' = [v \in Video |->
                     IF mem.video[v].mail # db.video[v].mail THEN doubts[v] + 1 ELSE doubts[v]]
    /\ units' = [units EXCEPT !.unsaved = 0, !.uncounted = @ + units.unsaved]
    /\ UNCHANGED <<external, mailed>>

-----------------------------------------------------------------------------
Init ==
    /\ playlist = [c \in Channel |-> 1 .. Existing]
    /\ published = [c \in Channel |-> Existing]
    /\ db = [marker |-> [c \in Channel |-> 0], based |-> [c \in Channel |-> FALSE],
             video |-> [v \in Video |-> NoRow], used |-> 0]
    /\ mem = db
    /\ run = NoRun /\ ctx = NoContext
    /\ base = [c \in Channel |-> 0]
    /\ mailed = [v \in Video |-> 0] /\ doubts = [v \in Video |-> 0]
    /\ units = [spent |-> 0, unsaved |-> 0, uncounted |-> 0]
    /\ commands = 0 /\ faults = 0

PollStep ==
    \/ DrainEnds \/ SendMail \/ MailsEnd
    \/ Baseline \/ NothingNew \/ NewUpload \/ ChannelsEnd \/ EndPoll

ReconcileStep ==
    \/ MissingBaseline \/ MarkerNotFound \/ Recover \/ WindowsEnd \/ EndReconcile

RunStep == DrainVideo \/ PollStep \/ ReconcileStep

Next ==
    \/ \E c \in Channel : Upload(c) \/ Withdraw(c)
    \/ \E v \in Video : Lookup(v)
    \/ NewDay \/ StartPoll \/ StartReconcile \/ RunStep
    \/ FetchFails \/ MailBreaks \/ PageFails \/ LoseRun \/ LookupLost

Spec == Init /\ [][Next]_vars

\* The scheduler starts a poll again and again, a run goes on, a new day comes.
Fairness == WF_vars(StartPoll) /\ WF_vars(RunStep) /\ WF_vars(NewDay)

FairSpec == Spec /\ Fairness

-----------------------------------------------------------------------------
(* Properties.                                                             *)

\* Every variable has its type: the marker and the rows of Video, PipelineStage
\* and NotificationDelivery hold values their columns have.
TypeOK ==
    /\ playlist \in [Channel -> SUBSET Number] /\ published \in [Channel -> 0 .. MaxUploads]
    /\ {db.marker, mem.marker} \subseteq [Channel -> 0 .. MaxUploads]
    /\ {db.based, mem.based} \subseteq [Channel -> BOOLEAN]
    /\ {db.video, mem.video} \subseteq [Video -> Row]
    /\ {db.used, mem.used} \subseteq Nat
    /\ run.pc \in Phase /\ ctx \in Context /\ units \in Units
    /\ base \in [Channel -> 0 .. MaxUploads]
    /\ mailed \in [Video -> Nat] /\ doubts \in [Video -> Nat]
    /\ commands \in 0 .. MaxCommands /\ faults \in 0 .. MaxFaults

\* Once the marker has moved past the baseline, the upload it names is recorded
\* with its stages, a disabled Short apart: whatever crashed, was rolled back or
\* looked the video up before, the poll does not pass a video it did not record.
MarkedIsRecorded ==
    \A c \in Channel :
        LET r == db.video[<<c, db.marker[c]>>] IN
        db.marker[c] \notin {0, base[c]}
            => r.known /\ (r.stages # "none" \/ ~MayProcess(r))

\* The owner gets one e-mail for a video, and one more only for an attempt whose
\* answer was lost or whose record was rolled back: not for the retry, nor when
\* a newer upload is withdrawn and the video is the newest once more.
MailsAreExplained == \A v \in Video : mailed[v] <= 1 + doubts[v]

\* What a day spends is counted, but for the units of a run or a lookup that was
\* lost or that midnight overtook; and a run that starts under the budget exceeds it by the
\* requests of its channels and the duration lookups of its videos only.
QuotaIsKept ==
    /\ units.spent = db.used + units.unsaved + units.uncounted
    /\ db.used <= Budget - 1 + Cardinality(Channel) * (1 + MaxUploads)

\* A reconciliation moves a marker only together with the record of every upload
\* on YouTube that it skips, wherever it stops.
ReconcileLeavesNoGap ==
    [][\A c \in Channel :
          run.kind = "reconcile" /\ db'.marker[c] # db.marker[c]
              => \A n \in playlist[c] :
                    n \in db.marker[c] + 1 .. db'.marker[c] => db'.video[<<c, n>>].known]_vars

Settled ==
    \A c \in Channel :
        /\ Newest(c) \notin {0, base[c]} => db.video[<<c, Newest(c)>>].known
        /\ \A n \in Number : db.video[<<c, n>>].mail \notin {"pending", "retry"}

\* When uploads and faults have come to an end, the newest upload is recorded in
\* the end and no delivery waits for its attempt or its retry, though polls were
\* lost and the quota of a day exhausted.
EverythingSettles == <>[]Settled

\* polling.py, before the second drain: newly detected videos and stages are
\* persisted before their drain, which keeps an interruption resumable.
InterruptedDrainIsResumable ==
    [][run.kind = "poll" /\ run.pc = "drain again" /\ run' = NoRun
          => \A v \in Video : mem.video[v].known => db'.video[v].known]_vars

=============================================================================
