---------------------------- MODULE TelegramListener ----------------------------
(***************************************************************************)
(* The listener process (app/services/telegram_command_listener.py): one   *)
(* thread takes updates from Telegram and hands them to the API, another   *)
(* calls process-next, the main thread watches both; systemd restarts the  *)
(* process after a failure.                                                *)
(*                                                                         *)
(* The intake and acknowledgment routes (app/api/routes/                   *)
(* telegram_commands.py) run in the API process.  A call whose client has  *)
(* given up goes on there.  What process-next does is TelegramCommandQueue.*)
(***************************************************************************)
EXTENDS Integers, FiniteSets

CONSTANTS
    MaxUpdates,     \* bound: updates that reach the bot
    Command,        \* the updates that are authorised /summary commands
    Malformed,      \* the commands among them whose URL does not parse
    PollLimit,      \* POLL_LIMIT
    AckAttempts,    \* attempts to send, and to record, an acknowledgment
    MaxAcks,        \* bound: acknowledgments are counted up to it
    MaxOrphans,     \* bound: calls that go on without their client
    MaxFaults       \* bound: crashes, signals, refusals, API restarts

\* Telegram numbers updates; 0 is no offset, or no acknowledgment.
Update == 1 .. MaxUpdates

ASSUME ListenerAssumption ==
    /\ MaxUpdates \in Nat
    /\ Command \subseteq Update
    /\ Malformed \subseteq Command
    /\ PollLimit \in Nat \ {0}
    /\ AckAttempts \in Nat \ {0}
    /\ MaxAcks \in Nat /\ MaxOrphans \in Nat /\ MaxFaults \in Nat

VARIABLES
    arrived,    \* Telegram: updates up to here have reached the bot
    confirmed,  \* Telegram: updates up to here are forgotten
    row,        \* API: telegram_command_requests, by update
    policy,     \* API: what its settings make of a command
    call,       \* API: the call the intake thread waits for
    orphans,    \* API: calls whose client has given up
    life,       \* the listener process
    main,       \* its main thread
    intake,     \* its intake thread
    worker,     \* its worker thread
    stop,       \* _stop
    wake,       \* _wake_worker
    stopping,   \* threads in the middle of stop()
    fatal,      \* _fatal_error is set
    fresh,      \* acceptances heard since process-next was last called (history)
    ignored,    \* updates answered with 409, commands disabled (history)
    acks,       \* per update, acknowledgments that reached the chat (history)
    faults      \* faults so far

telegram == <<arrived, confirmed>>
api      == <<row, policy, orphans>>
threads  == <<life, main, stop, wake, stopping, fatal>>
history  == <<fresh, ignored, acks>>

vars == <<telegram, api, call, intake, worker, threads, history, faults>>

-----------------------------------------------------------------------------
(* The shape of the state.                                                 *)

\* ack is the acknowledgment_message_id; 0: acknowledged_at is null.
Row == [status : {"absent", "pending", "rejected"}, ack : 0 .. MaxAcks]

Absent == [status |-> "absent", ack |-> 0]

\* An API with other settings than the listener's forbids the command (403).
Policy == {"accepts", "disabled", "forbids"}

\* looked: the handler has read the row and has written nothing yet.
CallPhase == {"sent", "looked", "answered"}

\* accepted: acknowledgment_required.   settled: nothing to acknowledge.
Answer == {"none", "accepted", "settled", "disabled", "forbidden"}

Call == [kind : {"submit", "record"}, update : Update, phase : CallPhase,
         answer : Answer, message : 0 .. MaxAcks]

NoCall == [kind |-> "none"]

Submission(u) == [kind |-> "submit", update |-> u, phase |-> "sent",
                  answer |-> "none", message |-> 0]

Recording(u, n) == [kind |-> "record", update |-> u, phase |-> "sent",
                    answer |-> "none", message |-> n]

Answered(c, answer) == [c EXCEPT !.phase = "answered", !.answer = answer]

\* next is the offset; batch what is left of the updates received.
Intake == [pc : {"poll", "handle", "submit", "heard", "ack", "record", "done"},
           next : 0 .. MaxUpdates + 1, batch : SUBSET Update,
           tries : 0 .. AckAttempts]

IntakeStart == [pc |-> "poll", next |-> 0, batch |-> {}, tries |-> 0]

\* top       loop condition              waiting   _wake_worker.wait
\* woken     the wait has returned       cleared   the flag is cleared
\* calling   process-next is running     drain     it reported more work
WorkerState == {"top", "waiting", "woken", "cleared", "calling", "drain", "done"}

\* A batch is handled in the order of its updates; Current is the one at hand.
First(batch) == CHOOSE u \in batch : \A v \in batch : u <= v
Current == First(intake.batch)

\* handle_update has returned True: the offset moves past the update.
HandledCurrent ==
    intake' = [pc |-> "handle", next |-> Current + 1,
               batch |-> intake.batch \ {Current}, tries |-> 0]

\* Mutant: the batch goes on behind an update that was not accepted.
LeaveBatch_SkipsUpdate ==
    intake' = [pc |-> "handle", next |-> Current + 1,
               batch |-> intake.batch \ {Current}, tries |-> 0]

\* handle_update has returned False: the rest of the batch is left to the next
\* poll.
LeaveBatch ==
    intake' = [pc |-> "poll", next |-> intake.next, batch |-> {}, tries |-> 0]

-----------------------------------------------------------------------------
(* The API: the handlers of the two routes, for any call c that is there.  *)
(* d is what becomes of c.                                                 *)

\* _duplicate_response
Duplicate(u) ==
    IF row[u].status # "rejected" /\ row[u].ack = 0 THEN "accepted" ELSE "settled"

\* The first look: the settings, the row that is there, the authorisation.
Look(c, d) ==
    /\ c.kind = "submit" /\ c.phase = "sent"
    /\ \/ policy = "disabled" /\ d = Answered(c, "disabled")
       \/ /\ policy # "disabled" /\ row[c.update].status # "absent"
          /\ d = Answered(c, Duplicate(c.update))
       \/ /\ policy = "forbids" /\ row[c.update].status = "absent"
          /\ d = Answered(c, "forbidden")
       \/ /\ policy = "accepts" /\ row[c.update].status = "absent"
          /\ d = [c EXCEPT !.phase = "looked"]
    /\ UNCHANGED row

\* _flush_new_request and the commit; the update_id is unique, and whoever
\* comes second answers with the row of the first.
Insert(c, d) ==
    /\ c.kind = "submit" /\ c.phase = "looked"
    /\ LET u == c.update IN
       IF row[u].status = "absent"
       THEN /\ row' = [row EXCEPT ![u].status =
                          IF u \in Malformed THEN "rejected" ELSE "pending"]
            /\ d = Answered(c, IF u \in Malformed THEN "settled" ELSE "accepted")
       ELSE /\ d = Answered(c, Duplicate(u))
            /\ UNCHANGED row

\* record_telegram_acknowledgment reads, then writes what it has not found.
Record(c, d) ==
    /\ c.kind = "record"
    /\ \/ /\ c.phase = "sent" /\ row[c.update].ack # 0
          /\ d = Answered(c, "settled")
          /\ UNCHANGED row
       \/ /\ c.phase = "sent" /\ row[c.update].ack = 0
          /\ d = [c EXCEPT !.phase = "looked"]
          /\ UNCHANGED row
       \/ /\ c.phase = "looked"
          /\ row' = [row EXCEPT ![c.update].ack = c.message]
          /\ d = Answered(c, "settled")

Serve(c, d) == Look(c, d) \/ Insert(c, d) \/ Record(c, d)

ServeCall ==
    /\ call # NoCall
    /\ Serve(call, call')
    /\ UNCHANGED <<telegram, policy, orphans, intake, worker, threads, history,
                   faults>>

\* Nobody hears the answer.
ServeOrphan ==
    /\ \E c \in orphans :
          \E d \in {[c EXCEPT !.phase = "looked"]} \union
                   {Answered(c, answer) : answer \in Answer} :
             /\ Serve(c, d)
             /\ orphans' = (orphans \ {c}) \union
                           (IF d.phase = "answered" THEN {} ELSE {d})
    /\ UNCHANGED <<telegram, policy, call, intake, worker, threads, history, faults>>

\* Work that is not committed is lost; an answer has left the API.
CallsAreLost ==
    /\ call' = IF call # NoCall /\ call.phase = "answered" THEN call ELSE NoCall
    /\ orphans' = {}

\* The API restarts, perhaps with other settings.
RestartAPI ==
    /\ faults < MaxFaults /\ faults' = faults + 1
    /\ policy' \in Policy
    /\ CallsAreLost
    /\ UNCHANGED <<telegram, row, intake, worker, threads, history>>

\* The operator gives the API the settings of the listener.
Allow ==
    /\ policy # "accepts"
    /\ policy' = "accepts"
    /\ CallsAreLost
    /\ UNCHANGED <<telegram, row, intake, worker, threads, history, faults>>

-----------------------------------------------------------------------------
(* stop(), which any thread may call: first _stop, then _wake_worker.      *)

BeginStop(t) == stop' = TRUE /\ stopping' = stopping \union {t}

FinishStop(t) ==
    /\ life = "up" /\ t \in stopping
    /\ stopping' = stopping \ {t}
    /\ wake' = TRUE
    /\ UNCHANGED <<telegram, api, call, intake, worker, life, main, stop, fatal,
                   history, faults>>

IntakeRuns == life = "up" /\ "intake" \notin stopping

-----------------------------------------------------------------------------
(* The intake thread.                                                      *)

\* getUpdates forgets what lies before the offset, whether or not its answer
\* arrives.
Confirmed == IF intake.next - 1 > confirmed THEN intake.next - 1 ELSE confirmed

Poll ==
    LET batch == {u \in Confirmed + 1 .. arrived : u <= Confirmed + PollLimit} IN
    /\ IntakeRuns /\ intake.pc = "poll" /\ ~stop
    /\ batch # {}
    /\ confirmed' = Confirmed
    /\ intake' = [intake EXCEPT !.pc = "handle", !.batch = batch]
    /\ UNCHANGED <<arrived, api, call, worker, threads, history, faults>>

\* Nothing has arrived, or the answer is lost.
PollInVain ==
    /\ IntakeRuns /\ intake.pc = "poll" /\ ~stop
    /\ confirmed' = Confirmed
    /\ UNCHANGED <<arrived, api, call, intake, worker, threads, history, faults>>

\* Telegram refuses for good, for instance because another client polls.
PollIsRefused ==
    /\ IntakeRuns /\ intake.pc = "poll" /\ ~stop
    /\ faults < MaxFaults /\ faults' = faults + 1
    /\ BeginStop("intake") /\ fatal' = TRUE
    /\ intake' = [intake EXCEPT !.pc = "done"]
    /\ UNCHANGED <<telegram, api, call, worker, life, main, wake, history>>

IntakeEnds ==
    /\ IntakeRuns /\ intake.pc = "poll" /\ stop
    /\ intake' = [intake EXCEPT !.pc = "done"]
    /\ UNCHANGED <<telegram, api, call, worker, threads, history, faults>>

BatchEnds ==
    /\ IntakeRuns /\ intake.pc = "handle" /\ intake.batch = {}
    /\ intake' = [intake EXCEPT !.pc = "poll"]
    /\ UNCHANGED <<telegram, api, call, worker, threads, history, faults>>

\* What is no command of the authorised user is passed over.
PassOver ==
    /\ IntakeRuns /\ intake.pc = "handle" /\ intake.batch # {}
    /\ Current \notin Command
    /\ HandledCurrent
    /\ UNCHANGED <<telegram, api, call, worker, threads, history, faults>>

Submit ==
    /\ IntakeRuns /\ intake.pc = "handle" /\ intake.batch # {}
    /\ Current \in Command
    /\ call' = Submission(Current)
    /\ intake' = [intake EXCEPT !.pc = "submit"]
    /\ UNCHANGED <<telegram, api, worker, threads, history, faults>>

Answers(kinds) == call # NoCall /\ call.answer \in kinds

\* 409: the update is dropped.
HearDisabled ==
    /\ IntakeRuns /\ intake.pc = "submit" /\ Answers({"disabled"})
    /\ ignored' = ignored \union {Current}
    /\ HandledCurrent /\ call' = NoCall
    /\ UNCHANGED <<telegram, api, worker, threads, fresh, acks, faults>>

\* A refusal that retrying cannot help stops the listener.
HearForbidden ==
    /\ IntakeRuns /\ intake.pc = "submit" /\ Answers({"forbidden"})
    /\ BeginStop("intake") /\ fatal' = TRUE
    /\ LeaveBatch /\ call' = NoCall
    /\ UNCHANGED <<telegram, api, worker, life, main, wake, history, faults>>

HearAccepted ==
    /\ IntakeRuns /\ intake.pc = "submit" /\ Answers({"accepted", "settled"})
    /\ intake' = [intake EXCEPT !.pc = "heard"]
    /\ fresh' = fresh \union {Current}
    /\ UNCHANGED <<telegram, api, call, worker, threads, ignored, acks, faults>>

WakeWorker ==
    /\ IntakeRuns /\ intake.pc = "heard"
    /\ wake' = TRUE
    /\ IF call.answer = "accepted"
       THEN intake' = [intake EXCEPT !.pc = "ack"]
       ELSE HandledCurrent
    /\ call' = NoCall
    /\ UNCHANGED <<telegram, api, worker, life, main, stop, stopping, fatal,
                   history, faults>>

\* A timeout, a lost connection or a 5xx: what was sent may still be served.
GiveUpCall ==
    /\ call' = NoCall
    /\ \/ UNCHANGED orphans
       \/ /\ call # NoCall /\ call.phase # "answered"
          /\ Cardinality(orphans) < MaxOrphans
          /\ orphans' = orphans \union {call}

SubmitFails ==
    /\ IntakeRuns /\ intake.pc = "submit"
    /\ GiveUpCall
    /\ LeaveBatch
    /\ UNCHANGED <<telegram, row, policy, worker, threads, history, faults>>

\* _acknowledge: a failed send may have arrived; after the last attempt, or a
\* refusal, the command goes without an acknowledgment.
SendAck ==
    LET arrives == [acks EXCEPT ![Current] = IF @ < MaxAcks THEN @ + 1 ELSE @]
    IN
    /\ IntakeRuns /\ intake.pc = "ack"
    /\ \/ /\ acks' = arrives
          /\ call' = Recording(Current, arrives[Current])
          /\ intake' = [intake EXCEPT !.pc = "record", !.tries = 0]
       \/ /\ acks' \in {acks, arrives}
          /\ intake.tries + 1 < AckAttempts
          /\ intake' = [intake EXCEPT !.tries = @ + 1]
          /\ UNCHANGED call
       \/ /\ acks' \in {acks, arrives}
          /\ intake.tries + 1 = AckAttempts
          /\ HandledCurrent
          /\ UNCHANGED call
       \/ HandledCurrent /\ UNCHANGED <<call, acks>>
    /\ UNCHANGED <<telegram, api, worker, threads, fresh, ignored, faults>>

AckRecorded ==
    /\ IntakeRuns /\ intake.pc = "record" /\ Answers({"settled"})
    /\ HandledCurrent /\ call' = NoCall
    /\ UNCHANGED <<telegram, api, worker, threads, history, faults>>

\* The call to record fails: it is made again, the message is not.
RecordFails ==
    /\ IntakeRuns /\ intake.pc = "record"
    /\ \/ /\ intake.tries + 1 = AckAttempts
          /\ GiveUpCall
          /\ HandledCurrent
       \/ /\ intake.tries + 1 < AckAttempts
          /\ GiveUpCall
          /\ intake' = [intake EXCEPT !.tries = @ + 1]
    /\ UNCHANGED <<telegram, row, policy, worker, threads, history, faults>>

RecordAgain ==
    /\ IntakeRuns /\ intake.pc = "record" /\ call = NoCall
    /\ intake.tries > 0
    /\ call' = Recording(Current, acks[Current])
    /\ UNCHANGED <<telegram, api, intake, worker, threads, history, faults>>

-----------------------------------------------------------------------------
(* The worker thread.                                                      *)

WorkerRuns == life = "up" /\ "worker" \notin stopping

\* `while not self._stop.is_set()'
WorkerLoops ==
    /\ WorkerRuns /\ worker = "top"
    /\ worker' = IF stop THEN "done" ELSE "waiting"
    /\ UNCHANGED <<telegram, api, call, intake, threads, history, faults>>

\* The flag is set, or 30 seconds have passed.
WorkerWakes ==
    /\ WorkerRuns /\ worker = "waiting"
    /\ worker' = "woken"
    /\ UNCHANGED <<telegram, api, call, intake, threads, history, faults>>

WorkerClears ==
    /\ WorkerRuns /\ worker = "woken"
    /\ wake' = FALSE
    /\ worker' = "cleared"
    /\ UNCHANGED <<telegram, api, call, intake, life, main, stop, stopping, fatal,
                   history, faults>>

\* _drain_worker, unless the listener stops.
CallProcessNext ==
    /\ WorkerRuns /\ worker \in {"cleared", "drain"} /\ ~stop
    /\ worker' = "calling"
    /\ fresh' = {}
    /\ UNCHANGED <<telegram, api, call, intake, threads, ignored, acks, faults>>

WorkerStops ==
    /\ WorkerRuns /\ worker \in {"cleared", "drain"} /\ stop
    /\ worker' = "done"
    /\ UNCHANGED <<telegram, api, call, intake, threads, history, faults>>

\* Mutant: the flag is cleared after the drain.
ProcessNextReturns_ClearsAfter ==
    /\ WorkerRuns /\ worker = "calling"
    /\ worker' \in {"drain", "top"}
    /\ wake' = FALSE
    /\ UNCHANGED <<telegram, api, call, intake, life, main, stop, stopping, fatal,
                   history, faults>>

\* More work, or nothing due, a busy lock, a failed call.
ProcessNextReturns ==
    /\ WorkerRuns /\ worker = "calling"
    /\ worker' \in {"drain", "top"}
    /\ UNCHANGED <<telegram, api, call, intake, threads, history, faults>>

ProcessNextIsRefused ==
    /\ WorkerRuns /\ worker = "calling"
    /\ faults < MaxFaults /\ faults' = faults + 1
    /\ BeginStop("worker") /\ fatal' = TRUE
    /\ worker' = "top"
    /\ UNCHANGED <<telegram, api, call, intake, life, main, wake, history>>

-----------------------------------------------------------------------------
(* The main thread, and what happens to the process.                       *)

AThreadIsDone == intake.pc = "done" \/ worker = "done"

\* Mutant: a thread that has ended is not noticed.
MainStops_OnStopOnly ==
    /\ life = "up" /\ main = "watch" /\ "main" \notin stopping
    /\ stop
    /\ BeginStop("main")
    /\ main' = "join"
    /\ UNCHANGED <<telegram, api, call, intake, worker, life, wake, fatal, history,
                   faults>>

\* run: a loop that ends without being told to is an error.
MainStops ==
    /\ life = "up" /\ main = "watch" /\ "main" \notin stopping
    /\ stop \/ AThreadIsDone
    /\ BeginStop("main")
    /\ fatal' = (fatal \/ ~stop)
    /\ main' = "join"
    /\ UNCHANGED <<telegram, api, call, intake, worker, life, wake, history, faults>>

\* The threads and what they know are gone.
Gone ==
    /\ main' = "watch" /\ intake' = IntakeStart /\ worker' = "top"
    /\ stop' = FALSE /\ wake' = FALSE /\ stopping' = {} /\ fatal' = FALSE
    /\ fresh' = {}

\* Both threads have been joined; a fatal error becomes the exit status.
Exit ==
    /\ life = "up" /\ main = "join" /\ stopping = {}
    /\ intake.pc = "done" /\ worker = "done"
    /\ life' = IF fatal THEN "failed" ELSE "stopped"
    /\ Gone
    /\ UNCHANGED <<telegram, api, call, ignored, acks, faults>>

\* SIGINT or SIGTERM: the handler calls stop() in the main thread.
Signal ==
    /\ faults < MaxFaults /\ faults' = faults + 1
    /\ life = "up" /\ main = "watch" /\ "main" \notin stopping
    /\ BeginStop("main")
    /\ UNCHANGED <<telegram, api, call, intake, worker, life, main, wake, fatal,
                   history>>

\* An exception nobody expected ends a thread.
ThreadDies ==
    /\ faults < MaxFaults /\ faults' = faults + 1
    /\ \/ /\ IntakeRuns /\ intake.pc \in {"poll", "handle"}
          /\ intake' = [intake EXCEPT !.pc = "done"] /\ UNCHANGED worker
       \/ /\ WorkerRuns /\ worker = "calling"
          /\ worker' = "done" /\ UNCHANGED intake
    /\ UNCHANGED <<telegram, api, call, threads, history>>

\* The process is killed; its call goes on without it.
Crash ==
    /\ faults < MaxFaults /\ faults' = faults + 1
    /\ life = "up"
    /\ life' = "failed"
    /\ Gone
    /\ GiveUpCall
    /\ UNCHANGED <<telegram, row, policy, ignored, acks>>

\* systemd after a failure (Restart=on-failure), the operator after a stop.
Start ==
    /\ life \in {"failed", "stopped"}
    /\ life' = "up"
    /\ UNCHANGED <<telegram, api, call, intake, worker, main, stop, wake, stopping,
                   fatal, history, faults>>

Arrive ==
    /\ arrived < MaxUpdates
    /\ arrived' = arrived + 1
    /\ UNCHANGED <<confirmed, api, call, intake, worker, threads, history, faults>>

-----------------------------------------------------------------------------

Init ==
    /\ arrived = 0 /\ confirmed = 0
    /\ row = [u \in Update |-> Absent]
    /\ policy = "accepts"
    /\ call = NoCall /\ orphans = {}
    /\ life = "up" /\ main = "watch"
    /\ intake = IntakeStart /\ worker = "top"
    /\ stop = FALSE /\ wake = FALSE /\ stopping = {} /\ fatal = FALSE
    /\ fresh = {} /\ ignored = {}
    /\ acks = [u \in Update |-> 0]
    /\ faults = 0

IntakeStep ==
    \/ Poll \/ PollInVain \/ PollIsRefused \/ IntakeEnds \/ BatchEnds \/ PassOver \/ Submit
    \/ HearDisabled \/ HearForbidden \/ HearAccepted \/ WakeWorker
    \/ SubmitFails \/ SendAck \/ AckRecorded \/ RecordFails \/ RecordAgain

WorkerStep ==
    \/ WorkerLoops \/ WorkerWakes \/ WorkerClears \/ CallProcessNext
    \/ WorkerStops \/ ProcessNextReturns \/ ProcessNextIsRefused

MainStep == MainStops \/ Exit

Thread == {"main", "intake", "worker"}

Next ==
    \/ ServeCall \/ ServeOrphan \/ RestartAPI \/ Allow
    \/ IntakeStep \/ WorkerStep \/ MainStep
    \/ \E t \in Thread : FinishStop(t)
    \/ Signal \/ ThreadDies \/ Crash \/ Start \/ Arrive

Spec == Init /\ [][Next]_vars

-----------------------------------------------------------------------------
(* Properties.                                                             *)

TypeOK ==
    /\ arrived \in 0 .. MaxUpdates /\ confirmed \in 0 .. MaxUpdates
    /\ row \in [Update -> Row]
    /\ policy \in Policy
    /\ call \in Call \union {NoCall} /\ orphans \subseteq Call
    /\ life \in {"up", "failed", "stopped"} /\ main \in {"watch", "join"}
    /\ intake \in Intake /\ worker \in WorkerState
    /\ stop \in BOOLEAN /\ wake \in BOOLEAN /\ fatal \in BOOLEAN
    /\ stopping \subseteq Thread
    /\ fresh \subseteq Command /\ ignored \subseteq Command
    /\ acks \in [Update -> 0 .. MaxAcks]
    /\ faults \in 0 .. MaxFaults

Settled(u) ==
    u \in Command => row[u].status # "absent" \/ u \in ignored

\* What Telegram may forget has been committed by the API or refused for good,
\* whatever crashed or timed out in between.
NothingIsForgotten == \A u \in Update : u <= confirmed => Settled(u)

\* A command is accepted only when all before it are: "Do not skip a later update
\* over an unaccepted authorized /summary command" (12C, Long Polling Contract).
NoCommandIsSkipped ==
    \A u, v \in Update : u < v /\ row[v].status # "absent" => Settled(u)

\* The user is told "received" only of what a restart cannot lose.
AckIsDurable == \A u \in Update : acks[u] > 0 => row[u].status = "pending"

\* No wake-up is lost between the two threads: a process-next call that starts
\* after the acceptance is on its way, without waiting for the 30 seconds.
NoLostWakeup ==
    fresh # {} =>
        \/ wake \/ worker = "cleared"
        \/ intake.pc = "heard"
        \/ stop \/ AThreadIsDone

\* A stop reaches the worker without waiting for the 30 seconds.
StopWakesWorker ==
    stop /\ worker = "waiting" => wake \/ stopping # {}

\* The calls that the API works on or has answered.
Underway == orphans \union {c \in {call} : c # NoCall}

AtUpdate == {"submit", "heard", "ack", "record"}

\* The updates before the batch, and those the offset has passed, are settled;
\* the one at hand is acknowledged only if it is pending.
IntakeInOrder ==
    /\ \A u, v \in Update :
          u < v /\ v \in intake.batch /\ u \notin intake.batch => Settled(u)
    /\ \A u \in Update : u < intake.next => Settled(u)
    /\ intake.pc \in AtUpdate => intake.batch # {} /\ Current \in Command
    /\ intake.pc \in {"heard", "ack", "record"} => row[Current].status # "absent"
    /\ intake.pc \in {"ack", "record"} => row[Current].status = "pending"

\* The intake thread waits for the answer to what it has asked.
CallOfIntake ==
    /\ intake.pc = "submit" /\ call # NoCall =>
          call.kind = "submit" /\ call.update = Current
    /\ intake.pc = "heard" =>
          /\ call # NoCall
          /\ call.kind = "submit" /\ call.update = Current
          /\ call.answer \in {"accepted", "settled"}
    /\ intake.pc = "record" /\ call # NoCall => call.kind = "record"

\* A command is submitted when those before it are settled; an answer tells what
\* is in the table.
CallsAreTruthful ==
    \A c \in Underway : c.kind = "submit" =>
        /\ c.update \in Command
        /\ \A u \in Update : u < c.update => Settled(u)
        /\ c.answer # "none" => c.phase = "answered"
        /\ c.answer \in {"accepted", "settled"} => row[c.update].status # "absent"
        /\ c.answer = "accepted" => row[c.update].status = "pending"

\* The inductive invariant: intake, calls and table agree, whatever was lost.
IInv ==
    /\ TypeOK
    /\ NothingIsForgotten /\ NoCommandIsSkipped /\ AckIsDurable
    /\ NoLostWakeup /\ StopWakesWorker
    /\ IntakeInOrder /\ CallOfIntake /\ CallsAreTruthful

-----------------------------------------------------------------------------
(* Liveness.  Threads run on; of polls and calls made again and again, one *)
(* is answered and its answer heard; the process is started again, and a   *)
(* wrong setting of the API is corrected.  Faults are bounded.             *)

AnswerCall == ServeCall /\ call'.phase = "answered"

Fairness ==
    /\ WF_vars(IntakeStep) /\ WF_vars(WorkerStep) /\ WF_vars(MainStep)
    /\ \A t \in Thread : WF_vars(FinishStop(t))
    /\ SF_vars(Poll) /\ SF_vars(ServeCall) /\ SF_vars(AnswerCall)
    /\ SF_vars(HearAccepted) /\ SF_vars(HearDisabled)
    /\ WF_vars(Start) /\ WF_vars(Allow)

FairSpec == Spec /\ Fairness

\* Every command that arrives is accepted, or refused because commands are
\* disabled.
EveryCommandIsSettled ==
    \A u \in Command : (u <= arrived) ~> Settled(u)

\* Whoever stops the listener, it ends; and a thread that ends by itself does not
\* leave half a listener behind.
StopEndsListener == (stop \/ AThreadIsDone) ~> life # "up"
=============================================================================
