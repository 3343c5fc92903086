------------------------------ MODULE MobilePush ------------------------------
(***************************************************************************)
(* Push notifications of the mobile app (app/services/mobile_push.py and   *)
(* the routes of app/api/routes/mobile_push.py).                           *)
(*                                                                         *)
(* Devices register and leave through requests, each with a session of its *)
(* own, while a poll, one at a time under the execution lock, announces    *)
(* new videos to the devices it finds.  A session reads a row first and    *)
(* writes it later: it writes the columns whose value it changed, and      *)
(* waits while another session holds the row.  A poll keeps the rows it    *)
(* wrote until it commits, which is after its last channel.                *)
(*                                                                         *)
(* push_notifications_enabled is on.  A channel stands for the upload the  *)
(* poll takes for its newest: the same one again when the poll that        *)
(* announced it was rolled back, or when a newer one was withdrawn.        *)
(***************************************************************************)
EXTENDS Integers

CONSTANTS
    Device,         \* installation ids, in the order of their rows
    Token,          \* Expo push tokens
    Channel,
    Client,         \* mobile requests that may be in progress at once
    MaxRequests,    \* bound: requests and edits of the settings
    MaxPolls,       \* bound: polls
    MaxFaults       \* bound: transactions rolled back, answers lost

ASSUME PushAssumption ==
    /\ Device \subseteq Nat \ {0}
    /\ MaxRequests \in Nat
    /\ MaxPolls \in Nat
    /\ MaxFaults \in Nat

VARIABLES
    inst,       \* the committed row of every installation
    delivery,   \* the committed verdict of every announcement
    prefs,      \* global settings, preferences, monitored channels
    poll,       \* the poll's session
    request,    \* the session of every request in progress
    budget,     \* requests and polls so far
    accepted,   \* announcements Expo accepted (history)
    doubted,    \* those whose answer was lost (history)
    forgotten,  \* attempts rolled back with their poll (history)
    late,       \* announcements to a device that is not welcome (history)
    faults

history == <<accepted, doubted, forgotten, late>>
vars == <<inst, delivery, prefs, poll, request, budget, history, faults>>

-----------------------------------------------------------------------------
(* Installations.                                                          *)

none == "none"
noDevice == 0

Row == [token : Token \union {none}, enabled : BOOLEAN,
        unregistered : BOOLEAN, invalidated : BOOLEAN]

NoRow == [token |-> none, enabled |-> FALSE, unregistered |-> FALSE, invalidated |-> FALSE]

Registered(t) == [NoRow EXCEPT !.token = t, !.enabled = TRUE]

\* Mutant: only an invalid token ends a registration.
Active_WhileValid(r) == r.token # none /\ ~r.invalidated

\* The filter of the fan-out and of the test push.
Active(r) == r.token # none /\ r.enabled /\ ~r.unregistered /\ ~r.invalidated

Invalidated(r) == [r EXCEPT !.enabled = FALSE, !.invalidated = TRUE]

\* What an UPDATE makes of a row: it carries the columns that differ from those loaded.
Merged(loaded, new, row) ==
    [col \in DOMAIN row |-> IF new[col] # loaded[col] THEN new[col] ELSE row[col]]

\* compute_channel_push_state
PushOn(c) ==
    /\ prefs.enabled
    /\ prefs.explicit[c] = "on" \/ (prefs.explicit[c] = "unset" /\ prefs.default)

-----------------------------------------------------------------------------
(* Sessions.                                                               *)

\* trying is pending with one attempt: the request to Expo is on its way.
Verdict == {"none", "trying", "sent", "failed", "invalid_token"}

\* left     monitored channels still to visit       channel  the one at hand
\* targets  installations still to notify, as read  view     the session's verdicts
\* held     rows written by this session            dead     those found invalid
Poll == [pc : {"idle", "open", "fanout", "sent"}, left : SUBSET Channel,
         channel : Channel \union {none}, targets : SUBSET Device,
         view : [Channel -> [Device -> Verdict]], held : SUBSET Device, dead : SUBSET Device]

Idle(view) == [pc |-> "idle", left |-> {}, channel |-> none, targets |-> {},
               view |-> view, held |-> {}, dead |-> {}]

Request == [op : {"none", "register", "unregister", "test"}, pc : {"idle", "read", "sent"},
            device : Device \union {noDevice}, token : Token \union {none}, loaded : Row]

NoRequest == [op |-> "none", pc |-> "idle", device |-> noDevice, token |-> none, loaded |-> NoRow]

Holds(c, d) == request[c].pc = "sent" /\ request[c].device = d

\* No other session has written the row and not yet committed.
FreeForPoll(d) == \A c \in Client : ~Holds(c, d)
FreeForRequest(c, d) == d \notin poll.held /\ \A o \in Client \ {c} : ~Holds(o, d)

\* The row as the poll's own session sees it.
Seen(d) == IF d \in poll.dead THEN Invalidated(inst[d]) ELSE inst[d]

\* The owner has push turned on, the device has not been unregistered and no
\* committed verdict says that its token is invalid.
Welcome(d) == prefs.enabled /\ ~inst[d].unregistered /\ ~inst[d].invalidated

\* The count of late announcements starts over when the device is welcome again.
Recounted == late' = [d \in Device |-> IF Welcome(d)' THEN 0 ELSE late[d]]

Spend(n) == budget.requests < MaxRequests /\ budget' = [budget EXCEPT !.requests = @ + n]

Fault == faults < MaxFaults /\ faults' = faults + 1

-----------------------------------------------------------------------------
(* The owner's requests.                                                   *)

\* PATCH /settings
UpdateSettings(enabled, default) ==
    /\ Spend(1)
    /\ prefs' = [prefs EXCEPT !.enabled = enabled, !.default = default]
    /\ prefs' # prefs
    /\ UNCHANGED <<inst, delivery, poll, request, accepted, doubted, forgotten, faults>>
    /\ Recounted

\* PATCH /channels/{channel_id}: 409 unless the channel is monitored.
UpdatePreference(c, choice) ==
    /\ Spend(1) /\ c \in prefs.monitored
    /\ prefs' = [prefs EXCEPT !.explicit[c] = choice]
    /\ UNCHANGED <<inst, delivery, poll, request, history, faults>>

\* PATCH /channels/{id}/monitoring
ToggleMonitored(c) ==
    /\ Spend(1)
    /\ prefs' = [prefs EXCEPT !.monitored =
                    IF c \in @ THEN @ \ {c} ELSE @ \union {c}]
    /\ UNCHANGED <<inst, delivery, poll, request, history, faults>>

\* The first statement of a request reads the row.
Ask(c, op, d, t) ==
    /\ Spend(1) /\ request[c].pc = "idle"
    /\ (op = "register") = (t # none)
    /\ request' = [request EXCEPT ![c] = [op |-> op, pc |-> "read", device |-> d, token |-> t,
                                          loaded |-> inst[d]]]
    /\ UNCHANGED <<inst, delivery, prefs, poll, history, faults>>

Answered(c) == request' = [request EXCEPT ![c] = NoRequest]

At(c, op, pc) ==
    /\ request[c].op = op /\ request[c].pc = pc
    /\ UNCHANGED <<delivery, prefs, poll, budget, accepted, doubted, forgotten>>

\* POST /register: insert or update, and commit.
Register(c) ==
    LET q == request[c]  d == q.device IN
    /\ At(c, "register", "read") /\ FreeForRequest(c, d)
    /\ (q.loaded = NoRow => inst[d] = NoRow)
    /\ inst' = [inst EXCEPT ![d] = Merged(q.loaded, Registered(q.token), @)]
    /\ Answered(c) /\ Recounted /\ UNCHANGED faults

\* Two first registrations of one device: the unique constraint refuses the second.
RegisterConflict(c) ==
    LET q == request[c] IN
    /\ At(c, "register", "read")
    /\ q.loaded = NoRow /\ inst[q.device] # NoRow
    /\ Answered(c) /\ UNCHANGED <<inst, late, faults>>

\* DELETE /installations/{installation_id}
Unregister(c) ==
    LET q == request[c]  d == q.device IN
    /\ At(c, "unregister", "read")
    /\ \/ q.loaded = NoRow /\ UNCHANGED inst
       \/ /\ q.loaded # NoRow /\ FreeForRequest(c, d)
          /\ inst' = [inst EXCEPT ![d] =
                [Merged(q.loaded, [q.loaded EXCEPT !.enabled = FALSE], @)
                    EXCEPT !.unregistered = TRUE]]
    /\ Answered(c) /\ Recounted /\ UNCHANGED faults

\* POST /test: 409 for an installation that is not active, else the attempt is written ...
StartTest(c) ==
    LET q == request[c] IN
    /\ At(c, "test", "read") /\ UNCHANGED <<inst, late, faults>>
    /\ \/ ~Active(q.loaded) /\ Answered(c)
       \/ /\ Active(q.loaded) /\ FreeForRequest(c, q.device)
          /\ request' = [request EXCEPT ![c].pc = "sent"]

\* ... and committed with Expo's answer.
EndTest(c) ==
    LET d == request[c].device IN
    /\ At(c, "test", "sent") /\ UNCHANGED faults
    /\ UNCHANGED inst \/ inst' = [inst EXCEPT ![d] = Invalidated(@)]
    /\ Answered(c) /\ Recounted

\* The program or its connection dies with the request: nothing is committed.
LoseRequest(c) ==
    /\ request[c].pc # "idle" /\ Fault
    /\ Answered(c)
    /\ UNCHANGED <<inst, delivery, prefs, poll, budget, history>>

-----------------------------------------------------------------------------
(* The poll.                                                               *)

Polling(pc) ==
    poll.pc = pc /\ UNCHANGED <<prefs, request, budget>>

StartPoll ==
    /\ poll.pc = "idle" /\ budget.polls < MaxPolls
    /\ poll' = [Idle(delivery) EXCEPT !.pc = "open", !.left = prefs.monitored]
    /\ budget' = [budget EXCEPT !.polls = @ + 1]
    /\ UNCHANGED <<inst, delivery, prefs, request, history, faults>>

Targets == {d \in Device : Active(Seen(d))}

\* They are visited in the order of their rows.
Target == CHOOSE d \in poll.targets : \A e \in poll.targets : d <= e

\* attempt_new_video_push up to the list of installations.
FanOut(c) ==
    /\ Polling("open") /\ c \in poll.left
    /\ UNCHANGED <<inst, delivery, history, faults>>
    /\ poll' = [poll EXCEPT !.pc = "fanout", !.left = @ \ {c}, !.channel = c,
                            !.targets = IF PushOn(c) THEN Targets ELSE {}]

\* A channel without a new upload.
PassChannel(c) ==
    /\ Polling("open") /\ c \in poll.left
    /\ poll' = [poll EXCEPT !.left = @ \ {c}]
    /\ UNCHANGED <<inst, delivery, history, faults>>

\* Mutant: an installation is notified again whatever its delivery says.
Attempt_Again ==
    /\ Polling("fanout") /\ poll.targets # {}
    /\ LET d == Target IN
       /\ FreeForPoll(d)
       /\ poll' = [poll EXCEPT !.pc = "sent", !.view[poll.channel][d] = "trying",
                               !.held = @ \union {d}]
       /\ late' = [late EXCEPT ![d] = IF Welcome(d) THEN @ ELSE @ + 1]
    /\ UNCHANGED <<inst, delivery, accepted, doubted, forgotten, faults>>

\* The next installation: skipped when attempted before; else the attempt is
\* written, which takes the row, and the request leaves.
Attempt ==
    /\ Polling("fanout") /\ poll.targets # {}
    /\ LET d == Target IN
       \/ /\ poll.view[poll.channel][d] # "none"
          /\ poll' = [poll EXCEPT !.targets = @ \ {d}]
          /\ UNCHANGED late
       \/ /\ poll.view[poll.channel][d] = "none"
          /\ FreeForPoll(d)
          /\ poll' = [poll EXCEPT !.pc = "sent", !.view[poll.channel][d] = "trying",
                                  !.held = @ \union {d}]
          /\ late' = [late EXCEPT ![d] = IF Welcome(d) THEN @ ELSE @ + 1]
    /\ UNCHANGED <<inst, delivery, accepted, doubted, forgotten, faults>>

Concluded(verdict, dead) ==
    poll' = [poll EXCEPT !.pc = "fanout", !.targets = @ \ {Target},
                         !.view[poll.channel][Target] = verdict, !.dead = @ \union dead]

Accepts == accepted' = [accepted EXCEPT ![poll.channel][Target] = @ + 1]

\* Mutants: Expo's own status becomes the verdict; any answer is taken for a success.
ExpoRefuses_ProviderStatus ==
    /\ Polling("sent")
    /\ Concluded("provider_error", {})
    /\ UNCHANGED <<inst, delivery, history, faults>>
ExpoRefuses_Success ==
    /\ Polling("sent")
    /\ Concluded("sent", {})
    /\ UNCHANGED <<inst, delivery, history, faults>>

ExpoRefuses ==
    /\ Polling("sent")
    /\ \/ Concluded("failed", {})
       \/ Concluded("invalid_token", {Target})
    /\ UNCHANGED <<inst, delivery, history, faults>>

ExpoAccepts ==
    /\ Polling("sent")
    /\ Accepts /\ Concluded("sent", {})
    /\ UNCHANGED <<inst, delivery, doubted, forgotten, late, faults>>

\* Expo accepted the announcement and the answer was lost: recorded as a failure.
AnswerIsLost ==
    /\ Polling("sent") /\ Fault
    /\ Accepts /\ Concluded("failed", {})
    /\ doubted' = doubted \union {<<poll.channel, Target>>}
    /\ UNCHANGED <<inst, delivery, forgotten, late>>

EndFanOut ==
    /\ Polling("fanout") /\ poll.targets = {}
    /\ poll' = [poll EXCEPT !.pc = "open", !.channel = none]
    /\ UNCHANGED <<inst, delivery, history, faults>>

CommitPoll ==
    /\ Polling("open") /\ poll.left = {}
    /\ inst' = [d \in Device |-> Seen(d)]
    /\ delivery' = poll.view
    /\ poll' = Idle(poll.view)
    /\ Recounted
    /\ UNCHANGED <<accepted, doubted, forgotten, faults>>

Forgets ==
    forgotten' = [c \in Channel |-> [d \in Device |->
        IF poll.view[c][d] # delivery[c][d] THEN forgotten[c][d] + 1 ELSE forgotten[c][d]]]

\* Mutant: the connection of a poll that failed keeps its transaction open.
LosePoll_HoldsRows ==
    /\ Polling(poll.pc) /\ poll.pc # "idle" /\ Fault
    /\ poll' = [Idle(delivery) EXCEPT !.held = poll.held]
    /\ Forgets /\ UNCHANGED <<inst, delivery, accepted, doubted, late>>

\* An error after the fan-out rolls the poll back; a crash does the same, and
\* Expo may have accepted what was on its way.
LosePoll ==
    /\ Polling(poll.pc) /\ poll.pc # "idle" /\ Fault
    /\ poll' = Idle(delivery)
    /\ Forgets
    /\ UNCHANGED accepted \/ (poll.pc = "sent" /\ Accepts)
    /\ UNCHANGED <<inst, delivery, doubted, late>>

-----------------------------------------------------------------------------
Never == [c \in Channel |-> [d \in Device |-> 0]]

\* Any device may be registered already, and push on or off.
Init ==
    /\ inst \in [Device -> {NoRow} \union {Registered(t) : t \in Token}]
    /\ delivery = [c \in Channel |-> [d \in Device |-> "none"]]
    /\ prefs \in [enabled : BOOLEAN, default : {TRUE},
                  explicit : {[c \in Channel |-> "unset"]}, monitored : {Channel}]
    /\ poll = Idle(delivery)
    /\ request = [c \in Client |-> NoRequest]
    /\ budget = [requests |-> 0, polls |-> 0]
    /\ accepted = Never /\ doubted = {} /\ forgotten = Never
    /\ late = [d \in Device |-> 0]
    /\ faults = 0

Handle(c) ==
    Register(c) \/ RegisterConflict(c) \/ Unregister(c) \/ StartTest(c) \/ EndTest(c)

PollStep ==
    \/ \E c \in Channel : FanOut(c) \/ PassChannel(c)
    \/ Attempt \/ ExpoAccepts \/ ExpoRefuses \/ EndFanOut \/ CommitPoll

Next ==
    \/ \E e, d \in BOOLEAN : UpdateSettings(e, d)
    \/ \E c \in Channel : ToggleMonitored(c) \/ \E choice \in {"on", "off"} : UpdatePreference(c, choice)
    \/ \E c \in Client, d \in Device :
          \/ \E op \in {"unregister", "test"} : Ask(c, op, d, none)
          \/ \E t \in Token : Ask(c, "register", d, t)
    \/ \E c \in Client : Handle(c) \/ LoseRequest(c)
    \/ StartPoll \/ PollStep \/ AnswerIsLost \/ LosePoll

Spec == Init /\ [][Next]_vars

\* A request in progress and a poll in progress go on: both run in threads of
\* the server, and an HTTP call ends by its timeout.
Fairness == WF_vars(PollStep) /\ \A c \in Client : WF_vars(Handle(c))

FairSpec == Spec /\ Fairness

-----------------------------------------------------------------------------
(* Properties.                                                             *)

\* Every variable has its type: rows, sessions and verdicts are among those
\* MobilePushInstallation and MobilePushDelivery can hold.
TypeOK ==
    /\ inst \in [Device -> Row]
    /\ delivery \in [Channel -> [Device -> Verdict]]
    /\ prefs \in [enabled : BOOLEAN, default : BOOLEAN,
                  explicit : [Channel -> {"unset", "on", "off"}], monitored : SUBSET Channel]
    /\ poll \in Poll
    /\ request \in [Client -> Request]
    /\ budget \in [requests : 0 .. MaxRequests, polls : 0 .. MaxPolls]
    /\ accepted \in [Channel -> [Device -> Nat]]
    /\ doubted \subseteq Channel \X Device
    /\ forgotten \in [Channel -> [Device -> Nat]]
    /\ late \in [Device -> Nat]
    /\ faults \in 0 .. MaxFaults

\* Expo accepts an announcement for a device once, and once more only for each
\* poll that was rolled back after attempting it: neither a lost answer, nor a
\* refusal, nor the same upload announced by a later poll sends it again.
AnnouncedOnce ==
    \A c \in Channel, d \in Device : accepted[c][d] <= 1 + forgotten[c][d]

\* A verdict that stands tells what Expo did, up to a lost answer or a poll that
\* was rolled back: sent was accepted, a failure was not; and the attempt that
\* is written before the request leaves never stands without a verdict.
VerdictsAreTrue ==
    \A c \in Channel, d \in Device :
        /\ delivery[c][d] # "trying"
        /\ delivery[c][d] = "sent" => accepted[c][d] > 0
        /\ delivery[c][d] \in {"failed", "invalid_token"} /\ accepted[c][d] > 0
              => <<c, d>> \in doubted \/ forgotten[c][d] > 0

\* Once the owner has turned push off, a device has unregistered or its token has
\* been found invalid (by the test push too), at most one more announcement leaves
\* for it, that of a fan-out already under way, however many channels the poll
\* still has: each fan-out reads settings and rows anew (attempt_new_video_push).
OneLateAnnouncement == \A d \in Device : late[d] <= 1

\* Every request ends, also one that waits for a row the poll has written: the
\* poll commits or rolls back after its last channel.
EveryRequestEnds == \A c \in Client : request[c].pc # "idle" ~> request[c].pc = "idle"
=============================================================================
