--------------------------- MODULE MobilePushProofs ---------------------------
(***************************************************************************)
(* What is announced to a device, proved for any devices, channels and     *)
(* clients, and any number of requests, polls and faults.                  *)
(*                                                                         *)
(* A step is the owner's or a request's, and then the poll and the books   *)
(* rest (OwnerStep); or it is the poll's, and then the requests do         *)
(* (PollSide), and the books follow the one verdict it writes.             *)
(***************************************************************************)
EXTENDS MobilePush, WellFoundedInduction, TLAPS

-----------------------------------------------------------------------------
(* Rows, verdicts and counts.                                              *)

\* An UPDATE leaves a row a row.
LEMMA MergedIsRow ==
    ASSUME NEW l \in Row, NEW n \in Row, NEW r \in Row
    PROVE  Merged(l, n, r) \in Row
<1> DEFINE token        == IF n.token # l.token THEN n.token ELSE r.token
           enabled      == IF n.enabled # l.enabled THEN n.enabled ELSE r.enabled
           unregistered == IF n.unregistered # l.unregistered THEN n.unregistered ELSE r.unregistered
           invalidated  == IF n.invalidated # l.invalidated THEN n.invalidated ELSE r.invalidated
<1>1. DOMAIN r = {"token", "enabled", "unregistered", "invalidated"}
  BY DEF Row
<1>2. Merged(l, n, r) = [token |-> token, enabled |-> enabled,
                         unregistered |-> unregistered, invalidated |-> invalidated]
  BY <1>1 DEF Merged
<1>3. token \in Token \union {none}
  BY DEF Row
<1>4. enabled \in BOOLEAN /\ unregistered \in BOOLEAN /\ invalidated \in BOOLEAN
  BY ZenonT(30) DEF Row
<1> HIDE DEF token, enabled, unregistered, invalidated
<1>5. [token |-> token, enabled |-> enabled, unregistered |-> unregistered,
       invalidated |-> invalidated] \in Row
  BY <1>3, <1>4, ZenonT(60) DEF Row
<1> QED BY <1>2, <1>5

\* The installation at hand is one of those still to notify.
LEMMA TargetIsOne ==
    ASSUME poll.targets \subseteq Device, poll.targets # {}
    PROVE  Target \in poll.targets /\ Target \in Device
<1> DEFINE targets == poll.targets
<1>1. targets \subseteq Nat
  BY PushAssumption
<1>2. \E d \in targets : \A e \in targets : <<e, d>> \notin OpToRel(<, Nat)
  BY <1>1, WFMin, NatLessThanWellFounded
<1>3. PICK d \in targets : \A e \in targets : <<e, d>> \notin OpToRel(<, Nat)
  BY <1>2
<1>4. \A e \in targets : d <= e
  <2>1. \A e \in targets : ~(e < d)
    BY <1>1, <1>3 DEF OpToRel
  <2> QED BY <1>1, <2>1
<1> QED BY <1>4 DEF Target

\* The same installations, the same one at hand.
LEMMA TargetStays ==
    ASSUME poll'.targets = poll.targets
    PROVE  Target' = Target
  BY DEF Target

\* A verdict that is written changes no other.
LEMMA OneVerdict ==
    ASSUME NEW view \in [Channel -> [Device -> Verdict]],
           NEW c \in Channel, NEW d \in Device, NEW v \in Verdict
    PROVE  /\ [view EXCEPT ![c][d] = v] \in [Channel -> [Device -> Verdict]]
           /\ \A x \in Channel, y \in Device :
                 [view EXCEPT ![c][d] = v][x][y] = IF x = c /\ y = d THEN v ELSE view[x][y]
  OBVIOUS

\* A count that goes up changes no other.
LEMMA OneCount ==
    ASSUME NEW count \in [Channel -> [Device -> Nat]], NEW c \in Channel, NEW d \in Device
    PROVE  /\ [count EXCEPT ![c][d] = @ + 1] \in [Channel -> [Device -> Nat]]
           /\ \A x \in Channel, y \in Device :
                 [count EXCEPT ![c][d] = @ + 1][x][y]
                     = IF x = c /\ y = d THEN count[x][y] + 1 ELSE count[x][y]
  OBVIOUS

-----------------------------------------------------------------------------
(* The inductive invariant.                                                *)

\* A session is about something that exists.
SessionShape ==
    /\ poll.pc \in {"fanout", "sent"} => poll.channel \in Channel
    /\ poll.pc = "sent" => poll.targets # {}
    /\ poll.pc = "idle" => poll.view = delivery
    /\ \A c \in Client : request[c].pc # "idle" => request[c].device \in Device

\* The only attempt without a verdict is the one whose request is on its way.
OneOnItsWay ==
    \A c \in Channel, d \in Device :
        poll.view[c][d] = "trying" <=> poll.pc = "sent" /\ c = poll.channel /\ d = Target

\* What is committed stands in the view of every later poll.
VerdictsStand ==
    \A c \in Channel, d \in Device :
        /\ delivery[c][d] # "trying"
        /\ delivery[c][d] # "none" => poll.view[c][d] = delivery[c][d]

Concluding == {"sent", "failed", "invalid_token"}

\* An announcement was accepted for a verdict, or for a poll that was rolled back.
Counted ==
    \A c \in Channel, d \in Device :
        /\ poll.view[c][d] \in Concluding => accepted[c][d] <= 1 + forgotten[c][d]
        /\ poll.view[c][d] \notin Concluding => accepted[c][d] <= forgotten[c][d]

\* The verdicts of a session are as true as those that are committed.
ViewIsTrue ==
    \A c \in Channel, d \in Device :
        /\ poll.view[c][d] = "sent" => accepted[c][d] > 0
        /\ poll.view[c][d] \in {"failed", "invalid_token"} /\ accepted[c][d] > 0
              => <<c, d>> \in doubted \/ forgotten[c][d] > 0

\* Nothing is late for a device that is welcome; one for which a late announcement
\* has left is not among those the fan-out has still to notify.
LateOnce ==
    \A d \in Device :
        /\ late[d] \in {0, 1}
        /\ Welcome(d) => late[d] = 0
        /\ late[d] = 1 => d \notin poll.targets \/ (poll.pc = "sent" /\ d = Target)

Books == OneOnItsWay /\ VerdictsStand /\ Counted /\ ViewIsTrue

IInv == TypeOK /\ SessionShape /\ Books /\ LateOnce

-----------------------------------------------------------------------------
(* Steps of the owner and of the requests: the poll does not move.         *)

\* The records of announcements and the poll stay.
PollRests == UNCHANGED <<delivery, poll, accepted, doubted, forgotten>>

\* The books do.
LEMMA BooksKept ==
    ASSUME Books, PollRests
    PROVE  Books'
<1>1. Target' = Target
  BY TargetStays DEF PollRests
<1> QED BY <1>1 DEF Books, PollRests, OneOnItsWay, VerdictsStand, Counted, ViewIsTrue

\* A late announcement starts to count when the device stops being welcome.
LEMMA LateKept ==
    ASSUME TypeOK, LateOnce, UNCHANGED poll,
           Recounted \/ (UNCHANGED late /\ \A d \in Device : Welcome(d)' = Welcome(d))
    PROVE  LateOnce'
<1>1. Target' = Target
  BY TargetStays
<1>2. late \in [Device -> Nat]
  BY DEF TypeOK
<1>3. CASE UNCHANGED late /\ \A d \in Device : Welcome(d)' = Welcome(d)
  BY <1>1, <1>3 DEF LateOnce
<1>4. CASE Recounted
  <2> SUFFICES ASSUME NEW d \in Device
               PROVE  /\ late'[d] \in {0, 1}
                      /\ Welcome(d)' => late'[d] = 0
                      /\ late'[d] = 1 => d \notin poll'.targets \/ (poll'.pc = "sent" /\ d = Target')
    BY DEF LateOnce
  <2>1. late'[d] = IF Welcome(d)' THEN 0 ELSE late[d]
    BY <1>4 DEF Recounted
  <2> QED BY <1>1, <2>1 DEF LateOnce
<1> QED BY <1>3, <1>4

\* Constants of the rows.
LEMMA Constants ==
    /\ NoRow \in Row
    /\ NoRequest \in Request
    /\ \A t \in Token \union {none} : Registered(t) \in Row
    /\ \A r \in Row : Invalidated(r) \in Row
<1>1. NoRow \in Row
  BY ZenonT(30) DEF NoRow, Row
<1>2. NoRequest \in Request
  BY <1>1, ZenonT(30) DEF NoRequest, Request
<1>3. ASSUME NEW t \in Token \union {none} PROVE Registered(t) \in Row
  BY <1>1, ZenonT(30) DEF Registered, Row
<1>4. ASSUME NEW r \in Row PROVE Invalidated(r) \in Row
  BY ZenonT(30) DEF Invalidated, Row
<1> QED BY <1>1, <1>2, <1>3, <1>4

\* What a step may make of a request.
RequestsMove ==
    /\ request' \in [Client -> Request]
    /\ \A c \in Client : request'[c].pc # "idle" => request'[c].device \in Device

\* A request that is answered is none any more.
LEMMA AnsweredMoves ==
    ASSUME IInv, NEW c \in Client, Answered(c)
    PROVE  RequestsMove
<1>1. request \in [Client -> Request]
  BY DEF IInv, TypeOK
<1>2. request' \in [Client -> Request]
  BY <1>1, Constants DEF Answered
<1>3. NoRequest.pc = "idle"
  BY DEF NoRequest
<1>4. ASSUME NEW o \in Client, request'[o].pc # "idle" PROVE request'[o].device \in Device
  <2>1. o # c
    BY <1>1, <1>3, <1>4 DEF Answered
  <2>2. request'[o] = request[o]
    BY <1>1, <2>1 DEF Answered
  <2> QED BY <1>4, <2>2 DEF IInv, SessionShape
<1> QED BY <1>2, <1>4 DEF RequestsMove

\* A step that leaves the poll alone keeps the invariant if it keeps the types
\* and counts late announcements anew.
LEMMA OwnerStep ==
    ASSUME IInv, PollRests,
           Recounted \/ (UNCHANGED late /\ \A d \in Device : Welcome(d)' = Welcome(d)),
           inst' \in [Device -> Row],
           prefs' \in [enabled : BOOLEAN, default : BOOLEAN,
                       explicit : [Channel -> {"unset", "on", "off"}], monitored : SUBSET Channel],
           RequestsMove,
           budget' \in [requests : 0 .. MaxRequests, polls : 0 .. MaxPolls],
           faults' \in 0 .. MaxFaults
    PROVE  IInv'
<1>1. Books'
  BY BooksKept DEF IInv
<1>2. LateOnce'
  BY LateKept DEF IInv, PollRests
<1>3. late' \in [Device -> Nat]
  <2>1. late \in [Device -> Nat]
    BY DEF IInv, TypeOK
  <2> QED BY <2>1 DEF Recounted
<1>4. TypeOK'
  BY <1>3, Zenon DEF IInv, TypeOK, PollRests, RequestsMove
<1>5. SessionShape'
  BY DEF IInv, SessionShape, PollRests, RequestsMove
<1> QED BY <1>1, <1>2, <1>4, <1>5 DEF IInv

\* Counting an owner's action.
LEMMA SpendType ==
    ASSUME IInv, NEW n \in {0, 1}, Spend(n)
    PROVE  budget' \in [requests : 0 .. MaxRequests, polls : 0 .. MaxPolls]
<1>1. budget \in [requests : 0 .. MaxRequests, polls : 0 .. MaxPolls]
  BY DEF IInv, TypeOK
<1>2. budget.requests + n \in 0 .. MaxRequests /\ budget.polls \in 0 .. MaxPolls
  BY <1>1, PushAssumption DEF Spend
<1>3. budget' = [requests |-> budget.requests + n, polls |-> budget.polls]
  BY <1>1 DEF Spend
<1> QED BY <1>2, <1>3

\* One fault more.
LEMMA FaultType ==
    ASSUME IInv, Fault
    PROVE  faults' \in 0 .. MaxFaults
  BY PushAssumption DEF IInv, TypeOK, Fault

-----------------------------------------------------------------------------
(* The owner.                                                              *)

\* PATCH /settings
LEMMA UpdateSettingsKeeps ==
    ASSUME IInv, NEW e \in BOOLEAN, NEW d \in BOOLEAN, UpdateSettings(e, d)
    PROVE  IInv'
<1>1. prefs' \in [enabled : BOOLEAN, default : BOOLEAN,
                  explicit : [Channel -> {"unset", "on", "off"}], monitored : SUBSET Channel]
  BY ZenonT(30) DEF IInv, TypeOK, UpdateSettings
<1>2. budget' \in [requests : 0 .. MaxRequests, polls : 0 .. MaxPolls]
  BY SpendType DEF UpdateSettings
<1>3. RequestsMove
  BY DEF UpdateSettings, IInv, TypeOK, SessionShape, RequestsMove
<1> QED BY <1>1, <1>2, <1>3, OwnerStep DEF UpdateSettings, PollRests, IInv, TypeOK

\* A step that changes neither the rows nor the main switch leaves every device
\* as welcome as it was.
LEMMA AsWelcome ==
    ASSUME UNCHANGED inst, prefs'.enabled = prefs.enabled
    PROVE  \A d \in Device : Welcome(d)' = Welcome(d)
  BY DEF Welcome

\* PATCH /channels/{channel_id}
LEMMA UpdatePreferenceKeeps ==
    ASSUME IInv, NEW c \in Channel, NEW choice \in {"on", "off"}, UpdatePreference(c, choice)
    PROVE  IInv'
<1>1. prefs' \in [enabled : BOOLEAN, default : BOOLEAN,
                  explicit : [Channel -> {"unset", "on", "off"}], monitored : SUBSET Channel]
      /\ prefs'.enabled = prefs.enabled
  <2>1. prefs.explicit \in [Channel -> {"unset", "on", "off"}]
        /\ [prefs.explicit EXCEPT ![c] = choice] \in [Channel -> {"unset", "on", "off"}]
    BY DEF IInv, TypeOK
  <2>2. prefs' = [prefs EXCEPT !.explicit = [prefs.explicit EXCEPT ![c] = choice]]
    BY DEF UpdatePreference
  <2> QED BY <2>1, <2>2, ZenonT(30) DEF IInv, TypeOK
<1>2. budget' \in [requests : 0 .. MaxRequests, polls : 0 .. MaxPolls]
  BY SpendType DEF UpdatePreference
<1>3. RequestsMove
  BY DEF UpdatePreference, IInv, TypeOK, SessionShape, RequestsMove
<1> QED BY <1>1, <1>2, <1>3, OwnerStep, AsWelcome
        DEF UpdatePreference, PollRests, IInv, TypeOK, history

\* PATCH /channels/{id}/monitoring
LEMMA ToggleMonitoredKeeps ==
    ASSUME IInv, NEW c \in Channel, ToggleMonitored(c)
    PROVE  IInv'
<1>1. prefs' \in [enabled : BOOLEAN, default : BOOLEAN,
                  explicit : [Channel -> {"unset", "on", "off"}], monitored : SUBSET Channel]
      /\ prefs'.enabled = prefs.enabled
  <2> DEFINE m == prefs.monitored
             n == IF c \in m THEN m \ {c} ELSE m \union {c}
  <2>1. n \in SUBSET Channel
    BY DEF IInv, TypeOK
  <2>2. prefs' = [prefs EXCEPT !.monitored = n]
    BY DEF ToggleMonitored
  <2> HIDE DEF n
  <2> QED BY <2>1, <2>2, ZenonT(30) DEF IInv, TypeOK
<1>2. budget' \in [requests : 0 .. MaxRequests, polls : 0 .. MaxPolls]
  BY SpendType DEF ToggleMonitored
<1>3. RequestsMove
  BY DEF ToggleMonitored, IInv, TypeOK, SessionShape, RequestsMove
<1> QED BY <1>1, <1>2, <1>3, OwnerStep, AsWelcome
        DEF ToggleMonitored, PollRests, IInv, TypeOK, history

\* The first statement of a request.
LEMMA AskKeeps ==
    ASSUME IInv, NEW c \in Client, NEW op \in {"register", "unregister", "test"},
           NEW d \in Device, NEW t \in Token \union {none}, Ask(c, op, d, t)
    PROVE  IInv'
<1> DEFINE q == [op |-> op, pc |-> "read", device |-> d, token |-> t, loaded |-> inst[d]]
<1>1. q \in Request
  <2>1. inst[d] \in Row
    BY DEF IInv, TypeOK
  <2> QED BY <2>1, ZenonT(30) DEF Request
<1>2. request' = [request EXCEPT ![c] = q]
  BY DEF Ask
<1>3. q.device = d
  OBVIOUS
<1> HIDE DEF q
<1>4. RequestsMove
  BY <1>1, <1>2, <1>3 DEF IInv, TypeOK, SessionShape, RequestsMove
<1>5. budget' \in [requests : 0 .. MaxRequests, polls : 0 .. MaxPolls]
  BY SpendType DEF Ask
<1> QED BY <1>4, <1>5, OwnerStep, AsWelcome DEF Ask, PollRests, IInv, TypeOK, history

-----------------------------------------------------------------------------
(* The requests.                                                           *)

\* What all steps of a request have in common.
LEMMA RequestStep ==
    ASSUME IInv, NEW c \in Client, NEW op, NEW pc, At(c, op, pc), pc # "idle",
           RequestsMove, UNCHANGED faults,
           inst' \in [Device -> Row],
           Recounted \/ UNCHANGED <<inst, late>>
    PROVE  IInv'
<1>1. UNCHANGED inst => \A d \in Device : Welcome(d)' = Welcome(d)
  BY AsWelcome DEF At
<1> QED BY <1>1, OwnerStep DEF At, PollRests, IInv, TypeOK

\* The row of the installation a request is about, and what it loaded, are rows.
LEMMA RequestRows ==
    ASSUME IInv, NEW c \in Client, request[c].pc # "idle"
    PROVE  /\ request[c].device \in Device
           /\ request[c].loaded \in Row
           /\ request[c].token \in Token \union {none}
           /\ inst \in [Device -> Row]
           /\ inst[request[c].device] \in Row
  BY DEF IInv, TypeOK, SessionShape, Request

\* POST /register
LEMMA RegisterKeeps ==
    ASSUME IInv, NEW c \in Client, Register(c)
    PROVE  IInv'
<1> DEFINE q == request[c]
           row == Merged(q.loaded, Registered(q.token), inst[q.device])
<1>1. q.pc = "read"
  BY DEF Register, At
<1>2. row \in Row
  BY <1>1, RequestRows, MergedIsRow, Constants
<1>3. inst' = [inst EXCEPT ![q.device] = row]
  BY DEF Register
<1> HIDE DEF row
<1>4. inst' \in [Device -> Row]
  BY <1>1, <1>2, <1>3, RequestRows
<1>5. RequestsMove
  BY AnsweredMoves DEF Register
<1> QED BY <1>4, <1>5, RequestStep DEF Register

\* DELETE /installations/{installation_id}
LEMMA UnregisterKeeps ==
    ASSUME IInv, NEW c \in Client, Unregister(c)
    PROVE  IInv'
<1> DEFINE q == request[c]
           gone == [q.loaded EXCEPT !.enabled = FALSE]
           row == Merged(q.loaded, gone, inst[q.device])
           last == [row EXCEPT !.unregistered = TRUE]
<1>1. q.pc = "read"
  BY DEF Unregister, At
<1>2. gone \in Row
  <2>1. q.loaded \in Row
    BY <1>1, RequestRows
  <2> QED BY <2>1, ZenonT(30) DEF Row
<1> HIDE DEF gone
<1>3. row \in Row
  BY <1>1, <1>2, RequestRows, MergedIsRow
<1> HIDE DEF row
<1>4. last \in Row
  BY <1>3, ZenonT(30) DEF Row
<1>5. UNCHANGED inst \/ inst' = [inst EXCEPT ![q.device] = last]
  BY DEF Unregister, last, row, gone
<1> HIDE DEF last
<1>6. inst' \in [Device -> Row]
  BY <1>1, <1>4, <1>5, RequestRows
<1>7. RequestsMove
  BY AnsweredMoves DEF Unregister
<1> QED BY <1>6, <1>7, RequestStep DEF Unregister

\* POST /test, up to the attempt.
LEMMA StartTestKeeps ==
    ASSUME IInv, NEW c \in Client, StartTest(c)
    PROVE  IInv'
<1>1. CASE Answered(c)
  BY <1>1, AnsweredMoves, RequestStep DEF StartTest, IInv, TypeOK
<1>2. CASE request' = [request EXCEPT ![c].pc = "sent"]
  <2> DEFINE q == [request[c] EXCEPT !.pc = "sent"]
  <2>1. request[c] \in Request /\ request[c].pc = "read"
    BY DEF IInv, TypeOK, StartTest, At
  <2>2. q \in Request
    BY <2>1, ZenonT(30) DEF Request
  <2>3. q.device \in Device
    BY <2>1, RequestRows DEF Request
  <2> HIDE DEF q
  <2>4. request' = [request EXCEPT ![c] = q]
    BY <1>2 DEF q
  <2>5. RequestsMove
    BY <2>2, <2>3, <2>4 DEF IInv, TypeOK, SessionShape, RequestsMove
  <2> QED BY <2>5, RequestStep DEF StartTest, IInv, TypeOK
<1> QED BY <1>1, <1>2 DEF StartTest

\* POST /test, with its answer.
LEMMA EndTestKeeps ==
    ASSUME IInv, NEW c \in Client, EndTest(c)
    PROVE  IInv'
<1> DEFINE d == request[c].device
<1>1. request[c].pc = "sent"
  BY DEF EndTest, At
<1>2. inst' \in [Device -> Row]
  <2>1. Invalidated(inst[d]) \in Row
    BY <1>1, RequestRows, Constants
  <2> QED BY <1>1, <2>1, RequestRows DEF EndTest
<1>3. RequestsMove
  BY AnsweredMoves DEF EndTest
<1> QED BY <1>2, <1>3, RequestStep DEF EndTest

\* A registration that is refused, and a request that is lost, change nothing.
LEMMA RequestEndsKeeps ==
    ASSUME IInv, NEW c \in Client, RegisterConflict(c) \/ LoseRequest(c)
    PROVE  IInv'
<1>1. Answered(c) /\ UNCHANGED <<inst, prefs, budget, late>> /\ PollRests
  BY DEF RegisterConflict, LoseRequest, At, PollRests, history
<1>2. RequestsMove
  BY <1>1, AnsweredMoves
<1>3. faults' \in 0 .. MaxFaults
  <2>1. CASE RegisterConflict(c)
    BY <2>1 DEF RegisterConflict, IInv, TypeOK
  <2>2. CASE LoseRequest(c)
    BY <2>2, FaultType DEF LoseRequest
  <2> QED BY <2>1, <2>2
<1> QED BY <1>1, <1>2, <1>3, AsWelcome, OwnerStep DEF IInv, TypeOK

-----------------------------------------------------------------------------
(* The poll.                                                               *)

\* A session of fields of their types.
LEMMA PollType ==
    ASSUME NEW pc \in {"idle", "open", "fanout", "sent"}, NEW left \in SUBSET Channel,
           NEW channel \in Channel \union {none}, NEW targets \in SUBSET Device,
           NEW view \in [Channel -> [Device -> Verdict]],
           NEW held \in SUBSET Device, NEW dead \in SUBSET Device
    PROVE  [pc |-> pc, left |-> left, channel |-> channel, targets |-> targets,
            view |-> view, held |-> held, dead |-> dead] \in Poll
  BY ZenonT(30) DEF Poll

\* The fields of the session.
LEMMA PollFields ==
    ASSUME IInv
    PROVE  /\ poll = [pc |-> poll.pc, left |-> poll.left, channel |-> poll.channel,
                      targets |-> poll.targets, view |-> poll.view, held |-> poll.held,
                      dead |-> poll.dead]
           /\ poll.pc \in {"idle", "open", "fanout", "sent"}
           /\ poll.left \in SUBSET Channel
           /\ poll.channel \in Channel \union {none}
           /\ poll.targets \in SUBSET Device
           /\ poll.view \in [Channel -> [Device -> Verdict]]
           /\ poll.held \in SUBSET Device
           /\ poll.dead \in SUBSET Device
  BY DEF IInv, TypeOK, Poll

\* A step of the poll keeps the shape of the requests' sessions.
LEMMA PollSide ==
    ASSUME IInv, UNCHANGED <<prefs, request>>,
           inst' \in [Device -> Row], delivery' \in [Channel -> [Device -> Verdict]],
           poll' \in Poll,
           budget' \in [requests : 0 .. MaxRequests, polls : 0 .. MaxPolls],
           accepted' \in [Channel -> [Device -> Nat]], doubted' \subseteq Channel \X Device,
           forgotten' \in [Channel -> [Device -> Nat]], late' \in [Device -> Nat],
           faults' \in 0 .. MaxFaults,
           poll'.pc \in {"fanout", "sent"} => poll'.channel \in Channel,
           poll'.pc = "sent" => poll'.targets # {},
           poll'.pc = "idle" => poll'.view = delivery'
    PROVE  TypeOK' /\ SessionShape'
<1>1. TypeOK'
  BY Zenon DEF IInv, TypeOK
<1>2. SessionShape'
  BY DEF IInv, SessionShape
<1> QED BY <1>1, <1>2

\* The session of no poll.
LEMMA IdleType ==
    ASSUME NEW view \in [Channel -> [Device -> Verdict]]
    PROVE  /\ Idle(view) \in Poll
           /\ Idle(view).pc = "idle" /\ Idle(view).view = view
           /\ Idle(view).targets = {} /\ Idle(view).channel = none
  BY PollType DEF Idle

\* Nobody is notified by a session without targets.
LEMMA LateWithoutTargets ==
    ASSUME IInv, poll'.targets = {}, Recounted \/ UNCHANGED <<inst, prefs, late>>
    PROVE  LateOnce'
<1>1. late \in [Device -> Nat]
  BY DEF IInv, TypeOK
<1>2. CASE UNCHANGED <<inst, prefs, late>>
  BY <1>2 DEF IInv, LateOnce, Welcome
<1>3. CASE Recounted
  <2>1. \A d \in Device : late'[d] = IF Welcome(d)' THEN 0 ELSE late[d]
    BY <1>3 DEF Recounted
  <2> QED BY <2>1 DEF IInv, LateOnce
<1> QED BY <1>2, <1>3

\* A step that leaves the verdicts alone and is on neither side of a request to
\* Expo leaves the books alone.
LEMMA BooksRest ==
    ASSUME IInv, UNCHANGED <<delivery, accepted, doubted, forgotten>>,
           poll'.view = poll.view, poll.pc # "sent", poll'.pc # "sent"
    PROVE  Books'
  BY DEF IInv, Books, OneOnItsWay, VerdictsStand, Counted, ViewIsTrue

\* The poll begins.
LEMMA StartPollKeeps ==
    ASSUME IInv, StartPoll
    PROVE  IInv'
<1>1. /\ poll' = [pc |-> "open", left |-> prefs.monitored, channel |-> none, targets |-> {},
                  view |-> delivery, held |-> {}, dead |-> {}]
      /\ poll.view = delivery
  BY DEF StartPoll, Idle, IInv, SessionShape
<1>2. prefs.monitored \in SUBSET Channel /\ delivery \in [Channel -> [Device -> Verdict]]
  BY DEF IInv, TypeOK
<1>3. poll' \in Poll
  BY <1>1, <1>2, PollType
<1>4. budget' \in [requests : 0 .. MaxRequests, polls : 0 .. MaxPolls]
  <2>1. budget \in [requests : 0 .. MaxRequests, polls : 0 .. MaxPolls]
    BY DEF IInv, TypeOK
  <2>2. budget' = [requests |-> budget.requests, polls |-> budget.polls + 1]
    BY <2>1 DEF StartPoll
  <2>3. budget.polls + 1 \in 0 .. MaxPolls /\ budget.requests \in 0 .. MaxRequests
    BY <2>1, PushAssumption DEF StartPoll
  <2> QED BY <2>2, <2>3
<1>5. TypeOK' /\ SessionShape'
  BY <1>1, <1>3, <1>4, PollSide DEF StartPoll, history, IInv, TypeOK
<1>6. Books'
  <2>1. poll'.view = delivery /\ poll'.pc = "open"
    BY <1>1
  <2>2. poll.pc = "idle"
    BY DEF StartPoll
  <2> QED BY <1>1, <2>1, <2>2, BooksRest DEF StartPoll, history
<1>7. LateOnce'
  <2>1. poll'.targets = {}
    BY <1>1
  <2> QED BY <2>1, LateWithoutTargets DEF StartPoll, history
<1> QED BY <1>5, <1>6, <1>7 DEF IInv

\* The list of a channel's installations.
LEMMA FanOutKeeps ==
    ASSUME IInv, NEW c \in Channel, FanOut(c)
    PROVE  IInv'
<1> DEFINE targets == IF PushOn(c) THEN Targets ELSE {}
<1>1. /\ poll.pc = "open"
      /\ poll' = [pc |-> "fanout", left |-> poll.left \ {c}, channel |-> c, targets |-> targets,
                  view |-> poll.view, held |-> poll.held, dead |-> poll.dead]
  BY PollFields DEF FanOut, Polling
<1>2. targets \in SUBSET Device
  BY DEF Targets
<1>3. \A d \in targets : Welcome(d)
  <2> SUFFICES ASSUME NEW d \in targets PROVE Welcome(d)
    OBVIOUS
  <2>1. PushOn(c) /\ d \in Device /\ Active(Seen(d))
    BY DEF Targets
  <2>2. ~Seen(d).unregistered /\ ~Seen(d).invalidated
    BY <2>1, Zenon DEF Active
  <2>3. /\ Seen(d).unregistered = inst[d].unregistered
        /\ inst[d].invalidated => Seen(d).invalidated
    BY <2>1 DEF Seen, Invalidated, IInv, TypeOK, Row
  <2> QED BY <2>1, <2>2, <2>3, Zenon DEF PushOn, Welcome
<1> HIDE DEF targets
<1>4. poll' \in Poll
  BY <1>1, <1>2, PollFields, PollType
<1>5. TypeOK' /\ SessionShape'
  BY <1>1, <1>4, PollSide DEF FanOut, Polling, history, IInv, TypeOK
<1>6. Books'
  BY <1>1, BooksRest DEF FanOut, history
<1>7. LateOnce'
  <2>1. UNCHANGED <<inst, prefs, late>>
    BY DEF FanOut, Polling, history
  <2> QED BY <1>1, <1>3, <2>1 DEF IInv, LateOnce, Welcome
<1> QED BY <1>5, <1>6, <1>7 DEF IInv

\* A channel without a new upload, and the end of a fan-out.
LEMMA PassKeeps ==
    ASSUME IInv, (\E c \in Channel : PassChannel(c)) \/ EndFanOut
    PROVE  IInv'
<1>1. /\ poll.pc \in {"open", "fanout"}
      /\ poll'.pc = "open" /\ poll'.view = poll.view /\ poll'.targets = poll.targets
      /\ poll' \in Poll
  <2>1. CASE EndFanOut
    <3>1. poll' = [pc |-> "open", left |-> poll.left, channel |-> none, targets |-> poll.targets,
                   view |-> poll.view, held |-> poll.held, dead |-> poll.dead]
      BY <2>1, PollFields DEF EndFanOut
    <3>2. poll' \in Poll
      BY <3>1, PollFields, PollType
    <3> QED BY <2>1, <3>1, <3>2 DEF EndFanOut, Polling
  <2>2. ASSUME NEW c \in Channel, PassChannel(c)
        PROVE  /\ poll.pc \in {"open", "fanout"}
               /\ poll'.pc = "open" /\ poll'.view = poll.view /\ poll'.targets = poll.targets
               /\ poll' \in Poll
    <3>1. poll' = [pc |-> poll.pc, left |-> poll.left \ {c}, channel |-> poll.channel,
                   targets |-> poll.targets, view |-> poll.view, held |-> poll.held,
                   dead |-> poll.dead]
      BY <2>2, PollFields DEF PassChannel
    <3>2. poll.left \ {c} \in SUBSET Channel
      BY PollFields
    <3>3. poll' \in Poll
      BY <3>1, <3>2, PollFields, PollType
    <3> QED BY <2>2, <3>1, <3>3 DEF PassChannel, Polling
  <2> QED BY <2>1, <2>2
<1>2. UNCHANGED <<inst, delivery, prefs, request, budget, accepted, doubted, forgotten, late, faults>>
  BY DEF PassChannel, EndFanOut, Polling, history
<1>3. TypeOK' /\ SessionShape'
  BY <1>1, <1>2, PollSide DEF IInv, TypeOK
<1>4. Books'
  BY <1>1, <1>2, BooksRest
<1>5. LateOnce'
  <2>1. poll.pc # "sent"
    BY <1>1
  <2> QED BY <1>1, <1>2, <2>1 DEF IInv, LateOnce, Welcome
<1> QED BY <1>3, <1>4, <1>5 DEF IInv

\* An installation that has its verdict is passed over.
LEMMA SkipKeeps ==
    ASSUME IInv, Attempt, poll.view[poll.channel][Target] # "none"
    PROVE  IInv'
<1>1. /\ poll.pc = "fanout"
      /\ poll' = [pc |-> poll.pc, left |-> poll.left, channel |-> poll.channel,
                  targets |-> poll.targets \ {Target}, view |-> poll.view, held |-> poll.held,
                  dead |-> poll.dead]
      /\ UNCHANGED <<inst, delivery, prefs, request, budget, accepted, doubted, forgotten, late, faults>>
  BY PollFields DEF Attempt, Polling
<1>2. /\ poll'.pc = "fanout" /\ poll'.channel = poll.channel /\ poll'.view = poll.view
      /\ poll'.targets = poll.targets \ {Target}
  BY <1>1
<1>3. poll' \in Poll
  <2>1. poll.targets \ {Target} \in SUBSET Device
    BY PollFields
  <2> QED BY <1>1, <2>1, PollFields, PollType
<1>4. poll.channel \in Channel
  BY <1>1 DEF IInv, SessionShape
<1>5. TypeOK' /\ SessionShape'
  BY <1>1, <1>2, <1>3, <1>4, PollSide DEF IInv, TypeOK
<1>6. Books'
  BY <1>1, <1>2, BooksRest
<1>7. LateOnce'
  BY <1>1, <1>2 DEF IInv, LateOnce, Welcome
<1> QED BY <1>5, <1>6, <1>7 DEF IInv

\* The attempt is written and the request leaves.
LEMMA AttemptKeeps ==
    ASSUME IInv, Attempt, poll.view[poll.channel][Target] = "none"
    PROVE  IInv'
<1> DEFINE view == [poll.view EXCEPT ![poll.channel][Target] = "trying"]
<1>1. /\ poll.pc = "fanout" /\ poll.targets # {}
      /\ poll' = [pc |-> "sent", left |-> poll.left, channel |-> poll.channel,
                  targets |-> poll.targets, view |-> view, held |-> poll.held \union {Target},
                  dead |-> poll.dead]
      /\ late' = [late EXCEPT ![Target] = IF Welcome(Target) THEN @ ELSE @ + 1]
      /\ UNCHANGED <<inst, delivery, prefs, request, budget, accepted, doubted, forgotten, faults>>
  BY PollFields DEF Attempt, Polling
<1>2. poll.channel \in Channel /\ Target \in Device /\ Target \in poll.targets
  BY <1>1, TargetIsOne, PollFields DEF IInv, SessionShape
<1>3. /\ view \in [Channel -> [Device -> Verdict]]
      /\ \A x \in Channel, y \in Device :
            view[x][y] = IF x = poll.channel /\ y = Target THEN "trying" ELSE poll.view[x][y]
  BY <1>2, PollFields, OneVerdict DEF Verdict
<1> HIDE DEF view
<1>4. /\ poll'.pc = "sent" /\ poll'.channel = poll.channel /\ poll'.view = view
      /\ poll'.targets = poll.targets
  BY <1>1
<1>5. Target' = Target
  BY <1>4, TargetStays
<1>6. poll' \in Poll
  <2>1. poll.held \union {Target} \in SUBSET Device
    BY <1>2, PollFields
  <2> QED BY <1>1, <1>3, <2>1, PollFields, PollType
<1>7. late[Target] = 0 /\ late \in [Device -> Nat] /\ late' \in [Device -> Nat]
  <2>1. late \in [Device -> Nat]
    BY DEF IInv, TypeOK
  <2>2. late[Target] = 0
    BY <1>1, <1>2 DEF IInv, LateOnce
  <2> QED BY <1>1, <1>2, <2>1, <2>2
<1>8. TypeOK' /\ SessionShape'
  BY <1>1, <1>2, <1>4, <1>6, <1>7, PollSide DEF IInv, TypeOK
<1>9. Books'
  <2>1. OneOnItsWay'
    BY <1>1, <1>3, <1>4, <1>5 DEF IInv, Books, OneOnItsWay
  <2>2. delivery[poll.channel][Target] = "none"
    BY <1>2 DEF IInv, Books, VerdictsStand, TypeOK
  <2>3. VerdictsStand'
    BY <1>1, <1>2, <1>3, <1>4, <2>2 DEF IInv, Books, VerdictsStand
  <2>4. Counted' /\ ViewIsTrue'
    BY <1>1, <1>2, <1>3, <1>4 DEF IInv, Books, Counted, ViewIsTrue, Concluding
  <2> QED BY <2>1, <2>3, <2>4 DEF Books
<1>10. LateOnce'
  <2>1. \A d \in Device : Welcome(d)' = Welcome(d)
    BY <1>1, AsWelcome
  <2>2. \A d \in Device : d # Target => late'[d] = late[d]
    BY <1>1, <1>7
  <2>3. late'[Target] = IF Welcome(Target) THEN 0 ELSE 1
    BY <1>1, <1>2, <1>7
  <2>4. \A d \in Device : late[d] = 1 => d \notin poll.targets
    BY <1>1 DEF IInv, LateOnce
  <2> QED BY <1>4, <1>5, <2>1, <2>2, <2>3, <2>4 DEF IInv, LateOnce
<1> QED BY <1>8, <1>9, <1>10 DEF IInv

\* What a verdict makes of the session.
LEMMA ConcludedSession ==
    ASSUME IInv, poll.pc = "sent", NEW verdict \in Concluding, NEW dead \in SUBSET {Target},
           Concluded(verdict, dead), UNCHANGED <<inst, delivery, prefs, late>>
    PROVE  /\ poll' \in Poll
           /\ poll.channel \in Channel /\ Target \in Device
           /\ poll'.pc = "fanout" /\ poll'.channel = poll.channel
           /\ poll.view[poll.channel][Target] = "trying"
           /\ delivery[poll.channel][Target] = "none"
           /\ \A x \in Channel, y \in Device :
                 poll'.view[x][y] = IF x = poll.channel /\ y = Target THEN verdict
                                    ELSE poll.view[x][y]
           /\ OneOnItsWay' /\ VerdictsStand' /\ LateOnce'
<1> DEFINE view == [poll.view EXCEPT ![poll.channel][Target] = verdict]
<1>1. poll.channel \in Channel /\ Target \in Device /\ Target \in poll.targets
  BY TargetIsOne, PollFields DEF IInv, SessionShape
<1>2. poll' = [pc |-> "fanout", left |-> poll.left, channel |-> poll.channel,
               targets |-> poll.targets \ {Target}, view |-> view, held |-> poll.held,
               dead |-> poll.dead \union dead]
  BY PollFields DEF Concluded
<1>3. /\ view \in [Channel -> [Device -> Verdict]]
      /\ \A x \in Channel, y \in Device :
            view[x][y] = IF x = poll.channel /\ y = Target THEN verdict ELSE poll.view[x][y]
  BY <1>1, PollFields, OneVerdict DEF Verdict, Concluding
<1> HIDE DEF view
<1>4. poll' \in Poll
  <2>1. poll.targets \ {Target} \in SUBSET Device /\ poll.dead \union dead \in SUBSET Device
    BY <1>1, PollFields
  <2> QED BY <1>2, <1>3, <2>1, PollFields, PollType
<1>5. /\ poll'.pc = "fanout" /\ poll'.channel = poll.channel /\ poll'.view = view
      /\ poll'.targets = poll.targets \ {Target}
  BY <1>2
<1>6. poll.view[poll.channel][Target] = "trying"
  BY <1>1 DEF IInv, Books, OneOnItsWay
<1>7. delivery[poll.channel][Target] = "none"
  <2>1. delivery[poll.channel][Target] # "trying"
    BY <1>1 DEF IInv, Books, VerdictsStand
  <2> QED BY <1>1, <1>6, <2>1 DEF IInv, Books, VerdictsStand
<1>8. OneOnItsWay'
  BY <1>3, <1>5 DEF IInv, Books, OneOnItsWay, Concluding
<1>9. VerdictsStand'
  BY <1>3, <1>5, <1>7 DEF IInv, Books, VerdictsStand
<1>10. LateOnce'
  BY <1>5 DEF IInv, LateOnce, Welcome
<1> QED BY <1>1, <1>3, <1>4, <1>5, <1>6, <1>7, <1>8, <1>9, <1>10

\* Expo refuses.
LEMMA ExpoRefusesKeeps ==
    ASSUME IInv, ExpoRefuses
    PROVE  IInv'
<1>1. /\ poll.pc = "sent"
      /\ UNCHANGED <<inst, delivery, prefs, request, budget, accepted, doubted, forgotten, late, faults>>
  BY DEF ExpoRefuses, Polling, history
<1>2. PICK verdict \in {"failed", "invalid_token"} :
         \E dead \in SUBSET {Target} : Concluded(verdict, dead)
  BY DEF ExpoRefuses
<1>3. PICK dead \in SUBSET {Target} : Concluded(verdict, dead)
  BY <1>2
<1>4. verdict \in Concluding
  BY DEF Concluding
<1> DEFINE Session ==
        /\ poll' \in Poll
        /\ poll.channel \in Channel /\ Target \in Device
        /\ poll'.pc = "fanout" /\ poll'.channel = poll.channel
        /\ poll.view[poll.channel][Target] = "trying"
        /\ \A x \in Channel, y \in Device :
              poll'.view[x][y] = IF x = poll.channel /\ y = Target THEN verdict
                                 ELSE poll.view[x][y]
        /\ OneOnItsWay' /\ VerdictsStand' /\ LateOnce'
<1>5. Session
  BY <1>1, <1>3, <1>4, ConcludedSession
<1>6. TypeOK' /\ SessionShape'
  BY <1>1, <1>5, PollSide DEF IInv, TypeOK
<1>7. Counted' /\ ViewIsTrue'
  <2>1. accepted[poll.channel][Target] <= forgotten[poll.channel][Target]
    BY <1>5 DEF IInv, Books, Counted, Concluding
  <2>2. /\ accepted[poll.channel][Target] \in Nat
        /\ forgotten[poll.channel][Target] \in Nat
    BY <1>5 DEF IInv, TypeOK
  <2>3. Counted'
    BY <1>1, <1>5, <2>1, <2>2 DEF IInv, Books, Counted, Concluding
  <2>4. ASSUME NEW x \in Channel, NEW y \in Device
        PROVE  /\ poll'.view[x][y] = "sent" => accepted'[x][y] > 0
               /\ poll'.view[x][y] \in {"failed", "invalid_token"} /\ accepted'[x][y] > 0
                     => <<x, y>> \in doubted' \/ forgotten'[x][y] > 0
    <3>1. CASE x = poll.channel /\ y = Target
      BY <1>1, <1>2, <1>5, <2>1, <2>2, <3>1
    <3>2. CASE ~(x = poll.channel /\ y = Target)
      <4>1. poll'.view[x][y] = poll.view[x][y]
        BY <1>5, <3>2
      <4> QED BY <1>1, <4>1 DEF IInv, Books, ViewIsTrue
    <3> QED BY <3>1, <3>2
  <2> QED BY <2>3, <2>4 DEF ViewIsTrue
<1> QED BY <1>5, <1>6, <1>7 DEF IInv, Books

\* Expo accepts, whether or not its answer arrives.
LEMMA ExpoAcceptsKeeps ==
    ASSUME IInv, ExpoAccepts \/ AnswerIsLost
    PROVE  IInv'
<1>1. /\ poll.pc = "sent" /\ Accepts
      /\ UNCHANGED <<inst, delivery, prefs, request, budget, forgotten, late>>
  BY DEF ExpoAccepts, AnswerIsLost, Polling
<1>2. PICK verdict \in {"sent", "failed"} :
         /\ Concluded(verdict, {})
         /\ verdict = "sent" => UNCHANGED <<doubted, faults>>
         /\ verdict = "failed" => Fault /\ doubted' = doubted \union {<<poll.channel, Target>>}
  BY DEF ExpoAccepts, AnswerIsLost
<1>3. verdict \in Concluding
  BY DEF Concluding
<1> DEFINE Session ==
        /\ poll' \in Poll
        /\ poll.channel \in Channel /\ Target \in Device
        /\ poll'.pc = "fanout" /\ poll'.channel = poll.channel
        /\ poll.view[poll.channel][Target] = "trying"
        /\ \A x \in Channel, y \in Device :
              poll'.view[x][y] = IF x = poll.channel /\ y = Target THEN verdict
                                 ELSE poll.view[x][y]
        /\ OneOnItsWay' /\ VerdictsStand' /\ LateOnce'
<1>4. Session
  BY <1>1, <1>2, <1>3, ConcludedSession
<1>5. /\ accepted \in [Channel -> [Device -> Nat]] /\ forgotten \in [Channel -> [Device -> Nat]]
      /\ accepted' \in [Channel -> [Device -> Nat]]
      /\ \A x \in Channel, y \in Device :
            accepted'[x][y] = IF x = poll.channel /\ y = Target THEN accepted[x][y] + 1
                              ELSE accepted[x][y]
  <2>1. accepted \in [Channel -> [Device -> Nat]] /\ forgotten \in [Channel -> [Device -> Nat]]
    BY DEF IInv, TypeOK
  <2> QED BY <1>1, <1>4, <2>1, OneCount DEF Accepts
<1>6. doubted' \subseteq Channel \X Device /\ faults' \in 0 .. MaxFaults
  <2>1. doubted \subseteq Channel \X Device /\ faults \in 0 .. MaxFaults
    BY DEF IInv, TypeOK
  <2> QED BY <1>2, <1>4, <2>1, FaultType
<1>7. TypeOK' /\ SessionShape'
  BY <1>1, <1>4, <1>5, <1>6, PollSide DEF IInv, TypeOK
<1>8. accepted[poll.channel][Target] <= forgotten[poll.channel][Target]
  BY <1>4 DEF IInv, Books, Counted, Concluding
<1>9. Counted'
  BY <1>1, <1>3, <1>4, <1>5, <1>8 DEF IInv, Books, Counted
<1>10. ViewIsTrue'
  <2>1. doubted \subseteq doubted'
    BY <1>2
  <2>2. ASSUME NEW x \in Channel, NEW y \in Device
        PROVE  /\ poll'.view[x][y] = "sent" => accepted'[x][y] > 0
               /\ poll'.view[x][y] \in {"failed", "invalid_token"} /\ accepted'[x][y] > 0
                     => <<x, y>> \in doubted' \/ forgotten'[x][y] > 0
    <3>1. CASE x = poll.channel /\ y = Target
      <4>1. poll'.view[x][y] = verdict /\ accepted'[x][y] > 0
        BY <1>4, <1>5, <3>1
      <4>2. verdict = "failed" => <<x, y>> \in doubted'
        BY <1>2, <3>1
      <4> QED BY <1>2, <4>1, <4>2
    <3>2. CASE ~(x = poll.channel /\ y = Target)
      <4>1. poll'.view[x][y] = poll.view[x][y] /\ accepted'[x][y] = accepted[x][y]
        BY <1>4, <1>5, <3>2
      <4> QED BY <1>1, <2>1, <4>1 DEF IInv, Books, ViewIsTrue
    <3> QED BY <3>1, <3>2
  <2> QED BY <2>2 DEF ViewIsTrue
<1> QED BY <1>4, <1>7, <1>9, <1>10 DEF IInv, Books

\* The poll commits.
LEMMA CommitPollKeeps ==
    ASSUME IInv, CommitPoll
    PROVE  IInv'
<1>1. /\ poll.pc = "open" /\ poll' = Idle(poll.view) /\ delivery' = poll.view
      /\ inst' = [d \in Device |-> Seen(d)]
      /\ UNCHANGED <<prefs, request, budget, accepted, doubted, forgotten, faults>>
      /\ Recounted
  BY DEF CommitPoll, Polling
<1>2. /\ poll' \in Poll /\ poll'.pc = "idle" /\ poll'.view = poll.view /\ poll'.targets = {}
  BY <1>1, PollFields, IdleType
<1>3. inst' \in [Device -> Row]
  <2>1. \A d \in Device : Seen(d) \in Row
    BY Constants DEF Seen, IInv, TypeOK
  <2> QED BY <1>1, <2>1
<1>4. late' \in [Device -> Nat]
  <2>1. late \in [Device -> Nat]
    BY DEF IInv, TypeOK
  <2> QED BY <1>1, <2>1 DEF Recounted
<1>5. TypeOK' /\ SessionShape'
  BY <1>1, <1>2, <1>3, <1>4, PollFields, PollSide DEF IInv, TypeOK
<1>6. Books'
  <2>1. \A c \in Channel, d \in Device : poll.view[c][d] # "trying"
    BY <1>1 DEF IInv, Books, OneOnItsWay
  <2>2. OneOnItsWay' /\ VerdictsStand'
    BY <1>1, <1>2, <2>1 DEF OneOnItsWay, VerdictsStand
  <2>3. Counted' /\ ViewIsTrue'
    BY <1>1, <1>2 DEF IInv, Books, Counted, ViewIsTrue
  <2> QED BY <2>2, <2>3 DEF Books
<1>7. LateOnce'
  BY <1>1, <1>2, LateWithoutTargets
<1> QED BY <1>5, <1>6, <1>7 DEF IInv

\* The poll is rolled back: an attempt it forgets is counted as forgotten.
LEMMA LosePollKeeps ==
    ASSUME IInv, LosePoll
    PROVE  IInv'
<1>1. /\ poll' = Idle(delivery) /\ Forgets /\ Fault
      /\ UNCHANGED accepted \/ (poll.pc = "sent" /\ Accepts)
      /\ UNCHANGED <<inst, delivery, prefs, request, budget, doubted, late>>
  BY DEF LosePoll, Polling
<1>2. /\ accepted \in [Channel -> [Device -> Nat]] /\ forgotten \in [Channel -> [Device -> Nat]]
      /\ delivery \in [Channel -> [Device -> Verdict]]
  BY DEF IInv, TypeOK
<1>3. poll' \in Poll /\ poll'.pc = "idle" /\ poll'.view = delivery /\ poll'.targets = {}
  BY <1>1, <1>2, IdleType
<1>4. /\ forgotten' \in [Channel -> [Device -> Nat]]
      /\ \A x \in Channel, y \in Device :
            forgotten'[x][y] = IF poll.view[x][y] # delivery[x][y] THEN forgotten[x][y] + 1
                               ELSE forgotten[x][y]
  BY <1>1, <1>2 DEF Forgets
<1>5. /\ accepted' \in [Channel -> [Device -> Nat]]
      /\ \A x \in Channel, y \in Device :
            \/ accepted'[x][y] = accepted[x][y]
            \/ accepted'[x][y] = accepted[x][y] + 1 /\ poll.view[x][y] = "trying"
  <2>1. CASE UNCHANGED accepted
    BY <1>2, <2>1
  <2>2. CASE poll.pc = "sent" /\ Accepts
    <3>1. poll.channel \in Channel /\ Target \in Device
      BY <2>2, TargetIsOne, PollFields DEF IInv, SessionShape
    <3>2. poll.view[poll.channel][Target] = "trying"
      BY <2>2, <3>1 DEF IInv, Books, OneOnItsWay
    <3>3. /\ accepted' \in [Channel -> [Device -> Nat]]
          /\ \A x \in Channel, y \in Device :
                accepted'[x][y] = IF x = poll.channel /\ y = Target THEN accepted[x][y] + 1
                                  ELSE accepted[x][y]
      BY <1>2, <2>2, <3>1, OneCount DEF Accepts
    <3> QED BY <3>2, <3>3
  <2> QED BY <1>1, <2>1, <2>2
<1>6. TypeOK' /\ SessionShape'
  <2>1. faults' \in 0 .. MaxFaults
    BY <1>1, FaultType
  <2> QED BY <1>1, <1>3, <1>4, <1>5, <2>1, PollSide DEF IInv, TypeOK
<1>7. OneOnItsWay' /\ VerdictsStand'
  BY <1>1, <1>3 DEF IInv, Books, VerdictsStand, OneOnItsWay
<1>8. ASSUME NEW x \in Channel, NEW y \in Device
      PROVE  /\ delivery[x][y] \in Concluding => accepted'[x][y] <= 1 + forgotten'[x][y]
             /\ delivery[x][y] \notin Concluding => accepted'[x][y] <= forgotten'[x][y]
             /\ delivery[x][y] = "sent" => accepted'[x][y] > 0
             /\ delivery[x][y] \in {"failed", "invalid_token"} /\ accepted'[x][y] > 0
                   => <<x, y>> \in doubted \/ forgotten'[x][y] > 0
  <2>1. /\ accepted[x][y] \in Nat /\ forgotten[x][y] \in Nat
        /\ delivery[x][y] \in Verdict /\ delivery[x][y] # "trying"
        /\ delivery[x][y] # "none" => poll.view[x][y] = delivery[x][y]
    BY <1>2 DEF IInv, Books, VerdictsStand
  <2>2. CASE delivery[x][y] = "none"
    <3>1. accepted[x][y] <= 1 + forgotten[x][y]
      BY <2>1 DEF IInv, Books, Counted
    <3>2. poll.view[x][y] = "none" => accepted'[x][y] <= forgotten'[x][y]
      BY <1>4, <1>5, <2>1, <2>2 DEF IInv, Books, Counted, Concluding
    <3>3. poll.view[x][y] = "trying" => accepted'[x][y] <= forgotten'[x][y]
      <4>1. poll.view[x][y] = "trying" => accepted[x][y] <= forgotten[x][y]
        BY DEF IInv, Books, Counted, Concluding
      <4> QED BY <1>4, <1>5, <2>1, <2>2, <4>1
    <3>4. poll.view[x][y] \notin {"none", "trying"} => accepted'[x][y] <= forgotten'[x][y]
      BY <1>4, <1>5, <2>1, <2>2, <3>1
    <3> QED BY <2>2, <3>2, <3>3, <3>4 DEF Concluding
  <2>3. CASE delivery[x][y] # "none"
    <3>1. /\ poll.view[x][y] = delivery[x][y]
          /\ accepted'[x][y] = accepted[x][y] /\ forgotten'[x][y] = forgotten[x][y]
      BY <1>4, <1>5, <2>1, <2>3
    <3> QED BY <3>1 DEF IInv, Books, Counted, ViewIsTrue
  <2> QED BY <2>2, <2>3
<1>9. Counted' /\ ViewIsTrue'
  BY <1>1, <1>3, <1>8 DEF Counted, ViewIsTrue
<1>10. LateOnce'
  BY <1>1, <1>3, LateWithoutTargets
<1> QED BY <1>6, <1>7, <1>9, <1>10 DEF IInv, Books

-----------------------------------------------------------------------------
(* Theorems.                                                               *)

\* The invariant holds at first ...
LEMMA Initially == Init => IInv
<1> SUFFICES ASSUME Init PROVE IInv
  OBVIOUS
<1>1. /\ poll = Idle(delivery) /\ delivery = [c \in Channel |-> [d \in Device |-> "none"]]
      /\ delivery \in [Channel -> [Device -> Verdict]]
  BY DEF Init, Verdict
<1>2. poll \in Poll /\ poll.pc = "idle" /\ poll.view = delivery /\ poll.targets = {}
  BY <1>1, IdleType
<1>3. inst \in [Device -> Row]
  BY Constants DEF Init
<1>4. request = [c \in Client |-> NoRequest] /\ NoRequest.pc = "idle"
  BY DEF Init, NoRequest
<1>5. prefs \in [enabled : BOOLEAN, default : BOOLEAN,
                 explicit : [Channel -> {"unset", "on", "off"}], monitored : SUBSET Channel]
  <2>1. {[c \in Channel |-> "unset"]} \subseteq [Channel -> {"unset", "on", "off"}]
    OBVIOUS
  <2>2. prefs \in [enabled : BOOLEAN, default : {TRUE},
                   explicit : {[c \in Channel |-> "unset"]}, monitored : {Channel}]
    BY DEF Init
  <2> DEFINE unset == [c \in Channel |-> "unset"]
  <2>3. unset \in [Channel -> {"unset", "on", "off"}]
    OBVIOUS
  <2> HIDE DEF unset
  <2>4. prefs \in [enabled : BOOLEAN, default : {TRUE}, explicit : {unset}, monitored : {Channel}]
    BY <2>2 DEF unset
  <2> QED BY <2>3, <2>4, ZenonT(30)
<1>6. budget \in [requests : 0 .. MaxRequests, polls : 0 .. MaxPolls] /\ faults \in 0 .. MaxFaults
  BY PushAssumption DEF Init
<1>7. TypeOK
  BY <1>1, <1>2, <1>3, <1>4, <1>5, <1>6, Constants DEF Init, TypeOK, Never
<1>8. SessionShape
  BY <1>2, <1>4 DEF SessionShape
<1>9. Books
  BY <1>1, <1>2 DEF Init, Never, Books, OneOnItsWay, VerdictsStand, Counted, ViewIsTrue, Concluding
<1>10. LateOnce
  BY <1>2 DEF Init, LateOnce
<1> QED BY <1>7, <1>8, <1>9, <1>10 DEF IInv

\* ... and every step keeps it.
LEMMA EveryStep == IInv /\ [Next]_vars => IInv'
<1> SUFFICES ASSUME IInv, [Next]_vars PROVE IInv'
  OBVIOUS
<1>1. CASE \E e, d \in BOOLEAN : UpdateSettings(e, d)
  BY <1>1, UpdateSettingsKeeps
<1>2. CASE \E c \in Channel : ToggleMonitored(c) \/ \E choice \in {"on", "off"} : UpdatePreference(c, choice)
  BY <1>2, ToggleMonitoredKeeps, UpdatePreferenceKeeps
<1>3. CASE \E c \in Client, d \in Device :
              \/ \E op \in {"unregister", "test"} : Ask(c, op, d, none)
              \/ \E t \in Token : Ask(c, "register", d, t)
  BY <1>3, AskKeeps
<1>4. CASE \E c \in Client : Handle(c) \/ LoseRequest(c)
  BY <1>4, RegisterKeeps, UnregisterKeeps, StartTestKeeps, EndTestKeeps, RequestEndsKeeps DEF Handle
<1>5. CASE StartPoll
  BY <1>5, StartPollKeeps
<1>6. CASE PollStep
  BY <1>6, FanOutKeeps, PassKeeps, SkipKeeps, AttemptKeeps, ExpoAcceptsKeeps, ExpoRefusesKeeps,
     CommitPollKeeps DEF PollStep
<1>7. CASE AnswerIsLost
  BY <1>7, ExpoAcceptsKeeps
<1>8. CASE LosePoll
  BY <1>8, LosePollKeeps
<1>9. CASE UNCHANGED vars
  <2>1. Recounted \/ (UNCHANGED late /\ \A d \in Device : Welcome(d)' = Welcome(d))
    BY <1>9, AsWelcome DEF vars, history
  <2>2. RequestsMove
    BY <1>9 DEF vars, IInv, TypeOK, SessionShape, RequestsMove
  <2> QED BY <1>9, <2>1, <2>2, OwnerStep DEF vars, history, PollRests, IInv, TypeOK
<1> QED BY <1>1, <1>2, <1>3, <1>4, <1>5, <1>6, <1>7, <1>8, <1>9 DEF Next

\* The rows, the sessions and the books agree in every reachable state.
THEOREM InductiveInvariant == Spec => []IInv
  BY Initially, EveryStep, PTL DEF Spec

\* Every variable keeps to its type.
THEOREM TypeCorrectness == Spec => []TypeOK
<1>1. IInv => TypeOK
  BY DEF IInv
<1> QED BY <1>1, InductiveInvariant, PTL

\* Expo accepts an announcement once, and once more for each poll rolled back
\* (attempt_new_video_push).
THEOREM OncePerDevice == Spec => []AnnouncedOnce
<1>1. IInv => AnnouncedOnce
  <2> SUFFICES ASSUME IInv, NEW c \in Channel, NEW d \in Device
               PROVE  accepted[c][d] <= 1 + forgotten[c][d]
    BY DEF AnnouncedOnce
  <2>1. accepted[c][d] \in Nat /\ forgotten[c][d] \in Nat
    BY DEF IInv, TypeOK
  <2> QED BY <2>1 DEF IInv, Books, Counted
<1> QED BY <1>1, InductiveInvariant, PTL

\* A committed verdict tells what Expo did (_send_delivery).
THEOREM Truth == Spec => []VerdictsAreTrue
<1>1. IInv => VerdictsAreTrue
  <2> SUFFICES ASSUME IInv, NEW c \in Channel, NEW d \in Device
               PROVE  /\ delivery[c][d] # "trying"
                      /\ delivery[c][d] = "sent" => accepted[c][d] > 0
                      /\ delivery[c][d] \in {"failed", "invalid_token"} /\ accepted[c][d] > 0
                            => <<c, d>> \in doubted \/ forgotten[c][d] > 0
    BY DEF VerdictsAreTrue
  <2>1. /\ delivery[c][d] # "trying"
        /\ delivery[c][d] # "none" => poll.view[c][d] = delivery[c][d]
    BY DEF IInv, Books, VerdictsStand
  <2> QED BY <2>1 DEF IInv, Books, ViewIsTrue
<1> QED BY <1>1, InductiveInvariant, PTL

\* At most one announcement is late, whether push was turned off, the device
\* unregistered or its token found invalid (the filter of the fan-out).
THEOREM Withdrawal == Spec => []OneLateAnnouncement
<1>1. IInv => OneLateAnnouncement
  <2> SUFFICES ASSUME IInv, NEW d \in Device PROVE late[d] <= 1
    BY DEF OneLateAnnouncement
  <2>1. late[d] \in {0, 1}
    BY DEF IInv, LateOnce
  <2> QED BY <2>1
<1> QED BY <1>1, InductiveInvariant, PTL
=============================================================================
