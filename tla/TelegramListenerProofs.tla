------------------------ MODULE TelegramListenerProofs ------------------------
(***************************************************************************)
(* Theorems about TelegramListener: IInv is an invariant for any number of *)
(* updates, attempts, orphaned calls and faults.                           *)
(*                                                                         *)
(* The table only grows and what is settled stays settled; so an action    *)
(* is answerable for what it writes itself, and the lemmas of the second   *)
(* section keep the rest.                                                  *)
(***************************************************************************)
EXTENDS TelegramListener, WellFoundedInduction, TLAPS

\* What the invariant says of the table, the history and Telegram.
Books == NothingIsForgotten /\ NoCommandIsSkipped /\ AckIsDurable

\* A command that has its row keeps it, and its status.
Grows ==
    /\ ignored \subseteq ignored'
    /\ \A u \in Update : row[u].status # "absent" => row'[u].status = row[u].status

-----------------------------------------------------------------------------
(* Batches and calls.                                                      *)

\* A batch has a first update.
LEMMA FirstOfBatch ==
    ASSUME NEW batch \in SUBSET Update, batch # {}
    PROVE  First(batch) \in batch /\ \A v \in batch : First(batch) <= v
<1>1. batch \subseteq Nat
  BY ListenerAssumption DEF Update
<1>2. \E u \in batch : \A v \in batch : <<v, u>> \notin OpToRel(<, Nat)
  BY <1>1, WFMin, NatLessThanWellFounded
<1>3. \E u \in batch : \A v \in batch : u <= v
  <2>1. PICK u \in batch : \A v \in batch : <<v, u>> \notin OpToRel(<, Nat)
    BY <1>2
  <2>2. \A v \in batch : ~(v < u)
    BY <1>1, <2>1 DEF OpToRel
  <2>3. QED
    BY <1>1, <2>2
<1>4. QED
  BY <1>3 DEF First

\* The update at hand, where there is one.
LEMMA CurrentIsFirst ==
    ASSUME TypeOK, intake.batch # {}
    PROVE  /\ Current \in intake.batch /\ Current \in Update
           /\ \A v \in intake.batch : Current <= v
<1>1. intake.batch \in SUBSET Update
  BY DEF TypeOK, Intake
<1>2. QED
  BY <1>1, FirstOfBatch DEF Current

\* No call is none of the calls.
LEMMA NoCallIsNone == NoCall \notin Call
BY DEF NoCall, Call

\* The calls the listener makes, and their answers.
LEMMA CallTypes ==
    /\ \A u \in Update : Submission(u) \in Call
    /\ \A u \in Update, n \in 0 .. MaxAcks : Recording(u, n) \in Call
    /\ \A c \in Call, a \in Answer : Answered(c, a) \in Call
    /\ \A c \in Call : [c EXCEPT !.phase = "looked"] \in Call
<1>1. 0 \in 0 .. MaxAcks
  BY ListenerAssumption
<1>2. \A u \in Update : Submission(u) \in Call
  BY <1>1 DEF Submission, Call, CallPhase, Answer
<1>3. \A u \in Update, n \in 0 .. MaxAcks : Recording(u, n) \in Call
  BY DEF Recording, Call, CallPhase, Answer
<1>4. \A c \in Call, a \in Answer : Answered(c, a) \in Call
  BY DEF Answered, Call, CallPhase
<1>5. \A c \in Call : [c EXCEPT !.phase = "looked"] \in Call
  BY DEF Call, CallPhase
<1>6. QED
  BY <1>2, <1>3, <1>4, <1>5

\* An answer changes nothing else of a call.
LEMMA AnsweredCall ==
    ASSUME NEW c \in Call, NEW a \in Answer
    PROVE  /\ Answered(c, a).answer = a /\ Answered(c, a).phase = "answered"
           /\ Answered(c, a).kind = c.kind /\ Answered(c, a).update = c.update
BY DEF Answered, Call

-----------------------------------------------------------------------------
(* What a step that writes nothing of a part keeps of it.                  *)

\* What is settled stays settled.
LEMMA SettledStays ==
    ASSUME Grows, NEW u \in Update, Settled(u)
    PROVE  Settled(u)'
BY DEF Grows, Settled

\* A step that touches neither table, offset nor acknowledgments keeps the books.
LEMMA BooksKept ==
    ASSUME IInv, Grows, row' = row, confirmed' = confirmed, acks' = acks
    PROVE  Books'
BY SettledStays DEF IInv, Books, NothingIsForgotten, NoCommandIsSkipped, AckIsDurable

\* Calls that end, or are given up, leave the others truthful.
LEMMA CallsKept ==
    ASSUME IInv, Grows, call' \in {call, NoCall}, orphans' \subseteq Underway
    PROVE  CallsAreTruthful'
<1>1. Underway' \subseteq Underway
  BY DEF Underway
<1>2. \A c \in Underway : c \in Call
  BY DEF Underway, IInv, TypeOK
<1>3. \A c \in Underway : c.update \in Update
  BY <1>2 DEF Call
<1>4. SUFFICES ASSUME NEW c \in Underway, c.kind = "submit"
      PROVE  /\ c.update \in Command
             /\ \A u \in Update : u < c.update => Settled(u)'
             /\ c.answer # "none" => c.phase = "answered"
             /\ c.answer \in {"accepted", "settled"} => row'[c.update].status # "absent"
             /\ c.answer = "accepted" => row'[c.update].status = "pending"
  BY <1>1 DEF CallsAreTruthful
<1>5. /\ c.update \in Command
      /\ \A u \in Update : u < c.update => Settled(u)
      /\ c.answer # "none" => c.phase = "answered"
      /\ c.answer \in {"accepted", "settled"} => row[c.update].status # "absent"
      /\ c.answer = "accepted" => row[c.update].status = "pending"
  BY <1>4 DEF IInv, CallsAreTruthful
<1>6. row[c.update].status # "absent" => row'[c.update].status = row[c.update].status
  BY <1>3, <1>4 DEF Grows
<1>7. QED
  BY <1>5, <1>6, SettledStays

\* An intake thread that stands still stays in order.
LEMMA IntakeKept ==
    ASSUME IInv, Grows, intake' = intake
    PROVE  IntakeInOrder'
<1>1. intake.pc \in AtUpdate => Current \in Update
  BY CurrentIsFirst DEF IInv, IntakeInOrder
<1>2. Current' = Current
  BY DEF Current
<1>3. {"heard", "ack", "record"} \subseteq AtUpdate
  BY DEF AtUpdate
<1>4. QED
  BY <1>1, <1>2, <1>3, SettledStays DEF IInv, IntakeInOrder, Grows

\* The thread goes on with the same update.
LEMMA IntakeGoesOn ==
    ASSUME IInv, Grows, row' = row,
           intake'.batch = intake.batch, intake'.next = intake.next,
           intake'.pc \in AtUpdate => intake.batch # {} /\ Current \in Command,
           intake'.pc \in {"heard", "ack", "record"} => row[Current].status # "absent",
           intake'.pc \in {"ack", "record"} => row[Current].status = "pending"
    PROVE  IntakeInOrder'
<1>1. Current' = Current
  BY DEF Current
<1>2. QED
  BY <1>1, SettledStays DEF IInv, IntakeInOrder

\* The update at hand is settled and the next one is taken up.
LEMMA IntakeHandles ==
    ASSUME IInv, Grows, intake.batch # {}, HandledCurrent,
           \/ Current \notin Command
           \/ row'[Current].status # "absent"
           \/ Current \in ignored'
    PROVE  IntakeInOrder' /\ intake' \in Intake
<1>0. PICK u0 \in intake.batch :
        u0 = Current /\ u0 \in Update /\ \A v \in intake.batch : u0 <= v
  BY CurrentIsFirst DEF IInv
<1>1. /\ intake'.batch = intake.batch \ {u0}
      /\ intake'.next = u0 + 1 /\ intake'.pc = "handle" /\ intake'.tries = 0
  BY <1>0 DEF HandledCurrent
<1>2. intake.batch \subseteq Update /\ Update \subseteq Nat /\ MaxUpdates \in Nat
  BY ListenerAssumption DEF IInv, TypeOK, Intake, Update
<1>3. Settled(u0)'
  BY <1>0 DEF Settled
<1>4. \A u \in Update : u <= u0 => Settled(u)'
  <2>1. \A u \in Update : u < u0 => Settled(u)
    BY <1>0, <1>2 DEF IInv, IntakeInOrder
  <2>2. QED
    BY <1>0, <1>2, <1>3, <2>1, SettledStays
<1>5. ASSUME NEW u \in Update, NEW v \in Update,
             u < v, v \in intake.batch \ {u0}, u \notin intake.batch \ {u0}
      PROVE  Settled(u)'
  BY <1>3, <1>5, SettledStays DEF IInv, IntakeInOrder
<1>6. IntakeInOrder'
  <2>1. \A u \in Update : u < u0 + 1 => u <= u0
    BY <1>0, <1>2
  <2>2. QED
    BY <1>1, <1>4, <1>5, <2>1 DEF IntakeInOrder, AtUpdate
<1>7. intake' \in Intake
  <2>1. u0 + 1 \in 0 .. MaxUpdates + 1
    BY <1>0, <1>2 DEF Update
  <2>2. 0 \in 0 .. AckAttempts
    BY ListenerAssumption
  <2>3. QED
    BY <1>0, <1>2, <2>1, <2>2 DEF HandledCurrent, Intake
<1>8. QED
  BY <1>6, <1>7

\* The rest of the batch is left.
LEMMA IntakeLeaves ==
    ASSUME IInv, Grows, LeaveBatch
    PROVE  IntakeInOrder' /\ intake' \in Intake
<1>1. /\ intake'.batch = {} /\ intake'.next = intake.next /\ intake'.pc = "poll"
      /\ intake' \in Intake
  BY ListenerAssumption DEF LeaveBatch, IInv, TypeOK, Intake
<1>2. QED
  BY <1>1, SettledStays DEF IInv, IntakeInOrder, AtUpdate

\* A thread that starts knows nothing.
LEMMA IntakeStarts ==
    ASSUME intake' = IntakeStart
    PROVE  IntakeInOrder' /\ intake' \in Intake
BY ListenerAssumption DEF IntakeStart, IntakeInOrder, Intake, AtUpdate, Update

\* The whole invariant, but for the types and the two events, where only those
\* change.
LEMMA OnlyFlags ==
    ASSUME IInv, UNCHANGED <<confirmed, row, call, orphans, intake, ignored, acks>>
    PROVE  Books' /\ IntakeInOrder' /\ CallOfIntake' /\ CallsAreTruthful'
<1>1. Grows
  BY DEF Grows
<1>2. Books' /\ IntakeInOrder'
  BY <1>1, BooksKept, IntakeKept
<1>3. CallsAreTruthful'
  BY <1>1, CallsKept DEF Underway
<1>4. CallOfIntake'
  BY DEF IInv, CallOfIntake, Current
<1>5. QED
  BY <1>2, <1>3, <1>4

-----------------------------------------------------------------------------
(* The API.                                                                *)

\* What the handlers do with one call: the table grows, the call is answered as
\* the table says.
LEMMA ServeWorks ==
    ASSUME IInv, NEW c \in Underway, NEW d, Serve(c, d)
    PROVE  /\ d \in Call /\ d.kind = c.kind /\ d.update = c.update
           /\ c.phase # "answered"
           /\ row' \in [Update -> Row]
           /\ \A u \in Update : u # c.update \/ c.kind # "submit" =>
                 row'[u].status = row[u].status
           /\ \A u \in Update : row[u].status # "absent" =>
                 row'[u].status = row[u].status
           /\ c.kind = "submit" =>
                 /\ d.answer # "none" => d.phase = "answered"
                 /\ d.answer \in {"accepted", "settled"} =>
                       row'[c.update].status # "absent"
                 /\ d.answer = "accepted" => row'[c.update].status = "pending"
<1> DEFINE u0 == c.update
<1>0. /\ c \in Call /\ u0 \in Update /\ row \in [Update -> Row]
      /\ c.phase \in CallPhase /\ c.answer \in Answer /\ c.message \in 0 .. MaxAcks
  BY DEF Underway, IInv, TypeOK, Call
<1>1. c.kind = "submit" => (c.answer # "none" => c.phase = "answered")
  BY DEF IInv, CallsAreTruthful
<1>2. {"accepted", "settled", "disabled", "forbidden"} \subseteq Answer
  BY DEF Answer
<1>3. row[u0] \in Row
  BY <1>0
<1>4. /\ Duplicate(u0) \in {"accepted", "settled"}
      /\ row[u0].status # "absent" /\ Duplicate(u0) = "accepted" =>
            row[u0].status = "pending"
  BY <1>3 DEF Duplicate, Row
<1>5. /\ [c EXCEPT !.phase = "looked"] \in Call
      /\ [c EXCEPT !.phase = "looked"].kind = c.kind
      /\ [c EXCEPT !.phase = "looked"].update = c.update
      /\ [c EXCEPT !.phase = "looked"].answer = c.answer
      /\ [c EXCEPT !.phase = "looked"].phase = "looked"
  BY <1>0, CallTypes DEF Call
<1>6. \A a \in Answer :
        /\ Answered(c, a) \in Call
        /\ Answered(c, a).answer = a /\ Answered(c, a).phase = "answered"
        /\ Answered(c, a).kind = c.kind /\ Answered(c, a).update = c.update
  BY <1>0, CallTypes, AnsweredCall
<1>7. CASE Look(c, d)
  <2>1. row' = row /\ c.kind = "submit" /\ c.phase = "sent"
    BY <1>7 DEF Look
  <2>2. \/ d = Answered(c, "disabled") \/ d = Answered(c, "forbidden")
        \/ d = Answered(c, Duplicate(u0)) /\ row[u0].status # "absent"
        \/ d = [c EXCEPT !.phase = "looked"]
    BY <1>7 DEF Look
  <2>3. c.answer = "none"
    BY <1>1, <2>1
  <2>4. CASE d = [c EXCEPT !.phase = "looked"]
    BY <1>0, <1>5, <2>1, <2>3, <2>4
  <2>5. CASE d = Answered(c, "disabled") \/ d = Answered(c, "forbidden")
    BY <1>0, <1>2, <1>6, <2>1, <2>5
  <2>6. CASE d = Answered(c, Duplicate(u0)) /\ row[u0].status # "absent"
    <3> DEFINE a == Duplicate(u0)
    <3>1. a \in Answer /\ a \in {"accepted", "settled"}
      BY <1>2, <1>4
    <3>2. a = "accepted" => row[u0].status = "pending"
      BY <1>4, <2>6
    <3> HIDE DEF a
    <3>3. d = Answered(c, a) /\ row[u0].status # "absent"
      BY <2>6 DEF a
    <3>4. QED
      BY <1>0, <1>6, <2>1, <3>1, <3>2, <3>3
  <2>7. QED
    BY <2>2, <2>4, <2>5, <2>6
<1>8. CASE Insert(c, d) /\ row[u0].status # "absent"
  <2>1. row' = row /\ c.kind = "submit" /\ c.phase = "looked"
    BY <1>8 DEF Insert
  <2> DEFINE a == Duplicate(u0)
  <2>2. a \in Answer /\ a \in {"accepted", "settled"}
    BY <1>2, <1>4
  <2>3. a = "accepted" => row[u0].status = "pending"
    BY <1>4, <1>8
  <2>4. d = Answered(c, a)
    BY <1>8 DEF Insert
  <2> HIDE DEF a
  <2>5. QED
    BY <1>0, <1>6, <1>8, <2>1, <2>2, <2>3, <2>4
<1>9. CASE Insert(c, d) /\ row[u0].status = "absent"
  <2> DEFINE s == IF u0 \in Malformed THEN "rejected" ELSE "pending"
             a == IF u0 \in Malformed THEN "settled" ELSE "accepted"
  <2>1. /\ c.kind = "submit" /\ c.phase = "looked"
        /\ row' = [row EXCEPT ![u0].status = s] /\ d = Answered(c, a)
    BY <1>9 DEF Insert
  <2>2. /\ s \in {"pending", "rejected"} /\ a \in {"accepted", "settled"}
        /\ a = "accepted" => s = "pending"
    OBVIOUS
  <2> HIDE DEF s, a
  <2>3. row' \in [Update -> Row] /\ row'[u0].status = s
    BY <1>0, <2>1, <2>2 DEF Row
  <2>4. \A u \in Update : u # u0 => row'[u] = row[u]
    BY <1>0, <2>1
  <2>5. QED
    BY <1>0, <1>2, <1>6, <1>9, <2>1, <2>2, <2>3, <2>4
<1>10. CASE Record(c, d)
  <2>1. c.kind = "record" /\ c.phase # "answered"
    BY <1>10 DEF Record
  <2>2. d = Answered(c, "settled") \/ d = [c EXCEPT !.phase = "looked"]
    BY <1>10 DEF Record
  <2>3. row' = row \/ row' = [row EXCEPT ![u0].ack = c.message]
    BY <1>10 DEF Record
  <2>4. row' \in [Update -> Row] /\ \A u \in Update : row'[u].status = row[u].status
    BY <1>0, <2>3 DEF Row
  <2>5. d \in Call /\ d.kind = c.kind /\ d.update = c.update
    <3>1. CASE d = Answered(c, "settled")
      BY <1>2, <1>6, <3>1
    <3>2. CASE d = [c EXCEPT !.phase = "looked"]
      BY <1>5, <3>2
    <3>3. QED
      BY <2>2, <3>1, <3>2
  <2>6. QED
    BY <2>1, <2>4, <2>5
<1>11. QED
  BY <1>7, <1>8, <1>9, <1>10 DEF Serve

\* It keeps the order of the commands.
LEMMA ServeKeeps ==
    ASSUME IInv, NEW c \in Underway, NEW d, Serve(c, d),
           UNCHANGED <<confirmed, ignored, acks, intake>>,
           Underway' \subseteq Underway \union {d}
    PROVE  /\ d \in Call /\ d.kind = c.kind /\ d.update = c.update
           /\ c.phase # "answered"
           /\ row' \in [Update -> Row]
           /\ Books' /\ IntakeInOrder' /\ CallsAreTruthful'
<1>1. /\ d \in Call /\ d.kind = c.kind /\ d.update = c.update
      /\ c.phase # "answered" /\ row' \in [Update -> Row]
  BY ServeWorks
<1>2. Grows
  BY ServeWorks DEF Grows
<1>3. IntakeInOrder'
  BY <1>2, IntakeKept
<1>4. c.kind = "submit" => \A u \in Update : u < c.update => Settled(u)
  BY DEF IInv, CallsAreTruthful
<1>5. NoCommandIsSkipped'
  <2>1. ASSUME NEW u \in Update, NEW v \in Update, u < v, row'[v].status # "absent"
        PROVE  Settled(u)
    <3>1. CASE row[v].status # "absent"
      BY <2>1, <3>1 DEF IInv, NoCommandIsSkipped
    <3>2. CASE row[v].status = "absent"
      <4>1. v = c.update /\ c.kind = "submit"
        BY <2>1, <3>2, ServeWorks
      <4>2. QED
        BY <1>4, <2>1, <4>1
    <3>3. QED
      BY <3>1, <3>2
  <2>2. QED
    BY <1>2, <2>1, SettledStays DEF NoCommandIsSkipped
<1>6. NothingIsForgotten' /\ AckIsDurable'
  BY <1>2, SettledStays DEF IInv, NothingIsForgotten, AckIsDurable, Grows
<1>7. CallsAreTruthful'
  <2>1. ASSUME NEW e \in Underway, e.kind = "submit"
        PROVE  /\ e.update \in Command
               /\ \A u \in Update : u < e.update => Settled(u)'
               /\ e.answer # "none" => e.phase = "answered"
               /\ e.answer \in {"accepted", "settled"} =>
                     row'[e.update].status # "absent"
               /\ e.answer = "accepted" => row'[e.update].status = "pending"
    <3>1. /\ e.update \in Command
          /\ \A u \in Update : u < e.update => Settled(u)
          /\ e.answer # "none" => e.phase = "answered"
          /\ e.answer \in {"accepted", "settled"} => row[e.update].status # "absent"
          /\ e.answer = "accepted" => row[e.update].status = "pending"
      BY <2>1 DEF IInv, CallsAreTruthful
    <3>2. e.update \in Update
      BY <3>1, ListenerAssumption
    <3>3. row[e.update].status # "absent" => row'[e.update].status = row[e.update].status
      BY <1>2, <3>2 DEF Grows
    <3>4. QED
      BY <1>2, <3>1, <3>3, SettledStays
  <2>2. ASSUME d.kind = "submit"
        PROVE  /\ d.update \in Command
               /\ \A u \in Update : u < d.update => Settled(u)'
               /\ d.answer # "none" => d.phase = "answered"
               /\ d.answer \in {"accepted", "settled"} =>
                     row'[d.update].status # "absent"
               /\ d.answer = "accepted" => row'[d.update].status = "pending"
    <3>1. c.kind = "submit" /\ c.update = d.update
      BY <1>1, <2>2
    <3>2. c.update \in Command
      BY <3>1 DEF IInv, CallsAreTruthful
    <3>3. QED
      BY <1>2, <1>4, <3>1, <3>2, SettledStays, ServeWorks
  <2>3. QED
    BY <2>1, <2>2 DEF CallsAreTruthful
<1>8. QED
  BY <1>1, <1>3, <1>5, <1>6, <1>7 DEF Books

-----------------------------------------------------------------------------
(* One lemma per action, or per group of actions that write the same.      *)

\* The API serves the call the intake thread waits for.
LEMMA ServeCallStep == ASSUME IInv, ServeCall PROVE IInv'
<1>1. call \in Underway /\ call \in Call /\ Serve(call, call')
  BY DEF ServeCall, Underway, IInv, TypeOK
<1>2. UNCHANGED <<telegram, policy, orphans, intake, worker, threads, history, faults>>
  BY DEF ServeCall
<1>3. Underway' \subseteq Underway \union {call'}
  BY <1>2 DEF Underway
<1>4. /\ call' \in Call /\ call'.kind = call.kind /\ call'.update = call.update
      /\ call.phase # "answered" /\ row' \in [Update -> Row]
      /\ Books' /\ IntakeInOrder' /\ CallsAreTruthful'
  BY <1>1, <1>2, <1>3, ServeKeeps DEF telegram, history
<1>5. TypeOK'
  BY <1>2, <1>4 DEF IInv, TypeOK, telegram, threads, history
<1>6. CallOfIntake'
  <2>1. intake.pc # "heard"
    BY <1>1, <1>4 DEF IInv, CallOfIntake, CallsAreTruthful
  <2>2. Current' = Current /\ call # NoCall /\ call' # NoCall
    BY <1>1, <1>2, <1>4, NoCallIsNone DEF Current
  <2>3. QED
    BY <1>2, <1>4, <2>1, <2>2 DEF IInv, CallOfIntake
<1>7. NoLostWakeup' /\ StopWakesWorker'
  BY <1>2 DEF IInv, NoLostWakeup, StopWakesWorker, AThreadIsDone, threads, history
<1>8. QED
  BY <1>4, <1>5, <1>6, <1>7 DEF IInv, Books

\* The API serves a call whose client has given up.
LEMMA ServeOrphanStep == ASSUME IInv, ServeOrphan PROVE IInv'
<1>1. PICK c, d :
        /\ c \in orphans /\ Serve(c, d)
        /\ orphans' = (orphans \ {c}) \union (IF d.phase = "answered" THEN {} ELSE {d})
  BY DEF ServeOrphan
<1>2. UNCHANGED <<telegram, policy, call, intake, worker, threads, history, faults>>
  BY DEF ServeOrphan
<1>3. c \in Underway /\ Underway' \subseteq Underway \union {d}
  BY <1>1, <1>2 DEF Underway
<1>4. d \in Call /\ row' \in [Update -> Row]
      /\ Books' /\ IntakeInOrder' /\ CallsAreTruthful'
  BY <1>1, <1>2, <1>3, ServeKeeps DEF telegram, history
<1>5. TypeOK'
  BY <1>1, <1>2, <1>4 DEF IInv, TypeOK, telegram, threads, history
<1>6. CallOfIntake'
  BY <1>2 DEF IInv, CallOfIntake, Current
<1>7. NoLostWakeup' /\ StopWakesWorker'
  BY <1>2 DEF IInv, NoLostWakeup, StopWakesWorker, AThreadIsDone, threads, history
<1>8. QED
  BY <1>4, <1>5, <1>6, <1>7 DEF IInv, Books

\* A restart of the API, and a change of its settings.
LEMMA APIStep == ASSUME IInv, RestartAPI \/ Allow PROVE IInv'
<1>1. /\ UNCHANGED <<telegram, row, intake, worker, threads, history>>
      /\ CallsAreLost /\ policy' \in Policy /\ faults' \in 0 .. MaxFaults
  BY ListenerAssumption DEF RestartAPI, Allow, IInv, TypeOK, Policy
<1>2. Grows
  BY <1>1 DEF Grows, history
<1>3. call' \in {call, NoCall} /\ orphans' = {}
  BY <1>1 DEF CallsAreLost
<1>4. Books' /\ IntakeInOrder' /\ CallsAreTruthful'
  BY <1>1, <1>2, <1>3, BooksKept, IntakeKept, CallsKept DEF telegram, history
<1>5. TypeOK'
  BY <1>1, <1>3 DEF IInv, TypeOK, telegram, threads, history
<1>6. CallOfIntake'
  <2>1. intake.pc = "heard" => call' = call
    BY <1>1 DEF CallsAreLost, IInv, CallOfIntake, CallsAreTruthful, Underway
  <2>2. QED
    BY <1>1, <1>3, <2>1 DEF IInv, CallOfIntake, Current
<1>7. NoLostWakeup' /\ StopWakesWorker'
  BY <1>1 DEF IInv, NoLostWakeup, StopWakesWorker, AThreadIsDone, threads, history
<1>8. QED
  BY <1>4, <1>5, <1>6, <1>7 DEF IInv, Books

\* The worker, the main thread, a stop in two steps, and signals: nothing but the
\* threads' own state changes.
LEMMA ThreadStep ==
    ASSUME IInv,
           \/ WorkerStep \/ MainStops \/ Signal \/ Start
           \/ \E t \in Thread : FinishStop(t)
    PROVE  IInv'
<1>1. UNCHANGED <<telegram, api, call, intake, ignored, acks>>
  BY DEF WorkerStep, WorkerLoops, WorkerWakes, WorkerClears, CallProcessNext,
     WorkerStops, ProcessNextReturns, ProcessNextIsRefused, MainStops, Signal,
     Start, FinishStop, telegram, history, threads
<1>2. Books' /\ IntakeInOrder' /\ CallOfIntake' /\ CallsAreTruthful'
  BY <1>1, OnlyFlags DEF telegram, api
<1>3. /\ life' \in {"up", "failed", "stopped"} /\ main' \in {"watch", "join"}
      /\ worker' \in WorkerState
      /\ stop' \in BOOLEAN /\ wake' \in BOOLEAN /\ fatal' \in BOOLEAN
      /\ stopping' \subseteq Thread /\ fresh' \subseteq Command
      /\ faults' \in 0 .. MaxFaults
  <2>0. /\ life \in {"up", "failed", "stopped"} /\ main \in {"watch", "join"}
        /\ worker \in WorkerState
        /\ stop \in BOOLEAN /\ wake \in BOOLEAN /\ fatal \in BOOLEAN
        /\ stopping \subseteq Thread /\ fresh \subseteq Command
        /\ faults \in 0 .. MaxFaults /\ MaxFaults \in Nat
    BY ListenerAssumption DEF IInv, TypeOK
  <2>1. CASE WorkerStep
    <3>1. CASE ProcessNextIsRefused
      BY <2>0, <3>1 DEF ProcessNextIsRefused, BeginStop, WorkerState, Thread,
         history, threads
    <3>2. CASE ~ProcessNextIsRefused
      BY <2>0, <2>1, <3>2 DEF WorkerStep, WorkerLoops, WorkerWakes, WorkerClears,
         CallProcessNext, WorkerStops, ProcessNextReturns, WorkerState, history,
         threads
    <3>3. QED
      BY <3>1, <3>2
  <2>2. CASE MainStops \/ Signal
    <3>1. fatal' \in BOOLEAN
      BY <2>0, <2>2, ZenonT(30) DEF MainStops, Signal
    <3>2. /\ UNCHANGED <<life, worker, wake, fresh>>
          /\ main' \in {main, "join"} /\ stop' = TRUE
          /\ stopping' = stopping \union {"main"}
          /\ faults' = faults \/ (faults < MaxFaults /\ faults' = faults + 1)
      BY <2>2 DEF MainStops, Signal, BeginStop, history
    <3>3. QED
      BY <2>0, <3>1, <3>2 DEF Thread
  <2>3. CASE Start
    BY <2>3 DEF Start, IInv, TypeOK, history
  <2>4. CASE \E t \in Thread : FinishStop(t)
    BY <2>4 DEF FinishStop, IInv, TypeOK, history
  <2>5. QED
    BY <2>1, <2>2, <2>3, <2>4
<1>4. TypeOK'
  BY <1>1, <1>3 DEF IInv, TypeOK, telegram, api
<1>5. NoLostWakeup' /\ StopWakesWorker'
  <2>1. NoLostWakeup /\ StopWakesWorker /\ stop \in BOOLEAN
    BY DEF IInv, TypeOK
  <2>2. CASE WorkerStep
    BY <1>1, <2>1, <2>2 DEF WorkerStep, WorkerLoops, WorkerWakes, WorkerClears,
       CallProcessNext, WorkerStops, ProcessNextReturns, ProcessNextIsRefused,
       BeginStop, NoLostWakeup, StopWakesWorker, AThreadIsDone, history, threads
  <2>3. CASE MainStops \/ Signal
    BY <1>1, <2>1, <2>3 DEF MainStops, Signal, BeginStop, NoLostWakeup,
       StopWakesWorker, AThreadIsDone, history
  <2>4. CASE Start
    BY <1>1, <2>1, <2>4 DEF Start, NoLostWakeup, StopWakesWorker, AThreadIsDone,
       history
  <2>5. CASE \E t \in Thread : FinishStop(t)
    BY <1>1, <2>1, <2>5 DEF FinishStop, NoLostWakeup, StopWakesWorker,
       AThreadIsDone, history
  <2>6. QED
    BY <2>2, <2>3, <2>4, <2>5
<1>6. QED
  BY <1>2, <1>4, <1>5 DEF IInv, Books

-----------------------------------------------------------------------------
(* The intake thread.                                                      *)

\* The events keep their meaning in a step that touches neither them nor the worker.
LEMMA FlagsKept ==
    ASSUME IInv, UNCHANGED <<worker, stop, stopping, wake, fresh>>,
           intake.pc \notin {"heard", "done"}
    PROVE  NoLostWakeup' /\ StopWakesWorker'
BY DEF IInv, NoLostWakeup, StopWakesWorker, AThreadIsDone

\* No call is waited for.
LEMMA NothingAsked ==
    ASSUME \/ call' = NoCall /\ intake'.pc # "heard"
           \/ intake'.pc \notin {"submit", "heard", "record"}
    PROVE  CallOfIntake'
BY DEF CallOfIntake

\* A call that is given up ends, or becomes an orphan.
LEMMA GivenUp ==
    ASSUME IInv, GiveUpCall
    PROVE  call' = NoCall /\ orphans' \subseteq Underway /\ orphans' \subseteq Call
<1>1. call # NoCall => call \in Call /\ call \in Underway
  BY DEF IInv, TypeOK, Underway
<1>2. orphans \subseteq Underway /\ orphans \subseteq Call
  BY DEF IInv, TypeOK, Underway
<1>3. QED
  BY <1>1, <1>2 DEF GiveUpCall

\* The types of what the intake thread leaves alone.
LEMMA IntakeTypes ==
    ASSUME IInv, UNCHANGED <<arrived, row, policy, life, main, worker, fatal>>,
           confirmed' \in 0 .. MaxUpdates,
           call' \in Call \union {NoCall}, orphans' \subseteq Call, intake' \in Intake,
           stop' \in BOOLEAN, wake' \in BOOLEAN, stopping' \subseteq Thread,
           fresh' \subseteq Command, ignored' \subseteq Command,
           acks' \in [Update -> 0 .. MaxAcks], faults' \in 0 .. MaxFaults
    PROVE  TypeOK'
BY DEF IInv, TypeOK

\* The thread asks Telegram and may receive a batch.
LEMMA PollStep == ASSUME IInv, Poll \/ PollInVain PROVE IInv'
<1>1. /\ UNCHANGED <<arrived, api, call, worker, threads, history, faults>>
      /\ intake.pc = "poll" /\ confirmed' = Confirmed
  BY DEF Poll, PollInVain
<1>2. Grows
  BY <1>1 DEF Grows, api, history
<1>3. /\ MaxUpdates \in Nat /\ confirmed \in 0 .. MaxUpdates
      /\ arrived \in 0 .. MaxUpdates /\ intake \in Intake
      /\ intake.next \in 0 .. MaxUpdates + 1
  BY ListenerAssumption DEF IInv, TypeOK, Intake
<1>4. \A u \in Update : u <= Confirmed => Settled(u)
  BY <1>3 DEF Confirmed, Update, IInv, NothingIsForgotten, IntakeInOrder
<1>5. Confirmed \in 0 .. MaxUpdates
  BY <1>3 DEF Confirmed
<1>6. Books'
  BY <1>1, <1>2, <1>4, SettledStays DEF Books, IInv, NothingIsForgotten,
     NoCommandIsSkipped, AckIsDurable, api, history
<1>7. CallsAreTruthful'
  BY <1>1, <1>2, CallsKept DEF Underway, api
<1>8. IntakeInOrder' /\ intake' \in Intake
  <2>1. CASE Poll
    <3> DEFINE batch == {u \in Confirmed + 1 .. arrived : u <= Confirmed + PollLimit}
    <3>1. intake' = [intake EXCEPT !.pc = "handle", !.batch = batch]
      BY <2>1 DEF Poll
    <3>2. batch \subseteq Update
      BY <1>3, <1>5 DEF Update
    <3>3. ASSUME NEW u \in Update, NEW v \in Update, u < v, v \in batch, u \notin batch
          PROVE  u <= Confirmed
      BY <1>3, <1>5, <3>3, ListenerAssumption DEF Update
    <3> HIDE DEF batch
    <3>4. /\ intake'.batch = batch /\ intake'.next = intake.next
          /\ intake'.pc = "handle" /\ intake' \in Intake
      BY <1>3, <3>1, <3>2 DEF Intake
    <3>5. \A u \in Update : u < intake.next => Settled(u)
      BY DEF IInv, IntakeInOrder
    <3>6. QED
      BY <1>2, <1>4, <3>3, <3>4, <3>5, SettledStays DEF IntakeInOrder, AtUpdate
  <2>2. CASE PollInVain
    BY <1>2, <1>3, <2>2, IntakeKept DEF PollInVain
  <2>3. QED
    BY <2>1, <2>2
<1>9. intake'.pc \in {"poll", "handle"}
  BY <1>1, <1>3 DEF Poll, PollInVain, Intake
<1>10. TypeOK'
  BY <1>1, <1>5, <1>8 DEF IInv, TypeOK, api, threads, history
<1>11. QED
  BY <1>1, <1>6, <1>7, <1>8, <1>9, <1>10, NothingAsked, FlagsKept
     DEF IInv, Books, threads, history

\* The thread ends, or one of the threads does.
LEMMA EndStep ==
    ASSUME IInv, PollIsRefused \/ IntakeEnds \/ BatchEnds \/ ThreadDies
    PROVE  IInv'
<1>1. /\ UNCHANGED <<telegram, api, call, life, main, wake, history>>
      /\ \/ intake' = intake
         \/ \E pc \in {"poll", "done"} : intake' = [intake EXCEPT !.pc = pc]
  BY DEF PollIsRefused, IntakeEnds, BatchEnds, ThreadDies, threads
<1>2. Grows
  BY <1>1 DEF Grows, api, history
<1>3. /\ intake \in Intake /\ intake' \in Intake
      /\ intake'.batch = intake.batch /\ intake'.next = intake.next
      /\ intake'.pc \in {intake.pc, "poll", "done"}
  BY <1>1 DEF IInv, TypeOK, Intake
<1>4. intake'.pc = intake.pc => intake' = intake
  BY <1>1, <1>3 DEF Intake
<1>5. IntakeInOrder'
  BY <1>1, <1>2, <1>3, <1>4, IntakeKept, IntakeGoesOn DEF AtUpdate, api
<1>6. Books' /\ CallsAreTruthful'
  BY <1>1, <1>2, BooksKept, CallsKept DEF Underway, telegram, api, history
<1>7. CallOfIntake'
  <2>1. CASE intake' = intake
    BY <1>1, <2>1 DEF IInv, CallOfIntake, Current
  <2>2. CASE intake'.pc \in {"poll", "done"}
    BY <2>2, NothingAsked
  <2>3. QED
    BY <1>3, <1>4, <2>1, <2>2
<1>8. /\ fatal' \in BOOLEAN /\ stop' \in BOOLEAN /\ stopping' \subseteq Thread
      /\ faults' \in 0 .. MaxFaults /\ worker' \in WorkerState
  <2>0. /\ fatal \in BOOLEAN /\ stop \in BOOLEAN /\ stopping \subseteq Thread
        /\ faults \in 0 .. MaxFaults /\ MaxFaults \in Nat /\ worker \in WorkerState
    BY ListenerAssumption DEF IInv, TypeOK
  <2>1. CASE PollIsRefused
    BY <2>0, <2>1 DEF PollIsRefused, BeginStop, Thread
  <2>2. CASE ThreadDies
    <3>1. /\ faults < MaxFaults /\ faults' = faults + 1
          /\ UNCHANGED threads /\ worker' \in {worker, "done"}
      BY <2>2 DEF ThreadDies
    <3>2. QED
      BY <2>0, <3>1 DEF threads, WorkerState
  <2>3. CASE IntakeEnds \/ BatchEnds
    BY <2>0, <2>3 DEF IntakeEnds, BatchEnds, threads
  <2>4. QED
    BY <2>1, <2>2, <2>3
<1>9. TypeOK'
  BY <1>1, <1>3, <1>8 DEF IInv, TypeOK, telegram, api, history
<1>10. NoLostWakeup' /\ StopWakesWorker'
  <2>1. intake \in Intake
    BY <1>3
  <2>2. CASE ThreadDies
    BY <2>1, <2>2 DEF IInv, NoLostWakeup, StopWakesWorker, AThreadIsDone, ThreadDies,
       threads, history, Intake
  <2>3. CASE PollIsRefused
    BY <2>1, <2>3 DEF IInv, NoLostWakeup, StopWakesWorker, AThreadIsDone, PollIsRefused,
       BeginStop, history, Intake
  <2>4. CASE IntakeEnds \/ BatchEnds
    BY <2>4, FlagsKept DEF IntakeEnds, BatchEnds, threads, history
  <2>5. QED
    BY <2>2, <2>3, <2>4
<1>11. QED
  BY <1>5, <1>6, <1>7, <1>9, <1>10 DEF IInv, Books

\* The update at hand needs nothing, or is done with.
LEMMA PassOverStep == ASSUME IInv, PassOver PROVE IInv'
<1>1. /\ UNCHANGED <<telegram, api, call, worker, threads, history, faults>>
      /\ intake.pc = "handle" /\ intake.batch # {} /\ HandledCurrent
      /\ Current \notin Command
  BY DEF PassOver
<1>2. Grows
  BY <1>1 DEF Grows, api, history
<1>3. IntakeInOrder' /\ intake' \in Intake
  BY <1>1, <1>2, IntakeHandles
<1>4. Books' /\ CallsAreTruthful'
  BY <1>1, <1>2, BooksKept, CallsKept DEF Underway, telegram, api, history
<1>5. TypeOK'
  BY <1>1, <1>3 DEF IInv, TypeOK, telegram, api, threads, history
<1>6. CallOfIntake'
  BY <1>1, NothingAsked DEF HandledCurrent
<1>7. QED
  BY <1>1, <1>3, <1>4, <1>5, <1>6, FlagsKept DEF IInv, Books, threads, history

\* handle_update submits the command at hand.
LEMMA SubmitStep == ASSUME IInv, Submit PROVE IInv'
<1>1. /\ UNCHANGED <<telegram, api, worker, threads, history, faults>>
      /\ intake.pc = "handle" /\ intake.batch # {} /\ Current \in Command
      /\ call' = Submission(Current) /\ intake' = [intake EXCEPT !.pc = "submit"]
  BY DEF Submit
<1>2. Grows
  BY <1>1 DEF Grows, api, history
<1>3. /\ intake \in Intake /\ intake' \in Intake /\ intake'.pc = "submit"
      /\ intake'.batch = intake.batch /\ intake'.next = intake.next
  BY <1>1 DEF IInv, TypeOK, Intake
<1>4. IntakeInOrder'
  BY <1>1, <1>2, <1>3, IntakeGoesOn DEF api
<1>5. Books'
  BY <1>1, <1>2, BooksKept DEF telegram, api, history
<1>6. Current \in Update /\ \A u \in Update : u < Current => Settled(u)
  <2>1. /\ Current \in intake.batch /\ Current \in Update
        /\ \A v \in intake.batch : Current <= v
    BY <1>1, CurrentIsFirst DEF IInv
  <2>2. Update \subseteq Nat
    BY ListenerAssumption DEF Update
  <2>3. QED
    BY <2>1, <2>2 DEF IInv, IntakeInOrder
<1>7. /\ call' \in Call /\ call'.kind = "submit" /\ call'.update = Current
      /\ call'.answer = "none"
  BY <1>1, <1>6, CallTypes DEF Submission
<1>8. CallsAreTruthful'
  <2>1. Underway' \subseteq Underway \union {call'}
    BY <1>1 DEF Underway, api
  <2>2. \A c \in Underway : c.kind = "submit" =>
          /\ c.update \in Command
          /\ \A u \in Update : u < c.update => Settled(u)
          /\ c.answer # "none" => c.phase = "answered"
          /\ c.answer \in {"accepted", "settled"} => row[c.update].status # "absent"
          /\ c.answer = "accepted" => row[c.update].status = "pending"
    BY DEF IInv, CallsAreTruthful
  <2>3. row' = row
    BY <1>1 DEF api
  <2>4. PICK u0 \in Update : u0 = Current
    BY <1>6
  <2>5. QED
    BY <1>1, <1>2, <1>6, <1>7, <2>1, <2>2, <2>3, <2>4, SettledStays
       DEF CallsAreTruthful
<1>9. CallOfIntake'
  BY <1>1, <1>3, <1>7 DEF CallOfIntake, Current
<1>10. TypeOK'
  BY <1>1, <1>3, <1>7 DEF IInv, TypeOK, telegram, api, threads, history
<1>11. QED
  BY <1>1, <1>4, <1>5, <1>8, <1>9, <1>10, FlagsKept DEF IInv, Books, threads, history

\* A 409 drops the command.
LEMMA HearDisabledStep == ASSUME IInv, HearDisabled PROVE IInv'
<1>1. /\ UNCHANGED <<telegram, api, worker, threads, fresh, acks, faults>>
      /\ intake.pc = "submit" /\ HandledCurrent /\ call' = NoCall
      /\ ignored' = ignored \union {Current}
  BY DEF HearDisabled
<1>2. Grows
  BY <1>1 DEF Grows, api
<1>3. intake.batch # {} /\ Current \in Command
  BY <1>1 DEF IInv, IntakeInOrder, AtUpdate
<1>4. IntakeInOrder' /\ intake' \in Intake
  BY <1>1, <1>2, <1>3, IntakeHandles
<1>5. Books' /\ CallsAreTruthful'
  BY <1>1, <1>2, BooksKept, CallsKept DEF Underway, telegram, api
<1>6. TypeOK'
  BY <1>1, <1>3, <1>4 DEF IInv, TypeOK, telegram, api, threads
<1>7. CallOfIntake'
  BY <1>1, NothingAsked DEF HandledCurrent
<1>8. QED
  BY <1>1, <1>4, <1>5, <1>6, <1>7, FlagsKept DEF IInv, Books, threads

\* The call is refused or fails: the update is left to the next poll.
LEMMA LeaveStep == ASSUME IInv, HearForbidden \/ SubmitFails PROVE IInv'
<1>1. /\ UNCHANGED <<telegram, row, policy, worker, life, main, wake, history, faults>>
      /\ intake.pc = "submit" /\ LeaveBatch
      /\ call' = NoCall /\ orphans' \subseteq Underway /\ orphans' \subseteq Call
  BY GivenUp DEF HearForbidden, SubmitFails, threads, api, Underway, IInv, TypeOK
<1>2. \/ UNCHANGED <<stop, stopping, fatal>>
      \/ BeginStop("intake") /\ fatal' = TRUE
  BY DEF HearForbidden, SubmitFails, threads
<1>3. Grows
  BY <1>1 DEF Grows, history
<1>4. IntakeInOrder' /\ intake' \in Intake
  BY <1>1, <1>3, IntakeLeaves
<1>5. Books' /\ CallsAreTruthful'
  BY <1>1, <1>3, BooksKept, CallsKept DEF telegram, history
<1>6. stop' \in BOOLEAN /\ fatal' \in BOOLEAN /\ stopping' \subseteq Thread
  BY <1>2 DEF IInv, TypeOK, BeginStop, Thread
<1>7. TypeOK'
  BY <1>1, <1>4, <1>6 DEF IInv, TypeOK, telegram, history
<1>8. CallOfIntake'
  BY <1>1, NothingAsked DEF LeaveBatch
<1>9. NoLostWakeup' /\ StopWakesWorker'
  BY <1>1, <1>2 DEF IInv, NoLostWakeup, StopWakesWorker, AThreadIsDone, BeginStop, history
<1>10. QED
  BY <1>4, <1>5, <1>7, <1>8, <1>9 DEF IInv, Books

\* handle_update hears that the command is in the table.
LEMMA HearAcceptedStep == ASSUME IInv, HearAccepted PROVE IInv'
<1>1. /\ UNCHANGED <<telegram, api, call, worker, threads, ignored, acks, faults>>
      /\ intake.pc = "submit" /\ intake' = [intake EXCEPT !.pc = "heard"]
      /\ call # NoCall /\ call.answer \in {"accepted", "settled"}
      /\ fresh' = fresh \union {Current}
  BY DEF HearAccepted, Answers
<1>2. Grows
  BY <1>1 DEF Grows, api
<1>3. /\ intake \in Intake /\ intake' \in Intake /\ intake'.pc = "heard"
      /\ intake'.batch = intake.batch /\ intake'.next = intake.next
  BY <1>1 DEF IInv, TypeOK, Intake
<1>4. intake.batch # {} /\ Current \in Command
  BY <1>1 DEF IInv, IntakeInOrder, AtUpdate
<1>5. /\ call \in Underway /\ call.kind = "submit" /\ call.update = Current
  BY <1>1 DEF IInv, CallOfIntake, Underway
<1>6. row[Current].status # "absent"
  BY <1>1, <1>5 DEF IInv, CallsAreTruthful
<1>7. IntakeInOrder'
  BY <1>1, <1>2, <1>3, <1>4, <1>6, IntakeGoesOn DEF api
<1>8. Books' /\ CallsAreTruthful'
  BY <1>1, <1>2, BooksKept, CallsKept DEF Underway, telegram, api
<1>9. CallOfIntake'
  BY <1>1, <1>3, <1>5 DEF CallOfIntake, Current
<1>10. TypeOK'
  BY <1>1, <1>3, <1>4 DEF IInv, TypeOK, telegram, api, threads
<1>11. NoLostWakeup' /\ StopWakesWorker'
  BY <1>1, <1>3 DEF IInv, NoLostWakeup, StopWakesWorker, threads
<1>12. QED
  BY <1>7, <1>8, <1>9, <1>10, <1>11 DEF IInv, Books

\* The worker is woken; an accepted command is acknowledged next.
LEMMA WakeWorkerStep == ASSUME IInv, WakeWorker PROVE IInv'
<1>1. /\ UNCHANGED <<telegram, api, worker, life, main, stop, stopping, fatal,
                     history, faults>>
      /\ intake.pc = "heard" /\ wake' = TRUE /\ call' = NoCall
      /\ \/ call.answer = "accepted" /\ intake' = [intake EXCEPT !.pc = "ack"]
         \/ HandledCurrent
  BY DEF WakeWorker
<1>2. Grows
  BY <1>1 DEF Grows, api, history
<1>3. /\ intake.batch # {} /\ Current \in Command
      /\ row[Current].status # "absent"
      /\ call.answer = "accepted" => row[Current].status = "pending"
  BY <1>1 DEF IInv, IntakeInOrder, CallOfIntake, CallsAreTruthful, Underway, AtUpdate
<1>4. IntakeInOrder' /\ intake' \in Intake /\ intake'.pc \in {"ack", "handle"}
  <2>1. CASE HandledCurrent
    BY <1>1, <1>2, <1>3, <2>1, IntakeHandles DEF HandledCurrent, api
  <2>2. CASE call.answer = "accepted" /\ intake' = [intake EXCEPT !.pc = "ack"]
    <3>1. /\ intake' \in Intake /\ intake'.pc = "ack"
          /\ intake'.batch = intake.batch /\ intake'.next = intake.next
      BY <2>2 DEF IInv, TypeOK, Intake
    <3>2. QED
      BY <1>1, <1>2, <1>3, <2>2, <3>1, IntakeGoesOn DEF api
  <2>3. QED
    BY <1>1, <2>1, <2>2
<1>5. Books' /\ CallsAreTruthful'
  BY <1>1, <1>2, BooksKept, CallsKept DEF Underway, telegram, api, history
<1>6. TypeOK'
  BY <1>1, <1>4 DEF IInv, TypeOK, telegram, api, history
<1>7. CallOfIntake'
  BY <1>4, NothingAsked
<1>8. NoLostWakeup' /\ StopWakesWorker'
  BY <1>1 DEF NoLostWakeup, StopWakesWorker
<1>9. QED
  BY <1>4, <1>5, <1>6, <1>7, <1>8 DEF IInv, Books

\* A call to record an acknowledgment says nothing of the table.
LEMMA RecordingKept ==
    ASSUME IInv, Grows, orphans' = orphans, NEW u \in Update, NEW n \in 0 .. MaxAcks,
           call' = Recording(u, n)
    PROVE  /\ CallsAreTruthful'
           /\ call' \in Call /\ call'.kind = "record"
<1>1. call' \in Call /\ call'.kind = "record"
  BY CallTypes DEF Recording
<1>2. /\ \A c \in Underway' : c.kind = "submit" => c \in Underway
      /\ \A c \in Underway : c \in Call
  BY <1>1 DEF Underway, IInv, TypeOK
<1>3. ASSUME NEW c \in Underway, c.kind = "submit"
      PROVE  /\ c.update \in Command
             /\ \A v \in Update : v < c.update => Settled(v)'
             /\ c.answer # "none" => c.phase = "answered"
             /\ c.answer \in {"accepted", "settled"} => row'[c.update].status # "absent"
             /\ c.answer = "accepted" => row'[c.update].status = "pending"
  <2>1. /\ c.update \in Command
        /\ \A v \in Update : v < c.update => Settled(v)
        /\ c.answer # "none" => c.phase = "answered"
        /\ c.answer \in {"accepted", "settled"} => row[c.update].status # "absent"
        /\ c.answer = "accepted" => row[c.update].status = "pending"
    BY <1>3 DEF IInv, CallsAreTruthful
  <2>2. c.update \in Update
    BY <2>1, ListenerAssumption
  <2>3. row[c.update].status # "absent" => row'[c.update].status = row[c.update].status
    BY <2>2 DEF Grows
  <2>4. QED
    BY <2>1, <2>3, SettledStays
<1>4. QED
  BY <1>1, <1>2, <1>3 DEF CallsAreTruthful

\* _acknowledge sends, once more or for the last time.
LEMMA SendAckStep == ASSUME IInv, SendAck PROVE IInv'
<1> DEFINE arrives == [acks EXCEPT ![Current] = IF @ < MaxAcks THEN @ + 1 ELSE @]
<1>1. /\ UNCHANGED <<telegram, api, worker, threads, fresh, ignored, faults>>
      /\ intake.pc = "ack" /\ acks' \in {acks, arrives}
      /\ \/ /\ call' = Recording(Current, arrives[Current])
            /\ intake' = [intake EXCEPT !.pc = "record", !.tries = 0]
         \/ /\ intake.tries + 1 < AckAttempts /\ call' = call
            /\ intake' = [intake EXCEPT !.tries = @ + 1]
         \/ HandledCurrent /\ call' = call
  BY DEF SendAck
<1>2. Grows
  BY <1>1 DEF Grows, api
<1>3. /\ intake.batch # {} /\ Current \in Command /\ Current \in Update
      /\ row[Current].status = "pending"
  BY <1>1, CurrentIsFirst DEF IInv, IntakeInOrder, AtUpdate
<1>4. /\ acks \in [Update -> 0 .. MaxAcks] /\ MaxAcks \in Nat
      /\ AckAttempts \in Nat \ {0} /\ intake \in Intake /\ row' = row
  BY <1>1, ListenerAssumption DEF IInv, TypeOK, api
<1>5. /\ arrives \in [Update -> 0 .. MaxAcks]
      /\ \A u \in Update : u # Current => arrives[u] = acks[u]
  BY <1>3, <1>4
<1>6. arrives[Current] \in 0 .. MaxAcks
  BY <1>3, <1>5
<1> HIDE DEF arrives
<1>7. Books'
  <2>1. AckIsDurable'
    BY <1>1, <1>3, <1>4, <1>5 DEF IInv, AckIsDurable
  <2>2. QED
    BY <1>1, <1>2, <1>4, <2>1, SettledStays
       DEF Books, IInv, NothingIsForgotten, NoCommandIsSkipped, telegram
<1>8. /\ IntakeInOrder' /\ intake' \in Intake /\ intake'.pc \in {"ack", "record", "handle"}
      /\ intake'.pc = "record" => call' = Recording(Current, arrives[Current])
      /\ intake'.pc # "record" => call' = call
  <2>1. CASE HandledCurrent /\ call' = call
    BY <1>1, <1>2, <1>3, <1>4, <2>1, IntakeHandles DEF HandledCurrent
  <2>2. CASE /\ call' = Recording(Current, arrives[Current])
             /\ intake' = [intake EXCEPT !.pc = "record", !.tries = 0]
    <3>1. 0 \in 0 .. AckAttempts
      BY <1>4
    <3>2. /\ intake' \in Intake /\ intake'.pc = "record"
          /\ intake'.batch = intake.batch /\ intake'.next = intake.next
      BY <1>4, <2>2, <3>1 DEF Intake
    <3>3. QED
      BY <1>2, <1>3, <1>4, <2>2, <3>2, IntakeGoesOn
  <2>3. CASE /\ intake.tries + 1 < AckAttempts /\ call' = call
             /\ intake' = [intake EXCEPT !.tries = @ + 1]
    <3>1. intake.tries + 1 \in 0 .. AckAttempts
      BY <1>4, <2>3 DEF Intake
    <3>2. /\ intake' \in Intake /\ intake'.pc = "ack"
          /\ intake'.batch = intake.batch /\ intake'.next = intake.next
      BY <1>1, <1>4, <2>3, <3>1 DEF Intake
    <3>3. QED
      BY <1>2, <1>3, <1>4, <2>3, <3>2, IntakeGoesOn
  <2>4. QED
    BY <1>1, <2>1, <2>2, <2>3
<1>9. CallsAreTruthful' /\ CallOfIntake' /\ call' \in Call \union {NoCall}
  <2>1. orphans' = orphans
    BY <1>1 DEF api
  <2>2. CASE intake'.pc = "record"
    BY <1>2, <1>3, <1>6, <1>8, <2>1, <2>2, RecordingKept DEF CallOfIntake
  <2>3. CASE intake'.pc # "record"
    BY <1>2, <1>8, <2>1, <2>3, CallsKept, NothingAsked DEF Underway, IInv, TypeOK
  <2>4. QED
    BY <2>2, <2>3
<1>10. acks' \in [Update -> 0 .. MaxAcks]
  BY <1>1, <1>4, <1>5
<1>11. TypeOK'
  BY <1>1, <1>8, <1>9, <1>10 DEF IInv, TypeOK, telegram, api, threads
<1>12. QED
  BY <1>1, <1>7, <1>8, <1>9, <1>11, FlagsKept DEF IInv, Books, threads

\* The acknowledgment is recorded.
LEMMA AckRecordedStep == ASSUME IInv, AckRecorded PROVE IInv'
<1>1. /\ UNCHANGED <<telegram, api, worker, threads, history, faults>>
      /\ intake.pc = "record" /\ HandledCurrent /\ call' = NoCall
  BY DEF AckRecorded
<1>2. Grows
  BY <1>1 DEF Grows, api, history
<1>3. intake.batch # {} /\ row'[Current].status # "absent"
  BY <1>1 DEF IInv, IntakeInOrder, AtUpdate, api
<1>4. IntakeInOrder' /\ intake' \in Intake
  BY <1>1, <1>2, <1>3, IntakeHandles
<1>5. Books' /\ CallsAreTruthful'
  BY <1>1, <1>2, BooksKept, CallsKept DEF Underway, telegram, api, history
<1>6. TypeOK'
  BY <1>1, <1>4 DEF IInv, TypeOK, telegram, api, threads, history
<1>7. CallOfIntake'
  BY <1>1, NothingAsked DEF HandledCurrent
<1>8. QED
  BY <1>1, <1>4, <1>5, <1>6, <1>7, FlagsKept DEF IInv, Books, threads, history

\* A call to record fails.
LEMMA RecordFailsStep == ASSUME IInv, RecordFails PROVE IInv'
<1>1. /\ UNCHANGED <<telegram, row, policy, worker, threads, history, faults>>
      /\ intake.pc = "record" /\ GiveUpCall
      /\ \/ HandledCurrent
         \/ /\ intake.tries + 1 < AckAttempts
            /\ intake' = [intake EXCEPT !.tries = @ + 1]
  BY DEF RecordFails
<1>2. Grows
  BY <1>1 DEF Grows, history
<1>3. /\ call' = NoCall /\ orphans' \subseteq Underway /\ orphans' \subseteq Call
  BY <1>1, GivenUp
<1>4. /\ intake.batch # {} /\ Current \in Command /\ row[Current].status = "pending"
  BY <1>1 DEF IInv, IntakeInOrder, AtUpdate
<1>5. IntakeInOrder' /\ intake' \in Intake /\ intake'.pc \in {"record", "handle"}
  <2>1. CASE HandledCurrent
    BY <1>1, <1>2, <1>4, <2>1, IntakeHandles DEF HandledCurrent
  <2>2. CASE /\ intake.tries + 1 < AckAttempts
             /\ intake' = [intake EXCEPT !.tries = @ + 1]
    <3>1. intake.tries + 1 \in 0 .. AckAttempts
      BY <2>2, ListenerAssumption DEF IInv, TypeOK, Intake
    <3>2. /\ intake' \in Intake /\ intake'.pc = "record"
          /\ intake'.batch = intake.batch /\ intake'.next = intake.next
      BY <1>1, <2>2, <3>1 DEF IInv, TypeOK, Intake
    <3>3. QED
      BY <1>1, <1>2, <1>4, <3>2, IntakeGoesOn
  <2>3. QED
    BY <1>1, <2>1, <2>2
<1>6. Books' /\ CallsAreTruthful'
  BY <1>1, <1>2, <1>3, BooksKept, CallsKept DEF telegram, history
<1>7. TypeOK'
  BY <1>1, <1>3, <1>5 DEF IInv, TypeOK, telegram, threads, history
<1>8. CallOfIntake'
  BY <1>3, <1>5, NothingAsked
<1>9. QED
  BY <1>1, <1>5, <1>6, <1>7, <1>8, FlagsKept DEF IInv, Books, threads, history

\* A call to record is made again.
LEMMA RecordAgainStep == ASSUME IInv, RecordAgain PROVE IInv'
<1>1. /\ UNCHANGED <<telegram, api, intake, worker, threads, history, faults>>
      /\ intake.pc = "record" /\ call' = Recording(Current, acks[Current])
  BY DEF RecordAgain
<1>2. Grows
  BY <1>1 DEF Grows, api, history
<1>3. Current \in Update /\ acks[Current] \in 0 .. MaxAcks
  BY <1>1, CurrentIsFirst DEF IInv, TypeOK, IntakeInOrder, AtUpdate
<1>4. CallsAreTruthful' /\ call' \in Call /\ call'.kind = "record"
  BY <1>1, <1>2, <1>3, RecordingKept DEF api
<1>5. Books' /\ IntakeInOrder'
  BY <1>1, <1>2, BooksKept, IntakeKept DEF telegram, api, history
<1>6. TypeOK'
  BY <1>1, <1>4 DEF IInv, TypeOK, telegram, api, threads, history
<1>7. CallOfIntake'
  BY <1>1, <1>4 DEF CallOfIntake
<1>8. QED
  BY <1>1, <1>4, <1>5, <1>6, <1>7, FlagsKept DEF IInv, Books, threads, history

\* All steps of the intake thread.
LEMMA IntakeStepKeeps == ASSUME IInv, IntakeStep PROVE IInv'
BY PollStep, EndStep, PassOverStep, SubmitStep, HearDisabledStep, LeaveStep,
   HearAcceptedStep, WakeWorkerStep, SendAckStep, AckRecordedStep, RecordFailsStep,
   RecordAgainStep DEF IntakeStep

-----------------------------------------------------------------------------
(* The process ends.  A new message.                                       *)

\* The process ends, by itself or killed.
LEMMA GoneStep == ASSUME IInv, Exit \/ Crash PROVE IInv'
<1>1. /\ UNCHANGED <<telegram, row, policy, ignored, acks>> /\ Gone
      /\ life' \in {"failed", "stopped"} /\ faults' \in 0 .. MaxFaults
  BY ListenerAssumption DEF Exit, Crash, api, IInv, TypeOK
<1>2. Grows
  BY <1>1 DEF Grows
<1>3. /\ call' \in {call, NoCall} /\ orphans' \subseteq Underway
      /\ orphans' \subseteq Call
  BY GivenUp DEF Exit, Crash, api, Underway, IInv, TypeOK
<1>4. IntakeInOrder' /\ intake' \in Intake
  BY <1>1, IntakeStarts DEF Gone
<1>5. Books' /\ CallsAreTruthful'
  BY <1>1, <1>2, <1>3, BooksKept, CallsKept DEF telegram
<1>6. TypeOK'
  BY <1>1, <1>3, <1>4 DEF IInv, TypeOK, telegram, Gone, WorkerState
<1>7. CallOfIntake'
  BY <1>1, NothingAsked DEF Gone, IntakeStart
<1>8. NoLostWakeup' /\ StopWakesWorker'
  BY <1>1 DEF Gone, NoLostWakeup, StopWakesWorker
<1>9. QED
  BY <1>4, <1>5, <1>6, <1>7, <1>8 DEF IInv, Books

\* A message reaches the bot.
LEMMA ArriveStep == ASSUME IInv, Arrive PROVE IInv'
<1>1. /\ UNCHANGED <<confirmed, api, call, intake, worker, threads, history, faults>>
      /\ arrived' \in 0 .. MaxUpdates
  BY ListenerAssumption DEF Arrive, IInv, TypeOK
<1>2. Books' /\ IntakeInOrder' /\ CallOfIntake' /\ CallsAreTruthful'
  BY <1>1, OnlyFlags DEF api, history
<1>3. TypeOK'
  BY <1>1 DEF IInv, TypeOK, api, threads, history
<1>4. NoLostWakeup' /\ StopWakesWorker'
  BY <1>1 DEF IInv, NoLostWakeup, StopWakesWorker, AThreadIsDone, threads, history
<1>5. QED
  BY <1>2, <1>3, <1>4 DEF IInv, Books

-----------------------------------------------------------------------------
(* The invariant.                                                          *)

\* The first start.
LEMMA InitIInv == Init => IInv
<1> SUFFICES ASSUME Init PROVE IInv
  OBVIOUS
<1>1. \A u \in Update : row[u] = Absent /\ acks[u] = 0
  BY DEF Init
<1>2. TypeOK
  <2>1. Absent \in Row /\ 0 \in 0 .. MaxAcks /\ 0 \in 0 .. AckAttempts
    BY ListenerAssumption DEF Absent, Row
  <2>2. IntakeStart \in Intake
    BY <2>1, ListenerAssumption DEF IntakeStart, Intake
  <2>3. /\ row \in [Update -> Row] /\ acks \in [Update -> 0 .. MaxAcks]
        /\ intake \in Intake /\ worker \in WorkerState /\ policy \in Policy
        /\ call = NoCall
    BY <2>1, <2>2 DEF Init, WorkerState, Policy
  <2>4. /\ arrived \in 0 .. MaxUpdates /\ confirmed \in 0 .. MaxUpdates
        /\ faults \in 0 .. MaxFaults
    BY ListenerAssumption DEF Init
  <2>5. QED
    BY <2>3, <2>4 DEF Init, TypeOK
<1>3. NothingIsForgotten /\ NoCommandIsSkipped /\ AckIsDurable
  BY <1>1, ListenerAssumption DEF Init, NothingIsForgotten, NoCommandIsSkipped,
     AckIsDurable, Absent, Update
<1>4. NoLostWakeup /\ StopWakesWorker
  BY DEF Init, NoLostWakeup, StopWakesWorker
<1>5. IntakeInOrder /\ CallOfIntake
  BY ListenerAssumption DEF Init, IntakeStart, IntakeInOrder, CallOfIntake, AtUpdate,
     Update
<1>6. CallsAreTruthful
  BY DEF Init, CallsAreTruthful, Underway
<1>7. QED
  BY <1>2, <1>3, <1>4, <1>5, <1>6 DEF IInv

\* Nothing happens.
LEMMA StutterStep == ASSUME IInv, UNCHANGED vars PROVE IInv'
<1>1. Books' /\ IntakeInOrder' /\ CallOfIntake' /\ CallsAreTruthful'
  BY OnlyFlags DEF vars, telegram, api, history
<1>2. TypeOK' /\ NoLostWakeup' /\ StopWakesWorker'
  BY DEF IInv, TypeOK, NoLostWakeup, StopWakesWorker, AThreadIsDone, vars, telegram,
     api, threads, history
<1>3. QED
  BY <1>1, <1>2 DEF IInv, Books

\* Intake, calls and table agree in every reachable state, whatever was lost on
\* the way.
THEOREM InductiveInvariant == Spec => []IInv
<1>1. Init => IInv
  BY InitIInv
<1>2. IInv /\ [Next]_vars => IInv'
  <2> SUFFICES ASSUME IInv, [Next]_vars PROVE IInv'
    OBVIOUS
  <2>1. CASE UNCHANGED vars
    BY <2>1, StutterStep
  <2>2. CASE ServeCall \/ ServeOrphan \/ RestartAPI \/ Allow
    BY <2>2, ServeCallStep, ServeOrphanStep, APIStep
  <2>3. CASE IntakeStep
    BY <2>3, IntakeStepKeeps
  <2>4. CASE \/ WorkerStep \/ MainStops \/ Signal \/ Start
             \/ \E t \in Thread : FinishStop(t)
    BY <2>4, ThreadStep
  <2>5. CASE ThreadDies
    BY <2>5, EndStep
  <2>6. CASE Exit \/ Crash
    BY <2>6, GoneStep
  <2>7. CASE Arrive
    BY <2>7, ArriveStep
  <2>8. QED
    BY <2>1, <2>2, <2>3, <2>4, <2>5, <2>6, <2>7 DEF Next, MainStep
<1>3. QED
  BY <1>1, <1>2, PTL DEF Spec

\* Every state is one the listener, the API and Telegram can be in.
THEOREM TypeCorrectness == Spec => []TypeOK
<1>1. IInv => TypeOK
  BY DEF IInv
<1>2. QED
  BY <1>1, InductiveInvariant, PTL

\* getUpdates confirms only commands that handle_update has brought into the
\* table, or that the API has refused as disabled.
THEOREM AtLeastOnce == Spec => []NothingIsForgotten
<1>1. IInv => NothingIsForgotten
  BY DEF IInv
<1>2. QED
  BY <1>1, InductiveInvariant, PTL

\* process_update_batch never passes over a command that was not accepted, also
\* when a call it gave up is served late.
THEOREM InOrder == Spec => []NoCommandIsSkipped
<1>1. IInv => NoCommandIsSkipped
  BY DEF IInv
<1>2. QED
  BY <1>1, InductiveInvariant, PTL

\* _acknowledge speaks only of commands whose row is committed.
THEOREM Durable == Spec => []AckIsDurable
<1>1. IInv => AckIsDurable
  BY DEF IInv
<1>2. QED
  BY <1>1, InductiveInvariant, PTL

\* The wake-up by an acceptance is not lost on the worker, whenever it clears the
\* flag (_intake_loop and _worker_loop share one event).
THEOREM Wakeups == Spec => []NoLostWakeup
<1>1. IInv => NoLostWakeup
  BY DEF IInv
<1>2. QED
  BY <1>1, InductiveInvariant, PTL

\* Nor is the one by stop(), which sets two events one after the other.
THEOREM StopReachesWorker == Spec => []StopWakesWorker
<1>1. IInv => StopWakesWorker
  BY DEF IInv
<1>2. QED
  BY <1>1, InductiveInvariant, PTL
=============================================================================
