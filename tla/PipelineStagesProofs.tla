------------------------- MODULE PipelineStagesProofs -------------------------
(***************************************************************************)
(* What the pipeline tells of a video, proved for any videos, any number   *)
(* of attempts and of faults.                                              *)
(*                                                                         *)
(* A row keeps its stages in order (RowOK); the session may know of a      *)
(* message the database does not only for the video at hand and only until *)
(* the commit (Unsaid); where the run is says how far that video has come  *)
(* (AtHand).  Each step but a commit leaves what the committed rows say.   *)
(***************************************************************************)
EXTENDS PipelineStages, FiniteSetTheorems, TLAPS

-----------------------------------------------------------------------------
(* Rows.                                                                   *)

\* Rows with attempts counted without a bound.
Loose == [at : [Stage -> Status], tries : [Automatic -> Nat],
          text : SUBSET Content, delayed : BOOLEAN,
          residue : {"none", "prepared", "accepted"},
          held : {"no", "blocked", "awaiting", "eligible"}, alerted : BOOLEAN]

\* The user has heard the same from both.
Quiet(a, b) ==
    /\ \A s \in Message : (a.at[s] = "completed") <=> (b.at[s] = "completed")
    /\ a.alerted = b.alerted

\* The message that was given up has its notice.
Reported(r) ==
    r.at["telegram"] \in {"failed", "skipped"}
        => r.at["fallback"] \in {"pending", "completed", "failed"}

\* A summary rests on its transcript, a message on its summary; what was told as
\* failed stays closed; only a Short is skipped without a failure.
RowOK(v, r) ==
    /\ r \in Loose
    /\ r.at["transcript"] # "completed"
          => r.at["summary"] \in {"absent", "pending", "skipped"} /\ r.held = "no"
    /\ r.at["summary"] = "completed" => r.held = "no"
    /\ r.at["telegram"] = "completed" => r.at["summary"] = "completed"
    /\ r.at["fallback"] = "completed" /\ ~r.alerted
          => r.at["telegram"] \in {"failed", "skipped"}
    /\ v \notin Short =>
          /\ r.at["summary"] = "skipped" => r.at["transcript"] = "failed"
          /\ r.at["fallback"] # "skipped"

\* The names of the stages and of their statuses.
LEMMA Names ==
    /\ {"transcript", "summary"} \subseteq Content
    /\ {"transcript", "summary", "telegram"} \subseteq Automatic
    /\ {"transcript", "summary", "telegram", "fallback"} \subseteq Stage
    /\ {"telegram", "fallback"} \subseteq Message /\ Message \subseteq Stage
    /\ {"absent", "pending", "completed", "failed", "skipped"} \subseteq Status
  BY DEF Content, Automatic, Stage, Message, Status

\* A new status changes no other.
LEMMA EndedIs ==
    ASSUME NEW r \in Loose, NEW s \in Stage, NEW end \in Status
    PROVE  /\ Ended(r, s, end) \in Loose
           /\ \A t \in Stage : Ended(r, s, end).at[t] = IF t = s THEN end ELSE r.at[t]
           /\ Ended(r, s, end).alerted = r.alerted /\ Ended(r, s, end).held = r.held
           /\ Ended(r, s, end).text = r.text /\ Ended(r, s, end).residue = r.residue
<1> DEFINE at == [r.at EXCEPT ![s] = end]
<1>1. at \in [Stage -> Status] /\ \A t \in Stage : at[t] = IF t = s THEN end ELSE r.at[t]
  BY DEF Loose
<1>2. Ended(r, s, end) = [r EXCEPT !.at = at]
  BY DEF Ended
<1> HIDE DEF at
<1>3. [r EXCEPT !.at = at] \in Loose
  BY <1>1, ZenonT(60) DEF Loose
<1>4. Ended(r, s, end).at = at
  BY <1>2 DEF Loose
<1>5. /\ Ended(r, s, end).alerted = r.alerted /\ Ended(r, s, end).held = r.held
      /\ Ended(r, s, end).text = r.text /\ Ended(r, s, end).residue = r.residue
  BY <1>2 DEF Loose
<1> QED BY <1>1, <1>2, <1>3, <1>4, <1>5

\* The same of a copy of the row that differs elsewhere.
LEMMA EndedCopy ==
    ASSUME NEW f \in Loose, NEW r, f.at = r.at, f.alerted = r.alerted,
           NEW s \in {"transcript", "summary"}, NEW end \in {"pending", "failed", "completed"}
    PROVE  /\ Ended(f, s, end) \in Loose
           /\ \A t \in Stage : Ended(f, s, end).at[t] = IF t = s THEN end ELSE r.at[t]
           /\ Ended(f, s, end).alerted = r.alerted /\ Ended(f, s, end).held = f.held
<1>1. s \in Stage /\ end \in Status
  BY Names
<1> QED BY <1>1, EndedIs

\* An attempt is counted.
LEMMA AttemptedIs ==
    ASSUME NEW r \in Loose, NEW s \in Automatic
    PROVE  /\ Attempted(r, s) \in Loose
           /\ Attempted(r, s).at = r.at
           /\ Attempted(r, s).alerted = r.alerted /\ Attempted(r, s).held = r.held
           /\ Attempted(r, s).text = r.text /\ Attempted(r, s).residue = r.residue
<1> DEFINE tries == [r.tries EXCEPT ![s] = @ + 1]
<1>1. tries \in [Automatic -> Nat]
  BY DEF Loose
<1>2. Attempted(r, s) = [r EXCEPT !.tries = tries]
  BY DEF Attempted
<1> HIDE DEF tries
<1>3. [r EXCEPT !.tries = tries] \in Loose
  BY <1>1, ZenonT(60) DEF Loose
<1>4. /\ Attempted(r, s).at = r.at
      /\ Attempted(r, s).alerted = r.alerted /\ Attempted(r, s).held = r.held
      /\ Attempted(r, s).text = r.text /\ Attempted(r, s).residue = r.residue
  BY <1>2 DEF Loose
<1> QED BY <1>2, <1>3, <1>4

\* The same statuses, quarantine and notice make the same row.
LEMMA SameRow ==
    ASSUME NEW v, NEW r, RowOK(v, r), NEW q \in Loose,
           q.at = r.at, q.held = r.held, q.alerted = r.alerted
    PROVE  RowOK(v, q) /\ Quiet(r, q) /\ Reported(q) = Reported(r)
  BY DEF RowOK, Quiet, Reported

\* Stages that were missing are created.
LEMMA WithStagesIs ==
    ASSUME NEW r \in Loose, NEW stages
    PROVE  /\ WithStages(r, stages) \in Loose
           /\ \A s \in Stage : WithStages(r, stages).at[s] =
                 IF s \in stages /\ r.at[s] = "absent" THEN "pending" ELSE r.at[s]
           /\ WithStages(r, stages).alerted = r.alerted
           /\ WithStages(r, stages).held = r.held
<1> DEFINE at == [s \in Stage |-> IF s \in stages /\ r.at[s] = "absent" THEN "pending" ELSE r.at[s]]
<1>1. at \in [Stage -> Status]
  BY DEF Loose, Status
<1>2. WithStages(r, stages) = [r EXCEPT !.at = at]
  BY DEF WithStages
<1>3. \A s \in Stage : at[s] = IF s \in stages /\ r.at[s] = "absent" THEN "pending" ELSE r.at[s]
  OBVIOUS
<1> HIDE DEF at
<1>4. [r EXCEPT !.at = at] \in Loose
  BY <1>1, ZenonT(60) DEF Loose
<1>5. /\ WithStages(r, stages).at = at
      /\ WithStages(r, stages).alerted = r.alerted /\ WithStages(r, stages).held = r.held
  BY <1>2 DEF Loose
<1> QED BY <1>2, <1>3, <1>4, <1>5

\* ... which keeps the row and what the user has heard.
LEMMA WithStagesKeeps ==
    ASSUME NEW v, NEW r, RowOK(v, r), NEW stages
    PROVE  /\ RowOK(v, WithStages(r, stages)) /\ Quiet(r, WithStages(r, stages))
           /\ Reported(r) => Reported(WithStages(r, stages))
<1> DEFINE q == WithStages(r, stages)
<1>1. r \in Loose
  BY DEF RowOK
<1>2. /\ q \in Loose /\ q.alerted = r.alerted /\ q.held = r.held
      /\ \A s \in Stage : q.at[s] = IF s \in stages /\ r.at[s] = "absent" THEN "pending" ELSE r.at[s]
  BY <1>1, WithStagesIs
<1> HIDE DEF q
<1>3. RowOK(v, q) /\ Quiet(r, q) /\ (Reported(r) => Reported(q))
  BY <1>2 DEF RowOK, Quiet, Reported, Stage, Automatic, Content, Message
<1> QED BY <1>3 DEF q

\* The rows of a disabled Short are closed.
LEMMA SkippedShortKeeps ==
    ASSUME NEW v \in Short, NEW r, RowOK(v, r)
    PROVE  RowOK(v, SkippedShort(r)) /\ Quiet(r, SkippedShort(r))
<1> DEFINE at == [s \in Stage |-> IF Open(r, s) THEN "skipped" ELSE r.at[s]]
           q == [r EXCEPT !.at = at]
<1>1. at \in [Stage -> Status]
  BY DEF RowOK, Loose, Status
<1>2. SkippedShort(r) = q
  BY DEF SkippedShort
<1>3. \A s \in Stage : at[s] = IF r.at[s] = "pending" THEN "skipped" ELSE r.at[s]
  BY DEF Open
<1> HIDE DEF at
<1>4. q \in Loose
  BY <1>1, ZenonT(60) DEF RowOK, Loose
<1>5. q.at = at /\ q.alerted = r.alerted /\ q.held = r.held
  BY DEF RowOK, Loose
<1> HIDE DEF q
<1>6. RowOK(v, q) /\ Quiet(r, q)
  BY <1>3, <1>4, <1>5 DEF RowOK, Quiet, Stage, Automatic, Content, Message
<1> QED BY <1>2, <1>6

-----------------------------------------------------------------------------
(* The summary of a row.                                                   *)

\* A summary may end as it will, over its transcript and before its message.
LEMMA SummaryEnds ==
    ASSUME NEW v, NEW r, RowOK(v, r), NEW q \in Loose,
           NEW end \in {"completed", "failed", "pending"},
           r.at["transcript"] = "completed", r.at["telegram"] # "completed",
           \A t \in Stage : q.at[t] = IF t = "summary" THEN end ELSE r.at[t],
           q.alerted = r.alerted, end = "completed" => q.held = "no"
    PROVE  RowOK(v, q) /\ Quiet(r, q) /\ (Reported(r) => Reported(q))
  BY DEF RowOK, Quiet, Reported, Stage, Automatic, Content, Message

\* Another marker.
LEMMA ResidueIs ==
    ASSUME NEW r \in Loose, NEW x \in {"none", "prepared", "accepted"}
    PROVE  /\ [r EXCEPT !.residue = x] \in Loose
           /\ [r EXCEPT !.residue = x].at = r.at
           /\ [r EXCEPT !.residue = x].held = r.held
           /\ [r EXCEPT !.residue = x].alerted = r.alerted
<1>1. [r EXCEPT !.residue = x] \in Loose
  BY ZenonT(60) DEF Loose
<1> QED BY <1>1 DEF Loose

\* The summary arrives.
LEMMA SummarisedIs ==
    ASSUME NEW r \in Loose
    PROVE  /\ Summarised(r) \in Loose
           /\ \A t \in Stage : Summarised(r).at[t] = IF t = "summary" THEN "completed" ELSE r.at[t]
           /\ Summarised(r).alerted = r.alerted /\ Summarised(r).held = r.held
<1> DEFINE e == Ended(r, "summary", "completed")
           text == e.text \union {"summary"}
<1>1. /\ e \in Loose /\ e.alerted = r.alerted /\ e.held = r.held
      /\ \A t \in Stage : e.at[t] = IF t = "summary" THEN "completed" ELSE r.at[t]
  BY EndedIs, Names
<1>2. text \in SUBSET Content
  BY <1>1 DEF Loose, Content
<1>3. Summarised(r) = [e EXCEPT !.text = text, !.residue = "none"]
  BY DEF Summarised
<1> HIDE DEF e, text
<1>4. [e EXCEPT !.text = text, !.residue = "none"] \in Loose
  BY <1>1, <1>2, ZenonT(60) DEF Loose
<1>5. /\ Summarised(r).at = e.at
      /\ Summarised(r).alerted = e.alerted /\ Summarised(r).held = e.held
  BY <1>1, <1>3 DEF Loose
<1> QED BY <1>1, <1>3, <1>4, <1>5

\* The failure is retried later, or final.
LEMMA PostponedIs ==
    ASSUME NEW r \in Loose
    PROVE  /\ Postponed(r) \in Loose
           /\ \E end \in {"pending", "failed"} :
                 \A t \in Stage : Postponed(r).at[t] = IF t = "summary" THEN end ELSE r.at[t]
           /\ Postponed(r).alerted = r.alerted /\ Postponed(r).held = r.held
<1> DEFINE f == Ended(r, "summary", "failed")
           e == Ended(r, "summary", "pending")
           p == [e EXCEPT !.delayed = TRUE]
<1>1. /\ f \in Loose /\ f.alerted = r.alerted /\ f.held = r.held
      /\ \A t \in Stage : f.at[t] = IF t = "summary" THEN "failed" ELSE r.at[t]
  BY EndedIs, Names
<1>2. /\ e \in Loose /\ e.alerted = r.alerted /\ e.held = r.held
      /\ \A t \in Stage : e.at[t] = IF t = "summary" THEN "pending" ELSE r.at[t]
  BY EndedIs, Names
<1>3. Postponed(r) = f \/ Postponed(r) = p
  BY DEF Postponed
<1> HIDE DEF f, e
<1>4. p \in Loose
  BY <1>2, ZenonT(60) DEF Loose
<1>5. p.at = e.at /\ p.alerted = e.alerted /\ p.held = e.held
  BY <1>2 DEF Loose
<1> HIDE DEF p
<1>6. CASE Postponed(r) = f
  BY <1>1, <1>6
<1>7. CASE Postponed(r) = p
  BY <1>2, <1>4, <1>5, <1>7
<1> QED BY <1>3, <1>6, <1>7

\* The outcome is unknown: the summary is held.
LEMMA QuarantinedIs ==
    ASSUME NEW r \in Loose
    PROVE  /\ Quarantined(r) \in Loose
           /\ \A t \in Stage : Quarantined(r).at[t] = IF t = "summary" THEN "pending" ELSE r.at[t]
           /\ Quarantined(r).alerted = r.alerted
<1> DEFINE e == Ended(r, "summary", "pending")
           held == IF r.residue = "accepted" THEN "awaiting" ELSE "blocked"
<1>1. /\ e \in Loose /\ e.alerted = r.alerted
      /\ \A t \in Stage : e.at[t] = IF t = "summary" THEN "pending" ELSE r.at[t]
  BY EndedIs, Names
<1>2. held \in {"no", "blocked", "awaiting", "eligible"}
  OBVIOUS
<1>3. Quarantined(r) = [e EXCEPT !.residue = "none", !.held = held]
  BY DEF Quarantined
<1> HIDE DEF e, held
<1>4. [e EXCEPT !.residue = "none", !.held = held] \in Loose
  BY <1>1, <1>2, ZenonT(60) DEF Loose
<1>5. Quarantined(r).at = e.at /\ Quarantined(r).alerted = e.alerted
  BY <1>1, <1>3 DEF Loose
<1> QED BY <1>1, <1>3, <1>4, <1>5

\* An attempt may be the last.
LEMMA RetriedIs ==
    ASSUME NEW r \in Loose, NEW s \in Automatic
    PROVE  \E end \in {"pending", "failed"} : Retried(r, s) = Ended(r, s, end)
  BY DEF Retried

\* The answer to the GET of a released task.
LEMMA AfterGetKeeps ==
    ASSUME NEW v, NEW r, RowOK(v, r), r.held = "eligible", NEW answer \in GetAnswer
    PROVE  /\ RowOK(v, AfterGet(r, answer)) /\ Quiet(r, AfterGet(r, answer))
           /\ Reported(r) => Reported(AfterGet(r, answer))
<1>1. r \in Loose /\ r.at["transcript"] = "completed" /\ r.at["telegram"] # "completed"
  BY DEF RowOK
<1> DEFINE free == [r EXCEPT !.held = "no"]
<1>2. /\ free \in Loose
      /\ free.at = r.at /\ free.alerted = r.alerted /\ free.held = "no"
  <2>1. free \in Loose
    BY <1>1, ZenonT(60) DEF Loose
  <2> QED BY <1>1, <2>1 DEF Loose
<1> HIDE DEF free
<1>3. CASE answer = "undecided"
  <2>1. AfterGet(r, answer) = r
    BY <1>3 DEF AfterGet
  <2> QED BY <2>1, <1>1, SameRow
<1>4. CASE answer = "useless"
  <2>1. AfterGet(r, answer) = Ended(free, "summary", "failed")
    BY <1>4 DEF AfterGet, free
  <2>2. /\ Ended(free, "summary", "failed") \in Loose
        /\ \A t \in Stage : Ended(free, "summary", "failed").at[t] = IF t = "summary" THEN "failed" ELSE r.at[t]
        /\ Ended(free, "summary", "failed").alerted = r.alerted
    BY <1>2, EndedCopy
  <2> QED BY <1>1, <2>1, <2>2, SummaryEnds
<1>5. CASE answer = "part"
  <2> DEFINE e == Ended(free, "summary", "pending")
             n == IF e.tries["summary"] > 0 THEN e.tries["summary"] - 1 ELSE 0
             tries == [e.tries EXCEPT !["summary"] = n]
             q == [e EXCEPT !.delayed = FALSE, !.tries = tries]
  <2>1. /\ e \in Loose /\ e.alerted = r.alerted
        /\ \A t \in Stage : e.at[t] = IF t = "summary" THEN "pending" ELSE r.at[t]
    BY <1>2, EndedCopy
  <2>2. AfterGet(r, answer) = q
    BY <1>5 DEF AfterGet, free
  <2> HIDE DEF e
  <2>3. tries \in [Automatic -> Nat]
    <3>1. e.tries \in [Automatic -> Nat] /\ "summary" \in Automatic
      BY <2>1 DEF Loose, Automatic, Content
    <3>2. n \in Nat
      BY <3>1
    <3> QED BY <3>1, <3>2
  <2> HIDE DEF tries
  <2>4. q \in Loose
    BY <2>1, <2>3, ZenonT(60) DEF Loose
  <2>5. q.at = e.at /\ q.alerted = e.alerted
    BY <2>1 DEF Loose
  <2> HIDE DEF q
  <2> QED BY <1>1, <2>1, <2>2, <2>4, <2>5, SummaryEnds
<1>6. CASE answer = "summary"
  <2> DEFINE e == Ended(free, "summary", "completed")
             text == e.text \union {"summary"}
             q == [e EXCEPT !.text = text]
  <2>1. /\ e \in Loose /\ e.alerted = r.alerted /\ e.held = "no"
        /\ \A t \in Stage : e.at[t] = IF t = "summary" THEN "completed" ELSE r.at[t]
    BY <1>2, EndedCopy
  <2>2. AfterGet(r, answer) = q
    BY <1>6 DEF AfterGet, free
  <2>3. text \in SUBSET Content
    BY <2>1 DEF Loose, Content
  <2> HIDE DEF e, text
  <2>4. q \in Loose
    BY <2>1, <2>3, ZenonT(60) DEF Loose
  <2>5. q.at = e.at /\ q.alerted = e.alerted /\ q.held = e.held
    BY <2>1 DEF Loose
  <2> HIDE DEF q
  <2> QED BY <1>1, <2>1, <2>2, <2>4, <2>5, SummaryEnds
<1> QED BY <1>3, <1>4, <1>5, <1>6 DEF GetAnswer

-----------------------------------------------------------------------------
(* The transcript of a row.                                                *)

\* A transcript that is tried leaves the rest of the row.
LEMMA AfterTranscriptIs ==
    ASSUME NEW v, NEW r, RowOK(v, r), NEW q \in AfterTranscript(r)
    PROVE  /\ RowOK(v, q) /\ Quiet(r, q) /\ (Reported(r) => Reported(q))
           /\ r.at["transcript"] # "absent" => q.at["transcript"] # "absent"
           /\ \A t \in Stage : t # "transcript" => q.at[t] = r.at[t]
<1>1. r \in Loose
  BY DEF RowOK
<1>2. ASSUME Open(r, "transcript"), NEW end \in {"completed", "pending", "failed"}, q \in Loose,
             \A t \in Stage : q.at[t] = IF t = "transcript" THEN end ELSE r.at[t],
             q.held = r.held, q.alerted = r.alerted
      PROVE  /\ RowOK(v, q) /\ Quiet(r, q) /\ (Reported(r) => Reported(q))
             /\ r.at["transcript"] # "absent" => q.at["transcript"] # "absent"
             /\ \A t \in Stage : t # "transcript" => q.at[t] = r.at[t]
  BY <1>2 DEF RowOK, Quiet, Reported, Stage, Automatic, Content, Message, Open, Status
<1>3. CASE ~Open(r, "transcript")
  <2>1. q = r
    BY <1>3 DEF AfterTranscript
  <2> QED BY <1>1, <2>1, SameRow DEF Loose, Stage, Automatic, Content
<1>4. CASE Open(r, "transcript") /\ "transcript" \in r.text
  <2>1. q = Ended(r, "transcript", "completed")
    BY <1>4 DEF AfterTranscript
  <2>2. /\ q \in Loose /\ q.held = r.held /\ q.alerted = r.alerted
        /\ \A t \in Stage : q.at[t] = IF t = "transcript" THEN "completed" ELSE r.at[t]
    BY <1>1, <2>1, EndedCopy
  <2> QED BY <1>2, <1>4, <2>2
<1>5. CASE Open(r, "transcript") /\ "transcript" \notin r.text
  <2> DEFINE a == Attempted(r, "transcript")
             e == Ended(a, "transcript", "completed")
             p == [e EXCEPT !.text = e.text \union {"transcript"}]
  <2>1. a \in Loose /\ a.at = r.at /\ a.held = r.held /\ a.alerted = r.alerted
    BY <1>1, AttemptedIs DEF Automatic, Content
  <2> HIDE DEF a
  <2>2. \A end \in {"pending", "failed", "completed"} :
           /\ Ended(a, "transcript", end) \in Loose
           /\ \A t \in Stage : Ended(a, "transcript", end).at[t] = IF t = "transcript" THEN end ELSE r.at[t]
           /\ Ended(a, "transcript", end).held = r.held
           /\ Ended(a, "transcript", end).alerted = r.alerted
    BY <2>1, EndedCopy
  <2>3. q \in {Retried(a, "transcript"), Ended(a, "transcript", "failed"), p}
    BY <1>5 DEF AfterTranscript, TranscriptAttempts, a
  <2>4. CASE \E end \in {"pending", "failed"} : q = Ended(a, "transcript", end)
    <3>1. PICK end \in {"pending", "failed"} : q = Ended(a, "transcript", end)
      BY <2>4
    <3> QED BY <1>2, <1>5, <2>2, <3>1
  <2>5. CASE q = p
    <3>1. /\ e \in Loose /\ e.held = r.held /\ e.alerted = r.alerted
          /\ \A t \in Stage : e.at[t] = IF t = "transcript" THEN "completed" ELSE r.at[t]
      BY <2>2
    <3> DEFINE text == e.text \union {"transcript"}
    <3>2. text \in SUBSET Content
      BY <3>1 DEF Loose, Content
    <3>3. p = [e EXCEPT !.text = text]
      OBVIOUS
    <3> HIDE DEF e, text, p
    <3>4. [e EXCEPT !.text = text] \in Loose
      BY <3>1, <3>2, ZenonT(60) DEF Loose
    <3>5. q \in Loose /\ q.at = e.at /\ q.held = e.held /\ q.alerted = e.alerted
      BY <2>5, <3>1, <3>3, <3>4 DEF Loose
    <3> QED BY <1>2, <1>5, <3>1, <3>5
  <2>6. Retried(a, "transcript") \in {Ended(a, "transcript", "pending"), Ended(a, "transcript", "failed")}
    BY <2>1, RetriedIs DEF Automatic, Content
  <2> QED BY <2>3, <2>4, <2>5, <2>6
<1> QED BY <1>3, <1>4, <1>5

-----------------------------------------------------------------------------
(* The inductive invariant.                                                *)

Busy == {"content", "transcript", "summary", "inference", "telegram", "notice", "commit"}

\* A run that is busy has a video at hand; a manual command sends nothing.
RunShape ==
    /\ run = [kind |-> run.kind, pc |-> run.pc, queue |-> run.queue]
    /\ run.pc \in Phase
    /\ run.pc = "idle" => run = NoRun
    /\ run.pc \in Busy => run.queue # <<>>
    /\ run.pc = "content" => run.kind = "manual"
    /\ run.kind = "manual" => run.pc \notin {"reconcile", "select", "next", "telegram", "notice"}

\* Where the run is says how far the video at hand has come.
AtHand ==
    Current \in Video =>
        /\ run.pc \in {"transcript", "summary", "inference", "telegram", "notice"}
           /\ run.kind # "manual"
              => \A s \in Automatic : mem[Current].at[s] # "absent"
        /\ run.pc \in {"summary", "inference"} => mem[Current].at["transcript"] = "completed"
        /\ run.pc = "inference" => Open(mem[Current], "summary") /\ mem[Current].held = "no"
        /\ run.pc \in {"telegram", "notice"} /\ mem[Current].at["transcript"] = "failed"
              => mem[Current].at["summary"] = "skipped"
        /\ run.pc = "notice" /\ Open(mem[Current], "telegram")
              => mem[Current].at["summary"] \notin {"failed", "skipped"}

RowsOK ==
    /\ db \in [Video -> Loose] /\ mem \in [Video -> Loose]
    /\ \A v \in Video : RowOK(v, db[v]) /\ RowOK(v, mem[v])

\* What the user hears of one row after another.
Follows(a, b) ==
    \/ Told(b) = Told(a)
    \/ Told(a) = "nothing"
    \/ Told(a) = "delay" /\ Told(b) = "summary"

Committing == run.pc \in {"notice", "commit"}

\* Only of the video at hand may the session know what is not committed.
Unsaid ==
    \A v \in Video :
        \/ Quiet(db[v], mem[v])
        \/ Committing /\ v = Current /\ Follows(db[v], mem[v])

\* Each message that reached the chat is on record, or in doubt.
Counted ==
    /\ copies \in [Video -> [Message -> Nat]] /\ doubts \in [Video -> [Message -> Nat]]
    /\ \A v \in Video, s \in Message :
          copies[v][s] <= doubts[v][s] + IF mem[v].at[s] = "completed" THEN 1 ELSE 0

\* The notice follows in the same commit.
Silent ==
    \A v \in Video \ Short :
        /\ Reported(db[v])
        /\ Reported(mem[v]) \/ (run.pc = "notice" /\ v = Current /\ MustReport(mem[v]))

Books == RowsOK /\ Unsaid /\ Counted /\ Silent

IInv == RunShape /\ AtHand /\ Books

-----------------------------------------------------------------------------
(* Steps of the session.                                                   *)

\* What was heard of equal rows is the same.
LEMMA QuietTold ==
    ASSUME NEW a, NEW b, Quiet(a, b)
    PROVE  Told(a) = Told(b)
  BY DEF Quiet, Told, Message

\* Quiet rows are quiet one after another.
LEMMA QuietTransitive ==
    ASSUME NEW a, NEW b, NEW c, Quiet(a, b), Quiet(b, c)
    PROVE  Quiet(a, c)
  BY DEF Quiet

\* The rows of the video at hand become others, if it is one.
LEMMA BecomesIs ==
    ASSUME mem \in [Video -> Loose], NEW r, Becomes(r), Current \in Video => r \in Loose
    PROVE  /\ mem' \in [Video -> Loose]
           /\ \A v \in Video : mem'[v] = IF v = Current THEN r ELSE mem[v]
<1>1. CASE Current \in Video
  <2>1. r \in Loose /\ mem' = [mem EXCEPT ![Current] = r]
    BY <1>1 DEF Becomes
  <2> QED BY <1>1, <2>1
<1>2. CASE Current \notin Video
  <2>1. mem' = mem
    BY <1>2 DEF Becomes
  <2> QED BY <1>2, <2>1
<1> QED BY <1>1, <1>2

\* The run goes on with the same video.
LEMMA GotoIs ==
    ASSUME RunShape, NEW p \in Busy \ {"content"}, Goto(p), run.queue # <<>>,
           run.kind = "manual" => p \notin {"telegram", "notice"}
    PROVE  /\ RunShape'
           /\ run'.pc = p /\ run'.kind = run.kind /\ run'.queue = run.queue
           /\ Current' = Current
<1>1. run' = [kind |-> run.kind, pc |-> p, queue |-> run.queue]
  BY DEF RunShape, Goto
<1>2. run'.pc = p /\ run'.kind = run.kind /\ run'.queue = run.queue
  BY <1>1
<1>3. Current' = Current
  BY <1>2 DEF Current
<1>4. p \in Phase \ {"idle", "content", "reconcile", "select", "next"}
  BY DEF Busy, Phase
<1>5. RunShape'
  BY <1>1, <1>2, <1>4 DEF RunShape
<1> QED BY <1>2, <1>3, <1>5

\* Before a message leaves, a session that says nothing keeps the books.
LEMMA QuietSession ==
    ASSUME Books, UNCHANGED <<db, copies, doubts>>, ~Committing,
           mem' \in [Video -> Loose],
           \A v \in Video :
               /\ RowOK(v, mem'[v]) /\ Quiet(mem[v], mem'[v])
               /\ v \notin Short /\ Reported(mem[v])
                     => \/ Reported(mem'[v])
                        \/ run'.pc = "notice" /\ v = Current' /\ MustReport(mem'[v])
    PROVE  Books'
<1>1. \A v \in Video : Quiet(db[v], mem[v]) /\ Quiet(mem[v], mem'[v])
  BY DEF Books, Unsaid
<1>2. RowsOK'
  BY DEF Books, RowsOK
<1>3. Unsaid'
  <2>1. \A v \in Video : Quiet(db[v], mem'[v])
    BY <1>1, QuietTransitive
  <2> QED BY <2>1 DEF Unsaid
<1>4. Counted'
  BY <1>1 DEF Books, Counted, Quiet
<1>5. Silent'
  <2>1. \A v \in Video \ Short : Reported(mem[v])
    BY DEF Books, Silent, Committing
  <2> QED BY <2>1 DEF Books, Silent
<1> QED BY <1>2, <1>3, <1>4, <1>5 DEF Books

\* ... and so does one that commits.
LEMMA QuietCommit ==
    ASSUME Books, db' = mem', UNCHANGED <<copies, doubts>>, ~Committing,
           mem' \in [Video -> Loose],
           \A v \in Video :
               /\ RowOK(v, mem'[v]) /\ Quiet(mem[v], mem'[v])
               /\ v \notin Short /\ Reported(mem[v]) => Reported(mem'[v])
    PROVE  Books' /\ \A v \in Video : Quiet(db[v], db'[v])
<1>1. \A v \in Video : Quiet(db[v], mem[v]) /\ Quiet(mem[v], mem'[v])
  BY DEF Books, Unsaid
<1>2. RowsOK'
  BY DEF Books, RowsOK
<1>3. Unsaid'
  BY DEF Unsaid, Quiet
<1>4. Counted'
  BY <1>1 DEF Books, Counted, Quiet
<1>5. Silent'
  <2>1. \A v \in Video \ Short : Reported(mem[v])
    BY DEF Books, Silent, Committing
  <2> QED BY <2>1 DEF Books, Silent
<1>6. \A v \in Video : Quiet(db[v], db'[v])
  BY <1>1, QuietTransitive
<1> QED BY <1>2, <1>3, <1>4, <1>5, <1>6 DEF Books

\* The video at hand is changed without a word.
LEMMA QuietRow ==
    ASSUME IInv, UNCHANGED <<db, copies, doubts>>, ~Committing, NEW r, Becomes(r),
           Current' = Current,
           Current \in Video =>
               /\ RowOK(Current, r) /\ Quiet(mem[Current], r)
               /\ Current \notin Short /\ Reported(mem[Current])
                     => Reported(r) \/ (run'.pc = "notice" /\ MustReport(r))
    PROVE  /\ Books'
           /\ \A v \in Video : mem'[v] = IF v = Current THEN r ELSE mem[v]
<1>1. /\ mem' \in [Video -> Loose]
      /\ \A v \in Video : mem'[v] = IF v = Current THEN r ELSE mem[v]
  BY BecomesIs DEF IInv, Books, RowsOK, RowOK
<1>2. ASSUME NEW v \in Video
      PROVE  /\ RowOK(v, mem'[v]) /\ Quiet(mem[v], mem'[v])
             /\ v \notin Short /\ Reported(mem[v])
                   => \/ Reported(mem'[v])
                      \/ run'.pc = "notice" /\ v = Current' /\ MustReport(mem'[v])
  <2>1. CASE v = Current
    BY <1>1, <2>1
  <2>2. CASE v # Current
    BY <1>1, <2>2 DEF IInv, Books, RowsOK, Quiet
  <2> QED BY <2>1, <2>2
<1> QED BY <1>1, <1>2, QuietSession DEF IInv

\* ... and committed.
LEMMA CommittedRow ==
    ASSUME IInv, UNCHANGED <<copies, doubts>>, ~Committing, NEW r, BecomesCommitted(r),
           Current \in Video =>
               /\ RowOK(Current, r) /\ Quiet(mem[Current], r)
               /\ Reported(mem[Current]) => Reported(r)
    PROVE  /\ Books'
           /\ \A v \in Video : mem'[v] = IF v = Current THEN r ELSE mem[v]
           /\ \A v \in Video : Quiet(db[v], db'[v])
<1>1. /\ mem' \in [Video -> Loose]
      /\ \A v \in Video : mem'[v] = IF v = Current THEN r ELSE mem[v]
      /\ db' = mem'
  BY BecomesIs DEF IInv, Books, RowsOK, RowOK, BecomesCommitted
<1>2. ASSUME NEW v \in Video
      PROVE  /\ RowOK(v, mem'[v]) /\ Quiet(mem[v], mem'[v])
             /\ v \notin Short /\ Reported(mem[v]) => Reported(mem'[v])
  <2>1. CASE v = Current
    BY <1>1, <2>1
  <2>2. CASE v # Current
    BY <1>1, <2>2 DEF IInv, Books, RowsOK, Quiet
  <2> QED BY <2>1, <2>2
<1> QED BY <1>1, <1>2, QuietCommit DEF IInv

-----------------------------------------------------------------------------
(* Between the runs.                                                       *)

\* The committed rows say what they said.
Unheard == \A v \in Video : Quiet(db[v], db'[v])

\* Rows that do not change say the same.
LEMMA UnheardUnchanged ==
    ASSUME UNCHANGED db
    PROVE  Unheard
  BY DEF Unheard, Quiet

\* A row is changed without a run.
LEMMA IdleRow ==
    ASSUME IInv, run = NoRun, UNCHANGED <<run, copies, doubts>>, mem' = db',
           NEW v \in Video, NEW r, db' = [db EXCEPT ![v] = r],
           RowOK(v, r), Quiet(db[v], r), Reported(db[v]) => Reported(r)
    PROVE  IInv' /\ Unheard
<1>1. run.pc = "idle" /\ run'.pc = "idle"
  BY DEF NoRun
<1>2. /\ db' \in [Video -> Loose]
      /\ \A x \in Video : db'[x] = IF x = v THEN r ELSE db[x]
  BY DEF IInv, Books, RowsOK, RowOK
<1>3. \A x \in Video : RowOK(x, db'[x]) /\ Quiet(db[x], db'[x]) /\ (Reported(db[x]) => Reported(db'[x]))
  BY <1>2 DEF IInv, Books, RowsOK, Quiet
<1>4. RowsOK'
  BY <1>2, <1>3 DEF RowsOK
<1>5. Unsaid'
  BY DEF Unsaid, Quiet
<1>6. Counted'
  <2>1. \A x \in Video : Quiet(db[x], mem[x])
    BY <1>1 DEF IInv, Books, Unsaid, Committing
  <2>2. \A x \in Video, s \in Message :
           (mem[x].at[s] = "completed") <=> (mem'[x].at[s] = "completed")
    BY <1>3, <2>1 DEF Quiet
  <2> QED BY <2>2 DEF IInv, Books, Counted
<1>7. Silent'
  BY <1>3 DEF IInv, Books, Silent
<1>8. RunShape'
  BY DEF IInv, RunShape
<1>9. AtHand'
  BY <1>1 DEF AtHand
<1> QED BY <1>3, <1>4, <1>5, <1>6, <1>7, <1>8, <1>9 DEF IInv, Books, Unheard

\* A new upload.
LEMMA DiscoverKeeps ==
    ASSUME IInv, NEW v \in Video, Discover(v)
    PROVE  IInv' /\ Unheard
<1> DEFINE r == WithStages(db[v], Automatic)
<1>1. /\ run = NoRun /\ UNCHANGED <<run, copies, doubts>> /\ mem' = db'
      /\ db' = [db EXCEPT ![v] = r]
  BY DEF Discover, history
<1>2. RowOK(v, r) /\ Quiet(db[v], r) /\ (Reported(db[v]) => Reported(r))
  BY WithStagesKeeps DEF IInv, Books, RowsOK
<1> HIDE DEF r
<1> QED BY <1>1, <1>2, IdleRow

\* The operator's release.
LEMMA MakeEligibleKeeps ==
    ASSUME IInv, NEW v \in Video, MakeEligible(v)
    PROVE  IInv' /\ Unheard
<1> DEFINE r == [db[v] EXCEPT !.held = "eligible"]
<1>1. /\ run = NoRun /\ UNCHANGED <<run, copies, doubts>> /\ mem' = db'
      /\ db' = [db EXCEPT ![v] = r] /\ db[v].held = "awaiting"
  BY DEF MakeEligible, history
<1>2. db[v] \in Loose /\ RowOK(v, db[v])
  BY DEF IInv, Books, RowsOK
<1>3. r \in Loose
  BY <1>2, ZenonT(60) DEF Loose
<1>4. r.at = db[v].at /\ r.alerted = db[v].alerted
  BY <1>2 DEF Loose
<1> HIDE DEF r
<1>5. RowOK(v, r)
  BY <1>1, <1>2, <1>3, <1>4 DEF RowOK
<1>6. Quiet(db[v], r) /\ (Reported(db[v]) => Reported(r))
  BY <1>4 DEF Quiet, Reported
<1> QED BY <1>1, <1>5, <1>6, IdleRow

\* A delay is over, in the middle of a run perhaps.
LEMMA DelayEndsKeeps ==
    ASSUME IInv, NEW v \in Video, DelayEnds(v)
    PROVE  IInv' /\ Unheard
<1> DEFINE Same(q, r) == q.at = r.at /\ q.held = r.held /\ q.alerted = r.alerted
           d == [db[v] EXCEPT !.delayed = FALSE]
           m == [mem[v] EXCEPT !.delayed = FALSE]
<1>1. UNCHANGED <<run, copies, doubts>> /\ Current' = Current
  BY DEF DelayEnds, history, Current
<1>2. /\ db \in [Video -> Loose] /\ mem \in [Video -> Loose]
      /\ db[v] \in Loose /\ mem[v] \in Loose
  BY DEF IInv, Books, RowsOK
<1>3. d \in Loose /\ m \in Loose
  BY <1>2, ZenonT(60) DEF Loose
<1>4. Same(d, db[v]) /\ Same(m, mem[v])
  BY <1>2 DEF Loose
<1>5. db' = [db EXCEPT ![v] = d] /\ mem' = [mem EXCEPT ![v] = m]
  BY DEF DelayEnds
<1> HIDE DEF d, m
<1>6. /\ db' \in [Video -> Loose] /\ mem' \in [Video -> Loose]
      /\ \A x \in Video : Same(db'[x], db[x]) /\ Same(mem'[x], mem[x])
  BY <1>2, <1>3, <1>4, <1>5
<1>7. \A x \in Video : RowOK(x, db'[x]) /\ RowOK(x, mem'[x])
  BY <1>6, SameRow DEF IInv, Books, RowsOK
<1>8. RowsOK'
  BY <1>6, <1>7 DEF RowsOK
<1>9. Unsaid' /\ Unheard
  <2>1. \A x \in Video : Told(db'[x]) = Told(db[x]) /\ Told(mem'[x]) = Told(mem[x])
    BY <1>6 DEF Told
  <2> QED BY <1>1, <1>6, <2>1 DEF IInv, Books, Unsaid, Unheard, Quiet, Follows, Committing
<1>10. Counted'
  BY <1>1, <1>6 DEF IInv, Books, Counted
<1>11. Silent'
  BY <1>1, <1>6 DEF IInv, Books, Silent, Reported, MustReport
<1>12. RunShape'
  BY <1>1 DEF IInv, RunShape
<1>13. AtHand'
  BY <1>1, <1>6 DEF IInv, AtHand, Open
<1> QED BY <1>8, <1>9, <1>10, <1>11, <1>12, <1>13 DEF IInv, Books

\* A run begins.
LEMMA BeginKeeps ==
    ASSUME IInv, NEW kind \in {"poll", "startup", "manual"},
           NEW pc \in {"reconcile", "select", "content"}, NEW queue,
           (pc = "content") = (kind = "manual"), pc = "content" => queue # <<>>,
           Begin(kind, pc, queue)
    PROVE  IInv' /\ Unheard
<1>1. /\ UNCHANGED <<db, mem, copies, doubts>> /\ run.pc = "idle"
      /\ run' = [kind |-> kind, pc |-> pc, queue |-> queue]
  BY DEF Begin, history, NoRun
<1>2. run'.kind = kind /\ run'.pc = pc /\ run'.queue = queue
  BY <1>1
<1>3. RunShape'
  BY <1>1, <1>2 DEF RunShape, Phase, Busy
<1>4. AtHand'
  BY <1>2 DEF AtHand
<1>5. Books'
  BY <1>1, <1>2 DEF IInv, Books, RowsOK, Unsaid, Counted, Silent, Committing
<1> QED BY <1>1, <1>3, <1>4, <1>5, UnheardUnchanged DEF IInv

\* A run dies: what it had sent and not recorded is in doubt.
LEMMA CrashKeeps ==
    ASSUME IInv, Crash
    PROVE  IInv' /\ Unheard
<1>1. /\ run' = NoRun /\ mem' = db /\ UNCHANGED <<db, copies>>
      /\ doubts' = [v \in Video |-> [s \in Message |->
                        doubts[v][s] + IF Uncommitted(v, s) THEN 1 ELSE 0]]
  BY DEF Crash
<1>2. run'.pc = "idle" /\ run'.kind = "none" /\ run'.queue = <<>>
  BY <1>1 DEF NoRun
<1>3. RunShape'
  BY <1>1, <1>2 DEF RunShape, Phase, Busy, NoRun
<1>4. AtHand'
  BY <1>2 DEF AtHand
<1>5. RowsOK' /\ Unsaid'
  BY <1>1 DEF IInv, Books, RowsOK, Unsaid, Quiet
<1>6. Counted'
  <2>1. /\ copies \in [Video -> [Message -> Nat]] /\ doubts \in [Video -> [Message -> Nat]]
        /\ \A v \in Video, s \in Message :
              copies[v][s] <= doubts[v][s] + IF mem[v].at[s] = "completed" THEN 1 ELSE 0
    BY DEF IInv, Books, Counted
  <2>2. \A v \in Video, s \in Message :
           (IF Uncommitted(v, s) THEN 1 ELSE 0) \in {0, 1}
    OBVIOUS
  <2>3. /\ doubts' \in [Video -> [Message -> Nat]]
        /\ \A v \in Video, s \in Message :
              doubts'[v][s] = doubts[v][s] + IF Uncommitted(v, s) THEN 1 ELSE 0
    BY <1>1, <2>1, <2>2
  <2>4. \A v \in Video, s \in Message :
           mem[v].at[s] = "completed" /\ db[v].at[s] # "completed" => Uncommitted(v, s)
    <3> SUFFICES ASSUME NEW v \in Video, NEW s \in Message,
                        mem[v].at[s] = "completed", db[v].at[s] # "completed"
                 PROVE  Uncommitted(v, s)
      OBVIOUS
    <3>1. ~Quiet(db[v], mem[v])
      BY DEF Quiet
    <3>2. run.pc \in {"notice", "commit"} /\ v = Current
      BY <3>1 DEF IInv, Books, Unsaid, Committing
    <3>3. run.queue # <<>>
      BY <3>2 DEF IInv, RunShape, Busy
    <3> QED BY <3>2, <3>3 DEF Uncommitted
  <2>5. ASSUME NEW v \in Video, NEW s \in Message
        PROVE  copies[v][s] <= doubts'[v][s] + IF db[v].at[s] = "completed" THEN 1 ELSE 0
    <3>1. /\ copies[v][s] \in Nat /\ doubts[v][s] \in Nat
          /\ copies[v][s] <= doubts[v][s] + IF mem[v].at[s] = "completed" THEN 1 ELSE 0
          /\ doubts'[v][s] \in {doubts[v][s], doubts[v][s] + 1}
          /\ Uncommitted(v, s) => doubts'[v][s] = doubts[v][s] + 1
      BY <2>1, <2>3
    <3> QED BY <2>4, <3>1
  <2> QED BY <1>1, <2>1, <2>3, <2>5 DEF Counted
<1>7. Silent'
  BY <1>1 DEF IInv, Books, Silent
<1> QED BY <1>1, <1>3, <1>4, <1>5, <1>6, <1>7, UnheardUnchanged DEF IInv, Books

-----------------------------------------------------------------------------
(* The selection of a drain and of a video.                                *)

\* The phases in which the run has no video.
LEMMA SelectedShape ==
    ASSUME RunShape, run.kind # "manual", NEW p \in {"select", "next"}, NEW queue,
           run' = [run EXCEPT !.pc = p, !.queue = queue]
    PROVE  RunShape' /\ run'.pc = p
<1>1. run' = [kind |-> run.kind, pc |-> p, queue |-> queue]
  BY DEF RunShape
<1>2. run'.pc = p /\ run'.kind = run.kind /\ run'.queue = queue
  BY <1>1
<1> QED BY <1>1, <1>2 DEF RunShape, Phase, Busy

\* The released summaries are asked for.
LEMMA ReconcileKeeps ==
    ASSUME IInv, Reconcile
    PROVE  IInv' /\ Unheard
<1> DEFINE eligible == {v \in Video : mem[v].held = "eligible"}
<1>1. /\ run.pc = "reconcile" /\ UNCHANGED <<db, copies, doubts>>
      /\ run' = [run EXCEPT !.pc = "select"]
  BY DEF Reconcile, At, Goto, history
<1>2. PICK answer \in [eligible -> GetAnswer] :
         mem' = [v \in Video |-> IF v \in eligible THEN AfterGet(mem[v], answer[v]) ELSE mem[v]]
  BY DEF Reconcile
<1>3. RunShape' /\ run'.pc = "select"
  <2>1. run' = [run EXCEPT !.pc = "select", !.queue = run.queue] /\ run.kind # "manual"
    BY <1>1 DEF IInv, RunShape
  <2> QED BY <2>1, SelectedShape DEF IInv
<1>4. \A v \in Video : RowOK(v, mem[v]) /\ mem[v] \in Loose
  BY DEF IInv, Books, RowsOK
<1>5. ASSUME NEW v \in Video
      PROVE  RowOK(v, mem'[v]) /\ Quiet(mem[v], mem'[v]) /\ (Reported(mem[v]) => Reported(mem'[v]))
  <2>1. CASE v \in eligible
    <3>1. mem'[v] = AfterGet(mem[v], answer[v]) /\ answer[v] \in GetAnswer /\ mem[v].held = "eligible"
      BY <1>2, <2>1
    <3> QED BY <1>4, <3>1, AfterGetKeeps
  <2>2. CASE v \notin eligible
    <3>1. mem'[v] = mem[v]
      BY <1>2, <2>2
    <3> QED BY <1>4, <3>1 DEF Quiet
  <2> QED BY <2>1, <2>2
<1>6. mem' \in [Video -> Loose]
  <2>1. mem' = [v \in Video |-> mem'[v]]
    BY <1>2
  <2>2. \A v \in Video : mem'[v] \in Loose
    BY <1>5 DEF RowOK
  <2> QED BY <2>1, <2>2
<1>7. Books'
  BY <1>1, <1>5, <1>6, QuietSession DEF IInv, Committing
<1>8. AtHand'
  BY <1>3 DEF AtHand
<1> QED BY <1>1, <1>3, <1>7, <1>8, UnheardUnchanged DEF IInv

\* The disabled Shorts are closed, the due videos queued.
LEMMA SelectKeeps ==
    ASSUME IInv, Select
    PROVE  IInv' /\ Unheard
<1>1. /\ run.pc = "select" /\ UNCHANGED <<db, copies, doubts>>
      /\ mem' = [v \in Video |-> IF MayProcess(v) THEN mem[v] ELSE SkippedShort(mem[v])]
  BY DEF Select, At, SkipDisabledShorts, history
<1>2. \E queue : run' = [run EXCEPT !.pc = "next", !.queue = queue]
  BY DEF Select
<1>3. PICK queue : run' = [run EXCEPT !.pc = "next", !.queue = queue]
  BY <1>2
<1>4. RunShape' /\ run'.pc = "next"
  <2>1. run.kind # "manual"
    BY <1>1 DEF IInv, RunShape
  <2> QED BY <1>3, <2>1, SelectedShape DEF IInv
<1>5. \A v \in Video : RowOK(v, mem[v])
  BY DEF IInv, Books, RowsOK
<1>6. ASSUME NEW v \in Video
      PROVE  /\ RowOK(v, mem'[v]) /\ Quiet(mem[v], mem'[v])
             /\ v \notin Short /\ Reported(mem[v]) => Reported(mem'[v])
  <2>1. CASE MayProcess(v)
    <3>1. mem'[v] = mem[v]
      BY <1>1, <2>1
    <3> QED BY <1>5, <3>1 DEF Quiet
  <2>2. CASE ~MayProcess(v)
    <3>1. mem'[v] = SkippedShort(mem[v]) /\ v \in Short
      BY <1>1, <2>2 DEF MayProcess
    <3> QED BY <1>5, <3>1, SkippedShortKeeps
  <2> QED BY <2>1, <2>2
<1>7. mem' \in [Video -> Loose]
  <2>1. mem' = [v \in Video |-> mem'[v]]
    BY <1>1
  <2>2. \A v \in Video : mem'[v] \in Loose
    BY <1>6 DEF RowOK
  <2> QED BY <2>1, <2>2
<1>8. Books'
  BY <1>1, <1>6, <1>7, QuietSession DEF IInv, Committing
<1>9. AtHand'
  BY <1>4 DEF AtHand
<1> QED BY <1>1, <1>4, <1>8, <1>9, UnheardUnchanged DEF IInv

\* The next video is taken.
LEMMA TakeVideoKeeps ==
    ASSUME IInv, TakeVideo
    PROVE  IInv' /\ Unheard
<1>1. run.pc = "next" /\ run.queue # <<>> /\ UNCHANGED <<db, copies, doubts>>
  BY DEF TakeVideo, At, history
<1>2. run.kind # "manual"
  BY <1>1 DEF IInv, RunShape
<1>3. \A v \in Video : RowOK(v, mem[v])
  BY DEF IInv, Books, RowsOK
<1>4. CASE MayProcess(Current)
  <2> DEFINE r == WithStages(mem[Current], Automatic)
  <2>1. Becomes(r) /\ Goto("transcript")
    BY <1>4 DEF TakeVideo
  <2>2. RunShape' /\ run'.pc = "transcript" /\ Current' = Current
    BY <1>1, <2>1, GotoIs DEF IInv, Busy
  <2>3. Current \in Video =>
           /\ RowOK(Current, r) /\ Quiet(mem[Current], r)
           /\ Reported(mem[Current]) => Reported(r)
           /\ \A s \in Automatic : r.at[s] # "absent"
    <3>1. Current \in Video => RowOK(Current, mem[Current]) /\ mem[Current] \in Loose
      BY <1>3 DEF RowOK
    <3>2. \A s \in Automatic : s \in Stage
      BY DEF Stage
    <3> QED BY <3>1, <3>2, WithStagesKeeps, WithStagesIs
  <2> HIDE DEF r
  <2>4. Books' /\ \A v \in Video : mem'[v] = IF v = Current THEN r ELSE mem[v]
    BY <1>1, <2>1, <2>2, <2>3, QuietRow DEF Committing
  <2>5. AtHand'
    BY <2>2, <2>3, <2>4 DEF AtHand
  <2> QED BY <1>1, <2>2, <2>4, <2>5, UnheardUnchanged DEF IInv
<1>5. CASE ~MayProcess(Current)
  <2> DEFINE r == SkippedShort(mem[Current])
  <2>1. Becomes(r) /\ Goto("commit") /\ Current \in Short
    BY <1>5 DEF TakeVideo, MayProcess
  <2>2. RunShape' /\ run'.pc = "commit" /\ Current' = Current
    BY <1>1, <2>1, GotoIs DEF IInv, Busy
  <2>3. Current \in Video => RowOK(Current, r) /\ Quiet(mem[Current], r)
    BY <1>3, <2>1, SkippedShortKeeps
  <2> HIDE DEF r
  <2>4. Books'
    BY <1>1, <2>1, <2>2, <2>3, QuietRow DEF Committing
  <2>5. AtHand'
    BY <2>2 DEF AtHand
  <2> QED BY <1>1, <2>2, <2>4, <2>5, UnheardUnchanged DEF IInv
<1> QED BY <1>4, <1>5

\* A manual command takes its video.
LEMMA TakeManualKeeps ==
    ASSUME IInv, TakeManual
    PROVE  IInv' /\ Unheard
<1> DEFINE r == WithStages(mem[Current], Content)
<1>1. /\ run.pc = "content" /\ UNCHANGED <<db, copies, doubts>>
      /\ run.queue # <<>> /\ run.kind = "manual"
  BY DEF TakeManual, At, history, IInv, RunShape, Busy
<1>2. \E p \in {"commit", "transcript"} : Goto(p)
  BY DEF TakeManual
<1>3. PICK p \in {"commit", "transcript"} : Goto(p)
  BY <1>2
<1>4. RunShape' /\ run'.pc = p /\ Current' = Current /\ run'.kind = "manual"
  BY <1>1, <1>3, GotoIs DEF IInv, Busy
<1>5. AtHand'
  BY <1>4 DEF AtHand
<1>6. Current \in Video => RowOK(Current, mem[Current])
  BY DEF IInv, Books, RowsOK
<1>7. CASE Becomes(r)
  <2>1. Current \in Video =>
           RowOK(Current, r) /\ Quiet(mem[Current], r) /\ (Reported(mem[Current]) => Reported(r))
    BY <1>6, WithStagesKeeps
  <2> HIDE DEF r
  <2>2. Books'
    BY <1>1, <1>4, <1>7, <2>1, QuietRow DEF Committing
  <2> QED BY <1>1, <1>4, <1>5, <2>2, UnheardUnchanged DEF IInv
<1>8. CASE UNCHANGED mem
  <2>1. mem' = mem /\ mem' \in [Video -> Loose] /\ \A v \in Video : RowOK(v, mem'[v])
    BY <1>8 DEF IInv, Books, RowsOK
  <2>2. \A v \in Video : Quiet(mem[v], mem'[v])
    BY <1>8 DEF Quiet
  <2>3. Books'
    BY <1>1, <2>1, <2>2, QuietSession DEF IInv, Committing
  <2> QED BY <1>1, <1>4, <1>5, <2>3, UnheardUnchanged DEF IInv
<1> QED BY <1>7, <1>8 DEF TakeManual

-----------------------------------------------------------------------------
(* The content of the video at hand.                                       *)

\* The row of the video at hand is one of the rows.
LEMMA CurrentRow ==
    ASSUME IInv, Current \in Video
    PROVE  RowOK(Current, mem[Current]) /\ mem[Current] \in Loose
  BY DEF IInv, Books, RowsOK

\* The transcript is tried.
LEMMA TranscriptKeeps ==
    ASSUME IInv, Transcript
    PROVE  IInv' /\ Unheard
<1>1. /\ run.pc = "transcript" /\ UNCHANGED <<db, copies, doubts>> /\ run.queue # <<>>
  BY DEF Transcript, At, history, IInv, RunShape, Busy
<1>2. PICK q \in AfterTranscript(mem[Current]) :
          \/ /\ q.at["transcript"] = "completed"
             /\ Becomes(q) /\ Goto("summary")
          \/ /\ q.at["transcript"] = "failed"
             /\ Becomes(Skipped(q, "summary"))
             /\ Goto(IF run.kind = "manual" THEN "commit" ELSE "telegram")
          \/ /\ q.at["transcript"] \notin {"completed", "failed"}
             /\ Becomes(q)
             /\ Goto(IF run.kind = "manual" THEN "commit" ELSE "telegram")
  BY DEF Transcript
<1>3. Current \in Video =>
         /\ RowOK(Current, q) /\ Quiet(mem[Current], q)
         /\ Reported(mem[Current]) => Reported(q)
         /\ \A t \in Stage : t # "transcript" => q.at[t] = mem[Current].at[t]
  <2> HAVE Current \in Video
  <2> QED BY CurrentRow, AfterTranscriptIs
<1>4. Current \in Video /\ run.kind # "manual" => \A s \in Automatic : mem[Current].at[s] # "absent"
  BY <1>1 DEF IInv, AtHand
<1>5. CASE q.at["transcript"] = "completed" /\ Becomes(q) /\ Goto("summary")
  <2>1. RunShape' /\ run'.pc = "summary" /\ Current' = Current /\ run'.kind = run.kind
    BY <1>1, <1>5, GotoIs DEF IInv, Busy
  <2>2. Books' /\ \A v \in Video : mem'[v] = IF v = Current THEN q ELSE mem[v]
    BY <1>1, <1>3, <1>5, <2>1, QuietRow DEF Committing
  <2>3. AtHand'
    BY <1>3, <1>4, <1>5, <2>1, <2>2 DEF AtHand, Automatic, Stage, Content
  <2> QED BY <1>1, <2>1, <2>2, <2>3, UnheardUnchanged DEF IInv
<1>6. ASSUME NEW r, Becomes(r), Goto(IF run.kind = "manual" THEN "commit" ELSE "telegram"),
             Current \in Video =>
                 /\ RowOK(Current, r) /\ Quiet(mem[Current], r)
                 /\ Reported(mem[Current]) => Reported(r)
                 /\ run.kind # "manual" => \A s \in Automatic : r.at[s] # "absent"
                 /\ run.kind # "manual" /\ r.at["transcript"] = "failed" => r.at["summary"] = "skipped"
      PROVE  IInv' /\ Unheard
  <2>1. /\ RunShape' /\ Current' = Current
        /\ run'.pc = IF run.kind = "manual" THEN "commit" ELSE "telegram"
    BY <1>1, <1>6, GotoIs DEF IInv, Busy
  <2>2. Books' /\ \A v \in Video : mem'[v] = IF v = Current THEN r ELSE mem[v]
    BY <1>1, <1>6, <2>1, QuietRow DEF Committing
  <2>3. AtHand'
    BY <1>6, <2>1, <2>2 DEF AtHand
  <2> QED BY <1>1, <2>1, <2>2, <2>3, UnheardUnchanged DEF IInv
<1>7. CASE /\ q.at["transcript"] \notin {"completed", "failed"}
           /\ Becomes(q)
           /\ Goto(IF run.kind = "manual" THEN "commit" ELSE "telegram")
  <2>1. Current \in Video /\ run.kind # "manual" => \A s \in Automatic : q.at[s] # "absent"
    <3> SUFFICES ASSUME Current \in Video, run.kind # "manual" PROVE \A s \in Automatic : q.at[s] # "absent"
      OBVIOUS
    <3>1. mem[Current].at["transcript"] # "absent"
      BY <1>4 DEF Automatic, Content
    <3>2. q.at["transcript"] # "absent"
      BY <1>2, <3>1, CurrentRow, AfterTranscriptIs
    <3> QED BY <1>3, <1>4, <3>2 DEF Stage
  <2> QED BY <1>3, <1>6, <1>7, <2>1
<1>8. CASE /\ q.at["transcript"] = "failed"
           /\ Becomes(Skipped(q, "summary"))
           /\ Goto(IF run.kind = "manual" THEN "commit" ELSE "telegram")
  <2> DEFINE r == Skipped(q, "summary")
  <2>1. Current \in Video => r = q \/ (q.at["summary"] = "pending" /\ r = Ended(q, "summary", "skipped"))
    BY DEF Skipped, Open
  <2>2. Current \in Video =>
           /\ r \in Loose /\ r.held = q.held /\ r.alerted = q.alerted
           /\ \A t \in Stage : r.at[t] = IF t = "summary" /\ q.at[t] = "pending" THEN "skipped" ELSE q.at[t]
    <3> HAVE Current \in Video
    <3>1. q \in Loose
      BY <1>3 DEF RowOK
    <3>2. CASE ~Open(q, "summary")
      BY <3>1, <3>2 DEF Skipped, Open
    <3>3. CASE Open(q, "summary")
      <4>1. r = Ended(q, "summary", "skipped")
        BY <3>3 DEF Skipped
      <4>2. "summary" \in Stage /\ "skipped" \in Status
        BY Names
      <4> HIDE DEF r
      <4>3. /\ r \in Loose /\ r.held = q.held /\ r.alerted = q.alerted
            /\ \A t \in Stage : r.at[t] = IF t = "summary" THEN "skipped" ELSE q.at[t]
        BY <3>1, <4>1, <4>2, EndedIs
      <4> QED BY <3>3, <4>3 DEF Open
    <3> QED BY <3>2, <3>3
  <2> HIDE DEF r
  <2>3. Current \in Video => q.at["summary"] \in {"absent", "pending", "skipped"} /\ q.held = "no"
    BY <1>3, <1>8 DEF RowOK
  <2>4. Current \in Video =>
           RowOK(Current, r) /\ Quiet(q, r) /\ (Reported(q) => Reported(r))
    <3> HAVE Current \in Video
    <3>1. RowOK(Current, r)
      BY <1>3, <1>8, <2>2, <2>3 DEF RowOK, Stage, Automatic, Content
    <3> QED BY <2>2, <3>1 DEF Quiet, Reported, Stage, Automatic, Content, Message
  <2>5. Current \in Video =>
           /\ RowOK(Current, r) /\ Quiet(mem[Current], r)
           /\ Reported(mem[Current]) => Reported(r)
    BY <1>3, <2>4, QuietTransitive
  <2>6. Current \in Video /\ run.kind # "manual" =>
           r.at["summary"] = "skipped" /\ \A s \in Automatic : r.at[s] # "absent"
    BY <1>3, <1>4, <1>8, <2>2, <2>3 DEF Automatic, Stage, Content
  <2>7. Becomes(r)
    BY <1>8 DEF r
  <2> QED BY <1>6, <1>8, <2>5, <2>6, <2>7
<1> QED BY <1>2, <1>5, <1>7, <1>8

\* The run leaves the summary.
LEMMA SummaryLeft ==
    ASSUME IInv, run.pc \in {"summary", "inference"}, AfterSummary
    PROVE  /\ RunShape' /\ Current' = Current /\ run'.pc # "notice"
           /\ (Current \in Video =>
                  /\ mem'[Current].at["summary"] # "absent"
                  /\ \A t \in {"transcript", "telegram"} : mem'[Current].at[t] = mem[Current].at[t])
              => AtHand'
<1>1. run.queue # <<>>
  BY DEF IInv, RunShape, Busy
<1>2. /\ RunShape' /\ Current' = Current
      /\ run'.pc = IF run.kind = "manual" THEN "commit" ELSE "telegram"
  BY <1>1, GotoIs DEF IInv, Busy, AfterSummary
<1>3. Current \in Video =>
         /\ mem[Current].at["transcript"] = "completed"
         /\ run.kind # "manual" => mem[Current].at["telegram"] # "absent"
  BY Names DEF IInv, AtHand
<1> QED BY <1>2, <1>3 DEF AtHand, Automatic, Content

\* A summary that was open ends.
LEMMA SummaryChanges ==
    ASSUME IInv, run.pc \in {"summary", "inference"}, AfterSummary,
           UNCHANGED <<copies, doubts>>, NEW r,
           (Becomes(r) /\ UNCHANGED db) \/ BecomesCommitted(r),
           Current \in Video =>
               /\ Open(mem[Current], "summary")
               /\ r \in Loose /\ r.alerted = mem[Current].alerted
               /\ \E end \in {"completed", "failed", "pending"} :
                     /\ \A t \in Stage : r.at[t] = IF t = "summary" THEN end ELSE mem[Current].at[t]
                     /\ end = "completed" => r.held = "no"
    PROVE  IInv' /\ Unheard
<1>1. /\ RunShape' /\ Current' = Current /\ run'.pc # "notice" /\ ~Committing
      /\ (Current \in Video =>
                  /\ mem'[Current].at["summary"] # "absent"
                  /\ \A t \in {"transcript", "telegram"} : mem'[Current].at[t] = mem[Current].at[t])
              => AtHand'
  BY SummaryLeft DEF Committing
<1>2. Current \in Video =>
         /\ RowOK(Current, r) /\ Quiet(mem[Current], r)
         /\ Reported(mem[Current]) => Reported(r)
         /\ r.at["summary"] # "absent"
         /\ \A t \in {"transcript", "telegram"} : r.at[t] = mem[Current].at[t]
  <2> SUFFICES ASSUME Current \in Video
               PROVE  /\ RowOK(Current, r) /\ Quiet(mem[Current], r)
                      /\ Reported(mem[Current]) => Reported(r)
                      /\ r.at["summary"] # "absent"
                      /\ \A t \in {"transcript", "telegram"} : r.at[t] = mem[Current].at[t]
    OBVIOUS
  <2> DEFINE m == mem[Current]
  <2>1. PICK end \in {"completed", "failed", "pending"} :
                     /\ \A t \in Stage : r.at[t] = IF t = "summary" THEN end ELSE m.at[t]
                     /\ end = "completed" => r.held = "no"
    OBVIOUS
  <2>2. /\ RowOK(Current, m) /\ m.at["summary"] = "pending"
        /\ r \in Loose /\ r.alerted = m.alerted
    BY CurrentRow DEF Open
  <2>3. m.at["transcript"] = "completed"
    BY DEF IInv, AtHand
  <2>4. m.at["telegram"] # "completed"
    BY <2>2 DEF RowOK
  <2> HIDE DEF m
  <2>5. RowOK(Current, r) /\ Quiet(m, r) /\ (Reported(m) => Reported(r))
    BY <2>1, <2>2, <2>3, <2>4, SummaryEnds
  <2>6. r.at["summary"] # "absent" /\ \A t \in {"transcript", "telegram"} : r.at[t] = m.at[t]
    BY <2>1, Names
  <2> QED BY <2>5, <2>6 DEF m
<1>3. CASE Becomes(r) /\ UNCHANGED db
  <2>1. Books' /\ \A v \in Video : mem'[v] = IF v = Current THEN r ELSE mem[v]
    BY <1>1, <1>2, <1>3, QuietRow
  <2> QED BY <1>1, <1>2, <1>3, <2>1, UnheardUnchanged DEF IInv
<1>4. CASE BecomesCommitted(r)
  <2>1. /\ Books' /\ \A v \in Video : mem'[v] = IF v = Current THEN r ELSE mem[v]
        /\ \A v \in Video : Quiet(db[v], db'[v])
    BY <1>1, <1>2, <1>4, CommittedRow
  <2> QED BY <1>1, <1>2, <2>1 DEF IInv, Unheard
<1> QED BY <1>3, <1>4

\* The summary is left, or was there.
LEMMA SummaryStaysKeeps ==
    ASSUME IInv, SummaryStays
    PROVE  IInv' /\ Unheard
<1>1. run.pc = "summary" /\ UNCHANGED <<db, copies, doubts>> /\ AfterSummary
  BY DEF SummaryStays, At, history
<1>2. CASE UNCHANGED mem
  <2>1. /\ RunShape' /\ Current' = Current /\ run'.pc # "notice" /\ ~Committing
        /\ (Current \in Video =>
                  /\ mem'[Current].at["summary"] # "absent"
                  /\ \A t \in {"transcript", "telegram"} : mem'[Current].at[t] = mem[Current].at[t])
              => AtHand'
    BY <1>1, SummaryLeft DEF Committing
  <2>2. mem' = mem /\ mem' \in [Video -> Loose] /\ \A v \in Video : RowOK(v, mem'[v])
    BY <1>2 DEF IInv, Books, RowsOK
  <2>3. \A v \in Video : Quiet(mem[v], mem'[v])
    BY <1>2 DEF Quiet
  <2>4. Books'
    BY <1>1, <2>1, <2>2, <2>3, QuietSession DEF IInv
  <2>5. AtHand'
    <3>1. CASE run.kind = "manual"
      <4>1. run'.pc = "commit"
        BY <1>1, <3>1, GotoIs DEF AfterSummary, IInv, RunShape, Busy
      <4> QED BY <4>1 DEF AtHand
    <3>2. CASE run.kind # "manual"
      <4>1. Current \in Video => mem[Current].at["summary"] # "absent"
        BY <1>1, <3>2, Names DEF IInv, AtHand
      <4> QED BY <1>2, <2>1, <4>1
    <3> QED BY <3>1, <3>2
  <2> QED BY <1>1, <2>1, <2>4, <2>5, UnheardUnchanged DEF IInv
<1>3. CASE MayTrySummary(mem[Current]) /\ Becomes(Ended(mem[Current], "summary", "completed"))
  <2> DEFINE m == mem[Current]
             r == Ended(m, "summary", "completed")
  <2>1. Open(m, "summary") /\ m.held = "no"
    BY <1>3 DEF MayTrySummary, SummaryIsDue
  <2>2. Becomes(r)
    BY <1>3
  <2>3. Current \in Video =>
           /\ r \in Loose /\ r.alerted = m.alerted /\ r.held = m.held
           /\ \A t \in Stage : r.at[t] = IF t = "summary" THEN "completed" ELSE m.at[t]
    BY CurrentRow, EndedCopy
  <2> HIDE DEF r
  <2> QED BY <1>1, <2>1, <2>2, <2>3, SummaryChanges
<1> QED BY <1>2, <1>3 DEF SummaryStays

\* llama.cpp is asked.
LEMMA SummariseDirectlyKeeps ==
    ASSUME IInv, SummariseDirectly
    PROVE  IInv' /\ Unheard
<1> DEFINE m == mem[Current]
           a == Attempted(m, "summary")
<1>1. /\ run.pc = "summary" /\ UNCHANGED <<db, copies, doubts>> /\ AfterSummary
      /\ Open(m, "summary") /\ m.held = "no"
  BY DEF SummariseDirectly, At, history, MayTrySummary, SummaryIsDue
<1>2. PICK r \in {Summarised(a), Postponed(a), Retried(a, "summary")} : Becomes(r)
  BY DEF SummariseDirectly
<1>3. Current \in Video => a \in Loose /\ a.at = m.at /\ a.alerted = m.alerted /\ a.held = m.held
  BY CurrentRow, AttemptedIs, Names
<1> HIDE DEF a
<1>4. Current \in Video =>
         /\ r \in Loose /\ r.alerted = m.alerted
         /\ \E end \in {"completed", "failed", "pending"} :
               /\ \A t \in Stage : r.at[t] = IF t = "summary" THEN end ELSE m.at[t]
               /\ end = "completed" => r.held = "no"
  <2> SUFFICES ASSUME Current \in Video
               PROVE  /\ r \in Loose /\ r.alerted = m.alerted
                      /\ \E end \in {"completed", "failed", "pending"} :
                            /\ \A t \in Stage : r.at[t] = IF t = "summary" THEN end ELSE m.at[t]
                            /\ end = "completed" => r.held = "no"
    OBVIOUS
  <2>1. CASE r = Summarised(a)
    BY <1>1, <1>3, <2>1, SummarisedIs
  <2>2. CASE r = Postponed(a)
    BY <1>3, <2>2, PostponedIs
  <2>3. CASE r = Retried(a, "summary")
    <3>1. PICK end \in {"pending", "failed"} : r = Ended(a, "summary", end)
      BY <1>3, <2>3, RetriedIs, Names
    <3>2. /\ r \in Loose /\ r.alerted = m.alerted
          /\ \A t \in Stage : r.at[t] = IF t = "summary" THEN end ELSE m.at[t]
      BY <1>3, <3>1, EndedCopy
    <3> QED BY <3>2
  <2> QED BY <2>1, <2>2, <2>3
<1> QED BY <1>1, <1>2, <1>4, SummaryChanges

-----------------------------------------------------------------------------
(* The broker.                                                             *)

\* Only the marker of the row at hand changes, and is committed.
LEMMA MarkerKeeps ==
    ASSUME IInv, run.pc \in {"summary", "inference"}, NEW r, BecomesCommitted(r),
           UNCHANGED <<copies, doubts>>, Goto("inference") \/ (run.pc = "inference" /\ UNCHANGED run),
           Current \in Video =>
               /\ r \in Loose /\ r.at = mem[Current].at
               /\ r.held = mem[Current].held /\ r.alerted = mem[Current].alerted
               /\ Open(mem[Current], "summary") /\ mem[Current].held = "no"
    PROVE  IInv' /\ Unheard
<1>1. ~Committing /\ run.queue # <<>>
  BY DEF Committing, IInv, RunShape, Busy
<1>2. RunShape' /\ run'.pc = "inference" /\ Current' = Current /\ run'.kind = run.kind
  <2>1. CASE Goto("inference")
    BY <1>1, <2>1, GotoIs DEF IInv, Busy
  <2>2. CASE run.pc = "inference" /\ UNCHANGED run
    BY <2>2 DEF IInv, RunShape, Current
  <2> QED BY <2>1, <2>2
<1>3. Current \in Video =>
         RowOK(Current, r) /\ Quiet(mem[Current], r) /\ (Reported(mem[Current]) => Reported(r))
  BY CurrentRow, SameRow
<1>4. /\ Books' /\ \A v \in Video : mem'[v] = IF v = Current THEN r ELSE mem[v]
      /\ \A v \in Video : Quiet(db[v], db'[v])
  BY <1>1, <1>2, <1>3, CommittedRow
<1>5. AtHand'
  BY <1>2, <1>4 DEF IInv, AtHand, Open
<1> QED BY <1>2, <1>4, <1>5 DEF IInv, Unheard

\* The submission is prepared.
LEMMA PrepareKeeps ==
    ASSUME IInv, Prepare
    PROVE  IInv' /\ Unheard
<1> DEFINE m == mem[Current]
           a == Attempted(m, "summary")
           r == [a EXCEPT !.residue = "prepared"]
<1>1. /\ run.pc = "summary" /\ UNCHANGED <<copies, doubts>> /\ Goto("inference")
      /\ Open(m, "summary") /\ m.held = "no" /\ BecomesCommitted(r)
  BY DEF Prepare, history, MayTrySummary, SummaryIsDue
<1>2. Current \in Video => a \in Loose /\ a.at = m.at /\ a.alerted = m.alerted /\ a.held = m.held
  BY CurrentRow, AttemptedIs, Names
<1> HIDE DEF a
<1>3. Current \in Video => r \in Loose /\ r.at = m.at /\ r.alerted = m.alerted /\ r.held = m.held
  BY <1>2, ResidueIs
<1> HIDE DEF r
<1> QED BY <1>1, <1>3, MarkerKeeps

\* The broker has accepted the task.
LEMMA AcceptKeeps ==
    ASSUME IInv, Accept
    PROVE  IInv' /\ Unheard
<1> DEFINE m == mem[Current]
           r == [m EXCEPT !.residue = "accepted"]
<1>1. /\ run.pc = "inference" /\ UNCHANGED <<run, copies, doubts>> /\ BecomesCommitted(r)
  BY DEF Accept, history
<1>2. Current \in Video => Open(m, "summary") /\ m.held = "no"
  BY <1>1 DEF IInv, AtHand
<1>3. Current \in Video => r \in Loose /\ r.at = m.at /\ r.alerted = m.alerted /\ r.held = m.held
  BY CurrentRow, ResidueIs
<1> HIDE DEF r
<1> QED BY <1>1, <1>2, <1>3, MarkerKeeps

\* A marker was left by a crash.
LEMMA QuarantineResidueKeeps ==
    ASSUME IInv, QuarantineResidue
    PROVE  IInv' /\ Unheard
<1> DEFINE m == mem[Current]
           a == Attempted(m, "summary")
           r == Quarantined(a)
<1>1. /\ run.pc = "summary" /\ UNCHANGED <<copies, doubts>> /\ AfterSummary
      /\ Open(m, "summary") /\ BecomesCommitted(r)
  BY DEF QuarantineResidue, history, MayTrySummary
<1>2. Current \in Video => a \in Loose /\ a.at = m.at /\ a.alerted = m.alerted
  BY CurrentRow, AttemptedIs, Names
<1> HIDE DEF a
<1>3. Current \in Video =>
         /\ r \in Loose /\ r.alerted = m.alerted
         /\ \A t \in Stage : r.at[t] = IF t = "summary" THEN "pending" ELSE m.at[t]
  BY <1>2, QuarantinedIs
<1> HIDE DEF r
<1> QED BY <1>1, <1>3, SummaryChanges

\* The broker's answer is classified.
LEMMA ConcludeKeeps ==
    ASSUME IInv, Conclude
    PROVE  IInv' /\ Unheard
<1> DEFINE m == mem[Current]
           e == [m EXCEPT !.residue = "none"]
<1>1. /\ run.pc = "inference" /\ UNCHANGED <<copies, doubts>> /\ AfterSummary
  BY DEF Conclude, history
<1>2. PICK r \in {Summarised(m), Quarantined(m), Ended(e, "summary", "failed"), Postponed(e)} :
         BecomesCommitted(r)
  BY DEF Conclude
<1>3. Current \in Video => Open(m, "summary") /\ m.held = "no"
  BY <1>1 DEF IInv, AtHand
<1>4. Current \in Video => e \in Loose /\ e.at = m.at /\ e.alerted = m.alerted /\ m \in Loose
  BY CurrentRow, ResidueIs
<1> HIDE DEF e
<1>5. Current \in Video =>
         /\ r \in Loose /\ r.alerted = m.alerted
         /\ \E end \in {"completed", "failed", "pending"} :
               /\ \A t \in Stage : r.at[t] = IF t = "summary" THEN end ELSE m.at[t]
               /\ end = "completed" => r.held = "no"
  <2> SUFFICES ASSUME Current \in Video
               PROVE  /\ r \in Loose /\ r.alerted = m.alerted
                      /\ \E end \in {"completed", "failed", "pending"} :
                            /\ \A t \in Stage : r.at[t] = IF t = "summary" THEN end ELSE m.at[t]
                            /\ end = "completed" => r.held = "no"
    OBVIOUS
  <2>1. CASE r = Summarised(m)
    BY <1>3, <1>4, <2>1, SummarisedIs
  <2>2. CASE r = Quarantined(m)
    BY <1>4, <2>2, QuarantinedIs
  <2>3. CASE r = Ended(e, "summary", "failed")
    <3>1. /\ r \in Loose /\ r.alerted = m.alerted
          /\ \A t \in Stage : r.at[t] = IF t = "summary" THEN "failed" ELSE m.at[t]
      BY <1>4, <2>3, EndedCopy
    <3> QED BY <3>1
  <2>4. CASE r = Postponed(e)
    BY <1>4, <2>4, PostponedIs
  <2> QED BY <2>1, <2>2, <2>3, <2>4
<1> QED BY <1>1, <1>2, <1>3, <1>5, SummaryChanges

-----------------------------------------------------------------------------
(* The messages.                                                           *)

\* Nothing is sent and nothing recorded as sent.
LEMMA CountedSilent ==
    ASSUME Counted, UNCHANGED <<copies, doubts>>,
           \A v \in Video, t \in Message :
               (mem[v].at[t] = "completed") <=> (mem'[v].at[t] = "completed")
    PROVE  Counted'
  BY DEF Counted

\* One entry of a count grows.
More(f, c, s) == [f EXCEPT ![c][s] = @ + 1]

\* ... and no other.
LEMMA OneMore ==
    ASSUME NEW f \in [Video -> [Message -> Nat]], NEW c, NEW s \in Message
    PROVE  /\ More(f, c, s) \in [Video -> [Message -> Nat]]
           /\ \A v \in Video, t \in Message :
                 More(f, c, s)[v][t] = IF v = c /\ t = s THEN f[v][t] + 1 ELSE f[v][t]
<1>1. CASE c \in Video
  <2> DEFINE h == [f[c] EXCEPT ![s] = f[c][s] + 1]
  <2>1. More(f, c, s) = [f EXCEPT ![c] = h]
    BY DEF More
  <2>2. h \in [Message -> Nat] /\ \A t \in Message : h[t] = IF t = s THEN f[c][t] + 1 ELSE f[c][t]
    BY <1>1
  <2> HIDE DEF h
  <2> QED BY <1>1, <2>1, <2>2
<1>2. CASE c \notin Video
  <2>1. More(f, c, s) = f
    BY <1>2 DEF More
  <2> QED BY <1>2, <2>1
<1> QED BY <1>1, <1>2

\* A message is sent and recorded.
LEMMA CountedSent ==
    ASSUME Counted, NEW s \in Message, Sent(s), UNCHANGED doubts,
           Current \in Video => mem'[Current].at[s] = "completed",
           Current \in Video => mem[Current].at[s] # "completed",
           \A v \in Video, t \in Message :
               v # Current \/ t # s => (mem[v].at[t] = "completed") <=> (mem'[v].at[t] = "completed")
    PROVE  Counted'
<1>1. copies \in [Video -> [Message -> Nat]] /\ doubts \in [Video -> [Message -> Nat]]
  BY DEF Counted
<1>2. copies' = More(copies, Current, s)
  BY DEF Sent, More
<1>3. /\ copies' \in [Video -> [Message -> Nat]]
      /\ \A v \in Video, t \in Message :
            copies'[v][t] = IF v = Current /\ t = s THEN copies[v][t] + 1 ELSE copies[v][t]
  BY <1>1, <1>2, OneMore
<1>4. ASSUME NEW v \in Video, NEW t \in Message
      PROVE  copies'[v][t] <= doubts'[v][t] + IF mem'[v].at[t] = "completed" THEN 1 ELSE 0
  <2>1. /\ copies[v][t] \in Nat /\ doubts[v][t] \in Nat /\ doubts'[v][t] = doubts[v][t]
        /\ copies[v][t] <= doubts[v][t] + IF mem[v].at[t] = "completed" THEN 1 ELSE 0
    BY <1>1 DEF Counted
  <2>2. CASE v = Current /\ t = s
    BY <1>3, <2>1, <2>2
  <2>3. CASE v # Current \/ t # s
    BY <1>3, <2>1, <2>3
  <2> QED BY <2>2, <2>3
<1> QED BY <1>1, <1>3, <1>4 DEF Counted

\* A message arrives and the program does not hear of it.
LEMMA CountedInDoubt ==
    ASSUME Counted, NEW s \in Message, InDoubt(s),
           \A v \in Video, t \in Message :
               (mem[v].at[t] = "completed") <=> (mem'[v].at[t] = "completed")
    PROVE  Counted'
<1>1. copies \in [Video -> [Message -> Nat]] /\ doubts \in [Video -> [Message -> Nat]]
  BY DEF Counted
<1>2. copies' = More(copies, Current, s) /\ doubts' = More(doubts, Current, s)
  BY DEF InDoubt, Sent, More
<1>3. /\ copies' \in [Video -> [Message -> Nat]]
      /\ \A v \in Video, t \in Message :
            copies'[v][t] = IF v = Current /\ t = s THEN copies[v][t] + 1 ELSE copies[v][t]
  BY <1>1, <1>2, OneMore
<1>4. /\ doubts' \in [Video -> [Message -> Nat]]
      /\ \A v \in Video, t \in Message :
            doubts'[v][t] = IF v = Current /\ t = s THEN doubts[v][t] + 1 ELSE doubts[v][t]
  BY <1>1, <1>2, OneMore
<1>5. ASSUME NEW v \in Video, NEW t \in Message
      PROVE  copies'[v][t] <= doubts'[v][t] + IF mem'[v].at[t] = "completed" THEN 1 ELSE 0
  <2>1. /\ copies[v][t] \in Nat /\ doubts[v][t] \in Nat
        /\ copies[v][t] <= doubts[v][t] + IF mem[v].at[t] = "completed" THEN 1 ELSE 0
        /\ (mem[v].at[t] = "completed") <=> (mem'[v].at[t] = "completed")
    BY <1>1 DEF Counted
  <2> QED BY <1>3, <1>4, <2>1
<1> QED BY <1>3, <1>4, <1>5 DEF Counted

\* The row at hand is told of, or not; the books say which.
LEMMA MessageRow ==
    ASSUME IInv, run.pc \in {"telegram", "notice"}, NEW p \in {"notice", "commit"}, Goto(p),
           UNCHANGED db, NEW r,
           mem' \in [Video -> Loose], \A v \in Video : mem'[v] = IF v = Current THEN r ELSE mem[v],
           Counted',
           Current \in Video =>
               /\ RowOK(Current, r) /\ Follows(db[Current], r)
               /\ Current \in Short \/ Reported(r) \/ (p = "notice" /\ MustReport(r))
               /\ p = "notice" =>
                     /\ \A s \in Automatic : r.at[s] # "absent"
                     /\ r.at["transcript"] = "failed" => r.at["summary"] = "skipped"
                     /\ Open(r, "telegram") => r.at["summary"] \notin {"failed", "skipped"}
    PROVE  IInv' /\ Unheard
<1>1. run.kind # "manual" /\ run.queue # <<>>
  BY DEF IInv, RunShape, Busy
<1>2. RunShape' /\ run'.pc = p /\ Current' = Current
  BY <1>1, GotoIs DEF IInv, Busy
<1>3. RowsOK'
  BY DEF IInv, Books, RowsOK
<1>4. Unsaid'
  BY <1>2 DEF IInv, Books, Unsaid, Committing
<1>5. Silent'
  BY <1>2 DEF IInv, Books, Silent
<1>6. AtHand'
  BY <1>2 DEF AtHand
<1> QED BY <1>2, <1>3, <1>4, <1>5, <1>6, UnheardUnchanged DEF IInv, Books

\* The message was tried: it is sent, owed or given up.
LEMMA TelegramEnds ==
    ASSUME NEW v, NEW r, RowOK(v, r), Open(r, "telegram"), r.at["summary"] = "completed",
           NEW q \in Loose, NEW end \in {"completed", "failed", "pending"},
           \A t \in Stage : q.at[t] = IF t = "telegram" THEN end ELSE r.at[t],
           q.alerted = r.alerted, q.held = r.held
    PROVE  /\ RowOK(v, q) /\ Follows(r, q)
           /\ end # "failed" /\ Reported(r) => Reported(q)
           /\ end = "failed" => MustReport(q)
<1>1. /\ q.at["telegram"] = end /\ q.at["transcript"] = r.at["transcript"]
      /\ q.at["summary"] = "completed" /\ q.at["fallback"] = r.at["fallback"]
      /\ r.at["telegram"] = "pending"
  BY DEF Stage, Automatic, Content, Open
<1>2. RowOK(v, q)
  BY <1>1 DEF RowOK
<1>3. Follows(r, q)
  BY <1>1 DEF RowOK, Follows, Told
<1>4. end # "failed" /\ Reported(r) => Reported(q)
  BY <1>1 DEF Reported
<1>5. end = "failed" => MustReport(q)
  BY <1>1 DEF MustReport, Automatic
<1> QED BY <1>2, <1>3, <1>4, <1>5

\* The summary is sent, or not.
LEMMA SendTelegramKeeps ==
    ASSUME IInv, SendTelegram
    PROVE  IInv' /\ Unheard
<1> DEFINE m == mem[Current]
           a == Attempted(m, "telegram")
<1>1. /\ run.pc = "telegram" /\ UNCHANGED db /\ Goto("notice")
      /\ m.at["summary"] = "completed" /\ Open(m, "telegram")
  BY DEF SendTelegram, At, MaySend
<1>2. PICK r :
         /\ Becomes(r)
         /\ \/ r = Ended(a, "telegram", "completed") /\ Sent("telegram") /\ UNCHANGED doubts
            \/ /\ r = Retried(a, "telegram") \/ r = Ended(a, "telegram", "failed")
               /\ InDoubt("telegram") \/ UNCHANGED <<copies, doubts>>
  BY DEF SendTelegram, history
<1>3. Current \in Video =>
         /\ a \in Loose /\ a.at = m.at /\ a.alerted = m.alerted /\ a.held = m.held
         /\ RowOK(Current, m)
  BY CurrentRow, AttemptedIs, Names
<1> HIDE DEF a
<1>4. \E end \in {"completed", "failed", "pending"} :
         /\ r = Ended(a, "telegram", end)
         /\ end = "completed" => Sent("telegram") /\ UNCHANGED doubts
         /\ end # "completed" => InDoubt("telegram") \/ UNCHANGED <<copies, doubts>>
  BY <1>2 DEF Retried
<1>5. PICK end \in {"completed", "failed", "pending"} :
         /\ r = Ended(a, "telegram", end)
         /\ end = "completed" => Sent("telegram") /\ UNCHANGED doubts
         /\ end # "completed" => InDoubt("telegram") \/ UNCHANGED <<copies, doubts>>
  BY <1>4
<1>6. Current \in Video =>
         /\ r \in Loose /\ r.alerted = m.alerted /\ r.held = m.held
         /\ \A t \in Stage : r.at[t] = IF t = "telegram" THEN end ELSE m.at[t]
  <2>1. "telegram" \in Stage /\ end \in Status
    BY Names
  <2> QED BY <1>3, <1>5, <2>1, EndedIs
<1>7. Current \in Video =>
         /\ RowOK(Current, r) /\ Follows(m, r)
         /\ end # "failed" /\ Reported(m) => Reported(r)
         /\ end = "failed" => MustReport(r)
  BY <1>1, <1>3, <1>6, TelegramEnds
<1>8. /\ mem' \in [Video -> Loose]
      /\ \A v \in Video : mem'[v] = IF v = Current THEN r ELSE mem[v]
  BY <1>2, <1>6, BecomesIs DEF IInv, Books, RowsOK
<1>9. Current \in Video => Follows(db[Current], r)
  <2> HAVE Current \in Video
  <2>1. Quiet(db[Current], m)
    BY <1>1 DEF IInv, Books, Unsaid, Committing
  <2>2. Told(db[Current]) = Told(m)
    BY <2>1, QuietTold
  <2> QED BY <1>7, <2>2 DEF Follows
<1>10. Current \in Video => Current \in Short \/ Reported(r) \/ MustReport(r)
  BY <1>1, <1>7 DEF IInv, Books, Silent
<1>11. Current \in Video =>
          /\ \A s \in Automatic : r.at[s] # "absent"
          /\ r.at["transcript"] = "failed" => r.at["summary"] = "skipped"
          /\ Open(r, "telegram") => r.at["summary"] \notin {"failed", "skipped"}
  <2> HAVE Current \in Video
  <2>1. \A s \in Automatic : s \in Stage /\ m.at[s] # "absent"
    BY <1>1 DEF IInv, AtHand, RunShape, Stage
  <2>2. m.at["transcript"] = "completed"
    BY <1>1, <1>3 DEF RowOK
  <2>3. r.at["transcript"] = "completed" /\ r.at["summary"] = "completed"
    BY <1>1, <1>6, <2>2, Names
  <2>4. \A s \in Automatic : r.at[s] # "absent"
    BY <1>6, <2>1
  <2> QED BY <2>3, <2>4
<1>12. Counted'
  <2>1. Counted /\ {"telegram", "fallback"} \subseteq Message
    BY Names DEF IInv, Books
  <2>2. \A v \in Video, t \in Message :
           v # Current \/ t # "telegram" => (mem[v].at[t] = "completed") <=> (mem'[v].at[t] = "completed")
    BY <1>6, <1>8, Names
  <2>3. Current \in Video => mem'[Current].at["telegram"] = end /\ m.at["telegram"] = "pending"
    BY <1>1, <1>6, <1>8, Names DEF Open
  <2>4. CASE end = "completed"
    BY <1>5, <2>1, <2>2, <2>3, <2>4, CountedSent
  <2>5. CASE end # "completed"
    <3>1. \A v \in Video, t \in Message :
             (mem[v].at[t] = "completed") <=> (mem'[v].at[t] = "completed")
      BY <2>2, <2>3, <2>5
    <3> QED BY <1>5, <2>1, <2>5, <3>1, CountedInDoubt, CountedSilent
  <2> QED BY <2>4, <2>5
<1> HIDE DEF m
<1> QED BY <1>1, <1>7, <1>8, <1>9, <1>10, <1>11, <1>12, MessageRow

\* The summary is not sent, and given up when there will be none.
LEMMA NoTelegramKeeps ==
    ASSUME IInv, NoTelegram
    PROVE  IInv' /\ Unheard
<1> DEFINE m == mem[Current]
           q == Skipped(m, "telegram")
           given == m.at["summary"] \in {"failed", "skipped"}
           r == IF given THEN q ELSE m
<1>1. /\ run.pc = "telegram" /\ UNCHANGED <<db, copies, doubts>> /\ Goto("notice")
      /\ IF given THEN Becomes(q) ELSE UNCHANGED mem
  BY DEF NoTelegram, At, history
<1>2. Current \in Video => RowOK(Current, m) /\ m \in Loose /\ Quiet(db[Current], m)
  BY <1>1, CurrentRow DEF IInv, Books, Unsaid, Committing
<1>3. Current \in Video =>
         /\ q \in Loose /\ q.alerted = m.alerted /\ q.held = m.held
         /\ \A t \in Stage : q.at[t] = IF t = "telegram" /\ m.at[t] = "pending" THEN "skipped" ELSE m.at[t]
  <2> HAVE Current \in Video
  <2>1. CASE ~Open(m, "telegram")
    BY <1>2, <2>1 DEF Skipped, Open
  <2>2. CASE Open(m, "telegram")
    <3>1. q = Ended(m, "telegram", "skipped")
      BY <2>2 DEF Skipped
    <3>2. "telegram" \in Stage /\ "skipped" \in Status
      BY Names
    <3> HIDE DEF q
    <3>3. /\ q \in Loose /\ q.alerted = m.alerted /\ q.held = m.held
          /\ \A t \in Stage : q.at[t] = IF t = "telegram" THEN "skipped" ELSE m.at[t]
      BY <1>2, <3>1, <3>2, EndedIs
    <3> QED BY <2>2, <3>3 DEF Open
  <2> QED BY <2>1, <2>2
<1> HIDE DEF q
<1>4. Current \in Video =>
         /\ r \in Loose /\ r.alerted = m.alerted /\ r.held = m.held
         /\ \A t \in {"transcript", "summary", "fallback"} : r.at[t] = m.at[t]
         /\ r.at["telegram"] = m.at["telegram"] \/ (given /\ r.at["telegram"] = "skipped")
         /\ given => r.at["telegram"] # "pending"
         /\ m.at["telegram"] # "pending" => r.at["telegram"] = m.at["telegram"]
  BY <1>2, <1>3, Names
<1>5. /\ mem' \in [Video -> Loose]
      /\ \A v \in Video : mem'[v] = IF v = Current THEN r ELSE mem[v]
  <2>1. CASE given
    BY <1>1, <1>3, <2>1, BecomesIs DEF IInv, Books, RowsOK
  <2>2. CASE ~given
    BY <1>1, <2>2 DEF IInv, Books, RowsOK
  <2> QED BY <2>1, <2>2
<1>6. Current \in Video =>
         /\ \A s \in Automatic : m.at[s] # "absent"
         /\ m.at["transcript"] = "failed" => m.at["summary"] = "skipped"
         /\ Current \in Short \/ Reported(m)
  BY <1>1 DEF IInv, AtHand, RunShape, Books, Silent
<1> HIDE DEF r
<1>7. Current \in Video => RowOK(Current, r) /\ Quiet(m, r)
  <2> HAVE Current \in Video
  <2>1. RowOK(Current, r)
    BY <1>2, <1>4 DEF RowOK
  <2>2. Quiet(m, r)
    BY <1>4 DEF Quiet, Message
  <2> QED BY <2>1, <2>2
<1>8. Current \in Video => Follows(db[Current], r)
  <2> HAVE Current \in Video
  <2>1. Quiet(db[Current], r)
    BY <1>2, <1>7, QuietTransitive
  <2> QED BY <2>1, QuietTold DEF Follows
<1>9. Current \in Video => Current \in Short \/ Reported(r) \/ MustReport(r)
  <2> SUFFICES ASSUME Current \in Video, Current \notin Short PROVE Reported(r) \/ MustReport(r)
    OBVIOUS
  <2>1. CASE ~given
    <3>1. r.at["telegram"] = m.at["telegram"]
      BY <1>4, <2>1
    <3> QED BY <1>4, <1>6, <3>1 DEF Reported
  <2>2. CASE m.at["summary"] = "failed"
    BY <1>4, <2>2, Names DEF MustReport
  <2>3. CASE m.at["summary"] = "skipped"
    <3>1. m.at["transcript"] = "failed"
      BY <1>2, <2>3 DEF RowOK
    <3> QED BY <1>4, <3>1, Names DEF MustReport
  <2> QED BY <2>1, <2>2, <2>3
<1>10. Current \in Video =>
          /\ \A s \in Automatic : r.at[s] # "absent"
          /\ r.at["transcript"] = "failed" => r.at["summary"] = "skipped"
          /\ Open(r, "telegram") => r.at["summary"] \notin {"failed", "skipped"}
  BY <1>4, <1>6 DEF Open, Automatic, Content
<1>11. Counted'
  <2>1. \A v \in Video, t \in Message :
           (mem[v].at[t] = "completed") <=> (mem'[v].at[t] = "completed")
    BY <1>5, <1>7 DEF Quiet
  <2> QED BY <1>1, <2>1, CountedSilent DEF IInv, Books
<1> QED BY <1>1, <1>5, <1>7, <1>8, <1>9, <1>10, <1>11, MessageRow

\* The notice as it is recorded.
LEMMA NoticeIs ==
    ASSUME NEW r \in Loose
    PROVE  /\ NoticeSent(r) \in Loose
           /\ \A t \in Stage : NoticeSent(r).at[t] = IF t = "fallback" THEN "completed" ELSE r.at[t]
           /\ NoticeSent(r).held = r.held
           /\ ~NoticeSent(r).alerted => r.held = "no" /\ ~r.alerted
<1> DEFINE e == Ended(r, "fallback", "completed")
           alerted == e.alerted \/ r.held # "no"
           q == [e EXCEPT !.alerted = alerted]
<1>1. /\ e \in Loose /\ e.held = r.held /\ e.alerted = r.alerted
      /\ \A t \in Stage : e.at[t] = IF t = "fallback" THEN "completed" ELSE r.at[t]
  BY EndedIs, Names
<1>2. alerted \in BOOLEAN
  OBVIOUS
<1>3. NoticeSent(r) = q
  BY DEF NoticeSent
<1>4. ~alerted => r.held = "no" /\ ~r.alerted
  BY <1>1
<1> HIDE DEF e, alerted
<1>5. q \in Loose
  BY <1>1, <1>2, ZenonT(60) DEF Loose
<1>6. q.at = e.at /\ q.held = e.held
  BY <1>1 DEF Loose
<1>7. q.alerted = alerted
  BY <1>1, ZenonT(60) DEF Loose
<1>8. ~q.alerted => r.held = "no" /\ ~r.alerted
  BY <1>4, <1>7, Zenon
<1> HIDE DEF q
<1> QED BY <1>1, <1>3, <1>5, <1>6, <1>8

\* What was heard before a notice is heard with it.
LEMMA NoticeFollows ==
    ASSUME NEW b, NEW m, NEW r, Follows(b, m), m.at["fallback"] # "completed",
           r.at["telegram"] = m.at["telegram"]
    PROVE  Follows(b, r)
  BY DEF Follows, Told

\* The notice is sent, or refused, or will be tried again.
LEMMA SendNoticeKeeps ==
    ASSUME IInv, SendNotice
    PROVE  IInv' /\ Unheard
<1> DEFINE m == mem[Current]
           w == WithStages(m, {"fallback"})
<1>1. /\ run.pc = "notice" /\ UNCHANGED db /\ Goto("commit")
      /\ MustReport(m) /\ w.at["fallback"] = "pending"
  BY DEF SendNotice, At, Open
<1>2. PICK r :
         /\ Becomes(r)
         /\ \/ r = NoticeSent(w) /\ Sent("fallback") /\ UNCHANGED doubts
            \/ r = w /\ (InDoubt("fallback") \/ UNCHANGED <<copies, doubts>>)
            \/ r = Ended(w, "fallback", "failed") /\ UNCHANGED <<copies, doubts>>
  BY DEF SendNotice, history
<1>3. Current \in Video =>
         /\ RowOK(Current, m) /\ RowOK(Current, w)
         /\ w \in Loose /\ w.held = m.held /\ w.alerted = m.alerted
         /\ \A t \in {"transcript", "summary", "telegram"} : w.at[t] = m.at[t]
         /\ m.at["fallback"] # "completed"
  <2> HAVE Current \in Video
  <2>1. RowOK(Current, m) /\ m \in Loose
    BY CurrentRow
  <2>2. /\ RowOK(Current, w) /\ w \in Loose /\ w.held = m.held /\ w.alerted = m.alerted
        /\ \A t \in Stage : w.at[t] = IF t \in {"fallback"} /\ m.at[t] = "absent" THEN "pending" ELSE m.at[t]
    BY <2>1, WithStagesKeeps, WithStagesIs
  <2>3. /\ \A t \in {"transcript", "summary", "telegram"} : w.at[t] = m.at[t]
        /\ m.at["fallback"] # "completed"
    BY <1>1, <2>2, Names
  <2> QED BY <2>1, <2>2, <2>3
<1> HIDE DEF w
<1>4. \E end \in {"completed", "failed", "pending"} :
         /\ Current \in Video =>
               /\ r \in Loose /\ r.held = m.held
               /\ \A t \in Stage : r.at[t] = IF t = "fallback" THEN end ELSE w.at[t]
               /\ end # "completed" => r.alerted = m.alerted
               /\ ~r.alerted => r.held = "no" \/ end # "completed"
         /\ end = "completed" => Sent("fallback") /\ UNCHANGED doubts
         /\ end # "completed" => InDoubt("fallback") \/ UNCHANGED <<copies, doubts>>
  <2>1. CASE r = NoticeSent(w) /\ Sent("fallback") /\ UNCHANGED doubts
    <3>1. Current \in Video =>
             /\ r \in Loose /\ r.held = m.held /\ (~r.alerted => r.held = "no")
             /\ \A t \in Stage : r.at[t] = IF t = "fallback" THEN "completed" ELSE w.at[t]
      BY <1>3, <2>1, NoticeIs
    <3> QED BY <2>1, <3>1
  <2>2. CASE r = w /\ (InDoubt("fallback") \/ UNCHANGED <<copies, doubts>>)
    <3>1. Current \in Video =>
             /\ r \in Loose /\ r.held = m.held /\ r.alerted = m.alerted
             /\ \A t \in Stage : r.at[t] = IF t = "fallback" THEN "pending" ELSE w.at[t]
      BY <1>1, <1>3, <2>2
    <3> QED BY <2>2, <3>1
  <2>3. CASE r = Ended(w, "fallback", "failed") /\ UNCHANGED <<copies, doubts>>
    <3>1. "fallback" \in Stage /\ "failed" \in Status
      BY Names
    <3>2. Current \in Video =>
             /\ r \in Loose /\ r.held = m.held /\ r.alerted = m.alerted
             /\ \A t \in Stage : r.at[t] = IF t = "fallback" THEN "failed" ELSE w.at[t]
      BY <1>3, <2>3, <3>1, EndedIs
    <3> QED BY <2>3, <3>2
  <2> QED BY <1>2, <2>1, <2>2, <2>3
<1>5. PICK end \in {"completed", "failed", "pending"} :
         /\ Current \in Video =>
               /\ r \in Loose /\ r.held = m.held
               /\ \A t \in Stage : r.at[t] = IF t = "fallback" THEN end ELSE w.at[t]
               /\ end # "completed" => r.alerted = m.alerted
               /\ ~r.alerted => r.held = "no" \/ end # "completed"
         /\ end = "completed" => Sent("fallback") /\ UNCHANGED doubts
         /\ end # "completed" => InDoubt("fallback") \/ UNCHANGED <<copies, doubts>>
  BY <1>4
<1>6. Current \in Video =>
         /\ \A t \in {"transcript", "summary", "telegram"} : r.at[t] = m.at[t]
         /\ r.at["fallback"] = end
  BY <1>3, <1>5, Names
<1>7. /\ mem' \in [Video -> Loose]
      /\ \A v \in Video : mem'[v] = IF v = Current THEN r ELSE mem[v]
  BY <1>2, <1>5, BecomesIs DEF IInv, Books, RowsOK
\* A failure that is reported as such has closed the message.
<1>8. Current \in Video /\ m.held = "no" => m.at["telegram"] \in {"failed", "skipped"}
  <2> SUFFICES ASSUME Current \in Video, m.held = "no" PROVE m.at["telegram"] \in {"failed", "skipped"}
    OBVIOUS
  <2>1. PICK s \in Automatic : m.at[s] = "failed"
    BY <1>1 DEF MustReport
  <2>2. /\ m.at["transcript"] = "failed" => m.at["summary"] = "skipped"
        /\ m.at["telegram"] = "pending" => m.at["summary"] \notin {"failed", "skipped"}
        /\ m.at["telegram"] # "absent"
    BY <1>1, Names DEF IInv, AtHand, RunShape, Open
  <2>3. m.at["telegram"] = "completed" => m.at["summary"] = "completed"
    BY <1>3 DEF RowOK
  <2>4. m.at["telegram"] \in Status
    BY <1>3, Names DEF RowOK, Loose
  <2>5. CASE s = "telegram"
    BY <2>1, <2>5
  <2>6. CASE s # "telegram"
    <3>1. m.at["summary"] \in {"failed", "skipped"}
      BY <2>1, <2>2, <2>6 DEF Automatic, Content
    <3> QED BY <2>2, <2>3, <2>4, <3>1 DEF Status
  <2> QED BY <2>5, <2>6
<1>9. Current \in Video => RowOK(Current, r)
  <2> HAVE Current \in Video
  <2> QED BY <1>3, <1>5, <1>6, <1>8 DEF RowOK
<1>10. Current \in Video => Follows(db[Current], r)
  <2> HAVE Current \in Video
  <2>1. Follows(db[Current], m)
    BY QuietTold DEF IInv, Books, Unsaid, Follows
  <2> QED BY <1>3, <1>6, <2>1, NoticeFollows
<1>11. Current \in Video => Reported(r)
  BY <1>6 DEF Reported
<1>12. Counted'
  <2>1. Counted /\ {"telegram", "fallback"} \subseteq Message
    BY Names DEF IInv, Books
  <2>2. \A v \in Video, t \in Message :
           v # Current \/ t # "fallback" => (mem[v].at[t] = "completed") <=> (mem'[v].at[t] = "completed")
    BY <1>6, <1>7 DEF Message
  <2>3. Current \in Video => mem'[Current].at["fallback"] = end /\ m.at["fallback"] # "completed"
    BY <1>3, <1>6, <1>7
  <2>4. CASE end = "completed"
    BY <1>5, <2>1, <2>2, <2>3, <2>4, CountedSent
  <2>5. CASE end # "completed"
    <3>1. \A v \in Video, t \in Message :
             (mem[v].at[t] = "completed") <=> (mem'[v].at[t] = "completed")
      BY <2>2, <2>3, <2>5
    <3> QED BY <1>5, <2>1, <2>5, <3>1, CountedInDoubt, CountedSilent
  <2> QED BY <2>4, <2>5
<1> HIDE DEF m
<1> QED BY <1>1, <1>7, <1>9, <1>10, <1>11, <1>12, MessageRow

\* There is nothing to report, or it was reported.
LEMMA NoNoticeKeeps ==
    ASSUME IInv, NoNotice
    PROVE  IInv' /\ Unheard
<1> DEFINE m == mem[Current]
<1>1. /\ run.pc = "notice" /\ UNCHANGED <<db, mem, copies, doubts>> /\ Goto("commit")
      /\ MustReport(m) => m.at["fallback"] \notin {"absent", "pending"}
  BY DEF NoNotice, At, history
<1>2. Current \in Video => RowOK(Current, m)
  BY CurrentRow
<1>3. Current \in Video => Follows(db[Current], m)
  BY QuietTold DEF IInv, Books, Unsaid, Follows
<1>4. Current \in Video => Current \in Short \/ Reported(m)
  <2> SUFFICES ASSUME Current \in Video, Current \notin Short, MustReport(m) PROVE Reported(m)
    BY DEF IInv, Books, Silent
  <2>1. m.at["fallback"] # "skipped" /\ m.at["fallback"] \in Status
    BY <1>2, Names DEF RowOK, Loose
  <2> QED BY <1>1, <2>1 DEF Reported, Status
<1>5. /\ mem' \in [Video -> Loose]
      /\ \A v \in Video : mem'[v] = IF v = Current THEN m ELSE mem[v]
  BY <1>1 DEF IInv, Books, RowsOK
<1>6. Counted'
  BY <1>1 DEF IInv, Books, Counted
<1> HIDE DEF m
<1> QED BY <1>1, <1>2, <1>3, <1>4, <1>5, <1>6, MessageRow

-----------------------------------------------------------------------------
(* The commits.                                                            *)

\* What the session knows becomes the record.
LEMMA RecordedIs ==
    ASSUME IInv, run.pc # "notice", db' = mem, UNCHANGED <<mem, copies, doubts>>
    PROVE  Books'
<1>1. RowsOK'
  BY DEF IInv, Books, RowsOK
<1>2. Unsaid'
  BY DEF Unsaid, Quiet
<1>3. Counted'
  BY DEF IInv, Books, Counted
<1>4. Silent'
  BY DEF IInv, Books, Silent
<1> QED BY <1>1, <1>2, <1>3, <1>4 DEF Books

\* A commit records at most what the user has been told of one video.
LEMMA CommitKeeps ==
    ASSUME IInv, Commit
    PROVE  /\ IInv'
           /\ \A v \in Video : Quiet(db[v], db'[v]) \/ (v = Current /\ Follows(db[v], db'[v]))
<1>1. /\ run.pc = "commit" /\ db' = mem /\ UNCHANGED <<mem, copies, doubts>>
      /\ run' = IF run.kind = "manual" THEN NoRun
                ELSE [run EXCEPT !.pc = "next", !.queue = Tail(@)]
  BY DEF Commit, history
<1>2. Books'
  BY <1>1, RecordedIs
<1>3. RunShape' /\ run'.pc \in {"idle", "next"}
  <2>1. CASE run.kind = "manual"
    <3>1. run' = NoRun
      BY <1>1, <2>1
    <3>2. run'.pc = "idle" /\ run'.kind = "none" /\ run'.queue = <<>>
      BY <3>1 DEF NoRun
    <3> QED BY <3>1, <3>2 DEF RunShape, NoRun, Phase, Busy
  <2>2. CASE run.kind # "manual"
    <3>1. run' = [run EXCEPT !.pc = "next", !.queue = Tail(run.queue)]
      BY <1>1, <2>2
    <3> QED BY <2>2, <3>1, SelectedShape DEF IInv
  <2> QED BY <2>1, <2>2
<1>4. AtHand'
  BY <1>3 DEF AtHand
<1>5. \A v \in Video : Quiet(db[v], db'[v]) \/ (v = Current /\ Follows(db[v], db'[v]))
  BY <1>1 DEF IInv, Books, Unsaid
<1> QED BY <1>2, <1>3, <1>4, <1>5 DEF IInv

\* The run ends.
LEMMA EndRunKeeps ==
    ASSUME IInv, EndRun
    PROVE  IInv' /\ Unheard
<1>1. run.pc = "next" /\ db' = mem /\ UNCHANGED <<mem, copies, doubts>> /\ run' = NoRun
  BY DEF EndRun, history
<1>2. run'.pc = "idle" /\ run'.kind = "none" /\ run'.queue = <<>>
  BY <1>1 DEF NoRun
<1>3. Books'
  BY <1>1, RecordedIs
<1>4. RunShape' /\ AtHand'
  BY <1>1, <1>2 DEF RunShape, AtHand, NoRun, Phase, Busy
<1>5. Unheard
  BY <1>1 DEF IInv, Books, Unsaid, Committing, Unheard
<1> QED BY <1>3, <1>4, <1>5 DEF IInv

-----------------------------------------------------------------------------
(* The theorems.                                                           *)

\* The committed rows tell the user nothing new, or a commit tells of one video.
Recorded ==
    \/ Unheard
    \/ \A v \in Video : Quiet(db[v], db'[v]) \/ (v = Current /\ Follows(db[v], db'[v]))

\* At the start nothing is open and nothing was said.
LEMMA InitKeeps == Init => IInv
<1> SUFFICES ASSUME Init PROVE IInv
  OBVIOUS
<1>1. /\ db = [v \in Video |-> NoRows] /\ mem = db /\ run = NoRun
      /\ copies = [v \in Video |-> [s \in Message |-> 0]] /\ doubts = copies
  BY DEF Init
<1>2. /\ run = [kind |-> run.kind, pc |-> run.pc, queue |-> run.queue]
      /\ run.pc = "idle" /\ run.kind = "none"
  BY <1>1 DEF NoRun
<1>3. NoRows \in Loose
  <2>1. [s \in Stage |-> "absent"] \in [Stage -> Status] /\ [s \in Automatic |-> 0] \in [Automatic -> Nat]
    BY DEF Status
  <2> QED BY <2>1, ZenonT(60) DEF NoRows, Loose
<1>4. /\ \A s \in Stage : NoRows.at[s] = "absent"
      /\ NoRows.held = "no" /\ NoRows.alerted = FALSE
  BY DEF NoRows
<1>5. \A v \in Video : RowOK(v, NoRows) /\ Reported(NoRows)
  BY <1>3, <1>4, Names DEF RowOK, Reported
<1> HIDE DEF NoRows
<1>6. RowsOK /\ Silent /\ Unsaid
  BY <1>1, <1>3, <1>5 DEF RowsOK, Silent, Unsaid, Quiet
<1>7. Counted
  BY <1>1, <1>4, Names DEF Counted
<1>8. RunShape /\ AtHand
  BY <1>1, <1>2 DEF RunShape, AtHand, Phase, Busy
<1> QED BY <1>6, <1>7, <1>8 DEF IInv, Books

\* Every step keeps the invariant, and the record of what was told.
LEMMA NextKeeps ==
    ASSUME IInv, [Next]_vars
    PROVE  IInv' /\ Recorded
<1>1. CASE StartPoll
  BY <1>1, BeginKeeps DEF StartPoll, Recorded
<1>2. CASE StartStartup
  BY <1>2, BeginKeeps DEF StartStartup, Recorded
<1>3. ASSUME NEW v \in Video, Discover(v) \/ StartManual(v) \/ MakeEligible(v) \/ DelayEnds(v)
      PROVE  IInv' /\ Recorded
  <2>1. CASE StartManual(v)
    <3>1. <<v>> # <<>>
      OBVIOUS
    <3> QED BY <2>1, <3>1, BeginKeeps DEF StartManual, Recorded
  <2> QED BY <1>3, <2>1, DiscoverKeeps, MakeEligibleKeeps, DelayEndsKeeps DEF Recorded
<1>4. CASE RunStep
  <2>1. CASE Commit
    BY <2>1, CommitKeeps DEF Recorded
  <2>2. CASE Reconcile \/ Select \/ TakeVideo \/ TakeManual \/ Transcript \/ EndRun
    BY <2>2, ReconcileKeeps, SelectKeeps, TakeVideoKeeps, TakeManualKeeps, TranscriptKeeps,
       EndRunKeeps DEF Recorded
  <2>3. CASE SummaryStays \/ SummariseDirectly \/ Prepare \/ QuarantineResidue \/ Accept \/ Conclude
    BY <2>3, SummaryStaysKeeps, SummariseDirectlyKeeps, PrepareKeeps, QuarantineResidueKeeps,
       AcceptKeeps, ConcludeKeeps DEF Recorded
  <2>4. CASE SendTelegram \/ NoTelegram \/ SendNotice \/ NoNotice
    BY <2>4, SendTelegramKeeps, NoTelegramKeeps, SendNoticeKeeps, NoNoticeKeeps DEF Recorded
  <2> QED BY <1>4, <2>1, <2>2, <2>3, <2>4 DEF RunStep, ProcessVideo
<1>5. CASE Crash
  BY <1>5, CrashKeeps DEF Recorded
<1>6. CASE UNCHANGED vars
  <2>1. UNCHANGED <<db, mem, run, copies, doubts>> /\ Current' = Current
    BY <1>6 DEF vars, history, Current
  <2>2. RunShape' /\ AtHand'
    BY <2>1 DEF IInv, RunShape, AtHand
  <2>3. RowsOK' /\ Unsaid' /\ Counted' /\ Silent'
    BY <2>1 DEF IInv, Books, RowsOK, Unsaid, Counted, Silent, Committing
  <2> QED BY <2>1, <2>2, <2>3, UnheardUnchanged DEF IInv, Books, Recorded
<1> QED BY <1>1, <1>2, <1>3, <1>4, <1>5, <1>6 DEF Next

\* The inductive invariant (the session of a drain and its commits).
THEOREM InductiveInvariant == Spec => []IInv
<1>1. Init => IInv
  BY InitKeeps
<1>2. IInv /\ [Next]_vars => IInv'
  BY NextKeeps
<1> QED BY <1>1, <1>2, PTL DEF Spec

\* A message reaches the chat once, but for what the program cannot know
\* (_attempt_telegram_stage, _attempt_single_fallback).
THEOREM OneMessage == Spec => []RepeatsAreExplained
<1>1. IInv => RepeatsAreExplained
  <2> SUFFICES ASSUME IInv, NEW v \in Video, NEW s \in Message
               PROVE  copies[v][s] <= 1 + doubts[v][s]
    BY DEF RepeatsAreExplained
  <2>1. /\ copies[v][s] \in Nat /\ doubts[v][s] \in Nat
        /\ copies[v][s] <= doubts[v][s] + IF mem[v].at[s] = "completed" THEN 1 ELSE 0
    BY DEF IInv, Books, Counted
  <2> QED BY <2>1
<1> QED BY <1>1, InductiveInvariant, PTL

\* A message that is given up has its notice in the same commit (_skip_stage,
\* _should_trigger_fallback).
THEOREM NothingDropped == Spec => []NoSilentFailure
<1>1. IInv => NoSilentFailure
  BY DEF IInv, Books, Silent, Reported, NoSilentFailure
<1> QED BY <1>1, InductiveInvariant, PTL

\* The chat is not told of one video both the summary and a failure
\* (_build_fallback_reason, reconciliation_alerted_at).
THEOREM OneVerdict == Spec => []NoFailureNoticeOfSummary
<1>1. IInv => NoFailureNoticeOfSummary
  <2> SUFFICES ASSUME IInv, NEW v \in Video,
                      copies[v]["telegram"] > 0, copies[v]["fallback"] > 0,
                      \A s \in Message : ~(doubts[v][s] > 0)
               PROVE  mem[v].alerted
    BY DEF NoFailureNoticeOfSummary
  <2>1. \A s \in Message :
           /\ copies[v][s] \in Nat /\ doubts[v][s] \in Nat
           /\ copies[v][s] <= doubts[v][s] + IF mem[v].at[s] = "completed" THEN 1 ELSE 0
    BY DEF IInv, Books, Counted
  <2>2. mem[v].at["telegram"] = "completed" /\ mem[v].at["fallback"] = "completed"
    BY <2>1, Names
  <2> QED BY <2>2 DEF IInv, Books, RowsOK, RowOK
<1> QED BY <1>1, InductiveInvariant, PTL

\* What the committed rows say was told of the videos.
told == [v \in Video |-> Told(db[v])]

\* A commit tells of one video, and as VideoOutcome allows.
LEMMA RecordedTells ==
    ASSUME Recorded
    PROVE  [Outcomes!Next]_told
<1>1. CASE Unheard
  <2>1. \A v \in Video : Told(db'[v]) = Told(db[v])
    BY <1>1, QuietTold DEF Unheard
  <2> QED BY <2>1 DEF told
<1>2. CASE \A v \in Video : Quiet(db[v], db'[v]) \/ (v = Current /\ Follows(db[v], db'[v]))
  <2>1. \A v \in Video : v # Current => Told(db'[v]) = Told(db[v])
    BY <1>2, QuietTold
  <2>2. CASE \A v \in Video : Told(db'[v]) = Told(db[v])
    BY <2>2 DEF told
  <2>3. CASE ~ \A v \in Video : Told(db'[v]) = Told(db[v])
    <3>1. Current \in Video /\ Told(db'[Current]) # Told(db[Current])
      BY <2>1, <2>3
    <3>2. Follows(db[Current], db'[Current])
      BY <1>2, <3>1, QuietTold
    <3> DEFINE o == Told(db'[Current])
    <3>3. told' = [told EXCEPT ![Current] = o]
      BY <2>1, <3>1 DEF told
    <3>4. told[Current] = Told(db[Current])
      BY <3>1 DEF told
    <3>5. o \in {"nothing", "summary", "failure", "delay"}
      BY DEF Told
    <3>6. CASE told[Current] = "nothing"
      <4>1. o \in Outcomes!Outcome \ {"nothing"}
        BY <3>1, <3>4, <3>5, <3>6 DEF Outcomes!Outcome
      <4>2. Outcomes!Tell(Current)
        BY <3>3, <3>6, <4>1 DEF Outcomes!Tell, told
      <4> QED BY <3>1, <4>2 DEF Outcomes!Next
    <3>7. CASE told[Current] = "delay" /\ o = "summary"
      <4>1. Outcomes!FollowDelay(Current)
        BY <3>3, <3>7 DEF Outcomes!FollowDelay, told
      <4> QED BY <3>1, <4>1 DEF Outcomes!Next
    <3> QED BY <3>1, <3>2, <3>4, <3>6, <3>7 DEF Follows
  <2> QED BY <2>2, <2>3
<1> QED BY <1>1, <1>2 DEF Recorded

\* The pipeline implements VideoOutcome (drain_pending_videos: one commit per video).
THEOREM Implementation == Spec => ImplementsOutcomes
<1>1. Init => Outcomes!Init
  <2> SUFFICES ASSUME Init PROVE Outcomes!Init
    OBVIOUS
  <2>1. \A v \in Video : Told(db[v]) = "nothing"
    <3>1. NoRows.at["telegram"] = "absent" /\ NoRows.at["fallback"] = "absent"
      BY Names DEF NoRows
    <3> QED BY <3>1 DEF Init, Told
  <2> QED BY <2>1 DEF Outcomes!Init
<1>2. IInv /\ [Next]_vars => [Outcomes!Next]_told
  BY NextKeeps, RecordedTells
<1>3. told = [v \in Video |-> Told(db[v])]
  BY DEF told
<1> QED BY <1>1, <1>2, InductiveInvariant, PTL DEF Spec, ImplementsOutcomes, Outcomes!Spec, told

-----------------------------------------------------------------------------
(* How often a stage is tried.  A second invariant beside IInv counts the  *)
(* attempts of every row: an attempt is beyond max_attempts only when a    *)
(* crash took the one before it (its marker is committed, its end is not). *)

Undecided == {"absent", "pending"}

\* What the stages of a row may have had after f faults.
Spends(r, f) ==
    /\ \A s \in {"transcript", "telegram"} :
          /\ r.tries[s] <= MaxAttempts
          /\ r.at[s] \in Undecided => r.tries[s] < MaxAttempts
    /\ r.tries["summary"] <= MaxAttempts + f

\* A summary that may be tried has an attempt left.
Rested(r, f) ==
    r.at["summary"] \in Undecided /\ r.held = "no" => r.tries["summary"] < MaxAttempts + f

AllRested(t, f) == \A v \in Video : Spends(t[v], f) /\ Rested(t[v], f)

\* ... but for the summary that is being made.
RestedElsewhere(t, f) ==
    \A v \in Video : Spends(t[v], f) /\ (v # Current => Rested(t[v], f))

Bounded ==
    /\ run.pc # "inference" => AllRested(db, faults) /\ AllRested(mem, faults)
    /\ run.pc = "inference" => RestedElsewhere(db, faults) /\ RestedElsewhere(mem, faults)

RunTyped ==
    /\ run.kind \in {"none", "poll", "startup", "manual"}
    /\ run.queue \in Seq(Video)

Attempts ==
    /\ RunTyped
    /\ shortsEnabled \in BOOLEAN
    /\ faults \in 0 .. MaxFaults
    /\ Bounded

\* The videos in the order of publication: there are as many ranks as videos, and
\* each has its own.
LEMMA OldestFirstIs ==
    ASSUME NEW S \in SUBSET Video
    PROVE  OldestFirst(S) \in Seq(Video)
<1>1. S \subseteq Nat /\ IsFiniteSet(S)
  BY PipelineAssumption, FS_Subset DEF PipelineAssumption
<1> DEFINE n == Cardinality(S)
           B == [x \in S |-> {y \in S : y < x}]
           f == [x \in S |-> Cardinality(B[x]) + 1]
<1>2. n \in Nat
  BY <1>1, FS_CardinalityType
<1>3. \A x \in S : B[x] \subseteq S /\ x \notin B[x]
  BY <1>1
<1>4. \A x, y \in S : y < x => B[y] \subseteq B[x] /\ y \in B[x] /\ y \notin B[y]
  <2> SUFFICES ASSUME NEW x \in S, NEW y \in S, y < x
               PROVE  B[y] \subseteq B[x] /\ y \in B[x] /\ y \notin B[y]
    OBVIOUS
  <2>1. x \in Nat /\ y \in Nat
    BY <1>1
  <2>2. \A z \in S : z < y => z < x
    BY <1>1, <2>1
  <2>3. /\ \A z : z \in B[y] <=> z \in S /\ z < y
        /\ \A z : z \in B[x] <=> z \in S /\ z < x
    OBVIOUS
  <2> HIDE DEF B
  <2>4. B[y] \subseteq B[x]
    BY <2>2, <2>3
  <2>5. y \in B[x]
    BY <2>3
  <2>6. y \notin B[y]
    BY <2>1, <2>3
  <2> QED BY <2>4, <2>5, <2>6
<1> HIDE DEF B
<1>5. \A x \in S : IsFiniteSet(B[x]) /\ Cardinality(B[x]) \in Nat
  BY <1>1, <1>3, FS_Subset, FS_CardinalityType
<1>6. ASSUME NEW x \in S, NEW y \in S, y < x PROVE Cardinality(B[y]) < Cardinality(B[x])
  <2>1. B[y] \subseteq B[x] /\ B[y] # B[x]
    BY <1>4, <1>6
  <2>2. Cardinality(B[y]) <= Cardinality(B[x]) /\ Cardinality(B[y]) # Cardinality(B[x])
    BY <1>5, <2>1, FS_Subset
  <2> QED BY <1>5, <2>2
<1>7. ASSUME NEW x \in S PROVE Cardinality(B[x]) + 1 \in 1 .. n
  <2>1. Cardinality(B[x]) <= n /\ (Cardinality(B[x]) = n => B[x] = S)
    BY <1>1, <1>3, FS_Subset
  <2>2. B[x] # S
    BY <1>3
  <2> QED BY <1>2, <1>5, <2>1, <2>2
<1>8. f \in Injection(S, 1 .. n)
  <2>1. f \in [S -> 1 .. n]
    BY <1>7
  <2>2. ASSUME NEW x \in S, NEW y \in S, f[x] = f[y] PROVE x = y
    <3>1. Cardinality(B[x]) = Cardinality(B[y])
      BY <1>5, <2>2
    <3>2. ~(x < y) /\ ~(y < x)
      BY <1>5, <1>6, <3>1
    <3>3. x \in Nat /\ y \in Nat
      BY <1>1
    <3> QED BY <3>2, <3>3
  <2> HIDE DEF f
  <2> QED BY <2>1, <2>2 DEF Injection, IsInjective
<1>9. IsFiniteSet(1 .. n) /\ Cardinality(1 .. n) = n
  BY <1>2, FS_Interval
<1>10. f \in Surjection(S, 1 .. n)
  <2> HIDE DEF f
  <2> QED BY <1>1, <1>8, <1>9, FS_Injection
<1>11. \A i \in 1 .. n : \E x \in S : f[x] = i
  <2> HIDE DEF f
  <2> QED BY <1>10 DEF Surjection
<1>12. ASSUME NEW i \in 1 .. n
       PROVE  (CHOOSE v \in S : Cardinality({u \in S : u < v}) = i - 1) \in S
  <2>1. PICK x \in S : f[x] = i
    BY <1>11
  <2>2. Cardinality({u \in S : u < x}) = i - 1
    <3>1. Cardinality(B[x]) = i - 1
      BY <1>2, <1>5, <2>1
    <3> QED BY <3>1 DEF B
  <2> QED BY <2>2
<1>13. OldestFirst(S) \in [1 .. n -> S]
  BY <1>12 DEF OldestFirst
<1>14. OldestFirst(S) \in [1 .. n -> Video]
  BY <1>13
<1> HIDE DEF n
<1> QED BY <1>2, <1>14

\* The run, its kind and its videos.
LEMMA RunTypedKeeps ==
    ASSUME IInv, RunTyped, [Next]_vars
    PROVE  RunTyped'
<1>1. run = [kind |-> run.kind, pc |-> run.pc, queue |-> run.queue]
  BY DEF IInv, RunShape
<1>2. ASSUME NEW p, NEW q \in Seq(Video), run' = [run EXCEPT !.pc = p, !.queue = q] PROVE RunTyped'
  <2>1. run' = [kind |-> run.kind, pc |-> p, queue |-> q]
    BY <1>1, <1>2
  <2> QED BY <2>1 DEF RunTyped
<1>3. ASSUME NEW p, Goto(p) PROVE RunTyped'
  <2>1. run' = [kind |-> run.kind, pc |-> p, queue |-> run.queue]
    BY <1>1, <1>3 DEF Goto
  <2> QED BY <2>1 DEF RunTyped
<1>4. ASSUME run' = NoRun PROVE RunTyped'
  BY <1>4 DEF NoRun, RunTyped
<1>5. ASSUME run' = run PROVE RunTyped'
  BY <1>5 DEF RunTyped
<1>6. ASSUME NEW k \in {"poll", "startup", "manual"}, NEW p, NEW q \in Seq(Video), Begin(k, p, q)
      PROVE  RunTyped'
  BY <1>6 DEF Begin, RunTyped
<1>7. CASE StartPoll \/ StartStartup
  <2>1. <<>> \in Seq(Video)
    OBVIOUS
  <2> QED BY <1>6, <1>7, <2>1 DEF StartPoll, StartStartup
<1>8. ASSUME NEW v \in Video, Discover(v) \/ StartManual(v) \/ MakeEligible(v) \/ DelayEnds(v)
      PROVE  RunTyped'
  <2>1. <<v>> \in Seq(Video)
    OBVIOUS
  <2> QED BY <1>5, <1>6, <1>8, <2>1 DEF Discover, StartManual, MakeEligible, DelayEnds
<1>9. CASE Crash
  BY <1>4, <1>9 DEF Crash
<1>10. CASE UNCHANGED vars
  BY <1>5, <1>10 DEF vars
<1>11. CASE EndRun
  BY <1>4, <1>11 DEF EndRun
<1>12. CASE Reconcile \/ TakeVideo \/ TakeManual \/ Transcript
  BY <1>3, <1>12 DEF Reconcile, TakeVideo, TakeManual, Transcript
<1>13. CASE SummaryStays \/ SummariseDirectly \/ Prepare \/ QuarantineResidue \/ Conclude
  BY <1>3, <1>13 DEF SummaryStays, SummariseDirectly, Prepare, QuarantineResidue, Conclude, AfterSummary
<1>14. CASE Accept
  BY <1>5, <1>14 DEF Accept
<1>15. CASE SendTelegram \/ NoTelegram \/ SendNotice \/ NoNotice
  BY <1>3, <1>15 DEF SendTelegram, NoTelegram, SendNotice, NoNotice
<1>16. CASE Select
  <2> DEFINE due == OldestFirst({v \in Video : IsDue(mem'[v])})
             q == IF run.kind = "startup" /\ due # <<>> THEN <<Head(due)>> ELSE due
  <2>1. due \in Seq(Video)
    BY OldestFirstIs
  <2>2. run' = [run EXCEPT !.pc = "next", !.queue = q]
    BY <1>16 DEF Select
  <2> HIDE DEF due
  <2>3. q \in Seq(Video)
    BY <2>1
  <2> QED BY <1>2, <2>2, <2>3
<1>17. CASE Commit
  <2>1. CASE run.kind = "manual"
    BY <1>4, <1>17, <2>1 DEF Commit
  <2>2. CASE run.kind # "manual"
    <3>1. run.queue # <<>> /\ run.queue \in Seq(Video)
      BY <1>17 DEF Commit, IInv, RunShape, RunTyped, Busy
    <3>2. Tail(run.queue) \in Seq(Video)
      BY <3>1
    <3>3. run' = [run EXCEPT !.pc = "next", !.queue = Tail(run.queue)]
      BY <1>17, <2>2 DEF Commit
    <3> QED BY <1>2, <3>2, <3>3
  <2> QED BY <2>1, <2>2
<1> QED BY <1>7, <1>8, <1>9, <1>10, <1>11, <1>12, <1>13, <1>14, <1>15, <1>16, <1>17
        DEF Next, RunStep, ProcessVideo

\* The run's video is one.
LEMMA AtHandIsVideo ==
    ASSUME IInv, RunTyped, run.pc \in Busy \/ run.queue # <<>>
    PROVE  Current \in Video
<1>1. run.queue # <<>> /\ run.queue \in Seq(Video)
  BY DEF IInv, RunShape, RunTyped
<1> QED BY <1>1 DEF Current

\* Only what the bound allows happens in doubt.
LEMMA FaultsKeep ==
    ASSUME Attempts, [Next]_vars
    PROVE  /\ faults' \in 0 .. MaxFaults /\ faults' >= faults /\ shortsEnabled' \in BOOLEAN
           /\ faults \in Nat /\ faults' \in Nat
<1>1. MaxFaults \in Nat /\ faults \in 0 .. MaxFaults /\ shortsEnabled \in BOOLEAN
  BY PipelineAssumption DEF Attempts, PipelineAssumption
<1>2. faults' = faults \/ (faults < MaxFaults /\ faults' = faults + 1)
  BY DEF Next, StartPoll, StartStartup, StartManual, Begin, Discover, MakeEligible, DelayEnds, RunStep,
         Reconcile, Select, ProcessVideo, EndRun, TakeVideo, TakeManual, Transcript, SummaryStays,
         SummariseDirectly, Prepare, QuarantineResidue, Accept, Conclude, SendTelegram, NoTelegram,
         SendNotice, NoNotice, Commit, Crash, InDoubt, vars, history
<1>3. shortsEnabled' \in BOOLEAN
  <2>1. shortsEnabled' = shortsEnabled \/ shortsEnabled' \in BOOLEAN
    BY DEF Next, StartPoll, StartStartup, StartManual, Begin, Discover, MakeEligible, DelayEnds, RunStep,
           Reconcile, Select, ProcessVideo, EndRun, TakeVideo, TakeManual, Transcript, SummaryStays,
           SummariseDirectly, Prepare, QuarantineResidue, Accept, Conclude, SendTelegram, NoTelegram,
           SendNotice, NoNotice, Commit, Crash, At, vars
  <2> QED BY <1>1, <2>1
<1> QED BY <1>1, <1>2, <1>3

-----------------------------------------------------------------------------
(* Rows and their attempts.                                                *)

\* q has had the attempts of r, and no stage of it may be tried that of r may not.
NoDearer(r, q) ==
    /\ q.tries = r.tries
    /\ \A s \in Automatic : q.at[s] \in Undecided => r.at[s] \in Undecided
    /\ q.held = "no" /\ q.at["summary"] \in Undecided => r.held = "no"

\* Such a row keeps within the bounds.
LEMMA NoDearerKeeps ==
    ASSUME NEW r, NEW q, NEW f, NoDearer(r, q)
    PROVE  (Spends(r, f) => Spends(q, f)) /\ (Rested(r, f) => Rested(q, f))
  BY Names DEF NoDearer, Spends, Rested

\* The attempts of a row are numbers.
LEMMA TriesAre ==
    ASSUME NEW r \in Loose
    PROVE  /\ r.tries["transcript"] \in Nat /\ r.tries["summary"] \in Nat /\ r.tries["telegram"] \in Nat
           /\ MaxAttempts \in Nat /\ MaxAttempts > 0
  BY Names, PipelineAssumption DEF Loose, PipelineAssumption

\* A fault more allows an attempt more.
LEMMA Later ==
    ASSUME NEW r \in Loose, NEW f \in Nat, NEW g \in Nat, f <= g, Spends(r, f)
    PROVE  /\ Spends(r, g)
           /\ Rested(r, f) => Rested(r, g)
           /\ f < g => Rested(r, g)
<1>1. r.tries["summary"] <= MaxAttempts + g
  BY TriesAre DEF Spends
<1>2. Rested(r, f) => Rested(r, g)
  BY TriesAre DEF Rested
<1>3. f < g => Rested(r, g)
  BY TriesAre DEF Spends, Rested
<1> QED BY <1>1, <1>2, <1>3 DEF Spends

\* A decided stage costs nothing.
LEMMA EndedCosts ==
    ASSUME NEW r \in Loose, NEW s \in Stage, NEW end \in Status
    PROVE  /\ Ended(r, s, end).tries = r.tries
           /\ end \notin Undecided \/ s = "fallback" => NoDearer(r, Ended(r, s, end))
<1>1. Ended(r, s, end).tries = r.tries
  BY DEF Ended, Loose
<1>2. /\ \A t \in Stage : Ended(r, s, end).at[t] = IF t = s THEN end ELSE r.at[t]
      /\ Ended(r, s, end).held = r.held
  BY EndedIs
<1>3. \A t \in Automatic : t \in Stage /\ t # "fallback"
  BY DEF Automatic, Stage, Content
<1> QED BY <1>1, <1>2, <1>3 DEF NoDearer

\* Nor do stages that are created, or closed with their Short.
LEMMA StagesCost ==
    ASSUME NEW r \in Loose, NEW stages
    PROVE  NoDearer(r, WithStages(r, stages)) /\ NoDearer(r, SkippedShort(r))
<1>1. NoDearer(r, WithStages(r, stages))
  <2>1. WithStages(r, stages).tries = r.tries
    BY DEF WithStages, Loose
  <2>2. \A t \in Automatic : t \in Stage
    BY DEF Stage
  <2> QED BY <2>1, <2>2, WithStagesIs DEF NoDearer, Undecided
<1>2. NoDearer(r, SkippedShort(r))
  <2> DEFINE at == [s \in Stage |-> IF Open(r, s) THEN "skipped" ELSE r.at[s]]
  <2>1. SkippedShort(r) = [r EXCEPT !.at = at]
    BY DEF SkippedShort
  <2>2. \A s \in Automatic : at[s] = IF r.at[s] = "pending" THEN "skipped" ELSE r.at[s]
    BY DEF Open, Stage
  <2> HIDE DEF at
  <2>3. SkippedShort(r).at = at /\ SkippedShort(r).tries = r.tries /\ SkippedShort(r).held = r.held
    BY <2>1 DEF Loose
  <2> QED BY <2>2, <2>3 DEF NoDearer, Undecided
<1> QED BY <1>1, <1>2

\* _skip_stage
LEMMA SkippedCosts ==
    ASSUME NEW r \in Loose, NEW s \in Stage
    PROVE  NoDearer(r, Skipped(r, s))
<1>1. NoDearer(r, r)
  BY DEF NoDearer
<1>2. NoDearer(r, Ended(r, s, "skipped"))
  BY Names, EndedCosts DEF Undecided
<1> QED BY <1>1, <1>2 DEF Skipped

\* An attempt of a stage is one more.
LEMMA AttemptCosts ==
    ASSUME NEW r \in Loose, NEW s \in Automatic
    PROVE  /\ \A t \in Automatic :
                 Attempted(r, s).tries[t] = IF t = s THEN r.tries[t] + 1 ELSE r.tries[t]
<1>1. r.tries \in [Automatic -> Nat]
  BY DEF Loose
<1>2. Attempted(r, s).tries = [r.tries EXCEPT ![s] = @ + 1]
  BY DEF Attempted, Loose
<1> QED BY <1>1, <1>2

\* A stage with an attempt left is tried, and given up with its last one.
LEMMA TriedRow ==
    ASSUME NEW r \in Loose, NEW f \in Nat, Spends(r, f), Rested(r, f),
           NEW s \in Automatic, r.at[s] \in Undecided, s = "summary" => r.held = "no",
           NEW a \in Loose, a = Attempted(r, s), NEW end \in Status,
           end \in Undecided => a.tries[s] < MaxAttempts,
           NEW q, q.tries = a.tries, q.held = r.held,
           \A t \in Stage : q.at[t] = IF t = s THEN end ELSE a.at[t]
    PROVE  Spends(q, f) /\ Rested(q, f)
<1>1. \A t \in Automatic : t \in Stage
  BY DEF Stage
<1>2. /\ \A t \in Automatic : a.tries[t] = IF t = s THEN r.tries[t] + 1 ELSE r.tries[t]
      /\ a.at = r.at
  BY AttemptCosts, AttemptedIs
<1>3. \A t \in Automatic :
         /\ q.tries[t] = IF t = s THEN r.tries[t] + 1 ELSE r.tries[t]
         /\ q.at[t] = IF t = s THEN end ELSE r.at[t]
  BY <1>1, <1>2
<1>4. /\ r.tries["transcript"] \in Nat /\ r.tries["summary"] \in Nat /\ r.tries["telegram"] \in Nat
      /\ MaxAttempts \in Nat
  BY TriesAre
<1>5. ASSUME NEW t \in {"transcript", "telegram"}
      PROVE  q.tries[t] <= MaxAttempts /\ (q.at[t] \in Undecided => q.tries[t] < MaxAttempts)
  <2>1. r.tries[t] \in Nat /\ r.tries[t] <= MaxAttempts
        /\ (r.at[t] \in Undecided => r.tries[t] < MaxAttempts)
    BY <1>4 DEF Spends
  <2>2. CASE t = s
    BY <1>2, <1>3, <1>4, <2>1, <2>2, Names
  <2>3. CASE t # s
    BY <1>3, <2>1, <2>3, Names
  <2> QED BY <2>2, <2>3
<1>6. q.tries["summary"] <= MaxAttempts + f
  BY <1>3, <1>4, Names DEF Spends, Rested
<1>7. Rested(q, f)
  <2>1. CASE s = "summary"
    BY <1>2, <1>3, <1>4, <2>1, Names DEF Rested
  <2>2. CASE s # "summary"
    BY <1>3, <2>2, Names DEF Rested
  <2> QED BY <2>1, <2>2
<1> QED BY <1>5, <1>6, <1>7 DEF Spends

\* The three ends of an attempt.
LEMMA AttemptEnds ==
    ASSUME NEW r \in Loose, NEW f \in Nat, Spends(r, f), Rested(r, f),
           NEW s \in Automatic, r.at[s] \in Undecided, s = "summary" => r.held = "no",
           NEW end \in {"completed", "failed"}
    PROVE  /\ Spends(Ended(Attempted(r, s), s, end), f) /\ Rested(Ended(Attempted(r, s), s, end), f)
           /\ Spends(Retried(Attempted(r, s), s), f) /\ Rested(Retried(Attempted(r, s), s), f)
<1> DEFINE a == Attempted(r, s)
<1>1. a \in Loose /\ a.held = r.held /\ s \in Stage
  BY AttemptedIs DEF Stage
<1>2. a.tries[s] \in Nat /\ MaxAttempts \in Nat
  BY <1>1, PipelineAssumption DEF Loose, PipelineAssumption
<1>3. a = Attempted(r, s)
  OBVIOUS
<1> HIDE DEF a
<1>4. ASSUME NEW e \in Status, e \in Undecided => a.tries[s] < MaxAttempts
      PROVE  Spends(Ended(a, s, e), f) /\ Rested(Ended(a, s, e), f)
  <2>1. /\ Ended(a, s, e).tries = a.tries /\ Ended(a, s, e).held = r.held
        /\ \A t \in Stage : Ended(a, s, e).at[t] = IF t = s THEN e ELSE a.at[t]
    BY <1>1, EndedIs, EndedCosts
  <2> QED BY <1>1, <1>3, <1>4, <2>1, TriedRow
<1>5. Spends(Ended(a, s, end), f) /\ Rested(Ended(a, s, end), f)
  BY <1>4, Names DEF Undecided
<1>6. Spends(Retried(a, s), f) /\ Rested(Retried(a, s), f)
  <2>1. CASE a.tries[s] >= MaxAttempts
    <3>1. Retried(a, s) = Ended(a, s, "failed")
      BY <2>1 DEF Retried
    <3> QED BY <1>4, <3>1, Names DEF Undecided
  <2>2. CASE ~(a.tries[s] >= MaxAttempts)
    <3>1. Retried(a, s) = Ended(a, s, "pending") /\ a.tries[s] < MaxAttempts
      BY <1>2, <2>2 DEF Retried
    <3> QED BY <1>4, <3>1, Names
  <2> QED BY <2>1, <2>2
<1> QED BY <1>3, <1>5, <1>6

\* The summary is counted before it is made.
LEMMA SummaryAttempt ==
    ASSUME NEW r \in Loose, NEW f \in Nat, Spends(r, f), Rested(r, f),
           r.at["summary"] = "pending", r.held = "no"
    PROVE  Spends(Attempted(r, "summary"), f)
<1> DEFINE a == Attempted(r, "summary")
<1>1. /\ \A t \in Automatic : a.tries[t] = IF t = "summary" THEN r.tries[t] + 1 ELSE r.tries[t]
      /\ a.at = r.at
  BY AttemptCosts, AttemptedIs, Names
<1> HIDE DEF a
<1>2. a.tries["summary"] <= MaxAttempts + f
  BY <1>1, TriesAre, Names DEF Rested, Undecided
<1>3. Spends(a, f)
  BY <1>1, <1>2, Names DEF Spends
<1> QED BY <1>3 DEF a

\* A summary that ended, is held, or was not its last attempt.
LEMMA SummaryRests ==
    ASSUME NEW r, NEW f \in Nat, Spends(r, f), NEW q \in Loose, q.tries = r.tries,
           q.at["transcript"] = r.at["transcript"], q.at["telegram"] = r.at["telegram"],
           \/ q.at["summary"] \notin Undecided \/ q.held # "no"
           \/ q.tries["summary"] < MaxAttempts
    PROVE  Spends(q, f) /\ Rested(q, f)
<1>1. Spends(q, f)
  BY DEF Spends
<1>2. Rested(q, f)
  BY TriesAre DEF Rested
<1> QED BY <1>1, <1>2

\* The ends of a summary, each with the attempts it has had.
LEMMA SummaryEndings ==
    ASSUME NEW r \in Loose, NEW f \in Nat, Spends(r, f)
    PROVE  /\ Spends(Summarised(r), f) /\ Rested(Summarised(r), f)
           /\ Spends(Postponed(r), f) /\ Rested(Postponed(r), f)
           /\ Spends(Quarantined(r), f) /\ Rested(Quarantined(r), f)
           /\ Spends(Ended(r, "summary", "failed"), f) /\ Rested(Ended(r, "summary", "failed"), f)
           /\ Spends(Retried(r, "summary"), f) /\ Rested(Retried(r, "summary"), f)
<1>1. /\ r.tries["summary"] \in Nat /\ MaxAttempts \in Nat
  BY TriesAre
<1>2. ASSUME NEW end \in {"failed", "pending", "completed"}
      PROVE  /\ Ended(r, "summary", end) \in Loose /\ Ended(r, "summary", end).tries = r.tries
             /\ Ended(r, "summary", end).at["summary"] = end
             /\ Ended(r, "summary", end).at["transcript"] = r.at["transcript"]
             /\ Ended(r, "summary", end).at["telegram"] = r.at["telegram"]
  <2>1. end \in Status /\ "summary" \in Stage
    BY Names
  <2>2. /\ Ended(r, "summary", end) \in Loose
        /\ \A t \in Stage : Ended(r, "summary", end).at[t] = IF t = "summary" THEN end ELSE r.at[t]
    BY <2>1, EndedIs
  <2>3. Ended(r, "summary", end).tries = r.tries
    BY <2>1, EndedCosts
  <2>4. "transcript" \in Stage /\ "telegram" \in Stage
    BY Names
  <2> QED BY <2>1, <2>2, <2>3, <2>4
<1>3. ASSUME NEW q \in Loose, NEW e, e.tries = r.tries, e.at["transcript"] = r.at["transcript"],
             e.at["telegram"] = r.at["telegram"], q.tries = e.tries, q.at = e.at,
             e.at["summary"] \notin Undecided \/ q.held # "no" \/ r.tries["summary"] < MaxAttempts
      PROVE  Spends(q, f) /\ Rested(q, f)
  BY <1>3, SummaryRests
<1>4. Spends(Ended(r, "summary", "failed"), f) /\ Rested(Ended(r, "summary", "failed"), f)
  BY <1>2, <1>3 DEF Undecided
<1>5. Spends(Summarised(r), f) /\ Rested(Summarised(r), f)
  <2> DEFINE e == Ended(r, "summary", "completed")
             text == e.text \union {"summary"}
  <2>1. Summarised(r) = [e EXCEPT !.text = text, !.residue = "none"]
    BY DEF Summarised
  <2>2. e \in Loose
    BY <1>2
  <2>3. /\ e.tries = r.tries /\ e.at["transcript"] = r.at["transcript"]
        /\ e.at["telegram"] = r.at["telegram"] /\ e.at["summary"] \notin Undecided
    BY <1>2 DEF Undecided
  <2> HIDE DEF e, text
  <2>4. Summarised(r).tries = e.tries /\ Summarised(r).at = e.at /\ Summarised(r) \in Loose
    BY <2>1, <2>2, SummarisedIs DEF Loose
  <2> QED BY <1>3, <2>3, <2>4
<1>6. Spends(Postponed(r), f) /\ Rested(Postponed(r), f)
  <2>1. CASE r.tries["summary"] >= MaxAttempts
    <3>1. Postponed(r) = Ended(r, "summary", "failed")
      BY <2>1 DEF Postponed
    <3> QED BY <1>4, <3>1
  <2>2. CASE ~(r.tries["summary"] >= MaxAttempts)
    <3> DEFINE e == Ended(r, "summary", "pending")
    <3>1. Postponed(r) = [e EXCEPT !.delayed = TRUE]
      BY <2>2 DEF Postponed
    <3>2. /\ e \in Loose /\ e.tries = r.tries /\ e.at["transcript"] = r.at["transcript"]
          /\ e.at["telegram"] = r.at["telegram"] /\ r.tries["summary"] < MaxAttempts
      BY <1>1, <1>2, <2>2
    <3> HIDE DEF e
    <3>3. Postponed(r).tries = e.tries /\ Postponed(r).at = e.at /\ Postponed(r) \in Loose
      BY <3>1, <3>2, PostponedIs DEF Loose
    <3> QED BY <1>3, <3>2, <3>3
  <2> QED BY <2>1, <2>2
<1>7. Spends(Quarantined(r), f) /\ Rested(Quarantined(r), f)
  <2> DEFINE e == Ended(r, "summary", "pending")
             held == IF r.residue = "accepted" THEN "awaiting" ELSE "blocked"
  <2>1. Quarantined(r) = [e EXCEPT !.residue = "none", !.held = held] /\ held # "no"
    BY DEF Quarantined
  <2>2. /\ e \in Loose /\ e.tries = r.tries /\ e.at["transcript"] = r.at["transcript"]
        /\ e.at["telegram"] = r.at["telegram"]
    BY <1>2
  <2> HIDE DEF e, held
  <2>3. /\ Quarantined(r).tries = e.tries /\ Quarantined(r).at = e.at /\ Quarantined(r) \in Loose
        /\ Quarantined(r).held = held
    BY <2>1, <2>2, QuarantinedIs DEF Loose
  <2> QED BY <1>3, <2>1, <2>2, <2>3
<1>8. Spends(Retried(r, "summary"), f) /\ Rested(Retried(r, "summary"), f)
  <2>1. CASE r.tries["summary"] >= MaxAttempts
    <3>1. Retried(r, "summary") = Ended(r, "summary", "failed")
      BY <2>1 DEF Retried
    <3> QED BY <1>4, <3>1
  <2>2. CASE ~(r.tries["summary"] >= MaxAttempts)
    <3>1. Retried(r, "summary") = Ended(r, "summary", "pending") /\ r.tries["summary"] < MaxAttempts
      BY <1>1, <2>2 DEF Retried
    <3> QED BY <1>2, <1>3, <3>1
  <2> QED BY <2>1, <2>2
<1> QED BY <1>4, <1>5, <1>6, <1>7, <1>8

\* The answer to the GET: an interim summary gives its attempt back.
LEMMA AfterGetCosts ==
    ASSUME NEW v, NEW r, RowOK(v, r), r.held = "eligible", NEW answer \in GetAnswer,
           NEW f \in Nat, Spends(r, f)
    PROVE  Spends(AfterGet(r, answer), f) /\ Rested(AfterGet(r, answer), f)
<1> DEFINE free == [r EXCEPT !.held = "no"]
           q == AfterGet(r, answer)
<1>1. r \in Loose /\ q \in Loose
  BY AfterGetKeeps DEF RowOK
<1>2. free \in Loose /\ free.at = r.at /\ free.tries = r.tries
  <2>1. free \in Loose
    BY <1>1, ZenonT(60) DEF Loose
  <2> QED BY <1>1, <2>1 DEF Loose
<1> HIDE DEF free
<1>3. ASSUME NEW end \in {"failed", "pending", "completed"}
      PROVE  /\ Ended(free, "summary", end) \in Loose /\ Ended(free, "summary", end).tries = r.tries
             /\ Ended(free, "summary", end).at["summary"] = end
             /\ Ended(free, "summary", end).at["transcript"] = r.at["transcript"]
             /\ Ended(free, "summary", end).at["telegram"] = r.at["telegram"]
  <2>1. end \in Status /\ "summary" \in Stage
    BY Names
  <2>2. /\ Ended(free, "summary", end) \in Loose
        /\ \A t \in Stage : Ended(free, "summary", end).at[t] = IF t = "summary" THEN end ELSE free.at[t]
    BY <1>2, <2>1, EndedIs
  <2>3. Ended(free, "summary", end).tries = free.tries
    BY <1>2, <2>1, EndedCosts
  <2>4. "transcript" \in Stage /\ "telegram" \in Stage
    BY Names
  <2> QED BY <1>2, <2>1, <2>2, <2>3, <2>4
<1>4. CASE answer = "undecided"
  <2>1. q = r
    BY <1>4 DEF AfterGet
  <2> QED BY <2>1 DEF Rested
<1>5. CASE answer = "useless"
  <2>1. q = Ended(free, "summary", "failed")
    BY <1>5 DEF AfterGet, free
  <2> HIDE DEF q
  <2>2. /\ q.tries = r.tries /\ q.at["transcript"] = r.at["transcript"]
        /\ q.at["telegram"] = r.at["telegram"] /\ q.at["summary"] \notin Undecided
    BY <1>3, <2>1 DEF Undecided
  <2> QED BY <1>1, <2>2, SummaryRests DEF q
<1>6. CASE answer = "summary"
  <2> DEFINE e == Ended(free, "summary", "completed")
             text == e.text \union {"summary"}
  <2>1. q = [e EXCEPT !.text = text]
    BY <1>6 DEF AfterGet, free
  <2>2. /\ e \in Loose /\ e.tries = r.tries /\ e.at["transcript"] = r.at["transcript"]
        /\ e.at["telegram"] = r.at["telegram"] /\ e.at["summary"] \notin Undecided
    BY <1>3 DEF Undecided
  <2> HIDE DEF e, text, q
  <2>3. q.tries = e.tries /\ q.at = e.at
    BY <2>1, <2>2 DEF Loose
  <2> QED BY <1>1, <2>2, <2>3, SummaryRests DEF q
<1>7. CASE answer = "part"
  <2> DEFINE e == Ended(free, "summary", "pending")
             n == IF e.tries["summary"] > 0 THEN e.tries["summary"] - 1 ELSE 0
             tries == [e.tries EXCEPT !["summary"] = n]
  <2>1. q = [e EXCEPT !.delayed = FALSE, !.tries = tries]
    BY <1>7 DEF AfterGet, free
  <2>2. /\ e \in Loose /\ e.tries = r.tries /\ e.at["transcript"] = r.at["transcript"]
        /\ e.at["telegram"] = r.at["telegram"]
    BY <1>3
  <2>3. /\ r.tries["summary"] \in Nat /\ r.tries["summary"] <= MaxAttempts + f
        /\ MaxAttempts \in Nat /\ MaxAttempts > 0
    BY <1>1, TriesAre DEF Spends
  <2>4. n < MaxAttempts + f /\ n <= MaxAttempts + f
    <3> HIDE DEF e
    <3> QED BY <2>2, <2>3
  <2>5. /\ tries["summary"] = n /\ tries["transcript"] = r.tries["transcript"]
        /\ tries["telegram"] = r.tries["telegram"]
    <3> HIDE DEF e, n
    <3>1. e.tries \in [Automatic -> Nat]
      BY <2>2 DEF Loose
    <3> QED BY <2>2, <3>1, Names
  <2> HIDE DEF e, n, tries, q
  <2>6. q.tries = tries /\ q.at = e.at
    BY <2>1, <2>2 DEF Loose
  <2>7. Spends(q, f)
    BY <2>2, <2>4, <2>5, <2>6 DEF Spends
  <2>8. Rested(q, f)
    BY <2>4, <2>5, <2>6 DEF Rested
  <2> QED BY <2>7, <2>8 DEF q
<1> QED BY <1>4, <1>5, <1>6, <1>7 DEF GetAnswer

\* _attempt_transcript_stage
LEMMA TranscriptCosts ==
    ASSUME NEW r \in Loose, NEW f \in Nat, Spends(r, f), Rested(r, f), NEW q \in AfterTranscript(r)
    PROVE  Spends(q, f) /\ Rested(q, f)
<1>1. CASE ~Open(r, "transcript")
  BY <1>1 DEF AfterTranscript
<1>2. CASE Open(r, "transcript") /\ "transcript" \in r.text
  <2>1. q = Ended(r, "transcript", "completed")
    BY <1>2 DEF AfterTranscript
  <2>2. NoDearer(r, q)
    BY <2>1, EndedCosts, Names DEF Undecided
  <2> QED BY <2>2, NoDearerKeeps
<1>3. CASE Open(r, "transcript") /\ "transcript" \notin r.text
  <2> DEFINE a == Attempted(r, "transcript")
             e == Ended(a, "transcript", "completed")
             text == e.text \union {"transcript"}
  <2>1. q \in {Retried(a, "transcript"), Ended(a, "transcript", "failed"), [e EXCEPT !.text = text]}
    BY <1>3 DEF AfterTranscript, TranscriptAttempts
  <2>2. "transcript" \in Automatic /\ r.at["transcript"] \in Undecided
    BY <1>3, Names DEF Open, Undecided
  <2>3. \A end \in {"completed", "failed"} :
           Spends(Ended(a, "transcript", end), f) /\ Rested(Ended(a, "transcript", end), f)
    BY <2>2, AttemptEnds
  <2>4. Spends(Retried(a, "transcript"), f) /\ Rested(Retried(a, "transcript"), f)
    BY <2>2, AttemptEnds
  <2>5. e \in Loose
    BY <2>2, AttemptedIs, EndedIs, Names
  <2>6. Spends(e, f) /\ Rested(e, f)
    BY <2>3
  <2> HIDE DEF a, e, text
  <2>7. CASE q = [e EXCEPT !.text = text]
    <3>1. q.tries = e.tries /\ q.at = e.at /\ q.held = e.held
      BY <2>5, <2>7 DEF Loose
    <3>2. NoDearer(e, q)
      BY <3>1 DEF NoDearer
    <3> QED BY <2>6, <3>2, NoDearerKeeps
  <2> QED BY <2>1, <2>3, <2>4, <2>7
<1> QED BY <1>1, <1>2, <1>3

-----------------------------------------------------------------------------
(* Steps and the attempts they make.                                       *)

\* The rows of the database and of the session.
LEMMA AllLoose ==
    ASSUME IInv
    PROVE  /\ db \in [Video -> Loose] /\ mem \in [Video -> Loose]
           /\ \A v \in Video : db[v] \in Loose /\ mem[v] \in Loose
  BY DEF IInv, Books, RowsOK

\* What rested may have rested longer.
LEMMA LaterRows ==
    ASSUME NEW t \in [Video -> Loose], NEW f \in Nat, NEW g \in Nat, f <= g, AllRested(t, f)
    PROVE  AllRested(t, g)
  BY Later DEF AllRested

\* A step that tries nothing.
LEMMA CheapStep ==
    ASSUME IInv, Bounded, faults \in Nat, faults' \in Nat, faults <= faults',
           (run.pc # "inference" /\ run'.pc # "inference") \/ run' = run,
           \A v \in Video : \E r \in {db[v], mem[v]} : NoDearer(r, db'[v]),
           \A v \in Video : \E r \in {db[v], mem[v]} : NoDearer(r, mem'[v])
    PROVE  Bounded'
<1>1. \A v \in Video : \A r \in {db[v], mem[v]} :
         /\ Spends(r, faults) => Spends(r, faults')
         /\ Spends(r, faults) /\ Rested(r, faults) => Rested(r, faults')
  BY AllLoose, Later
<1>2. CASE run.pc # "inference" /\ run'.pc # "inference"
  <2>1. \A v \in Video : \A r \in {db[v], mem[v]} : Spends(r, faults') /\ Rested(r, faults')
    BY <1>1, <1>2 DEF Bounded, AllRested
  <2>2. AllRested(db', faults') /\ AllRested(mem', faults')
    BY <2>1, NoDearerKeeps DEF AllRested
  <2> QED BY <1>2, <2>2 DEF Bounded, AllRested
<1>3. CASE run' = run /\ run.pc = "inference"
  <2>1. Current' = Current
    BY <1>3 DEF Current
  <2>2. \A v \in Video : \A r \in {db[v], mem[v]} :
           Spends(r, faults') /\ (v # Current => Rested(r, faults'))
    BY <1>1, <1>3 DEF Bounded, RestedElsewhere
  <2>3. \A v \in Video :
           /\ Spends(db'[v], faults') /\ Spends(mem'[v], faults')
           /\ v # Current => Rested(db'[v], faults') /\ Rested(mem'[v], faults')
    BY <2>2, NoDearerKeeps
  <2> QED BY <1>3, <2>1, <2>3 DEF Bounded, RestedElsewhere
<1> QED BY <1>2, <1>3

\* A row is no dearer than itself, nor than the same with another marker or delay.
LEMMA SameCost ==
    ASSUME NEW r
    PROVE  /\ NoDearer(r, r)
           /\ r \in Loose => \A x : NoDearer(r, [r EXCEPT !.residue = x])
                                    /\ NoDearer(r, [r EXCEPT !.delayed = x])
<1>1. NoDearer(r, r)
  BY DEF NoDearer
<1>2. ASSUME r \in Loose, NEW x PROVE NoDearer(r, [r EXCEPT !.residue = x])
  BY <1>2 DEF NoDearer, Loose
<1>3. ASSUME r \in Loose, NEW x PROVE NoDearer(r, [r EXCEPT !.delayed = x])
  BY <1>3 DEF NoDearer, Loose
<1> QED BY <1>1, <1>2, <1>3

\* The session works on the video at hand and tries nothing.
LEMMA CheapRow ==
    ASSUME IInv, Bounded, faults \in Nat, faults' \in Nat, faults <= faults',
           run.pc # "inference", run'.pc # "inference", db' = db,
           NEW r, Becomes(r), Current \in Video, NoDearer(mem[Current], r)
    PROVE  Bounded'
<1>1. \A v \in Video : mem'[v] = IF v = Current THEN r ELSE mem[v]
  BY AllLoose DEF Becomes
<1>2. \A v \in Video : NoDearer(mem[v], mem'[v]) /\ NoDearer(db[v], db'[v])
  BY <1>1, SameCost
<1> QED BY <1>2, CheapStep

\* The session works on the video at hand and tries a stage of it.
LEMMA DearRow ==
    ASSUME IInv, Bounded, faults \in Nat, faults' \in Nat, faults <= faults',
           run.pc # "inference", run'.pc # "inference", db' = db,
           NEW r \in Loose, Becomes(r), Current \in Video,
           Spends(r, faults), Rested(r, faults)
    PROVE  Bounded'
<1>1. \A v \in Video : mem'[v] = IF v = Current THEN r ELSE mem[v]
  BY AllLoose DEF Becomes
<1>2. mem' \in [Video -> Loose]
  BY AllLoose DEF Becomes
<1>3. AllRested(db, faults) /\ AllRested(mem', faults)
  BY <1>1 DEF Bounded, AllRested
<1>4. AllRested(db, faults') /\ AllRested(mem', faults')
  BY <1>2, <1>3, AllLoose, LaterRows
<1> QED BY <1>4 DEF Bounded, AllRested

\* The broker's coordinator commits what it does to the video at hand.
LEMMA CommittedCost ==
    ASSUME IInv, Bounded, faults' = faults, NEW r, BecomesCommitted(r), Current \in Video,
           Spends(r, faults),
           Rested(r, faults) \/ (run'.pc = "inference" /\ Current' = Current)
    PROVE  Bounded'
<1>1. \A v \in Video : mem'[v] = (IF v = Current THEN r ELSE mem[v]) /\ db'[v] = mem'[v]
  BY AllLoose DEF Becomes, BecomesCommitted
<1>2. \A v \in Video : Spends(mem[v], faults) /\ (v # Current => Rested(mem[v], faults))
  BY DEF Bounded, AllRested, RestedElsewhere
<1>3. \A v \in Video :
         /\ Spends(mem'[v], faults) /\ Spends(db'[v], faults)
         /\ v # Current => Rested(mem'[v], faults) /\ Rested(db'[v], faults)
  BY <1>1, <1>2
<1>4. CASE Rested(r, faults)
  <2>1. \A v \in Video : Rested(mem'[v], faults) /\ Rested(db'[v], faults)
    BY <1>1, <1>3, <1>4
  <2> QED BY <1>3, <2>1 DEF Bounded, AllRested, RestedElsewhere
<1>5. CASE run'.pc = "inference" /\ Current' = Current
  BY <1>3, <1>5 DEF Bounded, RestedElsewhere
<1> QED BY <1>4, <1>5

\* What the world and the clock do.
LEMMA WorldCosts ==
    ASSUME IInv, Attempts, faults \in Nat,
           \/ StartPoll \/ StartStartup \/ UNCHANGED vars
           \/ \E v \in Video : Discover(v) \/ StartManual(v) \/ MakeEligible(v) \/ DelayEnds(v)
    PROVE  Bounded'
<1> USE DEF Attempts
<1>1. faults' = faults
  BY DEF StartPoll, StartStartup, StartManual, Begin, Discover, MakeEligible, DelayEnds, vars
<1>2. CASE StartPoll \/ StartStartup \/ UNCHANGED vars \/ \E v \in Video : StartManual(v)
  <2>1. db' = db /\ mem' = mem
    BY <1>2 DEF StartPoll, StartStartup, StartManual, Begin, vars
  <2>2. (run.pc # "inference" /\ run'.pc # "inference") \/ run' = run
    BY <1>2 DEF StartPoll, StartStartup, StartManual, Begin, vars, NoRun
  <2>3. \A v \in Video : NoDearer(db[v], db'[v]) /\ NoDearer(mem[v], mem'[v])
    BY <2>1, SameCost
  <2> QED BY <1>1, <2>2, <2>3, CheapStep
<1>3. ASSUME NEW v \in Video, Discover(v) PROVE Bounded'
  <2>1. run' = run /\ mem' = db' /\ db' = [db EXCEPT ![v] = WithStages(db[v], Automatic)]
    BY <1>3 DEF Discover
  <2>2. \A u \in Video : NoDearer(db[u], db'[u])
    BY <2>1, AllLoose, SameCost, StagesCost
  <2> QED BY <1>1, <2>1, <2>2, CheapStep
<1>4. ASSUME NEW v \in Video, MakeEligible(v) PROVE Bounded'
  <2>1. run' = run /\ mem' = db' /\ db' = [db EXCEPT ![v] = [db[v] EXCEPT !.held = "eligible"]]
    BY <1>4 DEF MakeEligible
  <2>2. NoDearer(db[v], [db[v] EXCEPT !.held = "eligible"])
    <3>1. db[v] \in Loose
      BY AllLoose
    <3> QED BY <3>1 DEF NoDearer, Loose
  <2>3. \A u \in Video : NoDearer(db[u], db'[u])
    BY <2>1, <2>2, AllLoose, SameCost
  <2> QED BY <1>1, <2>1, <2>3, CheapStep
<1>5. ASSUME NEW v \in Video, DelayEnds(v) PROVE Bounded'
  <2>1. /\ run' = run /\ db' = [db EXCEPT ![v] = [db[v] EXCEPT !.delayed = FALSE]]
        /\ mem' = [mem EXCEPT ![v] = [mem[v] EXCEPT !.delayed = FALSE]]
    BY <1>5 DEF DelayEnds
  <2>2. \A u \in Video : NoDearer(db[u], db'[u]) /\ NoDearer(mem[u], mem'[u])
    BY <2>1, AllLoose, SameCost
  <2>3. run' = run
    BY <2>1
  <2> QED BY <1>1, <2>2, <2>3, CheapStep
<1> QED BY <1>2, <1>3, <1>4, <1>5

\* A run that dies leaves a summary it was making with its attempt counted: the
\* fault allows for it.
LEMMA CrashCosts ==
    ASSUME IInv, Attempts, Crash, faults \in Nat
    PROVE  Bounded'
<1>1. faults' = faults + 1 /\ mem' = db /\ db' = db /\ run'.pc = "idle"
  BY DEF Crash, NoRun
<1>2. \A v \in Video : Spends(db[v], faults)
  BY DEF Attempts, Bounded, AllRested, RestedElsewhere
<1>3. \A v \in Video : Spends(db[v], faults') /\ Rested(db[v], faults')
  BY <1>1, <1>2, AllLoose, Later
<1> QED BY <1>1, <1>3 DEF Bounded, AllRested

\* The selection of a drain, and its end.
LEMMA DrainCosts ==
    ASSUME IInv, Attempts, faults \in Nat, Reconcile \/ Select \/ Commit \/ EndRun, IInv'
    PROVE  Bounded'
<1> USE DEF Attempts
<1>1. faults' = faults /\ run.pc # "inference"
  BY DEF Reconcile, Select, Commit, EndRun, At
<1>2. run'.pc # "inference"
  <2>1. run = [kind |-> run.kind, pc |-> run.pc, queue |-> run.queue]
    BY DEF IInv, RunShape
  <2>2. CASE Reconcile
    BY <2>1, <2>2 DEF Reconcile, Goto
  <2>3. CASE Select
    <3>1. PICK q : run' = [run EXCEPT !.pc = "next", !.queue = q]
      BY <2>3 DEF Select
    <3> QED BY <2>1, <3>1
  <2>4. CASE Commit
    <3>1. run' = NoRun \/ run' = [run EXCEPT !.pc = "next", !.queue = Tail(@)]
      BY <2>4 DEF Commit
    <3>2. CASE run' = NoRun
      BY <3>2 DEF NoRun
    <3>3. CASE run' = [run EXCEPT !.pc = "next", !.queue = Tail(@)]
      <4>1. PICK q : q = Tail(run.queue)
        OBVIOUS
      <4>2. run' = [run EXCEPT !.pc = "next", !.queue = q]
        BY <3>3, <4>1
      <4> QED BY <2>1, <4>2
    <3> QED BY <3>1, <3>2, <3>3
  <2>5. CASE EndRun
    BY <2>5 DEF EndRun, NoRun
  <2> QED BY <2>2, <2>3, <2>4, <2>5
<1>3. CASE Reconcile
  <2> DEFINE eligible == {v \in Video : mem[v].held = "eligible"}
  <2>1. PICK answer \in [eligible -> GetAnswer] :
           mem' = [v \in Video |-> IF v \in eligible THEN AfterGet(mem[v], answer[v]) ELSE mem[v]]
    BY <1>3 DEF Reconcile
  <2>2. \A v \in Video : RowOK(v, mem[v]) /\ Spends(mem[v], faults) /\ Rested(mem[v], faults)
    BY <1>1 DEF IInv, Books, RowsOK, Bounded, AllRested
  <2>3. ASSUME NEW v \in Video PROVE Spends(mem'[v], faults) /\ Rested(mem'[v], faults)
    <3>1. CASE v \in eligible
      <4>1. mem'[v] = AfterGet(mem[v], answer[v]) /\ answer[v] \in GetAnswer
            /\ mem[v].held = "eligible"
        BY <2>1, <3>1
      <4> QED BY <2>2, <4>1, AfterGetCosts
    <3>2. CASE v \notin eligible
      BY <2>1, <2>2, <3>2
    <3> QED BY <3>1, <3>2
  <2>4. db' = db
    BY <1>3 DEF Reconcile, At
  <2> QED BY <1>1, <1>2, <2>3, <2>4 DEF Bounded, AllRested
<1>4. CASE Select
  <2>1. /\ mem' = [v \in Video |-> IF MayProcess(v) THEN mem[v] ELSE SkippedShort(mem[v])]
        /\ db' = db
    BY <1>4 DEF Select, SkipDisabledShorts, At
  <2>2. \A v \in Video : NoDearer(db[v], db'[v]) /\ NoDearer(mem[v], mem'[v])
    BY <2>1, AllLoose, SameCost, StagesCost
  <2> QED BY <1>1, <1>2, <2>2, CheapStep
<1>5. CASE Commit \/ EndRun
  <2>1. db' = mem /\ mem' = mem
    BY <1>5 DEF Commit, EndRun
  <2>2. \A v \in Video : NoDearer(mem[v], db'[v]) /\ NoDearer(mem[v], mem'[v])
    BY <2>1, SameCost
  <2> QED BY <1>1, <1>2, <2>2, CheapStep
<1> QED BY <1>3, <1>4, <1>5

\* The run goes on, but not to an inference.
LEMMA GoesOn ==
    ASSUME IInv, NEW p, Goto(p), p # "inference"
    PROVE  run'.pc # "inference"
<1>1. run' = [kind |-> run.kind, pc |-> p, queue |-> run.queue]
  BY DEF IInv, RunShape, Goto
<1> QED BY <1>1

\* Taking a video, and its transcript.
LEMMA ContentCosts ==
    ASSUME IInv, Attempts, faults \in Nat, TakeVideo \/ TakeManual \/ Transcript
    PROVE  Bounded'
<1> USE DEF Attempts
<1>1. faults' = faults /\ db' = db /\ run.pc # "inference"
  BY DEF TakeVideo, TakeManual, Transcript, At
<1>2. run'.pc # "inference"
  <2>1. \E p \in {"transcript", "commit", "summary", "telegram"} : Goto(p)
    BY DEF TakeVideo, TakeManual, Transcript
  <2> QED BY <2>1, GoesOn
<1>3. Current \in Video
  BY AtHandIsVideo DEF TakeVideo, TakeManual, Transcript, At, Busy
<1>4. mem[Current] \in Loose
  BY <1>3, AllLoose
<1>5. CASE TakeVideo
  <2>1. \E r \in {WithStages(mem[Current], Automatic), SkippedShort(mem[Current])} : Becomes(r)
    BY <1>5 DEF TakeVideo
  <2>2. PICK r \in {WithStages(mem[Current], Automatic), SkippedShort(mem[Current])} : Becomes(r)
    BY <2>1
  <2>3. NoDearer(mem[Current], r)
    BY <1>4, StagesCost
  <2> QED BY <1>1, <1>2, <1>3, <2>2, <2>3, CheapRow
<1>6. CASE TakeManual
  <2>1. Becomes(WithStages(mem[Current], Content)) \/ mem' = mem
    BY <1>6 DEF TakeManual
  <2>2. CASE Becomes(WithStages(mem[Current], Content))
    <3>1. NoDearer(mem[Current], WithStages(mem[Current], Content))
      BY <1>4, StagesCost
    <3> QED BY <1>1, <1>2, <1>3, <2>2, <3>1, CheapRow
  <2>3. CASE mem' = mem
    <3>1. \A v \in Video : NoDearer(mem[v], mem'[v]) /\ NoDearer(db[v], db'[v])
      BY <1>1, <2>3, SameCost
    <3> QED BY <1>1, <1>2, <3>1, CheapStep
  <2> QED BY <2>1, <2>2, <2>3
<1>7. CASE Transcript
  <2>1. PICK r \in AfterTranscript(mem[Current]) : Becomes(r) \/ Becomes(Skipped(r, "summary"))
    BY <1>7 DEF Transcript
  <2>2. Spends(mem[Current], faults) /\ Rested(mem[Current], faults)
    BY <1>1, <1>3 DEF Bounded, AllRested
  <2>3. Spends(r, faults) /\ Rested(r, faults)
    BY <1>4, <2>2, TranscriptCosts
  <2>4. r \in Loose
    BY <1>3, CurrentRow, AfterTranscriptIs DEF RowOK
  <2>5. /\ Skipped(r, "summary") \in Loose
        /\ Spends(Skipped(r, "summary"), faults) /\ Rested(Skipped(r, "summary"), faults)
    <3>1. NoDearer(r, Skipped(r, "summary"))
      BY <2>4, SkippedCosts, Names
    <3>2. Ended(r, "summary", "skipped") \in Loose
      BY <2>4, EndedIs, Names
    <3> QED BY <2>3, <2>4, <3>1, <3>2, NoDearerKeeps DEF Skipped
  <2>6. PICK q \in Loose : Becomes(q) /\ Spends(q, faults) /\ Rested(q, faults)
    BY <2>1, <2>3, <2>4, <2>5
  <2> QED BY <1>1, <1>2, <1>3, <2>6, DearRow
<1> QED BY <1>5, <1>6, <1>7

\* The summary.
LEMMA SummaryCosts ==
    ASSUME IInv, Attempts, faults \in Nat,
           \/ SummaryStays \/ SummariseDirectly \/ Prepare \/ QuarantineResidue
           \/ Accept \/ Conclude
    PROVE  Bounded'
<1> USE DEF Attempts
<1>1. faults' = faults
  BY DEF SummaryStays, SummariseDirectly, Prepare, QuarantineResidue, Accept, Conclude
<1>2. Current \in Video
  BY AtHandIsVideo
     DEF SummaryStays, SummariseDirectly, Prepare, QuarantineResidue, Accept, Conclude, At, Busy
<1> DEFINE r == mem[Current]
           a == Attempted(r, "summary")
<1>3. r \in Loose /\ Spends(r, faults)
  BY <1>2, AllLoose DEF Bounded, AllRested, RestedElsewhere
<1>4. run.pc = "summary" => Rested(r, faults)
  BY <1>2 DEF Bounded, AllRested
<1>5. a \in Loose
  BY <1>3, AttemptedIs, Names
<1>6. MayTrySummary(r) /\ run.pc = "summary" => Spends(a, faults)
  BY <1>3, <1>4, SummaryAttempt DEF MayTrySummary, Open, SummaryIsDue
<1>7. AfterSummary => run'.pc # "inference"
  <2>1. AfterSummary => \E p \in {"commit", "telegram"} : Goto(p)
    BY DEF AfterSummary
  <2> QED BY <2>1, GoesOn
<1>8. CASE SummaryStays
  <2>1. /\ run.pc = "summary" /\ db' = db /\ AfterSummary
        /\ mem' = mem \/ Becomes(Ended(r, "summary", "completed"))
    BY <1>8 DEF SummaryStays, At
  <2>2. CASE mem' = mem
    <3>1. \A v \in Video : NoDearer(mem[v], mem'[v]) /\ NoDearer(db[v], db'[v])
      BY <2>1, <2>2, SameCost
    <3> QED BY <1>1, <1>7, <2>1, <3>1, CheapStep
  <2>3. CASE Becomes(Ended(r, "summary", "completed"))
    <3>1. NoDearer(r, Ended(r, "summary", "completed"))
      BY <1>3, EndedCosts, Names DEF Undecided
    <3> QED BY <1>1, <1>2, <1>7, <2>1, <2>3, <3>1, CheapRow
  <2> QED BY <2>1, <2>2, <2>3
<1>9. CASE SummariseDirectly
  <2>1. /\ run.pc = "summary" /\ db' = db /\ AfterSummary /\ MayTrySummary(r)
        /\ \E q \in {Summarised(a), Postponed(a), Retried(a, "summary")} : Becomes(q)
    BY <1>9 DEF SummariseDirectly, At
  <2>2. PICK q \in {Summarised(a), Postponed(a), Retried(a, "summary")} : Becomes(q)
    BY <2>1
  <2> HIDE DEF a
  <2>3. Spends(q, faults) /\ Rested(q, faults)
    BY <1>5, <1>6, <2>1, SummaryEndings
  <2>4. q \in Loose
    <3>1. \A end \in {"pending", "failed"} : Ended(a, "summary", end) \in Loose
      BY <1>5, EndedIs, Names
    <3>2. Retried(a, "summary") \in Loose
      BY <1>5, <3>1, RetriedIs, Names
    <3> QED BY <1>5, <3>2, SummarisedIs, PostponedIs
  <2> QED BY <1>1, <1>2, <1>7, <2>1, <2>2, <2>3, <2>4, DearRow
<1>10. CASE Prepare
  <2>1. /\ run.pc = "summary" /\ MayTrySummary(r) /\ Goto("inference")
        /\ BecomesCommitted([a EXCEPT !.residue = "prepared"])
    BY <1>10 DEF Prepare
  <2>2. run'.pc = "inference" /\ Current' = Current
    <3>1. run' = [kind |-> run.kind, pc |-> "inference", queue |-> run.queue]
      BY <2>1 DEF IInv, RunShape, Goto
    <3> QED BY <3>1 DEF Current
  <2> HIDE DEF a
  <2>3. Spends([a EXCEPT !.residue = "prepared"], faults)
    BY <1>5, <1>6, <2>1, SameCost, NoDearerKeeps
  <2> QED BY <1>1, <1>2, <2>1, <2>2, <2>3, CommittedCost
<1>11. CASE QuarantineResidue
  <2>1. run.pc = "summary" /\ MayTrySummary(r) /\ BecomesCommitted(Quarantined(a))
    BY <1>11 DEF QuarantineResidue
  <2>2. Spends(Quarantined(a), faults) /\ Rested(Quarantined(a), faults)
    BY <1>5, <1>6, <2>1, SummaryEndings
  <2> QED BY <1>1, <1>2, <2>1, <2>2, CommittedCost
<1>12. CASE Accept
  <2>1. run' = run /\ run.pc = "inference" /\ BecomesCommitted([r EXCEPT !.residue = "accepted"])
    BY <1>12 DEF Accept
  <2>2. run'.pc = "inference" /\ Current' = Current
    BY <2>1 DEF Current
  <2>3. Spends([r EXCEPT !.residue = "accepted"], faults)
    BY <1>3, SameCost, NoDearerKeeps
  <2> QED BY <1>1, <1>2, <2>1, <2>2, <2>3, CommittedCost
<1>13. CASE Conclude
  <2> DEFINE ended == [r EXCEPT !.residue = "none"]
  <2>1. \E q \in {Summarised(r), Quarantined(r), Ended(ended, "summary", "failed"), Postponed(ended)} :
           BecomesCommitted(q)
    BY <1>13 DEF Conclude
  <2>2. PICK q \in {Summarised(r), Quarantined(r), Ended(ended, "summary", "failed"), Postponed(ended)} :
           BecomesCommitted(q)
    BY <2>1
  <2>3. ended \in Loose /\ Spends(ended, faults)
    BY <1>3, ResidueIs, SameCost, NoDearerKeeps
  <2> HIDE DEF ended
  <2>4. Spends(q, faults) /\ Rested(q, faults)
    BY <1>3, <2>3, SummaryEndings
  <2> QED BY <1>1, <1>2, <2>2, <2>4, CommittedCost
<1> QED BY <1>8, <1>9, <1>10, <1>11, <1>12, <1>13

\* The message and the notice.
LEMMA MessageCosts ==
    ASSUME IInv, Attempts, faults \in Nat, faults' \in Nat, faults <= faults',
           SendTelegram \/ NoTelegram \/ SendNotice \/ NoNotice
    PROVE  Bounded'
<1> USE DEF Attempts
<1>1. db' = db /\ run.pc \in {"telegram", "notice"}
  BY DEF SendTelegram, NoTelegram, SendNotice, NoNotice, At
<1>2. run'.pc # "inference"
  <2>1. Goto("notice") \/ Goto("commit")
    BY DEF SendTelegram, NoTelegram, SendNotice, NoNotice
  <2> QED BY <2>1, GoesOn
<1>3. Current \in Video
  BY <1>1, AtHandIsVideo DEF Busy
<1> DEFINE r == mem[Current]
<1>4. r \in Loose /\ Spends(r, faults) /\ Rested(r, faults)
  BY <1>1, <1>3, AllLoose DEF Bounded, AllRested
<1>5. CASE mem' = mem
  <2>1. \A v \in Video : NoDearer(mem[v], mem'[v]) /\ NoDearer(db[v], db'[v])
    BY <1>1, <1>5, SameCost
  <2> QED BY <1>1, <1>2, <2>1, CheapStep
<1>6. CASE SendTelegram
  <2> DEFINE a == Attempted(r, "telegram")
  <2>1. /\ r.at["telegram"] \in Undecided
        /\ \E q \in {Ended(a, "telegram", "completed"), Retried(a, "telegram"), Ended(a, "telegram", "failed")} :
              Becomes(q)
    BY <1>6 DEF SendTelegram, MaySend, Open, Undecided
  <2>2. PICK q \in {Ended(a, "telegram", "completed"), Retried(a, "telegram"), Ended(a, "telegram", "failed")} :
           Becomes(q)
    BY <2>1
  <2>3. Spends(q, faults) /\ Rested(q, faults)
    BY <1>4, <2>1, AttemptEnds, Names
  <2>4. q \in Loose
    <3>1. a \in Loose
      BY <1>4, AttemptedIs, Names
    <3> HIDE DEF a
    <3>2. \A end \in {"pending", "failed", "completed"} : Ended(a, "telegram", end) \in Loose
      BY <3>1, EndedIs, Names
    <3> QED BY <3>1, <3>2, RetriedIs, Names
  <2> QED BY <1>1, <1>2, <1>3, <2>2, <2>3, <2>4, DearRow
<1>7. CASE NoTelegram
  <2>1. mem' = mem \/ Becomes(Skipped(r, "telegram"))
    BY <1>7 DEF NoTelegram
  <2>2. NoDearer(r, Skipped(r, "telegram"))
    BY <1>4, SkippedCosts, Names
  <2> QED BY <1>1, <1>2, <1>3, <1>5, <2>1, <2>2, CheapRow
<1>8. CASE SendNotice
  <2> DEFINE n == WithStages(r, {"fallback"})
             e == Ended(n, "fallback", "completed")
  <2>1. \E q \in {NoticeSent(n), n, Ended(n, "fallback", "failed")} : Becomes(q)
    BY <1>8 DEF SendNotice
  <2>2. PICK q \in {NoticeSent(n), n, Ended(n, "fallback", "failed")} : Becomes(q)
    BY <2>1
  <2>3. n \in Loose /\ NoDearer(r, n)
    BY <1>4, WithStagesIs, StagesCost
  <2>4. Spends(n, faults) /\ Rested(n, faults)
    BY <1>4, <2>3, NoDearerKeeps
  <2> HIDE DEF n
  <2>5. NoDearer(n, Ended(n, "fallback", "failed")) /\ NoDearer(n, e) /\ e \in Loose
        /\ Ended(n, "fallback", "failed") \in Loose
    BY <2>3, EndedCosts, EndedIs, Names
  <2> DEFINE alerted == e.alerted \/ n.held # "no"
  <2>6. NoticeSent(n) = [e EXCEPT !.alerted = alerted]
    BY DEF NoticeSent
  <2>7. alerted \in BOOLEAN
    OBVIOUS
  <2> HIDE DEF e, alerted
  <2>8. NoticeSent(n) \in Loose
    BY <2>5, <2>6, <2>7, ZenonT(60) DEF Loose
  <2>9. NoDearer(n, NoticeSent(n))
    <3>1. /\ NoticeSent(n).tries = e.tries /\ NoticeSent(n).at = e.at
          /\ NoticeSent(n).held = e.held
      BY <2>5, <2>6 DEF Loose
    <3> QED BY <2>5, <3>1 DEF NoDearer
  <2>10. q \in Loose /\ Spends(q, faults) /\ Rested(q, faults)
    BY <2>3, <2>4, <2>5, <2>8, <2>9, NoDearerKeeps
  <2> QED BY <1>1, <1>2, <1>3, <2>2, <2>10, DearRow
<1>9. CASE NoNotice
  BY <1>5, <1>9 DEF NoNotice
<1> QED BY <1>6, <1>7, <1>8, <1>9

\* The invariant of the attempts.
THEOREM AttemptsInvariant == Spec => [](IInv /\ Attempts)
<1>1. Init => IInv /\ Attempts
  <2> SUFFICES ASSUME Init PROVE IInv /\ Attempts
    OBVIOUS
  <2>1. IInv
    BY InitKeeps
  <2>2. RunTyped
    BY DEF Init, NoRun, RunTyped
  <2>3. shortsEnabled \in BOOLEAN /\ faults \in 0 .. MaxFaults
    BY PipelineAssumption DEF Init, PipelineAssumption
  <2>4. MaxAttempts \in Nat /\ MaxAttempts > 0
    BY PipelineAssumption DEF PipelineAssumption
  <2>5. NoRows.tries["transcript"] = 0 /\ NoRows.tries["telegram"] = 0 /\ NoRows.tries["summary"] = 0
    BY Names DEF NoRows
  <2>6. Spends(NoRows, 0) /\ Rested(NoRows, 0)
    BY <2>4, <2>5 DEF Spends, Rested
  <2>7. AllRested(db, faults) /\ AllRested(mem, faults)
    BY <2>6 DEF Init, AllRested
  <2>8. Bounded
    BY <2>7 DEF Init, NoRun, Bounded
  <2> QED BY <2>1, <2>2, <2>3, <2>8 DEF Attempts
<1>2. IInv /\ Attempts /\ [Next]_vars => (IInv /\ Attempts)'
  <2> SUFFICES ASSUME IInv, Attempts, [Next]_vars PROVE IInv' /\ Attempts'
    OBVIOUS
  <2>1. IInv'
    BY NextKeeps
  <2>2. RunTyped'
    BY RunTypedKeeps DEF Attempts
  <2>3. /\ faults' \in 0 .. MaxFaults /\ faults <= faults' /\ shortsEnabled' \in BOOLEAN
        /\ faults \in Nat /\ faults' \in Nat
    BY FaultsKeep
  <2>4. Bounded'
    <3>1. CASE RunStep
      BY <2>1, <2>3, <3>1, DrainCosts, ContentCosts, SummaryCosts, MessageCosts
         DEF RunStep, ProcessVideo
    <3> QED BY <2>3, <3>1, WorldCosts, CrashCosts DEF Next
  <2> QED BY <2>1, <2>2, <2>3, <2>4 DEF Attempts
<1> QED BY <1>1, <1>2, PTL DEF Spec

\* Every variable keeps its type. In particular no stage is tried more often than
\* max_attempts, but for one attempt of the summary more after each crash that took
\* the end of one (_attempt_summary_stage, quarantine of a residue).
THEOREM TypeCorrectness == Spec => []TypeOK
<1>1. IInv /\ Attempts => TypeOK
  <2> SUFFICES ASSUME IInv, Attempts PROVE TypeOK
    OBVIOUS
  <2>1. ASSUME NEW r \in Loose, Spends(r, faults) PROVE r \in Rows
    <3>1. /\ r.tries["transcript"] \in Nat /\ r.tries["summary"] \in Nat
          /\ r.tries["telegram"] \in Nat /\ MaxAttempts \in Nat /\ MaxFaults \in Nat
          /\ faults \in 0 .. MaxFaults
      BY TriesAre, PipelineAssumption DEF Attempts, PipelineAssumption
    <3>2. \A s \in Automatic : r.tries[s] \in 0 .. MaxAttempts + MaxFaults
      BY <2>1, <3>1 DEF Spends, Automatic, Content
    <3>3. r.tries \in [Automatic -> 0 .. MaxAttempts + MaxFaults]
      BY <3>2 DEF Loose
    <3> QED BY <3>3, ZenonT(60) DEF Rows, Loose
  <2>2. \A v \in Video : Spends(db[v], faults) /\ Spends(mem[v], faults)
    BY DEF Attempts, Bounded, AllRested, RestedElsewhere
  <2>3. db \in [Video -> Rows] /\ mem \in [Video -> Rows]
    BY <2>1, <2>2, AllLoose
  <2>4. run \in Run
    <3>1. /\ run = [kind |-> run.kind, pc |-> run.pc, queue |-> run.queue] /\ run.pc \in Phase
          /\ run.kind \in {"none", "poll", "startup", "manual"} /\ run.queue \in Seq(Video)
      BY DEF IInv, RunShape, Attempts, RunTyped
    <3> QED BY <3>1, Zenon DEF Run
  <2>5. (run.pc = "idle") = (run = NoRun)
    <3>1. run.pc = "idle" => run = NoRun
      BY DEF IInv, RunShape
    <3>2. run = NoRun => run.pc = "idle"
      BY DEF NoRun
    <3> QED BY <3>1, <3>2
  <2> QED BY <2>3, <2>4, <2>5 DEF TypeOK, IInv, Books, Counted, Attempts
<1> QED BY <1>1, AttemptsInvariant, PTL
=============================================================================
