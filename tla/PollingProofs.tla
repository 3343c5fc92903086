----------------------------- MODULE PollingProofs -----------------------------
(***************************************************************************)
(* What the markers of the poll and of the reconciliation promise, proved  *)
(* for any channels, uploads, page sizes and budgets, and any number of    *)
(* faults.                                                                 *)
(*                                                                         *)
(* A row only grows while a session works on it (Grows), so a video that   *)
(* was recorded when a marker moved to it stays recorded (Marks); and the  *)
(* pages a reconciliation asks for reach every upload in front of its      *)
(* marker, or the marker stays (WindowIsInFront).                          *)
(***************************************************************************)
EXTENDS Polling, FiniteSetTheorems, WellFoundedInduction, TLAPS

-----------------------------------------------------------------------------
(* Rows.                                                                   *)

\* What no session takes back.
Grows(r, q) ==
    /\ r.known => q.known
    /\ r.stages # "none" => q.stages # "none"
    /\ r.short = "yes" => q.short = "yes"

\* The video has its stages, or is a disabled Short.
Recorded(r) == r.known /\ (r.stages # "none" \/ ~MayProcess(r))

\* The statuses of a delivery.
LEMMA Values == {"none", "pending", "retry", "delivered", "failed", "skipped"} \subseteq Mail
  BY DEF Mail

\* What is recorded stays so.
LEMMA RecordedStays ==
    ASSUME NEW r, NEW q, Recorded(r), Grows(r, q)
    PROVE  Recorded(q)
  BY DEF Recorded, Grows, MayProcess

\* A row that grows twice has grown.
LEMMA GrowsTwice ==
    ASSUME NEW r, NEW q, NEW p, Grows(r, q), Grows(q, p)
    PROVE  Grows(r, p)
  BY DEF Grows

\* A row that gets another status of its delivery.
LEMMA MailGrows ==
    ASSUME NEW r \in Row, NEW m \in Mail
    PROVE  [r EXCEPT !.mail = m] \in Row /\ Grows(r, [r EXCEPT !.mail = m])
           /\ [r EXCEPT !.mail = m].known = r.known
<1>1. [r EXCEPT !.mail = m] \in Row
  BY ZenonT(60) DEF Row
<1>2. /\ [r EXCEPT !.mail = m].known = r.known
      /\ [r EXCEPT !.mail = m].stages = r.stages
      /\ [r EXCEPT !.mail = m].short = r.short
  BY DEF Row
<1> QED BY <1>1, <1>2 DEF Grows

\* Another status of its stages.
LEMMA StagesGrow ==
    ASSUME NEW r \in Row, NEW s \in {"open", "done"}
    PROVE  [r EXCEPT !.stages = s] \in Row /\ Grows(r, [r EXCEPT !.stages = s])
<1>1. [r EXCEPT !.stages = s] \in Row
  BY ZenonT(60) DEF Row
<1>2. /\ [r EXCEPT !.stages = s].known = r.known
      /\ [r EXCEPT !.stages = s].stages = s
      /\ [r EXCEPT !.stages = s].short = r.short
  BY DEF Row
<1> QED BY <1>1, <1>2 DEF Grows

\* A disabled Short is closed.
LEMMA SkippedShortGrows ==
    ASSUME NEW r \in Row
    PROVE  SkippedShort(r) \in Row /\ Grows(r, SkippedShort(r))
<1>1. CASE MayProcess(r)
  BY <1>1 DEF SkippedShort, Grows
<1>2. CASE ~MayProcess(r)
  <2> DEFINE s == IF r.stages = "open" THEN "done" ELSE r.stages
             m == IF r.mail \in {"pending", "retry"} THEN "skipped" ELSE r.mail
             q == [r EXCEPT !.stages = s, !.mail = m]
  <2>1. s \in {"none", "open", "done"} /\ m \in Mail
    BY Values DEF Row
  <2>2. SkippedShort(r) = q
    BY <1>2 DEF SkippedShort
  <2>3. r.stages # "none" => s # "none"
    OBVIOUS
  <2> HIDE DEF s, m
  <2>4. q \in Row
    BY <2>1, ZenonT(60) DEF Row
  <2>5. q.known = r.known /\ q.stages = s /\ q.short = r.short
    BY DEF Row
  <2> HIDE DEF q
  <2> QED BY <2>2, <2>3, <2>4, <2>5 DEF Grows
<1> QED BY <1>1, <1>2

\* A video is recorded with its stages.
LEMMA WithStagesGrows ==
    ASSUME NEW r \in Row
    PROVE  /\ WithStages(r) \in Row /\ Grows(r, WithStages(r))
           /\ Recorded(WithStages(r))
<1> DEFINE s == IF r.stages = "none" /\ MayProcess(r) THEN "open" ELSE r.stages
           q == [r EXCEPT !.known = TRUE, !.stages = s]
<1>1. s \in {"none", "open", "done"} /\ (r.stages # "none" => s # "none") /\ (MayProcess(r) => s # "none")
  BY DEF Row
<1>2. WithStages(r) = q
  BY DEF WithStages
<1> HIDE DEF s
<1>3. q \in Row
  BY <1>1, ZenonT(60) DEF Row
<1>4. q.known = TRUE /\ q.stages = s /\ q.short = r.short
  BY DEF Row
<1>5. MayProcess(q) => MayProcess(r)
  BY <1>4 DEF MayProcess
<1> HIDE DEF q
<1> QED BY <1>1, <1>2, <1>3, <1>4, <1>5 DEF Grows, Recorded

\* ... and with its delivery.
LEMMA WithDeliveryGrows ==
    ASSUME NEW r \in Row
    PROVE  WithDelivery(r) \in Row /\ Grows(r, WithDelivery(r))
<1> DEFINE m == IF r.mail = "none" /\ MayProcess(r) THEN "pending" ELSE r.mail
<1>1. m \in Mail
  BY Values DEF Row
<1>2. WithDelivery(r) = [r EXCEPT !.mail = m]
  BY DEF WithDelivery
<1> QED BY <1>1, <1>2, MailGrows

\* What is found out of a Short is not lost again.
LEMMA DetectionGrows ==
    ASSUME NEW v, NEW r \in Row, NEW d \in Detections(v, r)
    PROVE  [r EXCEPT !.short = d.short] \in Row /\ Grows(r, [r EXCEPT !.short = d.short])
<1> DEFINE s == d.short
<1>1. s \in {"unknown", "yes", "no"} /\ (r.short = "yes" => s = "yes")
  BY DEF Detections, Truth, Row
<1> HIDE DEF s
<1>2. [r EXCEPT !.short = s] \in Row
  BY <1>1, ZenonT(60) DEF Row
<1>3. /\ [r EXCEPT !.short = s].known = r.known
      /\ [r EXCEPT !.short = s].stages = r.stages
      /\ [r EXCEPT !.short = s].short = s
  BY DEF Row
<1>4. [r EXCEPT !.short = s] \in Row /\ Grows(r, [r EXCEPT !.short = s])
  BY <1>1, <1>2, <1>3 DEF Grows
<1> QED BY <1>4 DEF s

\* How an attempt may end.
LEMMA AttemptIs ==
    ASSUME NEW r, NEW a \in Attempt(r)
    PROVE  a.mail \in Mail
  BY Values DEF Attempt

-----------------------------------------------------------------------------
(* Uploads, pages and windows.                                             *)

\* The greater of two numbers.
LEMMA MaxOfTwo ==
    ASSUME NEW a \in Int, NEW b \in Int
    PROVE  Max({a, b}) \in {a, b} /\ Max({a, b}) >= a /\ Max({a, b}) >= b
<1>1. \E x \in {a, b} : \A y \in {a, b} : x >= y
  BY a >= b \/ b >= a
<1> QED BY <1>1 DEF Max

\* The newest upload is an upload.
LEMMA NewestIs ==
    ASSUME NEW S, NEW p \in Nat, S \subseteq 1 .. p, S # {}
    PROVE  Max(S) \in S /\ \A n \in S : Max(S) >= n
<1> DEFINE T == {p - x : x \in S}
<1>1. T \subseteq Nat /\ T # {}
  <2>1. \A x \in S : p - x \in Nat
    OBVIOUS
  <2> QED BY <2>1
<1>2. PICK t \in T : \A u \in T : <<u, t>> \notin OpToRel(<, Nat)
  <2>1. \E t \in T : \A u \in T : <<u, t>> \notin OpToRel(<, Nat)
    <3> HIDE DEF T
    <3> QED BY <1>1, WFMin, NatLessThanWellFounded
  <2> QED BY <2>1
<1>3. \A u \in T : t <= u
  <2>1. \A u \in T : ~(u < t)
    BY <1>1, <1>2 DEF OpToRel
  <2> QED BY <1>1, <2>1
<1>4. PICK m \in S : t = p - m
  OBVIOUS
<1>5. \A n \in S : m >= n
  <2> SUFFICES ASSUME NEW n \in S PROVE m >= n
    OBVIOUS
  <2>1. p - m <= p - n
    BY <1>3, <1>4
  <2> QED BY <2>1
<1> QED BY <1>5 DEF Max

\* A division leaves less than the divisor.
LEMMA DivisionIs ==
    ASSUME NEW a \in Nat, NEW p \in Nat \ {0}
    PROVE  a \div p \in Int /\ p * (a \div p) >= a - (p - 1)
<1>1. a \div p \in Int
  BY SMT
<1>2. p * (a \div p) >= a - (p - 1)
  BY SMT
<1> QED BY <1>1, <1>2

\* Pages that are full hold what they are for.
LEMMA PagesHold ==
    ASSUME NEW m \in Nat
    PROVE  Pages(m) \in Nat /\ PageSize * Pages(m) >= m
<1> DEFINE q == (m + PageSize - 1) \div PageSize
<1>1. PageSize \in Nat \ {0}
  BY PollingAssumption DEF PollingAssumption
<1>2. m + PageSize - 1 \in Nat
  BY <1>1
<1>3. q \in Int /\ PageSize * q >= (m + PageSize - 1) - (PageSize - 1)
  BY <1>1, <1>2, DivisionIs
<1>4. Pages(m) = Max({1, q})
  BY DEF Pages
<1> HIDE DEF q
<1>5. Pages(m) \in {1, q} /\ Pages(m) >= 1 /\ Pages(m) >= q
  BY <1>3, <1>4, MaxOfTwo
<1>6. PageSize * Pages(m) >= PageSize * q
  <2>1. CASE Pages(m) = q
    BY <1>1, <1>3, <2>1
  <2>2. CASE Pages(m) = 1 /\ q <= 0
    <3>1. PageSize * q <= 0
      BY <1>1, <1>3, <2>2
    <3>2. PageSize * Pages(m) >= 0
      BY <1>1, <2>2
    <3>3. PageSize * q \in Int
      BY <1>1, <1>3
    <3>4. PageSize * Pages(m) \in Int
      BY <1>1, <2>2
    <3> QED BY <3>1, <3>2, <3>3, <3>4
  <2> QED BY <1>3, <1>5, <2>1, <2>2
<1>7. PageSize * q >= m
  <2> DEFINE w == PageSize * q
  <2>1. w \in Int /\ w >= (m + PageSize - 1) - (PageSize - 1)
    BY <1>1, <1>3
  <2> HIDE DEF w
  <2>2. w >= m
    BY <1>1, <2>1
  <2> QED BY <2>2 DEF w
<1> QED
  <2>1. Pages(m) \in Nat
    BY <1>3, <1>5
  <2> DEFINE w == PageSize * q
             x == PageSize * Pages(m)
  <2>2. w \in Int /\ x \in Int /\ x >= w /\ w >= m
    BY <1>1, <1>3, <1>6, <1>7, <2>1
  <2> HIDE DEF w, x
  <2>3. x >= m
    BY <2>2
  <2> QED BY <2>1, <2>3 DEF x

\* The pages up to the marker show all that is in front of it.
LEMMA WindowIsInFront ==
    ASSUME NEW c \in Channel, NEW p \in Nat, playlist[c] \subseteq 1 .. p,
           mem.marker[c] \in Nat, MarkerFound(c)
    PROVE  Window(c) = InFront(c)
<1>1. IsFiniteSet(playlist[c])
  <2>1. IsFiniteSet(1 .. p)
    BY FS_Interval
  <2> QED BY <2>1, FS_Subset
<1>2. IsFiniteSet(InFront(c)) /\ Cardinality(InFront(c)) \in Nat
  <2>1. IsFiniteSet(InFront(c))
    BY <1>1, FS_Subset DEF InFront
  <2> QED BY <2>1, FS_CardinalityType
<1> DEFINE m == Cardinality(InFront(c)) + 1
<1>3. Requested(c) = Pages(m) /\ m \in Nat
  BY <1>2 DEF MarkerFound, Wanted
<1>4. PageSize * Requested(c) >= m
  BY <1>3, PagesHold
<1>5. ASSUME NEW n \in InFront(c)
      PROVE  Cardinality({k \in playlist[c] : k > n}) < PageSize * Requested(c)
  <2> DEFINE K == {k \in playlist[c] : k > n}
  <2>1. n \in playlist[c] /\ n > mem.marker[c] /\ n \in Nat
    BY DEF InFront
  <2>2. K \subseteq InFront(c)
    BY <2>1 DEF InFront
  <2>3. Cardinality(K) <= Cardinality(InFront(c)) /\ Cardinality(K) \in Nat
    <3> HIDE DEF K
    <3>1. IsFiniteSet(K) /\ Cardinality(K) <= Cardinality(InFront(c))
      BY <1>2, <2>2, FS_Subset
    <3> QED BY <3>1, FS_CardinalityType
  <2>4. PageSize \in Nat /\ Requested(c) \in Nat
    BY <1>3, PagesHold, PollingAssumption DEF PollingAssumption
  <2> DEFINE w == PageSize * Requested(c)
  <2>5. w \in Nat /\ w >= m
    BY <1>4, <2>4
  <2> HIDE DEF w, K
  <2>6. Cardinality(K) < w
    BY <1>2, <2>3, <2>5
  <2> QED BY <2>6 DEF w, K
<1> QED BY <1>5 DEF Window

-----------------------------------------------------------------------------
(* The inductive invariant.                                                *)

TablesOK(t) ==
    /\ t = [marker |-> t.marker, based |-> t.based, video |-> t.video, used |-> t.used]
    /\ t.marker \in [Channel -> Nat] /\ t.based \in [Channel -> BOOLEAN]
    /\ t.video \in [Video -> Row]

\* A marker beyond the baseline names an upload, and that upload is recorded.
Marks(t) ==
    \A c \in Channel :
        /\ t.marker[c] \in 0 .. published[c]
        /\ t.marker[c] \notin {0, base[c]} => Recorded(t.video[<<c, t.marker[c]>>])
        /\ ~t.based[c] => t.marker[c] = 0

Shape ==
    /\ playlist \in [Channel -> SUBSET Number] /\ published \in [Channel -> 0 .. MaxUploads]
    /\ \A c \in Channel : playlist[c] \subseteq 1 .. published[c]
    /\ base \in [Channel -> Nat]
    /\ run = [kind |-> run.kind, pc |-> run.pc, queue |-> run.queue]
    /\ TablesOK(db) /\ TablesOK(mem)

\* A session that reconciles has recorded what it moved a marker past.
NoGap ==
    run.kind = "reconcile" =>
        \A c \in Channel : \A n \in playlist[c] :
            db.marker[c] < n /\ n <= mem.marker[c] => mem.video[<<c, n>>].known

Books ==
    /\ Marks(db) /\ Marks(mem) /\ NoGap
    /\ \A c \in Channel : db.based[c] => mem.based[c]

IInv == Shape /\ Books

\* Tables that say of the channels the same, and of the videos no less.
Follows(t, u) ==
    /\ TablesOK(u) /\ u.marker = t.marker /\ u.based = t.based
    /\ \A v \in Video : Grows(t.video[v], u.video[v])

-----------------------------------------------------------------------------
(* Tables.                                                                 *)

\* Rows that are replaced by others.
LEMMA VideosReplaced ==
    ASSUME NEW t, TablesOK(t), NEW V \in [Video -> Row],
           \A v \in Video : Grows(t.video[v], V[v])
    PROVE  Follows(t, [t EXCEPT !.video = V]) /\ [t EXCEPT !.video = V].video = V
<1> DEFINE u == [t EXCEPT !.video = V]
<1>1. u = [marker |-> t.marker, based |-> t.based, video |-> V, used |-> t.used]
  BY DEF TablesOK
<1>2. u.marker = t.marker /\ u.based = t.based /\ u.video = V /\ u.used = t.used
  BY <1>1
<1> HIDE DEF u
<1>3. Follows(t, u) /\ u.video = V
  BY <1>1, <1>2 DEF Follows, TablesOK
<1> QED BY <1>3 DEF u

\* One row of them, if it is a video's.
LEMMA VideoReplaced ==
    ASSUME NEW t, TablesOK(t), NEW v, NEW r,
           v \in Video => r \in Row /\ Grows(t.video[v], r)
    PROVE  /\ Follows(t, [t EXCEPT !.video = [t.video EXCEPT ![v] = r]])
           /\ v \in Video => [t EXCEPT !.video = [t.video EXCEPT ![v] = r]].video[v] = r
<1> DEFINE V == [t.video EXCEPT ![v] = r]
<1>1. V \in [Video -> Row] /\ (v \in Video => V[v] = r) /\ \A w \in Video : Grows(t.video[w], V[w])
  <2>1. CASE v \in Video
    <3>1. V \in [Video -> Row] /\ \A w \in Video : V[w] = IF w = v THEN r ELSE t.video[w]
      BY <2>1 DEF TablesOK
    <3> HIDE DEF V
    <3> QED BY <2>1, <3>1 DEF Grows
  <2>2. CASE v \notin Video
    <3>1. V = t.video
      BY <2>2 DEF TablesOK
    <3> QED BY <2>2, <3>1 DEF TablesOK, Grows
  <2> QED BY <2>1, <2>2
<1> HIDE DEF V
<1> QED BY <1>1, VideosReplaced DEF V

\* Equal tables follow each other.
LEMMA FollowsItself ==
    ASSUME NEW t, TablesOK(t)
    PROVE  Follows(t, t)
  BY DEF Follows, Grows

\* What follows what follows.
LEMMA FollowsTwice ==
    ASSUME NEW t, NEW u, NEW w, Follows(t, u), Follows(u, w)
    PROVE  Follows(t, w)
  BY GrowsTwice DEF Follows

\* The count of the day is not of the tables that matter here.
LEMMA UsedReplaced ==
    ASSUME NEW t, TablesOK(t), NEW n
    PROVE  Follows(t, [t EXCEPT !.used = n])
<1> DEFINE u == [t EXCEPT !.used = n]
<1>1. u = [marker |-> t.marker, based |-> t.based, video |-> t.video, used |-> n]
  BY DEF TablesOK
<1>2. u.marker = t.marker /\ u.based = t.based /\ u.video = t.video /\ u.used = n
  BY <1>1
<1> HIDE DEF u
<1>3. Follows(t, u)
  BY <1>1, <1>2 DEF Follows, TablesOK, Grows
<1> QED BY <1>3 DEF u

\* The disabled Shorts are closed.
LEMMA SkipShortsFollows ==
    ASSUME NEW t, TablesOK(t)
    PROVE  Follows(t, SkipShorts(t))
<1> DEFINE V == [v \in Video |-> SkippedShort(t.video[v])]
<1>1. V \in [Video -> Row] /\ \A v \in Video : Grows(t.video[v], V[v])
  BY SkippedShortGrows DEF TablesOK
<1>2. SkipShorts(t) = [t EXCEPT !.video = V]
  BY DEF SkipShorts
<1> HIDE DEF V
<1> QED BY <1>1, <1>2, VideosReplaced

\* The units of the run are written.
LEMMA CountedFollows ==
    ASSUME NEW t, TablesOK(t)
    PROVE  Follows(t, Counted(t))
  BY UsedReplaced DEF Counted

\* A marker is as good in tables that follow.
LEMMA MarksFollow ==
    ASSUME Shape, NEW t, Marks(t), NEW u, Follows(t, u)
    PROVE  Marks(u)
<1> SUFFICES ASSUME NEW c \in Channel
             PROVE  /\ u.marker[c] \in 0 .. published[c]
                    /\ u.marker[c] \notin {0, base[c]} => Recorded(u.video[<<c, u.marker[c]>>])
                    /\ ~u.based[c] => u.marker[c] = 0
  BY DEF Marks
<1>1. u.marker[c] = t.marker[c] /\ u.based[c] = t.based[c]
  BY DEF Follows
<1>2. t.marker[c] \in 0 .. published[c] /\ published[c] \in 0 .. MaxUploads /\ MaxUploads \in Nat
  BY PollingAssumption DEF Marks, Shape, PollingAssumption
<1>3. t.marker[c] # 0 => <<c, t.marker[c]>> \in Video
  BY <1>2 DEF Video, Number
<1>4. t.marker[c] # 0 => Grows(t.video[<<c, t.marker[c]>>], u.video[<<c, t.marker[c]>>])
  BY <1>3 DEF Follows
<1> QED BY <1>1, <1>2, <1>4, RecordedStays DEF Marks

-----------------------------------------------------------------------------
(* Sessions.                                                               *)

\* The world and the baselines stand still.
Still == UNCHANGED <<playlist, published, base>>

\* run is a record.
RunOK == run = [kind |-> run.kind, pc |-> run.pc, queue |-> run.queue]

\* The run goes on.
LEMMA RunGoesOn ==
    ASSUME Shape, NEW pc, NEW queue, run' = [run EXCEPT !.pc = pc, !.queue = queue]
    PROVE  RunOK' /\ run'.kind = run.kind
<1>1. run' = [kind |-> run.kind, pc |-> pc, queue |-> queue]
  BY DEF Shape
<1> QED BY <1>1 DEF RunOK

\* ... with the next of its queue.
LEMMA OnwardGoesOn ==
    ASSUME Shape, Onward
    PROVE  RunOK' /\ run'.kind = run.kind
<1>1. run' = [run EXCEPT !.pc = run.pc, !.queue = Tail(run.queue)]
  BY DEF Onward, Shape
<1> QED BY <1>1, RunGoesOn

\* A session that moves no marker.
LEMMA SessionFollows ==
    ASSUME IInv, Still, UNCHANGED db, RunOK', run'.kind = run.kind, Follows(mem, mem')
    PROVE  IInv'
<1>1. Shape'
  BY DEF IInv, Shape, Still, RunOK, Follows
<1>2. Marks(db)' /\ Marks(mem)'
  <2>1. Marks(db) /\ Marks(mem')
    BY MarksFollow DEF IInv, Books
  <2> QED BY <2>1 DEF Marks, Still
<1>3. NoGap'
  <2> SUFFICES ASSUME run.kind = "reconcile", NEW c \in Channel, NEW n \in playlist[c],
                      db.marker[c] < n /\ n <= mem.marker[c]
               PROVE  mem'.video[<<c, n>>].known
    BY DEF NoGap, Still, Follows
  <2>1. mem.video[<<c, n>>].known
    BY DEF IInv, Books, NoGap
  <2>2. <<c, n>> \in Video
    BY DEF IInv, Shape, Video
  <2> QED BY <2>1, <2>2 DEF Follows, Grows
<1> QED BY <1>1, <1>2, <1>3 DEF IInv, Books, Follows

\* A commit of the session.
LEMMA CommitFollows ==
    ASSUME IInv, Still, RunOK', Follows(mem, mem'), db' = mem'
    PROVE  IInv'
<1>1. Shape'
  BY DEF IInv, Shape, Still, RunOK, Follows
<1>2. Marks(db)' /\ Marks(mem)'
  <2>1. Marks(mem')
    BY MarksFollow DEF IInv, Books
  <2> QED BY <2>1 DEF Marks, Still
<1>3. NoGap'
  <2>1. \A c \in Channel : mem'.marker[c] \in Nat
    BY <1>1 DEF Shape, TablesOK
  <2>2. \A c \in Channel : playlist'[c] \subseteq Nat
    BY <1>1 DEF Shape, Number
  <2> QED BY <2>1, <2>2 DEF NoGap
<1> QED BY <1>1, <1>2, <1>3 DEF IInv, Books

\* A session that begins with what is committed.
LEMMA FromCommitted ==
    ASSUME IInv, Still, RunOK', Follows(db, mem'), db' = db \/ db' = mem'
    PROVE  IInv'
<1>1. Shape'
  BY DEF IInv, Shape, Still, RunOK, Follows
<1>2. Marks(db)' /\ Marks(mem)'
  <2>1. Marks(mem') /\ Marks(db)
    BY MarksFollow DEF IInv, Books
  <2> QED BY <2>1 DEF Marks, Still
<1>3. db'.marker = mem'.marker /\ db'.based = mem'.based
  BY DEF Follows
<1>4. NoGap'
  <2>1. \A c \in Channel : mem'.marker[c] \in Nat
    BY <1>1 DEF Shape, TablesOK
  <2>2. \A c \in Channel : playlist'[c] \subseteq Nat
    BY <1>1 DEF Shape, Number
  <2> QED BY <1>3, <2>1, <2>2 DEF NoGap
<1> QED BY <1>1, <1>2, <1>3, <1>4 DEF IInv, Books

\* NoRun is a run.
LEMMA NoRunOK == run' = NoRun => RunOK'
  BY DEF NoRun, RunOK

-----------------------------------------------------------------------------
(* The world.                                                              *)

\* An upload appears.
LEMMA UploadKeeps ==
    ASSUME IInv, NEW c \in Channel, Upload(c)
    PROVE  IInv'
<1>1. /\ UNCHANGED <<db, mem, run, base>> /\ published[c] < MaxUploads
      /\ published' = [published EXCEPT ![c] = @ + 1]
      /\ playlist' = [playlist EXCEPT ![c] = @ \union {published'[c]}]
  BY DEF Upload, history
<1>2. MaxUploads \in Nat
  BY PollingAssumption DEF PollingAssumption
<1>3. /\ published \in [Channel -> 0 .. MaxUploads] /\ playlist \in [Channel -> SUBSET Number]
      /\ \A x \in Channel : playlist[x] \subseteq 1 .. published[x]
  BY DEF IInv, Shape
<1>4. /\ published' \in [Channel -> 0 .. MaxUploads]
      /\ \A x \in Channel : published'[x] = IF x = c THEN published[x] + 1 ELSE published[x]
  BY <1>1, <1>2, <1>3
<1>5. /\ playlist' \in [Channel -> SUBSET Number]
      /\ \A x \in Channel : playlist'[x] = IF x = c THEN playlist[x] \union {published[c] + 1} ELSE playlist[x]
  <2> DEFINE n == published[c] + 1
  <2>1. published'[c] = n /\ n \in Number
    BY <1>1, <1>2, <1>3, <1>4 DEF Number
  <2> HIDE DEF n
  <2>2. playlist' = [playlist EXCEPT ![c] = @ \union {n}]
    BY <1>1, <2>1
  <2>3. playlist[c] \union {n} \in SUBSET Number
    BY <1>3, <2>1
  <2>4. /\ playlist' \in [Channel -> SUBSET Number]
        /\ \A x \in Channel : playlist'[x] = IF x = c THEN playlist[x] \union {n} ELSE playlist[x]
    BY <1>3, <2>2, <2>3
  <2> QED BY <2>4 DEF n
<1>6. \A x \in Channel : playlist'[x] \subseteq 1 .. published'[x]
  <2> TAKE x \in Channel
  <2>1. published[x] \in Nat /\ playlist[x] \subseteq 1 .. published[x]
    BY <1>2, <1>3
  <2>2. 1 .. published[x] \subseteq 1 .. (published[x] + 1)
    BY <2>1
  <2> QED BY <1>4, <1>5, <2>1, <2>2
<1>7. Shape'
  BY <1>1, <1>4, <1>5, <1>6 DEF IInv, Shape, TablesOK
<1>8. \A x \in Channel : published[x] \in Nat /\ published'[x] \in Nat /\ published[x] <= published'[x]
  BY <1>2, <1>3, <1>4
<1>9. \A x \in Channel : 0 .. published[x] \subseteq 0 .. published'[x]
  BY <1>8
<1>10. Marks(db)' /\ Marks(mem)'
  BY <1>1, <1>9 DEF IInv, Books, Marks
<1>11. NoGap'
  <2> SUFFICES ASSUME run.kind = "reconcile", NEW x \in Channel, NEW n \in playlist'[x],
                      db.marker[x] < n /\ n <= mem.marker[x]
               PROVE  mem.video[<<x, n>>].known
    BY <1>1 DEF NoGap
  <2>1. mem.marker[x] \in 0 .. published[x]
    BY DEF IInv, Books, Marks
  <2>2. n # published[x] + 1
    BY <1>8, <2>1
  <2>3. n \in playlist[x]
    BY <1>5, <2>2
  <2> QED BY <2>3 DEF IInv, Books, NoGap
<1> QED BY <1>1, <1>7, <1>10, <1>11 DEF IInv, Books

\* An upload is withdrawn.
LEMMA WithdrawKeeps ==
    ASSUME IInv, NEW c \in Channel, Withdraw(c)
    PROVE  IInv'
<1>1. UNCHANGED <<db, mem, run, base, published>>
  BY DEF Withdraw, history
<1>2. PICK n \in playlist[c] : playlist' = [playlist EXCEPT ![c] = @ \ {n}]
  BY DEF Withdraw
<1>3. /\ playlist' \in [Channel -> SUBSET Number]
      /\ \A x \in Channel : playlist'[x] \subseteq playlist[x]
  BY <1>2 DEF IInv, Shape
<1>4. Shape'
  BY <1>1, <1>3 DEF IInv, Shape, TablesOK
<1>5. Marks(db)' /\ Marks(mem)' /\ NoGap'
  BY <1>1, <1>3 DEF IInv, Books, Marks, NoGap
<1> QED BY <1>1, <1>4, <1>5 DEF IInv, Books

\* Midnight.
LEMMA NewDayKeeps ==
    ASSUME IInv, NewDay
    PROVE  IInv'
<1>1. /\ Still /\ UNCHANGED run
      /\ db' = [db EXCEPT !.used = 0] /\ mem' = [mem EXCEPT !.used = 0]
  BY DEF NewDay, Still, external, history
<1>2. Follows(db, db') /\ Follows(mem, mem')
  BY <1>1, UsedReplaced DEF IInv, Shape
<1>3. Shape'
  BY <1>1, <1>2 DEF IInv, Shape, Still, Follows
<1>4. Marks(db)' /\ Marks(mem)'
  <2>1. Marks(db') /\ Marks(mem')
    BY <1>2, MarksFollow DEF IInv, Books
  <2> QED BY <1>1, <2>1 DEF Marks, Still
<1>5. NoGap'
  <2> SUFFICES ASSUME run.kind = "reconcile", NEW c \in Channel, NEW n \in playlist[c],
                      db.marker[c] < n /\ n <= mem.marker[c]
               PROVE  mem'.video[<<c, n>>].known
    BY <1>1, <1>2 DEF NoGap, Still, Follows
  <2>1. mem.video[<<c, n>>].known
    BY DEF IInv, Books, NoGap
  <2>2. <<c, n>> \in Video
    BY DEF IInv, Shape, Video
  <2> QED BY <1>2, <2>1, <2>2 DEF Follows, Grows
<1> QED BY <1>2, <1>3, <1>4, <1>5 DEF IInv, Books, Follows

\* A manual command looks a video up.
LEMMA LookupKeeps ==
    ASSUME IInv, NEW v \in Video, Lookup(v)
    PROVE  IInv'
<1> DEFINE r == db.video[v]
           q == LookedUp(v, r)
           V == [db.video EXCEPT ![v] = q]
           t == [db EXCEPT !.video = V]
           n == db.used + 1
<1>1. /\ Still /\ UNCHANGED run /\ mem' = db'
      /\ db' = [db EXCEPT !.used = n] \/ db' = [t EXCEPT !.used = n]
  <2>1. Still /\ UNCHANGED run /\ mem' = db'
    BY DEF Lookup, Still, history
  <2>2. CASE db' = [db EXCEPT !.used = @ + 1]
    BY <2>1, <2>2
  <2>3. CASE db' = [db EXCEPT !.used = @ + 1, !.video[v] = LookedUp(v, @)]
    <3>1. db' = [db EXCEPT !.used = n, !.video = V]
      BY <2>3
    <3>2. db = [marker |-> db.marker, based |-> db.based, video |-> db.video, used |-> db.used]
      BY DEF IInv, Shape, TablesOK
    <3> HIDE DEF V, n
    <3>3. db' = [t EXCEPT !.used = n]
      BY <3>1, <3>2
    <3> QED BY <2>1, <3>3
  <2> QED BY <2>1, <2>2, <2>3 DEF Lookup
<1>2. TablesOK(db) /\ r \in Row
  BY DEF IInv, Shape, TablesOK
<1>3. q \in Row /\ Grows(r, q)
  <2> DEFINE s == IF r.short = "unknown" THEN Truth(v) ELSE r.short
  <2>1. s \in {"unknown", "yes", "no"} /\ (r.short = "yes" => s = "yes")
    BY <1>2 DEF Truth, Row
  <2>2. q = [r EXCEPT !.known = TRUE, !.short = s]
    BY DEF LookedUp
  <2> HIDE DEF s, r, q
  <2>3. [r EXCEPT !.known = TRUE, !.short = s] \in Row
    BY <1>2, <2>1, ZenonT(60) DEF Row
  <2>4. q.known = TRUE /\ q.stages = r.stages /\ q.short = s
    BY <1>2, <2>2 DEF Row
  <2> QED BY <2>1, <2>2, <2>3, <2>4 DEF Grows
<1> HIDE DEF q
<1>4. Follows(db, t)
  BY <1>2, <1>3, VideoReplaced
<1> HIDE DEF t, n
<1>5. Follows(db, db')
  <2>1. CASE db' = [db EXCEPT !.used = n]
    BY <1>2, <2>1, UsedReplaced
  <2>2. CASE db' = [t EXCEPT !.used = n]
    <3>1. Follows(t, db')
      BY <1>4, <2>2, UsedReplaced DEF Follows
    <3> QED BY <1>4, <3>1, FollowsTwice
  <2> QED BY <1>1, <2>1, <2>2
<1>6. RunOK'
  BY <1>1 DEF IInv, Shape, RunOK
<1> QED BY <1>1, <1>5, <1>6, FromCommitted

\* The newest upload of a channel.
LEMMA NewestOK ==
    ASSUME Shape, NEW c \in Channel
    PROVE  /\ Newest(c) \in 0 .. published[c]
           /\ Newest(c) # 0 => Newest(c) \in playlist[c] /\ <<c, Newest(c)>> \in Video
           /\ \A k \in playlist[c] : k <= Newest(c)
<1>1. /\ playlist[c] \subseteq Number /\ playlist[c] \subseteq 1 .. published[c]
      /\ published[c] \in 0 .. MaxUploads /\ MaxUploads \in Nat
  BY PollingAssumption DEF Shape, PollingAssumption
<1>2. CASE playlist[c] = {}
  BY <1>1, <1>2 DEF Newest
<1>3. CASE playlist[c] # {}
  <2>1. Newest(c) = Max(playlist[c]) /\ published[c] \in Nat
    BY <1>1, <1>3 DEF Newest
  <2>2. Newest(c) \in playlist[c] /\ \A k \in playlist[c] : Newest(c) >= k
    BY <1>1, <1>3, <2>1, NewestIs
  <2> QED BY <1>1, <2>1, <2>2 DEF Video
<1> QED BY <1>2, <1>3

-----------------------------------------------------------------------------
(* Steps of a run.                                                         *)

\* Nothing but the place of the run changes.
LEMMA NothingChanges ==
    ASSUME IInv, Still, UNCHANGED <<db, mem>>, RunOK', run'.kind = run.kind
    PROVE  IInv'
  BY FollowsItself, SessionFollows DEF IInv, Shape

\* The steps of a run that write nothing.
LEMMA EmptyStepKeeps ==
    ASSUME IInv,
           \/ DrainEnds \/ MailsEnd \/ FetchFails \/ NothingNew \/ ChannelsEnd
           \/ MissingBaseline \/ MarkerNotFound \/ PageFails
    PROVE  IInv'
<1>1. Still /\ UNCHANGED <<db, mem>>
  BY DEF DrainEnds, MailsEnd, FetchFails, NothingNew, ChannelsEnd, MissingBaseline, MarkerNotFound,
         PageFails, In, Visiting, Still, external, history
<1>2. Onward \/ \E pc, queue : run' = [run EXCEPT !.pc = pc, !.queue = queue]
  BY DEF DrainEnds, MailsEnd, FetchFails, NothingNew, ChannelsEnd, MissingBaseline, MarkerNotFound,
         PageFails, Visiting, Goto
<1>3. RunOK' /\ run'.kind = run.kind
  BY <1>2, RunGoesOn, OnwardGoesOn DEF IInv
<1> QED BY <1>1, <1>3, NothingChanges

\* A poll or a reconciliation starts from what is committed.
LEMMA StartKeeps ==
    ASSUME IInv, StartPoll \/ StartReconcile
    PROVE  IInv'
<1> DEFINE t == SkipShorts(db)
<1>1. Still /\ (CommitAndEnd(t) \/ \E kind, pc, queue : Begin(kind, pc, queue, t))
  BY DEF StartPoll, StartReconcile, Still, external, history
<1>2. mem' = t /\ (db' = db \/ db' = mem')
  BY <1>1 DEF CommitAndEnd, Begin
<1>3. RunOK'
  <2>1. CASE CommitAndEnd(t)
    BY <2>1, NoRunOK DEF CommitAndEnd
  <2>2. ASSUME NEW kind, NEW pc, NEW queue, Begin(kind, pc, queue, t) PROVE RunOK'
    BY <2>2 DEF Begin, RunOK
  <2> QED BY <1>1, <2>1, <2>2
<1>4. Follows(db, t)
  BY SkipShortsFollows DEF IInv, Shape
<1> HIDE DEF t
<1> QED BY <1>1, <1>2, <1>3, <1>4, FromCommitted

\* A video's stages are worked on, and committed.
LEMMA DrainVideoCommits ==
    ASSUME IInv, DrainVideo
    PROVE  Still /\ db' = mem' /\ Onward /\ Follows(mem, mem')
<1> DEFINE v == Head(run.queue)
           r == [mem.video[v] EXCEPT !.stages = "done"]
           t == [mem EXCEPT !.video = [mem.video EXCEPT ![v] = r]]
<1>1. Still /\ db' = mem' /\ Onward /\ (mem' = mem \/ mem' = t)
  BY DEF DrainVideo, Still, external, history
<1>2. TablesOK(mem) /\ (v \in Video => mem.video[v] \in Row)
  BY DEF IInv, Shape, TablesOK
<1>3. v \in Video => r \in Row /\ Grows(mem.video[v], r)
  BY <1>2, StagesGrow
<1> HIDE DEF r, v
<1>4. Follows(mem, t)
  BY <1>2, <1>3, VideoReplaced
<1> HIDE DEF t
<1>5. Follows(mem, mem')
  BY <1>1, <1>2, <1>4, FollowsItself
<1> QED BY <1>1, <1>5

\* ... which keeps the invariant.
LEMMA DrainVideoKeeps ==
    ASSUME IInv, DrainVideo
    PROVE  IInv'
<1>1. RunOK'
  BY DrainVideoCommits, OnwardGoesOn DEF IInv
<1> QED BY <1>1, DrainVideoCommits, CommitFollows

\* An e-mail is tried.
LEMMA SendMailKeeps ==
    ASSUME IInv, SendMail
    PROVE  IInv'
<1> DEFINE v == Head(run.queue)
<1>1. /\ Still /\ UNCHANGED db /\ Onward
  BY DEF SendMail, In, Still, external
<1>2. PICK a \in Attempt(mem.video[v]) : mem' = [mem EXCEPT !.video[v].mail = a.mail]
  BY DEF SendMail
<1> DEFINE m == a.mail
           r == [mem.video[v] EXCEPT !.mail = m]
           t == [mem EXCEPT !.video = [mem.video EXCEPT ![v] = r]]
<1>3. mem' = t /\ m \in Mail
  BY <1>2, AttemptIs
<1>4. TablesOK(mem) /\ (v \in Video => mem.video[v] \in Row)
  BY DEF IInv, Shape, TablesOK
<1> HIDE DEF m
<1>5. v \in Video => r \in Row /\ Grows(mem.video[v], r)
  BY <1>3, <1>4, MailGrows
<1> HIDE DEF r, v
<1>6. Follows(mem, t)
  BY <1>4, <1>5, VideoReplaced
<1> HIDE DEF t
<1>7. RunOK' /\ run'.kind = run.kind
  BY <1>1, OnwardGoesOn DEF IInv
<1> QED BY <1>1, <1>3, <1>6, <1>7, SessionFollows

\* The units are written, the session ends or goes on.
LEMMA EndCommits ==
    ASSUME IInv, EndPoll \/ WindowsEnd \/ EndReconcile
    PROVE  Still /\ db' = mem' /\ Follows(mem, mem')
<1>1. Still /\ db' = mem' /\ (mem' = mem \/ mem' = Counted(mem))
  BY DEF EndPoll, WindowsEnd, EndReconcile, In, CommitAndEnd, Still, external, history
<1>2. Follows(mem, mem')
  BY <1>1, FollowsItself, CountedFollows DEF IInv, Shape
<1> QED BY <1>1, <1>2

\* ... which keeps the invariant.
LEMMA EndKeeps ==
    ASSUME IInv, EndPoll \/ WindowsEnd \/ EndReconcile
    PROVE  IInv'
<1>1. run' = NoRun \/ \E pc, queue : run' = [run EXCEPT !.pc = pc, !.queue = queue]
  BY DEF EndPoll, WindowsEnd, EndReconcile, CommitAndEnd, Goto
<1>2. RunOK'
  BY <1>1, RunGoesOn, NoRunOK DEF IInv
<1> QED BY <1>2, EndCommits, CommitFollows

\* A run is lost, and with it the baselines it took.
LEMMA LoseRunKeeps ==
    ASSUME IInv, LoseRun
    PROVE  IInv'
<1>1. /\ UNCHANGED <<playlist, published>> /\ db' = db /\ mem' = db /\ RunOK'
      /\ base' = [c \in Channel |-> IF db.based[c] THEN base[c] ELSE 0]
  BY NoRunOK DEF LoseRun, CommitAndEnd, external
<1>2. Shape'
  BY <1>1 DEF IInv, Shape, RunOK, TablesOK
<1>3. Marks(db)' /\ Marks(mem)'
  BY <1>1 DEF IInv, Books, Marks
<1>4. NoGap'
  <2>1. \A c \in Channel : mem'.marker[c] \in Nat
    BY <1>2 DEF Shape, TablesOK
  <2>2. \A c \in Channel : playlist'[c] \subseteq Nat
    BY <1>2 DEF Shape, Number
  <2> QED BY <1>1, <2>1, <2>2 DEF NoGap
<1> QED BY <1>1, <1>2, <1>3, <1>4 DEF IInv, Books

-----------------------------------------------------------------------------
(* Markers.                                                                *)

\* A channel without a marker gets the newest upload for one.
LEMMA BaselineKeeps ==
    ASSUME IInv, Baseline
    PROVE  IInv'
<1> DEFINE c == Here
           n == Newest(c)
           M == [mem.marker EXCEPT ![c] = n]
           B == [mem.based EXCEPT ![c] = TRUE]
<1>1. /\ UNCHANGED <<playlist, published, db>> /\ run.kind = "poll" /\ ~mem.based[c] /\ Onward
      /\ base' = [base EXCEPT ![c] = n]
      /\ mem' = [mem EXCEPT !.marker = M, !.based = B]
  BY DEF Baseline, Visiting, In, external
<1>2. TablesOK(mem) /\ TablesOK(db) /\ base \in [Channel -> Nat]
  BY DEF IInv, Shape
<1>3. c \in Channel => n \in 0 .. published[c] /\ n \in Nat
  <2> HAVE c \in Channel
  <2>1. n \in 0 .. published[c]
    BY NewestOK DEF IInv
  <2> QED BY <2>1
<1>4. /\ M \in [Channel -> Nat] /\ B \in [Channel -> BOOLEAN] /\ base' \in [Channel -> Nat]
      /\ \A x \in Channel : /\ M[x] = IF x = c THEN n ELSE mem.marker[x]
                            /\ B[x] = IF x = c THEN TRUE ELSE mem.based[x]
                            /\ base'[x] = IF x = c THEN n ELSE base[x]
  <2>1. mem.marker \in [Channel -> Nat] /\ mem.based \in [Channel -> BOOLEAN]
    BY <1>2 DEF TablesOK
  <2> HIDE DEF n, c
  <2>2. CASE c \in Channel
    BY <1>1, <1>2, <1>3, <2>1, <2>2
  <2>3. CASE c \notin Channel
    BY <1>1, <1>2, <2>1, <2>3
  <2> QED BY <2>2, <2>3
<1> HIDE DEF M, B
<1>5. /\ mem' = [marker |-> M, based |-> B, video |-> mem.video, used |-> mem.used]
  BY <1>1, <1>2 DEF TablesOK
<1>6. mem'.marker = M /\ mem'.based = B /\ mem'.video = mem.video /\ mem'.used = mem.used
  BY <1>5
<1>7. TablesOK(mem')
  BY <1>2, <1>4, <1>5, <1>6 DEF TablesOK
<1>8. RunOK' /\ run'.kind = "poll"
  BY <1>1, OnwardGoesOn DEF IInv
<1>9. Shape'
  BY <1>1, <1>4, <1>7, <1>8 DEF IInv, Shape, RunOK, TablesOK
<1> HIDE DEF c, n
<1>10. Marks(mem)'
  <2> SUFFICES ASSUME NEW x \in Channel
               PROVE  /\ M[x] \in 0 .. published[x]
                      /\ M[x] \notin {0, base'[x]} => Recorded(mem.video[<<x, M[x]>>])
                      /\ ~B[x] => M[x] = 0
    BY <1>1, <1>6 DEF Marks
  <2>1. CASE x = c
    BY <1>3, <1>4, <2>1
  <2>2. CASE x # c
    BY <1>4, <2>2 DEF IInv, Books, Marks
  <2> QED BY <2>1, <2>2
<1>11. Marks(db)'
  <2> SUFFICES ASSUME NEW x \in Channel
               PROVE  /\ db.marker[x] \in 0 .. published[x]
                      /\ db.marker[x] \notin {0, base'[x]} => Recorded(db.video[<<x, db.marker[x]>>])
                      /\ ~db.based[x] => db.marker[x] = 0
    BY <1>1 DEF Marks
  <2>1. CASE x = c
    <3>1. ~db.based[x]
      BY <1>1, <2>1 DEF IInv, Books
    <3>2. db.marker[x] = 0 /\ db.marker[x] \in 0 .. published[x]
      BY <3>1 DEF IInv, Books, Marks
    <3> QED BY <3>1, <3>2
  <2>2. CASE x # c
    BY <1>4, <2>2 DEF IInv, Books, Marks
  <2> QED BY <2>1, <2>2
<1>12. NoGap'
  BY <1>8 DEF NoGap
<1>13. \A x \in Channel : db'.based[x] => mem'.based[x]
  BY <1>1, <1>4, <1>6 DEF IInv, Books
<1> QED BY <1>9, <1>10, <1>11, <1>12, <1>13 DEF IInv, Books

\* A marker moves, with what it moves past.
LEMMA MarkerMoves ==
    ASSUME IInv, Still, UNCHANGED db, RunOK', run'.kind = run.kind,
           NEW c, NEW n, NEW V \in [Video -> Row],
           mem' = [mem EXCEPT !.video = V, !.marker = [mem.marker EXCEPT ![c] = n]],
           \A v \in Video : Grows(mem.video[v], V[v]),
           c \in Channel =>
               /\ n \in 0 .. published[c] /\ mem.based[c]
               /\ n \notin {0, base[c]} => Recorded(V[<<c, n>>])
               /\ run.kind = "reconcile" =>
                      \A k \in playlist[c] : mem.marker[c] < k /\ k <= n => V[<<c, k>>].known
    PROVE  IInv'
<1> DEFINE M == [mem.marker EXCEPT ![c] = n]
<1>1. TablesOK(mem) /\ mem.marker \in [Channel -> Nat] /\ (c \in Channel => n \in Nat)
  BY DEF IInv, Shape, TablesOK
<1>2. /\ M \in [Channel -> Nat]
      /\ \A x \in Channel : M[x] = IF x = c THEN n ELSE mem.marker[x]
  <2>1. CASE c \in Channel
    BY <1>1, <2>1
  <2>2. CASE c \notin Channel
    BY <1>1, <2>2
  <2> QED BY <2>1, <2>2
<1>3. mem' = [mem EXCEPT !.video = V, !.marker = M]
  OBVIOUS
<1> HIDE DEF M
<1>4. mem' = [marker |-> M, based |-> mem.based, video |-> V, used |-> mem.used]
  BY <1>1, <1>3 DEF TablesOK
<1> DEFINE u == [marker |-> M, based |-> mem.based, video |-> V, used |-> mem.used]
<1>5. mem'.marker = M /\ mem'.based = mem.based /\ mem'.video = V /\ mem'.used = mem.used
  <2>1. u.marker = M /\ u.based = mem.based /\ u.video = V /\ u.used = mem.used
    OBVIOUS
  <2>2. mem' = u
    BY <1>4
  <2> HIDE DEF u
  <2> QED BY <2>1, <2>2
<1>6. TablesOK(mem')
  BY <1>1, <1>2, <1>4, <1>5 DEF TablesOK
<1>7. Shape'
  BY <1>6 DEF IInv, Shape, RunOK, TablesOK, Still
<1>8. Marks(db)'
  BY DEF IInv, Books, Marks, Still
<1>9. Marks(mem)'
  <2> DEFINE w == [mem EXCEPT !.video = V]
  <2>1. Marks(w) /\ w.marker = mem.marker /\ w.based = mem.based /\ w.video = V
    <3>1. Follows(mem, w) /\ w.video = V
      BY <1>1, VideosReplaced
    <3> HIDE DEF w
    <3> QED BY <3>1, MarksFollow DEF IInv, Books, Follows
  <2> HIDE DEF w
  <2> SUFFICES ASSUME NEW x \in Channel
               PROVE  /\ M[x] \in 0 .. published[x]
                      /\ M[x] \notin {0, base[x]} => Recorded(V[<<x, M[x]>>])
                      /\ ~mem.based[x] => M[x] = 0
    BY <1>5 DEF Marks, Still
  <2>2. CASE x = c
    BY <1>2, <2>2
  <2>3. CASE x # c
    BY <1>2, <2>1, <2>3 DEF Marks
  <2> QED BY <2>2, <2>3
<1>10. NoGap'
  <2> SUFFICES ASSUME run.kind = "reconcile", NEW x \in Channel, NEW k \in playlist[x],
                      db.marker[x] < k /\ k <= M[x]
               PROVE  V[<<x, k>>].known
    BY <1>5 DEF NoGap, Still
  <2>1. k \in Nat /\ mem.marker[x] \in Nat /\ <<x, k>> \in Video
    BY <1>1 DEF IInv, Shape, Number, Video
  <2>2. CASE k <= mem.marker[x]
    <3>1. mem.video[<<x, k>>].known
      BY <2>2 DEF IInv, Books, NoGap
    <3> QED BY <2>1, <3>1 DEF Grows
  <2>3. CASE mem.marker[x] < k
    <3>1. x = c
      BY <1>2, <2>1, <2>3
    <3> QED BY <1>2, <2>3, <3>1
  <2> QED BY <2>1, <2>2, <2>3
<1> QED BY <1>5, <1>7, <1>8, <1>9, <1>10 DEF IInv, Books

\* The row of a new upload.
LEMMA NewRow ==
    ASSUME Shape, NEW v \in Video, NEW d \in Detections(v, mem.video[v])
    PROVE  LET r == WithDelivery(WithStages(Detected(v, d))) IN
           r \in Row /\ Grows(mem.video[v], r) /\ Recorded(r)
<1> DEFINE p == Detected(v, d)
           q == WithStages(p)
           r == WithDelivery(q)
<1>1. mem.video[v] \in Row
  BY DEF Shape, TablesOK
<1>2. p \in Row /\ Grows(mem.video[v], p)
  BY <1>1, DetectionGrows DEF Detected
<1> HIDE DEF p
<1>3. q \in Row /\ Grows(p, q) /\ Recorded(q)
  BY <1>2, WithStagesGrows
<1> HIDE DEF q
<1>4. r \in Row /\ Grows(q, r)
  BY <1>3, WithDeliveryGrows
<1> HIDE DEF r
<1>5. r \in Row /\ Grows(mem.video[v], r) /\ Recorded(r)
  BY <1>2, <1>3, <1>4, GrowsTwice, RecordedStays
<1> QED BY <1>5 DEF r, q, p

\* A new upload is recorded and marked.
LEMMA NewUploadKeeps ==
    ASSUME IInv, NewUpload
    PROVE  IInv'
<1> DEFINE c == Here
           n == Newest(c)
           v == <<c, n>>
<1>1. /\ UNCHANGED <<playlist, published, base, db>> /\ run.kind = "poll" /\ Onward /\ IsNew(c)
  BY DEF NewUpload, Visiting, In, external
<1>2. PICK d \in Detections(v, mem.video[v]) :
         LET r == WithDelivery(WithStages(Detected(v, d))) IN
         \/ \E a \in Attempt(r) : Marked(c, n, v, [r EXCEPT !.mail = a.mail])
         \/ Marked(c, n, v, r)
  BY DEF NewUpload
<1> DEFINE r == WithDelivery(WithStages(Detected(v, d)))
<1>3. \E m \in Mail : Marked(c, n, v, [r EXCEPT !.mail = m]) \/ Marked(c, n, v, r)
  <2>1. "none" \in Mail
    BY Values
  <2> QED BY <1>2, <2>1, AttemptIs
<1>4. PICK m \in Mail : Marked(c, n, v, [r EXCEPT !.mail = m]) \/ Marked(c, n, v, r)
  BY <1>3
<1>5. c \in Channel => n # 0 /\ n \in 0 .. published[c] /\ v \in Video /\ mem.based[c]
  BY <1>1, NewestOK DEF IInv, IsNew
<1>6. c \in Channel => r \in Row /\ Grows(mem.video[v], r) /\ Recorded(r)
  BY <1>5, NewRow DEF IInv
<1> DEFINE q == [r EXCEPT !.mail = m]
<1>7. c \in Channel => q \in Row /\ Grows(mem.video[v], q) /\ Recorded(q)
  <2> HAVE c \in Channel
  <2> HIDE DEF r
  <2>1. q \in Row /\ Grows(r, q)
    BY <1>6, MailGrows
  <2> QED BY <1>6, <2>1, GrowsTwice, RecordedStays
<1> HIDE DEF r, q
<1>8. PICK w \in {r, q} : Marked(c, n, v, w)
  BY <1>4 DEF q
<1>9. RunOK' /\ run'.kind = run.kind /\ Still
  BY <1>1, OnwardGoesOn DEF IInv, Still
<1> DEFINE V == [mem.video EXCEPT ![v] = w]
<1>10. mem' = [mem EXCEPT !.video = V, !.marker = [mem.marker EXCEPT ![c] = n]]
  <2>1. mem = [marker |-> mem.marker, based |-> mem.based, video |-> mem.video, used |-> mem.used]
    BY DEF IInv, Shape, TablesOK
  <2>2. mem' = [mem EXCEPT !.marker = [mem.marker EXCEPT ![c] = n], !.video = V]
    BY <1>8 DEF Marked
  <2> HIDE DEF V
  <2> QED BY <2>1, <2>2
<1>11. mem.video \in [Video -> Row] /\ (v \in Video => c \in Channel)
  BY DEF IInv, Shape, TablesOK, Video
<1> HIDE DEF v, n, c
<1>12. /\ V \in [Video -> Row] /\ \A x \in Video : Grows(mem.video[x], V[x])
       /\ c \in Channel => V[v] = w
  <2>1. CASE v \in Video
    <3>1. V \in [Video -> Row] /\ \A x \in Video : V[x] = IF x = v THEN w ELSE mem.video[x]
      BY <1>6, <1>7, <1>11, <2>1
    <3> HIDE DEF V
    <3> QED BY <1>6, <1>7, <1>11, <2>1, <3>1 DEF Grows
  <2>2. CASE v \notin Video
    <3>1. V = mem.video /\ c \notin Channel
      BY <1>5, <1>11, <2>2
    <3> QED BY <1>11, <3>1 DEF Grows
  <2> QED BY <2>1, <2>2
<1>13. c \in Channel => Recorded(V[<<c, n>>])
  BY <1>6, <1>7, <1>12 DEF v
<1> HIDE DEF V
<1> QED BY <1>1, <1>5, <1>9, <1>10, <1>12, <1>13, MarkerMoves

\* A new upload is recorded and its e-mail breaks: the marker stays.
LEMMA MailBreaksKeeps ==
    ASSUME IInv, MailBreaks
    PROVE  IInv'
<1> DEFINE c == Here
           v == <<c, Newest(c)>>
<1>1. Still /\ UNCHANGED db /\ Onward
  BY DEF MailBreaks, Visiting, In, external, history, Still
<1>2. PICK d \in Detections(v, mem.video[v]) :
         mem' = [mem EXCEPT !.video[v] = WithDelivery(WithStages(Detected(v, d)))]
  BY DEF MailBreaks
<1> DEFINE r == WithDelivery(WithStages(Detected(v, d)))
           t == [mem EXCEPT !.video = [mem.video EXCEPT ![v] = r]]
<1>3. mem' = t
  BY <1>2
<1>4. v \in Video => r \in Row /\ Grows(mem.video[v], r)
  BY NewRow DEF IInv
<1> HIDE DEF r, v
<1>5. Follows(mem, t)
  BY <1>4, VideoReplaced DEF IInv, Shape
<1> HIDE DEF t
<1>6. RunOK' /\ run'.kind = run.kind
  BY <1>1, OnwardGoesOn DEF IInv
<1> QED BY <1>1, <1>3, <1>5, <1>6, SessionFollows

\* The uploads in front of the marker are recorded, then the marker moves.
LEMMA RecoverKeeps ==
    ASSUME IInv, Recover
    PROVE  IInv'
<1> DEFINE c == Here
           window == {<<c, n>> : n \in Window(c)}
           n == IF window = {} THEN mem.marker[c] ELSE Newest(c)
<1>1. Still /\ UNCHANGED db /\ Onward /\ mem.marker[c] # 0 /\ MarkerFound(c)
  BY DEF Recover, Visiting, In, external, history, Still
<1>2. PICK d \in [window -> [short : {"unknown", "yes", "no"}, cost : {0, 1}]] :
         /\ \A v \in window : d[v] \in Detections(v, mem.video[v])
         /\ mem' = [mem EXCEPT
               !.video = [v \in Video |-> IF v \in window THEN WithStages(Detected(v, d[v])) ELSE @[v]],
               !.marker[c] = IF window = {} THEN @ ELSE Newest(c)]
  BY DEF Recover
<1> DEFINE V == [v \in Video |-> IF v \in window THEN WithStages(Detected(v, d[v])) ELSE mem.video[v]]
<1>3. mem' = [mem EXCEPT !.video = V, !.marker = [mem.marker EXCEPT ![c] = n]]
  BY <1>2
<1>4. /\ V \in [Video -> Row] /\ \A v \in Video : Grows(mem.video[v], V[v])
      /\ \A v \in Video : v \in window => Recorded(V[v])
  <2>1. ASSUME NEW v \in Video
        PROVE  V[v] \in Row /\ Grows(mem.video[v], V[v]) /\ (v \in window => Recorded(V[v]))
    <3>1. mem.video[v] \in Row
      BY DEF IInv, Shape, TablesOK
    <3>2. CASE v \in window
      <4> DEFINE p == Detected(v, d[v])
      <4>1. p \in Row /\ Grows(mem.video[v], p)
        BY <1>2, <3>1, <3>2, DetectionGrows DEF Detected
      <4>2. V[v] = WithStages(p)
        BY <3>2
      <4> HIDE DEF p, V
      <4>3. WithStages(p) \in Row /\ Grows(p, WithStages(p)) /\ Recorded(WithStages(p))
        BY <4>1, WithStagesGrows
      <4> QED BY <4>1, <4>2, <4>3, GrowsTwice
    <3>3. CASE v \notin window
      <4>1. V[v] = mem.video[v]
        BY <3>3
      <4> HIDE DEF V
      <4> QED BY <3>1, <3>3, <4>1 DEF Grows
    <3> QED BY <3>2, <3>3
  <2>2. V = [v \in Video |-> V[v]]
    OBVIOUS
  <2> HIDE DEF V
  <2>3. V \in [Video -> Row]
    BY <2>1, <2>2
  <2> QED BY <2>1, <2>3
<1> HIDE DEF V
<1>5. RunOK' /\ run'.kind = run.kind
  BY <1>1, OnwardGoesOn DEF IInv
<1>6. ASSUME c \in Channel
      PROVE  /\ n \in 0 .. published[c] /\ mem.based[c]
             /\ n \notin {0, base[c]} => Recorded(V[<<c, n>>])
             /\ run.kind = "reconcile" =>
                    \A k \in playlist[c] : mem.marker[c] < k /\ k <= n => V[<<c, k>>].known
  <2>1. /\ mem.marker[c] \in 0 .. published[c] /\ mem.based[c]
        /\ mem.marker[c] \notin {0, base[c]} => Recorded(mem.video[<<c, mem.marker[c]>>])
    BY <1>1, <1>6 DEF IInv, Books, Marks
  <2>2. /\ published[c] \in 0 .. MaxUploads /\ MaxUploads \in Nat
        /\ playlist[c] \subseteq 1 .. published[c] /\ playlist[c] \subseteq Number
    BY <1>6, PollingAssumption DEF IInv, Shape, PollingAssumption
  <2>3. mem.marker[c] \in Nat /\ published[c] \in Nat
    BY <2>1, <2>2
  <2>4. Window(c) = InFront(c)
    BY <1>1, <1>6, <2>2, <2>3, WindowIsInFront
  <2>5. \A k \in playlist[c] : mem.marker[c] < k => <<c, k>> \in window /\ <<c, k>> \in Video
    BY <1>6, <2>2, <2>3, <2>4 DEF InFront, Video, Number
  <2>6. \A k \in playlist[c] : mem.marker[c] < k => Recorded(V[<<c, k>>])
    BY <1>4, <2>5
  <2>7. CASE window = {}
    <3>1. n = mem.marker[c]
      BY <2>7
    <3>2. n # 0 => <<c, n>> \in Video
      BY <1>6, <2>1, <2>2, <3>1 DEF Video, Number
    <3>3. n \notin {0, base[c]} => Recorded(V[<<c, n>>])
      BY <1>4, <2>1, <3>1, <3>2, RecordedStays
    <3> HIDE DEF window
    <3> QED BY <2>1, <2>2, <2>6, <3>1, <3>3 DEF Recorded
  <2>8. CASE window # {}
    <3>1. n = Newest(c) /\ n \in 0 .. published[c] /\ (n # 0 => n \in playlist[c])
          /\ \A k \in playlist[c] : k <= n
      BY <1>6, <2>8, NewestOK DEF IInv
    <3>2. PICK k \in Window(c) : TRUE
      BY <2>8
    <3>3. k \in playlist[c] /\ mem.marker[c] < k /\ k <= n
      BY <2>2, <2>3, <2>4, <3>1, <3>2 DEF InFront, Number
    <3>4. n \in playlist[c] /\ mem.marker[c] < n
      BY <2>2, <2>3, <3>1, <3>3 DEF Number
    <3>5. Recorded(V[<<c, n>>])
      BY <2>6, <3>4
    <3> HIDE DEF n, window
    <3> QED BY <2>1, <2>6, <3>1, <3>5 DEF Recorded
  <2> QED BY <2>7, <2>8
<1> HIDE DEF n, c
<1> QED BY <1>1, <1>3, <1>4, <1>5, <1>6, MarkerMoves

-----------------------------------------------------------------------------
(* The theorems.                                                           *)

\* At the start nothing is recorded and nothing marked.
LEMMA InitKeeps == Init => IInv
<1> SUFFICES ASSUME Init PROVE IInv
  OBVIOUS
<1>1. /\ playlist = [c \in Channel |-> 1 .. Existing]
      /\ published = [c \in Channel |-> Existing]
      /\ db = [marker |-> [c \in Channel |-> 0], based |-> [c \in Channel |-> FALSE],
               video |-> [v \in Video |-> NoRow], used |-> 0]
      /\ mem = db /\ run = NoRun /\ base = [c \in Channel |-> 0]
  BY DEF Init
<1>2. NoRow \in Row
  <2>1. "none" \in Mail
    BY Values
  <2> QED BY <2>1, ZenonT(60) DEF NoRow, Row
<1>3. /\ db.marker = [c \in Channel |-> 0] /\ db.based = [c \in Channel |-> FALSE]
      /\ db.video = [v \in Video |-> NoRow] /\ db.used = 0
  BY <1>1
<1>4. TablesOK(db)
  BY <1>1, <1>2, <1>3 DEF TablesOK
<1>5. run = [kind |-> run.kind, pc |-> run.pc, queue |-> run.queue] /\ run.kind = "none"
  BY <1>1 DEF NoRun
<1>6. Shape
  <2>1. 0 \in 0 .. MaxUploads /\ Existing \in 0 .. MaxUploads /\ 1 .. Existing \subseteq Number
    BY PollingAssumption DEF PollingAssumption, Number
  <2> QED BY <1>1, <1>4, <1>5, <2>1 DEF Shape
<1>7. Marks(db)
  <2>1. Existing \in Nat
    BY PollingAssumption DEF PollingAssumption
  <2> QED BY <1>1, <1>3, <2>1 DEF Marks
<1> QED BY <1>1, <1>3, <1>5, <1>6, <1>7 DEF IInv, Books, NoGap

\* Every step keeps the invariant.
LEMMA NextKeeps ==
    ASSUME IInv, [Next]_vars
    PROVE  IInv'
<1>1. ASSUME NEW c \in Channel, Upload(c) \/ Withdraw(c) PROVE IInv'
  BY <1>1, UploadKeeps, WithdrawKeeps
<1>2. ASSUME NEW v \in Video, Lookup(v) PROVE IInv'
  BY <1>2, LookupKeeps
<1>3. CASE NewDay \/ StartPoll \/ StartReconcile \/ LoseRun
  BY <1>3, NewDayKeeps, StartKeeps, LoseRunKeeps
<1>4. CASE RunStep
  BY <1>4, DrainVideoKeeps, EmptyStepKeeps, SendMailKeeps, BaselineKeeps, NewUploadKeeps, EndKeeps,
     RecoverKeeps DEF RunStep, PollStep, ReconcileStep
<1>5. CASE FetchFails \/ MailBreaks \/ PageFails
  BY <1>5, EmptyStepKeeps, MailBreaksKeeps
<1>6. CASE LookupLost \/ UNCHANGED vars
  <2>1. Still /\ UNCHANGED <<db, mem, run>>
    BY <1>6 DEF LookupLost, vars, history, external, Still
  <2>2. RunOK' /\ run'.kind = run.kind
    BY <2>1 DEF IInv, Shape, RunOK
  <2> QED BY <2>1, <2>2, NothingChanges
<1> QED BY <1>1, <1>2, <1>3, <1>4, <1>5, <1>6 DEF Next

\* The inductive invariant (the sessions of run_poll and reconcile_missing_uploads).
THEOREM InductiveInvariant == Spec => []IInv
<1>1. Init => IInv
  BY InitKeeps
<1>2. IInv /\ [Next]_vars => IInv'
  BY NextKeeps
<1> QED BY <1>1, <1>2, PTL DEF Spec

\* A poll does not pass a video it did not record (_get_or_create_video and
\* create_stages_for_video before last_seen_video_id).
THEOREM Recording == Spec => []MarkedIsRecorded
<1>1. IInv => MarkedIsRecorded
  BY DEF IInv, Books, Marks, Recorded, MarkedIsRecorded
<1> QED BY <1>1, InductiveInvariant, PTL

\* Which steps of a reconciliation commit a marker.
LEMMA MarkerSteps ==
    ASSUME IInv, [Next]_vars, run.kind = "reconcile", db'.marker # db.marker
    PROVE  Still /\ db' = mem' /\ Follows(mem, mem')
<1>1. db' # db /\ run # NoRun
  BY DEF NoRun
<1>2. ASSUME NEW c \in Channel, Upload(c) \/ Withdraw(c) PROVE FALSE
  BY <1>1, <1>2 DEF Upload, Withdraw
<1>3. ASSUME NEW v \in Video, Lookup(v) PROVE FALSE
  BY <1>1, <1>3 DEF Lookup
<1>4. CASE NewDay
  <2>1. Follows(db, db')
    BY <1>4, UsedReplaced DEF NewDay, IInv, Shape
  <2> QED BY <2>1 DEF Follows
<1>5. CASE StartPoll \/ StartReconcile \/ LoseRun
  BY <1>1, <1>5 DEF StartPoll, StartReconcile, LoseRun, CommitAndEnd
<1>6. CASE PollStep
  BY <1>6 DEF PollStep, DrainEnds, SendMail, MailsEnd, Baseline, NothingNew, NewUpload, ChannelsEnd,
     EndPoll, In, Visiting
<1>7. CASE MissingBaseline \/ MarkerNotFound \/ Recover
  BY <1>1, <1>7 DEF MissingBaseline, MarkerNotFound, Recover, Visiting
<1>8. CASE DrainVideo
  BY <1>8, DrainVideoCommits
<1>9. CASE WindowsEnd \/ EndReconcile
  BY <1>9, EndCommits
<1>10. CASE FetchFails \/ MailBreaks \/ PageFails \/ LookupLost
  BY <1>1, <1>10 DEF FetchFails, MailBreaks, PageFails, LookupLost, Visiting
<1>11. CASE UNCHANGED vars
  BY <1>1, <1>11 DEF vars
<1> QED
  BY <1>2, <1>3, <1>4, <1>5, <1>6, <1>7, <1>8, <1>9, <1>10, <1>11
  DEF Next, RunStep, ReconcileStep

\* A reconciliation skips no upload of a channel: its marker is committed with
\* the record of all it passes (reconcile_missing_uploads).
THEOREM NoUploadIsSkipped == Spec => ReconcileLeavesNoGap
<1> DEFINE A == \A c \in Channel :
                   run.kind = "reconcile" /\ db'.marker[c] # db.marker[c]
                       => \A n \in playlist[c] :
                             n \in db.marker[c] + 1 .. db'.marker[c] => db'.video[<<c, n>>].known
<1>1. IInv /\ [Next]_vars => A
  <2> SUFFICES ASSUME IInv, [Next]_vars, NEW c \in Channel, run.kind = "reconcile",
                      db'.marker[c] # db.marker[c], NEW n \in playlist[c],
                      n \in db.marker[c] + 1 .. db'.marker[c]
               PROVE  db'.video[<<c, n>>].known
    OBVIOUS
  <2>1. db' = mem' /\ Follows(mem, mem')
    BY MarkerSteps
  <2>2. db'.marker[c] = mem.marker[c]
    BY <2>1 DEF Follows
  <2>3. n \in Nat /\ db.marker[c] \in Nat /\ mem.marker[c] \in Nat /\ <<c, n>> \in Video
    BY DEF IInv, Shape, TablesOK, Video, Number
  <2>4. db.marker[c] < n /\ n <= mem.marker[c]
    BY <2>2, <2>3
  <2>5. mem.video[<<c, n>>].known
    BY <2>4 DEF IInv, Books, NoGap
  <2>6. mem'.video[<<c, n>>].known
    BY <2>1, <2>3, <2>5 DEF Follows, Grows
  <2> QED BY <2>1, <2>6
<1>2. [][A]_vars => ReconcileLeavesNoGap
  BY DEF ReconcileLeavesNoGap
<1> HIDE DEF A
<1>3. Spec => [][A]_vars
  BY <1>1, InductiveInvariant, PTL DEF Spec
<1> QED BY <1>2, <1>3

================================================================================
