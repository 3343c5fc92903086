--------------------------- MODULE PollingBooksProofs ---------------------------
(***************************************************************************)
(* The accounts of the poll: its types, the e-mails that leave and the     *)
(* units of the quota, proved for any finite set of channels, any uploads, *)
(* page sizes, budgets and numbers of faults.                              *)
(*                                                                         *)
(* A queue holds each row once (RanksAreTaken), so each delivery is tried  *)
(* once by a run (QueueOK, MailBook) and each channel visited once, which  *)
(* bounds what a run spends (Budgeted).  UnitBook is the account of units. *)
(***************************************************************************)
EXTENDS PollingProofs, FunctionTheorems

-----------------------------------------------------------------------------
(* Rows in their order.                                                    *)

\* In a total order on a finite set every rank is taken: B[x] is what lies
\* before x.
LEMMA RanksAreTaken ==
    ASSUME NEW S, IsFiniteSet(S), NEW B \in [S -> SUBSET S],
           \A x \in S : x \notin B[x],
           \A x, y \in S : y \in B[x] => B[y] \subseteq B[x],
           \A x, y \in S : x = y \/ x \in B[y] \/ y \in B[x]
    PROVE  \A i \in 1 .. Cardinality(S) : \E x \in S : Cardinality(B[x]) = i - 1
<1> DEFINE n == Cardinality(S)
           f == [x \in S |-> Cardinality(B[x]) + 1]
<1>1. n \in Nat
  BY FS_CardinalityType
<1>2. \A x \in S : IsFiniteSet(B[x]) /\ Cardinality(B[x]) \in Nat
  BY FS_Subset, FS_CardinalityType
<1>3. ASSUME NEW x \in S, NEW y \in S, x \in B[y]
      PROVE  Cardinality(B[x]) < Cardinality(B[y])
  <2>1. B[x] \subseteq B[y] /\ B[x] # B[y]
    BY <1>3
  <2>2. Cardinality(B[x]) <= Cardinality(B[y]) /\ Cardinality(B[x]) # Cardinality(B[y])
    BY <1>2, <2>1, FS_Subset
  <2> QED BY <1>2, <2>2
<1>4. ASSUME NEW x \in S PROVE Cardinality(B[x]) < n
  <2>1. Cardinality(B[x]) <= n /\ (Cardinality(B[x]) = n => B[x] = S)
    BY FS_Subset
  <2>2. B[x] # S
    OBVIOUS
  <2> QED BY <1>1, <1>2, <2>1, <2>2
<1>5. f \in Injection(S, 1 .. n)
  <2>1. f \in [S -> 1 .. n]
    <3>1. \A x \in S : Cardinality(B[x]) + 1 \in 1 .. n
      BY <1>1, <1>2, <1>4
    <3> QED BY <3>1
  <2>2. ASSUME NEW x \in S, NEW y \in S, f[x] = f[y] PROVE x = y
    <3>1. Cardinality(B[x]) = Cardinality(B[y])
      BY <1>2, <2>2
    <3>2. x \notin B[y] /\ y \notin B[x]
      BY <1>2, <1>3, <3>1
    <3> QED BY <3>2
  <2> HIDE DEF f
  <2> QED BY <2>1, <2>2 DEF Injection, IsInjective
<1>6. IsFiniteSet(1 .. n) /\ Cardinality(1 .. n) = n
  BY <1>1, FS_Interval
<1>7. f \in Surjection(S, 1 .. n)
  <2> HIDE DEF f
  <2> QED BY <1>5, <1>6, FS_Injection
<1>8. \A i \in 1 .. n : \E x \in S : f[x] = i
  <2> HIDE DEF f
  <2> QED BY <1>7 DEF Surjection
<1>9. ASSUME NEW i \in 1 .. n PROVE \E x \in S : Cardinality(B[x]) = i - 1
  <2>1. PICK x \in S : f[x] = i
    BY <1>8
  <2>2. Cardinality(B[x]) = i - 1
    BY <1>1, <1>2, <2>1
  <2> QED BY <2>2
<1> QED BY <1>9

\* A queue without repetitions.
Distinct(q) == \A i, j \in 1 .. Len(q) : i # j => q[i] # q[j]

\* The channels in their order: each once.
LEMMA ChannelsAre ==
    Channels \in Seq(Channel) /\ Len(Channels) = Cardinality(Channel) /\ Cardinality(Channel) \in Nat
<1>1. Channel \subseteq Nat /\ IsFiniteSet(Channel)
  BY PollingAssumption DEF PollingAssumption
<1>2. Cardinality(Channel) \in Nat
  BY <1>1, FS_CardinalityType
<1> DEFINE B == [x \in Channel |-> {y \in Channel : y < x}]
<1>3. \A i \in 1 .. Cardinality(Channel) : \E x \in Channel : Cardinality(B[x]) = i - 1
  <2>1. B \in [Channel -> SUBSET Channel]
    OBVIOUS
  <2>2. \A x, y \in Channel : y \in B[x] <=> y < x
    OBVIOUS
  <2> HIDE DEF B
  <2>3. \A x \in Channel : x \notin B[x]
    BY <1>1, <2>2
  <2>4. \A x, y \in Channel : y \in B[x] => B[y] \subseteq B[x]
    <3> SUFFICES ASSUME NEW x \in Channel, NEW y \in Channel, y < x, NEW z \in Channel, z < y
                 PROVE  z < x
      BY <2>1, <2>2
    <3> QED BY <1>1
  <2>5. \A x, y \in Channel : x = y \/ x \in B[y] \/ y \in B[x]
    <3> SUFFICES ASSUME NEW x \in Channel, NEW y \in Channel
                 PROVE  x = y \/ x < y \/ y < x
      BY <2>2
    <3> QED BY <1>1
  <2> QED BY <1>1, <2>1, <2>3, <2>4, <2>5, RanksAreTaken
<1>4. \A i \in 1 .. Cardinality(Channel) :
         \E x \in Channel : Cardinality({y \in Channel : y < x}) = i - 1
  BY <1>3
<1>5. Channels \in [1 .. Cardinality(Channel) -> Channel]
  BY <1>4 DEF Channels, Ordered
<1> QED BY <1>2, <1>5

\* Videos in their order: each once, and no other.
LEMMA VideosAre ==
    ASSUME NEW S \in SUBSET Video
    PROVE  /\ Ordered(S, Earlier) \in Seq(S)
           /\ Distinct(Ordered(S, Earlier))
<1>1. Channel \subseteq Nat /\ Number \subseteq Nat /\ IsFiniteSet(Video)
  <2>1. Channel \subseteq Nat /\ IsFiniteSet(Channel) /\ MaxUploads \in Nat
    BY PollingAssumption DEF PollingAssumption
  <2>2. IsFiniteSet(Number) /\ Number \subseteq Nat
    BY <2>1, FS_Interval DEF Number
  <2> QED BY <2>1, <2>2, FS_Product DEF Video
<1>2. IsFiniteSet(S) /\ Cardinality(S) \in Nat
  BY <1>1, FS_Subset, FS_CardinalityType
<1> DEFINE B == [x \in S |-> {y \in S : Earlier(y, x)}]
           q == Ordered(S, Earlier)
<1>3. \A i \in 1 .. Cardinality(S) : \E x \in S : Cardinality(B[x]) = i - 1
  <2>1. B \in [S -> SUBSET S]
    OBVIOUS
  <2>2. \A x, y \in S : y \in B[x] <=> Earlier(y, x)
    OBVIOUS
  <2>3. \A x \in S : x = <<x[1], x[2]>> /\ x[1] \in Nat /\ x[2] \in Nat
    <3>1. \A x \in Video : x = <<x[1], x[2]>> /\ x[1] \in Channel /\ x[2] \in Number
      BY DEF Video
    <3> QED BY <1>1, <3>1
  <2> HIDE DEF B
  <2>4. \A x \in S : x \notin B[x]
    BY <2>2, <2>3 DEF Earlier
  <2>5. \A x, y \in S : y \in B[x] => B[y] \subseteq B[x]
    <3> SUFFICES ASSUME NEW x \in S, NEW y \in S, Earlier(y, x), NEW z \in S, Earlier(z, y)
                 PROVE  Earlier(z, x)
      BY <2>1, <2>2
    <3> QED BY <2>3 DEF Earlier
  <2>6. \A x, y \in S : x = y \/ x \in B[y] \/ y \in B[x]
    <3> SUFFICES ASSUME NEW x \in S, NEW y \in S
                 PROVE  x = y \/ Earlier(x, y) \/ Earlier(y, x)
      BY <2>2
    <3>1. x[1] = y[1] /\ x[2] = y[2] => x = y
      BY <2>3
    <3> QED BY <2>3, <3>1 DEF Earlier
  <2> QED BY <1>2, <2>1, <2>4, <2>5, <2>6, RanksAreTaken
<1>4. \A i \in 1 .. Cardinality(S) :
         \E x \in S : Cardinality({y \in S : Earlier(y, x)}) = i - 1
  BY <1>3
<1>5. q = [i \in 1 .. Cardinality(S) |-> CHOOSE x \in S : Cardinality({y \in S : Earlier(y, x)}) = i - 1]
  BY DEF Ordered
<1>6. \A i \in 1 .. Cardinality(S) :
         q[i] \in S /\ Cardinality({y \in S : Earlier(y, q[i])}) = i - 1
  BY <1>4, <1>5
<1>7. q \in [1 .. Cardinality(S) -> S]
  BY <1>5, <1>6
<1> HIDE DEF q
<1>8. q \in Seq(S) /\ Len(q) = Cardinality(S)
  BY <1>2, <1>7
<1>9. ASSUME NEW i \in 1 .. Len(q), NEW j \in 1 .. Len(q), q[i] = q[j] PROVE i = j
  <2>1. i - 1 = j - 1
    BY <1>6, <1>8, <1>9
  <2> QED BY <1>2, <1>8, <2>1
<1>10. Distinct(q)
  BY <1>9 DEF Distinct
<1> QED BY <1>8, <1>10 DEF q

\* What is left of a queue.
LEMMA TailIs ==
    ASSUME NEW T, NEW q \in Seq(T), q # <<>>
    PROVE  /\ Head(q) \in T /\ Tail(q) \in Seq(T)
           /\ Len(q) \in Nat \ {0} /\ Len(Tail(q)) = Len(q) - 1
           /\ \A i \in 1 .. Len(Tail(q)) : Tail(q)[i] = q[i + 1]
<1>1. Len(q) \in Nat \ {0} /\ Head(q) = q[1]
  OBVIOUS
<1>2. Tail(q) \in Seq(T) /\ Len(Tail(q)) = Len(q) - 1
  OBVIOUS
<1>3. \A i \in 1 .. Len(Tail(q)) : Tail(q)[i] = q[i + 1]
  OBVIOUS
<1>4. q[1] \in T
  BY <1>1
<1> QED BY <1>1, <1>2, <1>3, <1>4

\* ... has no repetitions, nor its head.
LEMMA TailDistinct ==
    ASSUME NEW T, NEW q \in Seq(T), q # <<>>, Distinct(q)
    PROVE  /\ Distinct(Tail(q))
           /\ \A i \in 1 .. Len(Tail(q)) : Tail(q)[i] # Head(q)
<1> DEFINE r == Tail(q)
<1>1. /\ Len(q) \in Nat \ {0} /\ Len(r) = Len(q) - 1
      /\ \A i \in 1 .. Len(r) : r[i] = q[i + 1]
      /\ Head(q) = q[1]
  BY TailIs
<1> HIDE DEF r
<1>2. \A i \in 1 .. Len(r) : i + 1 \in 1 .. Len(q) /\ i + 1 # 1
  BY <1>1
<1>3. \A i, j \in 1 .. Len(r) : i # j => r[i] # r[j]
  BY <1>1, <1>2 DEF Distinct
<1>4. \A i \in 1 .. Len(r) : r[i] # Head(q)
  BY <1>1, <1>2 DEF Distinct
<1> QED BY <1>3, <1>4 DEF r, Distinct

Waits(r) == r.mail \in {"pending", "retry"}

\* The open videos are videos.
LEMMA OpenVideosAre == ASSUME NEW t PROVE OpenVideos(t) \in Seq(Video)
<1> DEFINE S == {v \in Video : t.video[v].stages = "open"}
<1>1. OpenVideos(t) = Ordered(S, Earlier)
  BY DEF OpenVideos, Videos
<1>2. S \in SUBSET Video
  OBVIOUS
<1> HIDE DEF S
<1>3. Ordered(S, Earlier) \in Seq(S)
  BY <1>2, VideosAre
<1> QED BY <1>1, <1>2, <1>3

\* Each delivery that waits is taken up once.
LEMMA DeliveriesAre ==
    ASSUME NEW t
    PROVE  /\ Deliveries(t) \in Seq(Video) /\ Distinct(Deliveries(t))
           /\ \A i \in 1 .. Len(Deliveries(t)) : Waits(t.video[Deliveries(t)[i]])
<1> DEFINE S == {v \in Video : t.video[v].mail = "pending"}
           R == {v \in Video : t.video[v].mail = "retry"}
           p == Ordered(S, Earlier)
           q == Ordered(R, Earlier)
           d == p \o q
<1>1. Deliveries(t) = d
  BY DEF Deliveries, Videos
<1>2. p \in Seq(S) /\ Distinct(p) /\ q \in Seq(R) /\ Distinct(q)
  BY VideosAre
<1>3. /\ \A v \in S : v \in Video /\ Waits(t.video[v]) /\ v \notin R
      /\ \A v \in R : v \in Video /\ Waits(t.video[v])
  BY DEF Waits
<1> HIDE DEF S, R, p, q
<1>4. p \in Seq(Video) /\ q \in Seq(Video)
  BY <1>2, <1>3
<1>5. /\ d \in Seq(Video) /\ Len(p) \in Nat /\ Len(q) \in Nat /\ Len(d) = Len(p) + Len(q)
      /\ \A i \in 1 .. Len(d) : d[i] = IF i <= Len(p) THEN p[i] ELSE q[i - Len(p)]
  BY <1>4
<1> HIDE DEF d
<1>6. ASSUME NEW i \in 1 .. Len(d)
      PROVE  \/ i <= Len(p) /\ i \in 1 .. Len(p) /\ d[i] = p[i] /\ d[i] \in S
             \/ i > Len(p) /\ i - Len(p) \in 1 .. Len(q) /\ d[i] = q[i - Len(p)] /\ d[i] \in R
  <2>1. CASE i <= Len(p)
    <3>1. i \in 1 .. Len(p) /\ d[i] = p[i]
      BY <1>5, <2>1
    <3> QED BY <1>2, <2>1, <3>1
  <2>2. CASE i > Len(p)
    <3>1. Len(p) \in Nat /\ Len(q) \in Nat /\ i \in 1 .. Len(p) + Len(q) /\ ~(i <= Len(p))
      BY <1>5, <2>2
    <3>2. i - Len(p) \in 1 .. Len(q)
      BY <3>1
    <3>3. d[i] = q[i - Len(p)]
      BY <1>5, <3>1
    <3> QED BY <1>2, <2>2, <3>2, <3>3
  <2> QED BY <1>5, <2>1, <2>2
<1>7. ASSUME NEW i \in 1 .. Len(d), NEW j \in 1 .. Len(d), i # j PROVE d[i] # d[j]
  <2>1. CASE i <= Len(p) /\ j <= Len(p)
    <3>1. /\ i \in 1 .. Len(p) /\ d[i] = p[i]
          /\ j \in 1 .. Len(p) /\ d[j] = p[j]
      BY <1>5, <1>6, <2>1
    <3> QED BY <1>2, <1>7, <3>1 DEF Distinct
  <2>2. CASE i > Len(p) /\ j > Len(p)
    <3>1. /\ i - Len(p) \in 1 .. Len(q) /\ d[i] = q[i - Len(p)]
          /\ j - Len(p) \in 1 .. Len(q) /\ d[j] = q[j - Len(p)]
      BY <1>5, <1>6, <2>2
    <3>2. i - Len(p) # j - Len(p)
      BY <1>5, <1>7
    <3> QED BY <1>2, <3>1, <3>2 DEF Distinct
  <2>3. CASE (i <= Len(p)) # (j <= Len(p))
    BY <1>3, <1>5, <1>6, <2>3
  <2> QED BY <1>5, <2>1, <2>2, <2>3
<1>8. \A i \in 1 .. Len(d) : Waits(t.video[d[i]])
  BY <1>3, <1>6
<1>9. Distinct(d)
  BY <1>7 DEF Distinct
<1> QED BY <1>1, <1>5, <1>8, <1>9

-----------------------------------------------------------------------------
(* The invariant.                                                          *)

Types ==
    /\ ctx \in Context /\ units \in Units
    /\ base \in [Channel -> 0 .. MaxUploads]
    /\ mailed \in [Video -> Nat] /\ doubts \in [Video -> Nat]
    /\ commands \in 0 .. MaxCommands /\ faults \in 0 .. MaxFaults
    /\ db.used \in Nat /\ mem.used \in Nat

\* What a run still has before it, each row once.
QueueOK ==
    /\ run.kind \in {"none", "poll", "reconcile"} /\ run.pc \in Phase
    /\ run.kind = "none" => run = NoRun /\ mem = db
    /\ run.pc \in {"drain", "mails"} => run.kind = "poll"
    /\ run.pc \in {"drain", "mails", "drain again"} => run.queue \in Seq(Video)
    /\ run.pc = "mails" =>
          Distinct(run.queue) /\ \A i \in 1 .. Len(run.queue) : Waits(mem.video[run.queue[i]])
    /\ run.pc = "channels" =>
          run.queue \in Seq(Channel) /\ Len(run.queue) <= Cardinality(Channel)

\* Every e-mail of a video is on its record, or in doubt.
MailBook ==
    \A v \in Video :
        mailed[v] <= doubts[v] + IF mem.video[v].mail = "delivered" THEN 1 ELSE 0

\* Every unit is in the row, on its way there, or lost.
UnitBook ==
    /\ units.spent = db.used + units.unsaved + units.uncounted
    /\ mem.used = db.used
    /\ run.kind = "none" \/ (run.kind = "reconcile" /\ run.pc = "drain again") => units.unsaved = 0
    /\ run.kind # "none" /\ ~ctx.stale => ctx.used = db.used + units.unsaved
    /\ ctx.stale => db.used = 0 /\ run.kind # "none"

\* What may be spent when n channels are left.
Room(n) == Budget - 1 + (Cardinality(Channel) - n) * (1 + MaxUploads)

Budgeted ==
    /\ db.used <= Room(0)
    /\ ~ctx.stale => ctx.used <= Room(0)
    /\ ~ctx.stale /\ run.pc \in {"drain", "mails"} => ctx.used < Budget
    /\ ~ctx.stale /\ run.pc = "channels" =>
          \/ ctx.used <= Room(Len(run.queue))
          \/ ctx.blocked /\ run.kind = "reconcile"

BInv == Types /\ QueueOK /\ MailBook /\ UnitBook /\ Budgeted

-----------------------------------------------------------------------------
(* Budgets.                                                                *)

\* The arithmetic of products.
LEMMA Products ==
    \A a, b, k \in Nat : /\ a * k \in Nat /\ (a + 1) * k = a * k + k /\ 0 * k = 0
                         /\ a <= b => a * k <= b * k
  OBVIOUS

\* The bounds are numbers.
LEMMA Bounds ==
    /\ MaxUploads \in Nat /\ Budget \in Nat /\ Budget >= 1
    /\ MaxCommands \in Nat /\ MaxFaults \in Nat /\ MaxPages \in Nat
    /\ Cardinality(Channel) \in Nat
  BY ChannelsAre, PollingAssumption DEF PollingAssumption

\* What each channel adds.
LEMMA RoomIs ==
    ASSUME NEW n \in 0 .. Cardinality(Channel)
    PROVE  /\ Room(n) \in Nat /\ Room(n) <= Room(0) /\ Room(n) >= Budget - 1
           /\ n # 0 => Room(n - 1) = Room(n) + (1 + MaxUploads)
           /\ n = Cardinality(Channel) => Room(n) = Budget - 1
<1> DEFINE N == Cardinality(Channel)
           K == 1 + MaxUploads
           a == N - n
<1>1. N \in Nat /\ K \in Nat /\ a \in Nat /\ a <= N /\ Budget \in Nat /\ Budget >= 1
  BY Bounds
<1>2. Room(n) = Budget - 1 + a * K /\ Room(0) = Budget - 1 + N * K
  BY <1>1 DEF Room
<1>3. n # 0 => Room(n - 1) = Budget - 1 + (a + 1) * K
  <2>1. N - (n - 1) = a + 1
    BY <1>1
  <2> QED BY <2>1 DEF Room
<1> HIDE DEF N, K, a
<1>4. a * K \in Nat /\ (a + 1) * K = a * K + K /\ 0 * K = 0 /\ a * K <= N * K /\ N * K \in Nat
  BY <1>1, Products
<1> DEFINE P == a * K
           Q == N * K
           O == (a + 1) * K
<1>5. P \in Nat /\ O = P + K /\ P <= Q /\ Q \in Nat
  BY <1>4
<1>6. Room(n) = Budget - 1 + P /\ Room(0) = Budget - 1 + Q /\ (n # 0 => Room(n - 1) = Budget - 1 + O)
  BY <1>2, <1>3
<1>7. n = N => P = 0
  BY <1>1, <1>4 DEF a
<1> HIDE DEF P, Q, O
<1>8. Room(n) \in Nat /\ Room(n) <= Room(0) /\ Room(n) >= Budget - 1
  BY <1>1, <1>5, <1>6
<1>9. n # 0 => Room(n - 1) = Room(n) + K
  BY <1>1, <1>5, <1>6
<1>10. n = N => Room(n) = Budget - 1
  BY <1>1, <1>6, <1>7
<1> QED BY <1>8, <1>9, <1>10 DEF N, K

-----------------------------------------------------------------------------
(* Steps of a run.                                                         *)

\* The next of the queue, in the same phase.
LEMMA OnwardIs ==
    ASSUME IInv, Onward
    PROVE  run'.kind = run.kind /\ run'.pc = run.pc /\ run'.queue = Tail(run.queue)
<1>1. run' = [kind |-> run.kind, pc |-> run.pc, queue |-> Tail(run.queue)]
  BY DEF Onward, IInv, Shape
<1> QED BY <1>1

\* The next phase.
LEMMA GotoIs ==
    ASSUME IInv, NEW pc, NEW queue, Goto(pc, queue)
    PROVE  run'.kind = run.kind /\ run'.pc = pc /\ run'.queue = queue
<1>1. run' = [kind |-> run.kind, pc |-> pc, queue |-> queue]
  BY DEF Goto, IInv, Shape
<1> QED BY <1>1

\* n units are spent.
LEMMA Spent ==
    ASSUME Types, NEW n \in Nat, Spend(n)
    PROVE  /\ units' \in Units
           /\ units'.spent = units.spent + n /\ units'.unsaved = units.unsaved + n
           /\ units'.uncounted = units.uncounted
<1>1. units' = [spent |-> units.spent + n, unsaved |-> units.unsaved + n, uncounted |-> units.uncounted]
  BY DEF Spend, Types, Units
<1>2. units.spent \in Nat /\ units.unsaved \in Nat /\ units.uncounted \in Nat
  BY DEF Types, Units
<1> QED BY <1>1, <1>2 DEF Units

\* A channel is visited, at a cost.
LEMMA VisitKeeps ==
    ASSUME IInv, BInv, run.kind # "none", run.pc = "channels", run.queue # <<>>, Onward,
           UNCHANGED db, mem'.used = mem.used,
           NEW n \in Nat, NEW b \in BOOLEAN, Spend(n),
           ctx' = [used |-> ctx.used + n, blocked |-> b, stale |-> ctx.stale],
           ~ctx.stale =>
               \/ ctx.used + n <= Room(Len(run.queue) - 1)
               \/ b /\ run.kind = "reconcile" /\ ctx.used + n <= Room(0)
    PROVE  /\ ctx' \in Context /\ units' \in Units /\ db'.used \in Nat /\ mem'.used \in Nat
           /\ QueueOK' /\ UnitBook' /\ Budgeted'
<1>1. run'.kind = run.kind /\ run'.pc = "channels" /\ run'.queue = Tail(run.queue)
  BY OnwardIs
<1>2. run.queue \in Seq(Channel) /\ Len(run.queue) <= Cardinality(Channel)
  BY DEF BInv, QueueOK
<1>3. /\ run'.queue \in Seq(Channel) /\ Len(run'.queue) = Len(run.queue) - 1
      /\ Len(run.queue) \in Nat \ {0}
  BY <1>1, <1>2, TailIs
<1>4. ctx.used \in Nat /\ ctx.stale \in BOOLEAN /\ db.used \in Nat /\ mem.used \in Nat
  BY DEF BInv, Types, Context
<1>5. ctx' \in Context /\ ctx'.used = ctx.used + n /\ ctx'.blocked = b /\ ctx'.stale = ctx.stale
  BY <1>4 DEF Context
<1>6. QueueOK'
  <2>1. Len(run'.queue) <= Cardinality(Channel)
    BY <1>2, <1>3, Bounds
  <2>2. "channels" \in Phase
    BY DEF Phase
  <2> QED BY <1>1, <1>3, <2>1, <2>2 DEF BInv, QueueOK
<1>7. UnitBook'
  <2>1. /\ units'.spent = units.spent + n /\ units'.unsaved = units.unsaved + n
        /\ units'.uncounted = units.uncounted
        /\ units.spent \in Nat /\ units.unsaved \in Nat /\ units.uncounted \in Nat
    BY Spent DEF BInv, Types, Units
  <2>2. units'.spent = db'.used + units'.unsaved + units'.uncounted
    BY <1>4, <2>1 DEF BInv, UnitBook
  <2>3. mem'.used = db'.used /\ (ctx'.stale => db'.used = 0 /\ run'.kind # "none")
    BY <1>1, <1>5 DEF BInv, UnitBook
  <2>4. ~ctx'.stale => ctx'.used = db'.used + units'.unsaved
    BY <1>4, <1>5, <2>1 DEF BInv, UnitBook
  <2> QED BY <1>1, <2>2, <2>3, <2>4 DEF UnitBook
<1>8. Budgeted'
  <2>1. Len(run.queue) - 1 \in 0 .. Cardinality(Channel) /\ 0 \in 0 .. Cardinality(Channel)
    BY <1>2, <1>3, Bounds
  <2>2. Room(Len(run.queue) - 1) <= Room(0) /\ Room(Len(run.queue) - 1) \in Nat /\ Room(0) \in Nat
    BY <2>1, RoomIs
  <2>3. ~ctx.stale => ctx.used + n <= Room(0)
    BY <1>4, <2>2
  <2>4. Room(Len(run.queue) - 1) = Room(Len(run'.queue))
    BY <1>3
  <2>5. /\ db'.used <= Room(0)
        /\ ~ctx'.stale => ctx'.used <= Room(0)
        /\ ~ctx'.stale => ctx'.used <= Room(Len(run'.queue)) \/ (ctx'.blocked /\ run'.kind = "reconcile")
    BY <1>1, <1>5, <2>3, <2>4 DEF BInv, Budgeted
  <2> QED BY <1>1, <2>5 DEF Budgeted, Room
<1> QED BY <1>4, <1>5, <1>6, <1>7, <1>8, Spent DEF BInv

\* A poll's visit costs no more than a channel may.
LEMMA PollVisitKeeps ==
    ASSUME IInv, BInv, Visiting("poll"), mem'.used = mem.used,
           NEW n \in Nat, Costs(n), n <= 1 + MaxUploads
    PROVE  /\ ctx' \in Context /\ units' \in Units /\ db'.used \in Nat /\ mem'.used \in Nat
           /\ QueueOK' /\ UnitBook' /\ Budgeted'
<1>1. /\ run.kind = "poll" /\ run.pc = "channels" /\ run.queue # <<>> /\ Onward /\ UNCHANGED db
      /\ Spend(n)
  BY DEF Visiting, In, Costs
<1>2. ctx.used \in Nat /\ ctx.blocked \in BOOLEAN
      /\ ctx' = [used |-> ctx.used + n, blocked |-> ctx.blocked, stale |-> ctx.stale]
  BY DEF BInv, Types, Context, Costs
<1>3. Len(run.queue) \in 1 .. Cardinality(Channel)
  <2>1. run.queue \in Seq(Channel) /\ Len(run.queue) <= Cardinality(Channel)
    BY <1>1 DEF BInv, QueueOK
  <2>2. Len(run.queue) \in Nat \ {0}
    BY <1>1, <2>1, TailIs
  <2> QED BY <2>1, <2>2, Bounds
<1>4. /\ Room(Len(run.queue) - 1) = Room(Len(run.queue)) + (1 + MaxUploads)
      /\ Room(Len(run.queue)) \in Nat
  <2> DEFINE L == Len(run.queue)
  <2>1. L \in 0 .. Cardinality(Channel) /\ L # 0
    BY <1>3, Bounds
  <2> HIDE DEF L
  <2>2. Room(L - 1) = Room(L) + (1 + MaxUploads) /\ Room(L) \in Nat
    BY <2>1, RoomIs
  <2> QED BY <2>2 DEF L
<1>5. ~ctx.stale => ctx.used <= Room(Len(run.queue))
  BY <1>1 DEF BInv, Budgeted
<1>6. ~ctx.stale => ctx.used + n <= Room(Len(run.queue) - 1)
  <2> DEFINE x == Room(Len(run.queue))
             y == Room(Len(run.queue) - 1)
  <2> HIDE DEF x, y
  <2>1. y = x + (1 + MaxUploads) /\ x \in Nat /\ MaxUploads \in Nat /\ (~ctx.stale => ctx.used <= x)
    BY <1>4, <1>5, Bounds DEF x, y
  <2>2. ~ctx.stale => ctx.used + n <= y
    BY <1>2, <2>1
  <2> QED BY <2>2 DEF y
<1> QED BY <1>1, <1>2, <1>6, VisitKeeps


-----------------------------------------------------------------------------
(* E-mails.                                                                *)

\* No delivery is forgotten.
Delivers(t, u) ==
    \A v \in Video : t.video[v].mail = "delivered" => u.video[v].mail = "delivered"

\* No e-mail leaves.
LEMMA MailKept ==
    ASSUME MailBook, UNCHANGED <<mailed, doubts>>, Delivers(mem, mem'), Types
    PROVE  MailBook'
<1> SUFFICES ASSUME NEW v \in Video
             PROVE  mailed[v] <= doubts[v] + IF mem'.video[v].mail = "delivered" THEN 1 ELSE 0
  BY DEF MailBook
<1>1. mailed[v] \in Nat /\ doubts[v] \in Nat
  BY DEF Types
<1>2. mailed[v] <= doubts[v] + IF mem.video[v].mail = "delivered" THEN 1 ELSE 0
  BY DEF MailBook
<1>3. mem.video[v].mail = "delivered" => mem'.video[v].mail = "delivered"
  BY DEF Delivers
<1> QED BY <1>1, <1>2, <1>3

\* An e-mail that leaves is delivered, or its answer lost.
LEMMA AttemptSends ==
    ASSUME NEW r, NEW a \in Attempt(r)
    PROVE  /\ a.sent \in {0, 1} /\ a.lost \in {0, 1}
           /\ a.sent <= a.lost + IF a.mail = "delivered" THEN 1 ELSE 0
           /\ a.mail \notin {"none", "pending"}
  BY DEF Attempt

\* An e-mail is tried, for a video that was not delivered.
LEMMA MailTried ==
    ASSUME Types, MailBook, NEW v \in Video, mem.video[v].mail # "delivered",
           NEW r, NEW a \in Attempt(r), Mails(v, a), mem'.video[v].mail = a.mail,
           \A w \in Video \ {v} : mem'.video[w].mail = mem.video[w].mail
    PROVE  /\ MailBook'
           /\ mailed' \in [Video -> Nat] /\ doubts' \in [Video -> Nat]
           /\ faults' \in 0 .. MaxFaults
<1>1. /\ a.sent \in {0, 1} /\ a.lost \in {0, 1}
      /\ a.sent <= a.lost + IF a.mail = "delivered" THEN 1 ELSE 0
  BY AttemptSends
<1> DEFINE s == a.sent
           l == a.lost
<1>2. mailed' = [mailed EXCEPT ![v] = @ + s] /\ doubts' = [doubts EXCEPT ![v] = @ + l]
  BY DEF Mails
<1>3. s \in {0, 1} /\ l \in {0, 1} /\ s <= l + IF a.mail = "delivered" THEN 1 ELSE 0
  BY <1>1
<1> HIDE DEF s, l
<1>4. mailed \in [Video -> Nat] /\ doubts \in [Video -> Nat]
  BY DEF Types
<1>5. /\ mailed' \in [Video -> Nat] /\ doubts' \in [Video -> Nat]
      /\ \A w \in Video : /\ mailed'[w] = IF w = v THEN mailed[v] + s ELSE mailed[w]
                          /\ doubts'[w] = IF w = v THEN doubts[v] + l ELSE doubts[w]
  BY <1>2, <1>3, <1>4
<1>6. faults' \in 0 .. MaxFaults
  BY Bounds DEF Mails, Fault, Types
<1>7. MailBook'
  <2> SUFFICES ASSUME NEW w \in Video
               PROVE  mailed'[w] <= doubts'[w] + IF mem'.video[w].mail = "delivered" THEN 1 ELSE 0
    BY DEF MailBook
  <2>1. mailed[w] <= doubts[w] + IF mem.video[w].mail = "delivered" THEN 1 ELSE 0
    BY DEF MailBook
  <2>2. mailed[w] \in Nat /\ doubts[w] \in Nat
    BY <1>4
  <2>3. CASE w = v
    <3>1. mailed[v] <= doubts[v] /\ mailed'[v] = mailed[v] + s /\ doubts'[v] = doubts[v] + l
      BY <1>5, <2>1, <2>2, <2>3
    <3> QED BY <1>3, <2>2, <2>3, <3>1
  <2>4. CASE w # v
    BY <1>5, <2>1, <2>4
  <2> QED BY <2>3, <2>4
<1> QED BY <1>5, <1>6, <1>7

-----------------------------------------------------------------------------
(* Tables.                                                                 *)

\* Rows that are replaced leave the rest.
LEMMA RowsReplaced ==
    ASSUME NEW t, TablesOK(t), NEW V
    PROVE  /\ [t EXCEPT !.video = V].video = V /\ [t EXCEPT !.video = V].used = t.used
           /\ [t EXCEPT !.video = V].marker = t.marker
<1> DEFINE u == [marker |-> t.marker, based |-> t.based, video |-> V, used |-> t.used]
<1>1. [t EXCEPT !.video = V] = u
  BY DEF TablesOK
<1>2. u.video = V /\ u.used = t.used /\ u.marker = t.marker
  OBVIOUS
<1> HIDE DEF u
<1> QED BY <1>1, <1>2

\* Rows and markers that are replaced leave the count of the day.
LEMMA MarkersReplaced ==
    ASSUME NEW t, TablesOK(t), NEW V, NEW M
    PROVE  /\ [t EXCEPT !.marker = M, !.video = V].video = V
           /\ [t EXCEPT !.marker = M, !.video = V].used = t.used
           /\ [t EXCEPT !.video = V, !.marker = M].video = V
           /\ [t EXCEPT !.video = V, !.marker = M].used = t.used
<1> DEFINE w == [marker |-> M, based |-> t.based, video |-> V, used |-> t.used]
<1>1. w.video = V /\ w.used = t.used
  OBVIOUS
<1>2. ASSUME NEW q, \/ q = [t EXCEPT !.marker = M, !.video = V]
                    \/ q = [t EXCEPT !.video = V, !.marker = M]
      PROVE  q = w
  <2>1. CASE q = [t EXCEPT !.marker = M, !.video = V]
    BY <2>1 DEF TablesOK
  <2>2. CASE q = [t EXCEPT !.video = V, !.marker = M]
    BY <2>2 DEF TablesOK
  <2> QED BY <1>2, <2>1, <2>2
<1> HIDE DEF w
<1>3. [t EXCEPT !.marker = M, !.video = V] = w
  BY <1>2, Zenon
<1>4. [t EXCEPT !.video = V, !.marker = M] = w
  BY <1>2, Zenon
<1> QED BY <1>1, <1>3, <1>4, Zenon

\* The count of the day that is replaced leaves the rows.
LEMMA CountReplaced ==
    ASSUME NEW t, TablesOK(t), NEW n
    PROVE  /\ [t EXCEPT !.used = n].used = n /\ [t EXCEPT !.used = n].video = t.video
           /\ [t EXCEPT !.used = n].marker = t.marker
<1> DEFINE u == [marker |-> t.marker, based |-> t.based, video |-> t.video, used |-> n]
<1>1. [t EXCEPT !.used = n] = u
  BY DEF TablesOK
<1>2. u.used = n /\ u.video = t.video /\ u.marker = t.marker
  OBVIOUS
<1> HIDE DEF u
<1> QED BY <1>1, <1>2

\* What the skipping of Shorts and the recording of a video leave of a delivery.
LEMMA RowMail ==
    ASSUME NEW r \in Row
    PROVE  /\ r.mail = "delivered" => SkippedShort(r).mail = "delivered"
           /\ WithStages(r).mail = r.mail
           /\ WithDelivery(r).mail \in {r.mail, "pending"}
           /\ r.mail # "none" => WithDelivery(r).mail = r.mail
           /\ \A s : [r EXCEPT !.short = s].mail = r.mail /\ [r EXCEPT !.stages = s].mail = r.mail
           /\ \A m : [r EXCEPT !.mail = m].mail = m
<1>1. r.mail = "delivered" => SkippedShort(r).mail = "delivered"
  BY DEF SkippedShort, Row
<1>2. WithStages(r).mail = r.mail
  BY DEF WithStages, Row
<1>3. WithDelivery(r).mail \in {r.mail, "pending"} /\ (r.mail # "none" => WithDelivery(r).mail = r.mail)
  BY DEF WithDelivery, Row
<1>4. /\ \A s : [r EXCEPT !.short = s].mail = r.mail /\ [r EXCEPT !.stages = s].mail = r.mail
      /\ \A m : [r EXCEPT !.mail = m].mail = m
  BY DEF Row
<1> QED BY <1>1, <1>2, <1>3, <1>4

-----------------------------------------------------------------------------
(* The world.                                                              *)

\* A fault, and a command, are counted.
LEMMA Counting ==
    ASSUME Types
    PROVE  /\ Fault => faults' \in 0 .. MaxFaults
           /\ Command => commands' \in 0 .. MaxCommands
           /\ UNCHANGED faults => faults' \in 0 .. MaxFaults
           /\ UNCHANGED commands => commands' \in 0 .. MaxCommands
  BY Bounds DEF Types, Fault, Command

\* Uploads come and go.
LEMMA OutsideKeepsBooks ==
    ASSUME BInv, UNCHANGED <<commands, db, mem, run, ctx, history, units>>,
           Fault \/ UNCHANGED faults
    PROVE  BInv'
<1>1. Types'
  BY Counting DEF BInv, Types, history
<1>2. QueueOK' /\ MailBook' /\ UnitBook' /\ Budgeted'
  BY DEF BInv, QueueOK, MailBook, UnitBook, Budgeted, Room, history
<1> QED BY <1>1, <1>2 DEF BInv

\* Midnight.
LEMMA NewDayKeepsBooks ==
    ASSUME IInv, BInv, NewDay
    PROVE  BInv'
<1>1. /\ UNCHANGED <<commands, run, history, faults>>
      /\ db' = [db EXCEPT !.used = 0] /\ mem' = [mem EXCEPT !.used = 0]
      /\ ctx' = [ctx EXCEPT !.stale = run # NoRun]
      /\ units' = [spent |-> 0, unsaved |-> 0, uncounted |-> 0]
  BY DEF NewDay, external
<1>2. /\ db'.used = 0 /\ mem'.used = 0 /\ mem'.video = mem.video
      /\ db = mem => db' = mem'
  BY <1>1, CountReplaced DEF IInv, Shape
<1>3. units' \in Units /\ units'.spent = 0 /\ units'.unsaved = 0 /\ units'.uncounted = 0
  BY <1>1 DEF Units
<1> DEFINE b == run # NoRun
<1>4. b \in BOOLEAN /\ (b <=> run # NoRun)
  OBVIOUS
<1>5. ctx' = [ctx EXCEPT !.stale = b]
  BY <1>1
<1> HIDE DEF b
<1>6. ctx' \in Context /\ ctx'.used = ctx.used /\ ctx'.blocked = ctx.blocked /\ ctx'.stale = b
  BY <1>4, <1>5 DEF BInv, Types, Context
<1>7. b <=> run.kind # "none"
  <2>1. run = NoRun => run.kind = "none"
    BY DEF NoRun
  <2>2. run.kind = "none" => run = NoRun
    BY DEF BInv, QueueOK
  <2> QED BY <1>4, <2>1, <2>2
<1>8. Types'
  BY <1>1, <1>2, <1>3, <1>6, Counting DEF BInv, Types, history
<1>9. QueueOK'
  BY <1>1, <1>2 DEF BInv, QueueOK
<1>10. MailBook'
  BY <1>1, <1>2 DEF BInv, MailBook, history
<1>11. UnitBook'
  <2>1. units'.spent = db'.used + units'.unsaved + units'.uncounted
    BY <1>2, <1>3
  <2>2. run'.kind # "none" => ctx'.stale
    BY <1>1, <1>6, <1>7
  <2>3. ctx'.stale => run'.kind # "none"
    BY <1>1, <1>6, <1>7
  <2> QED BY <1>2, <1>3, <2>1, <2>2, <2>3 DEF UnitBook
<1>12. Budgeted'
  <2>1. Room(0) \in Nat
    BY RoomIs, Bounds
  <2>2. CASE b
    BY <1>2, <1>6, <2>1, <2>2 DEF Budgeted, Room
  <2>3. CASE ~b
    <3>1. run.pc = "idle" /\ run' = run /\ ~ctx.stale
      <4>1. run.kind = "none" /\ run' = run /\ run = NoRun
        BY <1>1, <1>4, <1>7, <2>3
      <4> QED BY <4>1 DEF NoRun, BInv, UnitBook
    <3> QED BY <1>2, <1>6, <2>1, <3>1 DEF BInv, Budgeted, Room
  <2> QED BY <2>2, <2>3
<1> QED BY <1>8, <1>9, <1>10, <1>11, <1>12 DEF BInv

\* With a video there is a channel.
LEMMA RoomForOne ==
    ASSUME NEW v \in Video
    PROVE  Room(0) >= Budget
<1>1. Cardinality(Channel) # 0
  <2>1. v[1] \in Channel /\ IsFiniteSet(Channel)
    BY PollingAssumption DEF Video, PollingAssumption
  <2> QED BY <2>1, FS_EmptySet
<1>2. 1 \in 0 .. Cardinality(Channel) /\ 1 # 0
  BY <1>1, Bounds
<1>3. Room(1 - 1) = Room(1) + (1 + MaxUploads) /\ Room(1) >= Budget - 1 /\ Room(1) \in Nat
  BY <1>2, RoomIs
<1>4. Room(1 - 1) = Room(0)
  BY DEF Room
<1> QED BY <1>3, <1>4, Bounds

\* A manual command looks a video up.
LEMMA LookupKeepsBooks ==
    ASSUME IInv, BInv, NEW v \in Video, Lookup(v)
    PROVE  BInv'
<1> DEFINE r == db.video[v]
           q == LookedUp(v, r)
           V == [db.video EXCEPT ![v] = q]
           t == [db EXCEPT !.video = V]
           n == db.used + 1
<1>1. /\ run = NoRun /\ db.used < Budget /\ Command
      /\ UNCHANGED <<run, ctx, history, faults>> /\ mem' = db'
      /\ units' = [units EXCEPT !.spent = @ + 1]
  BY DEF Lookup
<1>2. db' = [db EXCEPT !.used = n] \/ db' = [t EXCEPT !.used = n]
  <2>1. CASE db' = [db EXCEPT !.used = @ + 1]
    BY <2>1
  <2>2. CASE db' = [db EXCEPT !.used = @ + 1, !.video[v] = LookedUp(v, @)]
    <3>1. db' = [db EXCEPT !.used = n, !.video = V]
      BY <2>2
    <3>2. db = [marker |-> db.marker, based |-> db.based, video |-> db.video, used |-> db.used]
      BY DEF IInv, Shape, TablesOK
    <3> HIDE DEF V, n
    <3>3. db' = [t EXCEPT !.used = n]
      BY <3>1, <3>2
    <3> QED BY <3>3
  <2> QED BY <2>1, <2>2 DEF Lookup
<1>3. TablesOK(db) /\ r \in Row
  BY DEF IInv, Shape, TablesOK
<1>4. q.mail = r.mail
  BY <1>3 DEF LookedUp, Row
<1>5. \A w \in Video : V[w].mail = db.video[w].mail
  <2>1. \A w \in Video : V[w] = IF w = v THEN q ELSE db.video[w]
    BY <1>3 DEF TablesOK
  <2> HIDE DEF q, V
  <2> QED BY <1>4, <2>1
<1> HIDE DEF V, q
<1>6. t = [marker |-> db.marker, based |-> db.based, video |-> V, used |-> db.used]
  BY <1>3 DEF TablesOK
<1>7. t.video = V
  BY <1>3, RowsReplaced
<1> HIDE DEF t, n
<1>8. db'.used = n /\ (db'.video = db.video \/ db'.video = V)
  <2>1. CASE db' = [db EXCEPT !.used = n]
    BY <1>3, <2>1, CountReplaced
  <2>2. CASE db' = [t EXCEPT !.used = n]
    <3> DEFINE u == [marker |-> db.marker, based |-> db.based, video |-> V, used |-> n]
    <3>1. db' = u
      BY <1>6, <2>2
    <3>2. u.used = n /\ u.video = V
      OBVIOUS
    <3> HIDE DEF u
    <3> QED BY <3>1, <3>2
  <2> QED BY <1>2, <2>1, <2>2
<1>9. db'.used = db.used + 1 /\ mem'.used = db.used + 1 /\ db.used \in Nat
  BY <1>1, <1>8 DEF n, BInv, Types
<1>10. \A w \in Video : mem'.video[w].mail = mem.video[w].mail
  <2>1. mem = db
    BY <1>1 DEF BInv, QueueOK, NoRun
  <2> QED BY <1>1, <1>5, <1>8, <2>1
<1>11. /\ units' \in Units
       /\ units'.spent = units.spent + 1 /\ units'.unsaved = units.unsaved
       /\ units'.uncounted = units.uncounted
       /\ units.spent \in Nat /\ units.unsaved \in Nat /\ units.uncounted \in Nat
  <2>1. units' = [spent |-> units.spent + 1, unsaved |-> units.unsaved, uncounted |-> units.uncounted]
    BY <1>1 DEF BInv, Types, Units
  <2>2. units.spent \in Nat /\ units.unsaved \in Nat /\ units.uncounted \in Nat
    BY DEF BInv, Types, Units
  <2> QED BY <2>1, <2>2 DEF Units
<1>12. Types'
  BY <1>1, <1>9, <1>11, Counting DEF BInv, Types, history
<1>13. QueueOK'
  BY <1>1 DEF BInv, QueueOK, NoRun
<1>14. MailBook'
  <2>1. Delivers(mem, mem')
    BY <1>10 DEF Delivers
  <2> QED BY <1>1, <2>1, MailKept DEF BInv, history
<1>15. UnitBook'
  <2>1. run'.kind = "none" /\ ~ctx'.stale
    BY <1>1 DEF NoRun, BInv, UnitBook
  <2>2. units'.spent = db'.used + units'.unsaved + units'.uncounted
    <3>1. units.spent = db.used + units.unsaved + units.uncounted
      BY DEF BInv, UnitBook
    <3> QED BY <1>9, <1>11, <3>1
  <2>3. units'.unsaved = 0
    BY <1>1, <1>11 DEF NoRun, BInv, UnitBook
  <2> QED BY <1>9, <2>1, <2>2, <2>3 DEF UnitBook
<1>16. Budgeted'
  <2>1. run'.pc = "idle" /\ ctx' = ctx
    BY <1>1 DEF NoRun
  <2>2. db'.used <= Room(0)
    BY <1>1, <1>9, RoomForOne, RoomIs, Bounds
  <2> QED BY <2>1, <2>2 DEF BInv, Budgeted, Room
<1> QED BY <1>12, <1>13, <1>14, <1>15, <1>16 DEF BInv

-----------------------------------------------------------------------------
(* A run begins, and what it has before it.                                *)

\* A session ends with what it commits.
LEMMA CommitEndsBooks ==
    ASSUME BInv, NEW t, CommitAndEnd(t), t.used \in Nat, t.used <= Room(0),
           UNCHANGED commands, faults' \in 0 .. MaxFaults, UNCHANGED <<base, mailed, doubts>>,
           units' \in Units, units'.unsaved = 0, units'.spent = t.used + units'.uncounted,
           Delivers(mem, t)
    PROVE  BInv'
<1>1. db' = t /\ mem' = t /\ run' = NoRun /\ ctx' = NoContext
  BY DEF CommitAndEnd
<1>2. ctx' \in Context /\ ctx'.used = 0 /\ ~ctx'.stale
  BY <1>1 DEF NoContext, Context
<1>3. run'.kind = "none" /\ run'.pc = "idle" /\ "idle" \in Phase
  BY <1>1 DEF NoRun, Phase
<1>4. Types'
  BY <1>1, <1>2, Counting DEF BInv, Types
<1>5. QueueOK'
  BY <1>1, <1>3 DEF QueueOK
<1>6. MailBook'
  BY <1>1, MailKept DEF BInv
<1>7. UnitBook'
  <2>1. units'.spent = db'.used + units'.unsaved + units'.uncounted
    BY <1>1 DEF Units
  <2> QED BY <1>1, <1>2, <1>3, <2>1 DEF UnitBook
<1>8. Budgeted'
  BY <1>1, <1>2, <1>3, RoomIs, Bounds DEF Budgeted, Room
<1> QED BY <1>4, <1>5, <1>6, <1>7, <1>8 DEF BInv

\* The skipping of Shorts loses no delivery.
LEMMA SkippingDelivers ==
    ASSUME NEW t, TablesOK(t)
    PROVE  Delivers(t, SkipShorts(t)) /\ SkipShorts(t).used = t.used
<1> DEFINE V == [v \in Video |-> SkippedShort(t.video[v])]
<1>1. \A v \in Video : t.video[v].mail = "delivered" => V[v].mail = "delivered"
  <2> SUFFICES ASSUME NEW v \in Video, t.video[v].mail = "delivered"
               PROVE  SkippedShort(t.video[v]).mail = "delivered"
    OBVIOUS
  <2> QED BY RowMail DEF TablesOK
<1>2. SkipShorts(t) = [t EXCEPT !.video = V]
  BY DEF SkipShorts
<1> HIDE DEF V
<1>3. SkipShorts(t).video = V /\ SkipShorts(t).used = t.used
  BY <1>2, RowsReplaced
<1> QED BY <1>1, <1>3 DEF Delivers

\* The context of a new run.
LEMMA NewContextIs ==
    ASSUME BInv, ctx' = NewContext
    PROVE  /\ ctx' \in Context /\ ctx'.used = db.used /\ ~ctx'.stale
           /\ ctx'.blocked <=> db.used >= Budget
           /\ db.used \in Nat
<1> DEFINE b == db.used >= Budget
<1>1. db.used \in Nat /\ b \in BOOLEAN /\ ctx' = [used |-> db.used, blocked |-> b, stale |-> FALSE]
  BY DEF BInv, Types, NewContext
<1>2. b <=> db.used >= Budget
  OBVIOUS
<1> HIDE DEF b
<1> QED BY <1>1, <1>2 DEF Context

\* A run begins under the budget, or blocked by it.
LEMMA BeginKeepsBooks ==
    ASSUME IInv, BInv, run = NoRun, NEW kind, NEW pc, NEW queue,
           Begin(kind, pc, queue, SkipShorts(db)),
           UNCHANGED <<base, mailed, doubts, units, faults>>, commands' \in 0 .. MaxCommands,
           \/ kind = "poll" /\ pc = "drain" /\ queue \in Seq(Video) /\ db.used < Budget
           \/ kind = "reconcile" /\ pc = "channels" /\ queue = Channels
    PROVE  BInv'
<1>1. /\ run' = [kind |-> kind, pc |-> pc, queue |-> queue] /\ ctx' = NewContext
      /\ mem' = SkipShorts(db) /\ db' = db
  BY DEF Begin
<1>2. run'.kind = kind /\ run'.pc = pc /\ run'.queue = queue /\ pc \in Phase
  BY <1>1 DEF Phase
<1>3. /\ ctx' \in Context /\ ctx'.used = db.used /\ ~ctx'.stale /\ db.used \in Nat
      /\ ctx'.blocked <=> db.used >= Budget
  BY <1>1, NewContextIs
<1>4. mem = db /\ run.kind = "none"
  BY DEF BInv, QueueOK, NoRun
<1>5. Delivers(mem, mem') /\ mem'.used = db.used
  BY <1>1, <1>4, SkippingDelivers DEF IInv, Shape
<1>6. Types'
  BY <1>1, <1>3, <1>5, Counting DEF BInv, Types
<1>7. QueueOK'
  <2>1. CASE kind = "poll" /\ pc = "drain" /\ queue \in Seq(Video)
    BY <1>2, <2>1 DEF QueueOK
  <2>2. CASE kind = "reconcile" /\ pc = "channels" /\ queue = Channels
    <3>1. queue \in Seq(Channel) /\ Len(queue) <= Cardinality(Channel)
      BY <2>2, ChannelsAre
    <3> QED BY <1>2, <2>2, <3>1 DEF QueueOK
  <2> QED BY <2>1, <2>2
<1>8. MailBook'
  BY <1>5, MailKept DEF BInv
<1>9. UnitBook'
  <2>1. units.spent = db.used + units.unsaved + units.uncounted /\ units.unsaved = 0
    BY <1>4 DEF BInv, UnitBook
  <2> QED BY <1>1, <1>2, <1>3, <1>5, <2>1 DEF UnitBook
<1>10. Budgeted'
  <2>1. db.used <= Room(0)
    BY DEF BInv, Budgeted
  <2>2. pc = "channels" => Len(queue) = Cardinality(Channel) /\ kind = "reconcile"
    BY ChannelsAre
  <2>3. Room(Cardinality(Channel)) = Budget - 1
    BY RoomIs, Bounds
  <2>4. pc = "channels" => ctx'.used <= Room(Len(queue)) \/ (ctx'.blocked /\ kind = "reconcile")
    BY <1>3, <2>2, <2>3, Bounds
  <2>5. pc \in {"drain", "mails"} => ctx'.used < Budget
    BY <1>3
  <2> QED BY <1>1, <1>2, <1>3, <2>1, <2>4, <2>5 DEF Budgeted, Room
<1> QED BY <1>6, <1>7, <1>8, <1>9, <1>10 DEF BInv

\* A poll starts, or the safety stop ends it.
LEMMA StartPollKeepsBooks ==
    ASSUME IInv, BInv, StartPoll
    PROVE  BInv'
<1> DEFINE t == SkipShorts(db)
<1>1. run = NoRun /\ UNCHANGED <<external, history, units, faults>>
  BY DEF StartPoll
<1>2. CASE NewContext.blocked /\ CommitAndEnd(t)
  <2>1. mem = db /\ db.used \in Nat /\ db.used <= Room(0)
    BY <1>1 DEF BInv, QueueOK, NoRun, Types, Budgeted
  <2>2. Delivers(mem, t) /\ t.used = db.used
    BY <2>1, SkippingDelivers DEF IInv, Shape
  <2>3. units.spent = db.used + units.unsaved + units.uncounted /\ units.unsaved = 0 /\ units \in Units
    BY <1>1 DEF BInv, UnitBook, NoRun, Types
  <2>4. units.spent = t.used + units.uncounted
    BY <2>1, <2>2, <2>3 DEF Units
  <2>5. faults \in 0 .. MaxFaults
    BY DEF BInv, Types
  <2> HIDE DEF t
  <2> QED BY <1>1, <1>2, <2>1, <2>2, <2>3, <2>4, <2>5, CommitEndsBooks DEF external, history
<1>3. CASE ~NewContext.blocked /\ Begin("poll", "drain", OpenVideos(t), t)
  <2>1. ctx' = NewContext
    BY <1>3 DEF Begin
  <2>2. db.used < Budget
    <3>1. ~ctx'.blocked /\ db.used \in Nat
      BY <1>3, <2>1, NewContextIs
    <3> QED BY <2>1, <3>1, NewContextIs, Bounds
  <2>3. OpenVideos(t) \in Seq(Video)
    BY OpenVideosAre
  <2>4. commands' \in 0 .. MaxCommands
    BY <1>1, Counting DEF external, BInv
  <2> HIDE DEF t
  <2> QED BY <1>1, <1>3, <2>2, <2>3, <2>4, BeginKeepsBooks DEF external, history, t
<1> QED BY <1>2, <1>3 DEF StartPoll

\* A reconciliation starts.
LEMMA StartReconcileKeepsBooks ==
    ASSUME IInv, BInv, StartReconcile
    PROVE  BInv'
<1>1. commands' \in 0 .. MaxCommands
  BY Counting DEF StartReconcile, BInv
<1> QED BY <1>1, BeginKeepsBooks DEF StartReconcile, history

\* A run is lost: what it sent is in doubt, what it spent uncounted.
LEMMA LoseRunKeepsBooks ==
    ASSUME IInv, BInv, LoseRun
    PROVE  BInv'
<1>1. /\ run # NoRun /\ Fault /\ UNCHANGED <<commands, mailed>>
      /\ db' = db /\ mem' = db /\ run' = NoRun /\ ctx' = NoContext
      /\ base' = [c \in Channel |-> IF db.based[c] THEN base[c] ELSE 0]
      /\ doubts' = [v \in Video |->
                       IF mem.video[v].mail # db.video[v].mail THEN doubts[v] + 1 ELSE doubts[v]]
      /\ units' = [units EXCEPT !.unsaved = 0, !.uncounted = @ + units.unsaved]
  BY DEF LoseRun, CommitAndEnd, external
<1>2. ctx' \in Context /\ ctx'.used = 0 /\ ~ctx'.stale
  BY <1>1 DEF NoContext, Context
<1>3. run'.kind = "none" /\ run'.pc = "idle" /\ "idle" \in Phase
  BY <1>1 DEF NoRun, Phase
<1>4. /\ units' \in Units /\ units'.spent = units.spent /\ units'.unsaved = 0
      /\ units'.uncounted = units.uncounted + units.unsaved
      /\ units.spent \in Nat /\ units.unsaved \in Nat /\ units.uncounted \in Nat
  <2>1. units.spent \in Nat /\ units.unsaved \in Nat /\ units.uncounted \in Nat
    BY DEF BInv, Types, Units
  <2>2. units' = [spent |-> units.spent, unsaved |-> 0, uncounted |-> units.uncounted + units.unsaved]
    BY <1>1 DEF BInv, Types, Units
  <2> QED BY <2>1, <2>2 DEF Units
<1>5. base' \in [Channel -> 0 .. MaxUploads] /\ doubts' \in [Video -> Nat]
  BY <1>1, Bounds DEF BInv, Types
<1>6. Types'
  BY <1>1, <1>2, <1>4, <1>5, Counting DEF BInv, Types
<1>7. QueueOK'
  BY <1>1, <1>3 DEF QueueOK
<1>8. MailBook'
  <2> SUFFICES ASSUME NEW v \in Video
               PROVE  mailed[v] <= doubts'[v] + IF db.video[v].mail = "delivered" THEN 1 ELSE 0
    BY <1>1 DEF MailBook
  <2>1. mailed[v] \in Nat /\ doubts[v] \in Nat
    BY DEF BInv, Types
  <2>2. mailed[v] <= doubts[v] + IF mem.video[v].mail = "delivered" THEN 1 ELSE 0
    BY DEF BInv, MailBook
  <2>3. doubts'[v] = IF mem.video[v].mail # db.video[v].mail THEN doubts[v] + 1 ELSE doubts[v]
    BY <1>1
  <2> QED BY <2>1, <2>2, <2>3
<1>9. UnitBook'
  <2>1. units.spent = db.used + units.unsaved + units.uncounted /\ db.used \in Nat
    BY DEF BInv, UnitBook, Types
  <2>2. units'.spent = db'.used + units'.unsaved + units'.uncounted
    BY <1>1, <1>4, <2>1
  <2> QED BY <1>1, <1>2, <1>3, <1>4, <2>2 DEF UnitBook
<1>10. Budgeted'
  BY <1>1, <1>2, <1>3, RoomIs, Bounds DEF Budgeted, Room, BInv
<1> QED BY <1>6, <1>7, <1>8, <1>9, <1>10 DEF BInv

-----------------------------------------------------------------------------
(* The phases of a run.                                                    *)

\* Nothing is spent.
LEMMA NothingSpent ==
    ASSUME BInv, UNCHANGED <<ctx, units>>, db'.used = db.used, mem'.used = mem.used,
           run.kind # "none", run'.kind = run.kind, run.kind = "poll" \/ run'.pc = run.pc
    PROVE  UnitBook'
<1>1. /\ units.spent = db.used + units.unsaved + units.uncounted
      /\ mem.used = db.used
      /\ run.kind # "none" /\ ~ctx.stale => ctx.used = db.used + units.unsaved
      /\ ctx.stale => db.used = 0 /\ run.kind # "none"
  BY DEF BInv, UnitBook
<1>2. run'.kind = "none" \/ (run'.kind = "reconcile" /\ run'.pc = "drain again") => units.unsaved = 0
  BY DEF BInv, UnitBook
<1> QED BY <1>1, <1>2 DEF UnitBook

\* Nothing is sent either.
LEMMA NothingSent ==
    ASSUME BInv, UNCHANGED <<external, ctx, history, units, faults>>,
           db'.used = db.used, mem'.used = mem.used, Delivers(mem, mem'),
           run.kind # "none", run'.kind = run.kind, run.kind = "poll" \/ run'.pc = run.pc,
           QueueOK', Budgeted'
    PROVE  BInv'
<1>1. Types'
  BY Counting DEF BInv, Types, external, history
<1>2. MailBook'
  BY MailKept DEF BInv, history
<1>3. UnitBook'
  BY NothingSpent
<1> QED BY <1>1, <1>2, <1>3 DEF BInv

\* A step within a drain.
LEMMA DrainVideoKeepsBooks ==
    ASSUME IInv, BInv, DrainVideo
    PROVE  BInv'
<1> DEFINE v == Head(run.queue)
           r == [mem.video[v] EXCEPT !.stages = "done"]
           V == [mem.video EXCEPT ![v] = r]
           t == [mem EXCEPT !.video = V]
<1>1. /\ run.pc \in {"drain", "drain again"} /\ run.queue # <<>> /\ Onward
      /\ UNCHANGED <<external, ctx, history, units, faults>>
      /\ db' = mem' /\ (mem' = mem \/ mem' = t)
  BY DEF DrainVideo
<1>2. run'.kind = run.kind /\ run'.pc = run.pc /\ run'.queue = Tail(run.queue) /\ run.kind # "none"
  <2>1. run'.kind = run.kind /\ run'.pc = run.pc /\ run'.queue = Tail(run.queue)
    BY <1>1, OnwardIs
  <2>2. NoRun.pc = "idle"
    BY DEF NoRun
  <2>3. run.kind # "none"
    BY <1>1, <2>2 DEF BInv, QueueOK
  <2> QED BY <2>1, <2>3
<1>3. TablesOK(mem)
  BY DEF IInv, Shape
<1>4. run.queue \in Seq(Video) /\ v \in Video /\ Tail(run.queue) \in Seq(Video)
  <2>1. run.queue \in Seq(Video)
    BY <1>1 DEF BInv, QueueOK
  <2> QED BY <1>1, <2>1, TailIs
<1>5. \A w \in Video : V[w].mail = mem.video[w].mail
  <2>1. r.mail = mem.video[v].mail
    BY <1>3, <1>4, RowMail DEF TablesOK
  <2>2. \A w \in Video : V[w] = IF w = v THEN r ELSE mem.video[w]
    BY <1>3 DEF TablesOK
  <2> HIDE DEF r, V
  <2> QED BY <2>1, <2>2
<1> HIDE DEF V
<1>6. t.video = V /\ t.used = mem.used
  BY <1>3, RowsReplaced
<1> HIDE DEF t
<1>7. Delivers(mem, mem') /\ mem'.used = mem.used
  BY <1>1, <1>5, <1>6 DEF Delivers
<1>8. db'.used = db.used
  BY <1>1, <1>7 DEF BInv, UnitBook
<1>9. QueueOK'
  BY <1>1, <1>2, <1>4 DEF BInv, QueueOK
<1>10. Budgeted'
  BY <1>1, <1>2, <1>8 DEF BInv, Budgeted, Room
<1> QED BY <1>1, <1>2, <1>7, <1>8, <1>9, <1>10, NothingSent

\* The phases follow each other.
LEMMA PhaseEndsKeepsBooks ==
    ASSUME IInv, BInv, DrainEnds \/ MailsEnd \/ ChannelsEnd
    PROVE  BInv'
<1>1. /\ UNCHANGED <<external, db, mem, ctx, history, units, faults>>
      /\ run.kind = "poll"
      /\ \/ run.pc = "drain" /\ Goto("mails", Deliveries(mem))
         \/ run.pc = "mails" /\ Goto("channels", Channels)
         \/ run.pc = "channels" /\ Goto("drain again", OpenVideos(mem))
  BY DEF DrainEnds, MailsEnd, ChannelsEnd, In
<1>2. Delivers(mem, mem') /\ db'.used = db.used /\ mem'.used = mem.used
  BY <1>1 DEF Delivers
<1>3. Room(0) \in Nat /\ Room(Cardinality(Channel)) = Budget - 1
  BY RoomIs, Bounds
<1>4. /\ ~ctx.stale /\ run.pc \in {"drain", "mails"} => ctx.used < Budget
      /\ db.used <= Room(0) /\ (~ctx.stale => ctx.used <= Room(0)) /\ ctx.used \in Nat
  BY DEF BInv, Budgeted, Types, Context
<1>5. CASE run.pc = "drain" /\ Goto("mails", Deliveries(mem))
  <2>1. run'.kind = "poll" /\ run'.pc = "mails" /\ run'.queue = Deliveries(mem)
    BY <1>1, <1>5, GotoIs
  <2>2. /\ run'.queue \in Seq(Video) /\ Distinct(run'.queue)
        /\ \A i \in 1 .. Len(run'.queue) : Waits(mem'.video[run'.queue[i]])
    BY <1>1, <2>1, DeliveriesAre
  <2>3. QueueOK'
    BY <2>1, <2>2 DEF QueueOK, Phase
  <2>4. Budgeted'
    BY <1>1, <1>4, <1>5, <2>1 DEF Budgeted, Room
  <2> QED BY <1>1, <1>2, <2>1, <2>3, <2>4, NothingSent
<1>6. CASE run.pc = "mails" /\ Goto("channels", Channels)
  <2>1. run'.kind = "poll" /\ run'.pc = "channels" /\ run'.queue = Channels
    BY <1>1, <1>6, GotoIs
  <2>2. run'.queue \in Seq(Channel) /\ Len(run'.queue) = Cardinality(Channel)
    BY <2>1, ChannelsAre
  <2>3. QueueOK'
    BY <2>1, <2>2, Bounds DEF QueueOK, Phase
  <2>4. ~ctx.stale => ctx.used <= Room(Len(run'.queue))
    BY <1>3, <1>4, <1>6, <2>2, Bounds
  <2>5. Budgeted'
    BY <1>1, <1>4, <2>1, <2>4 DEF Budgeted, Room
  <2> QED BY <1>1, <1>2, <2>1, <2>3, <2>5, NothingSent
<1>7. CASE run.pc = "channels" /\ Goto("drain again", OpenVideos(mem))
  <2>1. run'.kind = "poll" /\ run'.pc = "drain again" /\ run'.queue = OpenVideos(mem)
    BY <1>1, <1>7, GotoIs
  <2>2. run'.queue \in Seq(Video)
    BY <2>1, OpenVideosAre
  <2>3. QueueOK'
    BY <2>1, <2>2 DEF QueueOK, Phase
  <2>4. Budgeted'
    BY <1>1, <1>4, <2>1 DEF Budgeted, Room
  <2> QED BY <1>1, <1>2, <2>1, <2>3, <2>4, NothingSent
<1> QED BY <1>1, <1>5, <1>6, <1>7

\* The units of the run are written.
LEMMA CountedIs ==
    ASSUME IInv, BInv, run.kind # "none", CountUnits
    PROVE  /\ Counted(mem).used \in Nat /\ Counted(mem).used <= Room(0)
           /\ ~ctx.stale => Counted(mem).used = ctx.used
           /\ ctx.stale => Counted(mem).used = 0
           /\ Delivers(mem, Counted(mem))
           /\ units' \in Units /\ units'.unsaved = 0
           /\ units'.spent = Counted(mem).used + units'.uncounted
<1> DEFINE n == IF ctx.stale THEN 0 ELSE ctx.used
           u == IF ctx.stale THEN units.uncounted + units.unsaved ELSE units.uncounted
<1>1. /\ ctx.used \in Nat /\ units.spent \in Nat /\ units.unsaved \in Nat /\ units.uncounted \in Nat
      /\ db.used \in Nat
  BY DEF BInv, Types, Context, Units
<1>2. n \in Nat /\ n <= Room(0) /\ u \in Nat
  <2>1. Room(0) \in Nat
    BY RoomIs, Bounds
  <2> QED BY <1>1, <2>1 DEF BInv, Budgeted
<1>3. units' = [spent |-> units.spent, unsaved |-> 0, uncounted |-> u]
  BY DEF CountUnits, BInv, Types, Units
<1>4. Counted(mem) = [mem EXCEPT !.used = n]
  BY DEF Counted
<1>5. units.spent = n + u
  <2>1. /\ units.spent = db.used + units.unsaved + units.uncounted
        /\ ~ctx.stale => ctx.used = db.used + units.unsaved
        /\ ctx.stale => db.used = 0
    BY DEF BInv, UnitBook
  <2> QED BY <1>1, <2>1
<1>6. (~ctx.stale => n = ctx.used) /\ (ctx.stale => n = 0)
  OBVIOUS
<1> HIDE DEF n, u
<1>7. Counted(mem).used = n /\ Counted(mem).video = mem.video
  BY <1>4, CountReplaced DEF IInv, Shape
<1>8. units' \in Units /\ units'.unsaved = 0 /\ units'.spent = n + u /\ units'.uncounted = u
  BY <1>1, <1>2, <1>3, <1>5 DEF Units
<1> QED BY <1>2, <1>6, <1>7, <1>8 DEF Delivers

\* A poll ends.
LEMMA EndPollKeepsBooks ==
    ASSUME IInv, BInv, EndPoll
    PROVE  BInv'
<1> DEFINE t == Counted(mem)
<1>1. /\ run.kind # "none" /\ CommitAndEnd(t) /\ CountUnits
      /\ UNCHANGED <<external, history, faults>>
  BY DEF EndPoll, In
<1>2. /\ t.used \in Nat /\ t.used <= Room(0) /\ Delivers(mem, t)
      /\ units' \in Units /\ units'.unsaved = 0 /\ units'.spent = t.used + units'.uncounted
  BY <1>1, CountedIs
<1>3. faults' \in 0 .. MaxFaults
  BY <1>1, Counting DEF BInv
<1> HIDE DEF t
<1> QED BY <1>1, <1>2, <1>3, CommitEndsBooks DEF external, history

\* A reconciliation has counted its units, and ends.
LEMMA EndReconcileKeepsBooks ==
    ASSUME IInv, BInv, EndReconcile
    PROVE  BInv'
<1>1. /\ run.kind = "reconcile" /\ run.pc = "drain again" /\ CommitAndEnd(mem)
      /\ UNCHANGED <<external, history, units, faults>>
  BY DEF EndReconcile, In
<1>2. mem.used = db.used /\ db.used \in Nat /\ db.used <= Room(0)
  BY DEF BInv, UnitBook, Types, Budgeted
<1>3. units \in Units /\ units.unsaved = 0 /\ units.spent = db.used + units.unsaved + units.uncounted
  BY <1>1 DEF BInv, UnitBook, Types
<1>4. units'.spent = mem.used + units'.uncounted /\ units'.unsaved = 0 /\ units' \in Units
  <2>1. units.uncounted \in Nat /\ units.spent = mem.used + 0 + units.uncounted
    BY <1>2, <1>3 DEF Units
  <2>2. units.spent = mem.used + units.uncounted
    BY <1>2, <2>1
  <2> QED BY <1>1, <1>3, <2>2
<1>5. Delivers(mem, mem)
  BY DEF Delivers
<1>6. faults' \in 0 .. MaxFaults
  BY <1>1, Counting DEF BInv
<1> QED BY <1>1, <1>2, <1>3, <1>4, <1>5, <1>6, CommitEndsBooks DEF external, history

\* The windows of the channels have been recorded.
LEMMA WindowsEndKeepsBooks ==
    ASSUME IInv, BInv, WindowsEnd
    PROVE  BInv'
<1> DEFINE t == Counted(mem)
<1>1. /\ run.kind = "reconcile" /\ CountUnits /\ UNCHANGED <<external, history, faults>>
      /\ \/ CommitAndEnd(t)
         \/ db' = t /\ mem' = db' /\ Goto("drain again", OpenVideos(mem)) /\ UNCHANGED ctx
  BY DEF WindowsEnd, In
<1>2. /\ t.used \in Nat /\ t.used <= Room(0) /\ Delivers(mem, t)
      /\ ~ctx.stale => t.used = ctx.used
      /\ ctx.stale => t.used = 0
      /\ units' \in Units /\ units'.unsaved = 0 /\ units'.spent = t.used + units'.uncounted
  BY <1>1, CountedIs
<1>3. faults' \in 0 .. MaxFaults /\ commands' \in 0 .. MaxCommands
  BY <1>1, Counting DEF BInv, external
<1> HIDE DEF t
<1>4. CASE CommitAndEnd(t)
  BY <1>1, <1>2, <1>3, <1>4, CommitEndsBooks DEF external, history
<1>5. CASE db' = t /\ mem' = db' /\ Goto("drain again", OpenVideos(mem)) /\ UNCHANGED ctx
  <2>1. run'.kind = "reconcile" /\ run'.pc = "drain again" /\ run'.queue \in Seq(Video)
    BY <1>1, <1>5, GotoIs, OpenVideosAre
  <2>2. Types'
    BY <1>1, <1>2, <1>3, <1>5 DEF BInv, Types, history
  <2>3. QueueOK'
    BY <2>1 DEF QueueOK, Phase
  <2>4. MailBook'
    BY <1>1, <1>2, <1>5, MailKept DEF BInv, history
  <2>5. UnitBook'
    <3>1. units'.spent = db'.used + units'.unsaved + units'.uncounted
      <4>1. units'.uncounted \in Nat
        BY <1>2 DEF Units
      <4>2. t.used + 0 + units'.uncounted = t.used + units'.uncounted
        BY <1>2, <4>1
      <4> QED BY <1>2, <1>5, <4>2
    <3>2. ~ctx'.stale => ctx'.used = db'.used + units'.unsaved
      <4>1. ctx.used \in Nat
        BY DEF BInv, Types, Context
      <4>2. ctx.used + 0 = ctx.used
        BY <4>1
      <4>3. ~ctx.stale => ctx.used = t.used + units'.unsaved
        BY <1>2, <4>2
      <4> QED BY <1>5, <4>3
    <3>3. mem'.used = db'.used /\ (ctx'.stale => db'.used = 0 /\ run'.kind # "none")
      BY <1>2, <1>5, <2>1
    <3> QED BY <1>2, <3>1, <3>2, <3>3 DEF UnitBook
  <2>6. Budgeted'
    BY <1>2, <1>5, <2>1 DEF BInv, Budgeted, Room
  <2> QED BY <2>2, <2>3, <2>4, <2>5, <2>6 DEF BInv
<1> QED BY <1>1, <1>4, <1>5

\* The next e-mail of the queue is for a delivery that waits, and no other of
\* the queue is for the same.
LEMMA SendMailKeepsBooks ==
    ASSUME IInv, BInv, SendMail
    PROVE  BInv'
<1> DEFINE v == Head(run.queue)
<1>1. /\ run.kind = "poll" /\ run.pc = "mails" /\ run.queue # <<>> /\ Onward
      /\ UNCHANGED <<external, db, ctx, base, units>>
  BY DEF SendMail, In
<1>2. PICK a \in Attempt(mem.video[v]) :
         Mails(v, a) /\ mem' = [mem EXCEPT !.video[v].mail = a.mail]
  BY DEF SendMail
<1>3. /\ run.queue \in Seq(Video) /\ Distinct(run.queue)
      /\ \A i \in 1 .. Len(run.queue) : Waits(mem.video[run.queue[i]])
  BY <1>1 DEF BInv, QueueOK
<1> DEFINE q == Tail(run.queue)
<1>4. /\ v \in Video /\ q \in Seq(Video) /\ Len(run.queue) \in Nat \ {0} /\ Len(q) = Len(run.queue) - 1
      /\ \A i \in 1 .. Len(q) : q[i] = run.queue[i + 1]
  BY <1>1, <1>3, TailIs
<1>5. Distinct(q) /\ \A i \in 1 .. Len(q) : q[i] # v
  BY <1>1, <1>3, TailDistinct
<1>6. run.queue[1] = v /\ 1 \in 1 .. Len(run.queue)
  BY <1>1, <1>3, <1>4
<1>7. Waits(mem.video[v])
  BY <1>3, <1>6
<1>8. run'.kind = "poll" /\ run'.pc = "mails" /\ run'.queue = q
  BY <1>1, OnwardIs
<1> HIDE DEF v, q
<1> DEFINE m == a.mail
           r == [mem.video[v] EXCEPT !.mail = m]
           V == [mem.video EXCEPT ![v] = r]
           t == [mem EXCEPT !.video = V]
<1>9. mem' = t
  BY <1>2
<1>10. TablesOK(mem) /\ mem.video[v] \in Row
  BY <1>4 DEF IInv, Shape, TablesOK
<1>11. V[v].mail = m /\ \A w \in Video \ {v} : V[w].mail = mem.video[w].mail
  <2> HIDE DEF m
  <2>1. r.mail = m
    BY <1>10, RowMail
  <2>2. \A w \in Video : V[w] = IF w = v THEN r ELSE mem.video[w]
    BY <1>10 DEF TablesOK
  <2> HIDE DEF r, V
  <2> QED BY <1>4, <2>1, <2>2
<1> HIDE DEF V
<1>12. mem'.video = V /\ mem'.used = mem.used
  BY <1>9, <1>10, RowsReplaced
<1>13. /\ MailBook'
       /\ mailed' \in [Video -> Nat] /\ doubts' \in [Video -> Nat] /\ faults' \in 0 .. MaxFaults
  <2>1. mem.video[v].mail # "delivered"
    BY <1>7 DEF Waits
  <2> QED BY <1>2, <1>4, <1>11, <1>12, <2>1, MailTried DEF BInv
<1>14. Types'
  BY <1>1, <1>12, <1>13, Counting DEF BInv, Types, external
<1>15. QueueOK'
  <2>1. ASSUME NEW i \in 1 .. Len(q) PROVE Waits(mem'.video[q[i]])
    <3>1. i + 1 \in 1 .. Len(run.queue)
      BY <1>4
    <3>2. Waits(mem.video[q[i]]) /\ q[i] \in Video /\ q[i] # v
      BY <1>3, <1>4, <1>5, <3>1
    <3>3. V[q[i]].mail = mem.video[q[i]].mail
      BY <1>11, <3>2
    <3> QED BY <1>12, <3>2, <3>3 DEF Waits
  <2> QED BY <1>4, <1>5, <1>8, <2>1 DEF QueueOK, Phase
<1>16. UnitBook'
  BY <1>1, <1>8, <1>12, NothingSpent
<1>17. Budgeted'
  BY <1>1, <1>8 DEF BInv, Budgeted, Room
<1> QED BY <1>13, <1>14, <1>15, <1>16, <1>17 DEF BInv

-----------------------------------------------------------------------------
(* Channels that a poll visits.                                            *)

\* The channel that is visited.
LEMMA HereIs ==
    ASSUME BInv, run.pc = "channels", run.queue # <<>>
    PROVE  Here \in Channel /\ Len(run.queue) \in 1 .. Cardinality(Channel)
<1>1. run.queue \in Seq(Channel) /\ Len(run.queue) <= Cardinality(Channel)
  BY DEF BInv, QueueOK
<1>2. Here \in Channel /\ Len(run.queue) \in Nat \ {0}
  BY <1>1, TailIs DEF Here
<1> QED BY <1>1, <1>2, Bounds

\* Nothing but the cost and, for a channel without one, the baseline.
LEMMA QuietVisitKeepsBooks ==
    ASSUME IInv, BInv, FetchFails \/ Baseline \/ NothingNew
    PROVE  BInv'
<1>1. Visiting("poll") /\ Costs(1) /\ UNCHANGED <<mailed, doubts>> /\ (Fault \/ UNCHANGED faults)
  BY DEF FetchFails, Baseline, NothingNew, history
<1>2. mem'.used = mem.used /\ mem'.video = mem.video
  <2>1. CASE mem' = mem
    BY <2>1
  <2>2. CASE Baseline
    <3> DEFINE M == [mem.marker EXCEPT ![Here] = Newest(Here)]
               B == [mem.based EXCEPT ![Here] = TRUE]
               w == [marker |-> M, based |-> B, video |-> mem.video, used |-> mem.used]
    <3>1. mem' = [mem EXCEPT !.marker = M, !.based = B]
      BY <2>2 DEF Baseline
    <3> HIDE DEF M, B
    <3>2. mem' = w
      BY <3>1 DEF IInv, Shape, TablesOK
    <3>3. w.video = mem.video /\ w.used = mem.used
      OBVIOUS
    <3> HIDE DEF w
    <3> QED BY <3>2, <3>3
  <2> QED BY <2>1, <2>2 DEF FetchFails, NothingNew
<1>3. /\ ctx' \in Context /\ units' \in Units /\ db'.used \in Nat /\ mem'.used \in Nat
      /\ QueueOK' /\ UnitBook' /\ Budgeted'
  BY <1>1, <1>2, PollVisitKeeps, Bounds
<1>4. base' \in [Channel -> 0 .. MaxUploads]
  <2>1. CASE UNCHANGED base
    BY <2>1 DEF BInv, Types
  <2>2. CASE Baseline
    <3> DEFINE n == Newest(Here)
    <3>1. Here \in Channel
      BY <1>1, HereIs DEF Visiting, In
    <3>2. n \in 0 .. published[Here] /\ published[Here] \in 0 .. MaxUploads
      BY <3>1, NewestOK DEF IInv, Shape
    <3>3. n \in 0 .. MaxUploads
      BY <3>2, Bounds
    <3>4. base' = [base EXCEPT ![Here] = n]
      BY <2>2 DEF Baseline
    <3> HIDE DEF n
    <3> QED BY <3>3, <3>4 DEF BInv, Types
  <2> QED BY <2>1, <2>2 DEF FetchFails, NothingNew, history
<1>5. Types'
  <2>1. UNCHANGED commands
    BY <1>1 DEF Visiting, In, external
  <2> QED BY <1>1, <1>3, <1>4, <2>1, Counting DEF BInv, Types
<1>6. MailBook'
  BY <1>1, <1>2, MailKept DEF BInv, Delivers
<1> QED BY <1>3, <1>5, <1>6 DEF BInv

\* The cost of finding out whether a video is a Short.
LEMMA DetectionCosts ==
    ASSUME NEW v \in Video, NEW r, NEW d \in Detections(v, r)
    PROVE  1 + d.cost \in Nat /\ 1 + d.cost <= 1 + MaxUploads
<1>1. d.cost \in {0, 1}
  BY DEF Detections
<1>2. MaxUploads >= 1
  <2>1. v[2] \in 1 .. MaxUploads
    BY DEF Video, Number
  <2> QED BY <2>1, Bounds
<1> QED BY <1>1, <1>2, Bounds

\* The delivery of a new upload.
LEMMA NewMail ==
    ASSUME IInv, NEW v \in Video, NEW d \in Detections(v, mem.video[v])
    PROVE  LET r == WithDelivery(WithStages(Detected(v, d))) IN
           /\ r \in Row
           /\ r.mail \in {mem.video[v].mail, "pending"}
           /\ mem.video[v].mail # "none" => r.mail = mem.video[v].mail
<1> DEFINE p == Detected(v, d)
           q == WithStages(p)
           r == WithDelivery(q)
<1>1. mem.video[v] \in Row
  BY DEF IInv, Shape, TablesOK
<1>2. p \in Row
  BY <1>1, DetectionGrows DEF Detected
<1>3. p.mail = mem.video[v].mail
  BY <1>1, RowMail DEF Detected
<1> HIDE DEF p
<1>4. q \in Row /\ q.mail = p.mail
  BY <1>2, WithStagesGrows, RowMail
<1> HIDE DEF q
<1>5. r \in Row /\ r.mail \in {q.mail, "pending"} /\ (q.mail # "none" => r.mail = q.mail)
  BY <1>4, WithDeliveryGrows, RowMail
<1> HIDE DEF r
<1>6. /\ r \in Row /\ r.mail \in {mem.video[v].mail, "pending"}
      /\ mem.video[v].mail # "none" => r.mail = mem.video[v].mail
  BY <1>3, <1>4, <1>5
<1> QED BY <1>6 DEF r, q, p

\* One row changes.
LEMMA RowChanged ==
    ASSUME IInv, NEW v \in Video, NEW r
    PROVE  LET V == [mem.video EXCEPT ![v] = r] IN
           V[v] = r /\ \A w \in Video \ {v} : V[w] = mem.video[w]
<1>1. mem.video \in [Video -> Row]
  BY DEF IInv, Shape, TablesOK
<1> QED BY <1>1

\* A new upload: its e-mail is tried when it was not delivered before.
LEMMA NewUploadKeepsBooks ==
    ASSUME IInv, BInv, NewUpload
    PROVE  BInv'
<1> DEFINE c == Here
           v == <<c, Newest(c)>>
<1>1. Visiting("poll") /\ IsNew(c) /\ UNCHANGED <<base, commands>>
  BY DEF NewUpload, Visiting, In, external
<1>2. c \in Channel /\ v \in Video
  <2>1. c \in Channel
    BY <1>1, HereIs DEF Visiting, In
  <2> QED BY <1>1, <2>1, NewestOK DEF IInv, IsNew
<1>3. PICK d \in Detections(v, mem.video[v]) :
         LET r == WithDelivery(WithStages(Detected(v, d))) IN
         /\ Costs(1 + d.cost)
         /\ \/ /\ MayProcess(r) /\ r.mail = "pending"
               /\ \E a \in Attempt(r) : Mails(v, a) /\ Marked(c, v[2], v, [r EXCEPT !.mail = a.mail])
            \/ Marked(c, v[2], v, r) /\ UNCHANGED <<mailed, doubts, faults>>
  BY DEF NewUpload
<1> DEFINE r == WithDelivery(WithStages(Detected(v, d)))
           n == v[2]
           M == [mem.marker EXCEPT ![c] = n]
<1>4. /\ r \in Row /\ r.mail \in {mem.video[v].mail, "pending"}
      /\ mem.video[v].mail # "none" => r.mail = mem.video[v].mail
  BY <1>2, NewMail
<1>5. 1 + d.cost \in Nat /\ 1 + d.cost <= 1 + MaxUploads /\ Costs(1 + d.cost)
  BY <1>2, <1>3, DetectionCosts
<1>6. \/ \E a \in Attempt(r) : r.mail = "pending" /\ Mails(v, a) /\ Marked(c, n, v, [r EXCEPT !.mail = a.mail])
      \/ Marked(c, n, v, r) /\ UNCHANGED <<mailed, doubts, faults>>
  BY <1>3
<1>7. TablesOK(mem)
  BY DEF IInv, Shape
<1> HIDE DEF r, v, n, c
<1>8. ASSUME NEW w, Marked(c, n, v, w)
      PROVE  /\ mem'.used = mem.used /\ mem'.video[v] = w
             /\ \A x \in Video \ {v} : mem'.video[x] = mem.video[x]
  <2> DEFINE V == [mem.video EXCEPT ![v] = w]
             t == [mem EXCEPT !.marker = M, !.video = V]
  <2>1. mem' = t
    BY <1>8 DEF Marked
  <2>2. V[v] = w /\ \A x \in Video \ {v} : V[x] = mem.video[x]
    BY <1>2, RowChanged
  <2> HIDE DEF V, M
  <2>3. t.video = V /\ t.used = mem.used
    BY <1>7, MarkersReplaced
  <2> HIDE DEF t
  <2> QED BY <2>1, <2>2, <2>3
<1>9. mem'.used = mem.used
  BY <1>6, <1>8
<1>10. /\ ctx' \in Context /\ units' \in Units /\ db'.used \in Nat /\ mem'.used \in Nat
       /\ QueueOK' /\ UnitBook' /\ Budgeted'
  BY <1>1, <1>5, <1>9, PollVisitKeeps
<1>11. /\ MailBook'
       /\ mailed' \in [Video -> Nat] /\ doubts' \in [Video -> Nat] /\ faults' \in 0 .. MaxFaults
  <2>1. ASSUME NEW a \in Attempt(r), r.mail = "pending", Mails(v, a),
               Marked(c, n, v, [r EXCEPT !.mail = a.mail])
        PROVE  /\ MailBook'
               /\ mailed' \in [Video -> Nat] /\ doubts' \in [Video -> Nat] /\ faults' \in 0 .. MaxFaults
    <3>1. mem'.video[v].mail = a.mail
      <4> DEFINE m == a.mail
                 w == [r EXCEPT !.mail = m]
      <4>1. Marked(c, n, v, w)
        BY <2>1
      <4> HIDE DEF m
      <4>2. w.mail = m
        BY <1>4, RowMail
      <4> HIDE DEF w
      <4>3. mem'.video[v] = w
        BY <1>8, <4>1
      <4> QED BY <4>2, <4>3 DEF m
    <3>2. \A x \in Video \ {v} : mem'.video[x].mail = mem.video[x].mail
      BY <1>8, <2>1
    <3>3. mem.video[v].mail # "delivered"
      BY <1>4, <2>1
    <3> QED BY <1>2, <2>1, <3>1, <3>2, <3>3, MailTried DEF BInv
  <2>2. CASE Marked(c, n, v, r) /\ UNCHANGED <<mailed, doubts, faults>>
    <3>1. Delivers(mem, mem')
      BY <1>2, <1>4, <1>8, <2>2 DEF Delivers
    <3>2. MailBook'
      BY <2>2, <3>1, MailKept DEF BInv
    <3> QED BY <2>2, <3>2, Counting DEF BInv, Types
  <2> QED BY <1>6, <2>1, <2>2
<1>12. Types'
  BY <1>1, <1>10, <1>11, Counting DEF BInv, Types
<1> QED BY <1>10, <1>11, <1>12 DEF BInv

\* A new upload whose e-mail breaks.
LEMMA MailBreaksKeepsBooks ==
    ASSUME IInv, BInv, MailBreaks
    PROVE  BInv'
<1> DEFINE c == Here
           v == <<c, Newest(c)>>
<1>1. Visiting("poll") /\ IsNew(c) /\ UNCHANGED <<history, commands>> /\ Fault
  BY DEF MailBreaks, Visiting, In, external
<1>2. c \in Channel /\ v \in Video
  <2>1. c \in Channel
    BY <1>1, HereIs DEF Visiting, In
  <2> QED BY <1>1, <2>1, NewestOK DEF IInv, IsNew
<1>3. PICK d \in Detections(v, mem.video[v]) :
         LET r == WithDelivery(WithStages(Detected(v, d))) IN
         Costs(1 + d.cost) /\ mem' = [mem EXCEPT !.video[v] = r]
  BY DEF MailBreaks
<1> DEFINE r == WithDelivery(WithStages(Detected(v, d)))
           V == [mem.video EXCEPT ![v] = r]
<1>4. r.mail \in {mem.video[v].mail, "pending"} /\ (mem.video[v].mail # "none" => r.mail = mem.video[v].mail)
  BY <1>2, NewMail
<1>5. 1 + d.cost \in Nat /\ 1 + d.cost <= 1 + MaxUploads /\ Costs(1 + d.cost)
  BY <1>2, <1>3, DetectionCosts
<1>6. mem' = [mem EXCEPT !.video = V]
  BY <1>3
<1>7. TablesOK(mem)
  BY DEF IInv, Shape
<1> HIDE DEF r
<1>8. V[v] = r /\ \A x \in Video \ {v} : V[x] = mem.video[x]
  BY <1>2, RowChanged
<1> HIDE DEF V, v, c
<1>9. mem'.video = V /\ mem'.used = mem.used
  BY <1>6, <1>7, RowsReplaced
<1>10. /\ ctx' \in Context /\ units' \in Units /\ db'.used \in Nat /\ mem'.used \in Nat
       /\ QueueOK' /\ UnitBook' /\ Budgeted'
  BY <1>1, <1>5, <1>9, PollVisitKeeps
<1>11. Delivers(mem, mem')
  BY <1>2, <1>4, <1>8, <1>9 DEF Delivers
<1>12. MailBook'
  BY <1>1, <1>11, MailKept DEF BInv, history
<1>13. Types'
  BY <1>1, <1>10, Counting DEF BInv, Types, history
<1> QED BY <1>10, <1>12, <1>13 DEF BInv

-----------------------------------------------------------------------------
(* Channels that a reconciliation visits.                                  *)

\* The least of three numbers.
LEMMA MinOfThree ==
    ASSUME NEW a \in Int, NEW b \in Int, NEW c \in Int
    PROVE  /\ Min({a, b, c}) \in {a, b, c}
           /\ Min({a, b, c}) <= a /\ Min({a, b, c}) <= b /\ Min({a, b, c}) <= c
<1>1. \E x \in {a, b, c} : \A y \in {a, b, c} : x <= y
  <2>1. CASE a <= b /\ a <= c
    BY <2>1
  <2>2. CASE b <= a /\ b <= c
    BY <2>2
  <2>3. CASE c <= a /\ c <= b
    BY <2>3
  <2> QED BY <2>1, <2>2, <2>3
<1> QED BY <1>1 DEF Min

\* What is affordable: nothing when blocked, else the rest of the budget, or one page.
LEMMA AffordableIs ==
    ASSUME Types
    PROVE  /\ Affordable \in Nat
           /\ ctx.blocked => Affordable = 0
           /\ Affordable <= 1 \/ ctx.used + Affordable <= Budget
<1>1. ctx.used \in Nat /\ Budget \in Nat
  BY Bounds DEF Types, Context
<1> DEFINE b == Budget - ctx.used
           m == Max({1, b})
<1>2. b \in Int /\ ctx.used + b = Budget
  BY <1>1
<1>3. Affordable = IF ctx.blocked THEN 0 ELSE m
  BY DEF Affordable
<1> HIDE DEF b
<1>4. m \in {1, b} /\ m >= 1 /\ m >= b
  BY <1>2, MaxOfTwo
<1> HIDE DEF m
<1> QED BY <1>1, <1>2, <1>3, <1>4

\* The pages that are wanted are one at least, those requested affordable.
LEMMA RequestedIs ==
    ASSUME Shape, Types, NEW c \in Channel
    PROVE  /\ Requested(c) \in Nat /\ Requested(c) <= Affordable
           /\ MarkerFound(c) => ~ctx.blocked
<1>1. IsFiniteSet(playlist[c])
  <2>1. playlist[c] \subseteq 1 .. published[c] /\ published[c] \in Nat
    BY Bounds DEF Shape
  <2>2. IsFiniteSet(1 .. published[c])
    BY <2>1, FS_Interval
  <2> QED BY <2>1, <2>2, FS_Subset
<1>2. Cardinality(playlist[c]) \in Nat /\ Cardinality(InFront(c)) \in Nat
  <2>1. IsFiniteSet(InFront(c))
    BY <1>1, FS_Subset DEF InFront
  <2> QED BY <1>1, <2>1, FS_CardinalityType
<1>3. ASSUME NEW m \in Nat PROVE Pages(m) \in Nat /\ Pages(m) >= 1
  <2> DEFINE q == (m + PageSize - 1) \div PageSize
  <2>1. PageSize \in Nat \ {0}
    BY PollingAssumption DEF PollingAssumption
  <2>2. m + PageSize - 1 \in Nat
    BY <2>1
  <2>3. q \in Int
    BY <2>1, <2>2, DivisionIs
  <2>4. Pages(m) = Max({1, q})
    BY DEF Pages
  <2> HIDE DEF q
  <2>5. Pages(m) \in {1, q} /\ Pages(m) >= 1
    BY <2>3, <2>4, MaxOfTwo
  <2> QED BY <2>3, <2>5
<1>4. Wanted(c) \in Nat /\ Wanted(c) >= 1
  <2>1. Cardinality(InFront(c)) + 1 \in Nat
    BY <1>2
  <2> QED BY <1>2, <1>3, <2>1 DEF Wanted
<1>5. MaxPages \in Nat /\ MaxPages >= 1 /\ Affordable \in Nat /\ (ctx.blocked => Affordable = 0)
  BY AffordableIs, PollingAssumption DEF PollingAssumption
<1>6. Requested(c) \in {Wanted(c), MaxPages, Affordable} /\ Requested(c) <= Affordable
  <2> DEFINE m == Min({Wanted(c), MaxPages, Affordable})
  <2>1. m \in {Wanted(c), MaxPages, Affordable} /\ m <= Affordable
    <3>1. Wanted(c) \in Int /\ MaxPages \in Int /\ Affordable \in Int
      BY <1>4, <1>5
    <3> QED BY <3>1, MinOfThree, Zenon
  <2> HIDE DEF m
  <2>2. Requested(c) = m
    BY DEF Requested, m
  <2> QED BY <2>1, <2>2
<1> QED BY <1>4, <1>5, <1>6 DEF MarkerFound

\* The pages of a visit and the lookups of its window stay within the room of a
\* channel.
LEMMA FetchesKeep ==
    ASSUME IInv, BInv, Visiting("reconcile"), mem'.used = mem.used,
           NEW pages \in Nat, NEW lookups \in Nat, lookups <= MaxUploads,
           Fetches(pages, lookups), pages <= Affordable, ctx.blocked => lookups = 0
    PROVE  /\ ctx' \in Context /\ units' \in Units /\ db'.used \in Nat /\ mem'.used \in Nat
           /\ QueueOK' /\ UnitBook' /\ Budgeted'
<1> DEFINE n == pages + lookups
           b == IF pages = 0 THEN ctx.blocked ELSE ctx.used + pages >= Budget
           L == Len(run.queue)
<1>1. /\ run.kind = "reconcile" /\ run.pc = "channels" /\ run.queue # <<>> /\ Onward
      /\ UNCHANGED db /\ Spend(n) /\ n \in Nat
  BY DEF Visiting, In, Fetches
<1>2. ctx.used \in Nat /\ ctx.blocked \in BOOLEAN /\ b \in BOOLEAN /\ Budget \in Nat /\ MaxUploads \in Nat
  <2>1. ctx.used \in Nat /\ ctx.blocked \in BOOLEAN
    BY DEF BInv, Types, Context
  <2>2. b \in BOOLEAN
    <3>1. (ctx.used + pages >= Budget) \in BOOLEAN
      OBVIOUS
    <3> QED BY <2>1, <3>1, Zenon
  <2> QED BY <2>1, <2>2, Bounds
<1>3. ctx' = [used |-> ctx.used + n, blocked |-> b, stale |-> ctx.stale]
  <2>1. ctx.used + pages + lookups = ctx.used + n
    BY <1>2
  <2>2. ctx' = [ctx EXCEPT !.used = ctx.used + pages + lookups, !.blocked = b]
    BY DEF Fetches
  <2> HIDE DEF n, b
  <2> QED BY <2>1, <2>2 DEF BInv, Types, Context
<1>4. L \in 1 .. Cardinality(Channel) /\ L # 0
  BY <1>1, HereIs
<1>5. /\ Room(L - 1) = Room(L) + (1 + MaxUploads) /\ Room(L) \in Nat /\ Room(L) >= Budget - 1
  <2>1. L \in 0 .. Cardinality(Channel) /\ L # 0
    BY <1>4, Bounds
  <2> HIDE DEF L
  <2> QED BY <2>1, RoomIs
<1>6. /\ ~ctx.stale => ctx.used <= Room(L) \/ ctx.blocked
      /\ ~ctx.stale => ctx.used <= Room(0)
  BY <1>1 DEF BInv, Budgeted
<1>7. CASE ctx.blocked
  <2>1. pages = 0 /\ lookups = 0
    BY <1>7, AffordableIs DEF BInv
  <2>2. n = 0 /\ b
    BY <1>7, <2>1
  <2>3. ctx.used + n = ctx.used
    BY <1>2, <2>2
  <2> HIDE DEF n, b
  <2> QED BY <1>1, <1>2, <1>3, <1>6, <2>2, <2>3, VisitKeeps
<1>8. CASE ~ctx.blocked
  <2> DEFINE x == Room(L)
             y == Room(L - 1)
  <2>1. y = x + (1 + MaxUploads) /\ x \in Nat /\ x >= Budget - 1 /\ (~ctx.stale => ctx.used <= x)
    BY <1>5, <1>6, <1>8
  <2>2. Affordable \in Nat /\ (Affordable <= 1 \/ ctx.used + Affordable <= Budget)
    BY AffordableIs DEF BInv
  <2> HIDE DEF x, y
  <2>3. ~ctx.stale => ctx.used + pages <= x + 1
    BY <1>2, <2>1, <2>2
  <2>4. ~ctx.stale => ctx.used + n <= y
    BY <1>2, <2>1, <2>3
  <2> HIDE DEF n, b
  <2> QED BY <1>1, <1>2, <1>3, <2>4, VisitKeeps DEF y
<1> QED BY <1>2, <1>7, <1>8

\* A channel that cannot be reconciled.
LEMMA ChannelStaysKeepsBooks ==
    ASSUME IInv, BInv, MarkerNotFound \/ PageFails
    PROVE  BInv'
<1>1. Visiting("reconcile") /\ UNCHANGED <<mem, history>> /\ (Fault \/ UNCHANGED faults)
  BY DEF MarkerNotFound, PageFails
<1>2. Here \in Channel
  BY <1>1, HereIs DEF Visiting, In
<1>3. /\ ctx' \in Context /\ units' \in Units /\ db'.used \in Nat /\ mem'.used \in Nat
      /\ QueueOK' /\ UnitBook' /\ Budgeted'
  <2>1. 0 <= MaxUploads /\ mem'.used = mem.used
    BY <1>1, Bounds
  <2>2. CASE MarkerNotFound
    <3>1. Requested(Here) \in Nat /\ Requested(Here) <= Affordable /\ Fetches(Requested(Here), 0)
      BY <1>2, <2>2, RequestedIs DEF MarkerNotFound, IInv, BInv
    <3> QED BY <1>1, <2>1, <3>1, FetchesKeep
  <2>3. CASE PageFails
    <3>1. 1 <= Affordable /\ Fetches(1, 0)
      BY <2>3, AffordableIs DEF PageFails, BInv
    <3> QED BY <1>1, <2>1, <3>1, FetchesKeep
  <2> QED BY <2>2, <2>3
<1>4. Types'
  <2>1. UNCHANGED commands
    BY <1>1 DEF Visiting, In, external
  <2> QED BY <1>1, <1>3, <2>1, Counting DEF BInv, Types, history
<1>5. MailBook'
  BY <1>1, MailKept DEF BInv, Delivers, history
<1> QED BY <1>3, <1>4, <1>5 DEF BInv

\* A channel without a marker costs nothing.
LEMMA MissingBaselineKeepsBooks ==
    ASSUME IInv, BInv, MissingBaseline
    PROVE  BInv'
<1> DEFINE L == Len(run.queue)
<1>1. /\ run.kind = "reconcile" /\ run.pc = "channels" /\ run.queue # <<>> /\ Onward
      /\ UNCHANGED <<external, db, mem, ctx, history, units, faults>>
  BY DEF MissingBaseline, Visiting, In
<1>2. L \in 1 .. Cardinality(Channel) /\ L # 0
  BY <1>1, HereIs
<1>3. run'.kind = run.kind /\ run'.pc = run.pc /\ run'.queue = Tail(run.queue)
  BY <1>1, OnwardIs
<1>4. run'.queue \in Seq(Channel) /\ Len(run'.queue) = L - 1 /\ L <= Cardinality(Channel)
  <2>1. run.queue \in Seq(Channel) /\ L <= Cardinality(Channel)
    BY <1>1 DEF BInv, QueueOK
  <2> QED BY <1>1, <1>3, <2>1, TailIs
<1>5. QueueOK'
  <2>1. Len(run'.queue) <= Cardinality(Channel)
    BY <1>2, <1>4, Bounds
  <2> QED BY <1>1, <1>3, <1>4, <2>1 DEF QueueOK, Phase
<1>6. Budgeted'
  <2> DEFINE x == Room(L)
             y == Room(Len(run'.queue))
  <2>1. y = Room(L - 1)
    BY <1>4
  <2>2. y = x + (1 + MaxUploads) /\ x \in Nat /\ MaxUploads \in Nat
    <3>1. L \in 0 .. Cardinality(Channel) /\ L # 0
      BY <1>2, Bounds
    <3> HIDE DEF L
    <3>2. Room(L - 1) = Room(L) + (1 + MaxUploads) /\ Room(L) \in Nat
      BY <3>1, RoomIs
    <3> QED BY <2>1, <3>2, Bounds
  <2>3. ctx.used \in Nat /\ (~ctx.stale => ctx.used <= x \/ (ctx.blocked /\ run.kind = "reconcile"))
    BY <1>1 DEF BInv, Budgeted, Types, Context
  <2> HIDE DEF x, y
  <2>4. ~ctx.stale => ctx.used <= y \/ (ctx.blocked /\ run.kind = "reconcile")
    BY <2>2, <2>3
  <2> QED BY <1>1, <1>3, <2>4 DEF BInv, Budgeted, Room, y
<1>7. Delivers(mem, mem') /\ db'.used = db.used /\ mem'.used = mem.used
  BY <1>1 DEF Delivers
<1> QED BY <1>1, <1>3, <1>5, <1>6, <1>7, NothingSent

\* The uploads in front of the marker are recorded, each looked up at most once.
LEMMA RecoverKeepsBooks ==
    ASSUME IInv, BInv, Recover
    PROVE  BInv'
<1> DEFINE c == Here
           window == {<<c, n>> : n \in Window(c)}
           n == IF window = {} THEN mem.marker[c] ELSE Newest(c)
<1>1. Visiting("reconcile") /\ MarkerFound(c) /\ UNCHANGED <<history, faults>>
  BY DEF Recover
<1>2. PICK d \in [window -> [short : {"unknown", "yes", "no"}, cost : {0, 1}]] :
         /\ \A v \in window : d[v] \in Detections(v, mem.video[v])
         /\ mem' = [mem EXCEPT
               !.video = [v \in Video |-> IF v \in window THEN WithStages(Detected(v, d[v])) ELSE @[v]],
               !.marker[c] = IF window = {} THEN @ ELSE Newest(c)]
         /\ Fetches(Requested(c), Cardinality({v \in window : d[v].cost = 1}))
  BY DEF Recover
<1> DEFINE V == [v \in Video |-> IF v \in window THEN WithStages(Detected(v, d[v])) ELSE mem.video[v]]
           M == [mem.marker EXCEPT ![c] = n]
           t == [mem EXCEPT !.video = V, !.marker = M]
           looked == {v \in window : d[v].cost = 1}
<1>3. mem' = t
  BY <1>2
<1>4. TablesOK(mem) /\ c \in Channel
  BY <1>1, HereIs DEF IInv, Shape, Visiting, In
<1>5. \A v \in Video : V[v].mail = mem.video[v].mail
  <2> SUFFICES ASSUME NEW v \in Video PROVE V[v].mail = mem.video[v].mail
    OBVIOUS
  <2>1. mem.video[v] \in Row
    BY <1>4 DEF TablesOK
  <2>2. CASE v \in window
    <3> DEFINE p == Detected(v, d[v])
    <3>1. p \in Row
      BY <1>2, <2>1, <2>2, DetectionGrows DEF Detected
    <3>2. p.mail = mem.video[v].mail
      BY <2>1, RowMail DEF Detected
    <3>3. V[v] = WithStages(p)
      BY <2>2
    <3> HIDE DEF p, V
    <3> QED BY <3>1, <3>2, <3>3, RowMail
  <2>3. CASE v \notin window
    BY <2>3
  <2> QED BY <2>2, <2>3
<1>6. Cardinality(looked) \in Nat /\ Cardinality(looked) <= MaxUploads
  <2> DEFINE all == {<<c, k>> : k \in Number}
  <2>1. Window(c) \subseteq Number
    BY <1>4 DEF Window, InFront, IInv, Shape
  <2>2. looked \subseteq all
    BY <2>1
  <2>3. IsFiniteSet(Number) /\ Cardinality(Number) = MaxUploads
    <3>1. IsFiniteSet(1 .. MaxUploads)
          /\ Cardinality(1 .. MaxUploads) = IF 1 > MaxUploads THEN 0 ELSE MaxUploads - 1 + 1
      BY Bounds, FS_Interval
    <3>2. (IF 1 > MaxUploads THEN 0 ELSE MaxUploads - 1 + 1) = MaxUploads
      BY Bounds
    <3> QED BY <3>1, <3>2 DEF Number
  <2> HIDE DEF looked
  <2>4. IsFiniteSet(all) /\ Cardinality(all) <= MaxUploads
    <3> DEFINE f == [k \in Number |-> <<c, k>>]
    <3>1. f \in [Number -> all] /\ \A x \in all : \E k \in Number : f[k] = x
      OBVIOUS
    <3> HIDE DEF f, all
    <3>2. f \in Surjection(Number, all)
      BY <3>1 DEF Surjection
    <3> QED BY <2>3, <3>2, FS_Surjection
  <2> HIDE DEF all
  <2>5. IsFiniteSet(looked) /\ Cardinality(looked) <= Cardinality(all)
    BY <2>2, <2>4, FS_Subset
  <2> QED BY <2>4, <2>5, FS_CardinalityType, Bounds
<1>7. Fetches(Requested(c), Cardinality(looked))
  BY <1>2
<1>8. Requested(c) \in Nat /\ Requested(c) <= Affordable /\ ~ctx.blocked
  BY <1>1, <1>4, RequestedIs DEF IInv, BInv
<1> HIDE DEF V, M, n, window, looked
<1>9. t.video = V /\ t.used = mem.used
  BY <1>4, MarkersReplaced
<1> HIDE DEF t
<1>10. mem'.used = mem.used /\ Delivers(mem, mem')
  BY <1>3, <1>5, <1>9 DEF Delivers
<1>11. /\ ctx' \in Context /\ units' \in Units /\ db'.used \in Nat /\ mem'.used \in Nat
       /\ QueueOK' /\ UnitBook' /\ Budgeted'
  BY <1>1, <1>6, <1>7, <1>8, <1>10, FetchesKeep
<1>12. Types'
  <2>1. UNCHANGED commands
    BY <1>1 DEF Visiting, In, external
  <2> QED BY <1>1, <1>11, <2>1, Counting DEF BInv, Types, history
<1>13. MailBook'
  BY <1>1, <1>10, MailKept DEF BInv, history
<1> QED BY <1>11, <1>12, <1>13 DEF BInv

-----------------------------------------------------------------------------
(* The theorems.                                                           *)

\* At the start nothing is spent and nothing sent.
LEMMA InitBooks == Init => BInv
<1> SUFFICES ASSUME Init PROVE BInv
  OBVIOUS
<1>1. /\ run = NoRun /\ ctx = NoContext /\ mem = db
      /\ base = [c \in Channel |-> 0]
      /\ mailed = [v \in Video |-> 0] /\ doubts = [v \in Video |-> 0]
      /\ units = [spent |-> 0, unsaved |-> 0, uncounted |-> 0]
      /\ commands = 0 /\ faults = 0
  BY DEF Init
<1>2. db.used = 0
  BY DEF Init
<1>3. ctx \in Context /\ ctx.used = 0 /\ ~ctx.stale
  BY <1>1 DEF NoContext, Context
<1>4. units \in Units /\ units.spent = 0 /\ units.unsaved = 0 /\ units.uncounted = 0
  BY <1>1 DEF Units
<1>5. run.kind = "none" /\ run.pc = "idle" /\ "idle" \in Phase
  BY <1>1 DEF NoRun, Phase
<1>6. Types
  BY <1>1, <1>2, <1>3, <1>4, Bounds DEF Types
<1>7. QueueOK
  BY <1>1, <1>5 DEF QueueOK
<1>8. MailBook
  BY <1>1 DEF MailBook
<1>9. UnitBook
  <2>1. units.spent = db.used + units.unsaved + units.uncounted
    BY <1>2, <1>4
  <2> QED BY <1>1, <1>2, <1>3, <1>4, <1>5, <2>1 DEF UnitBook
<1>10. Budgeted
  <2>1. Room(0) \in Nat
    BY RoomIs, Bounds
  <2> QED BY <1>2, <1>3, <1>5, <2>1 DEF Budgeted
<1> QED BY <1>6, <1>7, <1>8, <1>9, <1>10 DEF BInv

\* A lookup is lost: its unit is spent and not counted.
LEMMA LookupLostKeepsBooks ==
    ASSUME IInv, BInv, LookupLost
    PROVE  BInv'
<1>1. /\ Command /\ Fault /\ UNCHANGED <<playlist, published, db, mem, run, ctx, history>>
      /\ units' = [units EXCEPT !.spent = @ + 1, !.uncounted = @ + 1]
  BY DEF LookupLost
<1>2. /\ units = [spent |-> units.spent, unsaved |-> units.unsaved, uncounted |-> units.uncounted]
      /\ units.spent \in Nat /\ units.unsaved \in Nat /\ units.uncounted \in Nat
  BY DEF BInv, Types, Units
<1>3. /\ units' \in Units /\ units'.spent = units.spent + 1
      /\ units'.unsaved = units.unsaved /\ units'.uncounted = units.uncounted + 1
  <2> DEFINE p == units.spent + 1
             u == units.uncounted + 1
  <2>1. p \in Nat /\ u \in Nat
    BY <1>2
  <2>2. units' = [units EXCEPT !.spent = p, !.uncounted = u]
    BY <1>1
  <2> HIDE DEF p, u
  <2>3. units' = [spent |-> p, unsaved |-> units.unsaved, uncounted |-> u]
    BY <1>2, <2>2
  <2>4. units' \in Units
    BY <1>2, <2>1, <2>3 DEF Units
  <2>5. units'.spent = p /\ units'.unsaved = units.unsaved /\ units'.uncounted = u
    BY <2>3
  <2> QED BY <2>4, <2>5 DEF p, u
<1>4. Types'
  BY <1>1, <1>3, Counting DEF BInv, Types, history
<1>5. QueueOK'
  BY <1>1 DEF BInv, QueueOK
<1>6. MailBook'
  BY <1>1 DEF BInv, MailBook, history
<1>7. UnitBook'
  <2>1. db.used \in Nat /\ units.spent = db.used + units.unsaved + units.uncounted
    BY DEF BInv, Types, UnitBook
  <2>2. units'.spent = db'.used + units'.unsaved + units'.uncounted
    BY <1>1, <1>2, <1>3, <2>1
  <2> QED BY <1>1, <1>3, <2>2 DEF BInv, UnitBook
<1>8. Budgeted'
  BY <1>1 DEF BInv, Budgeted, Room
<1> QED BY <1>4, <1>5, <1>6, <1>7, <1>8 DEF BInv

\* Every step keeps the books.
LEMMA NextKeepsBooks ==
    ASSUME IInv, BInv, [Next]_vars
    PROVE  BInv'
<1>1. ASSUME NEW c \in Channel, Upload(c) \/ Withdraw(c) PROVE BInv'
  BY <1>1, OutsideKeepsBooks DEF Upload, Withdraw
<1>2. ASSUME NEW v \in Video, Lookup(v) PROVE BInv'
  BY <1>2, LookupKeepsBooks
<1>3. CASE NewDay \/ StartPoll \/ StartReconcile \/ LoseRun
  BY <1>3, NewDayKeepsBooks, StartPollKeepsBooks, StartReconcileKeepsBooks, LoseRunKeepsBooks
<1>4. CASE DrainVideo \/ PollStep
  BY <1>4, DrainVideoKeepsBooks, PhaseEndsKeepsBooks, SendMailKeepsBooks, QuietVisitKeepsBooks,
     NewUploadKeepsBooks, EndPollKeepsBooks DEF PollStep
<1>5. CASE ReconcileStep
  BY <1>5, MissingBaselineKeepsBooks, ChannelStaysKeepsBooks, RecoverKeepsBooks,
     WindowsEndKeepsBooks, EndReconcileKeepsBooks DEF ReconcileStep
<1>6. CASE FetchFails \/ MailBreaks \/ PageFails \/ LookupLost
  BY <1>6, QuietVisitKeepsBooks, MailBreaksKeepsBooks, ChannelStaysKeepsBooks, LookupLostKeepsBooks
<1>7. CASE UNCHANGED vars
  BY <1>7, OutsideKeepsBooks DEF vars, external
<1> QED BY <1>1, <1>2, <1>3, <1>4, <1>5, <1>6, <1>7 DEF Next, RunStep

\* The books, beside the invariant of the markers.
THEOREM BooksInvariant == Spec => [](IInv /\ BInv)
<1>1. Init => IInv /\ BInv
  BY InitKeeps, InitBooks
<1>2. IInv /\ BInv /\ [Next]_vars => (IInv /\ BInv)'
  BY NextKeeps, NextKeepsBooks
<1> QED BY <1>1, <1>2, PTL DEF Spec

\* Every variable has its type: the columns of Video, PipelineStage,
\* NotificationDelivery and the marker hold values they may, the quota is a
\* number, and a run is in one of its phases.
THEOREM TypeCorrectness == Spec => []TypeOK
<1>1. IInv /\ BInv => TypeOK
  <2> SUFFICES ASSUME IInv, BInv PROVE TypeOK
    OBVIOUS
  <2>1. /\ playlist \in [Channel -> SUBSET Number] /\ published \in [Channel -> 0 .. MaxUploads]
        /\ TablesOK(db) /\ TablesOK(mem) /\ Marks(db) /\ Marks(mem)
    BY DEF IInv, Shape, Books
  <2>2. ASSUME NEW t, TablesOK(t), Marks(t)
        PROVE  /\ t.marker \in [Channel -> 0 .. MaxUploads]
               /\ t.based \in [Channel -> BOOLEAN] /\ t.video \in [Video -> Row]
    <3>1. \A c \in Channel : t.marker[c] \in 0 .. MaxUploads
      <4> TAKE c \in Channel
      <4>1. t.marker[c] \in 0 .. published[c] /\ published[c] \in 0 .. MaxUploads
        BY <2>1, <2>2 DEF Marks
      <4> QED BY <4>1, Bounds
    <3> QED BY <2>2, <3>1 DEF TablesOK
  <2>3. /\ db.marker \in [Channel -> 0 .. MaxUploads] /\ mem.marker \in [Channel -> 0 .. MaxUploads]
        /\ db.based \in [Channel -> BOOLEAN] /\ mem.based \in [Channel -> BOOLEAN]
        /\ db.video \in [Video -> Row] /\ mem.video \in [Video -> Row]
    BY <2>1, <2>2
  <2>4. run.pc \in Phase
    BY DEF BInv, QueueOK
  <2> QED BY <2>1, <2>3, <2>4 DEF TypeOK, BInv, Types
<1> QED BY <1>1, BooksInvariant, PTL

\* One e-mail for a video, and one more only for an attempt that the program
\* cannot know of (_attempt_delivery and its record, which a crash rolls back).
THEOREM MailsExplained == Spec => []MailsAreExplained
<1>1. BInv => MailsAreExplained
  <2> SUFFICES ASSUME BInv, NEW v \in Video PROVE mailed[v] <= 1 + doubts[v]
    BY DEF MailsAreExplained
  <2>1. mailed[v] \in Nat /\ doubts[v] \in Nat
    BY DEF BInv, Types
  <2>2. mailed[v] <= doubts[v] + IF mem.video[v].mail = "delivered" THEN 1 ELSE 0
    BY DEF BInv, MailBook
  <2> QED BY <2>1, <2>2
<1> QED BY <1>1, BooksInvariant, PTL

\* Every unit is counted or known to be lost, and a day exceeds its budget by what
\* one run that starts under it asks for only: the requests of its channels and
\* the duration lookups of its videos (_build_quota_context).
THEOREM Quota == Spec => []QuotaIsKept
<1>1. BInv => QuotaIsKept
  <2> SUFFICES ASSUME BInv PROVE QuotaIsKept
    OBVIOUS
  <2>1. units.spent = db.used + units.unsaved + units.uncounted
    BY DEF BInv, UnitBook
  <2>2. db.used <= Budget - 1 + (Cardinality(Channel) - 0) * (1 + MaxUploads)
    BY DEF BInv, Budgeted, Room
  <2>3. Cardinality(Channel) - 0 = Cardinality(Channel)
    BY Bounds
  <2> QED BY <2>1, <2>2, <2>3 DEF QuotaIsKept
<1> QED BY <1>1, BooksInvariant, PTL

================================================================================
