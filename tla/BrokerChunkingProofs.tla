------------------------- MODULE BrokerChunkingProofs -------------------------
(***************************************************************************)
(* Every plan that is built is valid, for every text, all settings and     *)
(* however they change: the rules of split_transcript and of validate_plan *)
(* agree.                                                                  *)
(***************************************************************************)
EXTENDS BrokerChunking, TLAPS

-----------------------------------------------------------------------------
(* The settings.                                                           *)

\* Nothing divided is nothing, rounded up or down.
LEMMA NothingDivided ==
    ASSUME NEW n \in Nat \ {0}
    PROVE  0 \div n = 0 /\ (n - 1) \div n = 0
  OBVIOUS

\* The quotient of whole numbers, rounded down, is a whole number.
LEMMA QuotientIsWhole ==
    ASSUME NEW m \in Int, NEW n \in Nat \ {0}
    PROVE  m \div n \in Int
  OBVIOUS

\* What validate() requires of the number of characters per token.
LEMMA Rate ==
    ASSUME NEW c \in Config, IsValid(c)
    PROVE  c.num \in Nat \ {0} /\ c.den \in Nat \ {0} /\ c.den <= c.num
  BY DEF Config, IsValid

\* What a valid configuration makes of the sizes: two overlaps fit in a piece.
LEMMA Sizes ==
    ASSUME NEW c \in Config, IsValid(c), Available(c) > 0
    PROVE  /\ Capacity(c) \in Nat \ {0}
           /\ Overlap(c) \in Nat
           /\ Overlap(c) <= Capacity(c) \div 2
           /\ Capacity(c) \div 2 \in Nat
           /\ 2 * (Capacity(c) \div 2) <= Capacity(c)
  <1>1. /\ c.chunk \in Nat \ {0} /\ c.overlap \in Nat
        /\ Available(c) \in Int
    BY ChunkingAssumption DEF Config, IsValid, Available
  <1>2. Characters(Available(c), c) \in Int
    <2>1. c.num \in Int /\ c.den \in Nat \ {0}
      BY Rate
    <2>2. Available(c) * c.num \in Int /\ Available(c) * c.num + c.den - 1 \in Int
      BY <1>1, <2>1
    <2> QED BY <2>1, <2>2, QuotientIsWhole DEF Characters
  <1>3. Larger(1, Characters(Available(c), c)) \in Nat \ {0}
    BY <1>2 DEF Larger
  <1>4. Capacity(c) \in Nat \ {0}
    BY <1>1, <1>3 DEF Capacity, Smaller
  <1>5. Capacity(c) \div 2 \in Nat /\ 2 * (Capacity(c) \div 2) <= Capacity(c)
    BY <1>4
  <1>6. Overlap(c) \in Nat /\ Overlap(c) <= Capacity(c) \div 2
    BY <1>1, <1>5 DEF Overlap, Smaller
  <1> QED BY <1>4, <1>5, <1>6

\* A text without characters is never too long.
LEMMA EmptyFits ==
    ASSUME NEW c \in Config, IsValid(c), Available(c) > 0
    PROVE  EstimatedTokens(0, c) <= c.context
  <1>1. /\ c.context \in Nat /\ c.tokens \in Nat
        /\ c.num \in Nat \ {0} /\ c.den \in Nat \ {0}
    BY Rate DEF Config
  <1>2. 0 * c.den = 0 /\ 0 * c.den + c.num - 1 = c.num - 1
    BY <1>1
  <1>3. Tokens(0, c) = 0
    BY <1>1, <1>2, NothingDivided DEF Tokens
  <1> QED BY <1>1, <1>3, ChunkingAssumption DEF EstimatedTokens, Available

-----------------------------------------------------------------------------
(* One piece.                                                              *)

\* A piece ends behind its beginning, within the capacity, and reaches further
\* than the overlap unless it is the last.
LEMMA BoundaryAdvances ==
    ASSUME TypeOK, IsValid(config), Available(config) > 0,
           start < Length, NEW end \in 1 .. Length, IsBoundary(end)
    PROVE  /\ start < end
           /\ end - start <= Capacity(config)
           /\ end < Length => end - start > Overlap(config)
           /\ end - start > Overlap(config) \/ end = Length
  <1> DEFINE cap == Capacity(config)
             half == cap \div 2
  <1>1. config \in Config
    BY ChunkingAssumption DEF TypeOK
  <1>2. /\ cap \in Nat \ {0} /\ Overlap(config) \in Nat /\ Overlap(config) <= half
        /\ half \in Nat /\ 2 * half <= cap
    BY <1>1, Sizes
  <1>3. Length \in Nat /\ start \in Nat
    BY ChunkingAssumption DEF TypeOK, Length, Text
  <1> HIDE DEF half, cap
  <1>4. Target = Smaller(Length, start + cap)
    BY DEF Target, cap
  <1>5. CASE Target = Length
    <2>1. end = Length
      BY <1>3, <1>5 DEF IsBoundary
    <2>2. Length - start <= cap
      BY <1>2, <1>3, <1>4, <1>5 DEF Smaller
    <2> QED BY <1>2, <1>3, <2>1, <2>2 DEF cap
  <1>6. CASE Target # Length
    <2>1. Target = start + cap /\ Target < Length
      BY <1>2, <1>3, <1>4, <1>6 DEF Smaller
    <2>2. CASE end = Target
      BY <1>2, <1>3, <2>1, <2>2 DEF cap
    <2>3. CASE \E b \in Breaks(start, Target) : end = b + 1
      <3>1. PICK b \in Breaks(start, Target) : end = b + 1
        BY <2>3
      <3>2. (Target - start) \div 2 = half
        <4>1. Target - start = cap
          BY <1>2, <1>3, <2>1
        <4> QED BY <4>1 DEF half
      <3>3. start + Larger(1, half) <= b /\ b < Target /\ b \in Int
        <4>1. b \in text.newlines \union text.sentences
          BY <3>1 DEF Breaks
        <4>2. b \in Int
          BY <4>1, ChunkingAssumption DEF TypeOK, Text
        <4>3. start + Larger(1, half) <= b /\ (b < Target \/ b + 1 < Target)
          BY <3>1, <3>2 DEF Breaks
        <4> QED BY <4>2, <4>3, <2>1, <1>2, <1>3
      <3>4. Larger(1, half) \in Nat /\ Larger(1, half) >= 1 /\ Larger(1, half) >= half
        BY <1>2 DEF Larger
      <3> QED BY <1>2, <1>3, <2>1, <3>1, <3>3, <3>4 DEF cap
    <2> QED BY <1>6, <2>2, <2>3 DEF IsBoundary
  <1> QED BY <1>5, <1>6

-----------------------------------------------------------------------------
(* The inductive invariant: what has been cut so far is the beginning of a *)
(* valid plan, and the next piece begins one overlap before its end.       *)

Draft == [config |-> config, pieces |-> pieces]

CutSoFar ==
    /\ IsValid(config) /\ Available(config) > 0
    /\ Length > 0
    /\ \A i \in 1 .. Len(pieces) : PieceIsValid(Draft, i, Length)
    /\ pieces = <<>> => start = 0
    /\ pieces # <<>> =>
          \/ Last(pieces).end < Length /\ start = Last(pieces).end - Overlap(config)
          \/ Last(pieces).end = Length /\ start = Length

IInv ==
    /\ TypeOK
    /\ phase = "split" => CutSoFar
    /\ PlanIsNeverRefused

-----------------------------------------------------------------------------
(* Facts of the plan.                                                      *)

\* The validity of a piece is a matter of its plan's configuration, of the piece
\* and of the one before it.
LEMMA PieceStays ==
    ASSUME NEW p, NEW q, NEW i \in Nat \ {0}, NEW n, PieceIsValid(p, i, n),
           q.config = p.config, q.pieces[i] = p.pieces[i],
           i # 1 => q.pieces[i - 1] = p.pieces[i - 1]
    PROVE  PieceIsValid(q, i, n)
  BY DEF PieceIsValid

\* The last of an extended sequence.
LEMMA LastOfAppend ==
    ASSUME NEW S, NEW s \in Seq(S), NEW e \in S
    PROVE  /\ Append(s, e) \in Seq(S) /\ Append(s, e) # <<>>
           /\ Last(Append(s, e)) = e
           /\ Len(Append(s, e)) = Len(s) + 1
           /\ \A i \in 1 .. Len(s) : Append(s, e)[i] = s[i]
           /\ Append(s, e)[Len(s) + 1] = e
  BY DEF Last

-----------------------------------------------------------------------------
(* One lemma per action.                                                   *)

\* The types of what the invariant speaks of.
LEMMA Shapes ==
    ASSUME TypeOK
    PROVE  /\ Length \in Nat /\ start \in Nat /\ config \in Config
           /\ pieces \in Seq(Piece)
           /\ \A i \in 1 .. Len(pieces) :
                 pieces[i].start \in Nat /\ pieces[i].end \in Nat
           /\ pieces # <<>> => Last(pieces).end \in Nat /\ Len(pieces) \in Nat \ {0}
  <1>1. Length \in Nat
    BY ChunkingAssumption DEF TypeOK, Length, Text
  <1>2. start \in Nat /\ config \in Config /\ pieces \in Seq(Piece)
    BY ChunkingAssumption DEF TypeOK
  <1>3. \A i \in 1 .. Len(pieces) : pieces[i].start \in Nat /\ pieces[i].end \in Nat
    <2>1. \A i \in 1 .. Len(pieces) : pieces[i] \in Piece
      BY <1>2
    <2> QED BY <2>1 DEF Piece
  <1>4. pieces # <<>> => Last(pieces).end \in Nat /\ Len(pieces) \in Nat \ {0}
    BY <1>2, <1>3 DEF Last
  <1> QED BY <1>1, <1>2, <1>3, <1>4

\* A split begins with no piece, on a text that is not empty.
LEMMA StartSplitKeeps ==
    ASSUME IInv, StartSplit
    PROVE  IInv'
  <1>1. /\ phase = "new" /\ phase' = "split" /\ start' = 0 /\ pieces' = <<>>
        /\ text' = text /\ config' = config /\ plan' = plan
        /\ IsValid(config) /\ ~Fits /\ Available(config) > 0
    BY DEF StartSplit
  <1>2. TypeOK'
    BY <1>1 DEF IInv, TypeOK, Phase
  <1>3. Length > 0
    <2>1. Length \in Nat /\ config \in Config
      BY Shapes DEF IInv
    <2>2. Length # 0
      BY <1>1, <2>1, EmptyFits DEF Fits
    <2> QED BY <2>1, <2>2
  <1>4. CutSoFar'
    BY <1>1, <1>3 DEF CutSoFar, Length, IsValid, Available
  <1> QED BY <1>1, <1>2, <1>4 DEF IInv, PlanIsNeverRefused

\* What Cut does: one more piece, which advances, and where the next begins.
LEMMA CutDoes ==
    ASSUME IInv, Cut
    PROVE  \E end \in 1 .. Length :
              /\ IsBoundary(end)
              /\ start < end /\ end - start <= Capacity(config)
              /\ pieces # <<>> => Last(pieces).end < end
              /\ pieces' = Append(pieces, [start |-> start, end |-> end])
              /\ \/ end = Length /\ start' = Length
                 \/ end < Length /\ start' = end - Overlap(config)
              /\ start' > start /\ start' \in Nat
  <1>1. /\ phase = "split" /\ TypeOK /\ CutSoFar /\ start < Length
    BY DEF Cut, IInv
  <1>2. PICK end \in 1 .. Length :
            /\ IsBoundary(end)
            /\ pieces' = Append(pieces, [start |-> start, end |-> end])
            /\ start' = IF IsLast(end) THEN Length ELSE NextStart(end)
    BY DEF Cut
  <1>3. /\ Length \in Nat /\ start \in Nat /\ config \in Config
        /\ pieces # <<>> => Last(pieces).end \in Nat
    BY <1>1, Shapes
  <1>4. Overlap(config) \in Nat /\ Capacity(config) \in Nat
    BY <1>1, <1>3, Sizes DEF CutSoFar
  <1>5. /\ start < end /\ end - start <= Capacity(config)
        /\ end - start > Overlap(config) \/ end = Length
    BY <1>1, <1>2, BoundaryAdvances DEF CutSoFar
  <1>6. pieces # <<>> => Last(pieces).end < Length /\ start = Last(pieces).end - Overlap(config)
    BY <1>1, <1>3 DEF CutSoFar
  <1>7. pieces # <<>> => Last(pieces).end < end
    BY <1>2, <1>3, <1>4, <1>5, <1>6
  <1>8. /\ \/ end = Length /\ start' = Length
           \/ end < Length /\ start' = end - Overlap(config)
        /\ start' > start /\ start' \in Nat
    <2>1. CASE end = Length
      BY <1>1, <1>2, <1>3, <2>1 DEF IsLast
    <2>2. CASE end # Length
      <3>1. end < Length /\ end \in Nat
        BY <1>2, <1>3, <2>2
      <3>2. start' = Larger(start + 1, end - Overlap(config))
        BY <1>2, <1>3, <3>1 DEF IsLast, NextStart
      <3> QED BY <1>3, <1>4, <1>5, <2>2, <3>1, <3>2 DEF Larger
    <2> QED BY <2>1, <2>2
  <1> QED BY <1>2, <1>5, <1>7, <1>8

\* The new piece is valid behind the others, which stay as they are.
LEMMA CutKeeps ==
    ASSUME IInv, Cut
    PROVE  IInv'
  <1>1. /\ TypeOK /\ CutSoFar /\ phase = "split" /\ phase' = "split"
        /\ text' = text /\ config' = config /\ plan' = plan
    BY DEF Cut, IInv
  <1>2. PICK end \in 1 .. Length :
              /\ start < end /\ end - start <= Capacity(config)
              /\ pieces # <<>> => Last(pieces).end < end
              /\ pieces' = Append(pieces, [start |-> start, end |-> end])
              /\ \/ end = Length /\ start' = Length
                 \/ end < Length /\ start' = end - Overlap(config)
              /\ start' > start /\ start' \in Nat
    BY CutDoes
  <1> DEFINE new == [start |-> start, end |-> end]
  <1>3. /\ Length \in Nat /\ start \in Nat /\ config \in Config /\ pieces \in Seq(Piece)
        /\ pieces # <<>> => Last(pieces).end \in Nat /\ Len(pieces) \in Nat \ {0}
    BY <1>1, Shapes
  <1>4. new \in Piece /\ new.start = start /\ new.end = end /\ end \in Nat
    BY <1>2, <1>3 DEF Piece
  <1> HIDE DEF new
  <1>5. pieces' = Append(pieces, new)
    BY <1>2 DEF new
  <1>6. /\ pieces' \in Seq(Piece) /\ pieces' # <<>> /\ Last(pieces') = new
        /\ Len(pieces') = Len(pieces) + 1 /\ Len(pieces) \in Nat
        /\ \A i \in 1 .. Len(pieces) : pieces'[i] = pieces[i]
        /\ pieces'[Len(pieces) + 1] = new
    BY <1>3, <1>4, <1>5, LastOfAppend
  <1>7. Overlap(config) \in Nat
    BY <1>1, <1>3, Sizes DEF CutSoFar
  <1>8. TypeOK'
    BY <1>1, <1>2, <1>6 DEF TypeOK
  <1> DEFINE later == [config |-> config, pieces |-> pieces']
  <1>9. \A i \in 1 .. Len(pieces') : PieceIsValid(later, i, Length)
    <2> SUFFICES ASSUME NEW i \in 1 .. Len(pieces')
                 PROVE  PieceIsValid(later, i, Length)
      OBVIOUS
    <2>1. /\ Draft.config = config /\ later.config = config
          /\ Draft.pieces = pieces /\ later.pieces = pieces'
      BY DEF Draft
    <2> HIDE DEF later
    <2>2. CASE i \in 1 .. Len(pieces)
      <3>1. PieceIsValid(Draft, i, Length)
        BY <1>1, <2>2 DEF CutSoFar
      <3>2. pieces'[i] = pieces[i] /\ (i # 1 => pieces'[i - 1] = pieces[i - 1])
        BY <1>6, <2>2
      <3>3. i \in Nat \ {0}
        BY <1>6, <2>2
      <3> QED BY <2>1, <3>1, <3>2, <3>3, PieceStays
    <2>3. CASE i = Len(pieces) + 1
      <3>1. pieces'[i] = new
        BY <1>6, <2>3
      <3>2. CASE pieces = <<>>
        <4>1. i = 1 /\ start = 0
          BY <1>1, <2>3, <3>2 DEF CutSoFar
        <4> QED BY <1>2, <1>3, <1>4, <2>1, <3>1, <4>1 DEF PieceIsValid
      <3>3. CASE pieces # <<>>
        <4>1. i # 1 /\ pieces'[i - 1] = Last(pieces)
          BY <1>3, <1>6, <2>3, <3>3 DEF Last
        <4>2. start = Last(pieces).end - Overlap(config)
          BY <1>1, <1>2, <1>3, <3>3 DEF CutSoFar
        <4>3. Last(pieces).end \in Nat
          BY <1>3, <3>3
        <4>4. /\ new.start < new.end /\ new.end <= Length
              /\ new.end - new.start <= Capacity(config)
              /\ Last(pieces).end - new.start = Overlap(config)
              /\ Last(pieces).end < new.end
          BY <1>2, <1>3, <1>4, <1>7, <3>3, <4>2, <4>3
        <4> QED BY <1>7, <2>1, <3>1, <4>1, <4>4 DEF PieceIsValid
      <3> QED BY <3>2, <3>3
    <2> QED BY <1>6, <2>2, <2>3
  <1>10. CutSoFar'
    <2>1. Length' = Length /\ Overlap(config)' = Overlap(config)
          /\ IsValid(config)' /\ (Available(config) > 0)'
      BY <1>1 DEF CutSoFar, Length
    <2>2. Last(pieces').end = end
      BY <1>4, <1>6
    <2>3. Draft' = later
      BY <1>1 DEF Draft
    <2> HIDE DEF later
    <2> QED BY <1>1, <1>2, <1>6, <1>9, <2>1, <2>2, <2>3 DEF CutSoFar
  <1> QED BY <1>1, <1>8, <1>10 DEF IInv, PlanIsNeverRefused

\* A cut that is through makes a valid plan, or none.
LEMMA EndSplitKeeps ==
    ASSUME IInv, EndSplit
    PROVE  IInv'
  <1>1. /\ TypeOK /\ CutSoFar /\ phase = "split" /\ start >= Length
        /\ text' = text /\ config' = config /\ start' = start /\ pieces' = pieces
    BY DEF EndSplit, IInv
  <1>2. /\ Length \in Nat /\ start \in Nat /\ config \in Config /\ pieces \in Seq(Piece)
        /\ pieces # <<>> => Last(pieces).end \in Nat /\ Len(pieces) \in Nat \ {0}
    BY <1>1, Shapes
  <1>3. CASE Len(pieces) <= config.most
    <2> DEFINE new == [config |-> config, pieces |-> pieces, next |-> 0, done |-> {}]
    <2>1. phase' = "plan" /\ plan' = new
      BY <1>3 DEF EndSplit
    <2>2. /\ new.config = config /\ new.pieces = pieces /\ new.next = 0 /\ new.done = {}
          /\ new \in Plan
      BY <1>2 DEF Plan
    <2> HIDE DEF new
    <2>3. pieces # <<>>
      BY <1>1, <1>2 DEF CutSoFar
    <2>4. Last(pieces).end = Length
      <3>1. Overlap(config) \in Nat
        BY <1>1, <1>2, Sizes DEF CutSoFar
      <3> QED BY <1>1, <1>2, <2>3, <3>1 DEF CutSoFar
    <2>5. \A j \in 1 .. Len(pieces) : PieceIsValid(new, j, Length)
      <3> SUFFICES ASSUME NEW j \in 1 .. Len(pieces)
                   PROVE  PieceIsValid(new, j, Length)
        OBVIOUS
      <3>1. PieceIsValid(Draft, j, Length) /\ j \in Nat \ {0}
        BY <1>1, <1>2 DEF CutSoFar
      <3>2. Draft.config = config /\ Draft.pieces = pieces
        BY DEF Draft
      <3> QED BY <2>2, <3>1, <3>2, PieceStays
    <2>6. PlanIsValid(new)
      <3>1. /\ IsValid(new.config) /\ Available(new.config) > 0
            /\ new.next \in 0 .. Len(new.pieces)
            /\ Last(new.pieces).end = Length
        BY <1>1, <1>2, <2>2, <2>3, <2>4 DEF CutSoFar
      <3>2. Len(new.pieces) \in 1 .. new.config.most
        BY <1>2, <1>3, <2>2, <2>3 DEF Config
      <3>3. new.done = {j \in 0 .. Len(new.pieces) : j < new.next}
        BY <1>2, <2>2
      <3> QED BY <2>2, <2>5, <3>1, <3>2, <3>3 DEF PlanIsValid
    <2>7. PlanIsValid(plan)'
      BY <1>1, <2>1, <2>6 DEF PlanIsValid, Length
    <2>8. TypeOK'
      BY <1>1, <2>1, <2>2 DEF TypeOK, Phase
    <2> QED BY <2>1, <2>7, <2>8 DEF IInv, PlanIsNeverRefused
  <1>4. CASE ~(Len(pieces) <= config.most)
    <2>1. phase' = "failed" /\ plan' = plan
      BY <1>4 DEF EndSplit
    <2>2. TypeOK'
      BY <1>1, <2>1 DEF TypeOK, Phase
    <2> QED BY <2>1, <2>2 DEF IInv, PlanIsNeverRefused
  <1> QED BY <1>3, <1>4

\* A step that is done leaves a valid plan.
LEMMA StepCompletesKeeps ==
    ASSUME IInv, StepCompletes
    PROVE  IInv'
  <1>1. /\ TypeOK /\ phase = "plan" /\ PlanIsValid(plan)
        /\ text' = text /\ config' = config /\ start' = start /\ pieces' = pieces
    BY DEF StepCompletes, IInv
  <1>2. CASE plan.next < Len(plan.pieces)
    <2> DEFINE new == Progressed(plan)
    <2>1. plan' = new /\ phase' = phase
      BY <1>2 DEF StepCompletes
    <2>2. plan \in Plan
      BY <1>1 DEF TypeOK
    <2>3. /\ new.config = plan.config /\ new.pieces = plan.pieces
          /\ new.next = plan.next + 1 /\ new.done = plan.done \union {plan.next}
          /\ plan.next \in Nat /\ plan.pieces \in Seq(Piece)
      BY <2>2 DEF Progressed, Plan
    <2>10. new \in Plan
      <3>1. plan.done \union {plan.next} \in SUBSET Nat /\ plan.next + 1 \in Nat
        BY <2>2 DEF Plan
      <3> QED BY <2>2, <3>1 DEF Progressed, Plan
    <2> HIDE DEF new
    <2>4. new.done = {i \in 0 .. Len(new.pieces) : i < new.next}
      BY <1>1, <1>2, <2>3 DEF PlanIsValid
    <2>5. new.next \in 0 .. Len(new.pieces)
      BY <1>2, <2>3
    <2>6. \A i \in 1 .. Len(new.pieces) : PieceIsValid(new, i, Length)
      <3> SUFFICES ASSUME NEW i \in 1 .. Len(new.pieces)
                   PROVE  PieceIsValid(new, i, Length)
        OBVIOUS
      <3>1. PieceIsValid(plan, i, Length) /\ i \in Nat \ {0}
        BY <1>1, <2>3 DEF PlanIsValid
      <3> QED BY <2>3, <3>1, PieceStays
    <2>7. PlanIsValid(new)
      BY <1>1, <2>3, <2>4, <2>5, <2>6 DEF PlanIsValid
    <2>8. PlanIsValid(plan)'
      BY <1>1, <2>1, <2>7 DEF PlanIsValid, Length
    <2>9. TypeOK'
      BY <1>1, <2>1, <2>10 DEF TypeOK
    <2> QED BY <1>1, <2>1, <2>8, <2>9 DEF IInv, PlanIsNeverRefused
  <1>3. CASE ~(plan.next < Len(plan.pieces))
    <2>1. phase' = "done" /\ plan' = NoPlan
      BY <1>3 DEF StepCompletes
    <2>2. TypeOK'
      BY <1>1, <2>1 DEF TypeOK, Phase
    <2> QED BY <2>1, <2>2 DEF IInv, PlanIsNeverRefused
  <1> QED BY <1>2, <1>3

\* Other settings leave the plan its own.
LEMMA RestartKeeps ==
    ASSUME IInv, Restart
    PROVE  IInv'
  <1>1. /\ TypeOK /\ text' = text /\ plan' = plan
        /\ config' \in Settings /\ start' = 0 /\ pieces' = <<>>
        /\ phase' = IF phase = "split" THEN "new" ELSE phase
    BY DEF Restart, IInv
  <1>2. TypeOK'
    BY <1>1 DEF TypeOK, Phase
  <1>3. phase' # "split" /\ (phase' = "plan" => phase = "plan")
    BY <1>1
  <1>4. PlanIsValid(plan) => PlanIsValid(plan)'
    BY <1>1 DEF PlanIsValid, Length
  <1> QED BY <1>2, <1>3, <1>4 DEF IInv, PlanIsNeverRefused

-----------------------------------------------------------------------------
(* The theorems.                                                           *)

\* The invariant is inductive.
THEOREM Inductive == IInv /\ [Next]_vars => IInv'
  <1> SUFFICES ASSUME IInv, [Next]_vars PROVE IInv'
    OBVIOUS
  <1>1. CASE NoPlanNeeded \/ NoPlanPossible
    <2>1. /\ phase = "new" /\ phase' \in {"single", "failed"}
          /\ UNCHANGED <<text, config, start, pieces, plan>>
      BY <1>1 DEF NoPlanNeeded, NoPlanPossible, Ends
    <2> QED BY <2>1 DEF IInv, TypeOK, Phase, PlanIsNeverRefused
  <1>2. CASE StartSplit
    BY <1>2, StartSplitKeeps
  <1>3. CASE Cut
    BY <1>3, CutKeeps
  <1>4. CASE EndSplit
    BY <1>4, EndSplitKeeps
  <1>5. CASE StepCompletes
    BY <1>5, StepCompletesKeeps
  <1>6. CASE StepFails
    <2>1. /\ phase' = "failed" /\ plan' = NoPlan
          /\ UNCHANGED <<text, config, start, pieces>>
      BY <1>6 DEF StepFails
    <2> QED BY <2>1 DEF IInv, TypeOK, Phase, PlanIsNeverRefused
  <1>7. CASE Restart
    BY <1>7, RestartKeeps
  <1>8. CASE UNCHANGED vars
    <2>1. UNCHANGED <<text, config, phase, start, pieces, plan>>
      BY <1>8 DEF vars
    <2>2. Length' = Length /\ Draft' = Draft
      BY <2>1 DEF Length, Draft
    <2>3. TypeOK' /\ (PlanIsValid(plan) => PlanIsValid(plan)')
      BY <2>1, <2>2 DEF IInv, TypeOK, PlanIsValid
    <2>4. CutSoFar => CutSoFar'
      BY <2>1, <2>2 DEF CutSoFar
    <2> QED BY <2>1, <2>3, <2>4 DEF IInv, PlanIsNeverRefused
  <1> QED BY <1>1, <1>2, <1>3, <1>4, <1>5, <1>6, <1>7, <1>8 DEF Next

\* It holds at first, and so always.
THEOREM Invariance == Spec => []IInv
  <1>1. Init => IInv
    BY DEF Init, IInv, TypeOK, Phase, PlanIsNeverRefused
  <1> QED BY <1>1, Inductive, PTL DEF Spec

\* The variables keep their types.
THEOREM TypeCorrect == Spec => []TypeOK
  <1>1. IInv => TypeOK
    BY DEF IInv
  <1> QED BY <1>1, Invariance, PTL

\* build_plan never makes a plan that validate_plan refuses, for any text and
\* any settings, now or after any change of the settings.
THEOREM BuiltPlansAreValid == Spec => []PlanIsNeverRefused
  <1>1. IInv => PlanIsNeverRefused
    BY DEF IInv
  <1> QED BY <1>1, Invariance, PTL

\* Every piece advances, so the cut of any text ends.
THEOREM CutAdvances == Spec => EveryPieceAdvances
  <1> DEFINE Advance == Cut => /\ start' > start
                               /\ pieces # <<>> => Last(pieces').end > Last(pieces).end
  <1>1. IInv /\ [Next]_vars => Advance \/ UNCHANGED vars
    <2> SUFFICES ASSUME IInv, Cut PROVE Advance
      OBVIOUS
    <2>1. PICK end \in 1 .. Length :
              /\ pieces # <<>> => Last(pieces).end < end
              /\ pieces' = Append(pieces, [start |-> start, end |-> end])
              /\ start' > start
      BY CutDoes
    <2>2. Length \in Nat /\ start \in Nat /\ pieces \in Seq(Piece)
          /\ (pieces # <<>> => Last(pieces).end \in Nat)
      BY Shapes DEF IInv
    <2>3. [start |-> start, end |-> end] \in Piece
      BY <2>2 DEF Piece
    <2>4. Last(pieces').end = end
      BY <2>1, <2>2, <2>3, LastOfAppend
    <2> QED BY <2>1, <2>2, <2>4
  <1> HIDE DEF Advance
  <1>2. Spec => [][Advance]_vars
    BY <1>1, Invariance, PTL DEF Spec
  <1>3. [][Advance]_vars => EveryPieceAdvances
    BY DEF Advance, EveryPieceAdvances
  <1> QED BY <1>2, <1>3

-----------------------------------------------------------------------------
(* The size of the requests.                                               *)

\* A quotient that is rounded down stays within its bound, whole or not.
LEMMA DownWithin ==
    ASSUME NEW m \in Nat, NEW n \in Nat \ {0}, NEW k \in Nat, m <= k * n
    PROVE  m \div n <= k
  OBVIOUS

\* So does one that is rounded up, to a bound that is whole.
LEMMA UpWithin ==
    ASSUME NEW m \in Nat, NEW n \in Nat \ {0}, NEW k \in Nat, m <= k * n
    PROVE  (m + n - 1) \div n <= k
  OBVIOUS

\* What is within a quotient, times the divisor, is within what was divided.
LEMMA TimesDivisor ==
    ASSUME NEW m \in Nat, NEW n \in Nat \ {0}, NEW d \in Nat, d <= m \div n
    PROVE  d * n <= m
  OBVIOUS

\* By how many tokens a request may be too long.
Excess(c) == IF Available(c) \in c.up THEN 1 ELSE 0

\* A length within the capacity is within the characters that the available
\* tokens, and the excess, stand for.
LEMMA CapacityInTokens ==
    ASSUME NEW c \in Config, IsValid(c), Available(c) > 0,
           NEW d \in Nat, d <= Capacity(c)
    PROVE  d * c.den <= (Available(c) + Excess(c)) * c.num
  <1> DEFINE a == Available(c)
             num == c.num
             den == c.den
             whole == a * num
  <1>1. /\ a \in Nat \ {0} /\ num \in Nat \ {0} /\ den \in Nat \ {0} /\ den <= num
        /\ c.chunk \in Nat
    BY Rate, ChunkingAssumption DEF Available, Config
  <1>2. d <= 1 \/ d <= Characters(a, c)
    <2> DEFINE room == Characters(a, c)
    <2>1. Capacity(c) = Smaller(c.chunk, Larger(1, room)) /\ c.chunk \in Nat
      BY <1>1 DEF Capacity
    <2>2. room \in Int
      <3>1. whole \in Int /\ whole + den - 1 \in Int
        BY <1>1
      <3> QED BY <1>1, <3>1, QuotientIsWhole DEF Characters
    <2> HIDE DEF room
    <2>3. d <= 1 \/ d <= room
      BY <2>1, <2>2 DEF Smaller, Larger
    <2> QED BY <2>3 DEF room
  <1>3. /\ Characters(a, c) = IF a \in c.up THEN (whole + den - 1) \div den
                                            ELSE whole \div den
        /\ Excess(c) = IF a \in c.up THEN 1 ELSE 0
    BY DEF Characters, Excess
  <1> HIDE DEF a, num, den
  <1>4. whole \in Nat /\ num <= whole /\ (a + 1) * num = whole + num
    BY <1>1
  <1>5. CASE d <= 1
    <2>1. d * den <= den
      BY <1>1, <1>5
    <2>2. d * den \in Nat /\ (a + 0) * num = whole
      BY <1>1
    <2> HIDE DEF whole
    <2>3. (a + Excess(c)) * num >= whole
      BY <1>1, <1>3, <1>4, <2>2
    <2>4. d * den <= (a + Excess(c)) * num
      <3> DEFINE l == d * den
                 h == (a + Excess(c)) * num
      <3>1. l \in Nat /\ h \in Int
        BY <1>1, <1>3, <2>2
      <3>2. l <= den /\ h >= whole
        BY <2>1, <2>3
      <3> HIDE DEF l, h
      <3>3. l <= h
        BY <1>1, <1>4, <3>1, <3>2
      <3> QED BY <3>3 DEF l, h
    <2> QED BY <2>4 DEF a, num, den
  <1>6. CASE d <= Characters(a, c) /\ a \in c.up
    <2> HIDE DEF whole
    <2>1. d <= (whole + den - 1) \div den /\ whole + den - 1 \in Nat
      BY <1>1, <1>3, <1>4, <1>6
    <2>2. d * den <= whole + den - 1
      BY <1>1, <2>1, TimesDivisor
    <2>3. (a + Excess(c)) * num = whole + num
      BY <1>3, <1>4, <1>6
    <2>4. d * den <= (a + Excess(c)) * num
      <3> DEFINE l == d * den
      <3>1. l \in Nat
        BY <1>1
      <3> HIDE DEF l
      <3>2. l <= whole + num
        BY <1>1, <1>4, <2>2, <3>1 DEF l
      <3> QED BY <2>3, <3>2 DEF l
    <2> QED BY <2>4 DEF a, num, den
  <1>7. CASE d <= Characters(a, c) /\ a \notin c.up
    <2>1. (a + Excess(c)) * num = whole
      BY <1>1, <1>3, <1>7
    <2> HIDE DEF whole
    <2>2. d <= whole \div den
      BY <1>3, <1>7
    <2>3. d * den <= whole
      BY <1>1, <1>4, <2>2, TimesDivisor
    <2> QED BY <2>1, <2>3 DEF a, num, den
  <1> QED BY <1>2, <1>5, <1>6, <1>7

\* A text within the capacity of valid settings is within their context, with
\* the prompt and the answer beside it, up to the excess.
LEMMA CapacityFits ==
    ASSUME NEW c \in Config, IsValid(c), Available(c) > 0,
           NEW d \in Nat, d <= Capacity(c)
    PROVE  EstimatedTokens(d, c) <= c.context + Excess(c)
  <1>1. /\ c.context \in Nat /\ c.tokens \in Nat /\ Overhead \in Nat
        /\ c.num \in Nat \ {0} /\ c.den \in Nat \ {0}
    BY Rate, ChunkingAssumption DEF Config
  <1>2. /\ Available(c) \in Nat /\ Available(c) = c.context - c.tokens - Overhead
        /\ Excess(c) \in Nat
    BY <1>1 DEF Available, Excess
  <1>3. d * c.den <= (Available(c) + Excess(c)) * c.num
    BY CapacityInTokens
  <1>4. d * c.den \in Nat /\ Available(c) + Excess(c) \in Nat
    BY <1>1, <1>2
  <1>5. Tokens(d, c) <= Available(c) + Excess(c)
    BY <1>1, <1>3, <1>4, DownWithin, UpWithin DEF Tokens
  <1>6. Tokens(d, c) \in Int
    <2>1. d * c.den + c.num - 1 \in Int
      BY <1>1, <1>4
    <2> QED BY <1>1, <1>4, <2>1, QuotientIsWhole DEF Tokens
  <1> QED BY <1>1, <1>2, <1>5, <1>6 DEF EstimatedTokens

\* No request for a piece of a plan is too long for the context of the settings
\* the plan was made with, except by one token where the capacity was rounded up,
\* for any text, any settings and any rounding, and however the settings change
\* before the request is sent.
THEOREM RequestsAlwaysFit == Spec => []RequestsFit
  <1>1. IInv => RequestsFit
    <2> SUFFICES ASSUME IInv, phase = "plan", NEW i \in 1 .. Len(plan.pieces)
                 PROVE  EstimatedTokens(plan.pieces[i].end - plan.pieces[i].start, plan.config)
                        <= plan.config.context + Excess(plan.config)
      BY DEF RequestsFit, Excess
    <2>1. plan \in Plan /\ PlanIsValid(plan)
      BY DEF IInv, TypeOK, PlanIsNeverRefused
    <2>2. plan.config \in Config /\ plan.pieces \in Seq(Piece)
      BY <2>1 DEF Plan
    <2>3. plan.pieces[i].start \in Nat /\ plan.pieces[i].end \in Nat
      <3>1. plan.pieces[i] \in Piece
        BY <2>2
      <3> QED BY <3>1 DEF Piece
    <2>4. /\ plan.pieces[i].start < plan.pieces[i].end
          /\ plan.pieces[i].end - plan.pieces[i].start <= Capacity(plan.config)
      BY <2>1 DEF PlanIsValid, PieceIsValid
    <2>5. IsValid(plan.config) /\ Available(plan.config) > 0
      BY <2>1 DEF PlanIsValid
    <2> DEFINE d == plan.pieces[i].end - plan.pieces[i].start
    <2>6. d \in Nat /\ d <= Capacity(plan.config)
      BY <2>3, <2>4
    <2> HIDE DEF d
    <2>7. EstimatedTokens(d, plan.config) <= plan.config.context + Excess(plan.config)
      BY <2>2, <2>5, <2>6, CapacityFits
    <2> QED BY <2>7 DEF d
  <1> QED BY <1>1, Invariance, PTL
=============================================================================
