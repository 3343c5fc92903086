---------------------------- MODULE BrokerChunking ----------------------------
(***************************************************************************)
(* The plan of a long transcript (app/services/broker_chunking.py): how it *)
(* is cut into overlapping pieces, and how the plan, kept in the stage row *)
(* with a snapshot of the settings it was made with, is validated before   *)
(* every step, perhaps by a program that was restarted with others.        *)
(*                                                                         *)
(* What each step asks of the broker is BrokerSubmission.  Characters per  *)
(* token are a float: a rational number, whose products and quotients are  *)
(* rounded.                                                                *)
(***************************************************************************)
EXTENDS Integers, Sequences

CONSTANTS
    MaxLength,      \* bound: characters of the transcript
    Settings,       \* the values the broker_* settings may take
    MinContext,     \* the smallest context validate() takes (2048)
    Overhead        \* ESTIMATED_PROMPT_OVERHEAD_TOKENS (700)

\* The fields of BrokerChunkConfig.  chars_per_token is exactly num / den.  A
\* float operation rounds to a neighbour and never past a whole number, so a
\* result may only become the whole number next to it: up holds the token counts
\* whose product does, down the lengths whose quotient does.
Config == [enabled : BOOLEAN, context : Nat, chunk : Nat, overlap : Nat,
           most : Nat, tokens : Nat, num : Nat, den : Nat \ {0},
           up : SUBSET Nat, down : SUBSET Nat]

ASSUME ChunkingAssumption ==
    /\ MaxLength \in Nat /\ MinContext \in Nat /\ Overhead \in Nat
    /\ Settings \subseteq Config

VARIABLES
    text,       \* the transcript: its length, and where \n and ". " begin
    config,     \* the settings of the program as it runs now
    phase,
    start,      \* split_transcript: where the next piece begins
    pieces,     \* ... and the pieces so far
    plan        \* broker_chunk_plan, or NoPlan

vars == <<text, config, phase, start, pieces, plan>>

-----------------------------------------------------------------------------
(* The settings.                                                           *)

Smaller(a, b) == IF a < b THEN a ELSE b
Larger(a, b)  == IF a > b THEN a ELSE b

\* BrokerChunkConfig.validate
IsValid(c) ==
    /\ c.context >= MinContext
    /\ c.chunk >= 1
    /\ c.overlap < c.chunk
    /\ c.most >= 1
    /\ c.den <= c.num /\ c.num <= 8 * c.den

\* math.ceil(characters / chars_per_token)
Tokens(characters, c) ==
    IF characters \in c.down THEN (characters * c.den) \div c.num
    ELSE (characters * c.den + c.num - 1) \div c.num

\* math.floor(tokens * chars_per_token)
Characters(tokens, c) ==
    IF tokens \in c.up THEN (tokens * c.num + c.den - 1) \div c.den
    ELSE (tokens * c.num) \div c.den

\* estimated_request_tokens
EstimatedTokens(characters, c) == Tokens(characters, c) + Overhead + c.tokens

\* Mutant: the answer's tokens are not set aside.
Available_AnswerForgotten(c) == c.context - Overhead

Available(c) == c.context - c.tokens - Overhead

\* capacity of split_transcript, which needs Available(c) > 0
Capacity(c) == Smaller(c.chunk, Larger(1, Characters(Available(c), c)))

\* _effective_overlap
Overlap(c) == Smaller(c.overlap, Capacity(c) \div 2)

-----------------------------------------------------------------------------
(* The cut.                                                                *)

Length == text.length

\* Where a piece from `from` to `target` may end early: behind a newline, or
\* behind the first character of ". ", in its second half.
Breaks(from, target) ==
    LET floor == from + Larger(1, (target - from) \div 2) IN
    {b \in text.newlines : floor <= b /\ b < target}
    \union {b \in text.sentences : floor <= b /\ b + 1 < target}

Target == Smaller(Length, start + Capacity(config))

\* _find_boundary: the last of them, or the target.
IsBoundary(end) ==
    LET breaks == Breaks(start, Target) IN
    \/ Target = Length /\ end = Length
    \/ Target < Length /\ breaks = {} /\ end = Target
    \/ /\ Target < Length
       /\ \E b \in breaks : (\A c \in breaks : c <= b) /\ end = b + 1

\* Mutant: a piece that reaches the end does not end the cut.
IsLast_Never(end) == start + 1 >= Length

IsLast(end) == end >= Length

Piece == [start : Nat, end : Nat]

Last(s) == s[Len(s)]

-----------------------------------------------------------------------------
(* The plan.  Its steps are the pieces and, behind them, the final one;    *)
(* next_step is the first that is not done.                                *)

NoPlan == [next |-> 0]

Plan == [config : Config, pieces : Seq(Piece), next : Nat, done : SUBSET Nat]

\* validate_plan: one piece, after the piece before it.
PieceIsValid(p, i, length) ==
    LET this == p.pieces[i] IN
    /\ this.start < this.end /\ this.end <= length
    /\ this.end - this.start <= Capacity(p.config)
    /\ IF i = 1 THEN this.start = 0
       ELSE LET before == p.pieces[i - 1].end IN
            /\ 0 <= before - this.start /\ before - this.start <= Overlap(p.config)
            /\ before < this.end

PlanIsValid(p) ==
    /\ IsValid(p.config) /\ Available(p.config) > 0
    /\ p.next \in 0 .. Len(p.pieces)
    /\ Len(p.pieces) \in 1 .. p.config.most
    /\ \A i \in 1 .. Len(p.pieces) : PieceIsValid(p, i, Length)
    /\ Last(p.pieces).end = Length
    /\ p.done = {i \in 0 .. Len(p.pieces) : i < p.next}

-----------------------------------------------------------------------------
(* build_plan, as _attempt_broker_summary_stage calls it.                  *)

\* new     a stage without a plan          split   split_transcript runs
\* single  the transcript is sent whole    failed  no plan can be made
\* plan    the plan is in the row          done    its last request is answered
Phase == {"new", "split", "single", "failed", "plan", "done"}

Ends(end) ==
    /\ phase' = end
    /\ UNCHANGED <<text, config, start, pieces, plan>>

Fits == EstimatedTokens(Length, config) <= config.context

NoPlanNeeded == phase = "new" /\ IsValid(config) /\ Fits /\ Ends("single")

NoPlanPossible ==
    /\ phase = "new"
    /\ \/ ~IsValid(config)
       \/ IsValid(config) /\ ~Fits /\ (~config.enabled \/ Available(config) <= 0)
    /\ Ends("failed")

StartSplit ==
    /\ phase = "new"
    /\ IsValid(config) /\ ~Fits /\ config.enabled /\ Available(config) > 0
    /\ phase' = "split" /\ start' = 0 /\ pieces' = <<>>
    /\ UNCHANGED <<text, config, plan>>

\* Mutant: the overlap is taken as configured, however small the pieces are.
NextStart_Uncapped(end) == end - config.overlap

NextStart(end) == Larger(start + 1, end - Overlap(config))

Cut ==
    /\ phase = "split" /\ start < Length
    /\ \E end \in 1 .. Length :
          /\ IsBoundary(end)
          /\ pieces' = Append(pieces, [start |-> start, end |-> end])
          /\ start' = IF IsLast(end) THEN Length ELSE NextStart(end)
    /\ UNCHANGED <<text, config, phase, plan>>

EndSplit ==
    /\ phase = "split" /\ start >= Length
    /\ IF Len(pieces) <= config.most
       THEN /\ phase' = "plan"
            /\ plan' = [config |-> config, pieces |-> pieces, next |-> 0, done |-> {}]
       ELSE phase' = "failed" /\ UNCHANGED plan
    /\ UNCHANGED <<text, config, start, pieces>>

-----------------------------------------------------------------------------
(* The plan is worked off, step by step, over several runs.  Before every  *)
(* step it is validated; a plan found invalid would fail the stage.        *)

\* save_completed, and the partial result of reconcile_quarantined_summaries
Progressed(p) == [p EXCEPT !.next = @ + 1, !.done = @ \union {p.next}]

StepCompletes ==
    /\ phase = "plan" /\ PlanIsValid(plan)
    /\ IF plan.next < Len(plan.pieces)
       THEN plan' = Progressed(plan) /\ UNCHANGED phase
       ELSE plan' = NoPlan /\ phase' = "done"
    /\ UNCHANGED <<text, config, start, pieces>>

\* The interim summaries do not fit into one request; or the broker fails.
StepFails ==
    /\ phase = "plan" /\ PlanIsValid(plan)
    /\ plan' = NoPlan /\ phase' = "failed"
    /\ UNCHANGED <<text, config, start, pieces>>

\* The program is restarted with other settings; a split in progress is lost.
Restart ==
    /\ config' \in Settings
    /\ phase' = IF phase = "split" THEN "new" ELSE phase
    /\ start' = 0 /\ pieces' = <<>>
    /\ UNCHANGED <<text, plan>>

-----------------------------------------------------------------------------
Text == [length : 0 .. MaxLength, newlines : SUBSET (0 .. MaxLength),
         sentences : SUBSET (0 .. MaxLength)]

Init ==
    /\ text \in Text
    /\ text.newlines \union text.sentences \subseteq 0 .. text.length - 1
    /\ text.newlines \intersect text.sentences = {}
    /\ config \in Settings
    /\ phase = "new" /\ start = 0 /\ pieces = <<>> /\ plan = NoPlan

Next ==
    \/ NoPlanNeeded \/ NoPlanPossible \/ StartSplit \/ Cut \/ EndSplit
    \/ StepCompletes \/ StepFails
    \/ Restart

Spec == Init /\ [][Next]_vars

-----------------------------------------------------------------------------
\* Every variable keeps to the values of the code's types.
TypeOK ==
    /\ text \in Text
    /\ config \in Settings
    /\ phase \in Phase
    /\ start \in Nat
    /\ pieces \in Seq(Piece)
    /\ plan \in IF phase = "plan" THEN Plan ELSE {NoPlan}

\* validate_plan never refuses a plan that build_plan made, whatever the
\* settings have become and however far the plan has got: the two state the
\* rules of a plan independently.
PlanIsNeverRefused == phase = "plan" => PlanIsValid(plan)

\* Every piece ends behind the piece before it, and the next one begins behind
\* the beginning of this one (split_transcript): the cut ends.
EveryPieceAdvances ==
    [][Cut => /\ start' > start
              /\ pieces # <<>> => Last(pieces').end > Last(pieces).end]_vars

\* No request for a piece exceeds the context the plan was made for, except by
\* one token where the capacity came out of a product that was rounded up
\* (_chunk_capacity against estimated_request_tokens).
RequestsFit ==
    phase = "plan" =>
        \A i \in 1 .. Len(plan.pieces) :
            EstimatedTokens(plan.pieces[i].end - plan.pieces[i].start, plan.config)
            <= plan.config.context
               + (IF Available(plan.config) \in plan.config.up THEN 1 ELSE 0)
=============================================================================
