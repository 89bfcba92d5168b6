------------------------- MODULE CensusHeightSeeded -------------------------
(***************************************************************************)
(* census_height_seeded (src/census.rs): the search that takes a caller's  *)
(* hint for a lower bound and probes where linear interpolation between    *)
(* two blocks it has read puts the epoch start. The reads, the prelude and *)
(* the chain are those of TimestampWalk.                                   *)
(***************************************************************************)
EXTENDS TimestampWalk

CONSTANTS
  MaxTimestamp,            \* the largest value a u64 holds
  StallsBeforeBisection    \* STALLS_BEFORE_BISECTION

ASSUME TimestampWidth ==
  /\ MaxTimestamp \in Nat
  /\ MaxHeight <= MaxTimestamp
  /\ Timestamps \union Starts \subseteq 0 .. MaxTimestamp
ASSUME StallsAssumption == StallsBeforeBisection \in Nat

VARIABLES
  seed,     \* seed_height, NoHeight for None
  below,    \* the newest block read that is before the epoch start, if any
  above,    \* the oldest block read that is at or after it
  stalls    \* probes in a row that did not shrink the bracket by a quarter

seedVars == <<seed, below, above, stalls>>
vars == <<walkVars, seedVars>>

Block(h, t) == [height |-> h, timestamp |-> t]
NoBlock == Block(NoHeight, 0)
Witness == Block(probe, Reply)

(***************************************************************************)
(* interpolated_probe: arithmetic in u64, saturating where the source's    *)
(* numbers could overflow it, and clamped into the bracket.                *)
(***************************************************************************)
LowerOf(a, b) == IF a <= b THEN a ELSE b
HigherOf(a, b) == IF a >= b THEN a ELSE b

SaturatingAdd(a, b) == LowerOf(a + b, MaxTimestamp)
SaturatingMul(a, b) == LowerOf(a * b, MaxTimestamp)
SaturatingSub(a, b) == HigherOf(a - b, 0)

\* Mutation: the estimate may be the top of the bracket.
ClampToHigh(estimate, lo, hi) == HigherOf(lo, LowerOf(estimate, hi))

Clamp(estimate, lo, hi) == HigherOf(lo, LowerOf(estimate, hi - 1))

Middle(lo, hi) == lo + (hi - lo) \div 2

Estimate(b, a) ==
  LET heights == a.height - b.height
      seconds == a.timestamp - b.timestamp
      offset  == LowerOf(SaturatingSub(start, b.timestamp), seconds)
  IN  SaturatingAdd(b.height, SaturatingMul(heights, offset) \div seconds)

Anchored(b, a) ==
  b # NoBlock /\ a.height > b.height /\ a.timestamp > b.timestamp

InterpolatedProbe(lo, hi, b, a) ==
  IF Anchored(b, a) THEN Clamp(Estimate(b, a), lo, hi) ELSE Middle(lo, hi)

\* Mutation: the guard against stalls is missing.
AlwaysInterpolate(lo, hi, b, a, s) == InterpolatedProbe(lo, hi, b, a)

ProbeAt(lo, hi, b, a, s) ==
  IF s >= StallsBeforeBisection THEN Middle(lo, hi)
                                ELSE InterpolatedProbe(lo, hi, b, a)

\* A probe stalls when it leaves more than three quarters of the bracket.
StallsAfter(lo, hi) ==
  IF (hi - lo) * 4 > (high - low) * 3 THEN stalls + 1 ELSE 0

(***************************************************************************)
(* The search.                                                             *)
(***************************************************************************)
\* The loop head, with the values the loop variables have there.
Loop(lo, hi, b, a, s) ==
  /\ low' = lo
  /\ high' = hi
  /\ below' = b
  /\ above' = a
  /\ stalls' = s
  /\ IF lo < hi THEN pc' = "search" /\ StartWalk(ProbeAt(lo, hi, b, a, s))
                ELSE pc' = "answer" /\ StartWalk(lo)
  /\ UNCHANGED <<chain, start, peak, result, seed>>

\* A seed below the peak is looked up before it is used.
ReadSeed ==
  /\ pc = "newest"
  /\ Reached
  /\ seed # NoHeight
  /\ seed < peak
  /\ pc' = "seed"
  /\ low' = 0
  /\ high' = peak
  /\ above' = Witness
  /\ StartWalk(seed)
  /\ UNCHANGED <<chain, start, peak, result, seed, below, stalls>>

\* No seed, or one that bounds nothing.
SearchUnseeded ==
  /\ pc = "newest"
  /\ Reached
  /\ seed = NoHeight \/ seed >= peak
  /\ Loop(0, peak, NoBlock, Witness, 0)

\* Mutation: a seed the source can date is believed, whatever its date.
SeedBelieved ==
  /\ pc = "seed"
  /\ Dated(ledger, probe)
  /\ Loop(LowerOf(seed + 1, high), high, Witness, above, 0)

\* Mutation: the derived bound is not kept within the bracket.
SeedUnclamped ==
  /\ pc = "seed"
  /\ Dated(ledger, probe)
  /\ Reply < start
  /\ Loop(peak + 1, high, Witness, above, 0)

SeedBounds ==
  /\ pc = "seed"
  /\ Dated(ledger, probe)
  /\ Reply < start
  /\ Loop(LowerOf(SaturatingAdd(seed, 1), high), high, Witness, above, 0)

\* The block at or below the seed does not lie before the epoch start, or
\* there is none: the seed is dropped.
SeedRejected ==
  /\ pc = "seed"
  /\ WalkEnds
  /\ ~(Dated(ledger, probe) /\ Reply < start)
  /\ Loop(low, high, NoBlock, above, 0)

\* The seed's own read is the one read whose failure is swallowed.
SeedUnreadable ==
  /\ pc = "seed"
  /\ Loop(low, high, NoBlock, above, 0)

SearchLower ==
  /\ pc = "search"
  /\ Reached
  /\ Loop(low, from, below, Witness, StallsAfter(low, from))

\* Mutation: the height just judged stays in the bracket.
SearchUpperKeepsProbe ==
  /\ pc = "search"
  /\ WalkEnds
  /\ ~Reached
  /\ LET found == IF Dated(ledger, probe) THEN Witness ELSE below
     IN  Loop(from, high, found, above, StallsAfter(from + 1, high))

SearchUpper ==
  /\ pc = "search"
  /\ WalkEnds
  /\ ~Reached
  /\ LET found == IF Dated(ledger, probe) THEN Witness ELSE below
     IN  Loop(from + 1, high, found, above, StallsAfter(from + 1, high))

\* Every other read ends the search when it fails.
ReadFails ==
  /\ Walking
  /\ pc # "seed"
  /\ Finish(SourceFailed) \/ (Exhausted /\ Finish(RunExhausted))

Init ==
  /\ WalkInit
  /\ seed \in Heights \union {NoHeight}
  /\ below = NoBlock
  /\ above = NoBlock
  /\ stalls = 0

Step ==
  \/ /\ ReadPeak \/ PeakUnavailable \/ StepDown \/ EpochNotBegun \/ ReadFails \/ AnswerRead
     /\ UNCHANGED seedVars
  \/ ReadSeed
  \/ SearchUnseeded
  \/ SeedBounds
  \/ SeedRejected
  \/ SeedUnreadable
  \/ SearchLower
  \/ SearchUpper

Next == Step \/ (ChainMoves /\ UNCHANGED seedVars)

\* A call is synchronous: while it runs, the code takes its next step.
Spec == Init /\ [][Next]_vars /\ WF_vars(Step)

(***************************************************************************)
(* Properties.                                                             *)
(***************************************************************************)
Blocks == [height : Heights, timestamp : Timestamps] \union {NoBlock}

\* Every height the search computes is one a u32 holds. The bracket is never
\* inverted, whatever the seed and however the source's answers change
\* between reads: `high - low` and `high - 1` cannot underflow.
TypeOK ==
  /\ ledger \in Answers
  /\ Monotone(ledger)
  /\ tip \in Heights
  /\ start \in Starts
  /\ pc \in {"peak", "newest", "seed", "search", "answer", "done"}
  /\ peak \in Heights \union {NoHeight}
  /\ low \in Heights
  /\ high \in Heights
  /\ low <= high
  /\ from \in Heights
  /\ probe \in Heights
  /\ seed \in Heights \union {NoHeight}
  /\ below \in Blocks
  /\ above \in Blocks
  /\ stalls \in Nat
  /\ result \in Refusals \union {NotYet, Unanswered}
            \union {Found(h, t) : h \in Heights, t \in Timestamps}

\* A probe is inside the bracket, its top excluded, whatever the two anchors
\* the estimate was drawn from say: each probe therefore narrows the bracket.
ProbeInBracket == pc = "search" => low <= from /\ from < high

\* A source cannot put bisection off: after StallsBeforeBisection probes that
\* made no headway, the next probe makes headway and the count starts over.
StallsBounded == stalls <= StallsBeforeBisection

\* Every call returns, interpolating or not and even from a source whose
\* answers keep changing.
Terminates == <>(pc = "done")
=============================================================================
