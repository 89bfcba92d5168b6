---------------------------- MODULE CensusHeight ----------------------------
(***************************************************************************)
(* census_height (src/census.rs): the bisection that finds the height an   *)
(* epoch's census is taken at. One action per source read and per way its  *)
(* answer is used; the chain moves between any two of them.                *)
(***************************************************************************)
EXTENDS TimestampWalk

(***************************************************************************)
(* The loop.                                                               *)
(***************************************************************************)
Middle(lo, hi) == lo + (hi - lo) \div 2

\* The loop head: probe the middle of an open bracket, report a closed one.
Loop(lo, hi) ==
  /\ low' = lo
  /\ high' = hi
  /\ IF lo < hi THEN pc' = "search" /\ StartWalk(Middle(lo, hi))
                ELSE pc' = "answer" /\ StartWalk(lo)
  /\ UNCHANGED <<chain, start, peak, result>>

OpenBracket ==
  /\ pc = "newest"
  /\ Reached
  /\ Loop(0, peak)

SearchLower ==
  /\ pc = "search"
  /\ Reached
  /\ Loop(low, from)

\* Mutation: the bracket keeps the height that was just ruled out.
SearchUpperKeepsMiddle ==
  /\ pc = "search"
  /\ WalkEnds
  /\ ~Reached
  /\ Loop(from, high)

\* Mutation: the bracket skips a height that was never probed.
SearchUpperSkipsOne ==
  /\ pc = "search"
  /\ WalkEnds
  /\ ~Reached
  /\ Loop(from + 2, high)

SearchUpper ==
  /\ pc = "search"
  /\ WalkEnds
  /\ ~Reached
  /\ Loop(from + 1, high)

\* Mutation: an unanswered read is taken for a block before the epoch start.
FailureReadAsNotYet ==
  Walking /\ (Finish(NotYet) \/ (Exhausted /\ Finish(RunExhausted)))

\* A read fails, or the run of undated heights is too long: the search fails.
ReadFails ==
  Walking /\ (Finish(SourceFailed) \/ (Exhausted /\ Finish(RunExhausted)))

Init == WalkInit

Step ==
  \/ ReadPeak
  \/ PeakUnavailable
  \/ StepDown
  \/ ReadFails
  \/ EpochNotBegun
  \/ OpenBracket
  \/ SearchLower
  \/ SearchUpper
  \/ AnswerRead

Next == Step \/ ChainMoves

\* A call is synchronous: while it runs, the code takes its next step.
Spec == Init /\ [][Next]_walkVars /\ WF_walkVars(Step)

(***************************************************************************)
(* Properties.                                                             *)
(***************************************************************************)
\* Every height the search computes is one a u32 holds, and the bracket is
\* never inverted, so neither `high - low` nor `middle + 1` can overflow.
TypeOK ==
  /\ ledger \in Answers
  /\ Monotone(ledger)
  /\ tip \in Heights
  /\ start \in Starts
  /\ pc \in {"peak", "newest", "search", "answer", "done"}
  /\ peak \in Heights \union {NoHeight}
  /\ low \in Heights
  /\ high \in Heights
  /\ low <= high
  /\ from \in Heights
  /\ probe \in Heights
  /\ result \in Refusals \union {NotYet, Unanswered}
            \union {Found(h, t) : h \in Heights, t \in Timestamps}

\* Every call returns.
Terminates == <>(pc = "done")
=============================================================================
