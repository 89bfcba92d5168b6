------------------------- MODULE CensusHeightProofs -------------------------
(***************************************************************************)
(* Proofs about the bisection of CensusHeight, for chains of any length,   *)
(* any walk bound and any depth of reorganisation. The steps it shares     *)
(* with the seeded search are treated in TimestampWalkProofs.              *)
(***************************************************************************)
EXTENDS CensusHeight, TimestampWalkProofs

Inv ==
  /\ TypeOK
  /\ WalkInv
  /\ pc = "search" => low <= from /\ from < high

LEMMA MiddleInside ==
  ASSUME NEW lo \in Heights, NEW hi \in Heights, lo < hi
  PROVE  Middle(lo, hi) \in Heights /\ lo <= Middle(lo, hi) /\ Middle(lo, hi) < hi
BY HeightAssumption DEF Middle, Heights

\* The loop head keeps the invariant for every bracket it is given.
LEMMA LoopKeepsInv ==
  ASSUME Inv, Walking, NEW lo \in Heights, NEW hi \in Heights, lo <= hi, hi <= peak,
         Loop(lo, hi)
  PROVE  Inv' /\ Enters(lo, hi)
<1>1. CASE lo < hi
  <2>1. pc' = "search" /\ from' = Middle(lo, hi) /\ probe' = Middle(lo, hi)
    BY <1>1 DEF Loop, StartWalk
  <2> QED
    BY <1>1, <2>1, MiddleInside, HeightAssumption
    DEF Inv, TypeOK, WalkInv, ChainTypeOK, Loop, Enters, chain, Walking, Heights, NoHeight
<1>2. CASE ~(lo < hi)
  <2>1. pc' = "answer" /\ from' = lo /\ probe' = lo
    BY <1>2 DEF Loop, StartWalk
  <2> QED
    BY <1>2, <2>1, HeightAssumption
    DEF Inv, TypeOK, WalkInv, ChainTypeOK, Loop, Enters, chain, Walking, Heights, NoHeight
<1> QED
  BY <1>1, <1>2

\* So does ending the search with any of its results.
LEMMA FinishKeepsInv ==
  ASSUME Inv,
         NEW r \in Refusals \union {NotYet}
                   \union {Found(h, t) : h \in Heights, t \in Timestamps},
         r \in Refusals \/ peak # NoHeight,
         Finish(r)
  PROVE  Inv'
<1>1. TypeOK'
  BY DEF Inv, TypeOK, Finish, chain
<1>2. WalkInv'
  BY DEF Inv, WalkInv, ChainTypeOK, Finish, chain, Walking
<1> QED
  BY <1>1, <1>2 DEF Inv, Finish

\* What the loop's own steps narrow the bracket to.
LEMMA LoopSteps ==
  ASSUME Inv
  PROVE  /\ OpenBracket => Inv' /\ Enters(0, peak)
         /\ SearchLower => Inv' /\ Enters(low, from)
         /\ SearchUpper => Inv' /\ Enters(from + 1, high)
<1>a. Walking => peak \in Heights
  BY DEF Inv, WalkInv
<1>1. ASSUME OpenBracket PROVE Inv' /\ Enters(0, peak)
  <2>1. Walking /\ 0 \in Heights /\ peak \in Heights /\ 0 <= peak /\ peak <= peak
    BY <1>1, <1>a, HeightAssumption DEF OpenBracket, Walking, Heights
  <2> QED
    BY <1>1, <2>1, LoopKeepsInv DEF OpenBracket
<1>2. ASSUME SearchLower PROVE Inv' /\ Enters(low, from)
  <2>1. Walking /\ low \in Heights /\ from \in Heights /\ low <= from /\ from <= peak
    BY <1>2 DEF SearchLower, Inv, WalkInv, Walking
  <2> QED
    BY <1>2, <2>1, LoopKeepsInv DEF SearchLower
<1>3. ASSUME SearchUpper PROVE Inv' /\ Enters(from + 1, high)
  <2>1. Walking /\ high \in Heights /\ from \in Heights /\ from < high /\ high <= peak
    BY <1>3 DEF SearchUpper, Inv, WalkInv, Walking
  <2>2. from + 1 \in Heights /\ from + 1 <= high
    BY <2>1, HeightAssumption DEF Heights
  <2> QED
    BY <1>3, <2>1, <2>2, LoopKeepsInv DEF SearchUpper
<1> QED
  BY <1>1, <1>2, <1>3

LEMMA ReadFailsRefuses == ReadFails => Refuses
BY DEF ReadFails, Refuses, Refusals

LEMMA InvInductive == Inv /\ [Next]_walkVars => Inv'
<1> SUFFICES ASSUME Inv, [Next]_walkVars PROVE Inv'
  OBVIOUS
<1>1. CASE ReadPeak
  BY <1>1, HeightAssumption
  DEF ReadPeak, StartWalk, Inv, TypeOK, WalkInv, ChainTypeOK, Walking, chain, Heights, NoHeight
<1>2. CASE PeakUnavailable \/ ReadFails
  BY <1>2, PeakUnavailableRefuses, ReadFailsRefuses, FinishKeepsInv DEF Refuses
<1>3. CASE StepDown
  <2>1. probe - 1 \in Heights
    BY <1>3, HeightAssumption DEF StepDown, WalkEnds, Inv, TypeOK, Heights
  <2> QED
    BY <1>3, <2>1, HeightAssumption
    DEF StepDown, Inv, TypeOK, WalkInv, ChainTypeOK, Walking, chain, Heights
<1>4. CASE EpochNotBegun
  <2>1. peak # NoHeight
    BY <1>4 DEF EpochNotBegun, Inv, WalkInv, Walking
  <2> QED
    BY <1>4, <2>1, FinishKeepsInv DEF EpochNotBegun
<1>5. CASE OpenBracket \/ SearchLower \/ SearchUpper
  BY <1>5, LoopSteps
<1>6. CASE AnswerRead
  <2>1. Dated(ledger, probe) => Reply \in Timestamps /\ probe \in Heights
    BY DEF Inv, TypeOK, Answers, Dated, Reply
  <2>2. peak # NoHeight
    BY <1>6 DEF AnswerRead, Inv, WalkInv, Walking
  <2> QED
    BY <1>6, <2>1, <2>2, FinishKeepsInv DEF AnswerRead, Refusals
<1>7. CASE ChainMoves
  <2>1. WalkInv' /\ UNCHANGED search
    BY <1>7, ChainMovesKeepWalkInv DEF Inv, ChainMoves, Grow, Reorg
  <2> QED
    BY <2>1 DEF Inv, TypeOK, WalkInv, ChainTypeOK, search
<1>8. CASE UNCHANGED walkVars
  BY <1>8 DEF walkVars, Inv, TypeOK, WalkInv, ChainTypeOK, Walking
<1> QED
  BY <1>1, <1>2, <1>3, <1>4, <1>5, <1>6, <1>7, <1>8 DEF Next, Step

LEMMA InitInv == Init => Inv
BY HeightAssumption
DEF Init, WalkInit, Inv, TypeOK, WalkInv, ChainTypeOK, Walking, Heights, NoHeight

\* The search computes no height a u32 cannot hold and never inverts its
\* bracket, whatever the chain does between its reads.
THEOREM TypeCorrect == Spec => []TypeOK
<1>1. Inv => TypeOK
  BY DEF Inv
<1> QED
  BY <1>1, InitInv, InvInductive, PTL DEF Spec

\* Each probe cuts the bracket at a height inside it, so the target, when it
\* is buried, is always in the half that is kept.
LEMMA BuriedInductive == Inv /\ BuriedInv /\ [Next]_walkVars => BuriedInv'
<1> SUFFICES ASSUME Inv, BuriedInv, [Next]_walkVars PROVE BuriedInv'
  OBVIOUS
<1>a. WalkInv
  BY DEF Inv
<1>1. CASE OpenBracket
  BY <1>1, <1>a, LoopSteps, EntersKeepsBuried, TargetBelowPeak
<1>2. CASE SearchLower
  <2>1. ASSUME NEW h \in Heights, Target(h) PROVE low <= h /\ h <= from
    BY <1>2, <1>a, <2>1, ReachedIsAboveTarget
    DEF SearchLower, BuriedInv, Bracketed, Opened, Walking
  <2> QED
    BY <1>2, <2>1, LoopSteps, EntersKeepsBuried
<1>3. CASE SearchUpper
  <2>1. ASSUME NEW h \in Heights, Target(h) PROVE from + 1 <= h /\ h <= high
    <3>1. from < h /\ h <= high
      BY <1>3, <1>a, <2>1, UnreachedIsBelowTarget
      DEF SearchUpper, BuriedInv, Bracketed, Opened, Walking
    <3> QED
      BY <3>1, <1>a, HeightAssumption DEF WalkInv, Heights
  <2> QED
    BY <1>3, <2>1, LoopSteps, EntersKeepsBuried
<1>4. CASE PeakUnavailable \/ ReadFails
  BY <1>4, <1>a, PeakUnavailableRefuses, ReadFailsRefuses, SharedStepsKeepBuried
<1> QED
  BY <1>a, <1>1, <1>2, <1>3, <1>4, SharedStepsKeepBuried DEF Next, Step

\* A call that answers returns the epoch's census height whenever that block
\* lies deeper below the peak it read than a reorganisation reaches.
THEOREM BuriedAnswerCorrect == Spec => []BuriedAnswer
<1>1. Init => BuriedInv
  BY WalkInitRefines DEF Init
<1>2. Inv /\ BuriedInv => BuriedAnswer
  BY BuriedInvSuffices DEF Inv
<1> QED
  BY <1>1, <1>2, InitInv, InvInductive, BuriedInductive, PTL DEF Spec

LEMMA SettledInductive ==
  ASSUME MaxReorg = 0
  PROVE  Inv /\ SettledInv /\ [Next]_walkVars =>
           SettledInv' /\ [Oracle!Next]_(Oracle!vars)
<1> SUFFICES ASSUME Inv, SettledInv, [Next]_walkVars
             PROVE  SettledInv' /\ [Oracle!Next]_(Oracle!vars)
  OBVIOUS
<1>a. WalkInv /\ low \in Heights /\ high \in Heights /\ from \in Heights /\ probe \in Heights
  BY DEF Inv, WalkInv
<1>b. from' \in Heights
  BY InvInductive DEF Inv, WalkInv
<1>c. Reached /\ Walking => probe \in Heights /\ probe <= from /\ from <= peak /\ Counts(probe)
  BY <1>a DEF WalkInv, Reached, Counts
<1>1. CASE OpenBracket
  <2>1. \A g \in Heights : ~(g < 0)
    BY HeightAssumption DEF Heights
  <2>2. from = peak /\ Counts(probe) /\ probe <= from
    BY <1>1, <1>a, <1>c DEF OpenBracket, Walking, WalkInv
  <2> QED
    BY <1>1, <1>a, <1>b, <2>1, <2>2, LoopSteps, EntersKeepsSettled, EntersRefines
<1>2. CASE SearchLower
  <2>1. Counts(probe) /\ probe <= from
    BY <1>2, <1>c DEF SearchLower, Walking
  <2>2. \A g \in Heights : g < low => ~Counts(g)
    BY <1>2 DEF SearchLower, SettledInv, Opened
  <2> QED
    BY <1>2, <1>a, <1>b, <2>1, <2>2, LoopSteps, EntersKeepsSettled, EntersRefines
<1>3. CASE SearchUpper
  <2>1. \A g \in Heights : g < from + 1 => g <= from
    BY <1>a, HeightAssumption DEF Heights
  <2>2. \A g \in Heights : g < from + 1 => ~Counts(g)
    BY <1>3, <1>a, <2>1, NothingUpToFrom DEF SearchUpper, Walking
  <2>3. \E g \in Heights : g <= high /\ Counts(g)
    BY <1>3 DEF SearchUpper, SettledInv, Opened
  <2> QED
    BY <1>3, <1>b, <2>2, <2>3, LoopSteps, EntersKeepsSettled, EntersRefines
<1>4. CASE PeakUnavailable \/ ReadFails
  BY <1>4, <1>a, PeakUnavailableRefuses, ReadFailsRefuses, SharedStepsKeepSettled,
     SharedStepsRefine
<1> QED
  BY <1>a, <1>1, <1>2, <1>3, <1>4, SharedStepsKeepSettled, SharedStepsRefine
  DEF Next, Step

\* On a chain that only grows, census_height is the one-step oracle: it
\* answers with the first transaction block at or after the epoch start of
\* the chain up to the peak it read, with "not yet" exactly when there is
\* none, or it refuses; the interleaving of its reads with new blocks does
\* not show.
THEOREM SearchImplementsOracle == MaxReorg = 0 => (Spec => ImplementsOracle)
<1> SUFFICES ASSUME MaxReorg = 0 PROVE Spec => ImplementsOracle
  OBVIOUS
<1>1. Init => SettledInv /\ Oracle!Init
  BY WalkInitRefines DEF Init
<1>2. Inv /\ SettledInv /\ [Next]_walkVars => SettledInv' /\ [Oracle!Next]_(Oracle!vars)
  BY SettledInductive
<1> QED
  BY <1>1, <1>2, InitInv, InvInductive, PTL DEF Spec, ImplementsOracle, Oracle!Spec

LEMMA WarrantedInductive ==
  ASSUME MaxReorg = 0
  PROVE  Inv /\ SettledInv /\ Warranted /\ [Next]_walkVars => Warranted'
<1> SUFFICES ASSUME Inv, SettledInv, Warranted, [Next]_walkVars PROVE Warranted'
  OBVIOUS
<1>1. CASE OpenBracket \/ SearchLower \/ SearchUpper
  BY <1>1, LoopSteps, EntersKeepsWarranted
<1>2. CASE PeakUnavailable \/ ReadFails
  BY <1>2, PeakUnavailableRefuses, ReadFailsRefuses, SharedStepsKeepWarranted DEF Inv
<1> QED
  BY <1>1, <1>2, SharedStepsKeepWarranted DEF Inv, Next, Step

\* The search gives up on a run of undated blocks only if the chain has one
\* longer than MAX_NON_TRANSACTION_RUN.
THEOREM OnlyLongRunsExhaust == MaxReorg = 0 => (Spec => []ExhaustedOnlyByLongRun)
<1> SUFFICES ASSUME MaxReorg = 0 PROVE Spec => []ExhaustedOnlyByLongRun
  OBVIOUS
<1>1. Init => SettledInv /\ Warranted
  BY WalkInitRefines, WalkInitWarranted DEF Init
<1>2. Inv /\ SettledInv /\ [Next]_walkVars => SettledInv'
  BY SettledInductive
<1>3. Inv /\ SettledInv /\ Warranted /\ [Next]_walkVars => Warranted'
  BY WarrantedInductive
<1>4. Inv /\ Warranted => ExhaustedOnlyByLongRun
  BY WarrantedSuffices DEF Inv
<1> QED
  BY <1>1, <1>2, <1>3, <1>4, InitInv, InvInductive, PTL DEF Spec

\* "timestamps changed under the search" is never said of a chain whose
\* timestamps did not change.
THEOREM ChangesAreReal == Spec => []ChangeReportedOnlyIfChanged
<1>1. CASE MaxReorg = 0
  <2>1. Init => SettledInv /\ Warranted
    BY WalkInitRefines, WalkInitWarranted DEF Init
  <2>2. Inv /\ SettledInv /\ [Next]_walkVars => SettledInv'
    BY <1>1, SettledInductive
  <2>3. Inv /\ SettledInv /\ Warranted /\ [Next]_walkVars => Warranted'
    BY <1>1, WarrantedInductive
  <2>4. Inv /\ Warranted => ChangeReportedOnlyIfChanged
    BY WarrantedSuffices DEF Inv
  <2> QED
    BY <2>1, <2>2, <2>3, <2>4, InitInv, InvInductive, PTL DEF Spec
<1>2. CASE MaxReorg > 0
  <2>1. ChangeReportedOnlyIfChanged
    BY <1>2 DEF ChangeReportedOnlyIfChanged
  <2> QED
    BY <2>1, PTL
<1> QED
  BY <1>1, <1>2, ReorgAssumption

(***************************************************************************)
(* The reads of a call.                                                    *)
(***************************************************************************)
LEMMA LoopLeavesWalks ==
  ASSUME NEW lo, NEW hi, Loop(lo, hi)
  PROVE  WalksLeft' = hi - lo
<1>1. pc' \in {"search", "answer"} /\ low' = lo /\ high' = hi
  BY DEF Loop
<1> QED
  BY <1>1 DEF WalksLeft

LEMMA LoopStepsRunOut ==
  ASSUME Inv, WalkShort, OpenBracket \/ SearchLower \/ SearchUpper
  PROVE  WalkShort' /\ ReadsLeft' < ReadsLeft
<1>a. /\ Walking /\ low \in Nat /\ high \in Nat /\ from \in Nat /\ peak \in Nat
      /\ peak - 0 = peak
  <2>1. Walking
    BY DEF OpenBracket, SearchLower, SearchUpper, Walking
  <2>2. low \in Heights /\ high \in Heights /\ from \in Heights /\ peak \in Heights
    BY <2>1 DEF Inv, WalkInv
  <2> QED
    BY <2>1, <2>2, HeightAssumption DEF Heights
<1>b. WalkInv /\ WalkInv'
  BY LoopSteps DEF Inv
<1>1. CASE OpenBracket
  <2>1. WalksLeft = peak + 2 /\ WalksLeft' = peak - 0
    BY <1>1, LoopLeavesWalks DEF OpenBracket, WalksLeft
  <2>2. WalksLeft' < WalksLeft
    BY <1>a, <2>1
  <2> QED
    BY <1>1, <1>a, <1>b, <2>2, LoopSteps, EntersRunsOut
<1>2. CASE SearchLower
  <2>1. WalksLeft = high - low /\ WalksLeft' = from - low /\ from < high
    BY <1>2, LoopLeavesWalks DEF SearchLower, WalksLeft, Inv
  <2>2. WalksLeft' < WalksLeft
    BY <1>a, <2>1
  <2> QED
    BY <1>2, <1>a, <1>b, <2>2, LoopSteps, EntersRunsOut
<1>3. CASE SearchUpper
  <2>1. WalksLeft = high - low /\ WalksLeft' = high - (from + 1) /\ low <= from
    BY <1>3, LoopLeavesWalks DEF SearchUpper, WalksLeft, Inv
  <2>2. WalksLeft' < WalksLeft
    BY <1>a, <2>1
  <2> QED
    BY <1>3, <1>a, <1>b, <2>2, LoopSteps, EntersRunsOut
<1> QED
  BY <1>1, <1>2, <1>3

LEMMA ReadsInductive ==
  Inv /\ WalkShort /\ [Next]_walkVars =>
    WalkShort' /\ [ReadsLeft' < ReadsLeft]_search
<1> SUFFICES ASSUME Inv, WalkShort, [Next]_walkVars
             PROVE  WalkShort' /\ [ReadsLeft' < ReadsLeft]_search
  OBVIOUS
<1>1. CASE OpenBracket \/ SearchLower \/ SearchUpper
  BY <1>1, LoopStepsRunOut
<1>2. CASE \/ ReadPeak \/ StepDown \/ EpochNotBegun \/ AnswerRead
           \/ Refuses \/ ChainMoves \/ UNCHANGED walkVars
  BY <1>2, SharedStepsRunOut DEF Inv
<1> QED
  BY <1>1, <1>2, PeakUnavailableRefuses, ReadFailsRefuses DEF Next, Step

\* Whatever a source answers, and however its answers change, a call makes at
\* most (MAX_NON_TRANSACTION_RUN + 1) (MaxHeight + 3) + 1 reads: each one
\* lowers a budget that is that at first and never below 0.
THEOREM CallsAreBounded == Spec => ReadsRunOut
<1>1. Init => WalkShort
  BY DEF Init, WalkInit, WalkShort, Walking
<1>2. Inv /\ WalkShort => ReadsLeft \in Nat
  BY ReadsAreLeft DEF Inv
<1> QED
  BY <1>1, <1>2, InitInv, InvInductive, ReadsInductive, PTL DEF Spec, ReadsRunOut

=============================================================================
