---------------------- MODULE CensusHeightSeededProofs ----------------------
(***************************************************************************)
(* Proofs about the interpolated search of CensusHeightSeeded: for every   *)
(* chain, every seed and every width of the arithmetic, and with answers   *)
(* that change between reads as far as a reorganisation reaches.           *)
(***************************************************************************)
EXTENDS CountedSearch, TimestampWalkProofs, Sums

(***************************************************************************)
(* The probe. Nothing the anchors say can move it out of the bracket.      *)
(***************************************************************************)
LEMMA MiddleInside ==
  ASSUME NEW lo \in Heights, NEW hi \in Heights, lo < hi
  PROVE  Middle(lo, hi) \in Heights /\ lo <= Middle(lo, hi) /\ Middle(lo, hi) < hi
BY HeightAssumption DEF Middle, Heights

LEMMA ClampInside ==
  ASSUME NEW lo \in Heights, NEW hi \in Heights, lo < hi, NEW e \in Int
  PROVE  Clamp(e, lo, hi) \in Heights /\ lo <= Clamp(e, lo, hi) /\ Clamp(e, lo, hi) < hi
BY HeightAssumption DEF Clamp, HigherOf, LowerOf, Heights

LEMMA BlockTypes ==
  ASSUME NEW b \in Blocks
  PROVE  b.height \in Int /\ b.timestamp \in Int
<1>1. CASE b \in [height : Heights, timestamp : Timestamps]
  <2>1. b.height \in Heights /\ b.timestamp \in Timestamps
    BY <1>1
  <2>2. b.height \in Int
    BY <2>1, HeightAssumption DEF Heights
  <2>3. b.timestamp \in Nat
    BY <2>1, TimestampAssumption
  <2> QED
    BY <2>2, <2>3
<1>2. CASE b = NoBlock
  BY <1>2 DEF NoBlock, Block, NoHeight
<1> QED
  BY <1>1, <1>2 DEF Blocks

LEMMA EstimateIsNumber ==
  ASSUME NEW b \in Blocks, NEW a \in Blocks, Anchored(b, a), start \in Starts
  PROVE  Estimate(b, a) \in Int
<1> DEFINE heights == a.height - b.height
           seconds == a.timestamp - b.timestamp
           offset  == LowerOf(SaturatingSub(start, b.timestamp), seconds)
<1>1. /\ a.height \in Int /\ b.height \in Int
      /\ a.timestamp \in Int /\ b.timestamp \in Int
      /\ start \in Int /\ MaxTimestamp \in Int
  BY BlockTypes, TimestampAssumption, TimestampWidth
<1>2. heights \in Int /\ seconds \in Int /\ seconds > 0
  BY <1>1 DEF Anchored
<1>3. offset \in Int
  BY <1>1, <1>2 DEF LowerOf, SaturatingSub, HigherOf
<1>4. heights * offset \in Int
  BY <1>2, <1>3
<1>5. SaturatingMul(heights, offset) \in Int
  BY <1>1, <1>4 DEF SaturatingMul, LowerOf
<1>6. SaturatingMul(heights, offset) \div seconds \in Int
  BY <1>2, <1>5
<1>7. SaturatingAdd(b.height, SaturatingMul(heights, offset) \div seconds) \in Int
  BY <1>1, <1>6 DEF SaturatingAdd, LowerOf
<1> QED
  BY <1>7 DEF Estimate

LEMMA ProbeInside ==
  ASSUME NEW lo \in Heights, NEW hi \in Heights, lo < hi,
         NEW b \in Blocks, NEW a \in Blocks, NEW s, start \in Starts
  PROVE  /\ ProbeAt(lo, hi, b, a, s) \in Heights
         /\ lo <= ProbeAt(lo, hi, b, a, s)
         /\ ProbeAt(lo, hi, b, a, s) < hi
<1>1. CASE Anchored(b, a)
  BY <1>1, EstimateIsNumber, ClampInside, MiddleInside DEF ProbeAt, InterpolatedProbe
<1>2. CASE ~Anchored(b, a)
  BY <1>2, MiddleInside DEF ProbeAt, InterpolatedProbe
<1> QED
  BY <1>1, <1>2

(***************************************************************************)
(* The invariant.                                                          *)
(***************************************************************************)
Inv ==
  /\ TypeOK
  /\ WalkInv
  /\ ProbeInBracket
  /\ StallsBounded
  /\ pc = "seed" => from = seed /\ seed < peak /\ low = 0 /\ high = peak
  /\ pc = "search" /\ stalls >= StallsBeforeBisection => from = Middle(low, high)

\* The loop head keeps the invariant for every bracket and every anchors it
\* is given.
LEMMA LoopKeepsInv ==
  ASSUME Inv, Walking, NEW lo \in Heights, NEW hi \in Heights, lo <= hi, hi <= peak,
         NEW b \in Blocks, NEW a \in Blocks,
         NEW s \in Nat, s <= StallsBeforeBisection,
         Loop(lo, hi, b, a, s)
  PROVE  Inv' /\ Enters(lo, hi)
<1>1. CASE lo < hi
  <2>1. pc' = "search" /\ from' = ProbeAt(lo, hi, b, a, s) /\ probe' = from'
    BY <1>1 DEF Loop, StartWalk
  <2>2. start \in Starts
    BY DEF Inv, TypeOK
  <2>3. from' \in Heights /\ lo <= from' /\ from' < hi
    BY <1>1, <2>1, <2>2, ProbeInside
  <2>4. s >= StallsBeforeBisection => from' = Middle(lo, hi)
    BY <2>1 DEF ProbeAt
  <2> QED
    BY <1>1, <2>1, <2>3, <2>4, HeightAssumption
    DEF Inv, TypeOK, WalkInv, ChainTypeOK, ProbeInBracket, StallsBounded, Loop, Enters,
        chain, Walking, Heights, NoHeight, Middle
<1>2. CASE ~(lo < hi)
  <2>1. pc' = "answer" /\ from' = lo /\ probe' = lo
    BY <1>2 DEF Loop, StartWalk
  <2> QED
    BY <1>2, <2>1, HeightAssumption
    DEF Inv, TypeOK, WalkInv, ChainTypeOK, ProbeInBracket, StallsBounded, Loop, Enters,
        chain, Walking, Heights, NoHeight
<1> QED
  BY <1>1, <1>2

\* Bisecting makes headway, so the count of stalls starts over.
LEMMA StallsStayBounded ==
  ASSUME Inv, pc = "search"
  PROVE  /\ StallsAfter(low, from) \in Nat
         /\ StallsAfter(low, from) <= StallsBeforeBisection
         /\ StallsAfter(from + 1, high) \in Nat
         /\ StallsAfter(from + 1, high) <= StallsBeforeBisection
<1>1. /\ low \in Nat /\ high \in Nat /\ from \in Nat
      /\ low <= from /\ from < high
      /\ stalls \in Nat /\ stalls <= StallsBeforeBisection
      /\ StallsBeforeBisection \in Nat
  BY StallsAssumption, HeightAssumption
  DEF Inv, TypeOK, ProbeInBracket, StallsBounded, Heights
<1>2. CASE stalls < StallsBeforeBisection
  BY <1>1, <1>2 DEF StallsAfter
<1>3. CASE ~(stalls < StallsBeforeBisection)
  <2>1. from = low + (high - low) \div 2
    BY <1>1, <1>3 DEF Inv, Middle
  <2>2. /\ ~((from - low) * 4 > (high - low) * 3)
        /\ ~((high - (from + 1)) * 4 > (high - low) * 3)
    BY <1>1, <2>1
  <2> QED
    BY <1>1, <2>2 DEF StallsAfter
<1> QED
  BY <1>2, <1>3

LEMMA WitnessIsBlock ==
  ASSUME Inv, Dated(ledger, probe)
  PROVE  Witness \in Blocks
BY DEF Inv, TypeOK, Answers, Dated, Witness, Reply, Block, Blocks

LEMMA FinishKeepsInv ==
  ASSUME Inv,
         NEW r \in Refusals \union {NotYet}
                   \union {Found(h, t) : h \in Heights, t \in Timestamps},
         r \in Refusals \/ peak # NoHeight,
         Finish(r), UNCHANGED seedVars
  PROVE  Inv'
<1>1. TypeOK'
  BY DEF Inv, TypeOK, Finish, chain, seedVars
<1>2. WalkInv'
  BY DEF Inv, WalkInv, ChainTypeOK, Finish, chain, Walking
<1> QED
  BY <1>1, <1>2
  DEF Inv, Finish, seedVars, ProbeInBracket, StallsBounded

\* A step of the search opens the bracket, looks the seed up, or narrows the
\* bracket at the probe; what it narrows it to is what Kept says.
Kept(lo, hi) ==
  \/ lo = 0 /\ hi = peak /\ Reached /\ pc = "newest"
  \/ lo = low /\ hi = high /\ pc = "seed"
  \/ lo = low /\ hi = from /\ Reached /\ pc = "search"
  \/ /\ lo = from + 1 /\ hi = high /\ from < high
     /\ WalkEnds /\ ~Reached /\ pc \in {"seed", "search"}

SearchStep ==
  \/ ReadSeed \/ SearchUnseeded \/ SeedBounds \/ SeedRejected \/ SeedUnreadable
  \/ SearchLower \/ SearchUpper

LEMMA SearchSteps ==
  ASSUME Inv, SearchStep
  PROVE  Inv' /\ \E lo, hi \in Heights : Enters(lo, hi) /\ Kept(lo, hi)
<1>a. /\ low \in Heights /\ high \in Heights /\ from \in Heights /\ probe \in Heights
      /\ low <= high
      /\ below \in Blocks /\ above \in Blocks /\ NoBlock \in Blocks
      /\ 0 \in Heights /\ 0 \in Nat /\ 0 <= StallsBeforeBisection
  BY HeightAssumption, StallsAssumption DEF Inv, TypeOK, Blocks, Heights
<1>b. Walking => peak \in Heights /\ from <= peak /\ high <= peak
  BY DEF Inv, WalkInv
<1>c. Reached => Dated(ledger, probe) /\ Witness \in Blocks
  BY WitnessIsBlock DEF Reached, AtOrAfter
<1>1. CASE ReadSeed
  <2>1. seed \in Heights /\ seed < peak /\ peak \in Heights /\ Witness \in Blocks
    BY <1>1, <1>b, <1>c DEF ReadSeed, Walking, Inv, TypeOK
  <2>2. Inv'
    BY <1>1, <2>1, HeightAssumption
    DEF ReadSeed, StartWalk, Inv, TypeOK, WalkInv, ChainTypeOK, ProbeInBracket,
        StallsBounded, chain, Walking, Heights, NoHeight
  <2>3. Enters(0, peak) /\ Kept(0, peak)
    BY <1>1 DEF ReadSeed, StartWalk, Enters, Kept
  <2> QED
    BY <1>a, <2>1, <2>2, <2>3
<1>2. CASE SearchUnseeded
  <2>1. peak \in Heights /\ 0 <= peak /\ peak <= peak /\ Walking /\ Witness \in Blocks
    BY <1>2, <1>b, <1>c, HeightAssumption DEF SearchUnseeded, Walking, Heights
  <2>2. Inv' /\ Enters(0, peak)
    BY <1>2, <1>a, <2>1, LoopKeepsInv DEF SearchUnseeded
  <2> QED
    BY <1>2, <1>a, <2>1, <2>2 DEF SearchUnseeded, Kept
<1>3. CASE SeedBounds
  <2>1. /\ Walking /\ from = seed /\ from < high /\ high <= peak
        /\ WalkEnds /\ ~Reached /\ Witness \in Blocks
    <3>1. Walking /\ from = seed /\ Dated(ledger, probe) /\ Reply < start
      BY <1>3 DEF SeedBounds, Walking, Inv
    <3>2. from < high /\ high <= peak
      BY <1>3, <1>b, <3>1 DEF SeedBounds, Inv
    <3>3. WalkEnds /\ Witness \in Blocks
      BY <3>1, WitnessIsBlock DEF WalkEnds
    <3>4. ChainTypeOK
      BY DEF Inv, WalkInv
    <3>5. ledger[probe] \in Nat /\ start \in Nat
      BY <3>1, <3>4, <1>a, TimestampAssumption DEF ChainTypeOK, Answers, Dated
    <3> QED
      BY <3>1, <3>2, <3>3, <3>5 DEF Reached, AtOrAfter, Reply
  <2>2. from + 1 \in Heights /\ from + 1 <= high
    BY <2>1, <1>a, HeightAssumption DEF Heights
  \* The saturating add and the clamp change nothing here.
  <2>3. LowerOf(SaturatingAdd(seed, 1), high) = from + 1
    BY <2>1, <2>2, <1>a, HeightAssumption, TimestampWidth
    DEF LowerOf, SaturatingAdd, Heights
  <2>4. Inv' /\ Enters(from + 1, high)
    BY <1>3, <1>a, <2>1, <2>2, <2>3, LoopKeepsInv DEF SeedBounds
  <2> QED
    BY <1>3, <1>a, <2>1, <2>2, <2>4 DEF SeedBounds, Kept
<1>4. CASE SeedRejected \/ SeedUnreadable
  <2>1. pc = "seed" /\ Walking /\ Loop(low, high, NoBlock, above, 0)
    BY <1>4 DEF SeedRejected, SeedUnreadable, Walking
  <2>2. Inv' /\ Enters(low, high)
    BY <1>a, <1>b, <2>1, LoopKeepsInv
  <2> QED
    BY <1>a, <2>1, <2>2 DEF Kept
<1>5. CASE SearchLower
  <2>1. pc = "search" /\ Walking /\ low <= from /\ from <= peak /\ Witness \in Blocks
    BY <1>5, <1>b, <1>c DEF SearchLower, Walking, Inv, ProbeInBracket
  <2>2. Inv' /\ Enters(low, from)
    BY <1>5, <1>a, <2>1, StallsStayBounded, LoopKeepsInv DEF SearchLower
  <2> QED
    BY <1>5, <1>a, <2>1, <2>2 DEF SearchLower, Kept
<1>6. CASE SearchUpper
  <2>1. pc = "search" /\ Walking /\ from < high /\ high <= peak /\ WalkEnds /\ ~Reached
    BY <1>6, <1>b DEF SearchUpper, Walking, Inv, ProbeInBracket
  <2>2. from + 1 \in Heights /\ from + 1 <= high
    BY <2>1, <1>a, HeightAssumption DEF Heights
  <2>3. (IF Dated(ledger, probe) THEN Witness ELSE below) \in Blocks
    BY <1>a, WitnessIsBlock
  <2>4. Inv' /\ Enters(from + 1, high)
    BY <1>6, <1>a, <2>1, <2>2, <2>3, StallsStayBounded, LoopKeepsInv DEF SearchUpper
  <2> QED
    BY <1>a, <2>1, <2>2, <2>4 DEF Kept
<1> QED
  BY <1>1, <1>2, <1>3, <1>4, <1>5, <1>6 DEF SearchStep

LEMMA ReadFailsRefuses == ReadFails => Refuses
BY DEF ReadFails, Refuses, Refusals

\* Every step is a step of the search or one that leaves its own state alone.
LEMMA StepCases ==
  [Next]_vars =>
    \/ SearchStep
    \/ /\ \/ ReadPeak \/ StepDown \/ EpochNotBegun \/ AnswerRead
          \/ Refuses \/ ChainMoves \/ UNCHANGED walkVars
       /\ UNCHANGED seedVars
BY PeakUnavailableRefuses, ReadFailsRefuses DEF Next, Step, SearchStep, vars

LEMMA InvInductive == Inv /\ [Next]_vars => Inv'
<1> SUFFICES ASSUME Inv, [Next]_vars PROVE Inv'
  OBVIOUS
<1>1. CASE SearchStep
  BY <1>1, SearchSteps
<1>2. CASE ReadPeak /\ UNCHANGED seedVars
  BY <1>2, HeightAssumption
  DEF ReadPeak, StartWalk, Inv, TypeOK, WalkInv, ChainTypeOK, ProbeInBracket,
      StallsBounded, Walking, chain, seedVars, Heights, NoHeight
<1>3. CASE StepDown /\ UNCHANGED seedVars
  <2>1. probe - 1 \in Heights
    BY <1>3, HeightAssumption DEF StepDown, WalkEnds, Inv, TypeOK, Heights
  <2> QED
    BY <1>3, <2>1, HeightAssumption
    DEF StepDown, Inv, TypeOK, WalkInv, ChainTypeOK, ProbeInBracket, StallsBounded,
        Walking, chain, seedVars, Heights
<1>4. CASE EpochNotBegun /\ UNCHANGED seedVars
  <2>1. peak # NoHeight
    BY <1>4 DEF EpochNotBegun, Inv, WalkInv, Walking
  <2> QED
    BY <1>4, <2>1, FinishKeepsInv DEF EpochNotBegun
<1>5. CASE AnswerRead /\ UNCHANGED seedVars
  <2>1. Dated(ledger, probe) => Reply \in Timestamps /\ probe \in Heights
    BY DEF Inv, TypeOK, Answers, Dated, Reply
  <2>2. peak # NoHeight
    BY <1>5 DEF AnswerRead, Inv, WalkInv, Walking
  <2> QED
    BY <1>5, <2>1, <2>2, FinishKeepsInv DEF AnswerRead, Refusals
<1>6. CASE Refuses /\ UNCHANGED seedVars
  BY <1>6, FinishKeepsInv DEF Refuses
<1>7. CASE ChainMoves /\ UNCHANGED seedVars
  <2>1. WalkInv' /\ UNCHANGED search
    BY <1>7, ChainMovesKeepWalkInv DEF Inv, ChainMoves, Grow, Reorg
  <2> QED
    BY <1>7, <2>1
    DEF Inv, TypeOK, WalkInv, ChainTypeOK, ProbeInBracket, StallsBounded, search, seedVars
<1>8. CASE UNCHANGED walkVars /\ UNCHANGED seedVars
  BY <1>8
  DEF walkVars, seedVars, Inv, TypeOK, WalkInv, ChainTypeOK, ProbeInBracket,
      StallsBounded, Walking
<1> QED
  BY <1>1, <1>2, <1>3, <1>4, <1>5, <1>6, <1>7, <1>8, StepCases

LEMMA InitInv == Init => Inv
BY HeightAssumption, StallsAssumption
DEF Init, WalkInit, Inv, TypeOK, WalkInv, ChainTypeOK, ProbeInBracket, StallsBounded,
    Walking, Heights, NoHeight, Blocks

\* No seed, no anchors and no change of the source's answers between reads
\* can invert the bracket or compute a height a u32 cannot hold.
THEOREM TypeCorrect == Spec => []TypeOK
<1>1. Inv => TypeOK
  BY DEF Inv
<1> QED
  BY <1>1, InitInv, InvInductive, PTL DEF Spec

\* Every probe is inside the bracket, so every probe narrows it: the search
\* takes at most as many probes as the bracket is wide, on any source.
THEOREM ProbesNarrow == Spec => []ProbeInBracket
<1>1. Inv => ProbeInBracket
  BY DEF Inv
<1> QED
  BY <1>1, InitInv, InvInductive, PTL DEF Spec

\* No source can put a bisection off for longer than StallsBeforeBisection
\* probes.
THEOREM StallsNeverExceedBound == Spec => []StallsBounded
<1>1. Inv => StallsBounded
  BY DEF Inv
<1> QED
  BY <1>1, InitInv, InvInductive, PTL DEF Spec

(***************************************************************************)
(* The answer.                                                             *)
(***************************************************************************)
LEMMA KeptHoldsTarget ==
  ASSUME Inv, BuriedInv, NEW lo \in Heights, NEW hi \in Heights, Kept(lo, hi),
         NEW h \in Heights, Target(h)
  PROVE  lo <= h /\ h <= hi
<1>a. WalkInv
  BY DEF Inv
<1>b. pc \in {"seed", "search"} => Walking /\ low <= h /\ h <= high
  BY DEF BuriedInv, Bracketed, Opened, Walking
<1>1. CASE lo = 0 /\ hi = peak
  BY <1>1, <1>a, TargetBelowPeak
<1>2. CASE lo = low /\ hi = high /\ pc = "seed"
  BY <1>2, <1>b
<1>3. CASE lo = low /\ hi = from /\ Reached /\ pc = "search"
  BY <1>3, <1>a, <1>b, ReachedIsAboveTarget
<1>4. CASE /\ lo = from + 1 /\ hi = high
           /\ WalkEnds /\ ~Reached /\ pc \in {"seed", "search"}
  <2>1. from < h /\ h <= high
    BY <1>4, <1>a, <1>b, UnreachedIsBelowTarget
  <2> QED
    BY <1>4, <2>1, <1>a, HeightAssumption DEF WalkInv, Heights
<1> QED
  BY <1>1, <1>2, <1>3, <1>4 DEF Kept

LEMMA BuriedInductive == Inv /\ BuriedInv /\ [Next]_vars => BuriedInv'
<1> SUFFICES ASSUME Inv, BuriedInv, [Next]_vars PROVE BuriedInv'
  OBVIOUS
<1>1. CASE SearchStep
  <2>1. PICK lo \in Heights, hi \in Heights : Enters(lo, hi) /\ Kept(lo, hi)
    BY <1>1, SearchSteps
  <2> QED
    BY <2>1, KeptHoldsTarget, EntersKeepsBuried
<1>2. CASE ~SearchStep
  BY <1>2, StepCases, SharedStepsKeepBuried DEF Inv
<1> QED
  BY <1>1, <1>2

\* Whatever the seed, a call that answers returns the epoch's census height
\* whenever that block lies deeper below the peak it read than a
\* reorganisation reaches: the same block the bisection returns.
THEOREM BuriedAnswerCorrect == Spec => []BuriedAnswer
<1>1. Init => BuriedInv
  BY WalkInitRefines DEF Init
<1>2. Inv /\ BuriedInv => BuriedAnswer
  BY BuriedInvSuffices DEF Inv
<1> QED
  BY <1>1, <1>2, InitInv, InvInductive, BuriedInductive, PTL DEF Spec

LEMMA KeptSettled ==
  ASSUME Inv, SettledInv, NEW lo \in Heights, NEW hi \in Heights, Kept(lo, hi)
  PROVE  /\ \A g \in Heights : g < lo => ~Counts(g)
         /\ \E g \in Heights : g <= hi /\ Counts(g)
<1>a. /\ WalkInv /\ low \in Heights /\ high \in Heights
      /\ from \in Heights /\ probe \in Heights
  BY DEF Inv, WalkInv
<1>b. Reached /\ Walking => probe \in Heights /\ probe <= from /\ Counts(probe)
  BY <1>a DEF WalkInv, Reached, Counts
<1>c. pc \in {"seed", "search"} =>
        /\ Walking
        /\ \A g \in Heights : g < low => ~Counts(g)
        /\ \E g \in Heights : g <= high /\ Counts(g)
  BY DEF SettledInv, Opened, Walking
<1>1. CASE lo = 0 /\ hi = peak /\ Reached /\ pc = "newest"
  <2>1. \A g \in Heights : ~(g < 0)
    BY HeightAssumption DEF Heights
  <2>2. from = peak /\ Counts(probe) /\ probe <= from
    BY <1>1, <1>a, <1>b DEF Walking, WalkInv
  <2> QED
    BY <1>1, <1>a, <2>1, <2>2
<1>2. CASE lo = low /\ hi = high /\ pc = "seed"
  BY <1>2, <1>c
<1>3. CASE lo = low /\ hi = from /\ Reached /\ pc = "search"
  BY <1>3, <1>a, <1>b, <1>c
<1>4. CASE /\ lo = from + 1 /\ hi = high
           /\ WalkEnds /\ ~Reached /\ pc \in {"seed", "search"}
  <2>1. \A g \in Heights : g < from + 1 => g <= from
    BY <1>a, HeightAssumption DEF Heights
  <2>2. \A g \in Heights : g <= from => ~Counts(g)
    BY <1>4, <1>a, <1>c, NothingUpToFrom
  <2> QED
    BY <1>4, <1>c, <2>1, <2>2
<1> QED
  BY <1>1, <1>2, <1>3, <1>4 DEF Kept

LEMMA SettledInductive ==
  ASSUME MaxReorg = 0
  PROVE  Inv /\ SettledInv /\ [Next]_vars =>
           SettledInv' /\ [Oracle!Next]_(Oracle!vars)
<1> SUFFICES ASSUME Inv, SettledInv, [Next]_vars
             PROVE  SettledInv' /\ [Oracle!Next]_(Oracle!vars)
  OBVIOUS
<1>1. CASE SearchStep
  <2>1. PICK lo \in Heights, hi \in Heights : Enters(lo, hi) /\ Kept(lo, hi)
    BY <1>1, SearchSteps
  <2>2. from' \in Heights
    BY InvInductive DEF Inv, WalkInv
  <2> QED
    BY <2>1, <2>2, KeptSettled, EntersKeepsSettled, EntersRefines
<1>2. CASE ~SearchStep
  BY <1>2, StepCases, SharedStepsKeepSettled, SharedStepsRefine DEF Inv
<1> QED
  BY <1>1, <1>2

\* On a chain that only grows the seeded search is the same one-step oracle
\* as the bisection. The oracle knows no seed: whatever the seed, it cannot
\* change which height is returned, only what is read on the way.
THEOREM SearchImplementsOracle == MaxReorg = 0 => (Spec => ImplementsOracle)
<1> SUFFICES ASSUME MaxReorg = 0 PROVE Spec => ImplementsOracle
  OBVIOUS
<1>1. Init => SettledInv /\ Oracle!Init
  BY WalkInitRefines DEF Init
<1>2. Inv /\ SettledInv /\ [Next]_vars => SettledInv' /\ [Oracle!Next]_(Oracle!vars)
  BY SettledInductive
<1> QED
  BY <1>1, <1>2, InitInv, InvInductive, PTL DEF Spec, ImplementsOracle, Oracle!Spec

LEMMA WarrantedInductive ==
  ASSUME MaxReorg = 0
  PROVE  Inv /\ SettledInv /\ Warranted /\ [Next]_vars => Warranted'
<1> SUFFICES ASSUME Inv, SettledInv, Warranted, [Next]_vars PROVE Warranted'
  OBVIOUS
<1>1. CASE SearchStep
  BY <1>1, SearchSteps, EntersKeepsWarranted
<1>2. CASE ~SearchStep
  BY <1>2, StepCases, SharedStepsKeepWarranted DEF Inv
<1> QED
  BY <1>1, <1>2

\* The search gives up on a run of undated blocks only if the chain has one
\* longer than MAX_NON_TRANSACTION_RUN.
THEOREM OnlyLongRunsExhaust == MaxReorg = 0 => (Spec => []ExhaustedOnlyByLongRun)
<1> SUFFICES ASSUME MaxReorg = 0 PROVE Spec => []ExhaustedOnlyByLongRun
  OBVIOUS
<1>1. Init => SettledInv /\ Warranted
  BY WalkInitRefines, WalkInitWarranted DEF Init
<1>2. Inv /\ SettledInv /\ [Next]_vars => SettledInv'
  BY SettledInductive
<1>3. Inv /\ SettledInv /\ Warranted /\ [Next]_vars => Warranted'
  BY WarrantedInductive
<1>4. Inv /\ Warranted => ExhaustedOnlyByLongRun
  BY WarrantedSuffices DEF Inv
<1> QED
  BY <1>1, <1>2, <1>3, <1>4, InitInv, InvInductive, PTL DEF Spec

\* "timestamps changed under the search" is never said of a chain whose
\* timestamps did not change.
THEOREM ChangesAreReal == Spec => []ChangeReportedOnlyIfChanged
<1>1. CASE MaxReorg = 0
  <2>1. Init => SettledInv /\ Warranted
    BY WalkInitRefines, WalkInitWarranted DEF Init
  <2>2. Inv /\ SettledInv /\ [Next]_vars => SettledInv'
    BY <1>1, SettledInductive
  <2>3. Inv /\ SettledInv /\ Warranted /\ [Next]_vars => Warranted'
    BY <1>1, WarrantedInductive
  <2>4. Inv /\ Warranted => ChangeReportedOnlyIfChanged
    BY WarrantedSuffices DEF Inv
  <2> QED
    BY <2>1, <2>2, <2>3, <2>4, InitInv, InvInductive, PTL DEF Spec
<1>2. CASE MaxReorg > 0
  <2>1. ChangeReportedOnlyIfChanged
    BY <1>2 DEF ChangeReportedOnlyIfChanged
  <2> QED
    BY <2>1, PTL
<1> QED
  BY <1>1, <1>2, ReorgAssumption

(***************************************************************************)
(* The reads of a call.                                                    *)
(***************************************************************************)
LEMMA SearchStepsRunOut ==
  ASSUME Inv, WalkShort, SearchStep
  PROVE  WalkShort' /\ ReadsLeft' < ReadsLeft
<1>1. PICK lo \in Heights, hi \in Heights : Enters(lo, hi) /\ Kept(lo, hi)
  BY SearchSteps
<1>2. /\ WalkInv /\ WalkInv' /\ low' = lo /\ high' = hi
      /\ Walking /\ pc \in {"newest", "seed", "search"}
  BY <1>1, SearchSteps DEF Inv, Enters, Kept, Walking
<1>3. /\ pc' \in {"seed", "search", "answer"}
      /\ pc' = "seed" => pc = "newest"
  BY DEF SearchStep, ReadSeed, SearchUnseeded, SeedBounds, SeedRejected,
         SeedUnreadable, SearchLower, SearchUpper, Loop
<1>4. /\ low \in Nat /\ high \in Nat /\ from \in Nat /\ peak \in Nat
      /\ lo \in Nat /\ hi \in Nat /\ low <= high
  <2>1. low \in Heights /\ high \in Heights /\ from \in Heights /\ peak \in Heights
    BY <1>2 DEF WalkInv
  <2> QED
    BY <1>2, <2>1, HeightAssumption DEF WalkInv, Heights
<1>5. CASE pc = "newest"
  <2>1. lo = 0 /\ hi = peak /\ WalksLeft = peak + 2
    BY <1>1, <1>5 DEF Kept, WalksLeft
  <2>2. WalksLeft' = hi - lo \/ WalksLeft' = hi - lo + 1
    BY <1>2, <1>3 DEF WalksLeft
  <2>3. hi - lo < peak + 2 /\ hi - lo + 1 < peak + 2
    BY <1>4, <2>1
  <2>4. WalksLeft' < WalksLeft
    BY <2>1, <2>2, <2>3
  <2> QED
    BY <1>1, <1>2, <2>4, EntersRunsOut
<1>6. CASE pc = "seed"
  <2>1. WalksLeft = high - low + 1 /\ low = 0 /\ hi = high
    BY <1>1, <1>6 DEF Kept, WalksLeft, Inv
  <2>2. WalksLeft' = hi - lo
    BY <1>2, <1>3, <1>6 DEF WalksLeft
  <2>3. hi - lo < high - low + 1
    BY <1>4, <2>1
  <2>4. WalksLeft' < WalksLeft
    BY <2>1, <2>2, <2>3
  <2> QED
    BY <1>1, <1>2, <2>4, EntersRunsOut
<1>7. CASE pc = "search"
  <2>1. /\ WalksLeft = high - low /\ low <= from /\ from < high
        /\ (lo = low /\ hi = from) \/ (lo = from + 1 /\ hi = high)
    BY <1>1, <1>7 DEF Kept, WalksLeft, Inv, ProbeInBracket
  <2>2. WalksLeft' = hi - lo
    BY <1>2, <1>3, <1>7 DEF WalksLeft
  <2>3. hi - lo < high - low
    BY <1>4, <2>1
  <2>4. WalksLeft' < WalksLeft
    BY <2>1, <2>2, <2>3
  <2> QED
    BY <1>1, <1>2, <2>4, EntersRunsOut
<1> QED
  BY <1>2, <1>5, <1>6, <1>7

LEMMA ReadsInductive ==
  Inv /\ WalkShort /\ [Next]_vars => WalkShort' /\ [ReadsLeft' < ReadsLeft]_search
<1> SUFFICES ASSUME Inv, WalkShort, [Next]_vars
             PROVE  WalkShort' /\ [ReadsLeft' < ReadsLeft]_search
  OBVIOUS
<1>1. CASE SearchStep
  BY <1>1, SearchStepsRunOut
<1>2. CASE ~SearchStep
  BY <1>2, StepCases, SharedStepsRunOut DEF Inv
<1> QED
  BY <1>1, <1>2

\* A seed and anchors of the source's choice do not add a read to the budget
\* of a call.
THEOREM CallsAreBounded == Spec => ReadsRunOut
<1>1. Init => WalkShort
  BY DEF Init, WalkInit, WalkShort, Walking
<1>2. Inv /\ WalkShort => ReadsLeft \in Nat
  BY ReadsAreLeft DEF Inv
<1> QED
  BY <1>1, <1>2, InitInv, InvInductive, ReadsInductive, PTL DEF Spec, ReadsRunOut

(***************************************************************************)
(* Headway.                                                                *)
(***************************************************************************)
PowersUp(f, base, n) ==
  f = [k \in 0 .. n |-> IF k = 0 THEN 1 ELSE base * f[k - 1]]

LEMMA PowersUpAt ==
  ASSUME NEW f, NEW base, NEW n \in Nat, PowersUp(f, base, n), NEW k \in 0 .. n
  PROVE  f[k] = IF k = 0 THEN 1 ELSE base * f[k - 1]
BY Zenon DEF PowersUp

LEMMA PowersExist ==
  ASSUME NEW base \in Nat, NEW n \in Nat
  PROVE  \E f : PowersUp(f, base, n)
<1> DEFINE T == {m \in Nat : ~ \E f : PowersUp(f, base, m)}
<1> SUFFICES ASSUME T # {} PROVE FALSE
  OBVIOUS
<1>1. PICK m \in T : \A j \in T : m <= j
  <2>1. T \subseteq Nat
    OBVIOUS
  <2> HIDE DEF T
  <2> QED
    BY <2>1, LeastNatural
<1>2. m \in Nat /\ ~ \E f : PowersUp(f, base, m)
  OBVIOUS
<1>3. m # 0
  <2>1. PowersUp([k \in 0 .. 0 |-> 1], base, 0)
    BY DEF PowersUp
  <2> QED
    BY <1>2, <2>1
<1>4. PICK f : PowersUp(f, base, m - 1)
  <2>1. m - 1 \in Nat /\ m - 1 \notin T
    BY <1>1, <1>2, <1>3
  <2> QED
    BY <2>1
<1> DEFINE g == [k \in 0 .. m |-> IF k = m THEN base * f[m - 1] ELSE f[k]]
<1>5. \A k \in 0 .. m : g[k] = IF k = 0 THEN 1 ELSE base * g[k - 1]
  <2> SUFFICES ASSUME NEW k \in 0 .. m
               PROVE  g[k] = IF k = 0 THEN 1 ELSE base * g[k - 1]
    OBVIOUS
  <2>1. CASE k = m
    <3>1. g[k] = base * f[m - 1] /\ g[k - 1] = f[m - 1]
      BY <1>2, <1>3, <2>1
    <3> HIDE DEF g
    <3> QED
      BY <1>3, <2>1, <3>1
  <2>2. CASE k # m
    <3>1. k \in 0 .. m - 1 /\ m - 1 \in Nat /\ g[k] = f[k]
      BY <1>2, <1>3, <2>2
    <3>2. k # 0 => g[k - 1] = f[k - 1]
      BY <1>2, <2>2
    <3>3. f[k] = IF k = 0 THEN 1 ELSE base * f[k - 1]
      BY <1>4, <3>1, PowersUpAt
    <3> HIDE DEF g
    <3> QED
      BY <3>1, <3>2, <3>3
  <2> QED
    BY <2>1, <2>2
<1>6. PowersUp(g, base, m)
  <2>1. g = [k \in 0 .. m |-> g[k]]
    OBVIOUS
  <2> HIDE DEF g
  <2> QED
    BY <1>5, <2>1 DEF PowersUp
<1> QED
  BY <1>2, <1>6

LEMMA PowersAgree ==
  ASSUME NEW base \in Nat, NEW n \in Nat, NEW m \in Nat,
         NEW f, PowersUp(f, base, n), NEW g, PowersUp(g, base, m),
         NEW k \in Nat, k <= n, k <= m
  PROVE  f[k] = g[k] /\ f[k] \in Nat
<1> DEFINE T == {j \in Nat : j <= n /\ j <= m /\ ~(f[j] = g[j] /\ f[j] \in Nat)}
<1> SUFFICES ASSUME T # {} PROVE FALSE
  OBVIOUS
<1>1. PICK i \in T : \A j \in T : i <= j
  <2>1. T \subseteq Nat
    OBVIOUS
  <2> HIDE DEF T
  <2> QED
    BY <2>1, LeastNatural
<1>2. i \in 0 .. n /\ i \in 0 .. m /\ i \in Nat /\ ~(f[i] = g[i] /\ f[i] \in Nat)
  OBVIOUS
<1>3. /\ f[i] = IF i = 0 THEN 1 ELSE base * f[i - 1]
      /\ g[i] = IF i = 0 THEN 1 ELSE base * g[i - 1]
  BY <1>2, PowersUpAt
<1>4. i # 0 => f[i - 1] = g[i - 1] /\ f[i - 1] \in Nat
  <2>1. i # 0 => i - 1 \in Nat /\ i - 1 \notin T /\ i - 1 <= n /\ i - 1 <= m
    BY <1>1, <1>2
  <2> QED
    BY <2>1
<1> HIDE DEF T
<1>5. i # 0 => base * f[i - 1] \in Nat
  BY <1>4
<1> QED
  BY <1>2, <1>3, <1>4, <1>5

LEMMA PowerIs ==
  ASSUME NEW base \in Nat, NEW n \in Nat
  PROVE  /\ Power(base, n) \in Nat
         /\ Power(base, 0) = 1
         /\ Power(base, n + 1) = base * Power(base, n)
<1> DEFINE p(m) == CHOOSE h : PowersUp(h, base, m)
<1>1. \A m \in Nat : PowersUp(p(m), base, m)
  BY PowersExist
<1>2. \A m \in Nat : Power(base, m) = p(m)[m]
  BY Zenon DEF Power, PowersUp
<1> HIDE DEF p
<1>3. p(0)[0] = 1
  BY <1>1, PowersUpAt
<1>4. p(n + 1)[n + 1] = base * p(n + 1)[n]
  <2>1. n + 1 \in Nat /\ n + 1 \in 0 .. n + 1 /\ n + 1 # 0 /\ (n + 1) - 1 = n
    OBVIOUS
  <2>2. PowersUp(p(n + 1), base, n + 1)
    BY <1>1, <2>1
  <2>3. p(n + 1)[n + 1] = IF n + 1 = 0 THEN 1 ELSE base * p(n + 1)[(n + 1) - 1]
    BY <2>1, <2>2, PowersUpAt
  <2> QED
    BY <2>1, <2>3
<1>5. p(n + 1)[n] = p(n)[n] /\ p(n)[n] \in Nat
  <2>1. n <= n + 1 /\ n <= n /\ n + 1 \in Nat
    OBVIOUS
  <2> QED
    BY <1>1, <2>1, PowersAgree
<1> QED
  BY <1>2, <1>3, <1>4, <1>5

LEMMA Scales ==
  ASSUME NEW a \in Nat, NEW b \in Nat, NEW c \in Nat, a <= b
  PROVE  a * c <= b * c
OBVIOUS

\* Whole rounds of so many probes, the last not yet complete.
LEMMA RoundsBelow ==
  ASSUME NEW n \in Nat, NEW d \in Nat, d > 0, NEW q \in Nat, NEW s \in Nat, s < d,
         n <= q * d + s
  PROVE  n \div d \in 0 .. q
<1> DEFINE r == n \div d
<1>1. r \in Nat /\ r * d <= n
  OBVIOUS
<1> HIDE DEF r
<1>2. ASSUME r >= q + 1
      PROVE  FALSE
  <2>1. (q + 1) * d <= r * d
    BY <1>1, <1>2, Scales
  <2>2. (q + 1) * d = q * d + d
    OBVIOUS
  <2>3. q * d \in Nat /\ r * d \in Nat
    BY <1>1
  <2> QED
    BY <1>1, <2>1, <2>2, <2>3
<1>3. r \in 0 .. q
  BY <1>1, <1>2
<1> QED
  BY <1>3 DEF r

\* A bracket of this width is what q rounds leave of one that wide, or less.
Narrowed(width, whole, q) ==
  \A r \in 0 .. q : width * Power(4, r) <= whole * Power(3, r)

LEMMA NarrowedAtFirst ==
  ASSUME NEW width \in Nat, NEW whole \in Nat, width <= whole
  PROVE  Narrowed(width, whole, 0)
<1>1. Power(4, 0) = 1 /\ Power(3, 0) = 1
  BY PowerIs
<1> QED
  BY <1>1 DEF Narrowed

LEMMA NarrowedStays ==
  ASSUME NEW width \in Nat, NEW whole \in Nat, NEW q \in Nat, NEW less \in Nat,
         Narrowed(width, whole, q), less <= width
  PROVE  Narrowed(less, whole, q)
<1> SUFFICES ASSUME NEW r \in 0 .. q
             PROVE  less * Power(4, r) <= whole * Power(3, r)
  BY DEF Narrowed
<1>1. Power(4, r) \in Nat /\ Power(3, r) \in Nat
  <2>1. r \in Nat /\ 4 \in Nat /\ 3 \in Nat
    OBVIOUS
  <2> QED
    BY <2>1, PowerIs
<1>2. less * Power(4, r) <= width * Power(4, r)
  BY <1>1, Scales
<1>3. width * Power(4, r) <= whole * Power(3, r)
  BY DEF Narrowed
<1>4. less * Power(4, r) \in Nat /\ width * Power(4, r) \in Nat /\ whole * Power(3, r) \in Nat
  BY <1>1
<1> QED
  BY <1>2, <1>3, <1>4

LEMMA NarrowedFurther ==
  ASSUME NEW width \in Nat, NEW whole \in Nat, NEW q \in Nat, NEW less \in Nat,
         Narrowed(width, whole, q), less <= width, width <= whole, less * 4 <= width * 3
  PROVE  Narrowed(less, whole, q + 1)
<1> SUFFICES ASSUME NEW r \in 0 .. q + 1
             PROVE  less * Power(4, r) <= whole * Power(3, r)
  BY DEF Narrowed
<1>1. CASE r = 0
  <2>1. Power(4, 0) = 1 /\ Power(3, 0) = 1
    BY PowerIs
  <2> QED
    BY <1>1, <2>1
<1>2. CASE r # 0
  <2> DEFINE k == r - 1
             a == Power(4, k)
             b == Power(3, k)
  <2>1. k \in Nat /\ k \in 0 .. q /\ r = k + 1
    BY <1>2
  <2> HIDE DEF k
  <2>2. a \in Nat /\ b \in Nat /\ Power(4, r) = 4 * a /\ Power(3, r) = 3 * b
    BY <2>1, PowerIs
  <2>3. width * a <= whole * b
    BY <2>1 DEF Narrowed
  <2> HIDE DEF a, b
  <2>4. (less * 4) * a <= (width * 3) * a
    BY <2>2, Scales
  <2>5. /\ less * (4 * a) = (less * 4) * a
        /\ (width * 3) * a = 3 * (width * a)
        /\ whole * (3 * b) = 3 * (whole * b)
    BY <2>2
  <2>6. width * a \in Nat /\ whole * b \in Nat
    BY <2>2
  <2> QED
    BY <2>2, <2>3, <2>4, <2>5, <2>6
<1> QED
  BY <1>1, <1>2

\* What a probe leaves of the bracket, it leaves whole rounds narrower: every
\* StallsBeforeBisection + 1 probes are a round, one of them not a stall.
Headway ==
  /\ probes \in Nat
  /\ pc \in {"peak", "newest", "seed"} => probes = 0
  /\ pc = "search" =>
       \E q \in Nat : /\ probes <= q * (StallsBeforeBisection + 1) + stalls
                      /\ Narrowed(high - low, peak, q)

NoRound ==
  pc = "search" => /\ 0 <= 0 * (StallsBeforeBisection + 1) + stalls
                   /\ Narrowed(high - low, peak, 0)

LEMMA OpeningIsNoRound == Inv => NoRound
<1> SUFFICES ASSUME Inv, pc = "search"
             PROVE  /\ 0 <= 0 * (StallsBeforeBisection + 1) + stalls
                    /\ Narrowed(high - low, peak, 0)
  BY DEF NoRound
<1>1. /\ low \in Heights /\ high \in Heights /\ low <= high /\ stalls \in Nat
      /\ peak \in Heights /\ high <= peak
  BY DEF Inv, TypeOK, WalkInv, Walking
<1>2. /\ high - low \in Nat /\ peak \in Nat /\ high - low <= peak
      /\ 0 <= 0 * (StallsBeforeBisection + 1) + stalls
  BY <1>1, HeightAssumption, StallsAssumption DEF Heights
<1> QED
  BY <1>2, NarrowedAtFirst

LEMMA HeadwayOpens ==
  ASSUME Inv, Headway, CountedNext,
         ReadSeed \/ SearchUnseeded \/ SeedBounds \/ SeedRejected \/ SeedUnreadable
  PROVE  Headway'
<1>1. pc \in {"newest", "seed"} /\ probes' = 0
  BY DEF ReadSeed, SearchUnseeded, SeedBounds, SeedRejected, SeedUnreadable, Headway,
         CountedNext, SearchLower, SearchUpper
<1>2. Inv' /\ pc' \in {"seed", "search", "answer"}
  <2>1. Inv'
    BY SearchSteps DEF SearchStep
  <2>2. pc' \in {"seed", "search", "answer"}
    BY DEF ReadSeed, SearchUnseeded, SeedBounds, SeedRejected, SeedUnreadable, Loop
  <2> QED
    BY <2>1, <2>2
<1>3. CASE pc' = "search"
  <2>1. NoRound'
    BY <1>2, <1>3, OpeningIsNoRound, PTL
  <2>2. /\ probes' <= 0 * (StallsBeforeBisection + 1) + stalls'
        /\ Narrowed(high' - low', peak', 0)
    BY <1>1, <1>3, <2>1 DEF NoRound
  <2> QED
    BY <1>1, <1>3, <2>2 DEF Headway
<1>4. CASE pc' # "search"
  BY <1>1, <1>4 DEF Headway
<1> QED
  BY <1>3, <1>4

LEMMA HeadwayGoesOn ==
  ASSUME Inv, Headway, pc = "search", probes' = probes + 1,
         NEW lo \in Heights, NEW hi \in Heights, lo <= hi, low <= lo, hi <= high,
         NEW b, NEW a, Loop(lo, hi, b, a, StallsAfter(lo, hi))
  PROVE  Headway'
<1>1. /\ low \in Nat /\ high \in Nat /\ lo \in Nat /\ hi \in Nat /\ peak \in Nat
      /\ low <= high /\ high <= peak /\ stalls \in Nat /\ probes \in Nat
      /\ StallsBeforeBisection \in Nat
  BY HeightAssumption, StallsAssumption
  DEF Inv, TypeOK, WalkInv, Walking, Heights, Headway
<1>2. PICK q \in Nat : /\ probes <= q * (StallsBeforeBisection + 1) + stalls
                       /\ Narrowed(high - low, peak, q)
  BY DEF Headway
<1>3. /\ low' = lo /\ high' = hi /\ peak' = peak /\ stalls' = StallsAfter(lo, hi)
      /\ pc' \in {"search", "answer"}
  BY DEF Loop
<1>4. /\ high - low \in Nat /\ hi - lo \in Nat /\ hi - lo <= high - low
      /\ high - low <= peak
  BY <1>1
<1> DEFINE round == StallsBeforeBisection + 1
<1>5. round \in Nat /\ q * round \in Nat /\ (q + 1) * round = q * round + round
  BY <1>1
<1>6. CASE (hi - lo) * 4 > (high - low) * 3
  <2>1. stalls' = stalls + 1
    BY <1>3, <1>6 DEF StallsAfter
  <2>2. probes' <= q * round + stalls'
    BY <1>1, <1>2, <1>5, <2>1
  <2>3. Narrowed(hi - lo, peak, q)
    BY <1>1, <1>2, <1>4, NarrowedStays
  <2> QED
    BY <1>1, <1>3, <2>2, <2>3 DEF Headway
<1>7. CASE ~((hi - lo) * 4 > (high - low) * 3)
  <2>1. stalls' = 0 /\ (hi - lo) * 4 <= (high - low) * 3
    BY <1>3, <1>4, <1>7 DEF StallsAfter
  <2>2. stalls <= StallsBeforeBisection
    BY DEF Inv, StallsBounded
  <2>3. probes' <= (q + 1) * round + stalls'
    BY <1>1, <1>2, <1>5, <2>1, <2>2
  <2>4. Narrowed(hi - lo, peak, q + 1)
    BY <1>1, <1>2, <1>4, <2>1, NarrowedFurther
  <2>5. q + 1 \in Nat
    OBVIOUS
  <2> QED
    BY <1>1, <1>3, <2>3, <2>4, <2>5 DEF Headway
<1> QED
  BY <1>6, <1>7

LEMMA HeadwayKept == Inv /\ Headway /\ [CountedNext]_countedVars => Headway'
<1> SUFFICES ASSUME Inv, Headway, [CountedNext]_countedVars PROVE Headway'
  OBVIOUS
<1>1. CASE UNCHANGED countedVars
  BY <1>1 DEF countedVars, vars, walkVars, seedVars, Headway, Narrowed
<1>2. CASE CountedNext /\ (SearchLower \/ SearchUpper)
  <2>1. /\ pc = "search" /\ probes' = probes + 1
        /\ low \in Heights /\ high \in Heights /\ from \in Heights
        /\ low <= from /\ from < high
    BY <1>2 DEF CountedNext, SearchLower, SearchUpper, Inv, TypeOK, ProbeInBracket
  <2>2. CASE SearchLower
    <3>1. Loop(low, from, below, Witness, StallsAfter(low, from))
      BY <2>2 DEF SearchLower
    <3>2. low <= low /\ from <= high
      BY <2>1, HeightAssumption DEF Heights
    <3> QED
      BY <2>1, <3>1, <3>2, HeadwayGoesOn
  <2>3. CASE SearchUpper
    <3>1. PICK b : Loop(from + 1, high, b, above, StallsAfter(from + 1, high))
      BY <2>3 DEF SearchUpper
    <3>2. /\ from + 1 \in Heights /\ from + 1 <= high /\ low <= from + 1
          /\ high <= high
      BY <2>1, HeightAssumption DEF Heights
    <3> QED
      BY <2>1, <3>1, <3>2, HeadwayGoesOn
  <2> QED
    BY <1>2, <2>2, <2>3
<1>3. CASE CountedNext /\ SearchStep /\ ~(SearchLower \/ SearchUpper)
  BY <1>3, HeadwayOpens DEF SearchStep
<1>4. CASE CountedNext /\ ~SearchStep
  <2>1. probes' = probes
    BY <1>4 DEF CountedNext, SearchStep
  <2>2. \/ pc' \in {"answer", "done"}
        \/ pc \in {"peak", "newest", "seed"} /\ pc' \in {"peak", "newest", "seed"}
        \/ UNCHANGED <<pc, low, high, peak, stalls>>
    BY <1>4, StepCases
    DEF CountedNext, ReadPeak, StepDown, EpochNotBegun, AnswerRead, Refuses, Finish,
        StartWalk, ChainMoves, Grow, Reorg, search, walkVars, seedVars
  <2> QED
    BY <2>1, <2>2 DEF Headway, Narrowed
<1> QED
  BY <1>1, <1>2, <1>3, <1>4

LEMMA HeadwaySuffices == Inv /\ Headway => HeadwayGuaranteed
<1> SUFFICES ASSUME Inv, Headway, pc = "search"
             PROVE  (high - low) * Power(4, probes \div (StallsBeforeBisection + 1))
                      <= peak * Power(3, probes \div (StallsBeforeBisection + 1))
  BY DEF HeadwayGuaranteed
<1>1. PICK q \in Nat : /\ probes <= q * (StallsBeforeBisection + 1) + stalls
                       /\ Narrowed(high - low, peak, q)
  BY DEF Headway
<1>2. /\ probes \in Nat /\ stalls \in Nat /\ StallsBeforeBisection + 1 \in Nat
      /\ StallsBeforeBisection + 1 > 0 /\ stalls < StallsBeforeBisection + 1
  BY StallsAssumption DEF Headway, Inv, TypeOK, StallsBounded
<1>3. probes \div (StallsBeforeBisection + 1) \in 0 .. q
  BY <1>1, <1>2, RoundsBelow
<1> QED
  BY <1>1, <1>3 DEF Narrowed

\* However a source's timestamps bend the interpolation, and whatever it
\* changes them to between reads, every StallsBeforeBisection + 1 probes leave
\* at most three quarters of the bracket: a search takes a number of probes
\* logarithmic in the peak.
THEOREM HeadwayIsMade == CountedSpec => []HeadwayGuaranteed
<1>1. CountedInit => Inv /\ Headway
  BY InitInv DEF CountedInit, Init, WalkInit, Headway
<1>2. Inv /\ [CountedNext]_countedVars => Inv'
  BY InvInductive DEF CountedNext, countedVars
<1> QED
  BY <1>1, <1>2, HeadwayKept, HeadwaySuffices, PTL DEF CountedSpec
=============================================================================
