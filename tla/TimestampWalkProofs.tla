------------------------ MODULE TimestampWalkProofs ------------------------
(***************************************************************************)
(* Facts about the chain and the walk of TimestampWalk that the proofs of  *)
(* both searches rest on. They hold for every width of a height, every     *)
(* bound on a walk and every depth of reorganisation.                      *)
(***************************************************************************)
EXTENDS TimestampWalk, TLAPS

ChainTypeOK ==
  /\ ledger \in Answers
  /\ Monotone(ledger)
  /\ tip \in Heights
  /\ start \in Starts

\* Whatever the chain does, what was buried stays as it was.
LEMMA ChainMovesKeepBuried ==
  ASSUME ChainTypeOK, ChainMoves
  PROVE  /\ ChainTypeOK'
         /\ tip <= tip'
         /\ \A h \in Heights : Buried(h, tip) => ledger'[h] = ledger[h]
<1>1. CASE Grow
  <2>1. PICK block \in Timestamps \union {NoTimestamp} :
           ledger' = [ledger EXCEPT ![tip + 1] = block]
    BY <1>1 DEF Grow
  <2>2. tip' \in Heights /\ tip < tip' /\ start' = start
    BY <1>1, HeightAssumption DEF Grow, ChainTypeOK, Heights
  <2>3. ledger' \in Answers
    BY <2>1 DEF ChainTypeOK, Answers
  <2>4. ASSUME NEW h \in Heights, Buried(h, tip)
        PROVE  ledger'[h] = ledger[h]
    BY <2>1, <2>4, ReorgAssumption, HeightAssumption
    DEF Buried, ChainTypeOK, Heights, Answers
  <2> QED
    BY <1>1, <2>2, <2>3, <2>4 DEF Grow, ChainTypeOK, Heights
<1>2. CASE Reorg
  BY <1>2 DEF Reorg, ChainTypeOK, Heights
<1> QED
  BY <1>1, <1>2 DEF ChainMoves

\* A block buried under an old peak is buried under every later tip, and so
\* are the blocks below it.
LEMMA BuriedBelow ==
  ASSUME NEW p \in Heights, NEW t \in Heights, p <= t,
         NEW h \in Heights, Buried(h, p),
         NEW g \in Heights, g <= h
  PROVE  Buried(g, t) /\ g <= p
BY ReorgAssumption, HeightAssumption DEF Buried, Heights

\* The census height is settled once it is buried: a chain that moves agrees
\* with the chain before it on which buried block it is.
LEMMA CensusHeightSettled ==
  ASSUME ChainTypeOK, ChainMoves,
         NEW p \in Heights, p <= tip,
         NEW h \in Heights, Buried(h, p),
         IsCensusHeight(ledger', start', h)
  PROVE  IsCensusHeight(ledger, start, h) /\ ledger'[h] = ledger[h]
<1>1. start' = start
  BY DEF ChainMoves, Grow, Reorg
<1>2. \A g \in Heights : g <= h => ledger'[g] = ledger[g]
  BY ChainMovesKeepBuried, BuriedBelow DEF ChainTypeOK
<1> QED
  BY <1>1, <1>2, HeightAssumption DEF IsCensusHeight, AtOrAfter, Dated, Heights

(***************************************************************************)
(* The invariant of every step a search takes: where the walk is and what  *)
(* bracket it serves. Each search proves it of itself; what follows here   *)
(* is what the shared steps do under it.                                   *)
(***************************************************************************)
Opened == pc \notin {"peak", "newest", "done"}

WalkInv ==
  /\ ChainTypeOK
  /\ peak \in Heights \union {NoHeight}
  /\ low \in Heights
  /\ high \in Heights
  /\ low <= high
  /\ from \in Heights
  /\ probe \in Heights
  /\ peak # NoHeight => peak <= tip
  /\ pc # "done" => result = Unanswered
  /\ pc = "peak" => peak = NoHeight /\ low = 0 /\ high = 0
  /\ pc = "done" /\ peak = NoHeight => result \in Refusals
  /\ Walking => peak # NoHeight /\ probe <= from /\ from <= peak /\ high <= peak
  /\ pc = "newest" => from = peak
  /\ pc = "answer" => from = low /\ low = high

\* A step of a search that opens a bracket and begins the next walk in it.
Enters(lo, hi) ==
  /\ low' = lo
  /\ high' = hi
  /\ pc' \notin {"peak", "newest", "done"}
  /\ probe' = from'
  /\ UNCHANGED <<chain, start, peak, result>>

\* A step of a search that ends it, refusing, for a reason of its own.
Refuses ==
  /\ pc = "peak" \/ Walking
  /\ \E r \in Refusals :
        /\ Finish(r)
        /\ r = SourceFailed \/ (r = RunExhausted /\ Walking /\ Exhausted)

LEMMA PeakUnavailableRefuses == PeakUnavailable => Refuses
BY DEF PeakUnavailable, Refuses, Refusals

LEMMA ChainMovesKeepWalkInv == WalkInv /\ ChainMoves => WalkInv'
<1> SUFFICES ASSUME WalkInv, ChainMoves PROVE WalkInv'
  OBVIOUS
<1>1. ChainTypeOK' /\ tip <= tip' /\ tip \in Heights
  BY ChainMovesKeepBuried DEF WalkInv, ChainTypeOK
<1>2. UNCHANGED search
  BY DEF ChainMoves, Grow, Reorg
<1>3. peak # NoHeight => peak <= tip'
  BY <1>1, HeightAssumption DEF WalkInv, ChainTypeOK, Heights, NoHeight
<1> QED
  BY <1>1, <1>2, <1>3 DEF WalkInv, search, Walking

\* The results differ from one another and from having none.
LEMMA ResultsDiffer ==
  /\ \A h, t : Found(h, t) # Unanswered /\ Found(h, t) # NotYet
  /\ \A h, t : Found(h, t) \notin Refusals
  /\ Unanswered \notin Refusals \union {NotYet}
  /\ NotYet \notin Refusals
BY DEF Found, Unanswered, NotYet, Refusals, SourceFailed, RunExhausted,
       TimestampsChanged

(***************************************************************************)
(* The census height a search looks for, when it is buried under the peak  *)
(* the search has read: it stays in the bracket, and a walk that began at  *)
(* or above it does not come down past it.                                 *)
(***************************************************************************)
Target(h) ==
  peak # NoHeight /\ Buried(h, peak) /\ IsCensusHeight(ledger, start, h)

Bracketed(h) ==
  /\ Walking => (h <= from => h <= probe)
  /\ Opened => low <= h /\ h <= high
  /\ pc = "done" => result \in {Found(h, ledger[h])} \union Refusals

BuriedInv == \A h \in Heights : Target(h) => Bracketed(h)

\* A walk that ends at or above the census height found a block at or after
\* the epoch start.
LEMMA WalkAboveReaches ==
  ASSUME ChainTypeOK, probe \in Heights, WalkEnds,
         NEW h \in Heights, IsCensusHeight(ledger, start, h), h <= probe
  PROVE  Reached
<1>1. Dated(ledger, probe)
  BY HeightAssumption DEF WalkEnds, IsCensusHeight, AtOrAfter, Heights
<1>2. ledger[h] <= ledger[probe] /\ start <= ledger[h]
  BY <1>1 DEF ChainTypeOK, Monotone, IsCensusHeight, AtOrAfter
<1>3. start \in Nat /\ ledger[h] \in Nat /\ ledger[probe] \in Nat
  BY <1>1, TimestampAssumption
  DEF ChainTypeOK, Answers, IsCensusHeight, AtOrAfter, Dated
<1> QED
  BY <1>1, <1>2, <1>3 DEF Reached, AtOrAfter

\* What a finished walk says of where the target is.
LEMMA UnreachedIsBelowTarget ==
  ASSUME WalkInv, BuriedInv, Walking, WalkEnds, ~Reached,
         NEW h \in Heights, Target(h)
  PROVE  from < h
<1>1. h <= from => h <= probe
  BY DEF BuriedInv, Bracketed
<1>2. ~(h <= probe)
  BY WalkAboveReaches DEF WalkInv, Target
<1> QED
  BY <1>1, <1>2, HeightAssumption DEF WalkInv, Heights

LEMMA ReachedIsAboveTarget ==
  ASSUME WalkInv, Walking, Reached, NEW h \in Heights, Target(h)
  PROVE  h <= from
<1>1. h <= probe
  BY HeightAssumption DEF Reached, Target, IsCensusHeight, WalkInv, Heights
<1> QED
  BY <1>1, HeightAssumption DEF WalkInv, Heights

LEMMA TargetBelowPeak ==
  ASSUME WalkInv, NEW h \in Heights, Target(h)
  PROVE  peak \in Heights /\ 0 <= h /\ h <= peak
BY BuriedBelow, HeightAssumption DEF WalkInv, Target, Heights

LEMMA EntersKeepsBuried ==
  ASSUME NEW lo, NEW hi, Enters(lo, hi),
         \A h \in Heights : Target(h) => lo <= h /\ h <= hi
  PROVE  BuriedInv'
<1> SUFFICES ASSUME NEW h \in Heights, Target(h)' PROVE Bracketed(h)'
  BY DEF BuriedInv
<1>1. Target(h)
  BY DEF Enters, chain, Target, Buried, IsCensusHeight, AtOrAfter, Dated
<1> QED
  BY <1>1 DEF Enters, Bracketed, Walking, Opened

\* Every step the two searches share keeps the target in sight.
LEMMA SharedStepsKeepBuried ==
  ASSUME WalkInv, BuriedInv,
         \/ ReadPeak \/ StepDown \/ EpochNotBegun \/ AnswerRead
         \/ Refuses \/ ChainMoves \/ UNCHANGED walkVars
  PROVE  BuriedInv'
<1> SUFFICES ASSUME NEW h \in Heights, Target(h)' PROVE Bracketed(h)'
  BY DEF BuriedInv
<1>a. ASSUME UNCHANGED <<chain, start, peak>> PROVE Target(h) /\ Bracketed(h)
  BY <1>a DEF BuriedInv, Target, chain, Buried, IsCensusHeight, AtOrAfter, Dated
<1>1. CASE ReadPeak
  BY <1>1 DEF ReadPeak, StartWalk, Bracketed, Walking, Opened
<1>2. CASE StepDown
  <2>1. Target(h) /\ Bracketed(h) /\ ~Dated(ledger, probe)
    BY <1>2, <1>a DEF StepDown, WalkEnds
  <2>2. probe # h
    BY <2>1 DEF Target, IsCensusHeight, AtOrAfter
  <2> QED
    BY <1>2, <2>1, <2>2, HeightAssumption
    DEF StepDown, Bracketed, Walking, Opened, Heights, WalkInv
<1>3. CASE EpochNotBegun
  \* The newest block the walk found would be at or above h.
  <2>1. Walking /\ Target(h) /\ from = peak
    BY <1>3, <1>a DEF EpochNotBegun, Finish, WalkInv, Walking
  <2>2. from < h /\ h <= peak
    BY <1>3, <2>1, UnreachedIsBelowTarget, TargetBelowPeak DEF EpochNotBegun
  <2> QED
    BY <2>1, <2>2, HeightAssumption DEF Heights, WalkInv
<1>4. CASE AnswerRead
  <2>1. Target(h) /\ Bracketed(h) /\ Walking /\ Opened
    BY <1>4, <1>a DEF AnswerRead, Finish, Walking, Opened
  <2>2. h = from /\ h <= probe /\ probe <= from
    BY <1>4, <2>1, HeightAssumption DEF AnswerRead, Bracketed, WalkInv, Heights
  <2>3. probe = h /\ Dated(ledger, probe)
    BY <2>1, <2>2, HeightAssumption
    DEF Target, IsCensusHeight, AtOrAfter, Heights, WalkInv
  <2> QED
    BY <1>4, <2>3 DEF AnswerRead, Finish, Bracketed, Walking, Opened, Reply, chain
<1>5. CASE Refuses
  BY <1>5 DEF Refuses, Finish, Bracketed, Walking, Opened
<1>6. CASE ChainMoves
  <2>1. UNCHANGED search
    BY <1>6 DEF ChainMoves, Grow, Reorg
  <2>2. peak \in Heights /\ peak <= tip /\ Buried(h, peak)
    BY <2>1 DEF search, Target, WalkInv, Buried
  <2>3. IsCensusHeight(ledger, start, h) /\ ledger'[h] = ledger[h]
    BY <1>6, <2>2, CensusHeightSettled DEF WalkInv, Target
  <2>4. Bracketed(h)
    BY <2>2, <2>3 DEF BuriedInv, Target, NoHeight, Heights
  <2> QED
    BY <2>1, <2>3, <2>4 DEF Bracketed, search, Walking, Opened
<1>7. CASE UNCHANGED walkVars
  BY <1>7, <1>a DEF walkVars, Bracketed, Walking, Opened, chain
<1> QED
  BY <1>1, <1>2, <1>3, <1>4, <1>5, <1>6, <1>7

LEMMA BuriedInvSuffices == WalkInv /\ BuriedInv => BuriedAnswer
<1>1. ASSUME WalkInv, BuriedInv, pc = "done", peak # NoHeight,
             NEW h \in Heights, Buried(h, peak), IsCensusHeight(ledger, start, h)
      PROVE  result \in {Found(h, ledger[h])} \union Refusals
  BY <1>1 DEF BuriedInv, Bracketed, Target
\* A call that fails before it reads the peak only refuses.
<1>2. ASSUME WalkInv, pc = "done", peak = NoHeight
      PROVE  result \in Refusals
  BY <1>2 DEF WalkInv
<1> QED
  BY <1>1, <1>2 DEF BuriedAnswer

(***************************************************************************)
(* On a chain that only grows: nothing a search has passed over counts,    *)
(* and something in its bracket does. Then each of its steps is a step of  *)
(* HeightOracle.                                                           *)
(***************************************************************************)
Counts(h) == AtOrAfter(ledger, start, h)

SettledInv ==
  /\ Walking => \A g \in Heights : probe < g /\ g <= from => ~Dated(ledger, g)
  /\ Opened => /\ \A g \in Heights : g < low => ~Counts(g)
               /\ \E g \in Heights : g <= high /\ Counts(g)

\* A walk that ends before the epoch start shows that nothing up to the
\* height it began at counts.
LEMMA NothingUpToFrom ==
  ASSUME WalkInv, SettledInv, Walking, WalkEnds, ~Reached
  PROVE  \A g \in Heights : g <= from => ~Counts(g)
<1> SUFFICES ASSUME NEW g \in Heights, g <= from, Counts(g) PROVE FALSE
  OBVIOUS
<1>1. g <= probe /\ Dated(ledger, g) /\ probe \in Heights
  BY HeightAssumption DEF SettledInv, WalkInv, Counts, AtOrAfter, Heights
<1>2. Dated(ledger, probe)
  BY <1>1 DEF WalkEnds, Heights
<1>3. ledger[g] <= ledger[probe]
  BY <1>1, <1>2 DEF WalkInv, ChainTypeOK, Monotone
<1>4. start \in Nat /\ ledger[g] \in Nat /\ ledger[probe] \in Nat
  BY <1>1, <1>2, TimestampAssumption DEF WalkInv, ChainTypeOK, Answers, Dated
<1> QED
  BY <1>2, <1>3, <1>4 DEF Counts, AtOrAfter, Reached

LEMMA EntersKeepsSettled ==
  ASSUME NEW lo, NEW hi, Enters(lo, hi), from' \in Heights,
         \A g \in Heights : g < lo => ~Counts(g),
         \E g \in Heights : g <= hi /\ Counts(g)
  PROVE  SettledInv'
<1>1. \A g \in Heights : ~(probe' < g /\ g <= from')
  BY HeightAssumption DEF Enters, Heights
<1> QED
  BY <1>1 DEF Enters, SettledInv, Counts, AtOrAfter, Dated, chain

LEMMA SharedStepsKeepSettled ==
  ASSUME MaxReorg = 0, WalkInv, SettledInv,
         \/ ReadPeak \/ StepDown \/ EpochNotBegun \/ AnswerRead
         \/ Refuses \/ ChainMoves \/ UNCHANGED walkVars
  PROVE  SettledInv'
<1>1. CASE ReadPeak
  BY <1>1 DEF ReadPeak, StartWalk, SettledInv, Opened, Heights, WalkInv, ChainTypeOK
<1>2. CASE EpochNotBegun \/ AnswerRead \/ Refuses
  BY <1>2 DEF EpochNotBegun, AnswerRead, Refuses, Finish, SettledInv, Walking, Opened
<1>3. CASE StepDown
  BY <1>3, HeightAssumption
  DEF StepDown, WalkEnds, SettledInv, Walking, Opened, chain, Heights, WalkInv,
      Counts, AtOrAfter, Dated
<1>4. CASE ChainMoves
  <2>1. UNCHANGED search /\ UNCHANGED start
    BY <1>4 DEF ChainMoves, Grow, Reorg
  <2>2. ASSUME Walking, NEW g \in Heights, g <= peak
        PROVE  ledger'[g] = ledger[g]
    <3>1. Buried(g, tip)
      BY <2>2, HeightAssumption DEF Buried, WalkInv, ChainTypeOK, Heights, NoHeight
    <3> QED
      BY <1>4, <3>1, ChainMovesKeepBuried DEF WalkInv
  <2>3. Walking =>
          \A g \in Heights : g <= peak =>
            /\ Dated(ledger', g) <=> Dated(ledger, g)
            /\ Counts(g)' <=> Counts(g)
    BY <2>1, <2>2 DEF Dated, AtOrAfter, Counts
  <2>4. Walking => \A g \in Heights : g <= from \/ g <= high \/ g < low => g <= peak
    BY HeightAssumption DEF WalkInv, Heights, NoHeight
  <2>5. Opened => Walking
    BY DEF Walking, Opened
  <2> QED
    BY <2>1, <2>3, <2>4, <2>5 DEF SettledInv, search, Walking, Opened
<1>5. CASE UNCHANGED walkVars
  BY <1>5 DEF walkVars, SettledInv, Walking, Opened, Counts
<1> QED
  BY <1>1, <1>2, <1>3, <1>4, <1>5

\* Ending a search is an Answer or a Refuse of the oracle.
LEMMA FinishRefines ==
  ASSUME result = Unanswered, NEW r, Finish(r),
         r \in Refusals \/ (peak # NoHeight /\ Oracle!Correct(r))
  PROVE  Oracle!Next
BY DEF Finish, chain, Unanswered, NoHeight, Oracle!Next, Oracle!Answer, Oracle!Refuse,
       Oracle!Correct, Oracle!Unanswered, Oracle!NoHeight, Oracle!Found, Oracle!NotYet,
       Oracle!AtOrAfterStart

LEMMA EntersRefines ==
  ASSUME NEW lo, NEW hi, Enters(lo, hi) PROVE UNCHANGED Oracle!vars
BY DEF Enters, chain, Oracle!vars

LEMMA SharedStepsRefine ==
  ASSUME MaxReorg = 0, WalkInv, SettledInv,
         \/ ReadPeak \/ StepDown \/ EpochNotBegun \/ AnswerRead
         \/ Refuses \/ ChainMoves \/ UNCHANGED walkVars
  PROVE  [Oracle!Next]_(Oracle!vars)
<1> USE DEF Oracle!vars
<1>a. /\ low \in Heights /\ high \in Heights /\ from \in Heights /\ probe \in Heights
      /\ tip \in Heights
      /\ peak \in Heights \union {NoHeight}
  BY DEF WalkInv, ChainTypeOK
<1>1. CASE ReadPeak
  BY <1>1 DEF ReadPeak, chain, WalkInv, Oracle!Next, Oracle!LearnPeak,
              Oracle!NoHeight, Oracle!Unanswered, NoHeight, Unanswered
<1>2. CASE Refuses
  <2>1. result = Unanswered
    BY <1>2 DEF Refuses, Walking, WalkInv
  <2> QED
    BY <1>2, <2>1, FinishRefines DEF Refuses
<1>3. CASE StepDown
  BY <1>3 DEF StepDown, chain
<1>4. CASE EpochNotBegun
  <2>1. result = Unanswered /\ peak # NoHeight /\ from = peak /\ Walking
    BY <1>4 DEF EpochNotBegun, Walking, WalkInv
  <2>2. \A g \in Heights : g <= peak => ~Counts(g)
    BY <1>4, <2>1, NothingUpToFrom DEF EpochNotBegun
  <2>3. \A g \in 0 .. peak : ~Oracle!AtOrAfterStart(g)
    BY <2>1, <2>2, <1>a, HeightAssumption
    DEF Oracle!AtOrAfterStart, Counts, AtOrAfter, Dated, Heights
  <2>4. Oracle!Correct(NotYet)
    BY <2>3 DEF Oracle!Correct, Oracle!NotYet, NotYet
  <2> QED
    BY <1>4, <2>1, <2>4, FinishRefines DEF EpochNotBegun
<1>5. CASE AnswerRead
  \* The bracket has closed on the one height left that may count, so it does.
  <2>1. /\ result = Unanswered /\ peak # NoHeight /\ Walking /\ Opened
        /\ from = low /\ low = high /\ probe <= from /\ high <= peak
    BY <1>5 DEF AnswerRead, Walking, Opened, WalkInv
  <2>2. \A g \in Heights : g < low => ~Counts(g)
    BY <2>1 DEF SettledInv
  <2>3. Counts(low)
    BY <2>1, <2>2, <1>a, HeightAssumption DEF SettledInv, Heights
  <2>4. probe = low
    BY <2>1, <2>3, <1>a, HeightAssumption DEF SettledInv, Counts, AtOrAfter, Heights
  <2>5. Finish(Found(low, ledger[low]))
    BY <1>5, <2>3, <2>4 DEF AnswerRead, Counts, AtOrAfter, Reply
  <2>6. low \in 0 .. peak
    BY <2>1, <1>a, HeightAssumption DEF Heights
  <2>7. Oracle!AtOrAfterStart(low)
    BY <2>3 DEF Oracle!AtOrAfterStart, Counts, AtOrAfter, Dated
  <2>8. \A g \in 0 .. low - 1 : ~Oracle!AtOrAfterStart(g)
    BY <2>2, <1>a, HeightAssumption
    DEF Oracle!AtOrAfterStart, Counts, AtOrAfter, Dated, Heights
  <2>9. Oracle!Correct(Found(low, ledger[low]))
    BY <2>6, <2>7, <2>8 DEF Oracle!Correct, Oracle!Found, Found
  <2> QED
    BY <2>1, <2>5, <2>9, FinishRefines
<1>6. CASE ChainMoves
  <2>1. ChainTypeOK' /\ tip <= tip' /\ UNCHANGED search /\ start' = start
    BY <1>6, ChainMovesKeepBuried DEF WalkInv, ChainMoves, Grow, Reorg
  <2>2. \A h \in 0 .. tip : ledger'[h] = ledger[h]
    <3>1. \A h \in 0 .. tip : h \in Heights /\ Buried(h, tip)
      BY <1>a, HeightAssumption DEF Buried, Heights
    <3> QED
      BY <1>6, <3>1, ChainMovesKeepBuried DEF WalkInv
  <2> QED
    BY <2>1, <2>2, <1>a, HeightAssumption
    DEF ChainTypeOK, Answers, Heights, search, Oracle!Next, Oracle!Extend, Oracle!Heights
<1>7. CASE UNCHANGED walkVars
  BY <1>7 DEF walkVars
<1> QED
  BY <1>1, <1>2, <1>3, <1>4, <1>5, <1>6, <1>7

LEMMA WalkInitRefines == WalkInit => Oracle!Init /\ SettledInv /\ BuriedInv
BY DEF WalkInit, Answers, Heights, NoHeight, Unanswered, SettledInv, BuriedInv, Target,
       Walking, Opened, Oracle!Init, Oracle!Heights, Oracle!NoHeight, Oracle!Unanswered

(***************************************************************************)
(* Nor does a search refuse such a chain for a reason it does not have.    *)
(***************************************************************************)
LongRun ==
  \E h \in Heights : /\ h + MaxRun <= peak
                     /\ \A g \in h .. h + MaxRun : ~Dated(ledger, g)

Warranted == result # TimestampsChanged /\ (result = RunExhausted => LongRun)

\* The run that ends a walk was walked over, and lies below the peak.
LEMMA ExhaustedWalkedLongRun ==
  ASSUME WalkInv, SettledInv, Walking, Exhausted
  PROVE  LongRun
<1>1. /\ probe \in Heights /\ from \in Heights /\ tip \in Heights
      /\ from <= peak /\ peak <= tip /\ peak \in Heights
  BY DEF WalkInv, ChainTypeOK
<1>2. probe + MaxRun <= from /\ ~Dated(ledger, probe)
  BY <1>1, RunAssumption, HeightAssumption DEF Exhausted, WalkEnds, Heights
<1>3. ASSUME NEW g \in probe .. probe + MaxRun
      PROVE  ~Dated(ledger, g)
  <2>1. g \in Heights /\ (g = probe \/ probe < g) /\ g <= from
    BY <1>1, <1>2, RunAssumption, HeightAssumption DEF Heights
  <2> QED
    BY <1>2, <2>1 DEF SettledInv
<1>4. probe + MaxRun <= peak
  BY <1>1, <1>2, RunAssumption, HeightAssumption DEF Heights
<1> QED
  BY <1>1, <1>3, <1>4 DEF LongRun

\* The bracket has closed on the one height left that may count, so it does.
LEMMA AnswerIsDated ==
  ASSUME WalkInv, SettledInv, AnswerRead
  PROVE  Dated(ledger, probe)
<1>1. /\ Walking /\ Opened /\ from = low /\ low = high /\ probe <= from
      /\ low \in Heights /\ probe \in Heights
  BY DEF AnswerRead, Walking, Opened, WalkInv
<1>2. Counts(low)
  BY <1>1, HeightAssumption DEF SettledInv, Heights
<1>3. probe = low
  BY <1>1, <1>2, HeightAssumption DEF SettledInv, Counts, AtOrAfter, Heights
<1> QED
  BY <1>2, <1>3 DEF Counts, AtOrAfter

LEMMA EntersKeepsWarranted ==
  ASSUME NEW lo, NEW hi, Enters(lo, hi), Warranted PROVE Warranted'
BY DEF Enters, Warranted, LongRun, Dated, chain

LEMMA SharedStepsKeepWarranted ==
  ASSUME MaxReorg = 0, WalkInv, SettledInv, Warranted,
         \/ ReadPeak \/ StepDown \/ EpochNotBegun \/ AnswerRead
         \/ Refuses \/ ChainMoves \/ UNCHANGED walkVars
  PROVE  Warranted'
<1>1. CASE ReadPeak \/ StepDown \/ UNCHANGED walkVars
  <2>1. CASE ReadPeak
    BY <2>1 DEF ReadPeak, WalkInv, Warranted, Unanswered, TimestampsChanged, RunExhausted
  <2>2. CASE StepDown \/ UNCHANGED walkVars
    BY <2>2 DEF StepDown, walkVars, chain, Warranted, LongRun, Dated
  <2> QED
    BY <1>1, <2>1, <2>2
<1>2. CASE EpochNotBegun
  BY <1>2 DEF EpochNotBegun, Finish, Warranted, NotYet, TimestampsChanged, RunExhausted
<1>3. CASE AnswerRead
  <2>1. result' = Found(probe, Reply)
    BY <1>3, AnswerIsDated DEF AnswerRead, Finish
  <2> QED
    BY <2>1 DEF Warranted, Found, TimestampsChanged, RunExhausted
<1>4. CASE Refuses
  <2>1. PICK r \in Refusals :
          Finish(r) /\ (r = SourceFailed \/ (r = RunExhausted /\ Walking /\ Exhausted))
    BY <1>4 DEF Refuses
  <2>2. r # TimestampsChanged /\ (r = RunExhausted => LongRun)
    BY <2>1, ExhaustedWalkedLongRun DEF SourceFailed, RunExhausted, TimestampsChanged
  <2>3. result' = r /\ UNCHANGED <<ledger, peak>>
    BY <2>1 DEF Finish, chain
  <2> QED
    BY <2>2, <2>3 DEF Warranted, LongRun, Dated
<1>5. CASE ChainMoves
  <2>1. UNCHANGED <<peak, result>>
    BY <1>5 DEF ChainMoves, Grow, Reorg, search
  <2>2. ASSUME NEW h \in Heights, h + MaxRun <= peak,
               NEW g \in h .. h + MaxRun, ~Dated(ledger, g)
        PROVE  ~Dated(ledger', g)
    <3>1. peak \in Heights /\ peak <= tip /\ tip \in Heights
      BY <2>2, RunAssumption DEF WalkInv, ChainTypeOK, NoHeight, Heights
    <3>2. g \in Heights /\ Buried(g, tip)
      BY <2>2, <3>1, RunAssumption, HeightAssumption DEF Buried, Heights
    <3> QED
      BY <1>5, <2>2, <3>2, ChainMovesKeepBuried DEF WalkInv, Dated
  <2>3. LongRun => LongRun'
    BY <2>1, <2>2 DEF LongRun
  <2> QED
    BY <2>1, <2>3 DEF Warranted
<1> QED
  BY <1>1, <1>2, <1>3, <1>4, <1>5

LEMMA WarrantedSuffices ==
  Warranted => ChangeReportedOnlyIfChanged /\ ExhaustedOnlyByLongRun
BY DEF Warranted, LongRun, ChangeReportedOnlyIfChanged, ExhaustedOnlyByLongRun

LEMMA WalkInitWarranted == WalkInit => Warranted
BY DEF WalkInit, Warranted, Unanswered, TimestampsChanged, RunExhausted

(***************************************************************************)
(* The reads of a call.                                                    *)
(***************************************************************************)
\* No walk has come further down than its bound.
WalkShort == Walking => from - probe <= MaxRun

LEMMA Budget ==
  ASSUME NEW k \in Nat, NEW a \in Nat, NEW b \in Nat, a < b
  PROVE  k * a + k <= k * b /\ k * a \in Nat /\ k * b \in Nat
<1>1. k * (a + 1) = k * a + k /\ k * a \in Nat /\ k * b \in Nat
  OBVIOUS
<1>2. b = (a + 1) + (b - (a + 1)) /\ b - (a + 1) \in Nat
  OBVIOUS
<1>3. ASSUME NEW d \in Nat, b = (a + 1) + d
      PROVE  k * b = k * (a + 1) + k * d /\ k * d \in Nat
  BY <1>3
<1> QED
  BY <1>1, <1>2, <1>3

LEMMA WalksAreLeft ==
  ASSUME WalkInv, Walking
  PROVE  WalksLeft \in Nat /\ WalksLeft <= MaxHeight + 2
<1>1. /\ low \in Nat /\ high \in Nat /\ low <= high
      /\ peak \in Nat /\ peak <= MaxHeight /\ high <= peak
  BY HeightAssumption DEF WalkInv, Heights
<1> QED
  BY <1>1, HeightAssumption DEF WalksLeft

LEMMA WalkingReadsLeft ==
  ASSUME WalkInv, WalkShort, Walking
  PROVE  /\ ReadsLeft = WalkLength * WalksLeft + WalkLength - (from - probe)
         /\ WalkLength \in Nat /\ WalksLeft \in Nat
         /\ WalkLength * WalksLeft \in Nat
         /\ from - probe \in 0 .. MaxRun
<1>1. WalkLength \in Nat
  BY RunAssumption DEF WalkLength
<1>2. WalksLeft \in Nat
  BY WalksAreLeft
<1>3. ReadsLeft = WalkLength * WalksLeft + WalkLength - (from - probe)
  BY DEF ReadsLeft, Walking
<1>4. from - probe \in 0 .. MaxRun
  BY HeightAssumption, RunAssumption DEF WalkInv, WalkShort, Heights
<1> QED
  BY <1>1, <1>2, <1>3, <1>4

LEMMA ReadsAreLeft == WalkInv /\ WalkShort => ReadsLeft \in Nat
<1> SUFFICES ASSUME WalkInv, WalkShort PROVE ReadsLeft \in Nat
  OBVIOUS
<1>1. CASE Walking
  BY <1>1, WalkingReadsLeft, RunAssumption DEF WalkLength
<1>2. CASE pc = "peak"
  <2>1. WalkLength \in Nat /\ MaxHeight + 3 \in Nat
    BY RunAssumption, HeightAssumption DEF WalkLength
  <2>2. WalkLength * (MaxHeight + 3) \in Nat
    BY <2>1
  <2> QED
    BY <1>2, <2>2 DEF ReadsLeft
<1>3. CASE pc = "done"
  BY <1>3 DEF ReadsLeft
<1> QED
  BY <1>1, <1>2, <1>3 DEF Walking

WalkingBudget ==
  Walking => /\ ReadsLeft = WalkLength * WalksLeft + WalkLength - (from - probe)
             /\ WalksLeft \in Nat

LEMMA WalkingIsBudgeted == WalkInv /\ WalkShort => WalkingBudget
BY WalkingReadsLeft DEF WalkingBudget

\* A walk that begins with fewer walks left has fewer reads left.
LEMMA EntersRunsOut ==
  ASSUME WalkInv, WalkShort, Walking, WalkInv', NEW lo, NEW hi, Enters(lo, hi),
         WalksLeft' < WalksLeft
  PROVE  WalkShort' /\ ReadsLeft' < ReadsLeft
<1>1. probe' = from' /\ from' \in Heights /\ Walking'
  BY DEF Enters, Walking, WalkInv
<1>2. from' - probe' = 0
  <2>1. \A h \in Heights : h - h = 0
    BY HeightAssumption DEF Heights
  <2> QED
    BY <1>1, <2>1
<1>3. WalkShort'
  BY <1>2, RunAssumption DEF WalkShort
<1>4. /\ ReadsLeft' = WalkLength * WalksLeft' + WalkLength - (from' - probe')
      /\ WalksLeft' \in Nat
  <2>1. WalkingBudget'
    BY <1>3, WalkingIsBudgeted, PTL
  <2> QED
    BY <1>1, <2>1 DEF WalkingBudget
<1>5. /\ ReadsLeft = WalkLength * WalksLeft + WalkLength - (from - probe)
      /\ WalkLength \in Nat /\ WalksLeft \in Nat /\ from - probe \in 0 .. MaxRun
  BY WalkingReadsLeft
<1>6. /\ WalkLength * WalksLeft' + WalkLength <= WalkLength * WalksLeft
      /\ WalkLength * WalksLeft' \in Nat /\ WalkLength * WalksLeft \in Nat
  BY <1>4, <1>5, Budget
<1> QED
  BY <1>2, <1>3, <1>4, <1>5, <1>6, RunAssumption DEF WalkLength

LEMMA FinishRunsOut ==
  ASSUME WalkInv, WalkShort, pc # "done", NEW r, Finish(r)
  PROVE  WalkShort' /\ ReadsLeft' < ReadsLeft
<1>1. pc' = "done" /\ WalkShort' /\ ReadsLeft' = 0
  BY DEF Finish, WalkShort, Walking, ReadsLeft
<1>2. ReadsLeft \in Nat /\ ReadsLeft # 0
  <2>1. CASE Walking
    BY <2>1, WalkingReadsLeft, RunAssumption DEF WalkLength
  <2>2. CASE pc = "peak"
    <3>1. WalkLength \in Nat /\ MaxHeight + 3 \in Nat
      BY RunAssumption, HeightAssumption DEF WalkLength
    <3>2. WalkLength * (MaxHeight + 3) \in Nat
      BY <3>1
    <3> QED
      BY <2>2, <3>2 DEF ReadsLeft
  <2> QED
    BY <2>1, <2>2 DEF Walking
<1> QED
  BY <1>1, <1>2

LEMMA ReadPeakRunsOut ==
  ASSUME WalkInv, WalkShort, ReadPeak
  PROVE  WalkShort' /\ ReadsLeft' < ReadsLeft
<1>1. /\ pc = "peak" /\ pc' = "newest" /\ peak' = tip /\ from' = tip /\ probe' = tip
      /\ tip \in Nat /\ tip <= MaxHeight
  BY HeightAssumption DEF ReadPeak, StartWalk, WalkInv, ChainTypeOK, Heights
<1>2. WalkLength \in Nat /\ MaxHeight + 3 \in Nat /\ tip - tip = 0
  BY <1>1, RunAssumption, HeightAssumption DEF WalkLength
<1>3. ReadsLeft = WalkLength * (MaxHeight + 3) + 1
  BY <1>1 DEF ReadsLeft
<1>4. ReadsLeft' = WalkLength * (tip + 2) + WalkLength - (tip - tip)
  BY <1>1 DEF ReadsLeft, WalksLeft
<1>5. tip + 2 \in Nat /\ tip + 2 < MaxHeight + 3
  BY <1>1, HeightAssumption
<1>6. /\ WalkLength * (tip + 2) + WalkLength <= WalkLength * (MaxHeight + 3)
      /\ WalkLength * (tip + 2) \in Nat /\ WalkLength * (MaxHeight + 3) \in Nat
  BY <1>2, <1>5, Budget
<1>7. WalkLength * (tip + 2) + WalkLength - (tip - tip) < WalkLength * (MaxHeight + 3) + 1
  BY <1>2, <1>6
<1>8. WalkShort'
  BY <1>1, <1>2, RunAssumption DEF WalkShort
<1> QED
  BY <1>3, <1>4, <1>7, <1>8

LEMMA StepDownRunsOut ==
  ASSUME WalkInv, WalkShort, StepDown
  PROVE  WalkShort' /\ ReadsLeft' < ReadsLeft
<1>1. /\ Walking /\ Walking' /\ from - probe < MaxRun
      /\ from \in Nat /\ probe \in Nat /\ probe' = probe - 1
      /\ UNCHANGED <<pc, peak, low, high, from>>
  BY HeightAssumption, RunAssumption
  DEF StepDown, Exhausted, WalkInv, Walking, Heights
<1>2. WalksLeft' = WalksLeft
  BY <1>1 DEF WalksLeft
<1>3. from - (probe - 1) = (from - probe) + 1 /\ from - (probe - 1) <= MaxRun
  BY <1>1, RunAssumption
<1>4. WalkShort'
  BY <1>1, <1>3 DEF WalkShort
<1>5. /\ ReadsLeft = WalkLength * WalksLeft + WalkLength - (from - probe)
      /\ WalkLength \in Nat /\ WalkLength * WalksLeft \in Nat
  BY <1>1, WalkingReadsLeft
<1>6. ReadsLeft' = WalkLength * WalksLeft + WalkLength - (from - (probe - 1))
  BY <1>1, <1>2 DEF ReadsLeft, Walking
<1>7. WalkLength * WalksLeft + WalkLength - (from - (probe - 1))
        < WalkLength * WalksLeft + WalkLength - (from - probe)
  BY <1>1, <1>5
<1> QED
  BY <1>4, <1>5, <1>6, <1>7

LEMMA SharedStepsRunOut ==
  ASSUME WalkInv, WalkShort,
         \/ ReadPeak \/ StepDown \/ EpochNotBegun \/ AnswerRead
         \/ Refuses \/ ChainMoves \/ UNCHANGED walkVars
  PROVE  WalkShort' /\ (ReadsLeft' < ReadsLeft \/ UNCHANGED search)
<1>1. CASE ReadPeak
  BY <1>1, ReadPeakRunsOut
<1>2. CASE StepDown
  BY <1>2, StepDownRunsOut
<1>3. CASE EpochNotBegun \/ AnswerRead \/ Refuses
  <2>1. pc # "done" /\ \E r : Finish(r)
    BY <1>3 DEF EpochNotBegun, AnswerRead, Refuses, Walking
  <2> QED
    BY <2>1, FinishRunsOut
<1>4. CASE ChainMoves \/ UNCHANGED walkVars
  <2>1. UNCHANGED search
    BY <1>4 DEF ChainMoves, Grow, Reorg, search, walkVars
  <2> QED
    BY <2>1 DEF search, WalkShort, Walking
<1> QED
  BY <1>1, <1>2, <1>3, <1>4
=============================================================================
