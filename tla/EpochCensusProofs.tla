-------------------------- MODULE EpochCensusProofs --------------------------
(***************************************************************************)
(* Proofs about the census of an epoch: a search for its height and a      *)
(* census at the height found, on one chain. Both are proved about where   *)
(* they are modelled, the search in CensusHeightProofs and the census in   *)
(* CensusProofs; what remains is that each keeps its invariant while the   *)
(* other takes its steps. The census height is a constant of the census    *)
(* and the result of the search: it is settled before the census begins.   *)
(***************************************************************************)
EXTENDS EpochCensus, CensusHeightProofs

\* The census again, with the lemmas about it.
Proved == INSTANCE CensusProofs WITH at <- FoundHeight, pc <- stage

(***************************************************************************)
(* The census of EpochCensus is the one that CensusProofs is about.        *)
(***************************************************************************)
LEMMA SameFiniteSets ==
  /\ \A S : IsFiniteSet(S) => Proved!IsFiniteSet(S)
  /\ \A S : Cens!Cardinality(S) = Proved!Cardinality(S)
<1>1. \A S : IsFiniteSet(S) => Proved!IsFiniteSet(S)
  BY Zenon DEF IsFiniteSet, Proved!IsFiniteSet
<1>2. \A S : Cens!Cardinality(S) = Proved!Cardinality(S)
  BY Zenon DEF Cens!Cardinality, Proved!Cardinality
<1> QED
  BY <1>1, <1>2

LEMMA SameSums ==
  \A f, S : Cens!SumFunctionOnSet(f, S) = Proved!SumFunctionOnSet(f, S)
BY Zenon DEF Cens!SumFunctionOnSet, Cens!FoldFunctionOnSet, Cens!MapThenFoldSet,
             Proved!SumFunctionOnSet, Proved!FoldFunctionOnSet, Proved!MapThenFoldSet

LEMMA SameAssumptions ==
  /\ Proved!CoinAssumption
  /\ Proved!BoundAssumption
  /\ Proved!EpochAssumption
  /\ Proved!SuspectAssumption
  /\ Proved!KindAssumption
  /\ Proved!FinalityAssumption
BY SameFiniteSets, CoinAssumption, BoundAssumption, EpochAssumption, SuspectAssumption,
   KindAssumption, FinalityAssumption, HeightAssumption, ReorgAssumption
DEF Proved!CoinAssumption, Proved!BoundAssumption, Proved!EpochAssumption,
    Proved!SuspectAssumption, Proved!KindAssumption, Proved!FinalityAssumption

\* What a source may list and say is the same to both, and so is the screening.
LEMMA SameScreen ==
  /\ \A report : Cens!Screened(report) = Proved!Screened(report)
  /\ Cens!Reports \subseteq Proved!Reports
  /\ Cens!Listings = Proved!Listings
  /\ \A listing, report :
       Cens!Misreported(listing, report) = Proved!Misreported(listing, report)
<1> USE DEF Cens!Born, Proved!Born, Cens!NoHeight, Proved!NoHeight, Cens!Asked,
            Proved!Asked, Cens!Confirmed, Proved!Confirmed, Cens!Suspected,
            Proved!Suspected
<1>1. \A c, claim : Cens!FailedRules(c, claim) = Proved!FailedRules(c, claim)
  BY DEF Cens!FailedRules, Proved!FailedRules
<1>2. Cens!ScreenRules = Proved!ScreenRules
  BY DEF Cens!ScreenRules, Proved!ScreenRules
<1>3. \A c, claim : Cens!Failed(c, claim) = Proved!Failed(c, claim)
  BY <1>1, <1>2 DEF Cens!Failed, Proved!Failed
<1>4. \A c, claim : Cens!Kept(c, claim) <=> Proved!Kept(c, claim)
  BY <1>3 DEF Cens!Kept, Proved!Kept
<1>5. \A c, claim : Cens!FirstFailed(c, claim) = Proved!FirstFailed(c, claim)
  BY <1>2, <1>3 DEF Cens!FirstFailed, Proved!FirstFailed, Cens!Min, Proved!Min
<1>6. \A report : Cens!Screened(report) = Proved!Screened(report)
  BY <1>4, <1>5 DEF Cens!Screened, Proved!Screened
<1>7. \A c : Cens!Truth(c) = Proved!Truth(c)
  BY DEF Cens!Truth, Proved!Truth
<1>8. \A c, claim : Cens!Truthful(c, claim) <=> Proved!Truthful(c, claim)
  BY DEF Cens!Truthful, Proved!Truthful
<1>9. Cens!Claims = Proved!Claims
  BY DEF Cens!Claims, Proved!Claims
<1>10. Cens!Reports \subseteq Proved!Reports
  <2> SUFFICES ASSUME NEW report \in Cens!Reports PROVE report \in Proved!Reports
    OBVIOUS
  <2>1. PICK claims \in [Cens!Suspected -> Cens!Claims] :
          report = [c \in Coins |-> IF c \in Cens!Suspected THEN claims[c] ELSE Cens!Truth(c)]
    BY DEF Cens!Reports
  <2>2. report = [c \in Coins |->
                    IF c \in Proved!Suspected THEN claims[c] ELSE Proved!Truth(c)]
    BY <1>7, <2>1
  <2>3. claims \in [Proved!Suspected -> Proved!Claims]
    BY <1>9, <2>1
  <2> QED
    BY <2>2, <2>3 DEF Proved!Reports
<1>11. Cens!Listings = Proved!Listings
  BY DEF Cens!Listings, Proved!Listings
<1>12. \A listing, report :
         Cens!Misreported(listing, report) = Proved!Misreported(listing, report)
  BY <1>8 DEF Cens!Misreported, Proved!Misreported
<1> QED
  BY <1>6, <1>10, <1>11, <1>12

LEMMA SameReadRecords == Cens!ReadRecords => Proved!ReadRecords
<1> SUFFICES ASSUME Cens!ReadRecords PROVE Proved!ReadRecords
  OBVIOUS
<1>1. /\ stage = "records"
      /\ IF Proved!OverBound(Proved!Listed(todo')) THEN Proved!Return(Proved!Incomplete)
                                                   ELSE stage' = "spends" /\ UNCHANGED outcome
      /\ UNCHANGED <<Proved!facts, Proved!chain, spends, selected, executed>>
  BY SameFiniteSets
  DEF Cens!ReadRecords, Cens!OverBound, Proved!OverBound, Cens!ParentsOf, Proved!ParentsOf,
      Cens!Listed, Proved!Listed, Cens!Return, Proved!Return, Cens!Incomplete,
      Proved!Incomplete, Cens!facts, Proved!facts, Cens!chain, Proved!chain
<1>2. Cens!Rules = Proved!Rules
  BY DEF Cens!Rules, Proved!Rules, Cens!Range, Proved!Range, Cens!ScreenRules,
         Proved!ScreenRules, Cens!JudgeRules, Proved!JudgeRules
<1>3. \A f : Cens!SumFunction(f) = Proved!SumFunction(f)
  BY SameSums DEF Cens!SumFunction, Proved!SumFunction
<1>4. PICK report \in Cens!Reports, listing \in Cens!Listings :
        LET verdict == Cens!Screened(report)
            Under(r) == {c \in Coins : verdict[c] = r}
        IN  /\ examined' = Cens!SumFunction(listing)
            /\ todo' = [c \in Coins |-> IF verdict[c] = "kept" THEN listing[c] ELSE 0]
            /\ excluded' = [r \in Cens!Rules |-> Cens!SumFunctionOnSet(listing, Under(r))]
            /\ lies' = [lies EXCEPT !.record = Cens!Misreported(listing, report)]
  BY DEF Cens!ReadRecords
<1>5. /\ report \in Proved!Reports /\ listing \in Proved!Listings
      /\ Cens!Screened(report) = Proved!Screened(report)
      /\ Cens!Misreported(listing, report) = Proved!Misreported(listing, report)
  BY SameScreen
<1>6. LET verdict == Proved!Screened(report)
          Under(r) == {c \in Coins : verdict[c] = r}
      IN  /\ examined' = Proved!SumFunction(listing)
          /\ todo' = [c \in Coins |-> IF verdict[c] = "kept" THEN listing[c] ELSE 0]
          /\ excluded' = [r \in Proved!Rules |-> Proved!SumFunctionOnSet(listing, Under(r))]
          /\ lies' = [lies EXCEPT !.record = Proved!Misreported(listing, report)]
  BY <1>2, <1>3, <1>4, <1>5, SameSums
<1> QED
  BY <1>1, <1>5, <1>6 DEF Proved!ReadRecords

\* Each definition of the one instance is that definition of the other.
LEMMA SameCensus ==
  /\ Cens!Init => Proved!Init
  /\ Cens!Step => Proved!Step
  /\ Cens!Extend => Proved!Extend
  /\ Cens!Reorg => Proved!Reorg
  /\ Proved!FinalIsIdeal => Cens!FinalIsIdeal
<1> USE SameFiniteSets, SameSums
        DEF Cens!Refuse, Proved!Refuse, Cens!Return, Proved!Return,
            Cens!facts, Proved!facts, Cens!chain, Proved!chain, Cens!pass,
            Proved!pass, Cens!Malformed, Proved!Malformed, Cens!Unavailable,
            Proved!Unavailable, Cens!FinalAtPeak, Proved!FinalAtPeak,
            Cens!Pending, Proved!Pending, Cens!Listings, Proved!Listings,
            Cens!Asked, Proved!Asked, Cens!Confirmed, Proved!Confirmed,
            Cens!Born, Proved!Born, Cens!NoHeight, Proved!NoHeight,
            Cens!SumFunction, Proved!SumFunction, Cens!Kept, Proved!Kept,
            Cens!Failed, Proved!Failed, Cens!ScreenRules, Proved!ScreenRules,
            Cens!FailedRules, Proved!FailedRules, Cens!Rules, Proved!Rules,
            Cens!Range, Proved!Range, Cens!JudgeRules, Proved!JudgeRules,
            Cens!FirstFailed, Proved!FirstFailed, Cens!Min, Proved!Min,
            Cens!OverBound, Proved!OverBound, Cens!ParentsOf,
            Proved!ParentsOf, Cens!Listed, Proved!Listed, Cens!Incomplete,
            Proved!Incomplete, Cens!Candidate, Proved!Candidate,
            Cens!Malforms, Proved!Malforms, Cens!Cached, Proved!Cached,
            Cens!Executing, Proved!Executing, Cens!Judged, Proved!Judged,
            Cens!Excluding, Proved!Excluding, Cens!Authenticate,
            Proved!Authenticate, Cens!Execute, Proved!Execute, Cens!CoinsOf,
            Proved!CoinsOf, Cens!Readout, Proved!Readout, Cens!Unreadable,
            Proved!Unreadable, Cens!Disqualify, Proved!Disqualify,
            Cens!WrongEpoch, Proved!WrongEpoch, Cens!Unattributed,
            Proved!Unattributed, Cens!Qualified, Proved!Qualified,
            Cens!Triple, Proved!Triple, Cens!Representing,
            Proved!Representing, Cens!Contest, Proved!Contest,
            Cens!Supersedes, Proved!Supersedes, Cens!Locked, Proved!Locked,
            Cens!Totals, Proved!Totals, Cens!Final, Proved!Final,
            Cens!SelectedOwners, Proved!SelectedOwners, Cens!WellDated,
            Proved!WellDated, Cens!Heights, Proved!Heights, Cens!Rewritten,
            Proved!Rewritten, Cens!Buried, Proved!Buried, Cens!Adverts,
            Proved!Adverts, Cens!IsInjective, Proved!IsInjective,
            Cens!Unanswered, Proved!Unanswered, Cens!CountedTriples,
            Proved!CountedTriples, Cens!Advertises, Proved!Advertises,
            Cens!Counted, Proved!Counted, Cens!Survivors, Proved!Survivors,
            Cens!LockedAt, Proved!LockedAt, Cens!TotalStake,
            Proved!TotalStake, Cens!Stake, Proved!Stake, Cens!Max, Proved!Max,
            Cens!Backing, Proved!Backing, Cens!history, Proved!history,
            Cens!Claims, Proved!Claims, Cens!Screened, Proved!Screened,
            Cens!Truth, Proved!Truth, Cens!Truthful, Proved!Truthful,
            Cens!Suspected, Proved!Suspected, Cens!Reports, Proved!Reports,
            Cens!Misreported, Proved!Misreported, Cens!Genuine,
            Proved!Genuine, Cens!SpendAnswers, Proved!SpendAnswers,
            Cens!RevealMatches, Proved!RevealMatches, Cens!Misread,
            Proved!Misread, Cens!Remembers, Proved!Remembers,
            Cens!DoesNotDecode, Proved!DoesNotDecode, Cens!LiedAbout,
            Proved!LiedAbout
<1>1. Cens!TerminalEpoch => Proved!TerminalEpoch
  BY DEF Cens!TerminalEpoch, Proved!TerminalEpoch
<1>2. Cens!PeakUnavailable => Proved!PeakUnavailable
  BY DEF Cens!PeakUnavailable, Proved!PeakUnavailable
<1>3. Cens!ReadPeakPending => Proved!ReadPeakPending
  BY DEF Cens!ReadPeakPending, Proved!ReadPeakPending
<1>4. Cens!ReadPeakFinal => Proved!ReadPeakFinal
  BY DEF Cens!ReadPeakFinal, Proved!ReadPeakFinal
<1>5. Cens!RecordsUnavailable => Proved!RecordsUnavailable
  BY DEF Cens!RecordsUnavailable, Proved!RecordsUnavailable
<1>6. Cens!ReadRecords => Proved!ReadRecords
  BY SameReadRecords
<1>7. Cens!SpendMalformed => Proved!SpendMalformed
  BY DEF Cens!SpendMalformed, Proved!SpendMalformed
<1>8. Cens!SpendUnanswered => Proved!SpendUnanswered
  BY DEF Cens!SpendUnanswered, Proved!SpendUnanswered
<1>9. Cens!JudgeUnreadable => Proved!JudgeUnreadable
  BY DEF Cens!JudgeUnreadable, Proved!JudgeUnreadable
<1>10. Cens!JudgeWrongEpoch => Proved!JudgeWrongEpoch
  BY DEF Cens!JudgeWrongEpoch, Proved!JudgeWrongEpoch
<1>11. Cens!JudgeUnattributed => Proved!JudgeUnattributed
  BY DEF Cens!JudgeUnattributed, Proved!JudgeUnattributed
<1>12. Cens!Select => Proved!Select
  BY DEF Cens!Select, Proved!Select
<1>13. Cens!Contend => Proved!Contend
  BY DEF Cens!Contend, Proved!Contend
<1>14. Cens!Total => Proved!Total
  BY DEF Cens!Total, Proved!Total
<1>15. Cens!Extend => Proved!Extend
  BY DEF Cens!Extend, Proved!Extend
<1>16. Cens!Reorg => Proved!Reorg
  BY DEF Cens!Reorg, Proved!Reorg
<1>17. Cens!Init => Proved!Init
  BY DEF Cens!Init, Proved!Init
<1>18. Proved!FinalIsIdeal => Cens!FinalIsIdeal
  BY DEF Cens!FinalIsIdeal, Proved!FinalIsIdeal
<1>19. Cens!Step => Proved!Step
  BY <1>1, <1>2, <1>3, <1>4, <1>5, <1>6, <1>7, <1>8, <1>9, <1>10, <1>11, <1>12, <1>13,
     <1>14
  DEF Cens!Step, Proved!Step
<1> QED
  BY <1>15, <1>16, <1>17, <1>18, <1>19

(***************************************************************************)
(* The invariant. Before the census starts its height may still change,    *)
(* and nothing it holds depends on that; it starts once a height is found. *)
(***************************************************************************)
EpochInv ==
  /\ Inv
  /\ BuriedInv
  /\ Proved!CensusInv
  /\ Proved!OwnerInv
  /\ Proved!Undecided
  /\ stage # "peak" => result.kind = "found"

LEMMA InitEpochInv == EpochInit => EpochInv
<1> SUFFICES ASSUME EpochInit PROVE EpochInv
  OBVIOUS
<1>1. Inv /\ BuriedInv
  BY InitInv, WalkInitRefines DEF EpochInit, Init
<1>2. Proved!Init
  BY SameCensus DEF EpochInit
<1>3. Proved!CensusInv /\ Proved!OwnerInv
  BY <1>2, SameAssumptions, Proved!InitCensusInv, Proved!InitOwnerInv
<1>4. Proved!Undecided /\ stage = "peak"
  BY <1>2 DEF Proved!Init, Proved!Undecided
<1> QED
  BY <1>1, <1>3, <1>4 DEF EpochInv

\* What is found is a height.
LEMMA FoundHeightIsHeight == Inv => FoundHeight \in Heights
<1> SUFFICES ASSUME Inv PROVE FoundHeight \in Heights
  OBVIOUS
<1>1. result \in Refusals \union {NotYet, Unanswered}
                 \union {Found(h, t) : h \in Heights, t \in Timestamps}
  BY DEF Inv, TypeOK
<1> QED
  BY <1>1, HeightAssumption
  DEF FoundHeight, Found, Refusals, NotYet, Unanswered, SourceFailed, RunExhausted,
      TimestampsChanged, Heights

\* A search step is taken only before the census begins.
LEMMA SearchStepKeeps ==
  ASSUME EpochInv, SearchStep
  PROVE  EpochInv'
<1>1. Inv' /\ BuriedInv'
  BY InvInductive, BuriedInductive DEF EpochInv, SearchStep, Next
<1>2. pc # "done" /\ UNCHANGED chain
  BY DEF SearchStep, Step, ReadPeak, PeakUnavailable, StepDown, ReadFails, EpochNotBegun,
         OpenBracket, SearchLower, SearchUpper, AnswerRead, Finish, Loop, Walking
<1>3. result = Unanswered
  BY <1>2 DEF EpochInv, Inv, WalkInv
<1>4. stage = "peak"
  BY <1>3 DEF EpochInv, Unanswered
<1>5. UNCHANGED <<stage, spends, selected, outcome, lies, coin, kind, made, spent, prior, tip>>
  BY <1>2 DEF SearchStep, census, coins, chain
<1>6. FoundHeight' \in Heights
  <2>1. (Inv => FoundHeight \in Heights)'
    BY FoundHeightIsHeight, PTL
  <2> QED
    BY <1>1, <2>1
<1>7. Proved!Ground'
  BY <1>5, <1>6
  DEF EpochInv, Proved!CensusInv, Proved!Ground, Proved!Population, Proved!Heights,
      Proved!NoHeight, Heights
<1>8. Proved!CensusInv'
  BY <1>4, <1>5, <1>7 DEF EpochInv, Proved!CensusInv, Proved!Untruths
<1>9. Proved!OwnerInv'
  BY <1>5
  DEF EpochInv, Proved!OwnerInv, Proved!Population, Proved!Untruths, Proved!OwnersAreProven
<1>10. Proved!Undecided'
  BY <1>5 DEF EpochInv, Proved!Undecided
<1> QED
  BY <1>1, <1>4, <1>5, <1>8, <1>9, <1>10 DEF EpochInv

\* The steps of the census and of the chain it counts are the steps that
\* CensusProofs treats, and the height it is given does not change.
LEMMA CensusKeeps ==
  ASSUME EpochInv, [Proved!Next]_(Proved!vars)
  PROVE  Proved!CensusInv' /\ Proved!OwnerInv' /\ Proved!Undecided'
BY SameAssumptions, Proved!NextKeepsCensusInv, Proved!NextKeepsOwnerInv,
   Proved!NextKeepsUndecided
DEF EpochInv

LEMMA CensusStepKeeps ==
  ASSUME EpochInv, CensusStep
  PROVE  EpochInv'
<1>1. Proved!Step
  BY SameCensus DEF CensusStep
<1>2. Proved!CensusInv' /\ Proved!OwnerInv' /\ Proved!Undecided'
  BY <1>1, CensusKeeps DEF Proved!Next
<1>3. Inv' /\ BuriedInv' /\ result' = result
  BY InvInductive, BuriedInductive DEF EpochInv, CensusStep, walkVars
<1> QED
  BY <1>2, <1>3 DEF EpochInv, CensusStep

LEMMA ChainMovesKeep ==
  ASSUME EpochInv, ChainGrows \/ ChainReorganises
  PROVE  EpochInv'
<1>1. Proved!Extend \/ Proved!Reorg
  BY SameCensus DEF ChainGrows, ChainReorganises
<1>2. Proved!CensusInv' /\ Proved!OwnerInv' /\ Proved!Undecided'
  BY <1>1, CensusKeeps DEF Proved!Next
<1>3. ChainMoves
  BY DEF ChainGrows, ChainReorganises, ChainMoves
<1>4. Inv' /\ BuriedInv'
  BY <1>3, InvInductive, BuriedInductive DEF EpochInv, Next
<1>5. UNCHANGED <<stage, result>>
  BY <1>1, <1>3 DEF Proved!Extend, Proved!Reorg, ChainMoves, Grow, Reorg, search
<1> QED
  BY <1>2, <1>4, <1>5 DEF EpochInv

LEMMA NextKeepsEpochInv == EpochInv /\ [EpochNext]_epochVars => EpochInv'
<1> SUFFICES ASSUME EpochInv, [EpochNext]_epochVars PROVE EpochInv'
  OBVIOUS
<1>1. CASE UNCHANGED epochVars
  <2>1. UNCHANGED walkVars /\ UNCHANGED census /\ UNCHANGED coins
    BY <1>1 DEF epochVars
  <2>2. UNCHANGED Proved!vars
    BY <2>1 DEF walkVars, census, coins, FoundHeight, Proved!vars, Proved!facts,
                Proved!chain, Proved!pass, Proved!history
  <2>3. Proved!CensusInv' /\ Proved!OwnerInv' /\ Proved!Undecided'
    BY <2>2, CensusKeeps
  <2>4. Inv' /\ BuriedInv'
    BY <2>1, InvInductive, BuriedInductive DEF EpochInv
  <2> QED
    BY <2>1, <2>3, <2>4 DEF EpochInv, walkVars, census
<1> QED
  BY <1>1, SearchStepKeeps, CensusStepKeeps, ChainMovesKeep DEF EpochNext

LEMMA EpochInvariance == EpochSpec => []EpochInv
BY InitEpochInv, NextKeepsEpochInv, PTL DEF EpochSpec

\* A final census counts what the chain holds at the height it was given,
\* although the search that found the height and the census read the chain at
\* different times, and it still does however the chain moves after it;
\* provided that the source said nothing untrue of any coin.
THEOREM FinalCensusStaysIdeal == EpochSpec => []FinalStaysIdeal
<1>1. EpochInv => FinalStaysIdeal
  BY SameAssumptions, Proved!CensusInvSuffices, SameCensus DEF EpochInv, FinalStaysIdeal
<1> QED
  BY <1>1, EpochInvariance, PTL

\* Nodes agree on an epoch: whatever each read and when, two of them that take
\* a final census of an epoch whose height was buried take it at that height,
\* and count the same unless a source said something untrue of a coin.
THEOREM FinalCensusIsOfItsEpoch == EpochSpec => []FinalIsOfItsEpoch
<1>1. EpochInv => FinalIsOfItsEpoch
  <2> SUFFICES ASSUME EpochInv, outcome.kind = "final", NEW h \in Heights,
                      Buried(h, peak), IsCensusHeight(ledger, start, h)
               PROVE  FoundHeight = h /\ Cens!FinalIsIdeal
    BY DEF FinalIsOfItsEpoch
  <2>1. stage # "peak"
    BY DEF EpochInv, Proved!Undecided, Proved!Unanswered
  <2>2. result.kind = "found" /\ pc = "done"
    BY <2>1 DEF EpochInv, Inv, WalkInv, Unanswered
  <2>3. result \in {Found(h, ledger[h])} \union Refusals
    BY <2>2, BuriedInvSuffices DEF EpochInv, Inv, BuriedAnswer
  <2>4. FoundHeight = h
    BY <2>2, <2>3 DEF FoundHeight, Found, Refusals, SourceFailed, RunExhausted,
                      TimestampsChanged
  <2>5. Cens!FinalIsIdeal
    BY SameAssumptions, Proved!CensusInvSuffices, SameCensus DEF EpochInv
  <2> QED
    BY <2>4, <2>5
<1> QED
  BY <1>1, EpochInvariance, PTL
=============================================================================
