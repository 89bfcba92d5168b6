----------------------------- MODULE EpochCensus -----------------------------
(***************************************************************************)
(* How a node takes the census of an epoch (src/census.rs): census_height  *)
(* finds the height, and census counts at the height it found, on the one  *)
(* chain that both read and that moves before, between and during the two  *)
(* calls. A CensusHeight is a plain value: census compares it with the     *)
(* peak and never with the block that it was found by.                     *)
(***************************************************************************)
EXTENDS CensusHeight, FiniteSets

CONSTANTS
  Coins, Parents, Suspects, ClaimedHeights, Owners, Roots, Epochs, Amounts,
  MaxRecords, FinalityDepth, MaxSpends, MaxLocked, MaxEpoch, Coinbase, Garbled, NotAMirror

\* As in Census; FinalityAssumption ties the finality depth to the chain of
\* this module.
ASSUME CoinAssumption ==
  Coins \subseteq Nat /\ IsFiniteSet(Coins) /\ Amounts \subseteq Nat
ASSUME BoundAssumption == {MaxRecords, FinalityDepth, MaxSpends, MaxLocked} \subseteq Nat
ASSUME EpochAssumption == Epochs \subseteq Nat /\ MaxEpoch \in Nat
ASSUME SuspectAssumption ==
  Suspects \subseteq Parents /\ ClaimedHeights \subseteq 0 .. MaxHeight
ASSUME KindAssumption == Coinbase # Garbled /\ {Coinbase, Garbled} \cap Owners = {}
ASSUME FinalityAssumption == MaxReorg <= FinalityDepth

VARIABLES
  coin, kind, advert, made, spent,  \* the coins on the chain
  prior,                            \* the prior EpochRecord
  stage,                            \* which read of the census is under way
  todo, spends, selected, excluded, examined, outcome, executed, lies

census == <<stage, todo, spends, selected, excluded, examined, outcome, executed, lies>>
coins == <<coin, kind, advert, made, spent, prior>>
epochVars == <<walkVars, census, coins>>

\* The height that the census is handed, once there is one.
FoundHeight == IF result.kind = "found" THEN result.height ELSE 0

Cens == INSTANCE Census WITH at <- FoundHeight, pc <- stage

\* Coins are created and spent by transaction blocks.
WellBlocked ==
  /\ \A p \in Parents : made[p] # NoHeight => Dated(ledger, made[p])
  /\ \A c \in Coins : spent[c] # NoHeight => Dated(ledger, spent[c])

EpochInit == Init /\ Cens!Init /\ WellBlocked

SearchStep == Step /\ UNCHANGED <<census, coins>>

\* census is called with the height the search found, at any later time.
CensusStep ==
  /\ result.kind = "found"
  /\ UNCHANGED walkVars
  /\ Cens!Step

ChainGrows == Grow /\ Cens!Extend /\ WellBlocked'

ChainReorganises == Reorg /\ Cens!Reorg /\ WellBlocked'

EpochNext == SearchStep \/ CensusStep \/ ChainGrows \/ ChainReorganises

EpochSpec == EpochInit /\ [][EpochNext]_epochVars

(***************************************************************************)
(* Properties.                                                             *)
(***************************************************************************)
\* What is reported final stays final: whatever blocks are added or undone
\* between the two calls, between any two reads and ever after, a final census
\* is the census of the chain at the height it was given, also if that height
\* was found by a search of blocks that are gone; provided that the source
\* said nothing untrue of any coin.
FinalStaysIdeal == Cens!FinalIsIdeal

\* Nodes agree on an epoch: if its census height was out of the reach of a
\* reorganisation when the search began, a final census is taken at that very
\* height, whatever the chain does between and during the two calls, and after
\* them; and it counts what the chain holds there unless the source said
\* something untrue of a coin.
FinalIsOfItsEpoch ==
  outcome.kind = "final" =>
    \A h \in Heights :
      Buried(h, peak) /\ IsCensusHeight(ledger, start, h) =>
        FoundHeight = h /\ Cens!FinalIsIdeal
=============================================================================
