---------------------------- MODULE MCEpochCensus ----------------------------
(***************************************************************************)
(* EpochCensus with one coin, created and spent by any of the blocks.      *)
(***************************************************************************)
EXTENDS EpochCensus

CONSTANTS o, r, pa
MCInit ==
  /\ WalkInit
  /\ coin = [c \in Coins |-> [parent |-> pa, amount |-> 2, foreign |-> FALSE]]
  /\ kind = [x \in Parents |-> o]
  /\ prior = [epoch |-> 1, required |-> 2]
  /\ advert = [c \in Coins |-> [root |-> r, epoch |-> 1, proven |-> TRUE]]
  /\ spent = [c \in Coins |-> NoHeight]
  /\ made \in [Parents -> {NoHeight, 0}]
  /\ EpochInit

MCSpec == MCInit /\ [][EpochNext]_epochVars
=============================================================================
