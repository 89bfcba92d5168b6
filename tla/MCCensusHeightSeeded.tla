------------------------ MODULE MCCensusHeightSeeded ------------------------
(***************************************************************************)
(* CountedSearch on two families of chains, with every seed: short ones    *)
(* that grow during the search and have undated heights anywhere, and long *)
(* ones that are complete when it begins and bend, so that interpolation   *)
(* stalls: every height carries a timestamp, which steps up at two heights. *)
(***************************************************************************)
EXTENDS CountedSearch

CONSTANT ShortTip  \* the height up to which a short chain grows

GrowingInit ==
  /\ start \in Starts
  /\ \E blocks \in [0 .. ShortTip -> Timestamps \union {NoTimestamp}] :
        ledger = [h \in Heights |-> IF h <= ShortTip THEN blocks[h] ELSE NoTimestamp]
  /\ tip \in 0 .. ShortTip
  /\ CountedInit
  /\ seed <= ShortTip

\* Timestamps early before height i, start from i on, and late from j on.
Bend(i, j, early, late) ==
  [h \in Heights |-> IF h < i THEN early ELSE IF h < j THEN start ELSE late]

BentInit ==
  /\ start \in Starts
  /\ \E i, j \in Heights, early, late \in Timestamps :
        /\ early < start /\ start < late
        /\ ledger = Bend(i, j, early, late)
  /\ tip = MaxHeight
  /\ CountedInit

MCNext == CountedNext /\ (tip' = tip \/ tip' <= ShortTip)

MCSpec == (GrowingInit \/ BentInit) /\ [][MCNext]_countedVars
=============================================================================
