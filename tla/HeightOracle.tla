---------------------------- MODULE HeightOracle ----------------------------
(***************************************************************************)
(* What a census-height search promises on a chain that only grows: it     *)
(* learns the peak once, and then answers in a single step, either with    *)
(* the first transaction block at or after the epoch start, or with "not   *)
(* yet" when the chain it learned of has none, or it refuses. Neither the  *)
(* reads it makes nor any hint it is given appear here: they may cost work *)
(* and never choose the answer.                                            *)
(***************************************************************************)
EXTENDS Integers

CONSTANTS MaxHeight, Timestamps, Starts, NoTimestamp, Refusals

VARIABLES ledger, tip, start, peak, result

vars == <<ledger, tip, start, peak, result>>

Heights == 0 .. MaxHeight
NoHeight == -1

Found(h, t) == [kind |-> "found", height |-> h, timestamp |-> t]
NotYet == [kind |-> "not_yet"]
Unanswered == [kind |-> "unanswered"]

AtOrAfterStart(h) == ledger[h] # NoTimestamp /\ ledger[h] >= start

\* The answer every node must compute from the chain up to the peak.
Correct(r) ==
  \/ /\ r = NotYet
     /\ \A h \in 0 .. peak : ~AtOrAfterStart(h)
  \/ \E h \in 0 .. peak :
       /\ AtOrAfterStart(h)
       /\ \A g \in 0 .. h - 1 : ~AtOrAfterStart(g)
       /\ r = Found(h, ledger[h])

Init ==
  /\ ledger \in [Heights -> Timestamps \union {NoTimestamp}]
  /\ tip \in Heights
  /\ start \in Starts
  /\ peak = NoHeight
  /\ result = Unanswered

\* Blocks are added above the tip; those at or below it never change.
Extend ==
  /\ tip' \in tip .. MaxHeight
  /\ ledger' \in [Heights -> Timestamps \union {NoTimestamp}]
  /\ \A h \in 0 .. tip : ledger'[h] = ledger[h]
  /\ UNCHANGED <<start, peak, result>>

LearnPeak ==
  /\ peak = NoHeight
  /\ result = Unanswered
  /\ peak' = tip
  /\ UNCHANGED <<ledger, tip, start, result>>

Answer ==
  /\ peak # NoHeight
  /\ result = Unanswered
  /\ Correct(result')
  /\ UNCHANGED <<ledger, tip, start, peak>>

Refuse ==
  /\ result = Unanswered
  /\ result' \in Refusals
  /\ UNCHANGED <<ledger, tip, start, peak>>

Next == Extend \/ LearnPeak \/ Answer \/ Refuse

Spec == Init /\ [][Next]_vars
=============================================================================
