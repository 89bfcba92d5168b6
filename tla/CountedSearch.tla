---------------------------- MODULE CountedSearch ----------------------------
(***************************************************************************)
(* CensusHeightSeeded with a count of its probes kept beside it, which the *)
(* code does not keep: how much of the bracket so many probes leave.       *)
(***************************************************************************)
EXTENDS CensusHeightSeeded

VARIABLE probes

countedVars == <<vars, probes>>

CountedInit == Init /\ probes = 0

CountedNext ==
  /\ Next
  /\ probes' = IF SearchLower \/ SearchUpper THEN probes + 1 ELSE probes

CountedSpec == CountedInit /\ [][CountedNext]_countedVars

Power(base, n) ==
  LET power[k \in 0 .. n] == IF k = 0 THEN 1 ELSE base * power[k - 1]
  IN  power[n]

\* The geometric guarantee that forcing a bisection after a run of stalls is
\* for: every StallsBeforeBisection + 1 probes leave at most three quarters of
\* the bracket, on every chain a source may present.
HeadwayGuaranteed ==
  LET rounds == probes \div (StallsBeforeBisection + 1)
  IN  pc = "search" => (high - low) * Power(4, rounds) <= peak * Power(3, rounds)
=============================================================================
