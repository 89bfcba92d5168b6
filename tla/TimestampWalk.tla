--------------------------- MODULE TimestampWalk ---------------------------
(***************************************************************************)
(* What the two census-height searches of src/census.rs share: the chain   *)
(* they read through a `ChainSource`, the prelude that reads the peak, and *)
(* the walk of `timestamp_at_or_below`, which goes down through heights    *)
(* that carry no timestamp, one source read per step.                      *)
(*                                                                         *)
(* The chain is not the search's: it may grow, and a reorganisation may    *)
(* rewrite its newest MaxReorg heights, between any two reads.             *)
(***************************************************************************)
EXTENDS Integers

CONSTANTS
  MaxHeight,    \* the largest height a u32 holds
  MaxRun,       \* MAX_NON_TRANSACTION_RUN: how far one walk goes down
  MaxReorg,     \* how many of the newest heights a reorganisation rewrites
  Timestamps,   \* the timestamps a transaction block may carry
  Starts,       \* the epoch starts a caller may ask about
  NoTimestamp   \* what a non-transaction block answers

ASSUME HeightAssumption == MaxHeight \in Nat
ASSUME RunAssumption == MaxRun \in Nat
ASSUME ReorgAssumption == MaxReorg \in Nat
ASSUME TimestampAssumption ==
  Timestamps \subseteq Nat /\ Starts \subseteq Nat /\ NoTimestamp \notin Nat

VARIABLES
  ledger,   \* the source's chain: the timestamp at each height, if any
  tip,      \* the source's peak height
  start,    \* epoch_start_unix_secs
  pc,       \* which read of the search is under way
  peak,     \* the peak the search read, NoHeight before it did
  low,      \* the bracket [low, high] of the search
  high,
  from,     \* the height the current walk was asked for
  probe,    \* the height it has come down to
  result    \* what the search returned

chain == <<ledger, tip>>
search == <<pc, peak, low, high, from, probe, result>>
walkVars == <<ledger, tip, start, pc, peak, low, high, from, probe, result>>

Heights == 0 .. MaxHeight
NoHeight == -1

Found(h, t) == [kind |-> "found", height |-> h, timestamp |-> t]
NotYet == [kind |-> "not_yet"]
Unanswered == [kind |-> "unanswered"]

\* The ways a search refuses: each is a MirrorError::ChainUnavailable.
SourceFailed == [kind |-> "source_failed"]
RunExhausted == [kind |-> "run_exhausted"]
TimestampsChanged == [kind |-> "timestamps_changed"]
Refusals == {SourceFailed, RunExhausted, TimestampsChanged}

(***************************************************************************)
(* The chain. Timestamps never decrease along it; heights above the tip do *)
(* not exist yet.                                                          *)
(***************************************************************************)
Dated(l, h) == l[h] # NoTimestamp

Monotone(l) ==
  \A g, h \in Heights : g <= h /\ Dated(l, g) /\ Dated(l, h) => l[g] <= l[h]

Answers == [Heights -> Timestamps \union {NoTimestamp}]

EndsAt(l, t) == \A h \in Heights : h > t => ~Dated(l, h)

Grow ==
  /\ tip < MaxHeight
  /\ \E block \in Timestamps \union {NoTimestamp} :
        ledger' = [ledger EXCEPT ![tip + 1] = block]
  /\ Monotone(ledger')
  /\ tip' = tip + 1
  /\ UNCHANGED <<start, search>>

\* A height is buried under a peak p when no reorganisation reaches it; the
\* genesis block always is.
Buried(h, p) == h = 0 \/ h + MaxReorg <= p

Reorg ==
  /\ MaxReorg > 0
  /\ \E l \in Answers :
        /\ Monotone(l)
        /\ EndsAt(l, tip)
        /\ \A h \in Heights : Buried(h, tip) => l[h] = ledger[h]
        /\ ledger' = l
  /\ UNCHANGED <<tip, start, search>>

ChainMoves == Grow \/ Reorg

\* The census height of an epoch starting at s, by its definition: the first
\* transaction block of l whose timestamp is at or after s.
AtOrAfter(l, s, h) == Dated(l, h) /\ l[h] >= s

IsCensusHeight(l, s, h) ==
  /\ AtOrAfter(l, s, h)
  /\ \A g \in Heights : g < h => ~AtOrAfter(l, s, g)

(***************************************************************************)
(* One call of timestamp_at_or_below: `from` is its argument, `probe` its  *)
(* local. Each step is one block_timestamp read.                           *)
(***************************************************************************)
StartWalk(h) == from' = h /\ probe' = h

Walking == pc \notin {"peak", "done"}

Reply == ledger[probe]

\* The walk returns: a timestamp was read, or genesis carried none.
WalkEnds == Dated(ledger, probe) \/ probe = 0

\* Mutation: the run is counted one short.
ExhaustedOneEarly == ~WalkEnds /\ from - probe >= MaxRun - 1

\* Mutation: the run is counted one long.
ExhaustedOneLate == ~WalkEnds /\ from - probe > MaxRun

\* MAX_NON_TRANSACTION_RUN + 1 heights were read without a timestamp.
Exhausted == ~WalkEnds /\ from - probe >= MaxRun

\* Mutation: no timestamp all the way down to genesis counts as late enough.
ReachedIfUndated == WalkEnds /\ (Dated(ledger, probe) => Reply >= start)

\* The walk returned a block at or after the epoch start.
Reached == AtOrAfter(ledger, start, probe)

Finish(r) ==
  /\ pc' = "done"
  /\ result' = r
  /\ UNCHANGED <<chain, start, peak, low, high, from, probe>>

StepDown ==
  /\ Walking
  /\ ~WalkEnds
  /\ ~Exhausted
  /\ probe' = probe - 1
  /\ UNCHANGED <<chain, start, pc, peak, low, high, from, result>>

(***************************************************************************)
(* The prelude both searches begin with.                                   *)
(***************************************************************************)
WalkInit ==
  /\ ledger \in Answers
  /\ Monotone(ledger)
  /\ tip \in Heights
  /\ EndsAt(ledger, tip)
  /\ start \in Starts
  /\ pc = "peak"
  /\ peak = NoHeight
  /\ low = 0
  /\ high = 0
  /\ from = 0
  /\ probe = 0
  /\ result = Unanswered

ReadPeak ==
  /\ pc = "peak"
  /\ peak' = tip
  /\ pc' = "newest"
  /\ StartWalk(tip)
  /\ UNCHANGED <<chain, start, low, high, result>>

\* The source exposes no peak, or fails to answer.
PeakUnavailable == pc = "peak" /\ Finish(SourceFailed)

\* Mutation: a timestamp equal to the epoch start does not count.
EpochNotBegunStrictly ==
  /\ pc = "newest"
  /\ WalkEnds
  /\ ~(Reached /\ Reply > start)
  /\ Finish(NotYet)

\* The chain has not reached the epoch start: Ok(None).
EpochNotBegun ==
  /\ pc = "newest"
  /\ WalkEnds
  /\ ~Reached
  /\ Finish(NotYet)

\* The last read: the bracket has closed, report the block it closed on.
AnswerRead ==
  /\ pc = "answer"
  /\ WalkEnds
  /\ Finish(IF Dated(ledger, probe) THEN Found(probe, Reply)
                                    ELSE TimestampsChanged)

(***************************************************************************)
(* What either search must guarantee.                                      *)
(***************************************************************************)
\* When the census height lies deeper below the peak the search read than a
\* reorganisation reaches, every call that answers returns that very block,
\* whatever the chain does to newer blocks between the reads of the call.
BuriedAnswer ==
  pc = "done" =>
    \A h \in Heights :
      Buried(h, peak) /\ IsCensusHeight(ledger, start, h) =>
        result \in {Found(h, ledger[h])} \union Refusals

\* "timestamps changed under the search" is never reported of a chain whose
\* timestamps did not change: the search then always closes on a block that
\* carries a timestamp.
ChangeReportedOnlyIfChanged == result = TimestampsChanged => MaxReorg > 0

\* The search gives up on a run of undated heights only if the chain it read
\* has a run longer than MAX_NON_TRANSACTION_RUN, all of it at or below the
\* peak that was read; a shorter gap is walked through. Heights that do not
\* exist yet are undated too, and are no such run.
ExhaustedOnlyByLongRun ==
  result = RunExhausted =>
    \E h \in Heights : /\ h + MaxRun <= peak
                       /\ \A g \in h .. h + MaxRun : ~Dated(ledger, g)

\* Reads are not repeated without bound, whatever a source answers: each one
\* uses up a part of a budget that the peak sets, so a call makes no more reads
\* than that, with a source whose answers keep changing as with any other.
WalkLength == MaxRun + 1

WalksLeft ==
  CASE pc = "newest" -> peak + 2
    [] pc = "seed" -> high - low + 1
    [] OTHER -> high - low

ReadsLeft ==
  CASE pc = "done" -> 0
    [] pc = "peak" -> WalkLength * (MaxHeight + 3) + 1
    [] OTHER -> WalkLength * WalksLeft + WalkLength - (from - probe)

ReadsRunOut == [](ReadsLeft \in Nat) /\ [][ReadsLeft' < ReadsLeft]_search

\* The block returned is at or after the epoch start, as the comment at the
\* last read says of the bracket it closed on.
AnswerAtOrAfterStart == result.kind = "found" => result.timestamp >= start

\* On a chain that only grows the search is the one-step HeightOracle.
Oracle == INSTANCE HeightOracle WITH peak <- peak, result <- result, Refusals <- Refusals
ImplementsOracle == Oracle!Spec
=============================================================================
