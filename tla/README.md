# TLA+ models of dig-mirror-coin

`dig-mirror-coin` locks DIG in *mirror coins* that advertise a store, lists and
discovers such coins, and takes the *census* from which every node computes the
collateral requirement of the next epoch. All of it is read from a chain
through a `ChainSource` that is not trusted to be complete, consistent or
honest. The crate is synchronous and keeps no state between calls. What makes
it hard is that one call performs many reads, that the chain moves between
them, and that two nodes reading different sources must compute the same
numbers: a one-block or one-coin disagreement is a fork.

## Inventory

| Component | Code | State | Operations |
|---|---|---|---|
| census height search | `census.rs` `census_height`, `timestamp_at_or_below` | peak, bracket `low..high`, position of the walk | bisect over a predicate most heights answer only through a lower block |
| seeded search | `census.rs` `census_height_seeded`, `interpolated_probe` | the same, plus two anchor blocks and a stall count | check an untrusted seed, interpolate, fall back to bisection |
| census | `census.rs` `census`, `prescreen`, `qualify`, `Selection` | candidates, executed spends, one selected coin per triple, exclusion counters | screen, bound, authenticate, select, add up |
| spend cache and authentication | `query.rs` `SpendCache`; `coin.rs` `read_parent_outputs`, `read_child`, `parse_memos` | the outputs of each executed spend | fetch, check that spend and reveal are the parent's, execute once, classify each output |
| queries | `query.rs` `list`, `discover` | coins found, candidates skipped or rejected | authenticate at most `MAX_CANDIDATES` records |
| mirror coin view | `coin.rs` `parse_memos`, `advertises`, `declares_peer`; `declaration.rs` | none | read the memos; compare declared terms and hint; at most one peer declaration counts |
| namespace | `namespace.rs` `mirror_hint` | none | an additive morph, so hints alias |
| spend builders | `create.rs`, `reclaim.rs` | none; the bundles they return may be retried, compete and be confirmed in part | lock collateral; return all of it to its owner |
| asset identity, errors, crate root | `asset.rs`, `error.rs`, `lib.rs` | none | constants, error variants, re-exports |

How they interact: a caller finds `H(n)` with one of the two searches (passing
`H(n-1)` as a seed), hands it to `census` with the prior `EpochRecord`, and
feeds a final census back into `EpochRecord::advance` (an external crate).
`census`, `list` and `discover` all authenticate a coin record by executing the
spend that created it; the census shares one `SpendCache` among its candidates.
What `create` writes into the memos is what `parse_memos`, `advertises` and
`declares_peer` read back, and `reclaim` takes the owner those reads establish.
Everything else is calls into the `ChainSource`.

What makes each part correct:

- *searches*: the answer is the first transaction block at or after the epoch
  start of the chain the peak was read from; a failed or missing timestamp never
  becomes an answer; a seed changes the work and never the answer; every call
  returns after a bounded number of probes.
- *census*: of a source that says nothing untrue, a final census is a function of
  the chain at its height, the same on every node; a source that lies about some
  coins moves no other coin and attributes none to another wallet; the work is
  bounded by the distinct creating spends; every record is accounted for once.
- *authentication and queries*: what a coin is, and whose, follows from an executed
  spend that is bound to its parent; an unreachable source is never an empty
  answer; an owner's coin never drops out of a finished inventory in silence.
- *builders*: the collateral of a coin comes back, whole and findable, to its
  owner only; a fee is paid only for work done; what is published reads back as
  what was asked for, and credits at most one peer.

The hard behaviours are listed with their lines under `hazards` in
`PROJECT.json`.

## Modules

| Module | Models | |
|---|---|---|
| `TimestampWalk` | the chain both searches read, their prelude, `timestamp_at_or_below` | one step per `block_timestamp` read |
| `CensusHeight` | `census_height` | `Loop` is the `while` head; `SearchLower`/`SearchUpper` are the arms of the `match` |
| `CensusHeightSeeded` | `census_height_seeded`, `interpolated_probe` | `ReadSeed`, `SeedBounds`, `SeedRejected`, `SeedUnreadable` are the fates of a seed; u64 saturation is explicit |
| `HeightOracle` | what a search promises, in one step | no reads, no seed |
| `CountedSearch` | the seeded search with a count of its probes beside it, which the code does not keep | states `HeadwayGuaranteed` |
| `MCCensusHeightSeeded` | short chains that grow and long ones that bend, for TLC | |
| `Census` | `census`, `prescreen`, `qualify`, `Selection::supersedes`, `SpendCache` | see below |
| `MCCensus` | small populations, truthfully told or lied about, for TLC | |
| `EpochCensus` | a search and the census at the height it found, on one moving chain | composes `CensusHeight` and `Census` |
| `MCEpochCensus` | one coin, created and spent by any block, for TLC | |
| `Advertisement` | `mirror_hint`, `parse_memos`, `advertises`, `declared_peer`, `declares_peer`, `PeerDeclaration` | pure operators |
| `Query` | `list`, `discover`, `authenticate` | one step per record judged; see below |
| `MCQuery` | two coins and the memos a caller must tell apart, for TLC | |
| `MirrorLifecycle` | `create`, `reclaim`, the chain that confirms their bundles | see below |
| `MCMirrorLifecycle` | two wallets and peer ids of one byte, for TLC | |
| `TimestampWalkProofs`, `CensusHeightProofs`, `CensusHeightSeededProofs`, `CensusProofs`, `EpochCensusProofs`, `QueryProofs`, `MirrorLifecycleProofs` | the proofs | |
| `Sums` | facts about sums over finite sets, and two induction principles | used by the proofs of every total |

Correspondence for the searches: `ledger` and `tip` are the source's chain,
`pc` says which read is under way (`peak`, `newest`, `seed`, `search`,
`answer`), `from` is the argument of the walk under way and `probe` its local,
`low`, `high`, `below`, `above`, `stalls` are the locals of those names. A
height that answers no timestamp holds `NoTimestamp`; timestamps never decrease
(consensus guarantees it, and the search's predicate is monotone only because
of it). `Grow` adds a block, `Reorg` rewrites the newest `MaxReorg` heights;
genesis is never rewritten. `Reorg` replaces blocks without lowering the peak;
a peak that falls is not modelled. A read that fails is always possible and ends
the call, except the seed's. Numbers stay in their width: heights in
`0 .. MaxHeight` stand for u32, and `TypeOK` is what excludes overflow.

Correspondence for the census: `coin`, `kind`, `advert`, `made`, `spent`, `tip`
are the chain: a coin id stands for the hash of parent, puzzle and amount (so
`coin` is injective and never changes), one spend creates all coins of a parent
and its lineage proof names one owner for all of them, `Garbled` is a parent
whose spend does not decode, `Coinbase` one that consensus synthesised.
`ReadRecords` is the record read and all of pass one, which makes no further
read: the source lists every coin it has confirmed at the mirror puzzle hash,
with repetitions and with records nobody asked for. What a source may say
*untruly* is bounded by `Suspects`, a set of parents; the theorems hold for
every such set, all parents included. Of the coins of a suspect a source may
leave records out, claim any of `ClaimedHeights` or none as the heights of
creation and of spending, and flag a reward that is none (`Reports`,
`Listings`); for the suspect's spend it may answer any owner and any memos
(`SpendAnswers`), or bytes that do not decode (`Malforms`). A record cannot
misreport what the coin id commits to: parent, puzzle and amount, and that a
reward's parent has the shape of one. `lies` remembers of which coins it said
something untrue, by which of the three means, and the properties say what may
depend on that. The order of the listing is any, and nothing before pass two
depends on it, so `todo` counts records per coin and pass two takes one of any
coin next. A step of pass two is one turn of the `for` loop: `Authenticate`
takes the answer of the cache or reads and executes the spend (`Execute`), and
`Judge...`, `Select` and `Contend` are what `qualify` and the selection make of
it; the one read of a turn comes first, so the turn is atomic. `SpendMalformed`
and `SpendUnanswered` are its other answers. The order of the checks in
`coin.rs` separates them: `read_parent_outputs` decodes reveal and solution
first (271-280) and answers `Malformed` if either does not decode, which
`qualify` counts as `unreadable` and passes over (866), whoever's fault it is;
only then it compares the reveal's hash (295), and a reveal that decodes and is
not the coin's ends the census, as a failed read, a missing spend, a spend of
another coin and a driver error do. The reveal binds the owner
(`RevealMatches`). Nothing binds the solution, in which the memos are, so forged
memos are believed. A parent that is `Garbled` malforms in any case, whatever a
source answers in its place. Not in the model: the C5 comparison of `qualify`,
unreachable because the amount is part of the coin id and was screened; the
split of a triple's advertisement into store and root, which are one value here;
the reason why a coin is not a mirror, as all reasons count as `unreadable`.
`executed` is a history variable.

Correspondence for the composition: `EpochCensus` extends `CensusHeight` and
instantiates `Census` with the height of the search's result for `at` and the
search's `tip` for its own, so that both calls read one chain. `ChainGrows` and
`ChainReorganises` are one step of both chains' parts; blocks that create or
spend coins are transaction blocks (`WellBlocked`). `census` takes a
`CensusHeight` as a plain value: nothing is read again about the block it was
found by. A height that was not buried when the search began may therefore go
stale and a census at it still be reported final; `FinalStaysIdeal` says what such a
census is worth, `FinalIsOfItsEpoch` what a buried height guarantees, which is
also why two nodes that search and count at different times agree, if their
sources told the truth.

Correspondence for the queries: `coin` and `spend` are the chain, which stands
still during a call; `asked` is the verb and its arguments. `ReadRecords` is the
first read, `Keep`, `Settle`, `Skip` and `Reject` are the arms of the two
`match`es, one turn of the loop each with the answer the source gives for the
creating spend, and `SpendUnavailable` is the arm that ends the call. `list` and
`discover` differ in what they ask for (`Requested`) and in the arms, and share
everything else, in the code as in the model. `records` is the listing in its
order, `examined` how far the walk has come, and `kept` and `skipped` the
positions of the records that became `coins`, `claims` or `skipped`. The source
may list any coin any number of times, requested or not, up to `MaxRecords`
records; it may answer with no spend, with another coin's, with a forged reveal
or with undecodable bytes (`Answers`), and it may fail. It may not leave out a
record it was asked for, which no caller can see, and it may not forge a
*solution*: nothing in the code binds a solution to the spend that happened, so
a source that forges one is believed. `Readout` is what executing the right
spend establishes, in the order the code settles it; a driver error and a puzzle
that does not run are both `malformed`. Here undecodable bytes and a forged
reveal need no telling apart: `list` skips the coin for either, and `discover`
rejects it. Not in the model: the texts of skip reasons, whether a coin is still
unspent, and two identical outputs of a spend, which are one coin. `misled` and
`failed` are history variables.

Correspondence for advertisements: terms are integers and the hint is their sum,
as in `mirror_hint`; its hash is taken as injective, and the signed big-endian
encoding of an epoch, which `parse_memos` inverts exactly, as the identity. A
memo list whose first four entries have their widths is the record of them and
the tail; any other list is `NoAdvert`, and memos that are no list of atoms are
`Undecodable`. Peer ids and their spellings are bytes, of any width
`PeerBytes` (32 in the code), because two spellings of one id is what the code
must not take for two peers.

Correspondence for the builders: a coin is its parent, puzzle, asset and amount,
which is what its id hashes. `Create` and `Reclaim` are whole calls of the two
functions by a wallet that found its coins by hint (`Purse`); their refusals are
guards, and the bundle they return goes to `pending`, which is never emptied.
`Confirm` adds a block of spends of pending bundles, `Reorg` undoes the newest
block. A spend is admissible in a block with the coins its
`AssertConcurrentSpend` conditions name and, for DIG, with the whole ring of CAT
spends it was built with, which must balance; nothing else ties the spends of a
bundle together in the model, which is *more* than the network allows, since a
signed bundle is normally confirmed as one. `PublishOtherwise` is other software
that locks DIG with memos of its own, which need not read. `reclaim` takes a
`MirrorCoin`, and there is one only of memos that `parse_memos` reads (`coin.rs`
359-378), so `MayReclaim` asks for that and for the owner. The driver (which
coin carries the outputs, change, the ring) is external and modelled from what
`create` and `reclaim` pass to it. Left out: a spend in the block that created
its coin, competition among signers for one key, and `create` with coins that
belong to another key, which the driver refuses.

Operators commented as a mutation are faulty variants of the definition that
follows them; no specification uses them, and each property is violated when
the variant `PROJECT.json` pairs it with replaces that definition.

## Runs

| Run | Bounds | Shows |
|---|---|---|
| `height_growing` | heights 0..6, walk bound 2, two timestamps, three epoch starts, chain grows | refinement of `HeightOracle`, `ExhaustedOnlyByLongRun`, `ChangeReportedOnlyIfChanged`, termination |
| `height_reorg` | heights 0..4, walk bound 1, reorganisations of 2 | `BuriedAnswer`: a census height deeper than a reorganisation is the answer even if newer blocks change at every read; `ReadsRunOut`: the reads of a call are bounded |
| `height_reorg_answer` | heights 0..2 | **violated**, see Findings |
| `seeded_growing` | short chains: heights 0..4 with undated ones, walk bound 1, growing; long ones: 25 blocks that bend; three timestamps around the epoch start 100, one far off, `STALLS_BEFORE_BISECTION` 3; every seed (of a short chain up to 4, which no peak of it exceeds) | the same refinement, with every seed; `StallsBounded`; `HeadwayGuaranteed`: every four probes leave at most three quarters of the bracket |
| `seeded_reorg` | heights 0..3, reorganisations of 2, all seeds | `BuriedAnswer`, probes stay in the bracket, `ReadsRunOut` and termination although answers contradict each other |
| `census` | three coins of two or three parents, two owners, at most two spends, a total of at most five; of a truthful source, each coin listed up to twice in any order; of a liar, the coins of one parent (two, one, or a reward) left out, said to be undated or spent or a reward, and their spend answered with another owner, other memos or undecodable bytes; the chain stands still | the final census is the chain's whatever the order and the repetitions, every record is accounted for, spends that decode are executed once, the total fits, no lie costs another coin its representative, owners are proven, a refusal is the chain's but for the records lied about |
| `epoch_census` | one coin, heights 0..3, walk bound 1, two timestamps, finality depth and reorganisations of 1; blocks and reorganisations between any two reads of either call; the source is truthful | a final census stays the census of the chain at its height, and is at its epoch's height if that was buried |
| `census_garbled_reveal` | as `census`, each coin listed once | **violated**, see Findings |
| `lifecycle` | two wallets, four genesis coins, fees 0 and 1, three bundles, three blocks; advertisements with and without a peer, one with a declaration among its URLs, one without URLs, one without collateral; foreign memos with an unreadable entry, with two declarations, with no advertisement, and undecodable | no DIG is lost (`CollateralKept`), fees buy work, what is published reads back, credit is unambiguous, what `create` locked can always be reclaimed, by its owner alone |
| `query` | two coins of one or two parents, up to three records, `MAX_CANDIDATES` 2; memos that advertise what is asked about as either of two owners, that alias to its hint, that cannot be read, that advertise nothing; a spend of either owner, of another asset, malformed, or none | a complete inventory holds the owner's mirrors, each as often as it was listed, an own coin is returned or named, a claim bonds what was asked about, an empty answer means no bond, an error means the source failed |
| `query_owner` | as `query` | **violated**, see Findings |
| `query_stranger` | as `query` | **violated**, see Findings |

The bounds are small because every rule is local. The bisection runs three
levels deep on seven heights, which includes brackets of odd and even width; a
walk bound of 2 already has a run that is allowed and one that is too long; a
reorganisation of 2 reaches a bracket's both ends. Two coins contend for a
triple and the third is a bystander or a rival of another owner; the bounds on
spends and on the total are chosen so that a population may lie at, below and
above each. One liar's parent is enough because the properties compare the coins
lied about with the others, and it may hold coins on both sides of a contest;
lies about every parent are the theorems' case. A claimed height is compared
with the census height only, so one at or below it and none at all are enough to
move a coin either way. Of the queries only the bound relates records, so two
coins in up to three records lie at, below and above a bound of two. Three
bundles are a create, the reclaim of its coin, and a retry or a rival of either;
three blocks confirm two of them and leave one to be undone and confirmed
otherwise. The spelling of peer ids is checked for ids of one byte and proved
for every width. The composition needs a census height that is buried and one
that is not, below a peak that may still move, which four heights and a finality
depth of 1 have. The constants the runs shrink (64 heights of a walk, 10000
spends, u32 and u64) occur in the code only in the comparisons the models keep;
the theorems hold for every value of them.

The calls are synchronous, so each search specification has weak fairness of the
step the call takes next and of nothing else: the chain need not move, and no read
need succeed (a failing read also ends the call). Deadlock is not checked, since
a finished call on a full chain has nothing left to do, and because a wallet
need not build anything. `Census`, `EpochCensus` and `Query` state safety only:
their passes are loops over finite lists. So does `MirrorLifecycle`: no code
here submits a bundle or waits for it, so nothing justifies that one is ever
confirmed. That collateral *can* come back is the invariant `AlwaysReclaimable`,
in every reachable state.

## Findings

- `height_reorg_answer`: the comment at `census.rs:281` says that the height the
  bracket closed on satisfies the predicate. Its timestamp is read once more and
  not compared again: if a reorganisation rewrote it, the search returns a block
  before the epoch start. `SPEC.md` 8.1.1 itself says that a source need not
  answer two reads of a height consistently. `BuriedAnswer` is what does hold.
- `query_owner`: the doc of `discover` (`query.rs:348`) and `SPEC.md` 6.3 say that
  naming the wrong owner yields an empty answer rather than somebody else's
  coin. The owner is part of the lookup only: neither the owner of a claim nor
  the hint it was found under is compared with what was asked for. A source
  that lists a record of another bucket therefore makes another owner's bond a
  claim. `OwnerAnswers` is what does hold: among the records under the hint
  asked for, the sum in the hint binds the owner.
- `census_garbled_reveal`: the comment at `query.rs:463` and `SPEC.md` 8.7 say that
  without the check of a returned spend a source could delete any chosen mirror
  from a census that still completes. With the check it still can, by bytes that
  do not decode: `read_parent_outputs` answers `Malformed` for them before it
  compares the reveal's hash (`coin.rs:271`, 295; `SPEC.md` 7 says that the
  reveal is bound *first*), and `qualify` takes `Malformed` for a fact about the
  coin (`census.rs:866`). In the run every record is true and so is every spend that
  decodes, and a coin that counts is missing from a final census.
  `RepresentativesAreIdeal` is what does hold: no *other* coin is affected. The
  same is behind a weaker bound on the work than `SPEC.md` 8.8 asks for: as such a
  failure does not end the census, against the comment at `query.rs:421`, and is not
  cached, the spend is asked for again by each further coin it created.
  `SpendsExecutedOnce` bounds the spends that decode.
- `query_stranger`: `SPEC.md` 9, item 10 says that no stranger can hold the
  completeness signal of `list` false, and so does `tests/mirror_coin.rs:703`. A
  stranger's undecodable *memos* cannot. But a candidate with no creating spend that
  runs (a block reward at the mirror puzzle hash, or a spend the driver cannot
  parse) is skipped at `query.rs:324` before anything says whose coin it is, and
  `list` reads every coin at the shared puzzle hash, so one such coin clears
  `is_complete` for every caller, though the source answers every spend. The doc of
  `skipped` (`query.rs:182`) concedes it. So does truncation (`query.rs:214`), by
  more than `MAX_CANDIDATES` coins of strangers. `OwnCoinsAccounted` and
  `CompleteIsWhole` are what does hold: the signal may be false without need, and
  is never true with an own coin missing that the source listed.

## Proofs

Each theorem holds for every value of the constants under the named assumptions
that declare them. They say of what kind a constant is: heights, bounds, amounts
and fees are naturals (`HeightAssumption`, `RunAssumption`, `ReorgAssumption`,
`StallsAssumption`, the `BoundAssumption`s, `CoinAssumption`, `EpochAssumption`,
`FeeAssumption`, `PeerAssumption`); there are finitely many coins
(`CoinAssumption`); timestamps and starts are naturals and `NoTimestamp` is none
(`TimestampAssumption`), and a height fits the width timestamps are computed in
(`TimestampWidth`); the kinds of a parent differ (`KindAssumption`); the terms of
an advertisement are integers (`TermAssumption`); the mirror puzzle is no wallet's
(`WalletAssumption`); there are finitely many genesis coins, each belongs to a
wallet, has an amount and was made by no coin of the chain (`GenesisAssumption`);
what `create` may be asked for has the shape its arguments have in the code
(`AdvertAssumption`); the suspects are parents and claimed heights are heights
(`SuspectAssumption`), and what other software publishes is a memo list, or
memos that are none (`MemoAssumption`); the values that stand for the absence of
something are not such a thing (`SentinelAssumption`). One is about the world:
`FinalityAssumption` says that no reorganisation is deeper than the finality
depth, which is the premise `SPEC.md` 8.6 chooses that depth for.

| Module | Theorem | States |
|---|---|---|
| `CensusHeightProofs` | `TypeCorrect` | `Spec => []TypeOK`: no height leaves its range, the bracket is never inverted |
| | `BuriedAnswerCorrect` | `Spec => []BuriedAnswer`: a buried census height is the only answer |
| | `SearchImplementsOracle` | `MaxReorg = 0 => (Spec => ImplementsOracle)` |
| | `OnlyLongRunsExhaust` | `MaxReorg = 0 => (Spec => []ExhaustedOnlyByLongRun)` |
| | `ChangesAreReal` | `Spec => []ChangeReportedOnlyIfChanged` |
| | `CallsAreBounded` | `Spec => ReadsRunOut`: at most `(MaxRun + 1) (MaxHeight + 3) + 1` reads |
| `CensusHeightSeededProofs` | all six of the above | the same, for every seed |
| | `ProbesNarrow` | `Spec => []ProbeInBracket` |
| | `StallsNeverExceedBound` | `Spec => []StallsBounded` |
| | `HeadwayIsMade` | `CountedSpec => []HeadwayGuaranteed`: the probes of a call are logarithmic in the peak |
| `CensusProofs` | `TypesAreKept` | `Spec => []TypeOK` |
| | `NoRecordIsLost` | `Spec => []NothingLost`: every record listed is accounted for once |
| | `DecodableSpendsExecutedOnce` | `Spec => []SpendsExecutedOnce` |
| | `FinalCensusIsIdeal` | `Spec => []FinalIsIdeal`: of a source that lied about no coin, a final census is what the chain determines at its height |
| | `RepresentativesAgree` | `Spec => []RepresentativesAreIdeal`: a lie about one coin moves no other, and the order of the listing none |
| | `CoinsCountForTheirOwner` | `Spec => []OwnersAreProven`: whatever the source lists and answers |
| | `RefusalsAreTheChains` | `Spec => []RefusalsJustified`: for the bound exactly as the chain has it, but for the coins whose records are untrue |
| `EpochCensusProofs` | `FinalCensusStaysIdeal` | `EpochSpec => []FinalStaysIdeal`: the same of a census at the height a search found |
| | `FinalCensusIsOfItsEpoch` | `EpochSpec => []FinalIsOfItsEpoch`: a buried height is the epoch's own, and truthful nodes agree |
| `QueryProofs` | `TypeCorrect` | `Spec => []TypeOK`: the bound on examined records holds |
| | `CompleteInventoryIsWhole` | `Spec => []CompleteIsWhole` |
| | `OwnCoinsAreNeverDropped` | `Spec => []OwnCoinsAccounted` |
| | `ClaimsBondWhatWasAsked` | `Spec => []ClaimsAreBonds` |
| | `HintBindsOwner` | `Spec => []OwnerAnswers` |
| | `EmptyAnswersAreTrue` | `Spec => []EmptyIsAnAnswer` |
| | `ErrorsAreTheSources` | `Spec => []ErrorMeansUnanswered` |
| `MirrorLifecycleProofs` | `HexRoundTrip` | a peer id written by `to_hex` is read back by `from_hex` |
| | `SpellingsOfOnePeer` | two texts name one peer exactly if they differ in case only |
| | `TypeCorrect` | `Spec => []TypeOK`: coins descend from genesis, have an amount and are spent once |
| | `FeesOnlyForWork` | `Spec => []FeesBuyWork` |
| | `CollateralIsKept` | `Spec => []CollateralKept`: what a wallet's hints find and what it locked at the mirror puzzle hash is what it began with |
| | `ReclaimIsAlwaysOpen` | `Spec => []AlwaysReclaimable`: what `create` locked reads back and can be reclaimed, by its owner and by nobody else |
| | `WhatIsPublishedIsDeclared` | `Spec => []PublishedIsDeclared` |
| | `CreditIsNeverAmbiguous` | `Spec => []CreditIsUnambiguous` |

`TimestampWalkProofs` holds what both searches rest on: the steps of the walk
and of the chain preserve the part of the invariant they share.

*Induction over data.* A sum over a set, the readable part of a memo list, the
one declaration in it and a power are all computed by recursion, over a finite
set or over a list. What they compute is proved by the least counterexample: if
some set or some length had not the property, there would be a smallest one
(`LeastSubset`, `LeastNatural` of `Sums`, from the well-foundedness of `<` on the
naturals and of inclusion among the subsets of a finite set), and the recursion
leads from it to a smaller one. The same argument shows that the function the
recursion describes exists and is unique, which is what its definition takes a
`CHOOSE` of. `Sums` derives what the other proofs use: a sum over a disjoint
union (`SumJoins`), sorted into classes (`SumByClass`), and after a change at one
point (`SumChanges`).

*Types.* `TypeOK` is not inductive: that a probe stays at or above 0 and that a
bracket narrows needs the position of the walk, `probe <= from`, and the probe's
place in the bracket at `search`. The inductive invariant adds those. The seeded
search needs its anchors typed as well, since the estimate divides by the
difference of their timestamps and multiplies numbers a source chose.

*Buried answer.* `BuriedInv` says that once the peak is read, a buried census
height lies in `low..high` while the bracket is open, that a walk which began at
or above it has not gone below it, and that a result is that height or a
refusal. A step of the chain cannot move it, because it only
rewrites heights above it. In `SearchUpper` the walk ended below the epoch start,
so by monotone timestamps no height up to `from` is the census height and
`from + 1` may become the bound; in `SearchLower` the probe itself is at or after
the start, so the height is at or below it. A seed raises `low` only through the
same argument, which is why no assumption about seeds occurs.

*Refinement.* On a chain that only grows, what lies at or below the peak is fixed
when the peak is read. `SettledInv` says that the heights a walk has passed carry
no timestamp, that no height below the bracket counts and that one inside it
does, so that each way of finishing maps to the oracle's step of the same result
and every other step to a stutter.

*Justified refusals.* The same invariant says where a walk has been, so a walk
that gives up has just passed a run of undated heights longer than the bound,
and that run ends at or below the peak, which is where the property looks for
it, and stays. Changed timestamps are reported when no block at or below the
height that the bracket closed on has one; but a bracket keeps a dated height in
it, so the one it closes on is dated unless a block was replaced.

*Bounded reads.* `ReadsLeft` is a budget: the walks that the bracket and the
stage still allow, each at most `MaxRun + 1` reads long, less what the walk under
way has used. A step down takes one from it; a step that narrows the bracket
gives up a walk for the one it begins. It needs `WalkShort`, that no walk has
gone past its bound, which is what a bound that is one too long breaks. Nothing
here assumes that answers agree with one another.

*Stalls and headway.* The count is bounded because a bisection leaves at most half
the bracket and thereby resets it. `Headway` says what this is worth: there is a
number `q` of rounds such that at most `q (STALLS_BEFORE_BISECTION + 1) + stalls`
probes were made and the bracket is `(3/4)^q` of the peak or less. A stall keeps
`q`, any other probe narrows by a quarter and pays for a round. `Narrowed` states
the inequality for every `r` up to `q`, so that the number of complete rounds,
which may be smaller, needs no argument of its own.

*Spends.* `SpendsExecutedOnce` alone is not inductive: a second execution is
excluded by what the cache holds. The invariant adds that a spend executed once
answers for each coin it created, so that a coin not in the cache belongs to a
spend not executed yet. Spends that do not decode are outside it, as they are in the
code, and so are those whose bytes a source garbled, once it did (`lies.bytes`).

*Final census.* Two arguments meet. `Ground` says that once the peak was found
`FinalityDepth` above the census height, what happened at or below that height
is settled: a reorganisation undoes newer blocks only, and a coin created or
spent later is not counted. Hence the ideal census does not change while the
candidates are judged. `LoopInv` says what the loop has done so far: a coin that
is to be counted, and of which nothing untrue was said, is still to be judged or
is represented in the selection by a coin that outranks it; whatever is selected
is to be counted or was lied about; and what the cache holds of a survivor not
lied about is what the chain holds. `Selection::supersedes` is a strict total
order (`OutranksIsOrder`), so the representative of a triple only ever moves up,
whether by a coin that tells the truth or by one that does not, and that is all
a lie does to another coin. When nothing is left to be judged and nothing was
lied about, the selection is the ideal one, whatever the order of the listing
was, and both totals are the same expression of the same selection. `OwnerInv`
needs none of this: a spend is executed only if its reveal names the owner its
parent commits to.

*Account of records.* `todo`, the selection and the counters are changed
together: judging a record takes it off `todo` and adds one to a rule's counter,
or to the selection; a representative it displaces goes to a counter instead.
Each such step is two changes of a sum at one point; the prescreen is one sum
sorted into classes, the records kept and those each rule excludes. The types
need the keys of the selection to be finitely many, so that its totals are sums
at all.

*The composition.* `EpochCensusProofs` takes the census's proof a second time,
with the search's result for the height (`Proved == INSTANCE CensusProofs WITH
...`), and the search's invariants as they are. What it adds is that the two
fit: the search's step leaves the census alone until it has found a height, a
block of the common chain is a step of both, and the records a source may list
and claim, and what the screen makes of them, are the same to both
(`SameScreen`). Then `Ground` holds of the height found and `BuriedInv` says
which height that is.

*Queries.* The invariant says that each record examined so far is `Justified`:
what was kept is what the caller asked for, and no coin that is owed a verdict was
passed over. It rests on lemma
`Executed`, which says what an answer establishes: an authenticated one is the
parent's own spend, and the readout settles puzzle and asset before the memos.
When the walk is over and not truncated every record has been examined
(`WalkEnded`), and every requested coin is among them, which is what the
properties of an answer need. What is whole is stated of positions, since `list`
pushes a coin once for each record of it.
`HintBindsOwner` then is arithmetic: two sums that agree in three integer terms
agree in the fourth.

*Builders.* All theorems need to know what can still be confirmed. `LifeInv`
says that every pending bundle is `WellBuilt` (its spends are of one wallet's
coins, and one of its XCH names a spend of the same bundle that makes or returns
collateral), that every block consists of spends of pending bundles, and that no
two blocks spend a coin twice. A block admits a spend only with the coins it
names, so a confirmed fee has its work beside it, however the bundle was split.
`Confirm` adds such a block, `Reorg` removes one, and a builder adds a bundle of
coins that are on the chain and whose outputs stay with their holder.

*Collateral.* `StakeInv` adds two things. A bundle `Conserves`: its DIG spends are
one ring, each names all of it, and each output is found by its owner's hint
unless it is a mirror coin. A block admits a DIG spend only with its whole ring
and only if the ring balances, so a block is a disjoint union of balanced rings,
and what a wallet owns does not change (`ClosedBalances` takes one ring off at a
time). For `Reorg` that is stated of *every prefix* of the chain (`Sound`), since
undoing a block goes back to the prefix before it.
`AlwaysReclaimable` then follows in one state: the mirror coin and the purse are
unspent, the bundle's ring is the one coin, and what it returns is its amount.

*Publication.* `PublishInv` says that the mirror outputs of a pending bundle
carry what its verb makes them carry. `ReadableIs` says that reading a tail of
text gives that tail, and `DeclaredPeerIs` that `declared_peer`, which counts
and remembers while it walks, is what the only declaration spells, and nobody if
there is none or more than one; with `HexRoundTrip` and `SpellingsOfOnePeer`
both properties are then about one memo list.

Only model-checked: `Terminates`. Liveness under fairness, and `ENABLED`, are
beyond the prover. What is proved of it is `ReadsRunOut`: a call cannot make
reads without end. That a read under way is always answered or fails, so that
some step is possible, is left to TLC. The four properties that runs show
violated are not theorems.

## Not modelled

- *The driver library*: the CLVM, puzzle currying, hashes, signatures, coin
  selection and the parsing of spends. Hashes are taken as injective; what the
  driver does with the arguments the crate gives it is external in the map.
- *`EpochRecord::advance`*, in another crate. The prior record is any record.
- *`asset.rs`* (two constants), *`error.rs`* beyond which error a call returns,
  *`lib.rs`* (re-exports).
- *Some lies of a source.* `list` and `discover` read a source that leaves out
  no record it was asked for and forges no solution: the code can see neither.
  The census is modelled with both (`lies.record`, `lies.spend`), but a source
  says one thing of a coin: if it lists a coin twice, both records claim the
  same. A peak or a timestamp is believed as the source says it, and the chain
  is what it says. Failed reads, missing and wrong spends, forged reveals,
  undecodable bytes, repeated and unrequested records are modelled everywhere.
- *Coins of older versions.* The doc of `is_complete` says that `true` does not
  mean that nothing is missing: coins under another hint scheme are invisible.
  What this version's `parse_memos` does not read as an advertisement is not
  among the `Mirrors` of which `CompleteIsWhole` says that none is missing.
- *A peak that falls.* `Reorg` replaces blocks at the same height.
- *Two nodes as two processes.* They share nothing but the chain.
  `FinalIsOfItsEpoch` says that a final census at a buried height is a function
  of the chain, so two such censuses agree, if neither source lied. At a height
  that was not buried they need not: a `CensusHeight` may be stale when `census`
  takes it.
- *Spends in the block that created their coin*, whether in one bundle or two.
