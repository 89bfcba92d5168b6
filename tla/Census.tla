------------------------------- MODULE Census -------------------------------
(***************************************************************************)
(* census (src/census.rs): one pass over every coin at the mirror puzzle   *)
(* hash, at the census height `at`. It screens the records a source lists, *)
(* executes the creating spend of each distinct parent of the survivors,   *)
(* selects one coin per (owner, store, root) and adds up what they lock.   *)
(*                                                                         *)
(* The source is read several times and its chain moves in between: blocks *)
(* create and spend coins, and a reorganisation undoes the newest MaxReorg *)
(* heights. It lists the records in an order of its own, may repeat them   *)
(* and may add records that were not asked for; any read may fail. Of the  *)
(* coins of Suspects it may say what is not so: leave them out, misreport  *)
(* their heights, and answer for their creating spends with others'        *)
(* memos or with bytes that do not decode. What a coin id commits to, its  *)
(* parent, amount and puzzle, it cannot misreport.                         *)
(***************************************************************************)
EXTENDS Integers, FiniteSets, FiniteSetsExt, Functions

CONSTANTS
  Coins,          \* coin ids, compared as numbers, as bytes are big-endian
  Parents,        \* the coins whose spends created them
  Suspects,       \* the parents of whose coins a source may answer untruly
  ClaimedHeights, \* the heights that an untrue record may give
  Owners,         \* the wallets a lineage proof can name
  Roots,          \* the advertised (store, root) pairs
  Epochs,         \* the epochs a coin may declare
  Amounts,        \* the amounts a coin may hold
  MaxHeight,      \* the largest height the chain reaches
  MaxRecords,     \* how often a source may list one coin
  FinalityDepth,  \* CENSUS_FINALITY_DEPTH_BLOCKS
  MaxReorg,       \* how many of the newest heights a reorganisation undoes
  MaxSpends,      \* MAX_CANDIDATES, which bounds distinct creating spends
  MaxLocked,      \* the largest value a u64 holds
  MaxEpoch,       \* the terminal epoch
  Coinbase,       \* the kind of a parent that consensus synthesised
  Garbled,        \* the kind of a parent whose spend does not decode
  NotAMirror      \* what a coin is that publishes no readable advertisement

ASSUME CoinAssumption ==
  Coins \subseteq Nat /\ IsFiniteSet(Coins) /\ Amounts \subseteq Nat
ASSUME BoundAssumption ==
  {MaxHeight, MaxRecords, FinalityDepth, MaxReorg, MaxSpends, MaxLocked} \subseteq Nat
ASSUME EpochAssumption == Epochs \subseteq Nat /\ MaxEpoch \in Nat
ASSUME SuspectAssumption ==
  Suspects \subseteq Parents /\ ClaimedHeights \subseteq 0 .. MaxHeight
ASSUME KindAssumption == Coinbase # Garbled /\ {Coinbase, Garbled} \cap Owners = {}

\* The premise the finality depth is chosen for (SPEC 8.6).
ASSUME FinalityAssumption == MaxReorg <= FinalityDepth

VARIABLES
  coin,      \* per coin: its parent, its amount, and whether its puzzle is foreign
  kind,      \* per parent: the wallet holding it, Coinbase or Garbled
  advert,    \* per coin: what the spend that created it published
  made,      \* per parent: the height that created its coins, or NoHeight
  spent,     \* per coin: the height that spent it, or NoHeight
  tip,       \* the source's peak height
  prior,     \* the epoch and requirement of the prior EpochRecord
  at,        \* the census height
  pc,        \* which read of the census is under way
  todo,      \* per coin: how many of its records are still to be judged
  spends,    \* SpendCache: what the spends executed so far said of their coins
  selected,  \* the coin representing each triple
  excluded,  \* Exclusions: how many candidates each rule excluded
  examined,  \* how many records the source listed
  outcome,   \* what the census returned
  executed,  \* history: how often each parent's spend was read and executed
  lies       \* history: the coins of which the source told the census otherwise
             \* than the chain has it, by their record, by a spend that reads
             \* differently, or by bytes that do not decode

facts == <<coin, kind, prior, at>>
chain == <<advert, made, spent, tip>>
pass == <<todo, spends, selected, excluded, examined>>
history == <<executed, lies>>
vars == <<facts, chain, pass, pc, outcome, history>>

Heights == 0 .. MaxHeight
NoHeight == -1

Adverts == [root : Roots, epoch : Epochs, proven : BOOLEAN] \union {NotAMirror}
Readouts == [owner : Owners, advert : Adverts]
Triples == [owner : Owners, root : Roots]

Unanswered == [kind |-> "unanswered"]
Pending == [kind |-> "pending"]
Incomplete == [kind |-> "incomplete"]
Unavailable == [kind |-> "unavailable"]
Malformed == [kind |-> "malformed"]
Final(stores, owners, locked) ==
  [kind |-> "final", epoch |-> prior.epoch + 1,
   stores |-> stores, owners |-> owners, locked |-> locked]

(***************************************************************************)
(* The chain. One spend creates all the coins of a parent.                 *)
(***************************************************************************)
Born(c) == made[coin[c].parent]

Confirmed == {c \in Coins : Born(c) # NoHeight}

\* A coin is spent at or after the height that created it.
WellDated(m, s) ==
  \A c \in Coins : s[c] # NoHeight =>
    m[coin[c].parent] # NoHeight /\ s[c] >= m[coin[c].parent]

Extend ==
  /\ tip < MaxHeight
  /\ tip' = tip + 1
  /\ \E P \in SUBSET {p \in Parents : made[p] = NoHeight} :
        made' = [p \in Parents |-> IF p \in P THEN tip + 1 ELSE made[p]]
  /\ \E S \in SUBSET {c \in Coins : spent[c] = NoHeight} :
        spent' = [c \in Coins |-> IF c \in S THEN tip + 1 ELSE spent[c]]
  /\ WellDated(made', spent')
  /\ UNCHANGED <<facts, advert, pass, pc, outcome, history>>

Buried(h) == h # NoHeight /\ h + MaxReorg <= tip

\* What a reorganisation may put in place of the height h.
Rewritten(h) ==
  IF Buried(h) THEN {h} ELSE {NoHeight} \union {g \in 0 .. tip : ~Buried(g)}

Reorg ==
  /\ MaxReorg > 0
  /\ made' \in [Parents -> Heights \union {NoHeight}]
  /\ \A x \in Parents : made'[x] \in Rewritten(made[x])
  /\ spent' \in [Coins -> Heights \union {NoHeight}]
  /\ \A c \in Coins : spent'[c] \in Rewritten(spent[c])
  /\ WellDated(made', spent')
  /\ advert' \in [Coins -> Adverts]
  /\ \A c \in Coins : Buried(Born(c)) => advert'[c] = advert[c]
  /\ UNCHANGED <<facts, tip, pass, pc, outcome, history>>

(***************************************************************************)
(* Pass one: the rules that a record alone decides, in the order prescreen *)
(* applies them. A record claims when its coin was confirmed and spent and *)
(* whether it is a block reward; a reward is also known by the shape of    *)
(* its parent, which the coin id commits to.                               *)
(***************************************************************************)
ScreenRules == <<"foreign_puzzle", "block_reward", "undated", "not_yet_created",
                 "spent_by_census_height", "below_requirement_unauthenticated">>
JudgeRules == {"wrong_epoch", "unreadable", "unattributed", "superseded"}
Rules == Range(ScreenRules) \union JudgeRules

Claims == [confirmed : ClaimedHeights \union {NoHeight},
           spent : ClaimedHeights \union {NoHeight},
           coinbase : BOOLEAN]

FailedRules(c, claim) ==
  [foreign_puzzle |-> coin[c].foreign,
   block_reward |-> claim.coinbase \/ kind[coin[c].parent] = Coinbase,
   undated |-> claim.confirmed = NoHeight,
   not_yet_created |-> claim.confirmed > at,
   spent_by_census_height |-> claim.spent # NoHeight /\ claim.spent <= at,
   below_requirement_unauthenticated |-> coin[c].amount < prior.required]

Failed(c, claim) == {i \in DOMAIN ScreenRules : FailedRules(c, claim)[ScreenRules[i]]}

Kept(c, claim) == Failed(c, claim) = {}

\* The rule a candidate is excluded by: the first one it fails.
FirstFailed(c, claim) == ScreenRules[Min(Failed(c, claim))]

Screened(report) ==
  [c \in Coins |-> IF Kept(c, report[c]) THEN "kept" ELSE FirstFailed(c, report[c])]

\* The record of a coin as the chain has it. A source need not know a reward
\* for one.
Truth(c) == [confirmed |-> Born(c), spent |-> spent[c],
             coinbase |-> kind[coin[c].parent] = Coinbase]
Truthful(c, claim) ==
  /\ claim.confirmed = Born(c)
  /\ claim.spent = spent[c]
  /\ claim.coinbase => kind[coin[c].parent] = Coinbase

CoinsOf(p) == {c \in Coins : coin[c].parent = p}
Suspected == {c \in Coins : coin[c].parent \in Suspects}

\* What a source may list: every coin at the mirror puzzle hash that it has
\* confirmed, any others, and any of them repeatedly; of a suspected coin it
\* may list nothing, and claim anything.
Asked == {c \in Confirmed : ~coin[c].foreign}
Listings == {l \in [Coins -> 0 .. MaxRecords] : \A c \in Asked \ Suspected : l[c] > 0}
Reports == {[c \in Coins |-> IF c \in Suspected THEN claims[c] ELSE Truth(c)] :
              claims \in [Suspected -> Claims]}
Listed(l) == {c \in Coins : l[c] > 0}

\* The coins that the records leave out, date or flag otherwise than the chain.
Misreported(listing, report) ==
  {c \in Coins : IF listing[c] > 0 THEN ~Truthful(c, report[c]) ELSE c \in Asked}

ParentsOf(cs) == {coin[c].parent : c \in cs}

\* Mutation: the bound counts coins, not the spends that created them.
CoinsOverBound(survivors) == Cardinality(survivors) > MaxSpends

\* More distinct creating spends than a census will execute.
OverBound(survivors) == Cardinality(ParentsOf(survivors)) > MaxSpends

(***************************************************************************)
(* The census.                                                             *)
(***************************************************************************)
Return(r) == pc' = "done" /\ outcome' = r

\* A call that ends before it has listed anything.
Refuse(r) ==
  /\ pc = "peak"
  /\ Return(r)
  /\ UNCHANGED <<facts, chain, pass, history>>

TerminalEpoch == prior.epoch = MaxEpoch /\ Refuse(Malformed)

PeakUnavailable == prior.epoch # MaxEpoch /\ Refuse(Unavailable)

\* Mutation: one block less than the finality depth counts as final.
FinalOneEarly == tip + 1 >= at + FinalityDepth

FinalAtPeak == tip >= at + FinalityDepth

ReadPeakPending == prior.epoch # MaxEpoch /\ ~FinalAtPeak /\ Refuse(Pending)

ReadPeakFinal ==
  /\ pc = "peak"
  /\ prior.epoch # MaxEpoch
  /\ FinalAtPeak
  /\ pc' = "records"
  /\ UNCHANGED <<facts, chain, pass, outcome, history>>

RecordsUnavailable ==
  /\ pc = "records"
  /\ Return(Unavailable)
  /\ UNCHANGED <<facts, chain, pass, history>>

ReadRecords ==
  /\ pc = "records"
  /\ \E report \in Reports, listing \in Listings :
       LET verdict == Screened(report)
           Under(r) == {c \in Coins : verdict[c] = r}
       IN  /\ examined' = SumFunction(listing)
           /\ todo' = [c \in Coins |-> IF verdict[c] = "kept" THEN listing[c] ELSE 0]
           /\ excluded' = [r \in Rules |-> SumFunctionOnSet(listing, Under(r))]
           /\ lies' = [lies EXCEPT !.record = Misreported(listing, report)]
  /\ IF OverBound(Listed(todo')) THEN Return(Incomplete)
                                 ELSE pc' = "spends" /\ UNCHANGED outcome
  /\ UNCHANGED <<facts, chain, spends, selected, executed>>

(***************************************************************************)
(* Pass two. The order in which candidates are taken is the source's, which *)
(* may be any. A step takes one and reads its creating spend, unless an     *)
(* earlier candidate's read answered for it.                                *)
(***************************************************************************)
Candidate(c) == pc = "spends" /\ todo[c] > 0
Cached(c) == c \in DOMAIN spends

Judged(c) == todo' = [todo EXCEPT ![c] = @ - 1]

Excluding(rule) == excluded' = [excluded EXCEPT ![rule] = @ + 1]

Executing(p) == executed' = [executed EXCEPT ![p] = @ + 1]

\* What executing a parent's spend says of each coin it created. The outputs
\* of one spend share its owner, which the lineage proof names; the memos are
\* the solution's.
Genuine(p) == [owner |-> kind[p], memos |-> [c \in CoinsOf(p) |-> advert[c]]]

\* The spends of the coin p that a source may answer with and that decode.
SpendAnswers(p) ==
  IF p \in Suspects THEN [owner : Owners, memos : [CoinsOf(p) -> Adverts]]
                    ELSE {told \in {Genuine(p)} : made[p] # NoHeight /\ kind[p] \in Owners}

\* Mutation: the reveal is not compared with the puzzle hash of the coin.
RevealUnchecked(p, told) == TRUE

\* The coin p commits to its puzzle, hence to the owner that the reveal names,
\* and to nothing of the solution.
RevealMatches(p, told) == told.owner = kind[p]

Readout(told, c) == [owner |-> told.owner, advert |-> told.memos[c]]

\* The coins whose memos a spend tells otherwise than the chain.
Misread(p, told) == {c \in CoinsOf(p) : told.memos[c] # advert[c]}

\* Mutation: only the spend executed last is remembered.
RemembersLast(p, told) == spends' = [c \in CoinsOf(p) |-> Readout(told, c)]

\* One execution answers for every coin that the spend created.
Remembers(p, told) ==
  spends' = [c \in DOMAIN spends \union CoinsOf(p) |->
               IF c \in DOMAIN spends THEN spends[c] ELSE Readout(told, c)]

Execute(p) ==
  \E told \in SpendAnswers(p) :
    /\ RevealMatches(p, told)
    /\ Executing(p)
    /\ Remembers(p, told)
    /\ lies' = [lies EXCEPT !.spend = @ \union Misread(p, told)]

\* The candidate's creating spend is known, from the cache or by reading it.
Authenticate(c) ==
  IF Cached(c) THEN UNCHANGED <<spends, history>> ELSE Execute(coin[c].parent)

\* The coin p was spent by a spend that this code cannot read.
DoesNotDecode(p) == made[p] # NoHeight /\ kind[p] = Garbled

\* A spend that does not decode excludes the candidate and is not cached. The
\* bytes are decoded before they are compared with anything the coin commits
\* to, so a source can answer undecodable ones for any spend.
Malforms(c) ==
  /\ ~Cached(c)
  /\ DoesNotDecode(coin[c].parent) \/ coin[c].parent \in Suspects
  /\ Executing(coin[c].parent)
  /\ lies' = [lies EXCEPT !.bytes = @ \union {d \in {c} : ~DoesNotDecode(coin[d].parent)}]
  /\ Judged(c)
  /\ Excluding("unreadable")
  /\ UNCHANGED <<facts, chain, spends, selected, examined, pc, outcome>>

SpendMalformed == \E c \in Coins : Candidate(c) /\ Malforms(c)

\* The read fails, or answers no spend, another coin's, or a decodable reveal
\* that is not the coin's: the census ends without a result.
SpendUnanswered ==
  /\ \E c \in Coins : Candidate(c) /\ ~Cached(c)
  /\ Return(Unavailable)
  /\ UNCHANGED <<facts, chain, pass, history>>

Unreadable(readout) == readout.advert = NotAMirror
WrongEpoch(readout) == ~Unreadable(readout) /\ readout.advert.epoch # prior.epoch
Unattributed(readout) ==
  /\ ~Unreadable(readout)
  /\ ~WrongEpoch(readout)
  /\ ~readout.advert.proven
Qualified(readout) ==
  /\ ~Unreadable(readout)
  /\ ~WrongEpoch(readout)
  /\ ~Unattributed(readout)

Disqualify(c, rule) ==
  /\ Judged(c)
  /\ Excluding(rule)
  /\ UNCHANGED <<facts, chain, selected, examined, pc, outcome>>

JudgeUnreadable == \E c \in Coins :
  Candidate(c) /\ Authenticate(c) /\ Unreadable(spends'[c]) /\ Disqualify(c, "unreadable")
JudgeWrongEpoch == \E c \in Coins :
  Candidate(c) /\ Authenticate(c) /\ WrongEpoch(spends'[c]) /\ Disqualify(c, "wrong_epoch")
JudgeUnattributed == \E c \in Coins :
  Candidate(c) /\ Authenticate(c) /\ Unattributed(spends'[c]) /\ Disqualify(c, "unattributed")

Triple(readout) == [owner |-> readout.owner, root |-> readout.advert.root]

\* Mutation: of two equal coins the one listed last wins.
SupersedesOnTie(c, d) == coin[c].amount >= coin[d].amount

\* Mutation: the coin listed last wins.
SupersedesAlways(c, d) == TRUE

\* C9: the larger amount, and of equal amounts the lower coin id.
Supersedes(c, d) ==
  \/ coin[c].amount > coin[d].amount
  \/ coin[c].amount = coin[d].amount /\ c < d

Representing(c, t) ==
  selected' = [u \in DOMAIN selected \union {t} |-> IF u = t THEN c ELSE selected[u]]

Select == \E c \in Coins :
  /\ Candidate(c) /\ Authenticate(c) /\ Qualified(spends'[c])
  /\ Triple(spends'[c]) \notin DOMAIN selected
  /\ Judged(c)
  /\ Representing(c, Triple(spends'[c]))
  /\ UNCHANGED <<facts, chain, excluded, examined, pc, outcome>>

\* Mutation: a superseded candidate is counted only if it displaces a coin.
ContestUncounted(c, t) ==
  IF Supersedes(c, selected[t]) THEN Representing(c, t) /\ Excluding("superseded")
                                ELSE UNCHANGED <<selected, excluded>>

\* One of the two coins is superseded, whichever it is.
Contest(c, t) ==
  /\ IF Supersedes(c, selected[t]) THEN Representing(c, t) ELSE UNCHANGED selected
  /\ Excluding("superseded")

Contend == \E c \in Coins :
  /\ Candidate(c) /\ Authenticate(c) /\ Qualified(spends'[c])
  /\ Triple(spends'[c]) \in DOMAIN selected
  /\ Judged(c)
  /\ Contest(c, Triple(spends'[c]))
  /\ UNCHANGED <<facts, chain, examined, pc, outcome>>

Locked == SumFunction([t \in DOMAIN selected |-> coin[selected[t]].amount])
SelectedOwners == {t.owner : t \in DOMAIN selected}

Totals == Final(Cardinality(DOMAIN selected), Cardinality(SelectedOwners), Locked)

\* Mutation: the sum is not checked.
TotalUnchecked ==
  /\ pc = "spends"
  /\ \A c \in Coins : todo[c] = 0
  /\ Return(Totals)
  /\ UNCHANGED <<facts, chain, pass, history>>

\* Every candidate is judged: the totals, whose sum is checked.
Total ==
  /\ pc = "spends"
  /\ \A c \in Coins : todo[c] = 0
  /\ Return(IF Locked > MaxLocked THEN Malformed ELSE Totals)
  /\ UNCHANGED <<facts, chain, pass, history>>

Init ==
  /\ coin \in [Coins -> [parent : Parents, amount : Amounts, foreign : BOOLEAN]]
  /\ IsInjective(coin)   \* a coin id is the hash of exactly these three
  /\ kind \in [Parents -> Owners \union {Coinbase, Garbled}]
  /\ prior \in [epoch : 0 .. MaxEpoch, required : Amounts]
  /\ at \in Heights
  /\ tip \in Heights
  /\ made \in [Parents -> 0 .. tip \union {NoHeight}]
  /\ spent \in [Coins -> 0 .. tip \union {NoHeight}]
  /\ WellDated(made, spent)
  /\ advert \in [Coins -> Adverts]
  /\ pc = "peak"
  /\ todo = [c \in Coins |-> 0]
  /\ spends = <<>>
  /\ selected = <<>>
  /\ excluded = [r \in Rules |-> 0]
  /\ examined = 0
  /\ outcome = Unanswered
  /\ executed = [p \in Parents |-> 0]
  /\ lies = [record |-> {}, spend |-> {}, bytes |-> {}]

Step ==
  \/ TerminalEpoch
  \/ PeakUnavailable
  \/ ReadPeakPending
  \/ ReadPeakFinal
  \/ RecordsUnavailable
  \/ ReadRecords
  \/ SpendMalformed
  \/ SpendUnanswered
  \/ JudgeUnreadable
  \/ JudgeWrongEpoch
  \/ JudgeUnattributed
  \/ Select
  \/ Contend
  \/ Total

Next == Step \/ Extend \/ Reorg

Spec == Init /\ [][Next]_vars

(***************************************************************************)
(* Properties. What a census must return is a function of the chain at the *)
(* census height, written here without the passes that compute it.         *)
(***************************************************************************)
\* Every value has the type the code gives it; a reported total fits a u64.
TypeOK ==
  /\ spends \in [DOMAIN spends -> Readouts] /\ DOMAIN spends \subseteq Coins
  /\ selected \in [DOMAIN selected -> Coins] /\ DOMAIN selected \subseteq Triples
  /\ todo \in [Coins -> 0 .. MaxRecords]
  /\ pc \in {"peak", "records", "spends", "done"}
  /\ excluded \in [Rules -> Nat]
  /\ executed \in [Parents -> Nat]
  /\ lies \in [record : SUBSET Coins, spend : SUBSET Coins, bytes : SUBSET Coins]
  /\ outcome \in {Unanswered, Pending, Incomplete, Unavailable, Malformed}
             \union [kind : {"final"}, epoch : 0 .. MaxEpoch, stores : Nat,
                     owners : Nat, locked : 0 .. MaxLocked]

LockedAt(c, h) == Born(c) \in 0 .. h /\ spent[c] \notin 0 .. h

\* The coins of the mirror puzzle hash that were locked at the census height
\* and may, by their amount, meet the requirement.
Survivors ==
  {c \in Coins : /\ ~coin[c].foreign
                 /\ kind[coin[c].parent] # Coinbase
                 /\ LockedAt(c, at)
                 /\ coin[c].amount >= prior.required}

Counted ==
  {c \in Survivors : /\ kind[coin[c].parent] \in Owners
                     /\ advert[c] # NotAMirror
                     /\ advert[c].epoch = prior.epoch
                     /\ advert[c].proven}

Advertises(c) == [owner |-> kind[coin[c].parent], root |-> advert[c].root]
CountedTriples == {Advertises(c) : c \in Counted}
Backing(t) == {c \in Counted : Advertises(c) = t}
Stake(t) == Max({coin[c].amount : c \in Backing(t)})
TotalStake == SumFunction([t \in CountedTriples |-> Stake(t)])

LiedAbout == lies.record \union lies.spend \union lies.bytes

\* A final census is the census of the chain at its height: the same whatever
\* order, repetitions and additions a source lists the coins in, and still
\* the same after the chain has moved on, during the call and after it;
\* provided that the source said nothing untrue of any coin.
FinalIsIdeal ==
  outcome.kind = "final" /\ LiedAbout = {} =>
    outcome = Final(Cardinality(CountedTriples),
                    Cardinality({t.owner : t \in CountedTriples}), TotalStake)

\* C9 as the specification has it: the larger amount, then the lower coin id.
Outranks(c, d) ==
  \/ coin[c].amount > coin[d].amount
  \/ coin[c].amount = coin[d].amount /\ c <= d

\* C9 is deterministic, and what a source says of one coin moves no other:
\* whatever it says of some, every other coin that counts is represented by
\* itself or by one that outranks it, and only coins that count for a triple,
\* or that were lied about, represent it. Of a truthful source that is the
\* largest coin of each triple, and of those the one with the lowest id.
RepresentativesAreIdeal ==
  outcome.kind = "final" =>
    /\ \A t \in DOMAIN selected : selected[t] \in Backing(t) \union LiedAbout
    /\ \A c \in Counted \ LiedAbout :
         Advertises(c) \in DOMAIN selected /\ Outranks(selected[Advertises(c)], c)

\* C8: whatever spends a source answers with, a coin counts for the wallet
\* that its own parent commits to and for no other.
OwnersAreProven ==
  \A t \in DOMAIN selected : t.owner = kind[coin[selected[t]].parent]

\* Every record the source listed is accounted for: it represents a triple, is
\* excluded under exactly one rule, or is still to be judged.
NothingLost ==
  examined = SumFunction(todo) + Cardinality(DOMAIN selected) + SumFunction(excluded)

\* A census refuses for its bound exactly if the distinct creating spends of
\* the coins locked at its height exceed it: the coins whose records are
\* untrue can move that either way, nothing else can. It refuses as malformed
\* for the terminal epoch or a total that no u64 holds, or it was lied to.
RefusalsJustified ==
  /\ outcome = Incomplete =>
       Cardinality(ParentsOf(Survivors \union lies.record)) > MaxSpends
  /\ outcome.kind = "final" =>
       Cardinality(ParentsOf(Survivors \ lies.record)) <= MaxSpends
  /\ outcome = Malformed =>
       prior.epoch = MaxEpoch \/ TotalStake > MaxLocked \/ LiedAbout # {}

\* A creating spend that decodes, as the source answered it, is executed at
\* most once per census. One that does not is not cached, and is asked for
\* again by each further coin it created.
SpendsExecutedOnce ==
  \A p \in Parents : kind[p] # Garbled /\ CoinsOf(p) \cap lies.bytes = {} => executed[p] <= 1

\* query.rs on SpendCache::read: a source cannot delete a mirror from a census
\* by answering a wrong spend while the census still completes. Here every
\* record and every spend that decodes is true.
NoMirrorDeleted ==
  outcome.kind = "final" /\ lies.record = {} /\ lies.spend = {} =>
    CountedTriples \subseteq DOMAIN selected
=============================================================================
