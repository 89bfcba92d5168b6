---------------------------- MODULE CensusProofs ----------------------------
(***************************************************************************)
(* Proofs about the census, for any number of coins, spends, owners and    *)
(* heights. First what bounds its work: the invariant ties the history of  *)
(* executions to the cache that is to prevent them. Then that its answer   *)
(* is a function of the chain: the invariant says what the selection of    *)
(* the candidates judged so far is, and that the chain up to the census    *)
(* height cannot change any more once the peak was found deep enough. Last *)
(* what it counts: the types of its values, and that no record is lost.    *)
(***************************************************************************)
EXTENDS Census, Sums

Population == coin \in [Coins -> [parent : Parents, amount : Amounts, foreign : BOOLEAN]]

Untruths == lies \in [record : SUBSET Coins, spend : SUBSET Coins, bytes : SUBSET Coins]

\* What a spend that the source answered and that was the coin's leaves behind.
LEMMA ExecuteTells ==
  ASSUME Untruths, NEW p, Execute(p)
  PROVE  \E told \in SpendAnswers(p) :
           /\ told.owner = kind[p] /\ kind[p] \in Owners
           /\ spends' = [c \in DOMAIN spends \union CoinsOf(p) |->
                           IF c \in DOMAIN spends THEN spends[c] ELSE Readout(told, c)]
           /\ Untruths'
           /\ lies'.record = lies.record /\ lies'.bytes = lies.bytes
           /\ lies'.spend = lies.spend \union Misread(p, told)
<1>1. PICK told \in SpendAnswers(p) :
        /\ RevealMatches(p, told)
        /\ Remembers(p, told)
        /\ lies' = [lies EXCEPT !.spend =
                      lies.spend \union Misread(p, told)]
  BY DEF Execute
<1>2. told.owner = kind[p]
  BY <1>1 DEF RevealMatches
<1>3. told.owner \in Owners
  <2>1. CASE p \in Suspects
    BY <2>1 DEF SpendAnswers
  <2>2. CASE p \notin Suspects
    BY <1>2, <2>2 DEF SpendAnswers
  <2> QED
    BY <2>1, <2>2
<1>4. /\ Untruths'
      /\ lies'.record = lies.record /\ lies'.bytes = lies.bytes
      /\ lies'.spend = lies.spend \union Misread(p, told)
  BY <1>1 DEF Untruths, Misread, CoinsOf
<1> QED
  BY <1>1, <1>2, <1>3, <1>4 DEF Remembers

LEMMA FirstFailedIsScreenRule ==
  ASSUME NEW c, NEW claim, ~Kept(c, claim)
  PROVE  FirstFailed(c, claim) \in Range(ScreenRules)
<1>1. DOMAIN ScreenRules = 1 .. 6
  BY DEF ScreenRules
<1>2. /\ Failed(c, claim) \subseteq Nat /\ Failed(c, claim) # {}
      /\ Failed(c, claim) \subseteq DOMAIN ScreenRules
  BY <1>1 DEF Kept, Failed
<1>3. Min(Failed(c, claim)) \in DOMAIN ScreenRules
  BY <1>2, MinIsLeast
<1> QED
  BY <1>3 DEF FirstFailed, Range

LEMMA RulesAreNotKept == \A r \in Rules : r # "kept"
<1>1. \A i \in 1 .. 6 : ScreenRules[i] # "kept"
  <2>1. \A i \in 1 .. 6 : i = 1 \/ i = 2 \/ i = 3 \/ i = 4 \/ i = 5 \/ i = 6
    OBVIOUS
  <2> QED
    BY <2>1 DEF ScreenRules
<1>2. DOMAIN ScreenRules = 1 .. 6
  BY DEF ScreenRules
<1> QED
  BY <1>1, <1>2 DEF Range, Rules, JudgeRules

\* What is not kept is excluded by a rule of the prescreen.
LEMMA RulesNeverKeep ==
  ASSUME NEW c, NEW claim, ~Kept(c, claim)
  PROVE  FirstFailed(c, claim) \in Rules /\ FirstFailed(c, claim) # "kept"
BY FirstFailedIsScreenRule, RulesAreNotKept DEF Rules

\* The coins that the prescreen excludes under a rule.
Under(report, r) == {c \in Coins : Screened(report)[c] = r}

\* What the records leave behind.
LEMMA RecordsTell ==
  ASSUME Untruths, ReadRecords
  PROVE  \E report \in Reports, listing \in Listings :
           /\ examined' = SumFunction(listing)
           /\ todo' = [c \in Coins |-> IF Kept(c, report[c]) THEN listing[c] ELSE 0]
           /\ excluded' = [r \in Rules |-> SumFunctionOnSet(listing, Under(report, r))]
           /\ Untruths'
           /\ lies'.record = Misreported(listing, report)
           /\ lies'.spend = lies.spend /\ lies'.bytes = lies.bytes
<1>1. PICK report \in Reports, listing \in Listings :
        /\ examined' = SumFunction(listing)
        /\ todo' = [c \in Coins |-> IF Screened(report)[c] = "kept" THEN listing[c] ELSE 0]
        /\ excluded' = [r \in Rules |->
              SumFunctionOnSet(listing, {c \in Coins : Screened(report)[c] = r})]
        /\ lies' = [lies EXCEPT !.record = Misreported(listing, report)]
  BY DEF ReadRecords
<1>2. \A c \in Coins : Screened(report)[c] = "kept" <=> Kept(c, report[c])
  BY RulesNeverKeep DEF Screened
<1>3. /\ Untruths'
      /\ lies'.record = Misreported(listing, report)
      /\ lies'.spend = lies.spend /\ lies'.bytes = lies.bytes
  BY <1>1 DEF Untruths, Misreported
<1>4. todo' = [c \in Coins |-> IF Kept(c, report[c]) THEN listing[c] ELSE 0]
  BY <1>1, <1>2
<1>5. excluded' = [r \in Rules |-> SumFunctionOnSet(listing, Under(report, r))]
  BY <1>1 DEF Under
<1> QED
  BY <1>1, <1>3, <1>4, <1>5

\* What judging a candidate for bytes that do not decode leaves behind.
LEMMA MalformsTells ==
  ASSUME Untruths, NEW c \in Coins, Malforms(c)
  PROVE  /\ Untruths'
         /\ lies'.record = lies.record /\ lies'.spend = lies.spend
         /\ lies.bytes \subseteq lies'.bytes
         /\ kind[coin[c].parent] = Garbled \/ c \in lies'.bytes
<1> DEFINE told == {d \in {c} : ~DoesNotDecode(coin[d].parent)}
<1>1. lies' = [lies EXCEPT !.bytes = lies.bytes \union told]
  BY DEF Malforms
<1>2. told \subseteq Coins /\ (kind[coin[c].parent] = Garbled \/ c \in told)
  BY DEF DoesNotDecode
<1> HIDE DEF told
<1> QED
  BY <1>1, <1>2 DEF Untruths

\* A spend that was executed and decoded answers for each coin it created.
Answered(p) == executed[p] = 0 \/ (executed[p] = 1 /\ CoinsOf(p) \subseteq DOMAIN spends)
Readable(p) == kind[p] # Garbled /\ CoinsOf(p) \cap lies.bytes = {}

CacheInv ==
  /\ Population
  /\ Untruths
  /\ executed \in [Parents -> Nat]
  /\ \A p \in Parents : Readable(p) => Answered(p)

LEMMA InitCacheInv == Init => CacheInv
  BY DEF Init, CacheInv, Population, Answered, Untruths

\* Executing the spend of a coin that is not cached keeps the invariant: no
\* coin of that spend is cached, so it was not executed before.
LEMMA ExecuteKeepsCacheInv ==
  ASSUME CacheInv, NEW c \in Coins, ~Cached(c), Execute(coin[c].parent),
         UNCHANGED <<coin, kind>>
  PROVE  CacheInv'
<1> DEFINE q == coin[c].parent
<1>1. q \in Parents
  BY DEF CacheInv, Population
<1>2. /\ executed' = [executed EXCEPT ![q] = executed[q] + 1]
      /\ executed' \in [Parents -> Nat]
  BY <1>1 DEF CacheInv, Execute, Executing
<1>3. /\ DOMAIN spends' = DOMAIN spends \union CoinsOf(q)
      /\ Untruths' /\ lies'.bytes = lies.bytes
  BY ExecuteTells DEF CacheInv
<1>4. \A p \in Parents : CoinsOf(p)' = CoinsOf(p)
  BY DEF CoinsOf
<1>5. \A p \in Parents : Readable(p)' => Readable(p)
  BY <1>3, <1>4 DEF Readable
<1>6. ASSUME NEW p \in Parents, Readable(p)'
      PROVE  Answered(p)'
  <2>1. Answered(p)
    BY <1>5, <1>6 DEF CacheInv
  <2>2. CASE p = q
    <3>1. c \in CoinsOf(q) /\ c \notin DOMAIN spends
      BY DEF CoinsOf, Cached
    <3>2. executed'[p] = 1
      BY <1>1, <1>2, <2>1, <2>2, <3>1 DEF Answered, CacheInv
    <3> QED
      BY <1>3, <1>4, <2>2, <3>2 DEF Answered
  <2>3. CASE p # q
    <3>1. executed'[p] = executed[p]
      BY <1>1, <1>2, <2>3 DEF CacheInv
    <3> QED
      BY <1>3, <1>4, <2>1, <3>1 DEF Answered
  <2> QED
    BY <2>2, <2>3
<1> QED
  BY <1>2, <1>3, <1>6 DEF CacheInv, Population

LEMMA AuthenticateKeepsCacheInv ==
  ASSUME CacheInv, NEW c \in Coins, Authenticate(c), UNCHANGED <<coin, kind>>
  PROVE  CacheInv'
<1>1. CASE Cached(c)
  BY <1>1 DEF Authenticate, CacheInv, Population, Answered, Readable, CoinsOf, Untruths, history
<1>2. CASE ~Cached(c)
  BY <1>2, ExecuteKeepsCacheInv DEF Authenticate
<1> QED
  BY <1>1, <1>2

LEMMA NextKeepsCacheInv == CacheInv /\ [Next]_vars => CacheInv'
<1> SUFFICES ASSUME CacheInv, [Next]_vars
             PROVE  CacheInv'
  OBVIOUS
<1> USE DEF facts, chain, pass, history
<1>1. CASE UNCHANGED <<coin, kind, spends, executed, lies>>
  BY <1>1 DEF CacheInv, Population, Answered, Readable, CoinsOf, Untruths
<1>2. CASE SpendMalformed
  <2>1. PICK c \in Coins : Malforms(c)
    BY <1>2 DEF SpendMalformed
  <2> DEFINE q == coin[c].parent
  <2>2. q \in Parents
    BY DEF CacheInv, Population
  <2>3. UNCHANGED <<coin, kind, spends>>
    BY <2>1 DEF Malforms
  <2>4. executed' = [executed EXCEPT ![q] = executed[q] + 1]
    BY <2>1 DEF Malforms, Executing
  <2>5. executed' \in [Parents -> Nat]
    BY <2>2, <2>4 DEF CacheInv
  <2>6. /\ Untruths' /\ lies.bytes \subseteq lies'.bytes
        /\ kind[q] = Garbled \/ c \in lies'.bytes
    BY <2>1, MalformsTells DEF CacheInv
  <2>7. \A p \in Parents : CoinsOf(p)' = CoinsOf(p)
    BY <2>3 DEF CoinsOf
  <2>8. ASSUME NEW p \in Parents, Readable(p)'
        PROVE  Answered(p)'
    <3>1. Readable(p)
      BY <2>3, <2>6, <2>7, <2>8 DEF Readable
    <3>2. p # q
      BY <2>3, <2>6, <2>7, <2>8 DEF Readable, CoinsOf
    <3>3. executed'[p] = executed[p]
      BY <2>2, <2>4, <3>2 DEF CacheInv
    <3>4. Answered(p)
      BY <3>1 DEF CacheInv
    <3> QED
      BY <2>3, <2>7, <3>3, <3>4 DEF Answered
  <2> QED
    BY <2>3, <2>5, <2>6, <2>8 DEF CacheInv, Population
<1>3. CASE JudgeUnreadable
  BY <1>3, AuthenticateKeepsCacheInv DEF JudgeUnreadable, Disqualify
<1>4. CASE JudgeWrongEpoch
  BY <1>4, AuthenticateKeepsCacheInv DEF JudgeWrongEpoch, Disqualify
<1>5. CASE JudgeUnattributed
  BY <1>5, AuthenticateKeepsCacheInv DEF JudgeUnattributed, Disqualify
<1>6. CASE Select
  BY <1>6, AuthenticateKeepsCacheInv DEF Select
<1>7. CASE Contend
  BY <1>7, AuthenticateKeepsCacheInv DEF Contend
<1>8. CASE UNCHANGED vars
  BY <1>1, <1>8 DEF vars
<1>9. CASE TerminalEpoch \/ PeakUnavailable \/ ReadPeakPending \/ ReadPeakFinal
  BY <1>1, <1>9 DEF TerminalEpoch, PeakUnavailable, ReadPeakPending, ReadPeakFinal, Refuse
<1>10. CASE RecordsUnavailable \/ SpendUnanswered \/ Total
  BY <1>1, <1>10 DEF RecordsUnavailable, SpendUnanswered, Total
<1>11. CASE Extend \/ Reorg
  BY <1>1, <1>11 DEF Extend, Reorg
<1>12. CASE ReadRecords
  <2>1. UNCHANGED <<coin, kind, spends, executed>>
    BY <1>12 DEF ReadRecords
  <2>2. Untruths' /\ lies'.bytes = lies.bytes
    BY <1>12, RecordsTell DEF CacheInv
  <2> QED
    BY <2>1, <2>2 DEF CacheInv, Population, Answered, Readable, CoinsOf
<1> QED
  BY <1>2, <1>3, <1>4, <1>5, <1>6, <1>7, <1>8, <1>9, <1>10, <1>11, <1>12 DEF Next, Step

\* The bound on distinct creating spends bounds what a census executes: a
\* creating spend that the source answered and that decodes is fetched and
\* executed at most once, however many coins it created and however often a
\* source lists them.
THEOREM DecodableSpendsExecutedOnce == Spec => []SpendsExecutedOnce
<1>1. CacheInv => SpendsExecutedOnce
  BY DEF CacheInv, Answered, Readable, SpendsExecutedOnce
<1> QED
  BY InitCacheInv, NextKeepsCacheInv, <1>1, PTL DEF Spec

(***************************************************************************)
(* Who a coin counts for.                                                  *)
(***************************************************************************)
OwnerInv ==
  /\ Population
  /\ Untruths
  /\ \A c \in DOMAIN spends :
       spends[c].owner = kind[coin[c].parent] /\ kind[coin[c].parent] \in Owners
  /\ OwnersAreProven

LEMMA InitOwnerInv == Init => OwnerInv
  BY DEF Init, OwnerInv, Population, Untruths, OwnersAreProven

\* Whatever a source answers, the readout of a coin names the wallet that its
\* parent commits to.
LEMMA AuthenticateProvesOwner ==
  ASSUME OwnerInv, NEW c \in Coins, Authenticate(c), UNCHANGED <<coin, kind>>
  PROVE  /\ Untruths'
         /\ c \in DOMAIN spends'
         /\ \A d \in DOMAIN spends' :
              spends'[d].owner = kind[coin[d].parent] /\ kind[coin[d].parent] \in Owners
<1>1. CASE Cached(c)
  BY <1>1 DEF Authenticate, Cached, OwnerInv, Untruths, history
<1>2. CASE ~Cached(c)
  <2> DEFINE p == coin[c].parent
  <2>1. PICK told \in SpendAnswers(p) :
          /\ told.owner = kind[p] /\ kind[p] \in Owners
          /\ spends' = [d \in DOMAIN spends \union CoinsOf(p) |->
                          IF d \in DOMAIN spends THEN spends[d] ELSE Readout(told, d)]
          /\ Untruths'
    BY <1>2, ExecuteTells DEF Authenticate, OwnerInv
  <2>2. c \in CoinsOf(p)
    BY DEF CoinsOf
  <2>3. ASSUME NEW d \in DOMAIN spends'
        PROVE  spends'[d].owner = kind[coin[d].parent] /\ kind[coin[d].parent] \in Owners
    <3>1. CASE d \in DOMAIN spends
      BY <2>1, <3>1 DEF OwnerInv
    <3>2. CASE d \notin DOMAIN spends
      <4>1. d \in CoinsOf(p) /\ spends'[d] = Readout(told, d)
        BY <2>1, <3>2
      <4> QED
        BY <2>1, <4>1 DEF CoinsOf, Readout
    <3> QED
      BY <3>1, <3>2
  <2> QED
    BY <2>1, <2>2, <2>3
<1> QED
  BY <1>1, <1>2

LEMMA SelectKeepsOwnerInv ==
  ASSUME OwnerInv, Select \/ Contend
  PROVE  OwnerInv'
<1>1. PICK c \in Coins :
        /\ Authenticate(c)
        /\ UNCHANGED <<facts, chain>>
        /\ Representing(c, Triple(spends'[c])) \/ UNCHANGED selected
  BY DEF Select, Contend, Contest
<1>2. UNCHANGED <<coin, kind>>
  BY <1>1 DEF facts
<1>3. /\ Untruths'
      /\ c \in DOMAIN spends'
      /\ \A d \in DOMAIN spends' :
           spends'[d].owner = kind[coin[d].parent] /\ kind[coin[d].parent] \in Owners
  BY <1>1, <1>2, AuthenticateProvesOwner
<1> DEFINE t == Triple(spends'[c])
<1>4. t.owner = kind[coin[c].parent]
  BY <1>3 DEF Triple
<1>5. \A u \in DOMAIN selected : u.owner = kind[coin[selected[u]].parent]
  BY DEF OwnerInv, OwnersAreProven
<1>6. \A u \in DOMAIN selected' : u.owner = kind[coin[selected'[u]].parent]
  <2>1. CASE Representing(c, t)
    <3>1. selected' = [u \in DOMAIN selected \union {t} |-> IF u = t THEN c ELSE selected[u]]
      BY <2>1 DEF Representing
    <3> HIDE DEF t
    <3> QED
      BY <1>4, <1>5, <3>1
  <2>2. CASE UNCHANGED selected
    BY <1>5, <2>2
  <2> QED
    BY <1>1, <2>1, <2>2
<1> QED
  BY <1>2, <1>3, <1>6 DEF OwnerInv, Population, OwnersAreProven

LEMMA NextKeepsOwnerInv == OwnerInv /\ [Next]_vars => OwnerInv'
<1> SUFFICES ASSUME OwnerInv, [Next]_vars PROVE OwnerInv'
  OBVIOUS
<1>1. CASE UNCHANGED <<coin, kind, spends, selected>> /\ Untruths'
  BY <1>1 DEF OwnerInv, Population, OwnersAreProven
<1>2. CASE JudgeUnreadable \/ JudgeWrongEpoch \/ JudgeUnattributed
  <2>1. PICK c \in Coins : Authenticate(c) /\ UNCHANGED <<facts, selected>>
    BY <1>2 DEF JudgeUnreadable, JudgeWrongEpoch, JudgeUnattributed, Disqualify
  <2>2. UNCHANGED <<coin, kind>>
    BY <2>1 DEF facts
  <2> QED
    BY <2>1, <2>2, AuthenticateProvesOwner DEF OwnerInv, Population, OwnersAreProven
<1>3. CASE SpendMalformed
  <2>1. PICK c \in Coins : Malforms(c)
    BY <1>3 DEF SpendMalformed
  <2>2. UNCHANGED <<coin, kind, spends, selected>>
    BY <2>1 DEF Malforms, facts
  <2> QED
    BY <1>1, <2>1, <2>2, MalformsTells DEF OwnerInv
<1>4. CASE ReadRecords
  <2>1. UNCHANGED <<coin, kind, spends, selected>>
    BY <1>4 DEF ReadRecords, facts
  <2> QED
    BY <1>1, <1>4, <2>1, RecordsTell DEF OwnerInv
<1>5. CASE TerminalEpoch \/ PeakUnavailable \/ ReadPeakPending \/ ReadPeakFinal
  BY <1>1, <1>5 DEF TerminalEpoch, PeakUnavailable, ReadPeakPending, ReadPeakFinal, Refuse,
                    facts, pass, history, OwnerInv, Untruths
<1>6. CASE RecordsUnavailable \/ SpendUnanswered \/ Total \/ Extend \/ Reorg \/ UNCHANGED vars
  BY <1>1, <1>6 DEF RecordsUnavailable, SpendUnanswered, Total, Extend, Reorg, vars,
                    facts, pass, history, OwnerInv, Untruths
<1> QED
  BY <1>2, <1>3, <1>4, <1>5, <1>6, SelectKeepsOwnerInv DEF Next, Step

LEMMA Ownership == Spec => []OwnerInv
  BY InitOwnerInv, NextKeepsOwnerInv, PTL DEF Spec

\* A coin counts only for the wallet that its parent commits to, whatever
\* spends a source answers with, for any number of coins, owners and spends.
THEOREM CoinsCountForTheirOwner == Spec => []OwnersAreProven
<1>1. OwnerInv => OwnersAreProven
  BY DEF OwnerInv
<1> QED
  BY <1>1, Ownership, PTL

(***************************************************************************)
(* The chain at the census height, which the finality depth has settled.   *)
(***************************************************************************)
Ground ==
  /\ Population
  /\ at \in Heights
  /\ tip \in Heights
  /\ made \in [Parents -> Heights \union {NoHeight}]
  /\ spent \in [Coins -> Heights \union {NoHeight}]
  /\ prior.required \in Nat

IdealTotals ==
  Final(Cardinality(CountedTriples), Cardinality({t.owner : t \in CountedTriples}), TotalStake)

LEMMA ChainMovesKeepGround ==
  ASSUME Ground, Extend \/ Reorg
  PROVE  Ground'
<1>1. CASE Extend
  <2>1. UNCHANGED <<coin, prior, at>> /\ tip' = tip + 1 /\ tip < MaxHeight
    BY <1>1 DEF Extend, facts
  <2>2. tip' \in Heights
    BY <2>1, BoundAssumption DEF Ground, Heights
  <2>3. made' \in [Parents -> Heights \union {NoHeight}]
    BY <1>1, <2>1, <2>2 DEF Extend, Ground
  <2>4. spent' \in [Coins -> Heights \union {NoHeight}]
    BY <1>1, <2>1, <2>2 DEF Extend, Ground
  <2> QED
    BY <2>1, <2>2, <2>3, <2>4 DEF Ground, Population, Heights
<1>2. CASE Reorg
  BY <1>2 DEF Reorg, Ground, Population, Heights, facts
<1> QED
  BY <1>1, <1>2

\* What is dated at or below the census height stays so dated, and what is
\* not never gets there.
LEMMA Settled ==
  ASSUME Ground, FinalAtPeak, Extend \/ Reorg
  PROVE  /\ FinalAtPeak'
         /\ \A c \in Coins : (Born(c) \in 0 .. at <=> Born(c)' \in 0 .. at)
         /\ \A c \in Coins : (spent[c] \in 0 .. at <=> spent'[c] \in 0 .. at)
         /\ \A c \in Coins : Born(c) \in 0 .. at => advert'[c] = advert[c]
<1>1. at \in Nat /\ tip \in Nat /\ MaxReorg \in Nat /\ FinalityDepth \in Nat
      /\ MaxReorg <= FinalityDepth /\ tip >= at + FinalityDepth
  BY BoundAssumption, FinalityAssumption DEF Ground, Heights, FinalAtPeak
<1>2. \A c \in Coins : coin[c].parent \in Parents
  BY DEF Ground, Population
<1>3. /\ \A c \in Coins : Born(c) \in Nat \union {NoHeight}
      /\ \A c \in Coins : spent[c] \in Nat \union {NoHeight}
  BY <1>2 DEF Ground, Born, Heights
<1>4. CASE Extend
  <2>1. UNCHANGED <<coin, at, advert>> /\ tip' = tip + 1
    BY <1>4 DEF Extend, facts
  <2>2. \A c \in Coins : Born(c)' = Born(c) \/ (Born(c) = NoHeight /\ Born(c)' = tip + 1)
    BY <1>2, <1>4, <2>1 DEF Extend, Born
  <2>3. \A c \in Coins : spent'[c] = spent[c] \/ (spent[c] = NoHeight /\ spent'[c] = tip + 1)
    BY <1>4 DEF Extend
  <2> QED
    BY <1>1, <1>3, <2>1, <2>2, <2>3 DEF NoHeight, FinalAtPeak
<1>5. CASE Reorg
  <2>1. UNCHANGED <<coin, at, tip>>
    BY <1>5 DEF Reorg, facts
  <2>2. \A c \in Coins : Born(c)' \in Rewritten(Born(c)) /\ spent'[c] \in Rewritten(spent[c])
    BY <1>2, <1>5, <2>1 DEF Reorg, Born
  <2>3. \A c \in Coins : Buried(Born(c)) => advert'[c] = advert[c]
    BY <1>5 DEF Reorg
  <2>4. ASSUME NEW h \in Nat \union {NoHeight}, NEW g \in Rewritten(h)
        PROVE  /\ h \in 0 .. at => Buried(h)
               /\ h \in 0 .. at <=> g \in 0 .. at
    BY <1>1 DEF Rewritten, Buried, NoHeight
  <2> QED
    BY <1>1, <1>3, <2>1, <2>2, <2>3, <2>4 DEF FinalAtPeak
<1> QED
  BY <1>4, <1>5

\* The census of the chain at its height is a function of what it counts.
LEMMA IdealDependsOnCounted ==
  ASSUME UNCHANGED <<coin, kind, prior>>, Counted' = Counted,
         \A c \in Counted : advert'[c] = advert[c]
  PROVE  /\ \A t : Backing(t)' = Backing(t)
         /\ TotalStake' = TotalStake
         /\ IdealTotals' = IdealTotals
<1>1. \A c \in Counted : Advertises(c)' = Advertises(c)
  BY DEF Advertises
<1>2. CountedTriples' = CountedTriples
  BY <1>1 DEF CountedTriples
<1>3. ASSUME NEW t
      PROVE  Backing(t)' = Backing(t) /\ Stake(t)' = Stake(t)
  <2>1. Backing(t)' = Backing(t)
    BY <1>1 DEF Backing
  <2> QED
    BY <2>1 DEF Stake
<1>4. TotalStake' = TotalStake
  BY <1>2, <1>3 DEF TotalStake
<1>5. IdealTotals' = IdealTotals
  BY <1>2, <1>4 DEF IdealTotals, Final
<1> QED
  BY <1>3, <1>4, <1>5

LEMMA IdealSettled ==
  ASSUME Ground, FinalAtPeak, Extend \/ Reorg
  PROVE  /\ FinalAtPeak'
         /\ Survivors' = Survivors
         /\ Counted' = Counted
         /\ \A c \in Survivors : advert'[c] = advert[c]
         /\ \A t : Backing(t)' = Backing(t)
         /\ TotalStake' = TotalStake
         /\ IdealTotals' = IdealTotals
<1>1. UNCHANGED <<coin, kind, prior, at>>
  BY DEF Extend, Reorg, facts
<1>2. Survivors' = Survivors /\ \A c \in Survivors : advert'[c] = advert[c]
  BY <1>1, Settled DEF Survivors, LockedAt
<1>3. Counted' = Counted
  BY <1>1, <1>2 DEF Counted
<1>4. \A c \in Counted : advert'[c] = advert[c]
  BY <1>2 DEF Counted
<1> QED
  BY <1>1, <1>2, <1>3, <1>4, Settled, IdealDependsOnCounted

(***************************************************************************)
(* The passes. Pass one keeps the survivors, but for the coins whose       *)
(* records are untrue; of the records it kept, those judged so far are     *)
(* represented by the selection, but for the coins that were lied about.   *)
(***************************************************************************)
LEMMA KeptSurvives ==
  ASSUME Ground, NEW c \in Coins, NEW claim, Truthful(c, claim)
  PROVE  Kept(c, claim) <=> c \in Survivors
<1> DEFINE fails == FailedRules(c, claim)
<1>1. Failed(c, claim) = {i \in 1 .. 6 : fails[ScreenRules[i]]}
  BY DEF Failed, ScreenRules
<1>2. Kept(c, claim)
        <=> /\ ~fails["foreign_puzzle"] /\ ~fails["block_reward"] /\ ~fails["undated"]
            /\ ~fails["not_yet_created"] /\ ~fails["spent_by_census_height"]
            /\ ~fails["below_requirement_unauthenticated"]
  <2>1. /\ ScreenRules[1] = "foreign_puzzle" /\ ScreenRules[2] = "block_reward"
        /\ ScreenRules[3] = "undated" /\ ScreenRules[4] = "not_yet_created"
        /\ ScreenRules[5] = "spent_by_census_height"
        /\ ScreenRules[6] = "below_requirement_unauthenticated"
    BY DEF ScreenRules
  <2>2. Kept(c, claim) <=> \A i \in 1 .. 6 : ~fails[ScreenRules[i]]
    BY <1>1 DEF Kept
  <2>3. \A i \in 1 .. 6 : i = 1 \/ i = 2 \/ i = 3 \/ i = 4 \/ i = 5 \/ i = 6
    OBVIOUS
  <2> HIDE DEF fails
  <2> QED
    BY <2>1, <2>2, <2>3
<1>3. Born(c) \in Nat \union {NoHeight} /\ spent[c] \in Nat \union {NoHeight} /\ at \in Nat
  BY DEF Ground, Population, Born, Heights
<1>4. /\ Born(c) \in 0 .. at <=> Born(c) # NoHeight /\ ~(Born(c) > at)
      /\ spent[c] \in 0 .. at <=> spent[c] # NoHeight /\ spent[c] <= at
  BY <1>3 DEF NoHeight
<1>5. /\ fails["foreign_puzzle"] <=> coin[c].foreign
      /\ fails["block_reward"] <=> kind[coin[c].parent] = Coinbase
      /\ fails["undated"] <=> Born(c) = NoHeight
      /\ fails["not_yet_created"] <=> Born(c) > at
      /\ fails["spent_by_census_height"] <=> spent[c] # NoHeight /\ spent[c] <= at
      /\ fails["below_requirement_unauthenticated"] <=> coin[c].amount < prior.required
  BY DEF FailedRules, Truthful
<1>6. coin[c].amount < prior.required <=> ~(coin[c].amount >= prior.required)
  <2> HIDE DEF fails
  <2>1. coin[c] \in [parent : Parents, amount : Amounts, foreign : BOOLEAN]
    BY DEF Ground, Population
  <2>2. coin[c].amount \in Nat
    BY <2>1, CoinAssumption
  <2>3. prior.required \in Nat
    BY DEF Ground
  <2> DEFINE held == coin[c].amount
             wanted == prior.required
  <2>4. held \in Nat /\ wanted \in Nat
    BY <2>2, <2>3
  <2> HIDE DEF held, wanted
  <2>5. held < wanted <=> ~(held >= wanted)
    BY <2>4
  <2> QED
    BY <2>5 DEF held, wanted
<1>7. LockedAt(c, at) <=> /\ ~(Born(c) = NoHeight) /\ ~(Born(c) > at)
                          /\ ~(spent[c] # NoHeight /\ spent[c] <= at)
  BY <1>4 DEF LockedAt
<1> HIDE DEF fails
<1> QED
  BY <1>2, <1>5, <1>6, <1>7 DEF Survivors

Represented(c) ==
  Advertises(c) \in DOMAIN selected /\ Outranks(selected[Advertises(c)], c)

\* What the cache says of a coin that nothing untrue was said of.
SpendsTrue ==
  \A c \in DOMAIN spends :
    c \in Survivors /\ c \notin LiedAbout => spends[c].advert = advert[c]

SelectionTrue ==
  /\ selected = [t \in DOMAIN selected |-> selected[t]]
  /\ \A t \in DOMAIN selected :
       selected[t] \in Coins /\ selected[t] \in Backing(t) \union LiedAbout

WithinBound == Cardinality(ParentsOf(Survivors \ lies.record)) <= MaxSpends

LoopInv ==
  /\ FinalAtPeak
  /\ todo \in [Coins -> Nat]
  /\ \A c \in Coins : todo[c] > 0 => c \in Survivors \/ c \in lies.record
  /\ WithinBound
  /\ SpendsTrue
  /\ SelectionTrue
  /\ \A c \in Counted : c \in LiedAbout \/ todo[c] > 0 \/ Represented(c)

Verdict ==
  /\ outcome.kind = "final" =>
       /\ FinalAtPeak
       /\ WithinBound
       /\ SelectionTrue
       /\ \A c \in Counted : c \in LiedAbout \/ Represented(c)
       /\ LiedAbout = {} => outcome = IdealTotals
  /\ outcome = Incomplete =>
       FinalAtPeak /\ Cardinality(ParentsOf(Survivors \union lies.record)) > MaxSpends
  /\ outcome = Malformed =>
       \/ prior.epoch = MaxEpoch
       \/ LiedAbout # {}
       \/ FinalAtPeak /\ TotalStake > MaxLocked

CensusInv ==
  /\ Ground
  /\ Untruths
  /\ pc \in {"peak", "records", "spends", "done"}
  /\ pc \in {"peak", "records"} => spends = <<>> /\ selected = <<>>
  /\ pc = "records" => FinalAtPeak
  /\ pc = "spends" => LoopInv
  /\ pc = "done" => Verdict

LEMMA OutranksIsOrder ==
  ASSUME Ground, NEW b \in Coins, NEW c \in Coins, NEW d \in Coins
  PROVE  /\ Outranks(c, c)
         /\ Supersedes(d, c) => Outranks(d, c)
         /\ ~Supersedes(c, d) => Outranks(d, c)
         /\ Outranks(c, d) /\ Outranks(b, c) => Outranks(b, d)
<1>1. /\ coin[b].amount \in Nat /\ coin[c].amount \in Nat /\ coin[d].amount \in Nat
      /\ b \in Nat /\ c \in Nat /\ d \in Nat
  BY CoinAssumption DEF Ground, Population
<1> QED
  BY <1>1 DEF Supersedes, Outranks

\* At the end of a walk in which nothing untrue was said, each triple holds
\* its stake.
LEMMA SelectionIsIdeal ==
  ASSUME Ground, LoopInv, \A c \in Coins : todo[c] = 0, LiedAbout = {}
  PROVE  Totals = IdealTotals /\ Locked = TotalStake
<1>1. \A c \in Counted : Represented(c)
  BY DEF LoopInv, Counted, Survivors
<1>2. /\ DOMAIN selected = CountedTriples
      /\ \A t \in DOMAIN selected : selected[t] \in Backing(t)
  BY <1>1 DEF LoopInv, SelectionTrue, Represented, CountedTriples, Backing
<1>3. ASSUME NEW t \in CountedTriples
      PROVE  coin[selected[t]].amount = Stake(t)
  <2> DEFINE d == selected[t]
             amounts == {coin[c].amount : c \in Backing(t)}
  <2>1. d \in Backing(t)
    BY <1>2, <1>3
  <2>2. \A c \in Backing(t) : c \in Coins /\ coin[c].amount \in Nat /\ c \in Nat
    BY CoinAssumption DEF Backing, Counted, Survivors, Ground, Population
  <2>3. \A c \in Backing(t) : Outranks(d, c)
    BY <1>1 DEF Backing, Represented
  <2>4. \A c \in Backing(t) : coin[d].amount >= coin[c].amount
    BY <2>1, <2>2, <2>3 DEF Outranks
  <2>5. coin[d].amount \in amounts /\ \A a \in amounts : a \in Nat /\ coin[d].amount >= a
    BY <2>1, <2>2, <2>4
  <2>6. Stake(t) \in amounts /\ \A a \in amounts : Stake(t) >= a
    <3>1. Stake(t) = CHOOSE x \in amounts : \A y \in amounts : x >= y
      BY DEF Stake, Max
    <3> HIDE DEF amounts
    <3> QED
      BY <2>5, <3>1
  <2>7. coin[d].amount = Stake(t)
    <3> HIDE DEF amounts
    <3> QED
      BY <2>5, <2>6
  <2> QED
    BY <2>7
<1>4. [t \in DOMAIN selected |-> coin[selected[t]].amount] = [t \in CountedTriples |-> Stake(t)]
  BY <1>2, <1>3
<1>5. Locked = TotalStake
  BY <1>4 DEF Locked, TotalStake
<1>6. Totals = IdealTotals
  BY <1>2, <1>5 DEF Totals, IdealTotals, SelectedOwners
<1> QED
  BY <1>5, <1>6

LEMMA InitCensusInv == Init => CensusInv
<1> SUFFICES ASSUME Init PROVE CensusInv
  OBVIOUS
<1>1. tip \in Heights /\ at \in Heights /\ 0 .. tip \subseteq Heights
  BY BoundAssumption DEF Init, Heights
<1>2. Ground
  BY <1>1, CoinAssumption DEF Init, Ground, Population
<1> QED
  BY <1>2 DEF Init, CensusInv, Untruths

\* Nothing that the ideal census is stated with changes while records are judged.
LEMMA IdealUnchanged ==
  ASSUME UNCHANGED <<facts, chain>>
  PROVE  /\ Survivors' = Survivors /\ Counted' = Counted
         /\ \A t : Backing(t)' = Backing(t)
         /\ \A c : Advertises(c)' = Advertises(c)
         /\ \A c, d : Outranks(d, c)' = Outranks(d, c)
         /\ Ground' = Ground /\ FinalAtPeak' = FinalAtPeak
         /\ TotalStake' = TotalStake
         /\ IdealTotals' = IdealTotals
         /\ \A S : ParentsOf(S)' = ParentsOf(S)
<1> USE DEF facts, chain
<1>1. UNCHANGED <<coin, kind, prior, at, advert, made, spent, tip>>
  OBVIOUS
<1>2. Survivors' = Survivors
  BY <1>1 DEF Survivors, LockedAt, Born
<1>3. Counted' = Counted
  BY <1>1, <1>2 DEF Counted
<1>4. /\ \A c : Advertises(c)' = Advertises(c)
      /\ \A c, d : Outranks(d, c)' = Outranks(d, c)
  BY <1>1 DEF Advertises, Outranks
<1>5. Ground' = Ground /\ FinalAtPeak' = FinalAtPeak
  BY <1>1 DEF Ground, Population, FinalAtPeak
<1>6. \A S : ParentsOf(S)' = ParentsOf(S)
  BY <1>1 DEF ParentsOf
<1> QED
  BY <1>1, <1>2, <1>3, <1>4, <1>5, <1>6, IdealDependsOnCounted

\* A source that lies more leaves less to be said.
Recalls ==
  /\ Untruths'
  /\ lies'.record = lies.record
  /\ lies.spend \subseteq lies'.spend
  /\ lies.bytes \subseteq lies'.bytes

LEMMA RecallsLies == ASSUME Recalls PROVE LiedAbout \subseteq LiedAbout'
  BY DEF Recalls, LiedAbout

\* The answer for one candidate, from the cache or from its creating spend, is
\* what the chain says of it, unless it was lied about.
LEMMA AnswerIsTrue ==
  ASSUME CensusInv, OwnerInv, NEW c \in Coins, Candidate(c), Authenticate(c),
         UNCHANGED <<facts, chain>>
  PROVE  /\ Recalls
         /\ SpendsTrue'
         /\ spends'[c].owner = kind[coin[c].parent] /\ kind[coin[c].parent] \in Owners
         /\ c \in LiedAbout' \/ (c \in Survivors /\ spends'[c].advert = advert[c])
<1>1. LoopInv /\ Untruths
  BY DEF CensusInv, Candidate
<1>2. c \in Survivors \/ c \in lies.record
  BY <1>1 DEF LoopInv, Candidate
<1>3. UNCHANGED <<coin, kind, advert>> /\ Survivors' = Survivors
  BY IdealUnchanged DEF facts, chain
<1>4. /\ c \in DOMAIN spends'
      /\ spends'[c].owner = kind[coin[c].parent] /\ kind[coin[c].parent] \in Owners
  BY <1>3, AuthenticateProvesOwner
<1>5. Recalls /\ SpendsTrue'
  <2>1. CASE Cached(c)
    <3>1. UNCHANGED <<spends, lies>>
      BY <2>1 DEF Authenticate, history
    <3>2. Recalls
      BY <1>1, <3>1 DEF Recalls, Untruths
    <3>3. SpendsTrue'
      BY <1>1, <1>3, <3>1 DEF LoopInv, SpendsTrue, LiedAbout
    <3> QED
      BY <3>2, <3>3
  <2>2. CASE ~Cached(c)
    <3> DEFINE p == coin[c].parent
    <3>1. Execute(p)
      BY <2>2 DEF Authenticate
    <3> HIDE DEF p
    <3>2. PICK told \in SpendAnswers(p) :
            /\ told.owner = kind[p] /\ kind[p] \in Owners
            /\ spends' = [d \in DOMAIN spends \union CoinsOf(p) |->
                            IF d \in DOMAIN spends THEN spends[d] ELSE Readout(told, d)]
            /\ Untruths'
            /\ lies'.record = lies.record /\ lies'.bytes = lies.bytes
            /\ lies'.spend = lies.spend \union Misread(p, told)
      BY <1>1, <3>1, ExecuteTells
    <3>3. Recalls
      BY <3>2 DEF Recalls
    <3>4. ASSUME NEW d \in DOMAIN spends', d \in Survivors, d \notin LiedAbout'
          PROVE  spends'[d].advert = advert[d]
      <4>1. d \notin LiedAbout
        BY <3>3, <3>4, RecallsLies
      <4>2. CASE d \in DOMAIN spends
        BY <1>1, <3>2, <3>4, <4>1, <4>2 DEF LoopInv, SpendsTrue
      <4>3. CASE d \notin DOMAIN spends
        <5>1. d \in CoinsOf(p) /\ spends'[d] = Readout(told, d)
          BY <3>2, <4>3
        <5>2. told.memos[d] = advert[d]
          BY <3>2, <3>4, <5>1 DEF LiedAbout, Misread
        <5> QED
          BY <5>1, <5>2 DEF Readout
      <4> QED
        BY <4>2, <4>3
    <3>5. SpendsTrue'
      BY <1>3, <3>4 DEF SpendsTrue
    <3> QED
      BY <3>3, <3>5
  <2> QED
    BY <2>1, <2>2
<1>6. c \in LiedAbout' \/ (c \in Survivors /\ spends'[c].advert = advert[c])
  <2>1. c \in lies.record => c \in LiedAbout'
    BY <1>5 DEF Recalls, LiedAbout
  <2>2. c \in Survivors /\ c \notin LiedAbout' => spends'[c].advert = advert[c]
    BY <1>3, <1>4, <1>5 DEF SpendsTrue
  <2> QED
    BY <1>2, <2>1, <2>2
<1> QED
  BY <1>4, <1>5, <1>6

\* A candidate that does not count leaves the selection alone.
LEMMA DisqualifyKeeps ==
  ASSUME CensusInv, NEW c \in Coins, Candidate(c), c \in LiedAbout' \/ c \notin Counted,
         Judged(c), UNCHANGED <<facts, chain, selected, pc, outcome>>,
         Recalls, SpendsTrue'
  PROVE  CensusInv'
<1>1. LoopInv /\ pc = "spends"
  BY DEF CensusInv, Candidate
<1>2. /\ todo' \in [Coins -> Nat]
      /\ \A d \in Coins : todo'[d] > 0 => todo[d] > 0
      /\ \A d \in Coins : d # c => todo'[d] = todo[d]
  BY <1>1 DEF LoopInv, Judged, Candidate
<1>3. LiedAbout \subseteq LiedAbout' /\ lies'.record = lies.record /\ Untruths'
  BY RecallsLies DEF Recalls
<1>4. SelectionTrue'
  BY <1>1, <1>3, IdealUnchanged DEF LoopInv, SelectionTrue
<1>5. WithinBound'
  BY <1>1, <1>3, IdealUnchanged DEF LoopInv, WithinBound
<1>6. ASSUME NEW d \in Counted
      PROVE  d \in LiedAbout' \/ todo'[d] > 0 \/ Represented(d)'
  <2>1. d \in Coins
    BY DEF Counted, Survivors
  <2>2. d \in LiedAbout \/ todo[d] > 0 \/ Represented(d)
    BY <1>1 DEF LoopInv
  <2>3. Represented(d)' = Represented(d)
    BY IdealUnchanged DEF Represented
  <2> QED
    BY <1>2, <1>3, <2>1, <2>2, <2>3
<1>7. LoopInv'
  BY <1>1, <1>2, <1>3, <1>4, <1>5, <1>6, IdealUnchanged DEF LoopInv
<1> QED
  BY <1>1, <1>3, <1>7, IdealUnchanged DEF CensusInv

LEMMA JudgeKeeps ==
  ASSUME CensusInv, OwnerInv, JudgeUnreadable \/ JudgeWrongEpoch \/ JudgeUnattributed
  PROVE  CensusInv'
<1> DEFINE Fails(readout) ==
      Unreadable(readout) \/ WrongEpoch(readout) \/ Unattributed(readout)
<1>1. PICK c \in Coins, rule \in Rules :
        /\ Candidate(c) /\ Authenticate(c) /\ Fails(spends'[c])
        /\ Disqualify(c, rule)
  <2>1. {"unreadable", "wrong_epoch", "unattributed"} \subseteq Rules
    BY DEF Rules, JudgeRules
  <2> QED
    BY <2>1 DEF JudgeUnreadable, JudgeWrongEpoch, JudgeUnattributed
<1>2. UNCHANGED <<facts, chain, selected, pc, outcome>> /\ Judged(c)
  BY <1>1 DEF Disqualify
<1>3. /\ Recalls /\ SpendsTrue'
      /\ c \in LiedAbout' \/ (c \in Survivors /\ spends'[c].advert = advert[c])
  BY <1>1, <1>2, AnswerIsTrue
<1>4. c \in LiedAbout' \/ c \notin Counted
  <2>1. spends'[c].advert = advert[c] =>
          \/ advert[c] = NotAMirror
          \/ advert[c].epoch # prior.epoch
          \/ ~advert[c].proven
    BY <1>1 DEF Unreadable, WrongEpoch, Unattributed
  <2> QED
    BY <1>3, <2>1 DEF Counted
<1> QED
  BY <1>1, <1>2, <1>3, <1>4, DisqualifyKeeps

LEMMA SpendMalformedKeeps ==
  ASSUME CensusInv, SpendMalformed
  PROVE  CensusInv'
<1>1. PICK c \in Coins : Candidate(c) /\ Malforms(c)
  BY DEF SpendMalformed
<1>2. UNCHANGED <<facts, chain, selected, pc, outcome, spends>> /\ Judged(c)
  BY <1>1 DEF Malforms
<1>3. /\ Untruths'
      /\ lies'.record = lies.record /\ lies'.spend = lies.spend
      /\ lies.bytes \subseteq lies'.bytes
      /\ kind[coin[c].parent] = Garbled \/ c \in lies'.bytes
  BY <1>1, MalformsTells DEF CensusInv
<1>4. Recalls
  BY <1>3 DEF Recalls
<1>5. c \in LiedAbout' \/ c \notin Counted
  BY <1>3, KindAssumption DEF Counted, LiedAbout
<1>6. SpendsTrue'
  <2>1. SpendsTrue
    BY <1>1 DEF CensusInv, LoopInv, Candidate
  <2>2. UNCHANGED <<spends, advert>> /\ Survivors' = Survivors
    BY <1>2, IdealUnchanged DEF chain
  <2> QED
    BY <1>4, <2>1, <2>2, RecallsLies DEF SpendsTrue
<1> QED
  BY <1>1, <1>2, <1>4, <1>5, <1>6, DisqualifyKeeps

\* Selecting a coin for a triple, if it outranks the one it displaces.
LEMMA SelectionKeeps ==
  ASSUME CensusInv, NEW c \in Coins, NEW t, Candidate(c),
         c \in LiedAbout' \/ (c \in Counted /\ t = Advertises(c)),
         Judged(c), UNCHANGED <<facts, chain, pc, outcome>>,
         Recalls, SpendsTrue',
         \/ /\ Representing(c, t)
            /\ t \in DOMAIN selected => Supersedes(c, selected[t])
         \/ /\ UNCHANGED selected
            /\ t \in DOMAIN selected
            /\ ~Supersedes(c, selected[t])
  PROVE  CensusInv'
<1>1. LoopInv /\ pc = "spends" /\ Ground
  BY DEF CensusInv, Candidate
<1>2. /\ todo' \in [Coins -> Nat]
      /\ \A d \in Coins : todo'[d] > 0 => todo[d] > 0
      /\ \A d \in Coins : d # c => todo'[d] = todo[d]
  BY <1>1 DEF LoopInv, Judged, Candidate
<1>3. LiedAbout \subseteq LiedAbout' /\ lies'.record = lies.record /\ Untruths'
  BY RecallsLies DEF Recalls
<1>4. \A u \in DOMAIN selected : selected[u] \in Coins /\ selected[u] \in Backing(u) \union LiedAbout
  BY <1>1 DEF LoopInv, SelectionTrue
<1>5. c \in Backing(t) \union LiedAbout'
  BY DEF Backing
<1>6. /\ selected' = [u \in DOMAIN selected' |-> selected'[u]]
      /\ \A u \in DOMAIN selected' :
           selected'[u] \in Coins /\ selected'[u] \in Backing(u) \union LiedAbout'
      /\ DOMAIN selected \subseteq DOMAIN selected'
      /\ t \in DOMAIN selected'
      /\ Outranks(selected'[t], c)
      /\ \A u \in DOMAIN selected : u # t => selected'[u] = selected[u]
      /\ t \in DOMAIN selected => Outranks(selected'[t], selected[t])
  <2>1. CASE Representing(c, t) /\ (t \in DOMAIN selected => Supersedes(c, selected[t]))
    <3> DEFINE dom == DOMAIN selected \union {t}
    <3>1. selected' = [u \in dom |-> IF u = t THEN c ELSE selected[u]]
      BY <2>1 DEF Representing
    <3>2. DOMAIN selected' = dom /\ selected'[t] = c
          /\ \A u \in DOMAIN selected : u # t => selected'[u] = selected[u]
      BY <3>1
    <3>3. selected' = [u \in DOMAIN selected' |-> selected'[u]]
      BY <3>1
    <3>4. Outranks(c, c) /\ (t \in DOMAIN selected => Outranks(c, selected[t]))
      BY <1>1, <1>4, <2>1, OutranksIsOrder
    <3> QED
      BY <1>3, <1>4, <1>5, <3>2, <3>3, <3>4
  <2>2. CASE UNCHANGED selected /\ t \in DOMAIN selected /\ ~Supersedes(c, selected[t])
    <3>1. Outranks(selected[t], c) /\ Outranks(selected[t], selected[t])
      BY <1>1, <1>4, <2>2, OutranksIsOrder
    <3> QED
      BY <1>1, <1>3, <1>4, <2>2, <3>1 DEF LoopInv, SelectionTrue
  <2> QED
    BY <2>1, <2>2
<1>7. SelectionTrue'
  BY <1>6, IdealUnchanged DEF SelectionTrue
<1>8. WithinBound'
  BY <1>1, <1>3, IdealUnchanged DEF LoopInv, WithinBound
<1>9. ASSUME NEW d \in Counted, d \notin LiedAbout'
      PROVE  \/ todo'[d] > 0
             \/ Advertises(d) \in DOMAIN selected' /\ Outranks(selected'[Advertises(d)], d)
  <2>1. d \in Coins /\ d \notin LiedAbout
    BY <1>3, <1>9 DEF Counted, Survivors
  <2>2. CASE d = c
    BY <1>6, <1>9, <2>2
  <2>3. CASE d # c /\ todo[d] > 0
    BY <1>2, <2>1, <2>3
  <2>4. CASE d # c /\ ~(todo[d] > 0)
    <3>1. Advertises(d) \in DOMAIN selected /\ Outranks(selected[Advertises(d)], d)
      BY <1>1, <2>1, <2>4 DEF LoopInv, Represented
    <3>2. CASE Advertises(d) = t
      <4>1. selected'[t] \in Coins /\ selected[t] \in Coins
        BY <1>4, <1>6, <3>1, <3>2
      <4>2. Outranks(selected'[t], selected[t]) /\ Outranks(selected[t], d)
        BY <1>6, <3>1, <3>2
      <4>3. Outranks(selected'[t], d)
        BY <1>1, <2>1, <4>1, <4>2, OutranksIsOrder
      <4> QED
        BY <1>6, <3>2, <4>3
    <3>3. CASE Advertises(d) # t
      BY <1>6, <3>1, <3>3
    <3> QED
      BY <3>2, <3>3
  <2> QED
    BY <2>2, <2>3, <2>4
<1>10. \A d \in Counted' : d \in LiedAbout' \/ todo'[d] > 0 \/ Represented(d)'
  BY <1>9, IdealUnchanged DEF Represented
<1>11. LoopInv'
  BY <1>1, <1>2, <1>3, <1>7, <1>8, <1>10, IdealUnchanged DEF LoopInv
<1> QED
  BY <1>1, <1>3, <1>11, IdealUnchanged DEF CensusInv

LEMMA SelectKeeps ==
  ASSUME CensusInv, OwnerInv, Select \/ Contend
  PROVE  CensusInv'
<1>1. PICK c \in Coins :
        /\ Candidate(c) /\ Authenticate(c) /\ Qualified(spends'[c]) /\ Judged(c)
        /\ UNCHANGED <<facts, chain, pc, outcome>>
        /\ \/ /\ Triple(spends'[c]) \notin DOMAIN selected
              /\ Representing(c, Triple(spends'[c]))
           \/ /\ Triple(spends'[c]) \in DOMAIN selected
              /\ Contest(c, Triple(spends'[c]))
  BY DEF Select, Contend
<1> DEFINE t == Triple(spends'[c])
<1>2. /\ Recalls /\ SpendsTrue'
      /\ spends'[c].owner = kind[coin[c].parent] /\ kind[coin[c].parent] \in Owners
      /\ c \in LiedAbout' \/ (c \in Survivors /\ spends'[c].advert = advert[c])
  BY <1>1, AnswerIsTrue
<1>3. c \in LiedAbout' \/ (c \in Counted /\ t = Advertises(c))
  <2>1. ASSUME c \in Survivors, spends'[c].advert = advert[c]
        PROVE  c \in Counted /\ t = Advertises(c)
    <3>1. advert[c] # NotAMirror /\ advert[c].epoch = prior.epoch /\ advert[c].proven
      BY <1>1, <2>1 DEF Qualified, Unreadable, WrongEpoch, Unattributed
    <3> QED
      BY <1>2, <2>1, <3>1 DEF Counted, Triple, Advertises
  <2> QED
    BY <1>2, <2>1
<1>4. \/ /\ Representing(c, t)
         /\ t \in DOMAIN selected => Supersedes(c, selected[t])
      \/ /\ UNCHANGED selected
         /\ t \in DOMAIN selected
         /\ ~Supersedes(c, selected[t])
  BY <1>1 DEF Contest
<1> HIDE DEF t
<1> QED
  BY <1>1, <1>2, <1>3, <1>4, SelectionKeeps

\* The creating spends of fewer coins are no more.
LEMMA FewerParents ==
  ASSUME NEW S, NEW T \in SUBSET Coins, S \subseteq T
  PROVE  /\ Cardinality(ParentsOf(S)) \in Nat /\ Cardinality(ParentsOf(T)) \in Nat
         /\ Cardinality(ParentsOf(S)) <= Cardinality(ParentsOf(T))
<1> DEFINE parent == [c \in T |-> coin[c].parent]
<1>1. ParentsOf(T) = {parent[c] : c \in T}
  BY DEF ParentsOf
<1>2. IsFiniteSet(T)
  BY CoinAssumption, FS_Subset
<1>3. IsFiniteSet(ParentsOf(T))
  <2> HIDE DEF parent
  <2> QED
    BY <1>1, <1>2, FiniteImage
<1>4. ParentsOf(S) \subseteq ParentsOf(T)
  BY DEF ParentsOf
<1> QED
  BY <1>3, <1>4, FS_Subset, FS_CardinalityType

LEMMA ReadRecordsKeeps ==
  ASSUME CensusInv, ReadRecords
  PROVE  CensusInv'
<1>1. PICK report \in Reports, listing \in Listings :
        /\ todo' = [c \in Coins |-> IF Kept(c, report[c]) THEN listing[c] ELSE 0]
        /\ Untruths'
        /\ lies'.record = Misreported(listing, report)
        /\ lies'.spend = lies.spend /\ lies'.bytes = lies.bytes
  BY RecordsTell DEF CensusInv
<1>2. /\ Ground /\ FinalAtPeak /\ spends = <<>> /\ selected = <<>>
      /\ UNCHANGED <<facts, chain, spends, selected>>
  BY DEF ReadRecords, CensusInv
<1>3. Survivors \subseteq Asked
  BY <1>2 DEF Survivors, Asked, Confirmed, LockedAt, NoHeight, Ground, Heights
<1>4. todo' \in [Coins -> Nat] /\ listing \in [Coins -> Nat]
  BY <1>1, BoundAssumption DEF Listings
<1>5. ASSUME NEW c \in Coins, c \notin lies'.record
      PROVE  todo'[c] > 0 <=> c \in Survivors
  <2>1. IF listing[c] > 0 THEN Truthful(c, report[c]) ELSE c \notin Asked
    BY <1>1, <1>5 DEF Misreported
  <2>2. listing[c] > 0 => (Kept(c, report[c]) <=> c \in Survivors)
    BY <1>2, <2>1, KeptSurvives
  <2> QED
    BY <1>1, <1>3, <1>4, <2>1, <2>2
<1>6. /\ Survivors \ lies'.record \subseteq Listed(todo')
      /\ Listed(todo') \subseteq Survivors \union lies'.record
      /\ Survivors \subseteq Coins /\ lies'.record \subseteq Coins
  BY <1>1, <1>5 DEF Listed, Survivors, Untruths
<1> DEFINE few == Cardinality(ParentsOf(Survivors \ lies'.record))
           some == Cardinality(ParentsOf(Listed(todo')))
           many == Cardinality(ParentsOf(Survivors \union lies'.record))
<1>7. /\ few \in Nat /\ some \in Nat /\ many \in Nat
      /\ few <= some /\ some <= many
  BY <1>6, FewerParents
<1>8. /\ few = Cardinality(ParentsOf(Survivors \ lies.record))'
      /\ many = Cardinality(ParentsOf(Survivors \union lies.record))'
  BY <1>2, IdealUnchanged
<1>9. MaxSpends \in Nat
  BY BoundAssumption
<1>10. CASE OverBound(Listed(todo'))
  <2>1. pc' = "done" /\ outcome' = Incomplete
    BY <1>10 DEF ReadRecords, Return
  <2>2. many > MaxSpends
    <3>1. some > MaxSpends
      BY <1>10 DEF OverBound
    <3> HIDE DEF few, some, many
    <3> QED
      BY <1>7, <1>9, <3>1
  <2>3. Verdict'
    BY <1>2, <1>8, <2>1, <2>2, IdealUnchanged DEF Verdict, Incomplete, Malformed
  <2> QED
    BY <1>1, <1>2, <2>1, <2>3, IdealUnchanged DEF CensusInv
<1>11. CASE ~OverBound(Listed(todo'))
  <2>1. pc' = "spends"
    BY <1>11 DEF ReadRecords
  <2>2. DOMAIN spends' = {} /\ DOMAIN selected' = {}
    BY <1>2
  <2>3. SelectionTrue' /\ SpendsTrue'
    BY <1>2, <2>2 DEF SelectionTrue, SpendsTrue
  <2>4. few <= MaxSpends
    <3>1. ~(some > MaxSpends)
      BY <1>11 DEF OverBound
    <3> HIDE DEF few, some, many
    <3> QED
      BY <1>7, <1>9, <3>1
  <2>5. WithinBound'
    BY <1>8, <2>4 DEF WithinBound
  <2>6. \A c \in Counted : c \in LiedAbout' \/ todo'[c] > 0
    BY <1>5 DEF Counted, Survivors, LiedAbout
  <2>7. Counted' = Counted /\ Survivors' = Survivors /\ FinalAtPeak'
    BY <1>2, IdealUnchanged
  <2>8. LoopInv'
    BY <1>4, <1>5, <2>3, <2>5, <2>6, <2>7 DEF LoopInv
  <2> QED
    BY <1>1, <1>2, <2>1, <2>8, IdealUnchanged DEF CensusInv
<1> QED
  BY <1>10, <1>11

LEMMA TotalKeeps ==
  ASSUME CensusInv, Total
  PROVE  CensusInv'
<1>1. /\ LoopInv /\ Ground /\ \A c \in Coins : todo[c] = 0
      /\ UNCHANGED <<facts, chain, selected, lies>>
      /\ pc' = "done" /\ outcome' = IF Locked > MaxLocked THEN Malformed ELSE Totals
  BY DEF Total, CensusInv, Return, pass, history
<1>2. LiedAbout = {} => Totals = IdealTotals /\ Locked = TotalStake
  BY <1>1, SelectionIsIdeal
<1>3. FinalAtPeak /\ WithinBound /\ SelectionTrue
      /\ \A c \in Counted : c \in LiedAbout \/ Represented(c)
  BY <1>1 DEF LoopInv, Counted, Survivors
<1>4. LiedAbout' = LiedAbout /\ Untruths'
  BY <1>1 DEF LiedAbout, CensusInv, Untruths
<1>5. CASE Locked > MaxLocked
  <2>1. outcome' = Malformed /\ (LiedAbout = {} => TotalStake > MaxLocked)
    BY <1>1, <1>2, <1>5
  <2>2. outcome'.kind # "final" /\ outcome' # Incomplete
    BY <2>1 DEF Malformed, Incomplete
  <2>3. Verdict'
    BY <1>1, <1>3, <1>4, <2>1, <2>2, IdealUnchanged DEF Verdict
  <2> QED
    BY <1>1, <1>4, <2>3, IdealUnchanged DEF CensusInv
<1>6. CASE ~(Locked > MaxLocked)
  <2>1. outcome' = Totals /\ (LiedAbout = {} => outcome' = IdealTotals)
    BY <1>1, <1>2, <1>6
  <2>2. outcome' # Incomplete /\ outcome' # Malformed
    BY <2>1 DEF Totals, Final, Incomplete, Malformed
  <2>3. FinalAtPeak' /\ WithinBound' /\ SelectionTrue'
        /\ \A c \in Counted : Represented(c)' = Represented(c)
    BY <1>1, <1>3, <1>4, IdealUnchanged DEF WithinBound, SelectionTrue, Represented
  <2>4. LiedAbout' = {} => outcome' = IdealTotals'
    BY <1>1, <1>4, <2>1, IdealUnchanged
  <2>5. \A c \in Counted' : c \in LiedAbout' \/ Represented(c)'
    BY <1>1, <1>3, <1>4, <2>3, IdealUnchanged
  <2>6. Verdict'
    BY <2>2, <2>3, <2>4, <2>5 DEF Verdict
  <2> QED
    BY <1>1, <1>4, <2>6, IdealUnchanged DEF CensusInv
<1> QED
  BY <1>5, <1>6

\* The steps that return without having judged anything.
LEMMA RefusalKeeps ==
  ASSUME CensusInv,
         \/ TerminalEpoch \/ PeakUnavailable \/ ReadPeakPending \/ ReadPeakFinal
         \/ RecordsUnavailable \/ SpendUnanswered
  PROVE  CensusInv'
<1>1. UNCHANGED <<facts, chain, spends, selected, lies>>
  BY DEF TerminalEpoch, PeakUnavailable, ReadPeakPending, ReadPeakFinal,
         RecordsUnavailable, SpendUnanswered, Refuse, pass, history
<1>2. Ground' /\ Untruths'
  BY <1>1, IdealUnchanged DEF CensusInv, Untruths
<1>3. CASE ReadPeakFinal
  <2>1. pc = "peak" /\ pc' = "records" /\ FinalAtPeak
    BY <1>3 DEF ReadPeakFinal
  <2> QED
    BY <1>1, <1>2, <2>1, IdealUnchanged DEF CensusInv
<1>4. CASE ~ReadPeakFinal
  <2>1. /\ pc' = "done"
        /\ \/ outcome' \in {Pending, Unavailable}
           \/ outcome' = Malformed /\ prior.epoch = MaxEpoch
    BY <1>4 DEF TerminalEpoch, PeakUnavailable, ReadPeakPending, RecordsUnavailable,
                SpendUnanswered, Refuse, Return
  <2>2. prior' = prior
    BY <1>1 DEF facts
  <2>3. Verdict'
    BY <2>1, <2>2 DEF Verdict, Pending, Unavailable, Malformed, Incomplete
  <2> QED
    BY <1>2, <2>1, <2>3 DEF CensusInv
<1> QED
  BY <1>3, <1>4

LEMMA ChainMovesKeep ==
  ASSUME CensusInv, Extend \/ Reorg
  PROVE  CensusInv'
<1>1. UNCHANGED <<coin, kind, prior, at, todo, spends, selected, pc, outcome, lies>>
  BY DEF Extend, Reorg, facts, pass, history
<1>2. Ground /\ Ground' /\ Untruths' /\ LiedAbout' = LiedAbout
  BY <1>1, ChainMovesKeepGround DEF CensusInv, Untruths, LiedAbout
<1>3. CASE FinalAtPeak
  <2>1. /\ FinalAtPeak'
        /\ Survivors' = Survivors
        /\ Counted' = Counted
        /\ \A c \in Survivors : advert'[c] = advert[c]
        /\ \A t : Backing(t)' = Backing(t)
        /\ TotalStake' = TotalStake
        /\ IdealTotals' = IdealTotals
    BY <1>2, <1>3, IdealSettled
  <2>2. \A S : ParentsOf(S)' = ParentsOf(S)
    BY <1>1 DEF ParentsOf
  <2>3. \A c \in Counted : Represented(c)' = Represented(c)
    BY <1>1, <2>1 DEF Advertises, Counted, Represented, Outranks
  <2>4. SelectionTrue => SelectionTrue'
    BY <1>1, <1>2, <2>1 DEF SelectionTrue
  <2>5. WithinBound => WithinBound'
    BY <1>1, <2>1, <2>2 DEF WithinBound
  <2>6. SpendsTrue => SpendsTrue'
    BY <1>1, <1>2, <2>1 DEF SpendsTrue
  <2>7. LoopInv => LoopInv'
    BY <1>1, <1>2, <2>1, <2>3, <2>4, <2>5, <2>6 DEF LoopInv
  <2>8. Verdict => Verdict'
    BY <1>1, <1>2, <2>1, <2>2, <2>3, <2>4, <2>5 DEF Verdict
  <2> QED
    BY <1>1, <1>2, <2>1, <2>7, <2>8 DEF CensusInv
<1>4. CASE ~FinalAtPeak
  <2>1. Verdict => Verdict'
    BY <1>1, <1>2, <1>4 DEF Verdict
  <2> QED
    BY <1>1, <1>2, <1>4, <2>1 DEF CensusInv, LoopInv
<1> QED
  BY <1>3, <1>4

LEMMA NextKeepsCensusInv == CensusInv /\ OwnerInv /\ [Next]_vars => CensusInv'
<1> SUFFICES ASSUME CensusInv, OwnerInv, [Next]_vars PROVE CensusInv'
  OBVIOUS
<1>1. CASE UNCHANGED vars
  <2>1. UNCHANGED <<facts, chain, todo, spends, selected, pc, outcome, lies>>
    BY <1>1 DEF vars, pass, history
  <2>2. UNCHANGED <<coin, kind, advert>> /\ prior' = prior /\ LiedAbout' = LiedAbout /\ Untruths'
    BY <2>1 DEF facts, chain, LiedAbout, CensusInv, Untruths
  <2>3. /\ SelectionTrue => SelectionTrue'
        /\ WithinBound => WithinBound'
        /\ SpendsTrue => SpendsTrue'
        /\ \A c : Represented(c)' = Represented(c)
    BY <2>1, <2>2, IdealUnchanged DEF SelectionTrue, WithinBound, SpendsTrue, Represented
  <2>4. LoopInv => LoopInv'
    BY <2>1, <2>2, <2>3, IdealUnchanged DEF LoopInv
  <2>5. Verdict => Verdict'
    BY <2>1, <2>2, <2>3, IdealUnchanged DEF Verdict
  <2> QED
    BY <2>1, <2>2, <2>4, <2>5, IdealUnchanged DEF CensusInv
<1> QED
  BY <1>1, RefusalKeeps, ReadRecordsKeeps, SpendMalformedKeeps, JudgeKeeps, SelectKeeps,
     TotalKeeps, ChainMovesKeep DEF Next, Step

LEMMA Invariance == Spec => []CensusInv
  BY InitCensusInv, NextKeepsCensusInv, Ownership, PTL DEF Spec

Undecided == pc # "done" => outcome = Unanswered

LEMMA NextKeepsUndecided == Undecided /\ [Next]_vars => Undecided'
BY DEF Undecided, Next, Step, vars, TerminalEpoch, PeakUnavailable, ReadPeakPending,
       ReadPeakFinal, RecordsUnavailable, ReadRecords, SpendMalformed, Malforms,
       SpendUnanswered, JudgeUnreadable, JudgeWrongEpoch, JudgeUnattributed, Disqualify,
       Select, Contend, Total, Refuse, Return, Extend, Reorg

LEMMA UndoneIsUnanswered == Spec => []Undecided
<1>1. Init => Undecided
  BY DEF Init, Undecided
<1> QED
  BY <1>1, NextKeepsUndecided, PTL DEF Spec

LEMMA CensusInvSuffices == CensusInv /\ Undecided => FinalIsIdeal
BY DEF CensusInv, Undecided, Verdict, FinalIsIdeal, IdealTotals, Unanswered

\* What a final census says, of a source that said nothing untrue of any coin,
\* is a function of the chain at the census height: the same for every order,
\* repetition and addition in what the source lists, and the same ever after,
\* however the chain moves.
THEOREM FinalCensusIsIdeal == Spec => []FinalIsIdeal
BY CensusInvSuffices, Invariance, UndoneIsUnanswered, PTL

\* A lie about one coin moves no other: whatever a source says, every coin
\* that it said nothing untrue of is represented, by itself or by one that
\* outranks it, and every representative counts for its triple or was lied
\* about.
THEOREM RepresentativesAgree == Spec => []RepresentativesAreIdeal
<1>1. CensusInv /\ Undecided => RepresentativesAreIdeal
  BY DEF CensusInv, Undecided, Verdict, RepresentativesAreIdeal, SelectionTrue, Represented,
         Unanswered
<1> QED
  BY <1>1, Invariance, UndoneIsUnanswered, PTL

\* The bound refuses a census exactly if the distinct creating spends of the
\* coins locked at its height exceed it, except for what untrue records add
\* or leave out.
THEOREM RefusalsAreTheChains == Spec => []RefusalsJustified
<1>1. CensusInv /\ Undecided => RefusalsJustified
  BY DEF CensusInv, Undecided, Verdict, RefusalsJustified, WithinBound, Unanswered, Incomplete,
         Malformed
<1> QED
  BY <1>1, Invariance, UndoneIsUnanswered, PTL

(***************************************************************************)
(* What a census counts. Its types need that the selection is finite, that *)
(* the terminal epoch was refused before anything was read, and that only  *)
(* an executed spend of a wallet answers for a coin.                       *)
(***************************************************************************)
TypeInv ==
  /\ TypeOK
  /\ Population
  /\ kind \in [Parents -> Owners \union {Coinbase, Garbled}]
  /\ advert \in [Coins -> Adverts]
  /\ prior \in [epoch : 0 .. MaxEpoch, required : Amounts]
  /\ pc \in {"records", "spends"} => prior.epoch # MaxEpoch
  /\ IsFiniteSet(DOMAIN selected)

LEMMA SumFunctionIsSum == \A f : SumFunction(f) = Sum(f, DOMAIN f)
BY DEF SumFunction, Sum

LEMMA RulesAreFinite == IsFiniteSet(Rules)
<1>1. IsFiniteSet(Range(ScreenRules))
  <2>1. DOMAIN ScreenRules = 1 .. 6
    BY DEF ScreenRules
  <2>2. IsFiniteSet(1 .. 6)
    BY 1 \in Int, 6 \in Int, FS_Interval
  <2> QED
    BY <2>1, <2>2, FiniteImage DEF Range
<1>2. IsFiniteSet(JudgeRules)
  <2>1. IsFiniteSet({"wrong_epoch"} \union {"unreadable"})
    BY FS_Singleton, FS_Union
  <2>2. IsFiniteSet({"unattributed"} \union {"superseded"})
    BY FS_Singleton, FS_Union
  <2>3. JudgeRules = ({"wrong_epoch"} \union {"unreadable"})
                       \union ({"unattributed"} \union {"superseded"})
    BY DEF JudgeRules
  <2> QED
    BY <2>1, <2>2, <2>3, FS_Union
<1> QED
  BY <1>1, <1>2, FS_Union DEF Rules

LEMMA InitTypeInv == Init => TypeInv
<1> SUFFICES ASSUME Init PROVE TypeInv
  OBVIOUS
<1>1. todo \in [Coins -> 0 .. MaxRecords]
  BY BoundAssumption DEF Init
<1>2. DOMAIN spends = {} /\ DOMAIN selected = {}
  BY DEF Init
<1>3. spends \in [DOMAIN spends -> Readouts] /\ selected \in [DOMAIN selected -> Coins]
  BY <1>2 DEF Init
<1>4. TypeOK
  BY <1>1, <1>2, <1>3 DEF Init, TypeOK
<1> QED
  BY <1>2, <1>4, FS_EmptySet DEF Init, TypeInv, Population

\* What an executed spend says is typed.
LEMMA AuthenticateTypes ==
  ASSUME TypeInv, NEW c \in Coins, Authenticate(c), UNCHANGED <<facts, chain>>
  PROVE  /\ spends' \in [DOMAIN spends' -> Readouts] /\ DOMAIN spends' \subseteq Coins
         /\ executed' \in [Parents -> Nat]
         /\ c \in DOMAIN spends'
         /\ Untruths'
<1>1. CASE Cached(c)
  BY <1>1 DEF Authenticate, Cached, TypeInv, TypeOK, Untruths, history
<1>2. CASE ~Cached(c)
  <2> DEFINE p == coin[c].parent
  <2>1. PICK told \in SpendAnswers(p) :
          /\ told.owner = kind[p] /\ kind[p] \in Owners
          /\ spends' = [d \in DOMAIN spends \union CoinsOf(p) |->
                          IF d \in DOMAIN spends THEN spends[d] ELSE Readout(told, d)]
          /\ Untruths'
    BY <1>2, ExecuteTells DEF Authenticate, TypeInv, TypeOK, Untruths
  <2>2. p \in Parents /\ executed' = [executed EXCEPT ![p] = executed[p] + 1]
    BY <1>2 DEF Authenticate, Execute, Executing, TypeInv, Population
  <2>3. executed' \in [Parents -> Nat]
    BY <2>2 DEF TypeInv, TypeOK
  <2>4. \A d \in CoinsOf(p) : told.memos[d] \in Adverts
    <3>1. CASE p \in Suspects
      BY <3>1 DEF SpendAnswers
    <3>2. CASE p \notin Suspects
      BY <3>2 DEF SpendAnswers, Genuine, CoinsOf, TypeInv
    <3> QED
      BY <3>1, <3>2
  <2>5. \A d \in CoinsOf(p) : d \in Coins /\ Readout(told, d) \in Readouts
    BY <2>1, <2>4 DEF CoinsOf, Readout, Readouts
  <2>6. c \in CoinsOf(p)
    BY DEF CoinsOf
  <2>7. /\ spends' \in [DOMAIN spends \union CoinsOf(p) -> Readouts]
        /\ DOMAIN spends \subseteq Coins
    BY <2>1, <2>5 DEF TypeInv, TypeOK
  <2> QED
    BY <2>1, <2>3, <2>5, <2>6, <2>7
<1> QED
  BY <1>1, <1>2

\* The conjuncts of the invariant that no step of the census disturbs.
LEMMA TypesKept ==
  ASSUME TypeInv, UNCHANGED <<facts, chain>>,
         spends' \in [DOMAIN spends' -> Readouts], DOMAIN spends' \subseteq Coins,
         selected' \in [DOMAIN selected' -> Coins], DOMAIN selected' \subseteq Triples,
         IsFiniteSet(DOMAIN selected'),
         todo' \in [Coins -> 0 .. MaxRecords],
         excluded' \in [Rules -> Nat],
         executed' \in [Parents -> Nat],
         Untruths',
         \/ UNCHANGED <<pc, outcome>>
         \/ /\ pc' \in {"records", "spends"}
            /\ prior.epoch # MaxEpoch
            /\ UNCHANGED outcome
         \/ /\ pc' = "done"
            /\ outcome' \in {Pending, Incomplete, Unavailable, Malformed}
                 \union [kind : {"final"}, epoch : 0 .. MaxEpoch, stores : Nat,
                         owners : Nat, locked : 0 .. MaxLocked]
  PROVE  TypeInv'
<1>1. UNCHANGED <<coin, kind, advert, prior>>
  BY DEF facts, chain
<1>2. TypeOK'
  BY DEF TypeInv, TypeOK, Untruths, Pending, Incomplete, Unavailable, Malformed, Unanswered
<1> QED
  BY <1>1, <1>2 DEF TypeInv, Population

LEMMA JudgedTypes ==
  ASSUME TypeInv, NEW c \in Coins, Candidate(c), Judged(c)
  PROVE  todo' \in [Coins -> 0 .. MaxRecords]
BY BoundAssumption DEF TypeInv, TypeOK, Candidate, Judged

LEMMA ExcludingTypes ==
  ASSUME TypeInv, NEW rule, Excluding(rule)
  PROVE  excluded' \in [Rules -> Nat]
<1>1. excluded \in [Rules -> Nat] /\ excluded' = [excluded EXCEPT ![rule] = excluded[rule] + 1]
  BY DEF TypeInv, TypeOK, Excluding
<1>2. \A r \in Rules : excluded'[r] \in Nat
  BY <1>1
<1> QED
  BY <1>1, <1>2

LEMMA JudgeKeepsTypes ==
  ASSUME TypeInv,
         SpendMalformed \/ JudgeUnreadable \/ JudgeWrongEpoch \/ JudgeUnattributed
  PROVE  TypeInv'
<1>1. PICK c \in Coins, rule \in Rules :
        /\ Candidate(c) /\ Judged(c) /\ Excluding(rule)
        /\ UNCHANGED <<facts, chain, selected, pc, outcome>>
        /\ \/ Authenticate(c)
           \/ UNCHANGED spends /\ Executing(coin[c].parent) /\ Malforms(c)
  <2>1. {"unreadable", "wrong_epoch", "unattributed"} \subseteq Rules
    BY DEF Rules, JudgeRules
  <2> QED
    BY <2>1 DEF SpendMalformed, Malforms, JudgeUnreadable, JudgeWrongEpoch,
                JudgeUnattributed, Disqualify
<1>2. /\ spends' \in [DOMAIN spends' -> Readouts] /\ DOMAIN spends' \subseteq Coins
      /\ executed' \in [Parents -> Nat]
      /\ Untruths'
  <2>1. CASE Authenticate(c)
    BY <1>1, <2>1, AuthenticateTypes
  <2>2. CASE UNCHANGED spends /\ Executing(coin[c].parent) /\ Malforms(c)
    <3>1. Untruths'
      BY <2>2, MalformsTells DEF TypeInv, TypeOK, Untruths
    <3> QED
      BY <2>2, <3>1 DEF TypeInv, TypeOK, Executing, Population
  <2> QED
    BY <1>1, <2>1, <2>2
<1> QED
  BY <1>1, <1>2, JudgedTypes, ExcludingTypes, TypesKept DEF TypeInv, TypeOK

LEMMA SelectKeepsTypes ==
  ASSUME TypeInv, Select \/ Contend
  PROVE  TypeInv'
<1>1. PICK c \in Coins :
        /\ Candidate(c) /\ Authenticate(c) /\ Qualified(spends'[c]) /\ Judged(c)
        /\ UNCHANGED <<facts, chain, pc, outcome>>
        /\ \/ Representing(c, Triple(spends'[c])) /\ UNCHANGED excluded
           \/ Contest(c, Triple(spends'[c]))
  BY DEF Select, Contend
<1> DEFINE t == Triple(spends'[c])
<1>2. spends'[c] \in Readouts /\ spends'[c].advert # NotAMirror
  BY <1>1, AuthenticateTypes DEF Qualified, Unreadable
<1>3. t \in Triples
  <2>1. spends'[c].owner \in Owners /\ spends'[c].advert \in Adverts
    BY <1>2 DEF Readouts
  <2>2. spends'[c].advert.root \in Roots
    BY <1>2, <2>1 DEF Adverts
  <2> QED
    BY <2>1, <2>2 DEF Triple, Triples
<1>4. /\ selected' \in [DOMAIN selected' -> Coins] /\ DOMAIN selected' \subseteq Triples
      /\ IsFiniteSet(DOMAIN selected')
  <2>1. CASE Representing(c, t)
    <3>1. selected' = [u \in DOMAIN selected \union {t} |-> IF u = t THEN c ELSE selected[u]]
      BY <2>1 DEF Representing
    <3>2. IsFiniteSet(DOMAIN selected \union {t})
      BY FS_AddElement DEF TypeInv
    <3> HIDE DEF t
    <3> QED
      BY <1>3, <3>1, <3>2 DEF TypeInv, TypeOK
  <2>2. CASE UNCHANGED selected
    BY <2>2 DEF TypeInv, TypeOK
  <2> QED
    BY <1>1, <2>1, <2>2 DEF Contest
<1>5. excluded' \in [Rules -> Nat]
  BY <1>1, ExcludingTypes DEF Contest, TypeInv, TypeOK
<1> QED
  BY <1>1, <1>4, <1>5, AuthenticateTypes, JudgedTypes, TypesKept

LEMMA ReadRecordsKeepsTypes ==
  ASSUME TypeInv, ReadRecords
  PROVE  TypeInv'
<1>1. PICK report \in Reports, listing \in Listings :
        /\ todo' = [c \in Coins |-> IF Kept(c, report[c]) THEN listing[c] ELSE 0]
        /\ excluded' = [r \in Rules |-> SumFunctionOnSet(listing, Under(report, r))]
        /\ Untruths'
  BY RecordsTell DEF TypeInv, TypeOK, Untruths
<1>2. listing \in [Coins -> 0 .. MaxRecords] /\ MaxRecords \in Nat
  BY BoundAssumption DEF Listings
<1>3. todo' \in [Coins -> 0 .. MaxRecords]
  BY <1>1, <1>2
<1>4. ASSUME NEW r \in Rules
      PROVE  excluded'[r] \in Nat
  <2>1. Under(report, r) \in SUBSET Coins
    BY DEF Under
  <2>2. IsFiniteSet(Under(report, r))
    BY <2>1, CoinAssumption, FS_Subset
  <2>3. Sum(listing, Under(report, r)) \in Nat
    BY <1>2, <2>1, <2>2, SumOfNaturals
  <2> QED
    BY <1>1, <2>3 DEF Sum
<1>5. excluded' \in [Rules -> Nat]
  BY <1>1, <1>4
<1>6. /\ UNCHANGED <<facts, chain, spends, selected, executed>>
      /\ pc = "records"
      /\ \/ pc' = "spends" /\ UNCHANGED outcome
         \/ pc' = "done" /\ outcome' = Incomplete
  BY DEF ReadRecords, Return
<1> QED
  BY <1>1, <1>3, <1>5, <1>6, TypesKept DEF TypeInv, TypeOK

LEMMA TotalKeepsTypes ==
  ASSUME TypeInv, Total
  PROVE  TypeInv'
<1>1. /\ UNCHANGED <<facts, chain, spends, selected, todo, excluded, executed, lies>>
      /\ pc = "spends" /\ pc' = "done"
      /\ outcome' = IF Locked > MaxLocked THEN Malformed ELSE Totals
  BY DEF Total, Return, pass, history
<1>2. Cardinality(DOMAIN selected) \in Nat
  BY FS_CardinalityType DEF TypeInv
<1>3. Cardinality(SelectedOwners) \in Nat
  <2> DEFINE owners == [t \in DOMAIN selected |-> t.owner]
  <2>1. SelectedOwners = {owners[t] : t \in DOMAIN selected}
    BY DEF SelectedOwners
  <2> HIDE DEF owners
  <2> QED
    BY <2>1, FiniteImage, FS_CardinalityType DEF TypeInv
<1>4. Locked \in Nat
  <2> DEFINE held == [t \in DOMAIN selected |-> coin[selected[t]].amount]
  <2>1. \A t \in DOMAIN selected : held[t] \in Nat
    BY CoinAssumption DEF TypeInv, TypeOK, Population
  <2>2. DOMAIN held = DOMAIN selected
    OBVIOUS
  <2>3. Locked = Sum(held, DOMAIN held)
    BY SumFunctionIsSum DEF Locked
  <2> HIDE DEF held
  <2> QED
    BY <2>1, <2>2, <2>3, SumOfNaturals DEF TypeInv
<1>5. prior.epoch + 1 \in 0 .. MaxEpoch
  BY <1>1, EpochAssumption DEF TypeInv
<1>6. ~(Locked > MaxLocked) => Locked \in 0 .. MaxLocked
  BY <1>4, BoundAssumption
<1>7. outcome' \in {Malformed} \union
        [kind : {"final"}, epoch : 0 .. MaxEpoch, stores : Nat,
         owners : Nat, locked : 0 .. MaxLocked]
  BY <1>1, <1>2, <1>3, <1>5, <1>6 DEF Totals, Final
<1> QED
  BY <1>1, <1>7, TypesKept DEF TypeInv, TypeOK, Untruths

LEMMA RefusalKeepsTypes ==
  ASSUME TypeInv,
         \/ TerminalEpoch \/ PeakUnavailable \/ ReadPeakPending \/ ReadPeakFinal
         \/ RecordsUnavailable \/ SpendUnanswered
  PROVE  TypeInv'
<1>1. UNCHANGED <<facts, chain, todo, spends, selected, excluded, executed, lies>>
  BY DEF TerminalEpoch, PeakUnavailable, ReadPeakPending, ReadPeakFinal,
         RecordsUnavailable, SpendUnanswered, Refuse, pass, history
<1>2. \/ pc' = "done" /\ outcome' \in {Pending, Unavailable, Malformed}
      \/ pc' = "records" /\ prior.epoch # MaxEpoch /\ UNCHANGED outcome
  BY DEF TerminalEpoch, PeakUnavailable, ReadPeakPending, ReadPeakFinal,
         RecordsUnavailable, SpendUnanswered, Refuse, Return
<1> QED
  BY <1>1, <1>2, TypesKept DEF TypeInv, TypeOK, Untruths

LEMMA ChainMovesKeepTypes ==
  ASSUME TypeInv, Extend \/ Reorg
  PROVE  TypeInv'
<1>1. /\ UNCHANGED <<coin, kind, prior, todo, spends, selected, excluded>>
      /\ UNCHANGED <<pc, outcome, executed, lies>>
  BY DEF Extend, Reorg, facts, pass, history
<1>2. advert' \in [Coins -> Adverts]
  BY DEF Extend, Reorg, TypeInv
<1> QED
  BY <1>1, <1>2 DEF TypeInv, TypeOK, Population

LEMMA NextKeepsTypeInv == TypeInv /\ [Next]_vars => TypeInv'
<1> SUFFICES ASSUME TypeInv, [Next]_vars PROVE TypeInv'
  OBVIOUS
<1>1. CASE UNCHANGED vars
  BY <1>1 DEF vars, facts, chain, pass, history, TypeInv, TypeOK, Population
<1> QED
  BY <1>1, RefusalKeepsTypes, ReadRecordsKeepsTypes, JudgeKeepsTypes, SelectKeepsTypes,
     TotalKeepsTypes, ChainMovesKeepTypes DEF Next, Step

\* Every value a census holds and returns has its type; in particular a
\* reported total fits a u64, and the epoch after the prior one exists.
THEOREM TypesAreKept == Spec => []TypeOK
<1>1. TypeInv => TypeOK
  BY DEF TypeInv
<1> QED
  BY InitTypeInv, NextKeepsTypeInv, <1>1, PTL DEF Spec

(***************************************************************************)
(* No record is lost. A record moves from those still to be judged to the  *)
(* selection or to one rule's count; the prescreen sorts the records a     *)
(* source listed into those kept and the rules that exclude the others.    *)
(***************************************************************************)
CountInv ==
  /\ TypeInv
  /\ pc \in {"peak", "records"} => DOMAIN selected = {}
  /\ NothingLost

LEMMA SumsOfCounts ==
  ASSUME NEW S, IsFiniteSet(S), NEW f \in [S -> Nat]
  PROVE  SumFunction(f) = Sum(f, S) /\ Sum(f, S) \in Int
<1>1. Ints(f, S) /\ DOMAIN f = S
  BY DEF Ints
<1> QED
  BY <1>1, SumFunctionIsSum, SumTakes

LEMMA CountedAs ==
  ASSUME TypeInv
  PROVE  /\ SumFunction(todo) = Sum(todo, Coins) /\ Sum(todo, Coins) \in Int
         /\ SumFunction(excluded) = Sum(excluded, Rules) /\ Sum(excluded, Rules) \in Int
         /\ Cardinality(DOMAIN selected) \in Nat
<1>1. todo \in [Coins -> Nat] /\ excluded \in [Rules -> Nat]
  BY BoundAssumption DEF TypeInv, TypeOK
<1>2. Cardinality(DOMAIN selected) \in Nat
  BY FS_CardinalityType DEF TypeInv
<1> QED
  BY <1>1, <1>2, CoinAssumption, RulesAreFinite, SumsOfCounts

\* The same of the next state.
LEMMA CountedAsNext ==
  ASSUME TypeInv'
  PROVE  /\ SumFunction(todo') = Sum(todo', Coins)
         /\ SumFunction(excluded') = Sum(excluded', Rules)
         /\ Sum(excluded', Rules) \in Int
         /\ Cardinality(DOMAIN selected') \in Nat
<1>1. todo' \in [Coins -> Nat] /\ excluded' \in [Rules -> Nat]
  BY BoundAssumption DEF TypeInv, TypeOK
<1>2. Cardinality(DOMAIN selected') \in Nat
  BY FS_CardinalityType DEF TypeInv
<1> QED
  BY <1>1, <1>2, CoinAssumption, RulesAreFinite, SumsOfCounts

LEMMA InitCountInv == Init => CountInv
<1> SUFFICES ASSUME Init PROVE CountInv
  OBVIOUS
<1>1. TypeInv
  BY InitTypeInv
<1>2. \A c \in Coins : todo[c] = 0
  BY DEF Init
<1>3. \A r \in Rules : excluded[r] = 0
  BY DEF Init
<1>4. Sum(todo, Coins) = 0 /\ Sum(excluded, Rules) = 0
  BY <1>2, <1>3, CoinAssumption, RulesAreFinite, SumOfZeros
<1>5. DOMAIN selected = {} /\ examined = 0
  BY DEF Init
<1>6. Cardinality(DOMAIN selected) = 0
  BY <1>5, FS_EmptySet
<1> QED
  BY <1>1, <1>4, <1>5, <1>6, CountedAs DEF CountInv, NothingLost

\* Judging one record takes it off those to be judged, and excluding one adds
\* it to a rule's count.
LEMMA JudgedCounts ==
  ASSUME TypeInv, TypeInv', NEW c \in Coins, Candidate(c), Judged(c)
  PROVE  Sum(todo', Coins) = Sum(todo, Coins) - 1
<1>1. todo \in [Coins -> Nat] /\ todo' = [todo EXCEPT ![c] = todo[c] - 1]
  BY BoundAssumption DEF TypeInv, TypeOK, Judged
<1>2. Ints(todo, Coins) /\ todo[c] \in Int /\ todo'[c] = todo[c] - 1 /\ todo'[c] \in Int
      /\ \A d \in Coins \ {c} : todo'[d] = todo[d]
  BY <1>1 DEF Ints
<1>3. Sum(todo', Coins) = Sum(todo, Coins) - todo[c] + todo'[c]
  <2>1. IsFiniteSet(Coins)
    BY CoinAssumption
  <2> QED
    BY <1>2, <2>1, SumChanges
<1>4. Sum(todo, Coins) \in Int
  BY CountedAs
<1> QED
  BY <1>2, <1>3, <1>4

LEMMA ExcludingCounts ==
  ASSUME TypeInv, NEW rule \in Rules, Excluding(rule)
  PROVE  Sum(excluded', Rules) = Sum(excluded, Rules) + 1
<1>1. /\ excluded \in [Rules -> Nat]
      /\ excluded' = [excluded EXCEPT ![rule] = excluded[rule] + 1]
  BY DEF TypeInv, TypeOK, Excluding
<1>2. /\ Ints(excluded, Rules) /\ excluded[rule] \in Int
      /\ excluded'[rule] = excluded[rule] + 1 /\ excluded'[rule] \in Int
      /\ \A r \in Rules \ {rule} : excluded'[r] = excluded[r]
  BY <1>1 DEF Ints
<1>3. Sum(excluded', Rules) = Sum(excluded, Rules) - excluded[rule] + excluded'[rule]
  BY <1>2, RulesAreFinite, SumChanges
<1>4. Sum(excluded, Rules) \in Int
  BY CountedAs
<1> QED
  BY <1>2, <1>3, <1>4

LEMMA DisqualifyKeepsCount ==
  ASSUME CountInv, TypeInv',
         SpendMalformed \/ JudgeUnreadable \/ JudgeWrongEpoch \/ JudgeUnattributed
  PROVE  CountInv'
<1>1. PICK c \in Coins, rule \in Rules :
        /\ Candidate(c) /\ Judged(c) /\ Excluding(rule)
        /\ UNCHANGED <<selected, examined, pc>>
  <2>1. {"unreadable", "wrong_epoch", "unattributed"} \subseteq Rules
    BY DEF Rules, JudgeRules
  <2> QED
    BY <2>1 DEF SpendMalformed, Malforms, JudgeUnreadable, JudgeWrongEpoch,
                JudgeUnattributed, Disqualify
<1>2. TypeInv
  BY DEF CountInv
<1>3. Sum(todo', Coins) = Sum(todo, Coins) - 1
  BY <1>1, <1>2, JudgedCounts
<1>4. Sum(excluded', Rules) = Sum(excluded, Rules) + 1
  BY <1>1, <1>2, ExcludingCounts
<1>5. SumFunction(todo') = Sum(todo', Coins) /\ SumFunction(excluded') = Sum(excluded', Rules)
  BY CountedAsNext
<1>6. examined = Sum(todo, Coins) + Cardinality(DOMAIN selected) + Sum(excluded, Rules)
  BY <1>2, CountedAs DEF CountInv, NothingLost
<1>7. /\ Sum(todo, Coins) \in Int /\ Sum(excluded, Rules) \in Int
      /\ Cardinality(DOMAIN selected) \in Nat
  BY <1>2, CountedAs
<1>8. NothingLost'
  BY <1>1, <1>3, <1>4, <1>5, <1>6, <1>7 DEF NothingLost
<1> QED
  BY <1>1, <1>8 DEF CountInv

LEMMA SelectKeepsCount ==
  ASSUME CountInv, TypeInv', Select \/ Contend
  PROVE  CountInv'
<1>1. PICK c \in Coins :
        /\ Candidate(c) /\ Judged(c)
        /\ UNCHANGED <<examined, pc>>
        /\ \/ /\ Triple(spends'[c]) \notin DOMAIN selected
              /\ Representing(c, Triple(spends'[c]))
              /\ UNCHANGED excluded
           \/ /\ Triple(spends'[c]) \in DOMAIN selected
              /\ Contest(c, Triple(spends'[c]))
  BY DEF Select, Contend
<1> DEFINE t == Triple(spends'[c])
<1>2. TypeInv
  BY DEF CountInv
<1>3. Sum(todo', Coins) = Sum(todo, Coins) - 1
  BY <1>1, <1>2, JudgedCounts
<1>4. SumFunction(todo') = Sum(todo', Coins) /\ SumFunction(excluded') = Sum(excluded', Rules)
  BY CountedAsNext
<1>5. examined = Sum(todo, Coins) + Cardinality(DOMAIN selected) + Sum(excluded, Rules)
  BY <1>2, CountedAs DEF CountInv, NothingLost
<1>6. /\ Sum(todo, Coins) \in Int /\ Sum(excluded, Rules) \in Int
      /\ Cardinality(DOMAIN selected) \in Nat
  BY <1>2, CountedAs
<1>7. Representing(c, t) => DOMAIN selected' = DOMAIN selected \union {t}
  BY DEF Representing
<1>8. Cardinality(DOMAIN selected') + Sum(excluded', Rules)
        = Cardinality(DOMAIN selected) + Sum(excluded, Rules) + 1
  <2>1. CASE t \notin DOMAIN selected /\ Representing(c, t) /\ UNCHANGED excluded
    <3>1. Cardinality(DOMAIN selected') = Cardinality(DOMAIN selected) + 1
      BY <1>2, <1>7, <2>1, FS_AddElement DEF TypeInv
    <3>2. Sum(excluded', Rules) = Sum(excluded, Rules)
      BY <2>1
    <3> QED
      BY <1>6, <3>1, <3>2
  <2>2. CASE t \in DOMAIN selected /\ Contest(c, t)
    <3>1. DOMAIN selected' = DOMAIN selected
      BY <1>7, <2>2 DEF Contest
    <3>2. "superseded" \in Rules
      BY DEF Rules, JudgeRules
    <3>3. Sum(excluded', Rules) = Sum(excluded, Rules) + 1
      BY <1>2, <2>2, <3>2, ExcludingCounts DEF Contest
    <3> QED
      BY <1>6, <3>1, <3>3
  <2> QED
    BY <1>1, <2>1, <2>2
<1>9. Sum(excluded', Rules) \in Int /\ Cardinality(DOMAIN selected') \in Nat
  BY CountedAsNext
<1>10. NothingLost'
  <2> HIDE DEF t
  <2> QED
    BY <1>1, <1>3, <1>4, <1>5, <1>6, <1>8, <1>9 DEF NothingLost
<1> QED
  BY <1>1, <1>10 DEF CountInv, Candidate

LEMMA ReadRecordsKeepsCount ==
  ASSUME CountInv, TypeInv', ReadRecords
  PROVE  CountInv'
<1>1. PICK report \in Reports, listing \in Listings :
        /\ examined' = SumFunction(listing)
        /\ todo' = [c \in Coins |-> IF Kept(c, report[c]) THEN listing[c] ELSE 0]
        /\ excluded' = [r \in Rules |-> SumFunctionOnSet(listing, Under(report, r))]
  <2>1. Untruths
    BY DEF CountInv, TypeInv, TypeOK, Untruths
  <2> QED
    BY <2>1, RecordsTell
<1> DEFINE K == {c \in Coins : Kept(c, report[c])}
           E == Coins \ K
           rule == [c \in E |-> FirstFailed(c, report[c])]
<1>2. listing \in [Coins -> Nat]
  BY BoundAssumption DEF Listings
<1>3. /\ Ints(listing, Coins) /\ Ints(listing, K) /\ Ints(listing, E)
      /\ IsFiniteSet(K) /\ IsFiniteSet(E) /\ K \union E = Coins /\ K \cap E = {}
  BY <1>2, CoinAssumption, FS_Subset DEF Ints
<1>4. examined' = Sum(listing, K) + Sum(listing, E)
  <2>1. examined' = Sum(listing, Coins)
    BY <1>1, <1>2, SumFunctionIsSum
  <2> HIDE DEF K, E
  <2> QED
    BY <1>3, <2>1, SumJoins
<1>5. Sum(todo', Coins) = Sum(listing, K)
  <2>1. \A c \in K : todo'[c] = listing[c]
    BY <1>1
  <2>2. \A c \in E : todo'[c] = 0
    BY <1>1
  <2>3. Ints(todo', Coins)
    BY <1>1, <1>2 DEF Ints
  <2>4. Sum(listing, K) \in Int
    BY <1>3, SumTakes
  <2> HIDE DEF K, E
  <2>5. Sum(todo', K) = Sum(listing, K) /\ Sum(todo', E) = 0
    BY <1>3, <2>1, <2>2, SumAgrees, SumOfZeros
  <2>6. Sum(todo', Coins) = Sum(todo', K) + Sum(todo', E)
    BY <1>3, <2>3, SumJoins
  <2> QED
    BY <2>4, <2>5, <2>6
<1>6. Sum(excluded', Rules) = Sum(listing, E)
  <2>1. \A c \in E : rule[c] \in Rules
    BY RulesNeverKeep
  <2>2. ASSUME NEW r \in Rules
        PROVE  ClassOf(rule, r, E) = Under(report, r)
    <3>1. r # "kept"
      BY RulesAreNotKept
    <3>2. \A c \in Coins : c \in Under(report, r) <=> c \in E /\ rule[c] = r
      BY <3>1 DEF Under, Screened
    <3>3. Under(report, r) \subseteq Coins
      BY DEF Under
    <3> QED
      BY <3>2, <3>3 DEF ClassOf
  <2>3. \A r \in Rules : ClassSums(listing, rule, Rules, E)[r] = excluded'[r]
    BY <1>1, <2>2 DEF ClassSums, Sum
  <2> HIDE DEF E, rule
  <2>4. Sum(listing, E) = Sum(ClassSums(listing, rule, Rules, E), Rules)
    BY <1>3, <2>1, RulesAreFinite, SumByClass
  <2> QED
    BY <2>3, <2>4, RulesAreFinite, SumAgrees
<1>7. Cardinality(DOMAIN selected') = 0 /\ UNCHANGED selected /\ pc' \in {"spends", "done"}
  <2>1. DOMAIN selected' = {}
    BY DEF CountInv, ReadRecords
  <2>2. Cardinality(DOMAIN selected') = 0
    BY <2>1, FS_EmptySet
  <2> QED
    BY <2>2 DEF ReadRecords, Return
<1>8. SumFunction(todo') = Sum(todo', Coins) /\ SumFunction(excluded') = Sum(excluded', Rules)
  BY CountedAsNext
<1>9. Sum(listing, K) \in Int /\ Sum(listing, E) \in Int
  BY <1>3, SumTakes
<1>10. NothingLost'
  <2> HIDE DEF K, E
  <2> QED
    BY <1>4, <1>5, <1>6, <1>7, <1>8, <1>9 DEF NothingLost
<1> QED
  BY <1>7, <1>10 DEF CountInv

LEMMA OthersKeepCount ==
  ASSUME CountInv, TypeInv',
         \/ TerminalEpoch \/ PeakUnavailable \/ ReadPeakPending \/ ReadPeakFinal
         \/ RecordsUnavailable \/ SpendUnanswered \/ Total
         \/ Extend \/ Reorg \/ UNCHANGED vars
  PROVE  CountInv'
<1>1. UNCHANGED pass
  BY DEF TerminalEpoch, PeakUnavailable, ReadPeakPending, ReadPeakFinal, RecordsUnavailable,
         SpendUnanswered, Total, Extend, Reorg, Refuse, vars
<1>2. pc' \in {"peak", "records"} => pc \in {"peak", "records"}
  BY DEF TerminalEpoch, PeakUnavailable, ReadPeakPending, ReadPeakFinal, RecordsUnavailable,
         SpendUnanswered, Total, Extend, Reorg, Refuse, Return, vars
<1> QED
  BY <1>1, <1>2 DEF CountInv, NothingLost, pass

LEMMA NextKeepsCountInv == CountInv /\ [Next]_vars => CountInv'
<1> SUFFICES ASSUME CountInv, [Next]_vars PROVE CountInv'
  OBVIOUS
<1>1. TypeInv'
  BY NextKeepsTypeInv DEF CountInv
<1> QED
  BY <1>1, OthersKeepCount, ReadRecordsKeepsCount, DisqualifyKeepsCount, SelectKeepsCount
     DEF Next, Step

\* Every record a source listed, however often and in whatever order, is at
\* every moment judged exactly once or still to be judged.
THEOREM NoRecordIsLost == Spec => []NothingLost
<1>1. CountInv => NothingLost
  BY DEF CountInv
<1> QED
  BY InitCountInv, NextKeepsCountInv, <1>1, PTL DEF Spec
=============================================================================
