----------------------------- MODULE QueryProofs -----------------------------
(***************************************************************************)
(* Proofs about list and discover, for any number of coins and records and *)
(* whatever spends the source answers with. The invariant says what each   *)
(* verdict given so far establishes about the record it was given on; with *)
(* the walk at its end, that is what the answer establishes.               *)
(***************************************************************************)
EXTENDS Query, TLAPS

Population ==
  /\ coin \in [Coins -> [parent : Parents, memos : Memos, foreign : BOOLEAN]]
  /\ spend \in [Parents -> [kind : SpendKinds, owner : Owners, dig : BOOLEAN]]
  /\ asked \in [verb : {"list", "discover"}, store : Stores, root : Roots,
                owner : Owners, epoch : Epochs]

\* What the caller of list owns at the mirror puzzle hash, readable or not.
Mine(c) == Collateral(c) /\ Own(c) /\ View(c) # NoAdvert

\* The verdict on a record, or the want of one, is justified.
Justified(i) ==
  /\ i \in kept /\ asked.verb = "list" => records[i] \in Mirrors /\ Own(records[i])
  /\ i \in kept /\ asked.verb = "discover" => records[i] \in Bonding
  /\ asked.verb = "list" /\ Mine(records[i]) => i \in kept \union skipped
  /\ asked.verb = "discover" /\ records[i] \in Bonding /\ Own(records[i]) =>
       i \in kept \union misled

Exhausted == ~InBound \/ examined >= Len(records)

Inv ==
  /\ TypeOK
  /\ Population
  /\ examined <= Len(records)
  /\ pc = "records" => examined = 0
  /\ pc = "candidates" => Requested \subseteq At(DOMAIN records)
  /\ result = "answered" => Requested \subseteq At(DOMAIN records) /\ Exhausted
  /\ pc # "done" => ~failed /\ result = "unanswered"
  /\ pc = "done" => (result = "unavailable" <=> failed)
  /\ \A i \in 1 .. examined : Justified(i)

(***************************************************************************)
(* What the verdict on one candidate establishes.                          *)
(***************************************************************************)
LEMMA ViewReads ==
  ASSUME NEW c, View(c) \notin {Undecodable, NoAdvert}
  PROVE  /\ coin[c].memos \notin {Undecodable, NoAdvert}
         /\ View(c).hint = coin[c].memos.hint
         /\ View(c).declared = coin[c].memos.declared
BY DEF View, ParseMemos

LEMMA Executed ==
  ASSUME Population, NEW c \in Coins, NEW answer
  PROVE  /\ Authenticate(c, answer) \in
              {"unauthenticated", "malformed", "not_a_mirror", "foreign_asset",
               "undecodable_memos", "mirror"}
         /\ Authenticate(c, answer) = "unauthenticated" =>
              answer # Truth(c) \/ spend[coin[c].parent].kind # "runs"
         /\ Authenticate(c, answer) = "malformed" => spend[coin[c].parent].kind # "runs"
         /\ Authenticate(c, answer) = "mirror" => c \in Mirrors
         /\ Authenticate(c, answer) = "undecodable_memos" =>
              Collateral(c) /\ View(c) = Undecodable
         /\ Collateral(c) /\ View(c) # NoAdvert =>
              Authenticate(c, answer) \in {"unauthenticated", "undecodable_memos", "mirror"}
         /\ c \in Mirrors /\ answer = Truth(c) => Authenticate(c, answer) = "mirror"
<1>1. /\ coin[c].foreign \in BOOLEAN /\ spend[coin[c].parent].dig \in BOOLEAN
      /\ spend[coin[c].parent].kind \in {"runs", "malformed", "reward"}
  BY DEF Population, SpendKinds
<1>2. spend[coin[c].parent].kind = "reward" <=> Truth(c) = NoSpend
  BY DEF Truth, NoSpend
<1>3. Collateral(c) =>
        Readout(c) = IF View(c) = Undecodable THEN "undecodable_memos"
                     ELSE IF View(c) = NoAdvert THEN "not_a_mirror" ELSE "mirror"
  <2>1. Collateral(c) =>
          /\ spend[coin[c].parent].kind # "malformed" /\ spend[coin[c].parent].dig
          /\ coin[c].foreign # spend[coin[c].parent].dig
    BY <1>1 DEF Collateral
  <2> QED
    BY <2>1 DEF Readout
<1>4. Readout(c) \in {"malformed", "not_a_mirror", "foreign_asset", "undecodable_memos", "mirror"}
  BY DEF Readout
<1>5. Readout(c) = "malformed" <=> spend[coin[c].parent].kind = "malformed"
  BY DEF Readout
<1>6. Readout(c) \in {"undecodable_memos", "mirror"} =>
        /\ ~coin[c].foreign /\ spend[coin[c].parent].dig
        /\ spend[coin[c].parent].kind # "malformed"
        /\ Readout(c) = "undecodable_memos" => View(c) = Undecodable
        /\ Readout(c) = "mirror" => View(c) \notin {Undecodable, NoAdvert}
  <2>1. Readout(c) \in {"undecodable_memos", "mirror"} =>
          /\ spend[coin[c].parent].kind # "malformed" /\ spend[coin[c].parent].dig
          /\ coin[c].foreign # spend[coin[c].parent].dig
    BY DEF Readout
  <2>2. Readout(c) \in {"undecodable_memos", "mirror"} =>
          /\ Readout(c) = "undecodable_memos" => View(c) = Undecodable
          /\ Readout(c) = "mirror" => View(c) \notin {Undecodable, NoAdvert}
    BY DEF Readout
  <2> QED
    BY <1>1, <2>1, <2>2
<1>7. CASE answer = NoSpend \/ answer # Truth(c)
  <2>1. Authenticate(c, answer) = "unauthenticated"
    BY <1>7 DEF Authenticate
  <2>2. c \in Mirrors => spend[coin[c].parent].kind = "runs"
    BY DEF Mirrors, Collateral
  <2> QED
    BY <1>1, <1>2, <1>7, <2>1, <2>2
<1>8. CASE ~(answer = NoSpend \/ answer # Truth(c))
  <2>1. Authenticate(c, answer) = Readout(c)
    BY <1>8 DEF Authenticate
  <2>2. spend[coin[c].parent].kind # "reward"
    BY <1>2, <1>8
  <2>3. Readout(c) \in {"undecodable_memos", "mirror"} => Collateral(c)
    BY <1>1, <1>6, <2>2 DEF Collateral
  <2>4. Readout(c) = "mirror" <=> c \in Mirrors
    BY <1>3, <1>6, <2>3 DEF Mirrors
  <2> QED
    BY <1>1, <1>3, <1>4, <1>5, <1>6, <2>1, <2>3, <2>4
<1> QED
  BY <1>7, <1>8

\* discover keeps exactly the mirrors that bond what it was asked about.
LEMMA BondsAdvertise ==
  ASSUME NEW c \in Mirrors
  PROVE  Advertises(View(c), Owner(c), Asked) <=> c \in Bonding
<1>1. View(c) \notin {Undecodable, NoAdvert}
  BY DEF Mirrors
<1>2. /\ View(c).hint = coin[c].memos.hint
      /\ View(c).declared = coin[c].memos.declared
  BY <1>1, ViewReads
<1>3. MirrorHint(Asked.store, Asked.root, Owner(c), Asked.epoch)
        = asked.store + asked.root + Owner(c) + asked.epoch
  BY DEF MirrorHint, Asked
<1> QED
  BY <1>2, <1>3 DEF Advertises, Bonding

(***************************************************************************)
(* The walk.                                                               *)
(***************************************************************************)
LEMMA ListingsAreSequences ==
  ASSUME NEW l \in Listings
  PROVE  /\ l \in Seq(Coins) /\ Len(l) \in Nat /\ DOMAIN l = 1 .. Len(l)
         /\ \A i \in 1 .. Len(l) : l[i] \in Coins
<1>1. PICK n \in 0 .. MaxRecords : l \in [1 .. n -> Coins]
  BY DEF Listings
<1>2. n \in Nat
  BY BoundAssumption
<1> QED
  BY <1>1, <1>2

LEMMA TurnTakesRecord ==
  ASSUME Inv, More
  PROVE  /\ examined \in Nat /\ Turn \in 1 .. MaxCandidates /\ Turn = examined + 1
         /\ Turn <= Len(records) /\ Candidate \in Coins
         /\ 1 .. Turn = 1 .. examined \union {Turn} /\ Turn \notin 1 .. examined
<1>1. examined \in 0 .. MaxCandidates /\ records \in Listings
  BY DEF Inv, TypeOK
<1>2. Len(records) \in Nat /\ \A i \in 1 .. Len(records) : records[i] \in Coins
  BY <1>1, ListingsAreSequences
<1>3. examined < MaxCandidates /\ examined < Len(records)
  BY DEF More, InBound
<1>4. /\ examined \in Nat /\ Turn \in 1 .. MaxCandidates /\ Turn = examined + 1
      /\ Turn <= Len(records) /\ Turn \in 1 .. Len(records)
      /\ 1 .. Turn = 1 .. examined \union {Turn} /\ Turn \notin 1 .. examined
  BY <1>1, <1>2, <1>3, BoundAssumption DEF Turn
<1> QED
  BY <1>2, <1>4 DEF Candidate

\* What a turn must establish of the record it takes, when the source gave this
\* answer: whether it may be kept, may be skipped, may be passed over.
Due(c, answer, isKept, isSkipped) ==
  /\ isKept /\ asked.verb = "list" => c \in Mirrors /\ Own(c)
  /\ isKept /\ asked.verb = "discover" => c \in Bonding
  /\ asked.verb = "list" /\ Mine(c) => isKept \/ isSkipped
  /\ asked.verb = "discover" /\ c \in Bonding /\ Own(c) => isKept \/ answer # Truth(c)

\* A turn gives one verdict, or none, on the record it takes, and leaves the
\* verdicts on the records before it alone.
LEMMA TurnKeeps ==
  ASSUME Inv, NEW answer, Examine(answer), NEW K, NEW S,
         kept' = kept \union K, skipped' = skipped \union S,
         K \subseteq {Turn}, S \subseteq {Turn}, K \cap S = {},
         rejected' \in {rejected, rejected + 1},
         Due(Candidate, answer, K # {}, S # {})
  PROVE  Inv'
<1>0. PICK n : n = Turn
  OBVIOUS
<1>00. PICK c : c = Candidate
  OBVIOUS
<1>01. PICK M : M = IF answer = Truth(c) THEN {} ELSE {n}
  OBVIOUS
<1>1. /\ More /\ examined' = n /\ misled' = misled \union M
      /\ UNCHANGED <<coin, spend, asked, pc, records, result, failed>>
  BY <1>0, <1>00, <1>01 DEF Examine, facts
<1>2. /\ examined \in Nat /\ n \in 1 .. MaxCandidates /\ n = examined + 1
      /\ n <= Len(records) /\ c \in Coins /\ c = records[n]
      /\ 1 .. n = 1 .. examined \union {n} /\ n \notin 1 .. examined
  BY <1>0, <1>00, <1>1, TurnTakesRecord DEF Candidate
<1>02. /\ M \subseteq {n} /\ K \subseteq {n} /\ S \subseteq {n}
       /\ (M # {} <=> answer # Truth(c))
  BY <1>0, <1>01
<1>3. TypeOK'
  <2>1. rejected' \in 0 .. n
    BY <1>2 DEF Inv, TypeOK
  <2>2. examined' \in 0 .. MaxCandidates
    BY <1>1, <1>2
  <2>3. (kept \union skipped \union misled)' \subseteq 1 .. n
    BY <1>1, <1>2, <1>02 DEF Inv, TypeOK
  <2>4. n \notin kept /\ n \notin skipped
    BY <1>2 DEF Inv, TypeOK
  <2>5. (kept \cap skipped)' = {}
    BY <1>02, <2>4 DEF Inv, TypeOK
  <2> QED
    BY <1>1, <2>1, <2>2, <2>3, <2>5 DEF Inv, TypeOK
<1>4. ASSUME NEW i \in 1 .. examined'
      PROVE  Justified(i)'
  <2>1. CASE i = n
    <3>1. n \notin kept /\ n \notin skipped /\ n \notin misled
      BY <1>2 DEF Inv, TypeOK
    <3>2. /\ n \in kept' <=> K # {}
          /\ n \in skipped' <=> S # {}
          /\ n \in misled' <=> answer # Truth(c)
      BY <1>1, <1>02, <3>1
    <3>3. Due(c, answer, K # {}, S # {})
      BY <1>00
    <3>4. /\ records' = records /\ asked' = asked /\ coin' = coin /\ spend' = spend
          /\ records[n] = c
      BY <1>1, <1>2
    <3>5. /\ n \in kept' /\ asked.verb = "list" => c \in Mirrors /\ Own(c)
          /\ n \in kept' /\ asked.verb = "discover" => c \in Bonding
          /\ asked.verb = "list" /\ Mine(c) => n \in kept' \/ n \in skipped'
          /\ asked.verb = "discover" /\ c \in Bonding /\ Own(c) => n \in kept' \/ n \in misled'
      BY <3>2, <3>3 DEF Due
    <3> QED
      BY <2>1, <3>4, <3>5
      DEF Justified, Mine, Collateral, Own, Owner, View, Mirrors, Bonding, Asked
  <2>2. CASE i \in 1 .. examined
    <3>1. i # n /\ Justified(i)
      BY <1>2, <2>2 DEF Inv
    <3>2. /\ i \in kept' <=> i \in kept
          /\ i \in skipped' <=> i \in skipped
          /\ i \in misled' <=> i \in misled
      BY <1>1, <1>02, <3>1
    <3>3. records' = records /\ asked' = asked /\ coin' = coin /\ spend' = spend
      BY <1>1
    <3> QED
      BY <3>1, <3>2, <3>3
      DEF Justified, Mine, Collateral, Own, Owner, View, Mirrors, Bonding, Asked
  <2> QED
    BY <1>1, <1>2, <2>1, <2>2
<1>5. Population' /\ Requested' = Requested /\ At(DOMAIN records)' = At(DOMAIN records)
  BY <1>1 DEF Inv, Population, Requested, AskedHint, At
<1>6. pc = "candidates" /\ result = "unanswered" /\ ~failed
  BY <1>1 DEF Inv, More
<1>7. (examined <= Len(records))'
  BY <1>1, <1>2
<1>8. Requested \subseteq At(DOMAIN records)
  BY <1>6 DEF Inv
<1> QED
  BY <1>1, <1>3, <1>4, <1>5, <1>6, <1>7, <1>8 DEF Inv

\* Every turn takes a coin of the population.
LEMMA TurnReads ==
  ASSUME Inv, NEW answer, Examine(answer)
  PROVE  Population /\ Candidate \in Coins
BY TurnTakesRecord DEF Examine, Inv

LEMMA KeepKeeps == ASSUME Inv, Keep PROVE Inv'
<1>1. PICK answer \in Answers :
        /\ Examine(answer)
        /\ Keeps(Candidate, Authenticate(Candidate, answer))
        /\ kept' = kept \union {Turn}
        /\ UNCHANGED <<skipped, rejected>>
  BY DEF Keep
<1>2. Population /\ Candidate \in Coins
  BY <1>1, TurnReads
<1>3. /\ Candidate \in Mirrors
      /\ IF asked.verb = "list" THEN Own(Candidate)
         ELSE Advertises(View(Candidate), Owner(Candidate), Asked)
  BY <1>1, <1>2, Executed DEF Keeps
<1>4. asked.verb = "discover" => Candidate \in Bonding
  BY <1>3, BondsAdvertise
<1>5. Due(Candidate, answer, {Turn} # {}, {} # {})
  BY <1>3, <1>4 DEF Due
<1>6. skipped' = skipped \union {} /\ rejected' \in {rejected, rejected + 1}
  BY <1>1
<1> QED
  BY <1>1, <1>5, <1>6, TurnKeeps

LEMMA SettleKeeps == ASSUME Inv, Settle PROVE Inv'
<1>1. PICK answer \in Answers :
        /\ asked.verb = "list"
        /\ Examine(answer)
        /\ Settles(Candidate, Authenticate(Candidate, answer))
        /\ UNCHANGED verdicts
  BY DEF Settle
<1>2. Population /\ Candidate \in Coins
  BY <1>1, TurnReads
<1>3. ~Mine(Candidate)
  BY <1>1, <1>2, Executed DEF Settles, Mine
<1>4. Due(Candidate, answer, {} # {}, {} # {})
  BY <1>1, <1>3 DEF Due
<1>5. /\ kept' = kept \union {} /\ skipped' = skipped \union {}
      /\ rejected' \in {rejected, rejected + 1}
  BY <1>1 DEF verdicts
<1> QED
  BY <1>1, <1>4, <1>5, TurnKeeps

\* What is skipped is accounted for.
LEMMA SkipKeeps == ASSUME Inv, Skip PROVE Inv'
<1>1. PICK answer \in Answers :
        /\ asked.verb = "list"
        /\ Examine(answer)
        /\ ~Keeps(Candidate, Authenticate(Candidate, answer))
        /\ ~Settles(Candidate, Authenticate(Candidate, answer))
        /\ skipped' = skipped \union {Turn}
        /\ UNCHANGED <<kept, rejected>>
  BY DEF Skip
<1>2. Population /\ Candidate \in Coins
  BY <1>1, TurnReads
<1>3. ~(Candidate \in Mirrors /\ Own(Candidate) /\ answer = Truth(Candidate))
  BY <1>1, <1>2, Executed DEF Keeps
<1>4. asked.verb = "list"
  BY <1>1
<1>5. Due(Candidate, answer, {} # {}, {Turn} # {})
  BY <1>1, <1>4 DEF Due
<1>6. kept' = kept \union {} /\ rejected' \in {rejected, rejected + 1}
  BY <1>1
<1> QED
  BY <1>1, <1>5, <1>6, TurnKeeps

LEMMA RejectKeeps == ASSUME Inv, Reject PROVE Inv'
<1>1. PICK answer \in Answers :
        /\ asked.verb = "discover"
        /\ Examine(answer)
        /\ ~Keeps(Candidate, Authenticate(Candidate, answer))
        /\ rejected' = rejected + 1
        /\ UNCHANGED <<kept, skipped>>
  BY DEF Reject
<1>2. Population /\ Candidate \in Coins
  BY <1>1, TurnReads
<1>3. Candidate \in Bonding => answer # Truth(Candidate)
  <2>1. Candidate \in Bonding => Candidate \in Mirrors
    BY DEF Bonding
  <2>2. Candidate \in Bonding => Advertises(View(Candidate), Owner(Candidate), Asked)
    BY <2>1, BondsAdvertise
  <2>3. Candidate \in Bonding /\ answer = Truth(Candidate) =>
          Authenticate(Candidate, answer) = "mirror"
    BY <1>2, <2>1, Executed
  <2> QED
    BY <1>1, <2>2, <2>3 DEF Keeps
<1>4. Due(Candidate, answer, {} # {}, {} # {})
  BY <1>1, <1>3 DEF Due
<1>5. /\ kept' = kept \union {} /\ skipped' = skipped \union {}
      /\ rejected' \in {rejected, rejected + 1}
  BY <1>1
<1> QED
  BY <1>1, <1>4, <1>5, TurnKeeps

(***************************************************************************)
(* The other steps judge no record.                                        *)
(***************************************************************************)
LEMMA JustifiedStays ==
  ASSUME UNCHANGED <<facts, kept, skipped, misled, records, examined>>,
         \A i \in 1 .. examined : Justified(i)
  PROVE  (\A i \in 1 .. examined : Justified(i))'
BY DEF facts, Justified, Mine, Collateral, Own, Owner, View, Mirrors, Bonding, Asked

LEMMA ReadRecordsKeeps == ASSUME Inv, ReadRecords PROVE Inv'
<1>0. /\ UNCHANGED <<coin, spend, asked, kept, skipped, rejected, examined, result, misled, failed>>
      /\ pc = "records" /\ pc' = "candidates" /\ records' \in Listings
      /\ Requested \subseteq {records'[i] : i \in DOMAIN records'}
  BY DEF ReadRecords, facts, verdicts
<1>1. examined = 0
  BY <1>0 DEF Inv
<1>2. examined' = 0 /\ (1 .. examined = {})'
  BY <1>0, <1>1
<1>3. TypeOK' /\ Population'
  BY <1>0 DEF Inv, TypeOK, Population
<1>4. (examined <= Len(records))'
  BY <1>0, <1>2, ListingsAreSequences
<1>5. (Requested \subseteq At(DOMAIN records))'
  BY <1>0 DEF Requested, AskedHint, At
<1>6. ~failed' /\ result' = "unanswered"
  BY <1>0 DEF Inv
<1> QED
  BY <1>0, <1>2, <1>3, <1>4, <1>5, <1>6 DEF Inv

LEMMA ReadFailsKeeps == ASSUME Inv, ReadFails PROVE Inv'
<1>0. /\ UNCHANGED <<coin, spend, asked, kept, skipped, rejected, records, examined, misled>>
      /\ failed' = TRUE /\ result' = "unavailable" /\ pc' = "done"
  BY DEF ReadFails, facts, verdicts
<1>1. TypeOK' /\ Population' /\ (examined <= Len(records))'
  BY <1>0 DEF Inv, TypeOK, Population
<1>2. (\A i \in 1 .. examined : Justified(i))'
  BY <1>0, JustifiedStays DEF Inv, facts
<1> QED
  BY <1>0, <1>1, <1>2 DEF Inv

LEMMA AnswerKeeps == ASSUME Inv, Answer PROVE Inv'
<1>0. /\ UNCHANGED <<coin, spend, asked, kept, skipped, rejected, records, examined, misled, failed>>
      /\ result' = "answered" /\ pc' = "done" /\ pc = "candidates" /\ ~More
  BY DEF Answer, facts, verdicts
<1>1. TypeOK' /\ Population' /\ (examined <= Len(records))'
  BY <1>0 DEF Inv, TypeOK, Population
<1>2. (\A i \in 1 .. examined : Justified(i))'
  BY <1>0, JustifiedStays DEF Inv, facts
<1>3. (Requested \subseteq At(DOMAIN records) /\ Exhausted)'
  <2>1. Requested' = Requested /\ At(DOMAIN records)' = At(DOMAIN records)
    BY <1>0 DEF Requested, AskedHint, At
  <2>2. Exhausted
    <3>1. records \in Listings /\ examined \in 0 .. MaxCandidates
      BY DEF Inv, TypeOK
    <3> QED
      BY <1>0, <3>1, ListingsAreSequences, BoundAssumption DEF More, Exhausted
  <2>3. Exhausted'
    BY <1>0, <2>2 DEF Exhausted, InBound
  <2> QED
    BY <1>0, <2>1, <2>3 DEF Inv
<1> QED
  BY <1>0, <1>1, <1>2, <1>3 DEF Inv

LEMMA InitInv == Init => Inv
<1> SUFFICES ASSUME Init PROVE Inv
  OBVIOUS
<1>1. <<>> \in Listings
  <2>1. 0 \in 0 .. MaxRecords /\ <<>> \in [1 .. 0 -> Coins]
    BY BoundAssumption
  <2> QED
    BY <2>1 DEF Listings
<1>2. TypeOK
  <2>1. 0 \in 0 .. MaxCandidates /\ 0 \in 0 .. 0
    BY BoundAssumption
  <2>2. /\ records = <<>> /\ examined = 0 /\ rejected = 0 /\ pc = "records"
        /\ kept = {} /\ skipped = {} /\ misled = {}
        /\ result = "unanswered" /\ failed = FALSE
    BY DEF Init
  <2> QED
    BY <1>1, <2>1, <2>2 DEF TypeOK
<1>3. 1 .. examined = {} /\ examined <= Len(records)
  BY DEF Init
<1> QED
  BY <1>2, <1>3 DEF Init, Inv, Population

LEMMA NextInv == Inv /\ [Next]_vars => Inv'
<1> SUFFICES ASSUME Inv, [Next]_vars PROVE Inv'
  OBVIOUS
<1>1. CASE ReadRecords
  BY <1>1, ReadRecordsKeeps
<1>2. CASE RecordsUnavailable
  BY <1>2, ReadFailsKeeps DEF RecordsUnavailable
<1>3. CASE Keep
  BY <1>3, KeepKeeps
<1>4. CASE Settle
  BY <1>4, SettleKeeps
<1>5. CASE Skip
  BY <1>5, SkipKeeps
<1>6. CASE Reject
  BY <1>6, RejectKeeps
<1>7. CASE SpendUnavailable
  BY <1>7, ReadFailsKeeps DEF SpendUnavailable
<1>8. CASE Answer
  BY <1>8, AnswerKeeps
<1>9. CASE UNCHANGED vars
  <2>0. UNCHANGED <<coin, spend, asked, kept, skipped, rejected, pc, records, examined,
                    result, misled, failed>>
    BY <1>9 DEF vars, facts, verdicts
  <2>1. TypeOK' /\ Population' /\ (examined <= Len(records))'
    BY <2>0 DEF Inv, TypeOK, Population
  <2>2. (\A i \in 1 .. examined : Justified(i))'
    BY <2>0, JustifiedStays DEF Inv, facts
  <2>3. Requested' = Requested /\ At(DOMAIN records)' = At(DOMAIN records)
        /\ Exhausted' = Exhausted
    BY <2>0 DEF Requested, AskedHint, At, Exhausted, InBound
  <2> QED
    BY <2>0, <2>1, <2>2, <2>3 DEF Inv
<1> QED
  BY <1>1, <1>2, <1>3, <1>4, <1>5, <1>6, <1>7, <1>8, <1>9 DEF Next

LEMMA InvHolds == Spec => []Inv
BY InitInv, NextInv, PTL DEF Spec

(***************************************************************************)
(* What an answer establishes.                                             *)
(***************************************************************************)
\* An answer that is not truncated has taken every record.
LEMMA WalkEnded ==
  ASSUME Inv, result = "answered", ~Truncated
  PROVE  DOMAIN records = 1 .. examined
<1>1. /\ records \in Listings /\ examined \in 0 .. MaxCandidates
      /\ examined <= Len(records) /\ Exhausted
  BY DEF Inv, TypeOK
<1>2. Len(records) \in Nat /\ DOMAIN records = 1 .. Len(records)
  BY <1>1, ListingsAreSequences
<1>3. examined = Len(records)
  <2>1. ~(Len(records) > MaxCandidates)
    BY DEF Truncated
  <2>2. ~(examined < MaxCandidates) \/ examined >= Len(records)
    BY <1>1 DEF Exhausted, InBound
  <2>3. examined \in Nat /\ examined <= MaxCandidates /\ examined <= Len(records)
    BY <1>1, BoundAssumption
  <2>4. Len(records) \in Nat /\ MaxCandidates \in Nat
    BY <1>2, BoundAssumption
  <2> QED
    BY <2>1, <2>2, <2>3, <2>4
<1> QED
  BY <1>2, <1>3

\* It has a verdict on every coin asked for.
LEMMA EveryRequestJudged ==
  ASSUME Inv, result = "answered", ~Truncated, NEW c \in Requested
  PROVE  \E i \in 1 .. examined : records[i] = c /\ Justified(i)
<1>1. Requested \subseteq At(DOMAIN records)
  BY DEF Inv
<1>2. PICK i \in 1 .. examined : records[i] = c
  BY <1>1, WalkEnded DEF At
<1> QED
  BY <1>2 DEF Inv

\* A verdict on a record is a verdict on its coin.
LEMMA KeptAreJudged ==
  ASSUME Inv, NEW c \in Kept
  PROVE  \E i \in kept : records[i] = c /\ Justified(i)
BY DEF Inv, TypeOK, Kept, At

\* Verdicts are given within the bound, and a record gets at most one.
THEOREM TypeCorrect == Spec => []TypeOK
<1>1. Inv => TypeOK
  BY DEF Inv
<1> QED
  BY <1>1, InvHolds, PTL

\* An inventory that says it is complete holds every mirror of the owner's that
\* the source listed, as often as it was listed, and nothing else, whatever
\* spends the source answered with; and the source listed all it was asked for.
THEOREM CompleteInventoryIsWhole == Spec => []CompleteIsWhole
<1>1. Inv => CompleteIsWhole
  <2> SUFFICES ASSUME Inv, Listed, Complete
               PROVE  /\ {c \in Mirrors : Own(c)} \subseteq Kept
                      /\ kept = {i \in DOMAIN records : records[i] \in Mirrors /\ Own(records[i])}
    BY DEF CompleteIsWhole
  <2>1. DOMAIN records = 1 .. examined
    BY WalkEnded DEF Listed, Complete
  <2>2. /\ asked.verb = "list" /\ skipped = {} /\ kept \subseteq 1 .. examined
        /\ \A i \in 1 .. examined : Justified(i)
    BY DEF Listed, Complete, Inv, TypeOK
  <2>3. \A i \in kept : records[i] \in Mirrors /\ Own(records[i])
    BY <2>2 DEF Justified
  <2>4. ASSUME NEW i \in 1 .. examined, records[i] \in Mirrors, Own(records[i])
        PROVE  i \in kept
    <3>1. Mine(records[i])
      BY <2>4 DEF Mirrors, Mine
    <3> QED
      BY <2>2, <3>1 DEF Justified
  <2>5. kept = {i \in DOMAIN records : records[i] \in Mirrors /\ Own(records[i])}
    BY <2>1, <2>2, <2>3, <2>4
  <2>6. ASSUME NEW c \in Mirrors, Own(c)
        PROVE  c \in Kept
    <3>1. c \in Requested
      BY DEF Mirrors, Collateral, Requested, Listed
    <3>2. PICK i \in 1 .. examined : records[i] = c
      BY <3>1, EveryRequestJudged DEF Listed, Complete
    <3> QED
      BY <2>4, <2>6, <3>2 DEF Kept, At
  <2> QED
    BY <2>5, <2>6
<1> QED
  BY <1>1, InvHolds, PTL

\* A list that reached the end returns or names every coin of the caller's.
THEOREM OwnCoinsAreNeverDropped == Spec => []OwnCoinsAccounted
<1>1. Inv => OwnCoinsAccounted
  <2> SUFFICES ASSUME Inv, Listed, ~Truncated, NEW c \in Coins,
                      Collateral(c), Own(c), View(c) # NoAdvert
               PROVE  c \in At(kept \union skipped)
    BY DEF OwnCoinsAccounted
  <2>1. c \in Requested /\ Mine(c)
    BY DEF Collateral, Requested, Listed, Mine
  <2>2. PICK i \in 1 .. examined : records[i] = c /\ Justified(i)
    BY <2>1, EveryRequestJudged DEF Listed
  <2>3. i \in kept \union skipped
    BY <2>1, <2>2 DEF Justified, Listed
  <2> QED
    BY <2>2, <2>3 DEF At
<1> QED
  BY <1>1, InvHolds, PTL

\* One stake backs one claim: however the epoch of a coin was chosen to land
\* on a hint, discover takes it only for the advertisement it declares.
THEOREM ClaimsBondWhatWasAsked == Spec => []ClaimsAreBonds
<1>1. Inv => ClaimsAreBonds
  BY KeptAreJudged DEF ClaimsAreBonds, Discovered, Justified
<1> QED
  BY <1>1, InvHolds, PTL

\* With the other three terms fixed the sum determines the owner, so a claim
\* found under the hint asked for is the named owner's.
THEOREM HintBindsOwner == Spec => []OwnerAnswers
<1>1. Inv => OwnerAnswers
  <2> SUFFICES ASSUME Inv, Discovered, NEW c \in Kept \intersect Requested
               PROVE  Own(c)
    BY DEF OwnerAnswers
  <2>1. c \in Coins /\ c \in Bonding
    BY KeptAreJudged DEF Discovered, Justified, Requested
  <2>2. coin[c].memos.hint = asked.store + asked.root + asked.owner + asked.epoch
    BY DEF Discovered, Requested, AskedHint, MirrorHint
  <2>3. coin[c].memos.hint = asked.store + asked.root + Owner(c) + asked.epoch
    BY <2>1 DEF Bonding
  <2>4. {asked.store, asked.root, asked.owner, asked.epoch, Owner(c)} \subseteq Int
    BY <2>1, TermAssumption DEF Inv, Population, Owner
  <2> QED
    BY <2>2, <2>3, <2>4 DEF Own
<1> QED
  BY <1>1, InvHolds, PTL

\* A claim is missing only from a scan that says it stopped early, or from a
\* source that withheld the spend that proves it.
THEOREM EmptyAnswersAreTrue == Spec => []EmptyIsAnAnswer
<1>1. Inv => EmptyIsAnAnswer
  <2> SUFFICES ASSUME Inv, Discovered, ~Truncated, NEW c \in Bonding, Own(c)
               PROVE  c \in At(kept \union misled)
    BY DEF EmptyIsAnAnswer
  <2>1. /\ c \in Coins /\ View(c) \notin {Undecodable, NoAdvert}
        /\ coin[c].memos.hint = asked.store + asked.root + Owner(c) + asked.epoch
    BY DEF Bonding, Mirrors
  <2>2. coin[c].memos.hint = AskedHint
    BY <2>1 DEF Own, AskedHint, MirrorHint
  <2>3. c \in Requested
    BY <2>1, <2>2, ViewReads DEF Requested, Discovered
  <2>4. PICK i \in 1 .. examined : records[i] = c /\ Justified(i)
    BY <2>3, EveryRequestJudged DEF Discovered
  <2>5. i \in kept \union misled
    BY <2>4 DEF Justified, Discovered
  <2> QED
    BY <2>4, <2>5 DEF At
<1> QED
  BY <1>1, InvHolds, PTL

\* An error says that the source failed, never that a coin was odd.
THEOREM ErrorsAreTheSources == Spec => []ErrorMeansUnanswered
<1>1. Inv => ErrorMeansUnanswered
  BY DEF Inv, ErrorMeansUnanswered
<1> QED
  BY <1>1, InvHolds, PTL
=============================================================================
