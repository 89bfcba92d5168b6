-------------------------------- MODULE Query --------------------------------
(***************************************************************************)
(* list and discover (src/query.rs) with the authentication of a candidate *)
(* (src/coin.rs). Both walk records that a source lists, fetch the spend   *)
(* that created each one and judge it by what that spend establishes.      *)
(*                                                                         *)
(* The source is not trusted: it may add and repeat records, lack a spend, *)
(* answer the spend of another coin or one with a forged puzzle reveal, or *)
(* fail. What it may not do here is omit a record it was asked for, which  *)
(* a query cannot see, or forge the solution of a spend, which no check of *)
(* the code covers. The chain stands still during a call.                  *)
(***************************************************************************)
EXTENDS Advertisement

CONSTANTS
  Coins,          \* coin ids
  Parents,        \* the coins whose spends created them
  Owners,         \* owner puzzle hashes, which the morph reads as integers
  Stores,         \* store launcher ids, likewise
  Roots,          \* store roots, likewise
  Epochs,         \* the epochs a caller may ask about: any integers
  Memos,          \* the memos a coin may have been published with
  MaxRecords,     \* how many records a source may list
  MaxCandidates   \* MAX_CANDIDATES

ASSUME TermAssumption == Owners \union Stores \union Roots \union Epochs \subseteq Int
ASSUME BoundAssumption == MaxRecords \in Nat /\ MaxCandidates \in Nat

VARIABLES
  coin,       \* per coin: its parent, its memos, and whether its puzzle is foreign
  spend,      \* per parent: how its spend reads, the wallet it names, its asset
  asked,      \* the verb and the advertisement it is called with
  pc,         \* which read of the call is under way
  records,    \* what the source listed, in its order
  examined,   \* how many of the records were judged
  kept,       \* which of them are `coins` or `claims`
  skipped,    \* which of them are `skipped`
  rejected,   \* rejected_candidates
  result,     \* whether the call answered
  misled,     \* history: the records whose true creating spend was not answered
  failed      \* history: whether a read of the source failed

facts == <<coin, spend, asked>>
verdicts == <<kept, skipped, rejected>>
vars == <<facts, verdicts, pc, records, examined, result, misled, failed>>

\* A reward has no spend at all: consensus synthesised the parent.
SpendKinds == {"runs", "malformed", "reward"}

Owner(c) == spend[coin[c].parent].owner
Asked == [store |-> asked.store, root |-> asked.root, epoch |-> asked.epoch]
View(c) == ParseMemos(coin[c].memos)

(***************************************************************************)
(* Authentication of one candidate.                                        *)
(***************************************************************************)
\* A spend a source may answer with: whose it is, and whether it is forged, by
\* a reveal that is not that coin's puzzle or bytes that do not decode.
NoSpend == [of |-> "none"]
Answers ==
  {NoSpend} \union [of : {p \in Parents : spend[p].kind # "reward"}, forged : BOOLEAN]

Truth(c) ==
  LET p == coin[c].parent
  IN  IF spend[p].kind = "reward" THEN NoSpend ELSE [of |-> p, forged |-> FALSE]

\* What executing the true creating spend establishes. Puzzle and asset are
\* settled before the memos, and with them the owner. The outputs looked at
\* lock the spend's own asset, which only DIG does under the mirror puzzle hash.
Readout(c) ==
  LET s == spend[coin[c].parent]
  IN  IF s.kind = "malformed" THEN "malformed"
      ELSE IF coin[c].foreign = s.dig THEN "not_a_mirror"
      ELSE IF ~s.dig THEN "foreign_asset"
      ELSE IF View(c) = Undecodable THEN "undecodable_memos"
      ELSE IF View(c) = NoAdvert THEN "not_a_mirror"
      ELSE "mirror"

\* Mutation: the spend of another coin is executed, and created no such coin.
AuthenticateUnbound(c, answer) ==
  IF answer = NoSpend THEN "unauthenticated"
  ELSE IF answer = Truth(c) THEN Readout(c) ELSE "not_a_mirror"

\* No spend, another coin's, a reveal that is not that coin's puzzle, or bytes
\* that do not decode: which of them it was changes what is reported as the
\* reason, never the verdict.
Authenticate(c, answer) ==
  IF answer = NoSpend \/ answer # Truth(c) THEN "unauthenticated" ELSE Readout(c)

Own(c) == Owner(c) = asked.owner

\* list keeps the caller's mirrors; discover the coins that advertise.
Keeps(c, readout) ==
  /\ readout = "mirror"
  /\ IF asked.verb = "list" THEN Own(c) ELSE Advertises(View(c), Owner(c), Asked)

\* Answers that mean "not yours".
Settles(c, readout) ==
  \/ readout \in {"not_a_mirror", "foreign_asset"}
  \/ readout \in {"mirror", "undecodable_memos"} /\ ~Own(c)

(***************************************************************************)
(* The call.                                                               *)
(***************************************************************************)
\* What the source was asked for: the coins at the mirror puzzle hash by list,
\* those under the advertisement's hint by discover.
AskedHint == MirrorHint(asked.store, asked.root, asked.owner, asked.epoch)

Requested ==
  IF asked.verb = "list"
  THEN {c \in Coins : ~coin[c].foreign}
  ELSE {c \in Coins : /\ coin[c].memos \notin {Undecodable, NoAdvert}
                      /\ coin[c].memos.hint = AskedHint}

At(positions) == {records[i] : i \in positions}

Listings == UNION {[1 .. n -> Coins] : n \in 0 .. MaxRecords}

\* Mutation: one record past the bound goes unnoticed.
TruncatedLate == Len(records) > MaxCandidates + 1

Truncated == Len(records) > MaxCandidates

ReadRecords ==
  /\ pc = "records"
  /\ records' \in Listings
  /\ Requested \subseteq {records'[i] : i \in DOMAIN records'}
  /\ pc' = "candidates"
  /\ UNCHANGED <<facts, verdicts, examined, result, misled, failed>>

\* Any read may fail, and ends the call.
ReadFails ==
  /\ failed' = TRUE
  /\ result' = "unavailable"
  /\ pc' = "done"
  /\ UNCHANGED <<facts, verdicts, records, examined, misled>>

RecordsUnavailable == pc = "records" /\ ReadFails

\* Mutation: one record past the bound is judged.
InBoundLate == examined <= MaxCandidates

\* Mutation: the walk stops one record short of the bound.
InBoundShort == examined + 1 < MaxCandidates

InBound == examined < MaxCandidates

\* The walk takes another record.
More == pc = "candidates" /\ InBound /\ examined < Len(records)
Turn == examined + 1
Candidate == records[Turn]

\* One turn of the loop, with the answer the source gives for the spend.
Examine(answer) ==
  /\ More
  /\ examined' = Turn
  /\ misled' = misled \union (IF answer = Truth(Candidate) THEN {} ELSE {Turn})
  /\ UNCHANGED <<facts, pc, records, result, failed>>

Keep == \E answer \in Answers :
  /\ Examine(answer)
  /\ Keeps(Candidate, Authenticate(Candidate, answer))
  /\ kept' = kept \union {Turn}
  /\ UNCHANGED <<skipped, rejected>>

Settle == \E answer \in Answers :
  /\ asked.verb = "list"
  /\ Examine(answer)
  /\ Settles(Candidate, Authenticate(Candidate, answer))
  /\ UNCHANGED verdicts

Skip == \E answer \in Answers :
  /\ asked.verb = "list"
  /\ Examine(answer)
  /\ ~Keeps(Candidate, Authenticate(Candidate, answer))
  /\ ~Settles(Candidate, Authenticate(Candidate, answer))
  /\ skipped' = skipped \union {Turn}
  /\ UNCHANGED <<kept, rejected>>

Reject == \E answer \in Answers :
  /\ asked.verb = "discover"
  /\ Examine(answer)
  /\ ~Keeps(Candidate, Authenticate(Candidate, answer))
  /\ rejected' = rejected + 1
  /\ UNCHANGED <<kept, skipped>>

\* Mutation: a failed read counts as a candidate that is not a mirror.
FailureRejected ==
  /\ More
  /\ failed' = TRUE
  /\ examined' = Turn
  /\ rejected' = rejected + 1
  /\ UNCHANGED <<facts, kept, skipped, pc, records, result, misled>>

SpendUnavailable == More /\ ReadFails

Answer ==
  /\ pc = "candidates"
  /\ ~More
  /\ result' = "answered"
  /\ pc' = "done"
  /\ UNCHANGED <<facts, verdicts, records, examined, misled, failed>>

Init ==
  /\ coin \in [Coins -> [parent : Parents, memos : Memos, foreign : BOOLEAN]]
  /\ spend \in [Parents -> [kind : SpendKinds, owner : Owners, dig : BOOLEAN]]
  /\ asked \in [verb : {"list", "discover"}, store : Stores, root : Roots,
                owner : Owners, epoch : Epochs]
  /\ pc = "records"
  /\ records = <<>>
  /\ examined = 0
  /\ kept = {}
  /\ skipped = {}
  /\ rejected = 0
  /\ result = "unanswered"
  /\ misled = {}
  /\ failed = FALSE

Next ==
  \/ ReadRecords
  \/ RecordsUnavailable
  \/ Keep
  \/ Settle
  \/ Skip
  \/ Reject
  \/ SpendUnavailable
  \/ Answer

Spec == Init /\ [][Next]_vars

(***************************************************************************)
(* Properties. The chain's own facts are stated without the passes above.  *)
(***************************************************************************)
\* No call examines more than the bound, and a record gets one verdict.
TypeOK ==
  /\ records \in Listings
  /\ examined \in 0 .. MaxCandidates
  /\ kept \union skipped \union misled \subseteq 1 .. examined
  /\ kept \cap skipped = {}
  /\ rejected \in 0 .. examined
  /\ pc \in {"records", "candidates", "done"}
  /\ result \in {"unanswered", "unavailable", "answered"}
  /\ failed \in BOOLEAN

\* A coin that locks DIG at the mirror puzzle hash, by a spend that ran.
Collateral(c) ==
  /\ ~coin[c].foreign
  /\ spend[coin[c].parent].kind = "runs"
  /\ spend[coin[c].parent].dig

Mirrors == {c \in Coins : Collateral(c) /\ View(c) \notin {Undecodable, NoAdvert}}

\* The coins that bond the advertisement asked about: declared and published
\* as exactly that, by the wallet that holds them.
Bonding ==
  {c \in Mirrors :
     /\ coin[c].memos.declared = Asked
     /\ coin[c].memos.hint = asked.store + asked.root + Owner(c) + asked.epoch}

Kept == At(kept)
Complete == ~Truncated /\ skipped = {}

Listed == asked.verb = "list" /\ result = "answered"
Discovered == asked.verb = "discover" /\ result = "answered"

\* An inventory that says it is complete holds every mirror of the owner's, of
\* a source that leaves none out, and nothing else, whatever spends the source
\* answered with. It holds a coin exactly as often as the source listed it: a
\* record that is listed twice is returned twice.
CompleteIsWhole ==
  Listed /\ Complete =>
    /\ {c \in Mirrors : Own(c)} \subseteq Kept
    /\ kept = {i \in DOMAIN records : records[i] \in Mirrors /\ Own(records[i])}

\* A coin of the caller's is never dropped in silence: a list that reached
\* the end returns it or names it, its memos decodable or not. A coin whose
\* memos decode and advertise nothing is nobody's mirror and is outside this.
OwnCoinsAccounted ==
  Listed /\ ~Truncated =>
    \A c \in Coins :
      Collateral(c) /\ Own(c) /\ View(c) # NoAdvert => c \in At(kept \union skipped)

\* One stake backs one claim: whatever is under the hint, a claim is a coin
\* that bonds the store, the root and the epoch asked about, and no other. The
\* claims are compared as a set: a record listed twice is claimed twice.
ClaimsAreBonds == Discovered => Kept \subseteq Bonding

\* The owner is not compared, but the hint binds it: among the coins that the
\* hint index was asked for, only the named owner's are claims.
OwnerAnswers == Discovered => \A c \in Kept \intersect Requested : Own(c)

\* "They do not bond this" is said only of an owner who does not: a claim is
\* missing only from a scan that says it stopped early, or from a source that
\* withheld the spend that proves it.
EmptyIsAnAnswer ==
  Discovered /\ ~Truncated => {c \in Bonding : Own(c)} \subseteq At(kept \union misled)

\* An error is a verdict on the source, never on a coin, and an answer rests
\* on no read that failed.
ErrorMeansUnanswered == pc = "done" => (result = "unavailable" <=> failed)

\* The comment of discover: naming the wrong owner yields an empty answer
\* rather than somebody else's coin.
ClaimsAreOwners == Discovered => \A c \in Kept : Own(c)

\* The signal of completeness cannot be held false by somebody else's coin
\* (SPEC 9, item 10): of a source that answers every spend, list skips nothing
\* but what is the caller's own.
NoStrangerJams == Listed /\ misled = {} => \A i \in skipped : Own(records[i])
=============================================================================
