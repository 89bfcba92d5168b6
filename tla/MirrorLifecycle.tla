--------------------------- MODULE MirrorLifecycle ---------------------------
(***************************************************************************)
(* The life of mirror coins, from create (src/create.rs) to reclaim        *)
(* (src/reclaim.rs). Wallets build bundles of unsigned spends from coins   *)
(* they see on the chain; sign and broadcast them; retry and compete with  *)
(* themselves. A bundle stays pending for ever: any of its spends may be   *)
(* confirmed at any time, with others or without them, as far as their own *)
(* conditions let them, and a reorganisation undoes the newest blocks.     *)
(***************************************************************************)
EXTENDS Advertisement, FiniteSetsExt, SequencesExt

CONSTANTS
  Wallets,    \* synthetic keys, by their owner puzzle hash
  Genesis,    \* the coins the chain begins with
  Mirror,     \* the mirror puzzle hash
  NoHint,     \* the memos of an output that carries none
  Adverts,    \* what a caller may ask create to publish
  Memos,      \* the memos that other software may publish
  Fees,       \* the fees a caller may offer
  MaxBundles, \* how many bundles are ever built
  MaxBlocks   \* how many blocks the chain holds

ASSUME WalletAssumption == Wallets \subseteq Int /\ Mirror \notin Wallets
ASSUME FeeAssumption == Fees \subseteq Nat /\ MaxBundles \in Nat /\ MaxBlocks \in Nat
\* The chain begins with finitely many coins, made by no coin of it.
ASSUME GenesisAssumption ==
  /\ IsFiniteSet(Genesis)
  /\ \A c \in Genesis :
       /\ c.asset \in {"dig", "xch"} /\ c.puzzle \in Wallets /\ c.amount \in Nat \ {0}
       /\ c.parent.asset \notin {"dig", "xch"}
ASSUME AdvertAssumption ==
  Adverts \subseteq [asked : Bonds, urls : Seq(Terms), peer : PeerIds \union {NoPeer}, collateral : Nat]
ASSUME MemoAssumption == Memos \subseteq MemoLists \union {Undecodable, NoAdvert}

VARIABLES
  pending,  \* the bundles built so far
  blocks    \* per block, the spends it confirmed

vars == <<pending, blocks>>

(***************************************************************************)
(* Coins. A coin is its parent, its puzzle, its asset and its amount, as a *)
(* coin id is their hash; what it was published with is not part of it.    *)
(***************************************************************************)
Child(parent, puzzle, amount) ==
  [parent |-> parent, puzzle |-> puzzle, asset |-> parent.asset, amount |-> amount]

Output(coin, memos) == [coin |-> coin, memos |-> memos]
Hinted(wallet) == [hint |-> wallet]

IsMirror(c) == c.puzzle = Mirror

\* Who may spend a coin: the holder of its key, for a mirror coin the holder
\* of its parent's, which is what owner_puzzle_hash reads in the lineage proof.
Holder(c) == IF IsMirror(c) THEN c.parent.puzzle ELSE c.puzzle

Amount(cs) == SumFunction([c \in cs |-> c.amount])

Spends(b) == UNION {b[i] : i \in DOMAIN b}
Spent == {s.coin : s \in Spends(blocks)}
Outputs == {Output(c, Hinted(c.puzzle)) : c \in Genesis}
             \union UNION {s.outputs : s \in Spends(blocks)}
Unspent == LET spent == Spent IN {o \in Outputs : o.coin \notin spent}

\* Wallets find their coins by hint.
Purse(wallet, asset) ==
  {o.coin : o \in {u \in Unspent : u.coin.puzzle = wallet /\ u.coin.asset = asset
                                    /\ u.memos = Hinted(wallet)}}

Mirrors == {o \in Unspent : IsMirror(o.coin)}

(***************************************************************************)
(* What the driver makes of inputs and actions: each input is one spend,   *)
(* what is not sent or paid goes back to the owner, hinted, and the spends *)
(* require one another.                                                    *)
(***************************************************************************)
Change(coin, amount) ==
  IF amount > 0 THEN {Output(Child(coin, coin.puzzle, amount), Hinted(coin.puzzle))} ELSE {}

Spend(coin, outputs, required) ==
  [coin |-> coin, outputs |-> outputs, required |-> required \ {coin}]

\* The spends of some coins of which one, the teller, makes the outputs.
Together(coins, teller, outputs, required) ==
  {Spend(c, IF c = teller THEN outputs ELSE {}, required) : c \in coins}

Teller(coins) == CHOOSE c \in coins : TRUE

FeeSpends(coins, fee, required) ==
  Together(coins, Teller(coins), Change(Teller(coins), Amount(coins) - fee), required)

(***************************************************************************)
(* create.                                                                 *)
(***************************************************************************)
\* Mutation: nothing need be locked.
PublishableForNothing(advert) ==
  advert.urls # <<>> /\ \A i \in DOMAIN advert.urls : ~advert.urls[i].prefixed

\* Mutation: nothing need be advertised.
PublishableWithoutUrl(advert) ==
  advert.collateral > 0 /\ \A i \in DOMAIN advert.urls : ~advert.urls[i].prefixed

\* Mutation: any URL is taken.
PublishableWithAnyUrl(advert) == advert.urls # <<>> /\ advert.collateral > 0

Publishable(advert) ==
  /\ advert.urls # <<>>
  /\ advert.collateral > 0
  /\ \A i \in DOMAIN advert.urls : ~advert.urls[i].prefixed

TailOf(advert) ==
  advert.urls \o (IF advert.peer = NoPeer THEN <<>> ELSE <<ToTerm(advert.peer)>>)

MemosOf(wallet, advert) ==
  [hint |-> MirrorHint(advert.asked.store, advert.asked.root, wallet, advert.asked.epoch),
   declared |-> advert.asked,
   tail |-> TailOf(advert)]

\* The bundle that locks `collateral` of the DIG coins and pays the fee.
LockBundle(memos, collateral, digs, fees, fee) ==
  LET payer == Teller(digs)
      locked == Output(Child(payer, Mirror, collateral), memos)
  IN  Together(digs, payer, {locked} \union Change(payer, Amount(digs) - collateral), digs \union fees)
        \union FeeSpends(fees, fee, digs \union fees)

\* The driver refuses what its inputs do not pay for.
Funded(coins, amount) == Amount(coins) >= amount

Build(wallet, verb, advert, spends) ==
  /\ Cardinality(pending) < MaxBundles
  /\ pending' = pending \union {[by |-> wallet, verb |-> verb, advert |-> advert, spends |-> spends]}
  /\ UNCHANGED blocks

Create == \E wallet \in Wallets, advert \in Adverts, fee \in Fees :
  \E digs \in (SUBSET Purse(wallet, "dig")) \ {{}}, fees \in SUBSET Purse(wallet, "xch") :
    /\ Publishable(advert)
    /\ Funded(digs, advert.collateral)
    /\ Funded(fees, fee)
    /\ Build(wallet, "create", advert,
             LockBundle(MemosOf(wallet, advert), advert.collateral, digs, fees, fee))

\* Other software locks a coin of the wallet's with any memos.
PublishOtherwise == \E wallet \in Wallets, memos \in Memos :
  \E payer \in Purse(wallet, "dig") :
    Build(wallet, "publish", NoAdvert, LockBundle(memos, payer.amount, {payer}, {}, 0))

(***************************************************************************)
(* reclaim.                                                                *)
(***************************************************************************)
\* Mutation: the fee is shaved off the collateral.
ReturnedShort(mirror, wallet, fee) ==
  Output(Child(mirror, wallet, mirror.amount - fee), Hinted(wallet))

\* Mutation: the recreated coin carries no hint.
ReturnedUnhinted(mirror, wallet, fee) == Output(Child(mirror, wallet, mirror.amount), NoHint)

\* The whole collateral, hinted to the owner.
Returned(mirror, wallet, fee) == Output(Child(mirror, wallet, mirror.amount), Hinted(wallet))

\* Mutation: the fee does not require the mirror coin to be spent.
ReclaimFeeAlone(mirror, fees) == fees

\* What the fee bundle requires; the mirror coin's spend requires nothing.
ReclaimFeeRequires(mirror, fees) == {mirror} \union fees

ReclaimBundle(mirror, wallet, fees, fee) ==
  {Spend(mirror, {Returned(mirror, wallet, fee)}, {})}
    \union FeeSpends(fees, fee, ReclaimFeeRequires(mirror, fees))

\* reclaim takes a MirrorCoin, and there is one of a coin only if its memos
\* read as an advertisement.
IsMirrorCoin(o) == IsMirror(o.coin) /\ ParseMemos(o.memos) \notin {NoAdvert, Undecodable}

\* reclaim refuses NotOwner.
MayReclaim(wallet, o) == IsMirrorCoin(o) /\ wallet = Holder(o.coin)

Reclaim == \E wallet \in Wallets, o \in Mirrors, fee \in Fees :
  \E fees \in SUBSET Purse(wallet, "xch") :
    /\ MayReclaim(wallet, o)
    /\ Funded(fees, fee)
    /\ Build(wallet, "reclaim", NoAdvert, ReclaimBundle(o.coin, wallet, fees, fee))

(***************************************************************************)
(* The chain. A spend is confirmed with the coins it requires, and with    *)
(* the spends of its own bundle that balance its DIG, as the CAT layer     *)
(* demands; the signature of its bundle is that of the coin's holder.      *)
(***************************************************************************)
Ring(bundle) == {s \in bundle.spends : s.coin.asset = "dig"}
AmountOut(ss) == Amount({o.coin : o \in UNION {s.outputs : s \in ss}})
Balanced(bundle) == Amount({s.coin : s \in Ring(bundle)}) = AmountOut(Ring(bundle))

Admissible(s, block, bundle) ==
  /\ s \in bundle.spends
  /\ bundle.by = Holder(s.coin)
  /\ s.coin.asset = "dig" => Ring(bundle) \subseteq block /\ Balanced(bundle)

Spendable(bundles) ==
  LET coins == {o.coin : o \in Unspent}
  IN  {s \in UNION {b.spends : b \in bundles} : s.coin \in coins}

\* A block spends each coin once, and meets what each of its spends demands.
Consistent(block, bundles) ==
  /\ \A s, t \in block : s.coin = t.coin => s = t
  /\ \A s \in block :
       /\ s.required \subseteq {t.coin : t \in block}
       /\ \E bundle \in bundles : Admissible(s, block, bundle)

Confirm ==
  /\ Len(blocks) < MaxBlocks
  /\ \E block \in SUBSET Spendable(pending) :
        /\ block # {}
        /\ Consistent(block, pending)
        /\ blocks' = Append(blocks, block)
  /\ UNCHANGED pending

Reorg ==
  /\ blocks # <<>>
  /\ blocks' = Front(blocks)
  /\ UNCHANGED pending

Init == pending = {} /\ blocks = <<>>

Next == Create \/ PublishOtherwise \/ Reclaim \/ Confirm \/ Reorg

Spec == Init /\ [][Next]_vars

(***************************************************************************)
(* Properties.                                                             *)
(***************************************************************************)
\* Every coin on the chain goes back to the genesis coins by spends of one
\* wallet, and no coin is on it twice.
TypeOK ==
  /\ \A o \in Outputs : o.coin \in Genesis \/ o.coin.parent \in Spent
  /\ \A o \in Outputs : Holder(o.coin) \in Wallets /\ o.coin.amount > 0
  /\ \A i, j \in DOMAIN blocks : i # j => {s.coin : s \in blocks[i]} \cap {s.coin : s \in blocks[j]} = {}

\* The coins at the mirror puzzle hash that a wallet holds.
Stake(wallet) == {o.coin : o \in {m \in Mirrors : Holder(m.coin) = wallet}}

\* No sequence of creates, reclaims, retries and reorganisations loses DIG: a
\* wallet always has, in coins its hints find and in coins it locked at the
\* mirror puzzle hash, exactly what it began with.
CollateralKept ==
  \A wallet \in Wallets :
    Amount(Purse(wallet, "dig") \union Stake(wallet))
      = Amount({c \in Genesis : c.puzzle = wallet /\ c.asset = "dig"})

\* A fee is paid only for work done: a block that spends a wallet's XCH also
\* creates or returns collateral of that wallet, so a fee cannot be taken from
\* a reclaim or a create whose other spends were not confirmed.
FeesBuyWork ==
  \A i \in DOMAIN blocks : \A s \in blocks[i] :
    s.coin.asset = "xch" =>
      \E t \in blocks[i] :
        /\ Holder(t.coin) = Holder(s.coin)
        /\ IsMirror(t.coin) \/ \E o \in t.outputs : IsMirror(o.coin)

\* The bundle is one that create built, and the output one of its own.
Published(bundle, m) == bundle.verb = "create" /\ \E s \in bundle.spends : m \in s.outputs

\* A mirror coin whose spend create built reads back, wherever it was
\* confirmed, as the advertisement asked for: the URLs in their order, that
\* peer or none, and no other tuple.
PublishedIsDeclared ==
  \A m \in Mirrors : \A bundle \in pending :
    Published(bundle, m) =>
      LET view == ParseMemos(m.memos)
      IN  /\ view \notin {NoAdvert, Undecodable}
          /\ Advertises(view, Holder(m.coin), bundle.advert.asked)
          /\ DeclaredPeer(view.urls) = bundle.advert.peer
          /\ IsPrefix(bundle.advert.urls, view.urls)

\* One stake stands behind at most one peer: a mirror coin, also of other
\* software, credits a claimed peer id exactly if it is the only declaration
\* in the readable tail, and then in either spelling.
Claims == UNION {{t.rest : t \in {u \in ToSet(m.tail) : Text(u)}} :
                   m \in Memos \ {Undecodable, NoAdvert}}

CreditIsUnambiguous ==
  \A m \in Mirrors :
    LET view == ParseMemos(m.memos)
    IN  view \notin {NoAdvert, Undecodable} =>
          \A raw \in Claims :
            DeclaresPeer(view, raw) <=>
              \E i \in DOMAIN view.urls :
                /\ {j \in DOMAIN view.urls : view.urls[j].prefixed} = {i}
                /\ WellSpelt(raw)
                /\ Lowered(view.urls[i].rest) = Lowered(raw)

\* What create locks is never stuck: its memos read, so reclaim takes the coin
\* and its owner. And whatever fee the owner can afford, the bundle reclaim
\* builds is one the chain accepts, whole or without the fee, of its owner
\* only. What other software locks with memos that do not read is out of the
\* reach of reclaim, which has no MirrorCoin to be called with.
Accepted(block, bundle) ==
  block \subseteq Spendable({bundle}) /\ Consistent(block, {bundle})

AlwaysReclaimable ==
  /\ \A m \in Mirrors : \A bundle \in pending :
       Published(bundle, m) => MayReclaim(bundle.by, m)
  /\ \A m \in Mirrors, wallet \in Wallets, fee \in Fees :
       \A fees \in SUBSET Purse(wallet, "xch") :
         Funded(fees, fee) =>
           LET spends == ReclaimBundle(m.coin, wallet, fees, fee)
               bundle == [by |-> wallet, spends |-> spends]
               alone == {s \in spends : s.coin = m.coin}
           IN  /\ MayReclaim(wallet, m) => Accepted(spends, bundle) /\ Accepted(alone, bundle)
               /\ Accepted(alone, bundle) => wallet = Holder(m.coin)
=============================================================================
