------------------------ MODULE MirrorLifecycleProofs ------------------------
(***************************************************************************)
(* Proofs about the spend builders, for any number of wallets, coins,      *)
(* bundles and blocks: who pays for what, that no DIG is lost, that what   *)
(* is locked can be reclaimed, and that what is published reads back, for  *)
(* peer ids of any width and tails of any length.                          *)
(***************************************************************************)
EXTENDS MirrorLifecycle, Sums

(***************************************************************************)
(* Spellings.                                                              *)
(***************************************************************************)
LEMMA DigitsRead ==
  ASSUME NEW byte \in Bytes, NEW lowered,
         lowered = IF byte \in 65 .. 70 THEN byte + 32 ELSE byte
  PROVE  /\ HexDigit(byte) >= 0 <=> lowered \in Digits
         /\ lowered \in Digits => HexDigit(byte) \in 0 .. 15
         /\ lowered \in Digits => lowered = LowerDigit(HexDigit(byte))
BY DEF Bytes, HexDigit, Digits, LowerDigit

LEMMA CaseIsFolded ==
  ASSUME NEW a \in Bytes, NEW b \in Bytes, NEW lowered,
         lowered = IF a \in 65 .. 70 THEN a + 32 ELSE a,
         lowered = IF b \in 65 .. 70 THEN b + 32 ELSE b
  PROVE  HexDigit(a) = HexDigit(b)
<1>1. CASE lowered \in Digits
  <2>1. HexDigit(a) \in 0 .. 15 /\ HexDigit(b) \in 0 .. 15
    BY <1>1, DigitsRead
  <2>2. LowerDigit(HexDigit(a)) = LowerDigit(HexDigit(b))
    BY <1>1, DigitsRead
  <2> QED
    BY <2>1, <2>2 DEF LowerDigit
<1>2. CASE lowered \notin Digits
  <2>1. a \notin 48 .. 57 /\ a \notin 97 .. 102 /\ a \notin 65 .. 70
    BY <1>2 DEF Digits, Bytes
  <2>2. b \notin 48 .. 57 /\ b \notin 97 .. 102 /\ b \notin 65 .. 70
    BY <1>2 DEF Digits, Bytes
  <2> QED
    BY <2>1, <2>2 DEF HexDigit
<1> QED
  BY <1>1, <1>2

LEMMA NibblesDecide ==
  ASSUME NEW a \in 0 .. 15, NEW b \in 0 .. 15, NEW c \in 0 .. 15, NEW d \in 0 .. 15,
         16 * a + b = 16 * c + d
  PROVE  a = c /\ b = d
OBVIOUS

\* What is written is read back: a declaration survives its term.
THEOREM HexRoundTrip ==
  ASSUME NEW peer \in PeerIds
  PROVE  FromHex(ToHex(peer)) = peer
<1> DEFINE raw == ToHex(peer)
<1>1. /\ raw \in Seq(Int) /\ Len(raw) = 2 * PeerBytes /\ DOMAIN raw = 1 .. 2 * PeerBytes
  <2>1. ASSUME NEW i \in 1 .. 2 * PeerBytes
        PROVE  raw[i] \in Int
    <3> DEFINE byte == peer[(i + 1) \div 2]
    <3>1. (i + 1) \div 2 \in 1 .. PeerBytes
      BY PeerAssumption
    <3>2. byte \in 0 .. 255
      BY <3>1 DEF PeerIds, Bytes
    <3>3. byte \div 16 \in Int /\ byte % 16 \in Int
      BY <3>2
    <3>4. raw[i] = LowerDigit(IF i % 2 = 1 THEN byte \div 16 ELSE byte % 16)
      BY DEF ToHex
    <3> HIDE DEF raw, byte
    <3> QED
      BY <3>3, <3>4 DEF LowerDigit
  <2>2. raw = [i \in 1 .. 2 * PeerBytes |-> raw[i]]
    BY DEF ToHex
  <2> HIDE DEF raw
  <2>3. raw \in [1 .. 2 * PeerBytes -> Int]
    BY <2>1, <2>2
  <2> QED
    BY <2>3, PeerAssumption
<1>2. ASSUME NEW value \in 0 .. 15
      PROVE  HexDigit(LowerDigit(value)) = value
  BY DEF HexDigit, LowerDigit
<1>3. ASSUME NEW i \in 1 .. PeerBytes
      PROVE  /\ HexDigit(raw[2 * i - 1]) = peer[i] \div 16
             /\ HexDigit(raw[2 * i]) = peer[i] % 16
  <2>1. /\ 2 * i - 1 \in 1 .. 2 * PeerBytes /\ 2 * i \in 1 .. 2 * PeerBytes
        /\ (2 * i - 1) % 2 = 1 /\ (2 * i) % 2 = 0
        /\ (2 * i - 1 + 1) \div 2 = i /\ (2 * i + 1) \div 2 = i
    BY PeerAssumption
  <2>2. peer[i] \in 0 .. 255
    BY DEF PeerIds, Bytes
  <2>3. peer[i] \div 16 \in 0 .. 15 /\ peer[i] % 16 \in 0 .. 15
    BY <2>2
  <2>4. raw[2 * i - 1] = LowerDigit(peer[i] \div 16) /\ raw[2 * i] = LowerDigit(peer[i] % 16)
    BY <2>1 DEF ToHex
  <2> QED
    BY <1>2, <2>3, <2>4
<1>4. \A j \in DOMAIN raw : HexDigit(raw[j]) >= 0
  <2> SUFFICES ASSUME NEW j \in 1 .. 2 * PeerBytes PROVE HexDigit(raw[j]) >= 0
    BY <1>1
  <2>1. PICK i \in 1 .. PeerBytes : j = 2 * i - 1 \/ j = 2 * i
    <3>1. (j + 1) \div 2 \in 1 .. PeerBytes
      BY PeerAssumption
    <3>2. j = 2 * ((j + 1) \div 2) - 1 \/ j = 2 * ((j + 1) \div 2)
      BY PeerAssumption
    <3> QED
      BY <3>1, <3>2
  <2>2. peer[i] \in 0 .. 255
    BY DEF PeerIds, Bytes
  <2>3. peer[i] \div 16 >= 0 /\ peer[i] % 16 >= 0
    BY <2>2
  <2> QED
    BY <1>3, <2>1, <2>3
<1>5. FromHex(raw) = [i \in 1 .. PeerBytes |-> 16 * HexDigit(raw[2 * i - 1]) + HexDigit(raw[2 * i])]
  BY <1>1, <1>4 DEF FromHex
<1>6. \A i \in 1 .. PeerBytes : 16 * HexDigit(raw[2 * i - 1]) + HexDigit(raw[2 * i]) = peer[i]
  <2> SUFFICES ASSUME NEW i \in 1 .. PeerBytes
               PROVE  16 * (peer[i] \div 16) + (peer[i] % 16) = peer[i]
    BY <1>3
  <2>1. peer[i] \in 0 .. 255
    BY DEF PeerIds, Bytes
  <2> QED
    BY <2>1
<1> QED
  BY <1>5, <1>6 DEF PeerIds

\* A claim counts in whichever case it is spelled: what reads as one peer id
\* is exactly what differs in the case of its letters at most.
THEOREM SpellingsOfOnePeer ==
  ASSUME NEW raw \in Seq(Bytes), NEW other \in Seq(Bytes),
         FromHex(raw) # NoPeer, NoPeer \notin PeerIds
  PROVE  FromHex(raw) = FromHex(other) <=> Lowered(raw) = Lowered(other)
<1>1. Len(raw) = 2 * PeerBytes /\ \A i \in DOMAIN raw : HexDigit(raw[i]) >= 0
  BY DEF FromHex
<1>2. ASSUME NEW r \in Seq(Bytes)
      PROVE  \A i \in DOMAIN r :
               /\ Lowered(r)[i] = IF r[i] \in 65 .. 70 THEN r[i] + 32 ELSE r[i]
               /\ HexDigit(r[i]) >= 0 <=> Lowered(r)[i] \in Digits
               /\ Lowered(r)[i] \in Digits => HexDigit(r[i]) \in 0 .. 15
               /\ Lowered(r)[i] \in Digits => Lowered(r)[i] = LowerDigit(HexDigit(r[i]))
  <2> TAKE i \in DOMAIN r
  <2>1. r[i] \in Bytes
    OBVIOUS
  <2>2. Lowered(r)[i] = IF r[i] \in 65 .. 70 THEN r[i] + 32 ELSE r[i]
    BY DEF Lowered
  <2> QED
    BY <2>1, <2>2, DigitsRead
<1>3. ASSUME Lowered(raw) = Lowered(other)
      PROVE  FromHex(raw) = FromHex(other)
  <2>1. DOMAIN other = DOMAIN raw
    BY <1>3 DEF Lowered
  <2>2. Len(other) = Len(raw)
    BY <2>1
  <2>3. \A i \in DOMAIN raw : HexDigit(other[i]) = HexDigit(raw[i])
    <3> TAKE i \in DOMAIN raw
    <3>1. Lowered(raw)[i] = Lowered(other)[i] /\ raw[i] \in Bytes /\ other[i] \in Bytes
      BY <1>3, <2>1
    <3>2. Lowered(raw)[i] = (IF raw[i] \in 65 .. 70 THEN raw[i] + 32 ELSE raw[i])
          /\ Lowered(other)[i] = (IF other[i] \in 65 .. 70 THEN other[i] + 32 ELSE other[i])
      BY <1>2, <2>1
    <3> QED
      BY <3>1, <3>2, CaseIsFolded
  <2>4. \A i \in 1 .. PeerBytes : 2 * i - 1 \in DOMAIN raw /\ 2 * i \in DOMAIN raw
    <3>1. DOMAIN raw = 1 .. 2 * PeerBytes
      BY <1>1
    <3> QED
      BY <3>1, PeerAssumption
  <2> QED
    BY <1>1, <2>1, <2>2, <2>3, <2>4 DEF FromHex
<1>4. ASSUME FromHex(raw) = FromHex(other)
      PROVE  Lowered(raw) = Lowered(other)
  <2>1. Len(other) = 2 * PeerBytes /\ \A i \in DOMAIN other : HexDigit(other[i]) >= 0
    BY <1>4 DEF FromHex
  <2>2. DOMAIN raw = 1 .. 2 * PeerBytes /\ DOMAIN other = 1 .. 2 * PeerBytes
    BY <1>1, <2>1
  <2>3. \A i \in 1 .. 2 * PeerBytes :
          HexDigit(raw[i]) \in 0 .. 15 /\ HexDigit(other[i]) \in 0 .. 15
    BY <1>1, <1>2, <2>1, <2>2
  <2>4. ASSUME NEW i \in 1 .. PeerBytes
        PROVE  /\ HexDigit(raw[2 * i - 1]) = HexDigit(other[2 * i - 1])
               /\ HexDigit(raw[2 * i]) = HexDigit(other[2 * i])
    <3>1. 2 * i - 1 \in 1 .. 2 * PeerBytes /\ 2 * i \in 1 .. 2 * PeerBytes
      BY PeerAssumption
    <3>2. 16 * HexDigit(raw[2 * i - 1]) + HexDigit(raw[2 * i])
            = 16 * HexDigit(other[2 * i - 1]) + HexDigit(other[2 * i])
      <4>1. FromHex(raw)[i] = 16 * HexDigit(raw[2 * i - 1]) + HexDigit(raw[2 * i])
        BY <1>1 DEF FromHex
      <4>2. FromHex(other)[i] = 16 * HexDigit(other[2 * i - 1]) + HexDigit(other[2 * i])
        BY <2>1 DEF FromHex
      <4> QED
        BY <1>4, <4>1, <4>2
    <3>3. /\ HexDigit(raw[2 * i - 1]) \in 0 .. 15 /\ HexDigit(raw[2 * i]) \in 0 .. 15
          /\ HexDigit(other[2 * i - 1]) \in 0 .. 15 /\ HexDigit(other[2 * i]) \in 0 .. 15
      BY <2>3, <3>1
    <3> DEFINE a == HexDigit(raw[2 * i - 1])
               b == HexDigit(raw[2 * i])
               c == HexDigit(other[2 * i - 1])
               d == HexDigit(other[2 * i])
    <3>4. a \in 0 .. 15 /\ b \in 0 .. 15 /\ c \in 0 .. 15 /\ d \in 0 .. 15
          /\ 16 * a + b = 16 * c + d
      BY <3>2, <3>3
    <3> HIDE DEF a, b, c, d
    <3>5. a = c /\ b = d
      BY <3>4, NibblesDecide
    <3> QED
      BY <3>5 DEF a, b, c, d
  <2>5. ASSUME NEW j \in 1 .. 2 * PeerBytes
        PROVE  HexDigit(raw[j]) = HexDigit(other[j])
    <3>1. (j + 1) \div 2 \in 1 .. PeerBytes
          /\ (j = 2 * ((j + 1) \div 2) - 1 \/ j = 2 * ((j + 1) \div 2))
      BY PeerAssumption
    <3> QED
      BY <2>4, <3>1
  <2>6. \A j \in 1 .. 2 * PeerBytes : Lowered(raw)[j] = Lowered(other)[j]
    BY <1>1, <1>2, <2>1, <2>2, <2>5
  <2> QED
    BY <2>2, <2>6 DEF Lowered
<1> QED
  BY <1>3, <1>4

(***************************************************************************)
(* Bundles. What every bundle a wallet builds is, whatever it is for: the  *)
(* wallet holds what it spends, outputs stay with their holder, XCH is     *)
(* spent only together with DIG, and DIG only to make or return collateral.*)
(***************************************************************************)
Keeps(s) ==
  \A o \in s.outputs :
    /\ o.coin.parent = s.coin
    /\ Holder(o.coin) = Holder(s.coin)
    /\ o.coin.amount > 0
    /\ IsMirror(o.coin) => o.coin.asset = "dig"

Makes(s) == s.coin.asset = "dig" /\ \E o \in s.outputs : IsMirror(o.coin)

WellBuilt(b) ==
  /\ b.by \in Wallets
  /\ \A s \in b.spends :
       /\ Holder(s.coin) = b.by
       /\ Keeps(s)
       /\ s.coin.asset = "xch" => \E c \in s.required : c.asset = "dig" /\ Holder(c) = b.by
       /\ s.coin.asset = "dig" => IsMirror(s.coin) \/ \E t \in b.spends : Makes(t)

AllSpends == UNION {b.spends : b \in pending}

LifeInv ==
  /\ \A b \in pending : WellBuilt(b)
  /\ blocks \in Seq(SUBSET AllSpends)
  /\ \A i, j \in DOMAIN blocks :
       i # j => {s.coin : s \in blocks[i]} \cap {s.coin : s \in blocks[j]} = {}
  /\ FeesBuyWork

\* What is on the chain was made by spends that were built.
LEMMA OnChain ==
  ASSUME LifeInv
  PROVE  /\ Spends(blocks) \subseteq AllSpends
         /\ \A o \in Outputs : o.coin \in Genesis \/ o.coin.parent \in Spent
         /\ \A o \in Outputs : Holder(o.coin) \in Wallets /\ o.coin.amount > 0
         /\ \A o \in Outputs : IsMirror(o.coin) => o.coin.asset = "dig"
<1>1. Spends(blocks) \subseteq AllSpends
  BY DEF LifeInv, Spends
<1>2. \A s \in Spends(blocks) : Keeps(s) /\ Holder(s.coin) \in Wallets
  BY <1>1 DEF LifeInv, AllSpends, WellBuilt
<1>3. ASSUME NEW o \in Outputs
      PROVE  /\ o.coin \in Genesis \/ o.coin.parent \in Spent
             /\ Holder(o.coin) \in Wallets /\ o.coin.amount > 0
             /\ IsMirror(o.coin) => o.coin.asset = "dig"
  <2>1. CASE \E c \in Genesis : o = Output(c, Hinted(c.puzzle))
    BY <2>1, GenesisAssumption, WalletAssumption DEF Output, Holder, IsMirror
  <2>2. CASE \E s \in Spends(blocks) : o \in s.outputs
    <3>1. PICK s \in Spends(blocks) : o \in s.outputs
      BY <2>2
    <3>2. s.coin \in Spent
      BY DEF Spent
    <3> QED
      BY <1>2, <3>1, <3>2 DEF Keeps
  <2> QED
    BY <2>1, <2>2 DEF Outputs
<1> QED
  BY <1>1, <1>3

LEMMA PurseCoins ==
  ASSUME NEW wallet \in Wallets, NEW asset, NEW c \in Purse(wallet, asset)
  PROVE  c.puzzle = wallet /\ c.asset = asset /\ ~IsMirror(c) /\ Holder(c) = wallet
  BY WalletAssumption DEF Purse, IsMirror, Holder

\* The spends of a wallet's XCH, tied to a coin that carries its DIG.
LEMMA FeeSpendsWellBuilt ==
  ASSUME NEW wallet \in Wallets, NEW fees \in SUBSET Purse(wallet, "xch"), NEW fee,
         NEW required, NEW c \in required, c.asset = "dig", Holder(c) = wallet,
         NEW s \in FeeSpends(fees, fee, required)
  PROVE  /\ s.coin.asset = "xch" /\ Holder(s.coin) = wallet /\ Keeps(s)
         /\ \E d \in s.required : d.asset = "dig" /\ Holder(d) = wallet
<1>1. PICK coin \in fees :
        s = Spend(coin, IF coin = Teller(fees)
                        THEN Change(Teller(fees), Amount(fees) - fee) ELSE {}, required)
  BY DEF FeeSpends, Together
<1>2. coin.puzzle = wallet /\ coin.asset = "xch" /\ ~IsMirror(coin) /\ Holder(coin) = wallet
  BY PurseCoins
<1>3. s.coin = coin /\ s.required = required \ {coin}
  BY <1>1 DEF Spend
<1>4. c \in s.required
  BY <1>2, <1>3
<1>5. Keeps(s)
  <2>1. s.outputs \subseteq Change(coin, Amount(fees) - fee)
    BY <1>1 DEF Spend
  <2> QED
    BY <1>2, <1>3, <2>1 DEF Keeps, Change, Output, Child, Holder, IsMirror
<1> QED
  BY <1>2, <1>3, <1>4, <1>5

LEMMA LockBundleWellBuilt ==
  ASSUME NEW wallet \in Wallets, NEW memos, NEW collateral, collateral > 0,
         NEW digs \in SUBSET Purse(wallet, "dig"), digs # {},
         NEW fees \in SUBSET Purse(wallet, "xch"), NEW fee, NEW verb, NEW advert
  PROVE  WellBuilt([by |-> wallet, verb |-> verb, advert |-> advert,
                    spends |-> LockBundle(memos, collateral, digs, fees, fee)])
<1> DEFINE payer == Teller(digs)
           locked == Output(Child(payer, Mirror, collateral), memos)
           outputs == {locked} \union Change(payer, Amount(digs) - collateral)
           lock == Together(digs, payer, outputs, digs \union fees)
           spends == LockBundle(memos, collateral, digs, fees, fee)
<1>1. payer \in digs
  BY DEF Teller
<1>2. spends = lock \union FeeSpends(fees, fee, digs \union fees)
  BY DEF LockBundle
<1>3. payer.puzzle = wallet /\ payer.asset = "dig" /\ ~IsMirror(payer) /\ Holder(payer) = wallet
  BY <1>1, PurseCoins
<1>4. ASSUME NEW o \in outputs
      PROVE  /\ o.coin.parent = payer /\ Holder(o.coin) = wallet /\ o.coin.amount > 0
             /\ o.coin.asset = "dig"
  <2>1. CASE o = locked
    BY <1>3, <2>1 DEF Output, Child, Holder, IsMirror
  <2>2. CASE o \in Change(payer, Amount(digs) - collateral)
    BY <1>3, <2>2 DEF Change, Output, Child, Holder, IsMirror
  <2> QED
    BY <2>1, <2>2
<1>5. IsMirror(locked.coin)
  BY DEF Output, Child, IsMirror
<1>6. Makes(Spend(payer, outputs, digs \union fees)) /\ Spend(payer, outputs, digs \union fees) \in lock
  <2>1. Spend(payer, outputs, digs \union fees) \in lock
    BY <1>1 DEF Together
  <2>2. Spend(payer, outputs, digs \union fees).coin = payer
        /\ locked \in Spend(payer, outputs, digs \union fees).outputs
    BY DEF Spend
  <2> QED
    BY <1>3, <1>5, <2>1, <2>2 DEF Makes
<1>7. ASSUME NEW s \in lock
      PROVE  s.coin.asset = "dig" /\ Holder(s.coin) = wallet /\ Keeps(s)
  <2>1. PICK c \in digs : s = Spend(c, IF c = payer THEN outputs ELSE {}, digs \union fees)
    BY DEF Together
  <2>2. s.coin = c /\ s.outputs = IF c = payer THEN outputs ELSE {}
    BY <2>1 DEF Spend
  <2>3. c.asset = "dig" /\ Holder(c) = wallet
    BY PurseCoins
  <2>4. Keeps(s)
    BY <1>3, <1>4, <2>2 DEF Keeps
  <2> QED
    BY <2>2, <2>3, <2>4
<1>8. ASSUME NEW s \in FeeSpends(fees, fee, digs \union fees)
      PROVE  /\ s.coin.asset = "xch" /\ Holder(s.coin) = wallet /\ Keeps(s)
             /\ \E d \in s.required : d.asset = "dig" /\ Holder(d) = wallet
  BY <1>1, <1>3, FeeSpendsWellBuilt
<1> HIDE DEF spends, lock
<1> QED
  BY <1>2, <1>6, <1>7, <1>8 DEF WellBuilt, spends

LEMMA ReclaimBundleWellBuilt ==
  ASSUME NEW wallet \in Wallets, NEW mirror, IsMirror(mirror), mirror.asset = "dig",
         mirror.amount > 0, wallet = Holder(mirror),
         NEW fees \in SUBSET Purse(wallet, "xch"), NEW fee, NEW verb, NEW advert
  PROVE  WellBuilt([by |-> wallet, verb |-> verb, advert |-> advert,
                    spends |-> ReclaimBundle(mirror, wallet, fees, fee)])
<1> DEFINE spends == ReclaimBundle(mirror, wallet, fees, fee)
           release == Spend(mirror, {Returned(mirror, wallet, fee)}, {})
           required == ReclaimFeeRequires(mirror, fees)
<1>1. spends = {release} \union FeeSpends(fees, fee, required)
  BY DEF ReclaimBundle
<1>2. release.coin = mirror /\ release.outputs = {Returned(mirror, wallet, fee)}
  BY DEF Spend
<1>3. Keeps(release)
  BY <1>2, WalletAssumption DEF Keeps, Returned, Output, Child, Holder, IsMirror
<1>4. mirror \in required
  BY DEF ReclaimFeeRequires
<1>5. ASSUME NEW s \in FeeSpends(fees, fee, required)
      PROVE  /\ s.coin.asset = "xch" /\ Holder(s.coin) = wallet /\ Keeps(s)
             /\ \E d \in s.required : d.asset = "dig" /\ Holder(d) = wallet
  BY <1>4, FeeSpendsWellBuilt
<1> HIDE DEF spends, release, required
<1> QED
  BY <1>1, <1>2, <1>3, <1>5 DEF WellBuilt, spends

(***************************************************************************)
(* The invariant. A step that builds a bundle adds a well built one and    *)
(* leaves the chain alone; a block is made of coins that were unspent.     *)
(***************************************************************************)
LEMMA Initially == Init => LifeInv
BY DEF Init, LifeInv, FeesBuyWork

LEMMA BuildKeeps ==
  ASSUME LifeInv, NEW wallet, NEW verb, NEW advert, NEW spends,
         WellBuilt([by |-> wallet, verb |-> verb, advert |-> advert, spends |-> spends]),
         Build(wallet, verb, advert, spends)
  PROVE  LifeInv'
<1> DEFINE bundle == [by |-> wallet, verb |-> verb, advert |-> advert, spends |-> spends]
<1>1. pending' = pending \union {bundle} /\ blocks' = blocks
  BY DEF Build
<1>2. \A b \in pending' : WellBuilt(b)
  BY <1>1 DEF LifeInv
<1>3. AllSpends \subseteq AllSpends'
  BY <1>1 DEF AllSpends
<1>4. blocks' \in Seq(SUBSET AllSpends')
  <2>1. blocks \in [1 .. Len(blocks) -> SUBSET AllSpends] /\ Len(blocks) \in Nat
    BY DEF LifeInv
  <2>2. blocks \in [1 .. Len(blocks) -> SUBSET AllSpends']
    BY <1>3, <2>1
  <2> QED
    BY <1>1, <2>1, <2>2
<1>5. FeesBuyWork'
  BY <1>1 DEF LifeInv, FeesBuyWork
<1> QED
  BY <1>1, <1>2, <1>4, <1>5, Zenon DEF LifeInv

LEMMA CreateKeeps == ASSUME LifeInv, Create PROVE LifeInv'
<1>1. PICK wallet \in Wallets, advert \in Adverts, fee \in Fees :
       \E digs \in (SUBSET Purse(wallet, "dig")) \ {{}}, fees \in SUBSET Purse(wallet, "xch") :
        /\ Publishable(advert)
        /\ Build(wallet, "create", advert,
                 LockBundle(MemosOf(wallet, advert), advert.collateral, digs, fees, fee))
  BY DEF Create
<1>2. PICK digs \in (SUBSET Purse(wallet, "dig")) \ {{}}, fees \in SUBSET Purse(wallet, "xch") :
        /\ Publishable(advert)
        /\ Build(wallet, "create", advert,
                 LockBundle(MemosOf(wallet, advert), advert.collateral, digs, fees, fee))
  BY <1>1
<1>3. WellBuilt([by |-> wallet, verb |-> "create", advert |-> advert, spends |->
                 LockBundle(MemosOf(wallet, advert), advert.collateral, digs, fees, fee)])
  BY <1>2, LockBundleWellBuilt DEF Publishable
<1> QED
  BY <1>2, <1>3, BuildKeeps

LEMMA PublishOtherwiseKeeps == ASSUME LifeInv, PublishOtherwise PROVE LifeInv'
<1>1. PICK wallet \in Wallets, memos \in Memos :
       \E payer \in Purse(wallet, "dig") :
        Build(wallet, "publish", NoAdvert, LockBundle(memos, payer.amount, {payer}, {}, 0))
  BY DEF PublishOtherwise
<1>2. PICK payer \in Purse(wallet, "dig") :
        Build(wallet, "publish", NoAdvert, LockBundle(memos, payer.amount, {payer}, {}, 0))
  BY <1>1
<1>3. payer.amount > 0
  BY OnChain DEF Purse, Unspent
<1>4. WellBuilt([by |-> wallet, verb |-> "publish", advert |-> NoAdvert, spends |->
                 LockBundle(memos, payer.amount, {payer}, {}, 0)])
  BY <1>3, LockBundleWellBuilt
<1> QED
  BY <1>2, <1>4, BuildKeeps

LEMMA ReclaimKeeps == ASSUME LifeInv, Reclaim PROVE LifeInv'
<1>1. PICK wallet \in Wallets, o \in Mirrors, fee \in Fees :
       \E fees \in SUBSET Purse(wallet, "xch") :
        /\ MayReclaim(wallet, o)
        /\ Build(wallet, "reclaim", NoAdvert, ReclaimBundle(o.coin, wallet, fees, fee))
  BY DEF Reclaim
<1>2. PICK fees \in SUBSET Purse(wallet, "xch") :
        /\ MayReclaim(wallet, o)
        /\ Build(wallet, "reclaim", NoAdvert, ReclaimBundle(o.coin, wallet, fees, fee))
  BY <1>1
<1>3. IsMirror(o.coin) /\ o.coin.asset = "dig" /\ o.coin.amount > 0 /\ wallet = Holder(o.coin)
  BY <1>2, OnChain DEF Mirrors, Unspent, MayReclaim, IsMirrorCoin
<1>4. WellBuilt([by |-> wallet, verb |-> "reclaim", advert |-> NoAdvert, spends |->
                 ReclaimBundle(o.coin, wallet, fees, fee)])
  BY <1>3, ReclaimBundleWellBuilt
<1> QED
  BY <1>2, <1>4, BuildKeeps

\* In a consistent block every spend of XCH stands beside work of its holder.
LEMMA BlockBuysWork ==
  ASSUME LifeInv, NEW block, Consistent(block, pending), NEW s \in block, s.coin.asset = "xch"
  PROVE  \E t \in block :
           /\ Holder(t.coin) = Holder(s.coin)
           /\ IsMirror(t.coin) \/ \E o \in t.outputs : IsMirror(o.coin)
<1>1. PICK b \in pending : Admissible(s, block, b)
  BY DEF Consistent
<1>2. PICK c \in s.required : c.asset = "dig" /\ Holder(c) = Holder(s.coin)
  BY <1>1 DEF Admissible, LifeInv, WellBuilt
<1>3. PICK t \in block : t.coin = c
  BY DEF Consistent
<1>4. PICK d \in pending : Admissible(t, block, d)
  BY DEF Consistent
<1>5. Ring(d) \subseteq block /\ WellBuilt(d) /\ t \in d.spends /\ d.by = Holder(t.coin)
  BY <1>2, <1>3, <1>4 DEF Admissible, LifeInv
<1>6. CASE IsMirror(t.coin)
  BY <1>2, <1>3, <1>6
<1>7. CASE ~IsMirror(t.coin)
  <2>1. PICK u \in d.spends : Makes(u)
    BY <1>2, <1>3, <1>5, <1>7 DEF WellBuilt
  <2>2. u \in block /\ Holder(u.coin) = Holder(s.coin)
    BY <1>2, <1>3, <1>5, <2>1 DEF Makes, Ring, WellBuilt
  <2> QED
    BY <2>1, <2>2 DEF Makes
<1> QED
  BY <1>6, <1>7

LEMMA ConfirmKeeps == ASSUME LifeInv, Confirm PROVE LifeInv'
<1>1. PICK block \in SUBSET Spendable(pending) :
        Consistent(block, pending) /\ blocks' = Append(blocks, block)
  BY DEF Confirm
<1>2. pending' = pending /\ AllSpends' = AllSpends
  BY DEF Confirm, AllSpends
<1>3. block \subseteq AllSpends /\ \A s \in block : s.coin \notin Spent
  BY DEF Spendable, AllSpends, Unspent
<1>4. /\ blocks \in Seq(SUBSET AllSpends)
      /\ Len(blocks) \in Nat
      /\ Len(blocks') = Len(blocks) + 1
      /\ DOMAIN blocks' = DOMAIN blocks \union {Len(blocks) + 1}
      /\ \A i \in DOMAIN blocks : i # Len(blocks) + 1 /\ blocks'[i] = blocks[i]
      /\ blocks'[Len(blocks) + 1] = block
  BY <1>1, <1>3 DEF LifeInv
<1>5. blocks' \in Seq(SUBSET AllSpends')
  BY <1>1, <1>2, <1>3, <1>4
<1>6. \A i \in DOMAIN blocks : {s.coin : s \in blocks[i]} \subseteq Spent
  BY DEF Spent, Spends
<1>7. \A i, j \in DOMAIN blocks' :
        i # j => {s.coin : s \in blocks'[i]} \cap {s.coin : s \in blocks'[j]} = {}
  <2> SUFFICES ASSUME NEW i \in DOMAIN blocks', NEW j \in DOMAIN blocks', i # j
               PROVE  {s.coin : s \in blocks'[i]} \cap {s.coin : s \in blocks'[j]} = {}
    OBVIOUS
  <2>1. CASE i \in DOMAIN blocks /\ j \in DOMAIN blocks
    BY <1>4, <2>1 DEF LifeInv
  <2>2. CASE i \in DOMAIN blocks /\ j = Len(blocks) + 1
    BY <1>3, <1>4, <1>6, <2>2
  <2>3. CASE i = Len(blocks) + 1 /\ j \in DOMAIN blocks
    BY <1>3, <1>4, <1>6, <2>3
  <2> QED
    BY <1>4, <2>1, <2>2, <2>3
<1>8. FeesBuyWork'
  <2> SUFFICES ASSUME NEW i \in DOMAIN blocks', NEW s \in blocks'[i], s.coin.asset = "xch"
               PROVE  \E t \in blocks'[i] :
                        /\ Holder(t.coin) = Holder(s.coin)
                        /\ IsMirror(t.coin) \/ \E o \in t.outputs : IsMirror(o.coin)
    BY DEF FeesBuyWork
  <2>1. CASE i \in DOMAIN blocks
    BY <1>4, <2>1 DEF LifeInv, FeesBuyWork
  <2>2. CASE i = Len(blocks) + 1
    BY <1>1, <1>4, <2>2, BlockBuysWork
  <2> QED
    BY <1>4, <2>1, <2>2
<1> QED
  BY <1>2, <1>5, <1>7, <1>8 DEF LifeInv

LEMMA ReorgKeeps == ASSUME LifeInv, Reorg PROVE LifeInv'
<1>1. /\ blocks \in Seq(SUBSET AllSpends) /\ blocks # <<>>
      /\ pending' = pending /\ AllSpends' = AllSpends
      /\ blocks' = [i \in 1 .. Len(blocks) - 1 |-> blocks[i]]
  BY DEF Reorg, LifeInv, AllSpends, Front
<1>2. /\ Len(blocks) - 1 \in Nat
      /\ DOMAIN blocks' = 1 .. Len(blocks) - 1
      /\ DOMAIN blocks' \subseteq DOMAIN blocks
      /\ \A i \in DOMAIN blocks' : blocks'[i] = blocks[i] /\ blocks[i] \in SUBSET AllSpends
  BY <1>1
<1>3. blocks' \in Seq(SUBSET AllSpends')
  BY <1>1, <1>2
<1>4. FeesBuyWork'
  BY <1>2 DEF LifeInv, FeesBuyWork
<1> QED
  BY <1>1, <1>2, <1>3, <1>4 DEF LifeInv

LEMMA Invariance == Spec => []LifeInv
<1>1. LifeInv /\ [Next]_vars => LifeInv'
  <2> SUFFICES ASSUME LifeInv, [Next]_vars PROVE LifeInv'
    OBVIOUS
  <2>1. CASE UNCHANGED vars
    BY <2>1 DEF vars, LifeInv, AllSpends, FeesBuyWork
  <2> QED
    BY <2>1, CreateKeeps, PublishOtherwiseKeeps, ReclaimKeeps, ConfirmKeeps, ReorgKeeps DEF Next
<1> QED
  BY <1>1, Initially, PTL DEF Spec

\* Whatever is built, confirmed, retried and undone, every coin on the chain
\* descends from the genesis coins, belongs to a wallet, and is spent once.
THEOREM TypeCorrect == Spec => []TypeOK
<1>1. LifeInv => TypeOK
  BY OnChain DEF LifeInv, TypeOK
<1> QED
  BY <1>1, Invariance, PTL

\* A fee is never taken from a create or a reclaim whose work was not done.
THEOREM FeesOnlyForWork == Spec => []FeesBuyWork
<1>1. LifeInv => FeesBuyWork
  BY DEF LifeInv
<1> QED
  BY <1>1, Invariance, PTL

(***************************************************************************)
(* Amounts of finite sets of coins.                                        *)
(***************************************************************************)
Amounts(cs) == [c \in cs |-> c.amount]
Whole(cs) == \A c \in cs : c.amount \in Nat

LEMMA AmountIsSum == \A cs : Amount(cs) = Sum(Amounts(cs), cs)
<1> TAKE cs
<1>1. DOMAIN Amounts(cs) = cs
  BY DEF Amounts
<1>2. Amount(cs) = SumFunction(Amounts(cs))
  BY Zenon DEF Amount, Amounts
<1>3. SumFunction(Amounts(cs)) = SumFunctionOnSet(Amounts(cs), DOMAIN Amounts(cs))
  BY Zenon DEF SumFunction
<1> HIDE DEF Amounts
<1> QED
  BY <1>1, <1>2, <1>3, Zenon DEF Sum

LEMMA AmountOfNone == Amount({}) = 0
BY AmountIsSum, SumOfNone

LEMMA AmountOfOne ==
  ASSUME NEW c, c.amount \in Nat
  PROVE  Amount({c}) = c.amount
<1> DEFINE f == Amounts({c})
<1>1. f[c] = c.amount
  BY DEF Amounts
<1> HIDE DEF f
<1>2. Sum(f, {c}) = c.amount
  BY <1>1, SumOfOne
<1> QED
  BY <1>2, AmountIsSum DEF f

LEMMA AmountIsWhole ==
  ASSUME NEW cs, IsFiniteSet(cs), Whole(cs)
  PROVE  Amount(cs) \in Nat
<1> DEFINE f == Amounts(cs)
<1>1. \A c \in cs : f[c] \in Nat
  BY DEF Amounts, Whole
<1> HIDE DEF f
<1>2. Sum(f, cs) \in Nat
  BY <1>1, SumOfNaturals
<1> QED
  BY <1>2, AmountIsSum DEF f

LEMMA AmountJoins ==
  ASSUME NEW cs, IsFiniteSet(cs), NEW ds, IsFiniteSet(ds), cs \cap ds = {},
         Whole(cs), Whole(ds)
  PROVE  Amount(cs \union ds) = Amount(cs) + Amount(ds)
<1> DEFINE f == Amounts(cs \union ds)
           g == Amounts(cs)
           h == Amounts(ds)
<1>1. /\ \A c \in cs : f[c] = g[c]
      /\ \A c \in ds : f[c] = h[c]
      /\ Ints(f, cs \union ds)
  BY DEF Amounts, Whole, Ints
<1> HIDE DEF f, g, h
<1>2. Sum(f, cs \union ds) = Sum(f, cs) + Sum(f, ds)
  BY <1>1, SumJoins
<1>3. Sum(f, cs) = Sum(g, cs) /\ Sum(f, ds) = Sum(h, ds)
  BY <1>1, SumAgrees
<1> QED
  BY <1>2, <1>3, AmountIsSum DEF f, g, h

\* What is taken out of a set of coins, and what takes its place.
LEMMA AmountMoves ==
  ASSUME NEW cs, IsFiniteSet(cs), Whole(cs), NEW gone \in SUBSET cs,
         NEW made, IsFiniteSet(made), Whole(made), made \cap cs = {},
         Amount(made) = Amount(gone)
  PROVE  Amount((cs \ gone) \union made) = Amount(cs)
<1> DEFINE kept == cs \ gone
<1>1. /\ IsFiniteSet(kept) /\ IsFiniteSet(gone)
      /\ Whole(kept) /\ Whole(gone)
      /\ kept \cap made = {} /\ kept \cap gone = {} /\ kept \union gone = cs
  BY FS_Subset DEF Whole
<1> HIDE DEF kept
<1>2. Amount(kept \union made) = Amount(kept) + Amount(made)
  BY <1>1, AmountJoins
<1>3. Amount(kept \union gone) = Amount(kept) + Amount(gone)
  BY <1>1, AmountJoins
<1> QED
  BY <1>1, <1>2, <1>3 DEF kept

(***************************************************************************)
(* Rings. The spends of a block fall apart into the rings of the bundles   *)
(* they were built in, and every ring gives out as much DIG as it takes in.*)
(***************************************************************************)
\* Of some coins, a wallet's DIG; of some spends, what they take, make and leave.
Owned(wallet, cs) == {c \in cs : c.asset = "dig" /\ Holder(c) = wallet}
CoinsOf(ss) == {s.coin : s \in ss}
MadeBy(ss) == {o.coin : o \in UNION {s.outputs : s \in ss}}
Live(ss) == (Genesis \union MadeBy(ss)) \ CoinsOf(ss)

RingCoins(s) == {c \in {s.coin} \union s.required : c.asset = "dig"}

Conserves(b) ==
  /\ IsFiniteSet(b.spends)
  /\ \A s \in b.spends :
       /\ s.coin.asset \in {"dig", "xch"}
       /\ IsFiniteSet(s.outputs)
       /\ \A o \in s.outputs :
            /\ o.coin.asset = s.coin.asset
            /\ o.coin.amount \in Nat
            /\ ~IsMirror(o.coin) => o.memos = Hinted(o.coin.puzzle)
  /\ \A s \in Ring(b) : CoinsOf(Ring(b)) = RingCoins(s)

LEMMA FinitelyMany ==
  ASSUME NEW ss, IsFiniteSet(ss), \A s \in ss : IsFiniteSet(s.outputs)
  PROVE  IsFiniteSet(CoinsOf(ss)) /\ IsFiniteSet(MadeBy(ss))
<1> DEFINE coinOf == [s \in ss |-> s.coin]
           outputsOf == [s \in ss |-> s.outputs]
           outputs == {outputsOf[s] : s \in ss}
           all == UNION outputs
           made == [o \in all |-> o.coin]
<1>1. IsFiniteSet({coinOf[s] : s \in ss}) /\ CoinsOf(ss) = {coinOf[s] : s \in ss}
  <2>1. CoinsOf(ss) = {coinOf[s] : s \in ss}
    BY DEF CoinsOf
  <2> HIDE DEF coinOf
  <2> QED
    BY <2>1, FiniteImage
<1>2. \A x \in outputs : IsFiniteSet(x)
  OBVIOUS
<1>3. IsFiniteSet(outputs)
  <2> HIDE DEF outputsOf
  <2> QED
    BY FiniteImage
<1>4. all = UNION {s.outputs : s \in ss}
  OBVIOUS
<1> HIDE DEF outputs
<1>5. IsFiniteSet(all)
  BY <1>2, <1>3, FS_UNION
<1>6. MadeBy(ss) = {made[o] : o \in all}
  BY <1>4 DEF MadeBy
<1> HIDE DEF all, made
<1>7. IsFiniteSet({made[o] : o \in all})
  BY <1>5, FiniteImage
<1> QED
  BY <1>1, <1>6, <1>7

RingIn(block, s) == {t \in block : t.coin \in RingCoins(s)}

LEMMA RingsBalance ==
  ASSUME \A b \in pending : WellBuilt(b) /\ Conserves(b),
         NEW block, Consistent(block, pending), NEW s \in block, s.coin.asset = "dig"
  PROVE  /\ s \in RingIn(block, s)
         /\ Amount(CoinsOf(RingIn(block, s))) = Amount(MadeBy(RingIn(block, s)))
         /\ \A t \in RingIn(block, s) :
              /\ t.coin.asset = "dig"
              /\ Holder(t.coin) = Holder(s.coin)
              /\ RingIn(block, t) = RingIn(block, s)
<1>1. PICK b \in pending : Admissible(s, block, b)
  BY DEF Consistent
<1>2. /\ s \in Ring(b) /\ Ring(b) \subseteq block /\ Balanced(b)
      /\ WellBuilt(b) /\ Conserves(b)
  BY <1>1 DEF Admissible, Ring
<1>3. \A t, u \in block : t.coin = u.coin => t = u
  BY DEF Consistent
<1>4. \A t \in Ring(b) : RingIn(block, t) = Ring(b)
  <2> SUFFICES ASSUME NEW t \in Ring(b) PROVE RingIn(block, t) = Ring(b)
    OBVIOUS
  <2>1. RingCoins(t) = CoinsOf(Ring(b))
    BY <1>2 DEF Conserves
  <2>2. ASSUME NEW u \in Ring(b) PROVE u \in RingIn(block, t)
    BY <1>2, <2>1 DEF RingIn, CoinsOf
  <2>3. ASSUME NEW u \in RingIn(block, t) PROVE u \in Ring(b)
    <3>1. u \in block /\ \E v \in Ring(b) : u.coin = v.coin
      BY <2>1 DEF RingIn, CoinsOf
    <3> QED
      BY <1>2, <1>3, <3>1
  <2> QED
    BY <2>2, <2>3
<1>5. Amount(CoinsOf(Ring(b))) = Amount(MadeBy(Ring(b)))
  BY <1>2, Zenon DEF Balanced, AmountOut, CoinsOf, MadeBy
<1>6. \A t \in Ring(b) : t.coin.asset = "dig" /\ Holder(t.coin) = Holder(s.coin)
  BY <1>2 DEF WellBuilt, Ring
<1> QED
  BY <1>2, <1>4, <1>5, <1>6

\* What of a block holds every ring it meets gives out what it takes in.
LEMMA ClosedBalances ==
  ASSUME \A b \in pending : WellBuilt(b) /\ Conserves(b),
         NEW block, Consistent(block, pending), IsFiniteSet(block),
         \A s \in block : IsFiniteSet(s.outputs) /\ Keeps(s) /\ s.coin.amount \in Nat,
         \A s \in block : \A o \in s.outputs : o.coin.amount \in Nat,
         NEW X \in SUBSET block,
         \A s \in X : s.coin.asset = "dig" /\ RingIn(block, s) \subseteq X
  PROVE  Amount(CoinsOf(X)) = Amount(MadeBy(X))
<1> DEFINE Closed(x) == \A s \in x : s.coin.asset = "dig" /\ RingIn(block, s) \subseteq x
           T == {x \in SUBSET block : Closed(x) /\ Amount(CoinsOf(x)) # Amount(MadeBy(x))}
<1> SUFFICES ASSUME T # {} PROVE FALSE
  OBVIOUS
<1>1. PICK x \in T : \A y \in T : y \subseteq x => y = x
  <2>1. T \subseteq SUBSET block
    OBVIOUS
  <2> HIDE DEF T
  <2> QED
    BY <2>1, LeastSubset
<1>2. x \subseteq block /\ Closed(x) /\ Amount(CoinsOf(x)) # Amount(MadeBy(x))
  OBVIOUS
<1>3. x # {}
  <2>1. CoinsOf({}) = {} /\ MadeBy({}) = {}
    BY DEF CoinsOf, MadeBy
  <2> QED
    BY <1>2, <2>1
<1>4. PICK s \in x : TRUE
  BY <1>3
<1> DEFINE ring == RingIn(block, s)
           rest == x \ ring
<1>5. /\ s \in ring /\ ring \subseteq x
      /\ Amount(CoinsOf(ring)) = Amount(MadeBy(ring))
      /\ \A t \in ring : RingIn(block, t) = ring
  BY <1>2, <1>4, RingsBalance
<1>6. Closed(rest)
  <2> SUFFICES ASSUME NEW t \in rest, NEW u \in RingIn(block, t) PROVE u \notin ring
    BY <1>2
  <2>1. t \in block /\ t.coin.asset = "dig"
    BY <1>2
  <2>2. t \in RingIn(block, t) /\ RingIn(block, u) = RingIn(block, t)
    BY <2>1, RingsBalance
  <2> QED
    BY <1>5, <2>2
<1>7. Amount(CoinsOf(rest)) = Amount(MadeBy(rest))
  <2>1. rest # x /\ rest \subseteq x /\ rest \in SUBSET block
    BY <1>2, <1>4, <1>5
  <2> HIDE DEF rest
  <2> QED
    BY <1>1, <1>6, <2>1
<1> HIDE DEF ring
<1>8. /\ rest \union ring = x /\ rest \subseteq block /\ ring \subseteq block
      /\ rest \cap ring = {}
  BY <1>2, <1>5
<1> HIDE DEF rest, T, Closed
<1>9. ASSUME NEW ss, ss \subseteq block
      PROVE  /\ IsFiniteSet(CoinsOf(ss)) /\ IsFiniteSet(MadeBy(ss))
             /\ Whole(CoinsOf(ss)) /\ Whole(MadeBy(ss))
  <2>1. IsFiniteSet(ss)
    BY <1>9, FS_Subset
  <2>2. IsFiniteSet(CoinsOf(ss)) /\ IsFiniteSet(MadeBy(ss))
    BY <1>9, <2>1, FinitelyMany
  <2>3. Whole(CoinsOf(ss)) /\ Whole(MadeBy(ss))
    BY <1>9 DEF Whole, CoinsOf, MadeBy
  <2> QED
    BY <2>2, <2>3
<1>10. Amount(CoinsOf(x)) = Amount(CoinsOf(rest)) + Amount(CoinsOf(ring))
  <2>1. CoinsOf(rest) \cap CoinsOf(ring) = {} /\ CoinsOf(x) = CoinsOf(rest) \union CoinsOf(ring)
    BY <1>8 DEF CoinsOf, Consistent
  <2> QED
    BY <1>8, <1>9, <2>1, AmountJoins
<1>11. Amount(MadeBy(x)) = Amount(MadeBy(rest)) + Amount(MadeBy(ring))
  <2>1. MadeBy(x) = MadeBy(rest) \union MadeBy(ring)
    BY <1>8 DEF MadeBy
  <2>2. MadeBy(rest) \cap MadeBy(ring) = {}
    <3> SUFFICES ASSUME NEW t \in rest, NEW o \in t.outputs,
                        NEW u \in ring, NEW q \in u.outputs, o.coin = q.coin
                 PROVE  FALSE
      BY DEF MadeBy
    <3>1. o.coin.parent = t.coin /\ q.coin.parent = u.coin
      BY <1>8 DEF Keeps
    <3> QED
      BY <1>8, <3>1 DEF Consistent
  <2> QED
    BY <1>8, <1>9, <2>1, <2>2, AmountJoins
<1> QED
  BY <1>2, <1>5, <1>7, <1>10, <1>11

(***************************************************************************)
(* What every bundle adds to that: its outputs are of their spend's asset  *)
(* and hinted to whom they belong, and the DIG that each spend of its ring *)
(* requires is the ring's.                                                 *)
(***************************************************************************)
LEMMA ChangeIsHinted ==
  ASSUME NEW coin, NEW amount \in Int
  PROVE  /\ IsFiniteSet(Change(coin, amount))
         /\ \A o \in Change(coin, amount) :
              /\ o.coin.asset = coin.asset /\ o.coin.amount \in Nat
              /\ o.memos = Hinted(o.coin.puzzle)
<1> DEFINE o == Output(Child(coin, coin.puzzle, amount), Hinted(coin.puzzle))
<1>1. /\ o.coin.asset = coin.asset /\ o.coin.amount = amount
      /\ o.memos = Hinted(o.coin.puzzle)
  BY DEF Output, Child
<1>2. Change(coin, amount) = IF amount > 0 THEN {o} ELSE {}
  BY DEF Change
<1> HIDE DEF o
<1>3. IsFiniteSet(Change(coin, amount))
  BY <1>2, FS_EmptySet, FS_Singleton
<1> QED
  BY <1>1, <1>2, <1>3

LEMMA FeeSpendsConserve ==
  ASSUME NEW wallet \in Wallets, NEW fees \in SUBSET Purse(wallet, "xch"),
         IsFiniteSet(fees), Whole(fees), NEW fee \in Nat, NEW required
  PROVE  /\ IsFiniteSet(FeeSpends(fees, fee, required))
         /\ \A s \in FeeSpends(fees, fee, required) :
              /\ s.coin.asset = "xch"
              /\ IsFiniteSet(s.outputs)
              /\ \A o \in s.outputs :
                   /\ o.coin.asset = "xch" /\ o.coin.amount \in Nat
                   /\ o.memos = Hinted(o.coin.puzzle)
<1> DEFINE payer == Teller(fees)
           outputs == Change(payer, Amount(fees) - fee)
           spendOf == [c \in fees |-> Spend(c, IF c = payer THEN outputs ELSE {}, required)]
<1>1. FeeSpends(fees, fee, required) = {spendOf[c] : c \in fees}
  BY DEF FeeSpends, Together
<1>2. IsFiniteSet({spendOf[c] : c \in fees})
  <2> HIDE DEF spendOf
  <2> QED
    BY FiniteImage
<1>3. IsFiniteSet(outputs) /\ IsFiniteSet({})
  <2>1. Amount(fees) - fee \in Int
    BY AmountIsWhole
  <2> QED
    BY <2>1, ChangeIsHinted, FS_EmptySet
<1>4. \A o \in outputs :
        /\ o.coin.asset = payer.asset /\ o.coin.amount \in Nat
        /\ o.memos = Hinted(o.coin.puzzle)
  <2>1. Amount(fees) - fee \in Int
    BY AmountIsWhole
  <2> QED
    BY <2>1, ChangeIsHinted
<1> HIDE DEF outputs
<1>5. \A c \in fees : /\ c.asset = "xch"
                      /\ spendOf[c].coin = c
                      /\ spendOf[c].outputs = IF c = payer THEN outputs ELSE {}
  BY PurseCoins DEF Spend
<1> HIDE DEF spendOf, payer
<1> QED
  BY <1>1, <1>2, <1>3, <1>4, <1>5

LEMMA LockBundleConserves ==
  ASSUME NEW wallet \in Wallets, NEW memos, NEW collateral \in Nat,
         NEW digs \in SUBSET Purse(wallet, "dig"), digs # {}, IsFiniteSet(digs), Whole(digs),
         NEW fees \in SUBSET Purse(wallet, "xch"), IsFiniteSet(fees), Whole(fees),
         NEW fee \in Nat, NEW verb, NEW advert
  PROVE  Conserves([by |-> wallet, verb |-> verb, advert |-> advert,
                    spends |-> LockBundle(memos, collateral, digs, fees, fee)])
<1> DEFINE payer == Teller(digs)
           locked == Output(Child(payer, Mirror, collateral), memos)
           change == Change(payer, Amount(digs) - collateral)
           outputs == {locked} \union change
           spendOf == [c \in digs |-> Spend(c, IF c = payer THEN outputs ELSE {}, digs \union fees)]
           lock == {spendOf[c] : c \in digs}
           fine == FeeSpends(fees, fee, digs \union fees)
           spends == LockBundle(memos, collateral, digs, fees, fee)
           bundle == [by |-> wallet, verb |-> verb, advert |-> advert, spends |-> spends]
<1>1. spends = lock \union fine
  BY DEF LockBundle, Together
<1>2. /\ \A c \in digs : c.asset = "dig"
      /\ \A c \in fees : c.asset = "xch"
      /\ payer \in digs
  BY PurseCoins DEF Teller
<1>3. Amount(digs) - collateral \in Int
  BY AmountIsWhole
<1>4. /\ IsFiniteSet(outputs)
      /\ \A o \in outputs : /\ o.coin.asset = "dig" /\ o.coin.amount \in Nat
                            /\ ~IsMirror(o.coin) => o.memos = Hinted(o.coin.puzzle)
  <2>1. /\ IsFiniteSet(change)
        /\ \A o \in change : /\ o.coin.asset = "dig" /\ o.coin.amount \in Nat
                             /\ o.memos = Hinted(o.coin.puzzle)
    BY <1>2, <1>3, ChangeIsHinted
  <2>2. locked.coin.asset = "dig" /\ locked.coin.amount \in Nat /\ IsMirror(locked.coin)
    BY <1>2 DEF Output, Child, IsMirror
  <2> HIDE DEF locked, change
  <2> QED
    BY <2>1, <2>2, FS_Singleton, FS_Union
<1> HIDE DEF outputs
<1>5. \A c \in digs : /\ spendOf[c].coin = c
                      /\ spendOf[c].outputs = IF c = payer THEN outputs ELSE {}
                      /\ spendOf[c].required = (digs \union fees) \ {c}
  BY DEF Spend
<1>6. /\ IsFiniteSet(fine)
      /\ \A s \in fine :
              /\ s.coin.asset = "xch"
              /\ IsFiniteSet(s.outputs)
              /\ \A o \in s.outputs :
                   /\ o.coin.asset = "xch" /\ o.coin.amount \in Nat
                   /\ o.memos = Hinted(o.coin.puzzle)
  BY FeeSpendsConserve
<1> HIDE DEF fine, spendOf, payer
<1>7. IsFiniteSet(lock) /\ IsFiniteSet({})
  BY FiniteImage, FS_EmptySet
<1>8. IsFiniteSet(spends)
  <2> HIDE DEF lock, spends
  <2> QED
    BY <1>1, <1>6, <1>7, FS_Union
<1>9. Ring(bundle) = lock
  <2>1. \A s \in lock : s.coin.asset = "dig"
    BY <1>2, <1>5
  <2>2. bundle.spends = lock \union fine
    BY <1>1
  <2> HIDE DEF bundle, lock
  <2> QED
    BY <1>6, <2>1, <2>2 DEF Ring
<1>10. CoinsOf(lock) = digs
  BY <1>5 DEF CoinsOf
<1>11. \A s \in lock : RingCoins(s) = digs
  <2> SUFFICES ASSUME NEW c \in digs PROVE RingCoins(spendOf[c]) = digs
    OBVIOUS
  <2>1. {c} \union ((digs \union fees) \ {c}) = digs \union fees
    OBVIOUS
  <2>2. RingCoins(spendOf[c]) = {d \in digs \union fees : d.asset = "dig"}
    BY <1>5, <2>1 DEF RingCoins
  <2> QED
    BY <1>2, <2>2
<1>12. ASSUME NEW s \in spends
       PROVE  /\ s.coin.asset \in {"dig", "xch"}
              /\ IsFiniteSet(s.outputs)
              /\ \A o \in s.outputs :
                   /\ o.coin.asset = s.coin.asset
                   /\ o.coin.amount \in Nat
                   /\ ~IsMirror(o.coin) => o.memos = Hinted(o.coin.puzzle)
  <2>1. CASE s \in fine
    BY <1>6, <2>1
  <2>2. CASE s \in lock
    BY <1>2, <1>4, <1>5, <1>7, <2>2
  <2> QED
    BY <1>1, <2>1, <2>2
<1> HIDE DEF lock, spends
<1>13. bundle.spends = spends
  OBVIOUS
<1> HIDE DEF bundle
<1> QED
  BY <1>8, <1>9, <1>10, <1>11, <1>12, <1>13 DEF Conserves, bundle, spends

LEMMA ReclaimBundleConserves ==
  ASSUME NEW wallet \in Wallets, NEW mirror, mirror.asset = "dig", mirror.amount \in Nat,
         NEW fees \in SUBSET Purse(wallet, "xch"), IsFiniteSet(fees), Whole(fees),
         NEW fee \in Nat, NEW verb, NEW advert
  PROVE  Conserves([by |-> wallet, verb |-> verb, advert |-> advert,
                    spends |-> ReclaimBundle(mirror, wallet, fees, fee)])
<1> DEFINE release == Spend(mirror, {Returned(mirror, wallet, fee)}, {})
           fine == FeeSpends(fees, fee, ReclaimFeeRequires(mirror, fees))
           spends == ReclaimBundle(mirror, wallet, fees, fee)
           bundle == [by |-> wallet, verb |-> verb, advert |-> advert, spends |-> spends]
<1>1. spends = {release} \union fine
  BY DEF ReclaimBundle
<1>2. /\ release.coin = mirror /\ release.required = {}
      /\ IsFiniteSet(release.outputs)
      /\ \A o \in release.outputs :
           /\ o.coin.asset = "dig" /\ o.coin.amount \in Nat /\ o.memos = Hinted(o.coin.puzzle)
  <2> DEFINE o == Returned(mirror, wallet, fee)
  <2>1. o.coin.asset = "dig" /\ o.coin.amount \in Nat /\ o.memos = Hinted(o.coin.puzzle)
    BY DEF Returned, Output, Child
  <2>2. release.coin = mirror /\ release.required = {} /\ release.outputs = {o}
    BY DEF Spend
  <2> HIDE DEF o, release
  <2> QED
    BY <2>1, <2>2, FS_Singleton
<1>3. /\ IsFiniteSet(fine)
      /\ \A s \in fine :
              /\ s.coin.asset = "xch"
              /\ IsFiniteSet(s.outputs)
              /\ \A o \in s.outputs :
                   /\ o.coin.asset = "xch" /\ o.coin.amount \in Nat
                   /\ o.memos = Hinted(o.coin.puzzle)
  BY FeeSpendsConserve
<1> HIDE DEF release, fine, spends
<1>4. IsFiniteSet(spends)
  BY <1>1, <1>3, FS_Singleton, FS_Union
<1>5. bundle.spends = spends
  OBVIOUS
<1> HIDE DEF bundle
<1>6. Ring(bundle) = {release}
  BY <1>1, <1>2, <1>3, <1>5 DEF Ring
<1>7. CoinsOf({release}) = {mirror} /\ RingCoins(release) = {mirror}
  BY <1>2 DEF CoinsOf, RingCoins
<1> QED
  BY <1>1, <1>2, <1>3, <1>4, <1>5, <1>6, <1>7 DEF Conserves, bundle, spends

(***************************************************************************)
(* The invariant behind CollateralKept: however many of its blocks the     *)
(* chain keeps, every wallet has the DIG it began with. A reorganisation   *)
(* goes back to an earlier such chain, hence the quantifier over prefixes. *)
(***************************************************************************)
Past(chain, n) == UNION {chain[i] : i \in 1 .. n}

Sound(ss) ==
  /\ CoinsOf(ss) \subseteq Genesis \union MadeBy(ss)
  /\ \A wallet \in Wallets : Amount(Owned(wallet, Live(ss))) = Amount(Owned(wallet, Genesis))

StakeInv ==
  /\ LifeInv
  /\ IsFiniteSet(pending)
  /\ \A b \in pending : Conserves(b)
  /\ \A n \in 0 .. Len(blocks) : Sound(Past(blocks, n))

LEMMA FinitelySpent ==
  ASSUME IsFiniteSet(pending), \A b \in pending : Conserves(b)
  PROVE  IsFiniteSet(AllSpends)
<1> DEFINE spendsOf == [b \in pending |-> b.spends]
           all == {spendsOf[b] : b \in pending}
<1>1. \A x \in all : IsFiniteSet(x)
  BY DEF Conserves
<1>2. IsFiniteSet(all)
  <2> HIDE DEF spendsOf
  <2> QED
    BY FiniteImage
<1>3. AllSpends = UNION all
  BY DEF AllSpends
<1> HIDE DEF all
<1> QED
  BY <1>1, <1>2, <1>3, FS_UNION

\* The coins of the chain, as the coins that its spends leave.
LEMMA ChainOfSpends ==
  ASSUME StakeInv
  PROVE  /\ Len(blocks) \in Nat /\ DOMAIN blocks = 1 .. Len(blocks)
         /\ Past(blocks, Len(blocks)) = Spends(blocks) /\ Spends(blocks) \subseteq AllSpends
         /\ Spent = CoinsOf(Spends(blocks))
         /\ {o.coin : o \in Outputs} = Genesis \union MadeBy(Spends(blocks))
         /\ {o.coin : o \in Unspent} = Live(Spends(blocks))
<1>1. Len(blocks) \in Nat /\ DOMAIN blocks = 1 .. Len(blocks)
  BY DEF StakeInv, LifeInv
<1>2. Past(blocks, Len(blocks)) = Spends(blocks)
  BY <1>1 DEF Past, Spends
<1>3. Spends(blocks) \subseteq AllSpends
  BY OnChain DEF StakeInv
<1>4. Spent = CoinsOf(Spends(blocks))
  BY DEF Spent, CoinsOf
<1>5. {o.coin : o \in Outputs} = Genesis \union MadeBy(Spends(blocks))
  <2> DEFINE first == {Output(c, Hinted(c.puzzle)) : c \in Genesis}
             later == UNION {s.outputs : s \in Spends(blocks)}
  <2>1. Outputs = first \union later
    BY DEF Outputs
  <2>2. {o.coin : o \in first} = Genesis
    <3>1. \A c : Output(c, Hinted(c.puzzle)).coin = c
      BY DEF Output
    <3>2. \A o \in first : o.coin \in Genesis
      BY <3>1
    <3>3. \A c \in Genesis : \E o \in first : o.coin = c
      BY <3>1
    <3> HIDE DEF first
    <3> QED
      BY <3>2, <3>3
  <2>3. {o.coin : o \in later} = MadeBy(Spends(blocks))
    BY DEF MadeBy
  <2> HIDE DEF first, later
  <2> QED
    BY <2>1, <2>2, <2>3
<1>6. {o.coin : o \in Unspent} = Live(Spends(blocks))
  <2>1. Unspent = {o \in Outputs : o.coin \notin CoinsOf(Spends(blocks))}
    BY <1>4 DEF Unspent
  <2>2. {o.coin : o \in Unspent} = {o.coin : o \in Outputs} \ CoinsOf(Spends(blocks))
    BY <2>1
  <2> QED
    BY <1>5, <2>2 DEF Live
<1> QED
  BY <1>1, <1>2, <1>3, <1>4, <1>5, <1>6

LEMMA CoinsAreFinite ==
  ASSUME StakeInv
  PROVE  LET ever == Genesis \union MadeBy(Spends(blocks))
         IN  IsFiniteSet(ever) /\ Whole(ever)
<1>1. IsFiniteSet(Spends(blocks)) /\ \A s \in Spends(blocks) : IsFiniteSet(s.outputs)
  <2>1. IsFiniteSet(AllSpends) /\ Spends(blocks) \subseteq AllSpends
    BY FinitelySpent, ChainOfSpends DEF StakeInv
  <2>2. \A s \in AllSpends : IsFiniteSet(s.outputs)
    BY DEF StakeInv, AllSpends, Conserves
  <2> QED
    BY <2>1, <2>2, FS_Subset
<1>2. IsFiniteSet(MadeBy(Spends(blocks)))
  BY <1>1, FinitelyMany
<1>3. Whole(MadeBy(Spends(blocks)))
  <2>1. \A s \in AllSpends : \A o \in s.outputs : o.coin.amount \in Nat
    BY DEF StakeInv, AllSpends, Conserves
  <2> QED
    BY <2>1, ChainOfSpends DEF Whole, MadeBy
<1>4. IsFiniteSet(Genesis) /\ Whole(Genesis)
  BY GenesisAssumption DEF Whole
<1> QED
  BY <1>2, <1>3, <1>4, FS_Union DEF Whole

LEMMA PurseIsFinite ==
  ASSUME StakeInv, NEW wallet, NEW asset
  PROVE  \A cs \in SUBSET Purse(wallet, asset) : IsFiniteSet(cs) /\ Whole(cs)
<1> TAKE cs \in SUBSET Purse(wallet, asset)
<1>1. cs \subseteq {o.coin : o \in Outputs}
  BY DEF Purse, Unspent
<1>2. cs \subseteq Genesis \union MadeBy(Spends(blocks))
  BY <1>1, ChainOfSpends
<1> QED
  BY <1>2, CoinsAreFinite, FS_Subset DEF Whole

(***************************************************************************)
(* A block of consistent spends leaves every wallet's DIG what it was.     *)
(***************************************************************************)
LEMMA SoundGrows ==
  ASSUME StakeInv, NEW block, block \subseteq Spendable(pending), Consistent(block, pending)
  PROVE  Sound(Spends(blocks) \union block)
<1> DEFINE ss == Spends(blocks)
           ever == Genesis \union MadeBy(ss)
<1>1. block \subseteq AllSpends /\ CoinsOf(block) \subseteq Live(ss)
  BY ChainOfSpends DEF Spendable, AllSpends, CoinsOf
<1>2. IsFiniteSet(block)
  BY <1>1, FinitelySpent, FS_Subset DEF StakeInv
<1>3. \A b \in pending : WellBuilt(b) /\ Conserves(b)
  BY DEF StakeInv, LifeInv
<1>4. \A s \in AllSpends :
        /\ Keeps(s) /\ s.coin.asset \in {"dig", "xch"} /\ IsFiniteSet(s.outputs)
        /\ \A o \in s.outputs : o.coin.asset = s.coin.asset /\ o.coin.amount \in Nat
  BY <1>3 DEF AllSpends, WellBuilt, Conserves
<1>5. IsFiniteSet(ever) /\ Whole(ever)
  BY CoinsAreFinite
<1>6. Sound(ss) /\ ss \subseteq AllSpends
  <2>1. Len(blocks) \in 0 .. Len(blocks)
    BY ChainOfSpends
  <2> QED
    BY <2>1, ChainOfSpends DEF StakeInv
<1>7. MadeBy(block) \cap ever = {}
  <2> SUFFICES ASSUME NEW s \in block, NEW o \in s.outputs, o.coin \in ever PROVE FALSE
    BY DEF MadeBy
  <2>1. o.coin.parent = s.coin /\ s.coin.asset \in {"dig", "xch"} /\ s.coin \notin CoinsOf(ss)
    BY <1>1, <1>4 DEF Keeps, CoinsOf, Live
  <2>2. CASE o.coin \in Genesis
    BY <2>1, <2>2, GenesisAssumption
  <2>3. CASE o.coin \in MadeBy(ss)
    <3>1. PICK t \in ss : \E q \in t.outputs : q.coin = o.coin
      BY <2>3 DEF MadeBy
    <3>2. PICK q \in t.outputs : q.coin = o.coin
      BY <3>1
    <3>3. q.coin.parent = t.coin /\ t.coin \in CoinsOf(ss)
      BY <1>4, <1>6 DEF Keeps, CoinsOf
    <3> QED
      BY <2>1, <3>2, <3>3
  <2> QED
    BY <2>2, <2>3
<1>8. \A s \in block : s.coin.amount \in Nat
  BY <1>1, <1>5 DEF Live, Whole, CoinsOf
<1>9. CoinsOf(ss) \subseteq ever /\ CoinsOf(block) \subseteq ever
  BY <1>1, <1>6 DEF Sound, Live
<1>10. /\ MadeBy(ss \union block) = MadeBy(ss) \union MadeBy(block)
       /\ CoinsOf(ss \union block) = CoinsOf(ss) \union CoinsOf(block)
  BY DEF MadeBy, CoinsOf
<1>11. Live(ss \union block) = (Live(ss) \ CoinsOf(block)) \union MadeBy(block)
  BY <1>7, <1>9, <1>10 DEF Live
<1>12. ASSUME NEW wallet \in Wallets
       PROVE  Amount(Owned(wallet, Live(ss \union block))) = Amount(Owned(wallet, Genesis))
  <2> DEFINE mine == {s \in block : s.coin.asset = "dig" /\ Holder(s.coin) = wallet}
             had == Owned(wallet, Live(ss))
             gone == CoinsOf(mine)
             made == MadeBy(mine)
  <2>1. gone = Owned(wallet, CoinsOf(block))
    BY DEF Owned, CoinsOf
  <2>2. made = Owned(wallet, MadeBy(block))
    <3>1. \A s \in block : \A o \in s.outputs :
            o.coin.asset = s.coin.asset /\ Holder(o.coin) = Holder(s.coin)
      BY <1>1, <1>4 DEF Keeps
    <3> QED
      BY <3>1 DEF Owned, MadeBy
  <2>3. Amount(gone) = Amount(made)
    <3>1. \A s \in mine : s.coin.asset = "dig" /\ RingIn(block, s) \subseteq mine
      <4> SUFFICES ASSUME NEW s \in mine, NEW t \in RingIn(block, s) PROVE t \in mine
        OBVIOUS
      <4>1. t.coin.asset = "dig" /\ Holder(t.coin) = Holder(s.coin)
        BY <1>3, RingsBalance
      <4> QED
        BY <4>1 DEF RingIn
    <3>2. mine \in SUBSET block
      OBVIOUS
    <3>3. \A s \in block : IsFiniteSet(s.outputs) /\ Keeps(s)
      BY <1>1, <1>4
    <3>4. \A s \in block : \A o \in s.outputs : o.coin.amount \in Nat
      BY <1>1, <1>4
    <3> HIDE DEF mine
    <3> QED
      BY <1>2, <1>3, <1>8, <3>1, <3>2, <3>3, <3>4, ClosedBalances
  <2>4. gone \subseteq had
    BY <1>1, <2>1 DEF Owned
  <2>5. IsFiniteSet(had) /\ Whole(had) /\ had \subseteq ever
    <3>1. had \subseteq ever
      BY DEF Owned, Live
    <3> HIDE DEF had, ever
    <3> QED
      BY <1>5, <3>1, FS_Subset DEF Whole
  <2>6. IsFiniteSet(made) /\ Whole(made) /\ made \cap had = {}
    <3>1. IsFiniteSet(mine) /\ mine \subseteq block
      BY <1>2, FS_Subset
    <3> HIDE DEF mine
    <3>2. IsFiniteSet(made)
      BY <1>1, <1>4, <3>1, FinitelyMany
    <3>3. Whole(made)
      BY <1>1, <1>4, <3>1 DEF Whole, MadeBy
    <3>4. made \subseteq MadeBy(block)
      BY <3>1 DEF MadeBy
    <3> HIDE DEF made
    <3> QED
      BY <1>7, <2>5, <3>2, <3>3, <3>4
  <2>7. Owned(wallet, Live(ss \union block)) = (had \ gone) \union made
    BY <1>11, <2>1, <2>2 DEF Owned
  <2> HIDE DEF mine, had, gone, made
  <2>8. Amount((had \ gone) \union made) = Amount(had)
    BY <2>3, <2>4, <2>5, <2>6, AmountMoves
  <2>9. Amount(had) = Amount(Owned(wallet, Genesis))
    BY <1>6 DEF Sound, had
  <2> QED
    BY <2>7, <2>8, <2>9
<1>13. CoinsOf(ss \union block) \subseteq Genesis \union MadeBy(ss \union block)
  BY <1>9, <1>10
<1> QED
  BY <1>12, <1>13 DEF Sound

LEMMA PastGrows ==
  ASSUME NEW n \in Nat, NEW chain, NEW longer, \A i \in 1 .. n : longer[i] = chain[i]
  PROVE  Past(longer, n + 1) = Past(chain, n) \union longer[n + 1]
<1>1. \A i : i \in 1 .. n + 1 <=> i \in 1 .. n \/ i = n + 1
  OBVIOUS
<1>2. ASSUME NEW s
      PROVE  s \in Past(longer, n + 1) <=> s \in Past(chain, n) \/ s \in longer[n + 1]
  BY <1>1 DEF Past
<1> QED
  BY <1>2

LEMMA StakeInitially == Init => StakeInv
<1> SUFFICES ASSUME Init PROVE StakeInv
  OBVIOUS
<1>1. pending = {} /\ blocks = <<>> /\ Len(blocks) = 0
  BY DEF Init
<1>2. Past(blocks, 0) = {} /\ 0 .. Len(blocks) = {0}
  BY <1>1 DEF Past
<1>3. Sound({})
  <2>1. CoinsOf({}) = {} /\ MadeBy({}) = {}
    BY DEF CoinsOf, MadeBy
  <2>2. Live({}) = Genesis
    BY <2>1 DEF Live
  <2> QED
    BY <2>1, <2>2 DEF Sound
<1> QED
  BY <1>1, <1>2, <1>3, Initially, FS_EmptySet DEF StakeInv

LEMMA BuildKeepsStake ==
  ASSUME StakeInv, LifeInv', NEW wallet, NEW verb, NEW advert, NEW spends,
         Conserves([by |-> wallet, verb |-> verb, advert |-> advert, spends |-> spends]),
         Build(wallet, verb, advert, spends)
  PROVE  StakeInv'
<1> DEFINE bundle == [by |-> wallet, verb |-> verb, advert |-> advert, spends |-> spends]
<1>1. pending' = pending \union {bundle} /\ blocks' = blocks
  BY DEF Build
<1>2. \A b \in pending' : Conserves(b)
  BY <1>1 DEF StakeInv
<1> HIDE DEF bundle
<1>3. IsFiniteSet(pending')
  BY <1>1, FS_AddElement DEF StakeInv
<1>4. \A n \in 0 .. Len(blocks') : Past(blocks', n) = Past(blocks, n) /\ Sound(Past(blocks, n))
  BY <1>1 DEF StakeInv, Past
<1> QED
  BY <1>2, <1>3, <1>4 DEF StakeInv

LEMMA CreateKeepsStake == ASSUME StakeInv, Create PROVE StakeInv'
<1>1. PICK wallet \in Wallets, advert \in Adverts, fee \in Fees :
       \E digs \in (SUBSET Purse(wallet, "dig")) \ {{}}, fees \in SUBSET Purse(wallet, "xch") :
        Build(wallet, "create", advert,
              LockBundle(MemosOf(wallet, advert), advert.collateral, digs, fees, fee))
  BY DEF Create
<1>2. PICK digs \in (SUBSET Purse(wallet, "dig")) \ {{}}, fees \in SUBSET Purse(wallet, "xch") :
        Build(wallet, "create", advert,
              LockBundle(MemosOf(wallet, advert), advert.collateral, digs, fees, fee))
  BY <1>1
<1>3. /\ advert.collateral \in Nat /\ fee \in Nat
      /\ IsFiniteSet(digs) /\ Whole(digs) /\ IsFiniteSet(fees) /\ Whole(fees)
  BY AdvertAssumption, FeeAssumption, PurseIsFinite
<1>4. Conserves([by |-> wallet, verb |-> "create", advert |-> advert, spends |->
                 LockBundle(MemosOf(wallet, advert), advert.collateral, digs, fees, fee)])
  BY <1>3, LockBundleConserves
<1> QED
  BY <1>2, <1>4, CreateKeeps, BuildKeepsStake DEF StakeInv

LEMMA PublishOtherwiseKeepsStake == ASSUME StakeInv, PublishOtherwise PROVE StakeInv'
<1>1. PICK wallet \in Wallets, memos \in Memos :
       \E payer \in Purse(wallet, "dig") :
        Build(wallet, "publish", NoAdvert, LockBundle(memos, payer.amount, {payer}, {}, 0))
  BY DEF PublishOtherwise
<1>2. PICK payer \in Purse(wallet, "dig") :
        Build(wallet, "publish", NoAdvert, LockBundle(memos, payer.amount, {payer}, {}, 0))
  BY <1>1
<1>3. /\ {payer} \in SUBSET Purse(wallet, "dig") /\ {} \in SUBSET Purse(wallet, "xch")
      /\ {payer} # {} /\ 0 \in Nat
  OBVIOUS
<1>4. /\ IsFiniteSet({payer}) /\ Whole({payer}) /\ IsFiniteSet({}) /\ Whole({})
  BY <1>3, PurseIsFinite
<1>5. payer.amount \in Nat
  BY <1>4 DEF Whole
<1>6. Conserves([by |-> wallet, verb |-> "publish", advert |-> NoAdvert, spends |->
                 LockBundle(memos, payer.amount, {payer}, {}, 0)])
  BY <1>3, <1>4, <1>5, LockBundleConserves
<1> QED
  BY <1>2, <1>6, PublishOtherwiseKeeps, BuildKeepsStake DEF StakeInv

LEMMA MirrorsAreDig ==
  ASSUME StakeInv, NEW o \in Mirrors
  PROVE  IsMirror(o.coin) /\ o.coin.asset = "dig" /\ o.coin.amount \in Nat
<1>1. IsMirror(o.coin) /\ o.coin.asset = "dig" /\ o \in Outputs
  BY OnChain DEF Mirrors, Unspent, StakeInv
<1>2. o.coin \in Genesis \union MadeBy(Spends(blocks))
  BY <1>1, ChainOfSpends
<1> QED
  BY <1>1, <1>2, CoinsAreFinite DEF Whole

LEMMA ReclaimKeepsStake == ASSUME StakeInv, Reclaim PROVE StakeInv'
<1>1. PICK wallet \in Wallets, o \in Mirrors, fee \in Fees :
       \E fees \in SUBSET Purse(wallet, "xch") :
        Build(wallet, "reclaim", NoAdvert, ReclaimBundle(o.coin, wallet, fees, fee))
  BY DEF Reclaim
<1>2. PICK fees \in SUBSET Purse(wallet, "xch") :
        Build(wallet, "reclaim", NoAdvert, ReclaimBundle(o.coin, wallet, fees, fee))
  BY <1>1
<1>3. /\ o.coin.asset = "dig" /\ o.coin.amount \in Nat
      /\ fee \in Nat /\ IsFiniteSet(fees) /\ Whole(fees)
  BY MirrorsAreDig, FeeAssumption, PurseIsFinite
<1>4. Conserves([by |-> wallet, verb |-> "reclaim", advert |-> NoAdvert, spends |->
                 ReclaimBundle(o.coin, wallet, fees, fee)])
  BY <1>3, ReclaimBundleConserves
<1> QED
  BY <1>2, <1>4, ReclaimKeeps, BuildKeepsStake DEF StakeInv

LEMMA ConfirmKeepsStake == ASSUME StakeInv, Confirm PROVE StakeInv'
<1>1. PICK block \in SUBSET Spendable(pending) :
        Consistent(block, pending) /\ blocks' = Append(blocks, block)
  BY DEF Confirm
<1> DEFINE len == Len(blocks)
<1>2. Sound(Spends(blocks) \union block)
  BY <1>1, SoundGrows
<1>3. /\ len \in Nat /\ Len(blocks') = len + 1
      /\ \A i \in 1 .. len : blocks'[i] = blocks[i]
      /\ blocks'[len + 1] = block
  BY <1>1 DEF StakeInv, LifeInv
<1>4. \A n \in 0 .. len : Past(blocks', n) = Past(blocks, n)
  BY <1>3 DEF Past
<1>5. Past(blocks', len + 1) = Spends(blocks) \union block
  <2> HIDE DEF len
  <2>1. Past(blocks', len + 1) = Past(blocks, len) \union blocks'[len + 1]
    BY <1>3, PastGrows
  <2> QED
    BY <1>3, <2>1, ChainOfSpends DEF len
<1>6. \A n \in 0 .. Len(blocks') : n \in 0 .. len \/ n = len + 1
  BY <1>3
<1>7. \A n \in 0 .. Len(blocks') : Sound(Past(blocks', n))
  BY <1>2, <1>4, <1>5, <1>6 DEF StakeInv
<1>8. pending' = pending
  BY DEF Confirm
<1> QED
  BY <1>7, <1>8, ConfirmKeeps DEF StakeInv

LEMMA ReorgKeepsStake == ASSUME StakeInv, Reorg PROVE StakeInv'
<1>1. /\ Len(blocks) \in Nat \ {0} /\ pending' = pending
      /\ blocks' = [i \in 1 .. Len(blocks) - 1 |-> blocks[i]]
  BY ChainOfSpends DEF Reorg, StakeInv, LifeInv, Front
<1>2. Len(blocks') = Len(blocks) - 1 /\ \A i \in 1 .. Len(blocks') : blocks'[i] = blocks[i]
  BY <1>1
<1>3. \A n \in 0 .. Len(blocks') : n \in 0 .. Len(blocks) /\ Past(blocks', n) = Past(blocks, n)
  BY <1>1, <1>2 DEF Past
<1> QED
  BY <1>1, <1>3, ReorgKeeps DEF StakeInv

LEMMA StakeInvariance == Spec => []StakeInv
<1>1. StakeInv /\ [Next]_vars => StakeInv'
  <2> SUFFICES ASSUME StakeInv, [Next]_vars PROVE StakeInv'
    OBVIOUS
  <2>1. CASE UNCHANGED vars
    BY <2>1 DEF vars, StakeInv, LifeInv, AllSpends, FeesBuyWork, Past
  <2> QED
    BY <2>1, CreateKeepsStake, PublishOtherwiseKeepsStake, ReclaimKeepsStake,
       ConfirmKeepsStake, ReorgKeepsStake DEF Next
<1> QED
  BY <1>1, StakeInitially, PTL DEF Spec

\* Whatever is created, reclaimed, retried and undone, a wallet always holds,
\* in coins its hints find and in coins it locked at the mirror puzzle hash,
\* exactly the DIG it began with.
THEOREM CollateralIsKept == Spec => []CollateralKept
<1>1. StakeInv => CollateralKept
  <2> SUFFICES ASSUME StakeInv, NEW wallet \in Wallets
               PROVE  Amount(Purse(wallet, "dig") \union Stake(wallet))
                        = Amount({c \in Genesis : c.puzzle = wallet /\ c.asset = "dig"})
    BY DEF CollateralKept
  <2>1. Amount(Owned(wallet, Live(Spends(blocks)))) = Amount(Owned(wallet, Genesis))
    <3>1. Len(blocks) \in 0 .. Len(blocks)
      BY ChainOfSpends
    <3> QED
      BY <3>1, ChainOfSpends DEF StakeInv, Sound
  <2>2. Owned(wallet, Genesis) = {c \in Genesis : c.puzzle = wallet /\ c.asset = "dig"}
    BY GenesisAssumption, WalletAssumption DEF Owned, Holder, IsMirror
  <2>3. \A o \in Outputs : ~IsMirror(o.coin) => o.memos = Hinted(o.coin.puzzle)
    <3>1. \A s \in Spends(blocks) : \A o \in s.outputs :
            ~IsMirror(o.coin) => o.memos = Hinted(o.coin.puzzle)
      BY ChainOfSpends DEF StakeInv, AllSpends, Conserves
    <3>2. \A c : Output(c, Hinted(c.puzzle)).memos = Hinted(Output(c, Hinted(c.puzzle)).coin.puzzle)
      BY DEF Output
    <3> QED
      BY <3>1, <3>2 DEF Outputs
  <2>4. Purse(wallet, "dig") = {c \in Live(Spends(blocks)) : c.asset = "dig" /\ c.puzzle = wallet}
    <3>1. \A o \in Unspent : o.coin.puzzle = wallet => o.memos = Hinted(wallet)
      BY <2>3, WalletAssumption DEF Unspent, IsMirror
    <3>2. Purse(wallet, "dig") = {c \in {o.coin : o \in Unspent} : c.asset = "dig" /\ c.puzzle = wallet}
      BY <3>1 DEF Purse
    <3> QED
      BY <3>2, ChainOfSpends
  <2>5. Stake(wallet) = {c \in Live(Spends(blocks)) : IsMirror(c) /\ Holder(c) = wallet}
    <3>1. Stake(wallet) = {c \in {o.coin : o \in Unspent} : IsMirror(c) /\ Holder(c) = wallet}
      BY DEF Stake, Mirrors
    <3> QED
      BY <3>1, ChainOfSpends
  <2>6. \A c \in Live(Spends(blocks)) : IsMirror(c) => c.asset = "dig"
    <3>1. \A o \in Unspent : IsMirror(o.coin) => o.coin.asset = "dig"
      BY OnChain DEF StakeInv, Unspent
    <3> QED
      BY <3>1, ChainOfSpends
  <2>7. Purse(wallet, "dig") \union Stake(wallet) = Owned(wallet, Live(Spends(blocks)))
    BY <2>4, <2>5, <2>6, WalletAssumption DEF Owned, Holder, IsMirror
  <2> QED
    BY <2>1, <2>2, <2>7
<1> QED
  BY <1>1, StakeInvariance, PTL

(***************************************************************************)
(* Reclaiming. The release of a mirror coin is a ring of its own, which    *)
(* returns what it takes; its fee requires it, and it requires nothing.    *)
(***************************************************************************)
LEMMA ReclaimIsAccepted ==
  ASSUME StakeInv, NEW m \in Mirrors, NEW wallet \in Wallets, wallet = Holder(m.coin),
         NEW fee, NEW fees \in SUBSET Purse(wallet, "xch")
  PROVE  LET spends == ReclaimBundle(m.coin, wallet, fees, fee)
             bundle == [by |-> wallet, spends |-> spends]
         IN  /\ Accepted(spends, bundle)
             /\ Accepted({s \in spends : s.coin = m.coin}, bundle)
<1> DEFINE returned == Returned(m.coin, wallet, fee)
           release == Spend(m.coin, {returned}, {})
           required == ReclaimFeeRequires(m.coin, fees)
           fine == FeeSpends(fees, fee, required)
           spends == ReclaimBundle(m.coin, wallet, fees, fee)
           bundle == [by |-> wallet, spends |-> spends]
           coins == {o.coin : o \in Unspent}
<1>1. /\ m.coin \in coins /\ \A c \in fees : c \in coins
      /\ m.coin.asset = "dig" /\ m.coin.amount \in Nat
      /\ \A c \in fees : c.asset = "xch" /\ Holder(c) = wallet
  BY MirrorsAreDig, PurseCoins DEF Mirrors, Purse
<1>2. spends = {release} \union fine /\ bundle.spends = spends /\ bundle.by = wallet
  BY DEF ReclaimBundle
<1>3. release.coin = m.coin /\ release.outputs = {returned} /\ release.required = {}
  BY DEF Spend
<1>4. returned.coin.amount = m.coin.amount
  BY DEF Returned, Output, Child
<1>5. /\ \A s \in fine : s.coin \in fees /\ s.required = ({m.coin} \union fees) \ {s.coin}
      /\ \A c \in fees : \E s \in fine : s.coin = c
      /\ \A s, t \in fine : s.coin = t.coin => s = t
  <2> DEFINE payer == Teller(fees)
             outputs == Change(payer, Amount(fees) - fee)
             spendOf == [c \in fees |-> Spend(c, IF c = payer THEN outputs ELSE {}, required)]
  <2>1. fine = {spendOf[c] : c \in fees}
    BY DEF FeeSpends, Together
  <2>2. required = {m.coin} \union fees
    BY DEF ReclaimFeeRequires
  <2>3. \A c \in fees : spendOf[c].coin = c /\ spendOf[c].required = required \ {c}
    BY DEF Spend
  <2> HIDE DEF fine, spendOf, required
  <2> QED
    BY <2>1, <2>2, <2>3
<1> HIDE DEF returned, release, fine, spends, bundle, coins
<1>6. Ring(bundle) = {release}
  BY <1>1, <1>2, <1>3, <1>5 DEF Ring
<1>7. Balanced(bundle)
  <2>1. {s.coin : s \in Ring(bundle)} = {m.coin}
    BY <1>3, <1>6
  <2>2. {o.coin : o \in UNION {s.outputs : s \in Ring(bundle)}} = {returned.coin}
    BY <1>3, <1>6
  <2> QED
    BY <1>1, <1>4, <2>1, <2>2, AmountOfOne DEF Balanced, AmountOut
<1>8. Spendable({bundle}) = spends
  <2>1. UNION {b.spends : b \in {bundle}} = spends
    BY <1>2
  <2>2. Spendable({bundle}) = {s \in spends : s.coin \in coins}
    BY <2>1 DEF Spendable, coins
  <2>3. \A s \in spends : s.coin \in coins
    BY <1>1, <1>2, <1>3, <1>5
  <2> QED
    BY <2>2, <2>3
<1>9. \A s \in spends : bundle.by = Holder(s.coin)
  BY <1>1, <1>2, <1>3, <1>5
<1>10. \A block : release \in block /\ block \subseteq spends =>
         \A s \in block : Admissible(s, block, bundle)
  BY <1>2, <1>6, <1>7, <1>9 DEF Admissible
<1>11. Consistent(spends, {bundle})
  <2>1. \A s, t \in spends : s.coin = t.coin => s = t
    BY <1>1, <1>2, <1>3, <1>5
  <2>2. \A s \in spends : s.required \subseteq {t.coin : t \in spends}
    BY <1>2, <1>3, <1>5
  <2> QED
    BY <1>2, <1>10, <2>1, <2>2 DEF Consistent
<1>12. {s \in spends : s.coin = m.coin} = {release}
  BY <1>1, <1>2, <1>3, <1>5
<1>13. Consistent({release}, {bundle})
  BY <1>2, <1>3, <1>10 DEF Consistent
<1> QED
  BY <1>2, <1>8, <1>11, <1>12, <1>13 DEF Accepted, bundle, spends

(***************************************************************************)
(* What the two loops over an advertised tail compute.                     *)
(***************************************************************************)
Declared(urls, n) == {i \in 1 .. n : urls[i].prefixed}

Found(urls, n) ==
  IF Declared(urls, n) = {} THEN NoTerm
  ELSE IF \E i \in 1 .. n : Declared(urls, n) = {i}
  THEN OneTerm(FromHex(urls[CHOOSE i \in 1 .. n : Declared(urls, n) = {i}].rest))
  ELSE TwoTerms

Scans(f, urls) ==
  f = [k \in 0 .. Len(urls) |-> IF k = 0 THEN NoTerm ELSE Count(f[k - 1], urls[k])]

LEMMA FoundOne ==
  ASSUME NEW urls, NEW n \in Nat, NEW i \in 1 .. n, Declared(urls, n) = {i}
  PROVE  Found(urls, n) = OneTerm(FromHex(urls[i].rest))
<1>1. Declared(urls, n) # {} /\ \E j \in 1 .. n : Declared(urls, n) = {j}
  OBVIOUS
<1>2. (CHOOSE j \in 1 .. n : Declared(urls, n) = {j}) = i
  OBVIOUS
<1> QED
  BY <1>1, <1>2 DEF Found

LEMMA FoundStep ==
  ASSUME NEW urls \in Seq(Terms), NEW k \in 1 .. Len(urls)
  PROVE  Found(urls, k) = Count(Found(urls, k - 1), urls[k])
<1> DEFINE before == Declared(urls, k - 1)
           after == Declared(urls, k)
<1>1. urls[k].prefixed \in BOOLEAN /\ k - 1 \in Nat /\ k \in Nat
  <2>1. urls[k] \in Terms /\ k - 1 \in Nat /\ k \in Nat
    OBVIOUS
  <2> QED
    BY <2>1 DEF Terms
<1>2. after = IF urls[k].prefixed THEN before \union {k} ELSE before
  BY DEF Declared
<1>3. before \subseteq 1 .. k - 1 /\ k \notin before
  BY DEF Declared
<1>4. \A peer : NoTerm # TwoTerms /\ OneTerm(peer) # TwoTerms /\ OneTerm(peer) # NoTerm
  <2>1. \A peer : /\ NoTerm.found = "none" /\ OneTerm(peer).found = "one"
                  /\ TwoTerms.found = "two"
    BY DEF NoTerm, OneTerm, TwoTerms
  <2> QED
    BY <2>1
<1> HIDE DEF before, after
<1>5. CASE before = {}
  <2>1. Found(urls, k - 1) = NoTerm
    BY <1>5 DEF Found, before
  <2>2. CASE urls[k].prefixed
    <3>1. after = {k}
      BY <1>2, <1>5, <2>2
    <3>2. Found(urls, k) = OneTerm(FromHex(urls[k].rest))
      BY <1>1, <3>1, FoundOne DEF after
    <3> QED
      BY <1>4, <2>1, <2>2, <3>2 DEF Count
  <2>3. CASE ~urls[k].prefixed
    <3>1. Found(urls, k) = NoTerm
      BY <1>2, <1>5, <2>3 DEF Found, after
    <3> QED
      BY <2>1, <2>3, <3>1 DEF Count
  <2> QED
    BY <2>2, <2>3
<1>6. CASE \E i \in 1 .. k - 1 : before = {i}
  <2>1. PICK i \in 1 .. k - 1 : before = {i}
    BY <1>6
  <2>2. Found(urls, k - 1) = OneTerm(FromHex(urls[i].rest))
    BY <1>1, <2>1, FoundOne DEF before
  <2>3. CASE urls[k].prefixed
    <3>1. after = {i, k} /\ i # k
      BY <1>2, <2>1, <2>3
    <3>2. after # {} /\ ~ \E j \in 1 .. k : after = {j}
      <4>1. i \in after /\ k \in after /\ i # k
        BY <3>1
      <4> QED
        BY <4>1
    <3>3. Found(urls, k) = TwoTerms
      BY <3>2 DEF Found, after
    <3> QED
      BY <1>4, <2>2, <2>3, <3>3 DEF Count
  <2>4. CASE ~urls[k].prefixed
    <3>1. after = {i} /\ i \in 1 .. k
      BY <1>2, <2>1, <2>4
    <3>2. Found(urls, k) = OneTerm(FromHex(urls[i].rest))
      BY <1>1, <3>1, FoundOne DEF after
    <3> QED
      BY <2>2, <2>4, <3>2 DEF Count
  <2> QED
    BY <2>3, <2>4
<1>7. CASE before # {} /\ ~ \E i \in 1 .. k - 1 : before = {i}
  <2>1. Found(urls, k - 1) = TwoTerms
    BY <1>7 DEF Found, before
  <2>2. after # {} /\ ~ \E j \in 1 .. k : after = {j}
    BY <1>2, <1>3, <1>7
  <2>3. Found(urls, k) = TwoTerms
    BY <2>2 DEF Found, after
  <2> QED
    BY <2>1, <2>3 DEF Count
<1> QED
  BY <1>5, <1>6, <1>7

LEMMA ScanFinds ==
  ASSUME NEW urls \in Seq(Terms), NEW f, Scans(f, urls)
  PROVE  \A k \in 0 .. Len(urls) : f[k] = Found(urls, k)
<1> DEFINE T == {k \in 0 .. Len(urls) : f[k] # Found(urls, k)}
<1> SUFFICES ASSUME T # {} PROVE FALSE
  OBVIOUS
<1>1. PICK k \in T : \A j \in T : k <= j
  <2>1. T \subseteq Nat
    OBVIOUS
  <2> HIDE DEF T
  <2> QED
    BY <2>1, LeastNatural
<1>2. k \in 0 .. Len(urls) /\ f[k] # Found(urls, k)
  OBVIOUS
<1>3. f[k] = IF k = 0 THEN NoTerm ELSE Count(f[k - 1], urls[k])
  BY <1>2, Zenon DEF Scans
<1>4. k # 0
  <2>1. Found(urls, 0) = NoTerm
    BY DEF Found, Declared
  <2> QED
    BY <1>2, <1>3, <2>1
<1>5. k \in 1 .. Len(urls) /\ k - 1 \in 0 .. Len(urls) /\ k - 1 \notin T
  BY <1>1, <1>2, <1>4
<1>6. f[k - 1] = Found(urls, k - 1)
  BY <1>5
<1> QED
  BY <1>2, <1>3, <1>4, <1>5, <1>6, FoundStep

\* A tail credits the peer of its only declaration, and nobody if it has none
\* or more than one.
LEMMA DeclaredPeerIs ==
  ASSUME NEW urls \in Seq(Terms)
  PROVE  /\ \A i \in DOMAIN urls :
              {j \in DOMAIN urls : urls[j].prefixed} = {i} => DeclaredPeer(urls) = FromHex(urls[i].rest)
         /\ (\A i \in DOMAIN urls : {j \in DOMAIN urls : urls[j].prefixed} # {i})
              => DeclaredPeer(urls) = NoPeer
<1> DEFINE len == Len(urls)
           g == [k \in 0 .. len |-> Found(urls, k)]
           f == CHOOSE h : Scans(h, urls)
<1>1. len \in Nat /\ DOMAIN urls = 1 .. len /\ {j \in DOMAIN urls : urls[j].prefixed} = Declared(urls, len)
  BY DEF Declared
<1>2. Scans(g, urls)
  <2>1. \A k \in 0 .. len : g[k] = IF k = 0 THEN NoTerm ELSE Count(g[k - 1], urls[k])
    <3> SUFFICES ASSUME NEW k \in 0 .. len
                 PROVE  g[k] = IF k = 0 THEN NoTerm ELSE Count(g[k - 1], urls[k])
      OBVIOUS
    <3>1. CASE k = 0
      BY <3>1 DEF Found, Declared
    <3>2. CASE k # 0
      <4>1. k \in 1 .. len /\ k - 1 \in 0 .. len
        BY <1>1, <3>2
      <4>2. g[k - 1] = Found(urls, k - 1) /\ g[k] = Found(urls, k)
        BY <4>1
      <4> HIDE DEF g
      <4> QED
        BY <3>2, <4>1, <4>2, FoundStep
    <3> QED
      BY <3>1, <3>2
  <2> QED
    BY <2>1 DEF Scans
<1>3. Scans(f, urls)
  <2> HIDE DEF g
  <2> QED
    BY <1>2
<1>4. DeclaredPeer(urls) = IF f[len].found = "one" THEN f[len].peer ELSE NoPeer
  BY Zenon DEF DeclaredPeer, Scans
<1> HIDE DEF f, g
<1>5. f[len] = Found(urls, len)
  BY <1>1, <1>3, ScanFinds
<1>6. \A peer : /\ NoTerm.found = "none" /\ OneTerm(peer).found = "one"
                /\ OneTerm(peer).peer = peer /\ TwoTerms.found = "two"
  BY DEF NoTerm, OneTerm, TwoTerms
<1>7. ASSUME NEW i \in 1 .. len, Declared(urls, len) = {i}
      PROVE  DeclaredPeer(urls) = FromHex(urls[i].rest)
  BY <1>1, <1>4, <1>5, <1>6, <1>7, FoundOne
<1>8. ASSUME \A i \in 1 .. len : Declared(urls, len) # {i}
      PROVE  DeclaredPeer(urls) = NoPeer
  <2>1. Found(urls, len) = NoTerm \/ Found(urls, len) = TwoTerms
    BY <1>8 DEF Found
  <2> QED
    BY <1>4, <1>5, <1>6, <2>1
<1> QED
  BY <1>1, <1>7, <1>8

Kept(f, tail, n) ==
  f = [i \in 0 .. n |-> IF i = 0 THEN <<>>
                        ELSE IF Text(tail[i]) THEN Append(f[i - 1], tail[i]) ELSE f[i - 1]]

LEMMA KeptExists ==
  ASSUME NEW tail, NEW n \in Nat
  PROVE  \E f : Kept(f, tail, n)
<1> DEFINE T == {m \in Nat : ~ \E f : Kept(f, tail, m)}
<1> SUFFICES ASSUME T # {} PROVE FALSE
  OBVIOUS
<1>1. PICK m \in T : \A j \in T : m <= j
  <2>1. T \subseteq Nat
    OBVIOUS
  <2> HIDE DEF T
  <2> QED
    BY <2>1, LeastNatural
<1>2. m \in Nat /\ ~ \E f : Kept(f, tail, m)
  OBVIOUS
<1>3. m # 0
  <2>1. Kept([i \in 0 .. 0 |-> <<>>], tail, 0)
    BY DEF Kept
  <2> QED
    BY <1>2, <2>1
<1>4. PICK f : Kept(f, tail, m - 1)
  <2>1. m - 1 \in Nat /\ m - 1 \notin T
    BY <1>1, <1>2, <1>3
  <2> QED
    BY <2>1
<1> DEFINE last == IF Text(tail[m]) THEN Append(f[m - 1], tail[m]) ELSE f[m - 1]
           g == [i \in 0 .. m |-> IF i = m THEN last ELSE f[i]]
<1>5. \A i \in 0 .. m : g[i] = IF i = 0 THEN <<>>
                                ELSE IF Text(tail[i]) THEN Append(g[i - 1], tail[i]) ELSE g[i - 1]
  <2> SUFFICES ASSUME NEW i \in 0 .. m
               PROVE  g[i] = IF i = 0 THEN <<>>
                             ELSE IF Text(tail[i]) THEN Append(g[i - 1], tail[i]) ELSE g[i - 1]
    OBVIOUS
  <2>1. CASE i = m
    <3>1. g[i] = last /\ g[i - 1] = f[m - 1]
      BY <1>2, <1>3, <2>1
    <3> HIDE DEF g
    <3> QED
      BY <1>3, <2>1, <3>1
  <2>2. CASE i # m
    <3>1. i \in 0 .. m - 1 /\ g[i] = f[i]
      BY <1>2, <2>2
    <3>2. i # 0 => g[i - 1] = f[i - 1]
      BY <1>2, <2>2
    <3>3. f[i] = IF i = 0 THEN <<>>
                 ELSE IF Text(tail[i]) THEN Append(f[i - 1], tail[i]) ELSE f[i - 1]
      BY <1>4, <3>1, Zenon DEF Kept
    <3> HIDE DEF g
    <3> QED
      BY <3>1, <3>2, <3>3
  <2> QED
    BY <2>1, <2>2
<1>6. Kept(g, tail, m)
  <2>1. g = [i \in 0 .. m |-> g[i]]
    OBVIOUS
  <2> HIDE DEF g
  <2> QED
    BY <1>5, <2>1 DEF Kept
<1> QED
  BY <1>2, <1>6

\* What is readable is a tail of text, and all of it where all of it is text.
LEMMA ReadableIs ==
  ASSUME NEW tail \in Seq(Terms \union {NotText})
  PROVE  /\ Readable(tail) \in Seq(Terms)
         /\ (\A i \in DOMAIN tail : Text(tail[i])) => Readable(tail) = tail
<1> DEFINE len == Len(tail)
           f == CHOOSE h : Kept(h, tail, len)
<1>1. Kept(f, tail, len)
  BY KeptExists
<1>2. Readable(tail) = f[len]
  BY Zenon DEF Readable, Kept
<1> HIDE DEF f
<1>3. \A i \in 0 .. len : f[i] = IF i = 0 THEN <<>>
                                  ELSE IF Text(tail[i]) THEN Append(f[i - 1], tail[i]) ELSE f[i - 1]
  BY <1>1, Zenon DEF Kept
<1> DEFINE Right(i) == /\ f[i] \in Seq(Terms)
                       /\ (\A j \in DOMAIN tail : Text(tail[j])) =>
                            Len(f[i]) = i /\ \A j \in 1 .. i : f[i][j] = tail[j]
           T == {i \in 0 .. len : ~Right(i)}
<1>4. T = {}
  <2> SUFFICES ASSUME T # {} PROVE FALSE
    OBVIOUS
  <2>1. PICK i \in T : \A j \in T : i <= j
    <3>1. T \subseteq Nat
      OBVIOUS
    <3> HIDE DEF T
    <3> QED
      BY <3>1, LeastNatural
  <2>2. i \in 0 .. len /\ ~Right(i)
    OBVIOUS
  <2>3. i # 0
    <3>1. 0 \in 0 .. len
      OBVIOUS
    <3>2. f[0] = <<>>
      BY <1>3, <3>1
    <3>3. <<>> \in Seq(Terms) /\ Len(<<>>) = 0 /\ \A j \in 1 .. 0 : FALSE
      OBVIOUS
    <3>4. Right(0)
      BY <3>2, <3>3
    <3> HIDE DEF Right
    <3> QED
      BY <2>2, <3>4
  <2>4. i - 1 \in 0 .. len /\ i \in 1 .. len /\ Right(i - 1)
    <3>1. i - 1 \in 0 .. len /\ ~(i <= i - 1) /\ i \in 1 .. len
      BY <2>2, <2>3
    <3> QED
      BY <2>1, <3>1
  <2>5. tail[i] \in Terms \union {NotText} /\ i \in DOMAIN tail
    BY <2>4
  <2>6. f[i] = IF Text(tail[i]) THEN Append(f[i - 1], tail[i]) ELSE f[i - 1]
    BY <1>3, <2>2, <2>3
  <2>7. Text(tail[i]) => tail[i] \in Terms
    BY <2>5 DEF Text
  <2>8. f[i] \in Seq(Terms)
    BY <2>4, <2>6, <2>7
  <2>9. ASSUME \A j \in DOMAIN tail : Text(tail[j])
        PROVE  Len(f[i]) = i /\ \A j \in 1 .. i : f[i][j] = tail[j]
    <3>1. f[i] = Append(f[i - 1], tail[i]) /\ tail[i] \in Terms
      BY <2>5, <2>6, <2>7, <2>9
    <3>2. f[i - 1] \in Seq(Terms) /\ Len(f[i - 1]) = i - 1
          /\ \A j \in 1 .. i - 1 : f[i - 1][j] = tail[j]
      BY <2>4, <2>9
    <3> QED
      BY <2>4, <3>1, <3>2
  <2> QED
    BY <2>2, <2>8, <2>9
<1>5. Right(len)
  BY <1>4
<1> QED
  BY <1>2, <1>5

(***************************************************************************)
(* What reads as a peer id, and what one is written as.                    *)
(***************************************************************************)
LEMMA SpeltIsRead ==
  ASSUME NEW raw \in Seq(Bytes)
  PROVE  /\ WellSpelt(raw) <=> FromHex(raw) # NoPeer
         /\ FromHex(raw) # NoPeer => FromHex(raw) \in PeerIds
<1>1. \A i \in DOMAIN raw :
        /\ HexDigit(raw[i]) >= 0 <=> Lowered(raw)[i] \in Digits
        /\ Lowered(raw)[i] \in Digits => HexDigit(raw[i]) \in 0 .. 15
  <2> TAKE i \in DOMAIN raw
  <2>1. raw[i] \in Bytes
    OBVIOUS
  <2>2. Lowered(raw)[i] = IF raw[i] \in 65 .. 70 THEN raw[i] + 32 ELSE raw[i]
    BY DEF Lowered
  <2> QED
    BY <2>1, <2>2, DigitsRead
<1>2. ASSUME WellSpelt(raw)
      PROVE  FromHex(raw) \in PeerIds
  <2>1. Len(raw) = 2 * PeerBytes /\ \A i \in DOMAIN raw : HexDigit(raw[i]) \in 0 .. 15
    BY <1>1, <1>2 DEF WellSpelt
  <2>2. \A i \in 1 .. PeerBytes : 2 * i - 1 \in DOMAIN raw /\ 2 * i \in DOMAIN raw
    <3>1. DOMAIN raw = 1 .. 2 * PeerBytes
      BY <2>1
    <3> QED
      BY <3>1, PeerAssumption
  <2>3. \A i \in 1 .. PeerBytes : 16 * HexDigit(raw[2 * i - 1]) + HexDigit(raw[2 * i]) \in Bytes
    <3> SUFFICES ASSUME NEW i \in 1 .. PeerBytes
                 PROVE  16 * HexDigit(raw[2 * i - 1]) + HexDigit(raw[2 * i]) \in Bytes
      OBVIOUS
    <3>1. HexDigit(raw[2 * i - 1]) \in 0 .. 15 /\ HexDigit(raw[2 * i]) \in 0 .. 15
      BY <2>1, <2>2
    <3>2. \A a \in 0 .. 15, b \in 0 .. 15 : 16 * a + b \in 0 .. 255
      OBVIOUS
    <3> QED
      BY <3>1, <3>2 DEF Bytes
  <2>4. Len(raw) = 2 * PeerBytes /\ \A i \in DOMAIN raw : HexDigit(raw[i]) >= 0
    BY <2>1
  <2>5. FromHex(raw) = [i \in 1 .. PeerBytes |-> 16 * HexDigit(raw[2 * i - 1]) + HexDigit(raw[2 * i])]
    BY <2>4 DEF FromHex
  <2> QED
    BY <2>3, <2>5 DEF PeerIds
<1>3. ASSUME FromHex(raw) # NoPeer
      PROVE  WellSpelt(raw)
  BY <1>1, <1>3 DEF FromHex, WellSpelt
<1> QED
  BY <1>2, <1>3, SentinelAssumption

LEMMA WrittenIsTerm ==
  ASSUME NEW peer \in PeerIds
  PROVE  ToTerm(peer) \in Terms /\ ToTerm(peer).prefixed /\ ToTerm(peer).rest = ToHex(peer)
<1> DEFINE raw == ToHex(peer)
<1>1. ASSUME NEW i \in 1 .. 2 * PeerBytes
      PROVE  raw[i] \in Bytes
  <2> DEFINE byte == peer[(i + 1) \div 2]
  <2>1. (i + 1) \div 2 \in 1 .. PeerBytes
    BY PeerAssumption
  <2>2. byte \in 0 .. 255
    BY <2>1 DEF PeerIds, Bytes
  <2>3. byte \div 16 \in 0 .. 15 /\ byte % 16 \in 0 .. 15
    BY <2>2
  <2>4. raw[i] = LowerDigit(IF i % 2 = 1 THEN byte \div 16 ELSE byte % 16)
    BY DEF ToHex
  <2> HIDE DEF raw, byte
  <2>5. \A value \in 0 .. 15 : LowerDigit(value) \in Bytes
    BY DEF LowerDigit, Bytes
  <2> QED
    BY <2>3, <2>4, <2>5
<1>2. raw = [i \in 1 .. 2 * PeerBytes |-> raw[i]]
  BY DEF ToHex
<1> HIDE DEF raw
<1>3. raw \in [1 .. 2 * PeerBytes -> Bytes]
  BY <1>1, <1>2
<1>4. raw \in Seq(Bytes)
  BY <1>3, PeerAssumption
<1> QED
  BY <1>4 DEF ToTerm, Terms, raw

(***************************************************************************)
(* What create publishes and how it reads.                                 *)
(***************************************************************************)
LEMMA TailIs ==
  ASSUME NEW advert \in Adverts, Publishable(advert)
  PROVE  LET tail == TailOf(advert)
             n == Len(advert.urls)
         IN  /\ tail \in Seq(Terms) /\ n \in Nat \ {0} /\ Len(tail) \in {n, n + 1}
             /\ \A i \in 1 .. n : tail[i] = advert.urls[i] /\ ~tail[i].prefixed
             /\ advert.peer = NoPeer => Len(tail) = n
             /\ advert.peer # NoPeer =>
                  /\ advert.peer \in PeerIds
                  /\ Len(tail) = n + 1 /\ tail[n + 1] = ToTerm(advert.peer)
<1>1. /\ advert.urls \in Seq(Terms) /\ advert.urls # <<>>
      /\ advert.peer \in PeerIds \union {NoPeer}
      /\ \A i \in DOMAIN advert.urls : ~advert.urls[i].prefixed
  BY AdvertAssumption DEF Publishable
<1>2. CASE advert.peer = NoPeer
  <2>1. TailOf(advert) = advert.urls \o <<>>
    BY <1>2 DEF TailOf
  <2> QED
    BY <1>1, <1>2, <2>1
<1>3. CASE advert.peer # NoPeer
  <2>1. TailOf(advert) = advert.urls \o <<ToTerm(advert.peer)>>
    BY <1>3 DEF TailOf
  <2>2. advert.peer \in PeerIds /\ ToTerm(advert.peer) \in Terms
    BY <1>1, <1>3, WrittenIsTerm
  <2> QED
    BY <1>1, <1>3, <2>1, <2>2
<1> QED
  BY <1>2, <1>3

LEMMA PublishedReads ==
  ASSUME NEW wallet \in Wallets, NEW advert \in Adverts, Publishable(advert)
  PROVE  /\ MemosOf(wallet, advert) \in MemoLists
         /\ ParseMemos(MemosOf(wallet, advert))
              = [hint |-> MirrorHint(advert.asked.store, advert.asked.root, wallet, advert.asked.epoch),
                 declared |-> advert.asked, urls |-> TailOf(advert)]
         /\ ParseMemos(MemosOf(wallet, advert)) \notin {NoAdvert, Undecodable}
<1> DEFINE memos == MemosOf(wallet, advert)
           tail == TailOf(advert)
           hint == MirrorHint(advert.asked.store, advert.asked.root, wallet, advert.asked.epoch)
           view == [hint |-> hint, declared |-> advert.asked, urls |-> tail]
<1>1. advert.asked \in Bonds /\ wallet \in Int
  BY AdvertAssumption, WalletAssumption
<1>2. hint \in Int
  BY <1>1 DEF MirrorHint, Bonds
<1>3. tail \in Seq(Terms) /\ tail # <<>>
  BY TailIs
<1>4. tail \in Seq(Terms \union {NotText}) /\ \A i \in DOMAIN tail : Text(tail[i])
  <2>1. \A i \in DOMAIN tail : tail[i] \in Terms
    BY <1>3
  <2> HIDE DEF tail
  <2> QED
    BY <1>3, <2>1, SentinelAssumption DEF Text
<1>5. memos = [hint |-> hint, declared |-> advert.asked, tail |-> tail]
  BY DEF MemosOf
<1> HIDE DEF tail, hint, memos
<1>6. memos \in MemoLists /\ memos.hint = hint /\ memos.declared = advert.asked /\ memos.tail = tail
  BY <1>1, <1>2, <1>4, <1>5 DEF MemoLists
<1>7. view \in Views
  BY <1>1, <1>2, <1>3 DEF Views
<1>8. memos \notin {Undecodable, NoAdvert} /\ view \notin {Undecodable, NoAdvert}
  BY <1>6, <1>7, SentinelAssumption
<1>9. Readable(tail) = tail
  BY <1>4, ReadableIs
<1>10. ParseMemos(memos) = view
  BY <1>3, <1>6, <1>8, <1>9 DEF ParseMemos
<1> QED
  BY <1>6, <1>8, <1>10 DEF memos, tail, hint

LEMMA PublishedNames ==
  ASSUME NEW advert \in Adverts, Publishable(advert)
  PROVE  DeclaredPeer(TailOf(advert)) = advert.peer
<1> DEFINE tail == TailOf(advert)
           n == Len(advert.urls)
<1>1. /\ tail \in Seq(Terms) /\ n \in Nat \ {0} /\ DOMAIN tail = 1 .. Len(tail)
      /\ \A i \in 1 .. n : ~tail[i].prefixed
  BY TailIs
<1>2. CASE advert.peer = NoPeer
  <2>1. DOMAIN tail = 1 .. n
    BY <1>1, <1>2, TailIs
  <2> HIDE DEF tail
  <2>2. {j \in DOMAIN tail : tail[j].prefixed} = {}
    BY <1>1, <2>1
  <2> QED
    BY <1>1, <1>2, <2>2, DeclaredPeerIs DEF tail
<1>3. CASE advert.peer # NoPeer
  <2>1. advert.peer \in PeerIds /\ DOMAIN tail = 1 .. n + 1 /\ tail[n + 1] = ToTerm(advert.peer)
    BY <1>1, <1>3, TailIs
  <2>2. tail[n + 1].prefixed /\ tail[n + 1].rest = ToHex(advert.peer)
    BY <2>1, WrittenIsTerm
  <2> HIDE DEF tail, n
  <2>3. {j \in DOMAIN tail : tail[j].prefixed} = {n + 1} /\ n + 1 \in DOMAIN tail
    BY <1>1, <2>1, <2>2
  <2>4. DeclaredPeer(tail) = FromHex(tail[n + 1].rest)
    BY <1>1, <2>3, DeclaredPeerIs
  <2> QED
    BY <2>1, <2>2, <2>4, HexRoundTrip DEF tail
<1> QED
  BY <1>2, <1>3

LEMMA UrlsComeFirst ==
  ASSUME NEW advert \in Adverts, Publishable(advert)
  PROVE  IsPrefix(advert.urls, TailOf(advert))
<1> DEFINE tail == TailOf(advert)
           urls == advert.urls
           n == Len(urls)
<1>1. /\ tail \in Seq(Terms) /\ urls \in Seq(Terms) /\ n \in Nat /\ n <= Len(tail)
      /\ \A i \in 1 .. n : tail[i] = urls[i]
  BY TailIs, AdvertAssumption
<1> HIDE DEF tail, urls
<1>2. SubSeq(urls, 1, n) = SubSeq(tail, 1, n)
  BY <1>1
<1> QED
  BY <1>1, <1>2 DEF IsPrefix, tail, urls

(***************************************************************************)
(* A mirror coin's memos are what its bundle publishes: the advertisement  *)
(* asked for if create built it, a list that can be read or not otherwise. *)
(***************************************************************************)
Publishes(b) ==
  \A s \in b.spends : s.coin.asset = "dig" =>
    \A o \in s.outputs : IsMirror(o.coin) =>
      /\ o.memos \in MemoLists \union {Undecodable, NoAdvert}
      /\ b.verb = "create" =>
           /\ b.advert \in Adverts /\ Publishable(b.advert)
           /\ o.memos = MemosOf(b.by, b.advert)

PublishInv == StakeInv /\ \A b \in pending : Publishes(b)

LEMMA LockBundlePublishes ==
  ASSUME NEW wallet \in Wallets, NEW memos, NEW collateral, NEW fee,
         NEW digs \in SUBSET Purse(wallet, "dig"), digs # {},
         NEW fees \in SUBSET Purse(wallet, "xch"),
         NEW s \in LockBundle(memos, collateral, digs, fees, fee), s.coin.asset = "dig",
         NEW o \in s.outputs, IsMirror(o.coin)
  PROVE  o.memos = memos
<1> DEFINE payer == Teller(digs)
           locked == Output(Child(payer, Mirror, collateral), memos)
           change == Change(payer, Amount(digs) - collateral)
           fine == FeeSpends(fees, fee, digs \union fees)
<1>1. payer.puzzle = wallet
  BY PurseCoins DEF Teller
<1>2. \A t \in fine : t.coin \in fees
  BY DEF FeeSpends, Together, Spend
<1>3. s \notin fine
  BY <1>2, PurseCoins
<1>4. s \in Together(digs, payer, {locked} \union change, digs \union fees)
  BY <1>3 DEF LockBundle
<1>5. o \in {locked} \union change
  <2>1. s.outputs \subseteq {locked} \union change
    BY <1>4 DEF Together, Spend
  <2> QED
    BY <2>1
<1>6. o \notin change
  BY <1>1, WalletAssumption DEF Change, Output, Child, IsMirror
<1> QED
  BY <1>5, <1>6 DEF Output

LEMMA ReclaimPublishesNothing ==
  ASSUME NEW wallet \in Wallets, NEW mirror, NEW fee, NEW fees \in SUBSET Purse(wallet, "xch"),
         NEW s \in ReclaimBundle(mirror, wallet, fees, fee), s.coin.asset = "dig",
         NEW o \in s.outputs
  PROVE  ~IsMirror(o.coin)
<1> DEFINE returned == Returned(mirror, wallet, fee)
           fine == FeeSpends(fees, fee, ReclaimFeeRequires(mirror, fees))
<1>1. \A t \in fine : t.coin \in fees
  BY DEF FeeSpends, Together, Spend
<1>2. s \notin fine
  BY <1>1, PurseCoins
<1>3. o = returned
  BY <1>2 DEF ReclaimBundle, Spend
<1> QED
  BY <1>3, WalletAssumption DEF Returned, Output, Child, IsMirror

LEMMA PublishInvariance == Spec => []PublishInv
<1>1. Init => PublishInv
  BY StakeInitially DEF PublishInv, Init
<1>2. PublishInv /\ StakeInv' /\ [Next]_vars => PublishInv'
  <2> SUFFICES ASSUME PublishInv, [Next]_vars
               PROVE  \A b \in pending' : Publishes(b)
    BY DEF PublishInv
  <2>1. CASE Create
    <3>1. PICK wallet \in Wallets, advert \in Adverts, fee \in Fees :
           \E digs \in (SUBSET Purse(wallet, "dig")) \ {{}}, fees \in SUBSET Purse(wallet, "xch") :
            /\ Publishable(advert)
            /\ Build(wallet, "create", advert,
                     LockBundle(MemosOf(wallet, advert), advert.collateral, digs, fees, fee))
      BY <2>1 DEF Create
    <3>2. PICK digs \in (SUBSET Purse(wallet, "dig")) \ {{}}, fees \in SUBSET Purse(wallet, "xch") :
            /\ Publishable(advert)
            /\ Build(wallet, "create", advert,
                     LockBundle(MemosOf(wallet, advert), advert.collateral, digs, fees, fee))
      BY <3>1
    <3> DEFINE spends == LockBundle(MemosOf(wallet, advert), advert.collateral, digs, fees, fee)
               bundle == [by |-> wallet, verb |-> "create", advert |-> advert, spends |-> spends]
    <3>3. /\ bundle.by = wallet /\ bundle.advert = advert /\ bundle.spends = spends
          /\ pending' = pending \union {bundle}
      BY <3>2 DEF Build
    <3>4. \A s \in spends : s.coin.asset = "dig" =>
            \A o \in s.outputs : IsMirror(o.coin) => o.memos = MemosOf(wallet, advert)
      <4> DEFINE memos == MemosOf(wallet, advert)
                 collateral == advert.collateral
      <4>1. digs \in SUBSET Purse(wallet, "dig") /\ digs # {}
        OBVIOUS
      <4> HIDE DEF memos, collateral
      <4>2. \A s \in LockBundle(memos, collateral, digs, fees, fee) : s.coin.asset = "dig" =>
              \A o \in s.outputs : IsMirror(o.coin) => o.memos = memos
        BY <4>1, LockBundlePublishes
      <4> QED
        BY <4>2 DEF memos, collateral
    <3>5. MemosOf(wallet, advert) \in MemoLists
      BY <3>2, PublishedReads
    <3> HIDE DEF spends, bundle
    <3>6. Publishes(bundle)
      BY <3>2, <3>3, <3>4, <3>5 DEF Publishes
    <3> QED
      BY <3>3, <3>6 DEF PublishInv
  <2>2. CASE PublishOtherwise
    <3>1. PICK wallet \in Wallets, memos \in Memos :
           \E payer \in Purse(wallet, "dig") :
            Build(wallet, "publish", NoAdvert, LockBundle(memos, payer.amount, {payer}, {}, 0))
      BY <2>2 DEF PublishOtherwise
    <3>2. PICK payer \in Purse(wallet, "dig") :
            Build(wallet, "publish", NoAdvert, LockBundle(memos, payer.amount, {payer}, {}, 0))
      BY <3>1
    <3> DEFINE spends == LockBundle(memos, payer.amount, {payer}, {}, 0)
               bundle == [by |-> wallet, verb |-> "publish", advert |-> NoAdvert, spends |-> spends]
    <3>3. /\ bundle.verb = "publish" /\ bundle.spends = spends
          /\ pending' = pending \union {bundle}
      BY <3>2 DEF Build
    <3>4. \A s \in spends : s.coin.asset = "dig" =>
            \A o \in s.outputs : IsMirror(o.coin) => o.memos = memos
      <4>1. /\ {payer} \in SUBSET Purse(wallet, "dig") /\ {payer} # {}
            /\ {} \in SUBSET Purse(wallet, "xch")
        OBVIOUS
      <4> QED
        BY <4>1, LockBundlePublishes
    <3> HIDE DEF spends, bundle
    <3>5. Publishes(bundle)
      BY <3>3, <3>4, MemoAssumption DEF Publishes
    <3> QED
      BY <3>3, <3>5 DEF PublishInv
  <2>3. CASE Reclaim
    <3>1. PICK wallet \in Wallets, o \in Mirrors, fee \in Fees :
           \E fees \in SUBSET Purse(wallet, "xch") :
            Build(wallet, "reclaim", NoAdvert, ReclaimBundle(o.coin, wallet, fees, fee))
      BY <2>3 DEF Reclaim
    <3>2. PICK fees \in SUBSET Purse(wallet, "xch") :
            Build(wallet, "reclaim", NoAdvert, ReclaimBundle(o.coin, wallet, fees, fee))
      BY <3>1
    <3> DEFINE spends == ReclaimBundle(o.coin, wallet, fees, fee)
               bundle == [by |-> wallet, verb |-> "reclaim", advert |-> NoAdvert, spends |-> spends]
    <3>3. bundle.spends = spends /\ pending' = pending \union {bundle}
      BY <3>2 DEF Build
    <3>4. \A s \in spends : s.coin.asset = "dig" => \A q \in s.outputs : ~IsMirror(q.coin)
      BY ReclaimPublishesNothing
    <3> HIDE DEF spends, bundle
    <3>5. Publishes(bundle)
      BY <3>3, <3>4 DEF Publishes
    <3> QED
      BY <3>3, <3>5 DEF PublishInv
  <2>4. CASE Confirm \/ Reorg \/ UNCHANGED vars
    BY <2>4 DEF PublishInv, Confirm, Reorg, vars
  <2> QED
    BY <2>1, <2>2, <2>3, <2>4 DEF Next
<1> QED
  BY <1>1, <1>2, StakeInvariance, PTL DEF Spec

\* Every mirror coin on the chain is the output of a spend of the ring of a
\* bundle that its owner built.
LEMMA MirrorsWereBuilt ==
  ASSUME PublishInv, NEW m \in Mirrors
  PROVE  \E b \in pending : \E s \in b.spends : m \in s.outputs
<1>1. m \in Outputs /\ IsMirror(m.coin)
  BY DEF Mirrors, Unspent
<1>2. \A c \in Genesis : ~IsMirror(Output(c, Hinted(c.puzzle)).coin)
  BY GenesisAssumption, WalletAssumption DEF Output, IsMirror
<1>3. PICK s \in Spends(blocks) : m \in s.outputs
  BY <1>1, <1>2 DEF Outputs
<1> QED
  BY <1>3, ChainOfSpends DEF PublishInv, AllSpends

LEMMA MirrorOfBundle ==
  ASSUME PublishInv, NEW m \in Mirrors, NEW b \in pending, NEW s \in b.spends, m \in s.outputs
  PROVE  /\ Holder(m.coin) = b.by /\ b.by \in Wallets
         /\ m.memos \in MemoLists \union {Undecodable, NoAdvert}
         /\ b.verb = "create" =>
              /\ b.advert \in Adverts /\ Publishable(b.advert)
              /\ m.memos = MemosOf(b.by, b.advert)
<1>1. IsMirror(m.coin) /\ m.coin.asset = "dig"
  BY MirrorsAreDig DEF PublishInv
<1>2. /\ Holder(m.coin) = Holder(s.coin) /\ Holder(s.coin) = b.by /\ b.by \in Wallets
      /\ m.coin.asset = s.coin.asset
  BY DEF PublishInv, StakeInv, LifeInv, WellBuilt, Keeps, Conserves
<1> QED
  BY <1>1, <1>2 DEF PublishInv, Publishes

\* What create was asked to publish is what its mirror coin says, under the
\* namespace of whom it belongs to, wherever its spend was confirmed.
THEOREM WhatIsPublishedIsDeclared == Spec => []PublishedIsDeclared
<1>1. PublishInv => PublishedIsDeclared
  <2> SUFFICES ASSUME PublishInv, NEW m \in Mirrors, NEW b \in pending, b.verb = "create",
                      NEW s \in b.spends, m \in s.outputs
               PROVE  LET view == ParseMemos(m.memos)
                      IN  /\ view \notin {NoAdvert, Undecodable}
                          /\ Advertises(view, Holder(m.coin), b.advert.asked)
                          /\ DeclaredPeer(view.urls) = b.advert.peer
                          /\ IsPrefix(b.advert.urls, view.urls)
    BY DEF PublishedIsDeclared, Published
  <2> DEFINE view == ParseMemos(m.memos)
  <2>1. /\ Holder(m.coin) = b.by /\ b.by \in Wallets
        /\ b.advert \in Adverts /\ Publishable(b.advert)
        /\ m.memos = MemosOf(b.by, b.advert)
    BY MirrorOfBundle
  <2>2. /\ view \notin {NoAdvert, Undecodable}
        /\ view.declared = b.advert.asked /\ view.urls = TailOf(b.advert)
        /\ view.hint = MirrorHint(b.advert.asked.store, b.advert.asked.root, b.by, b.advert.asked.epoch)
    BY <2>1, PublishedReads
  <2>3. Advertises(view, Holder(m.coin), b.advert.asked)
    BY <2>1, <2>2 DEF Advertises
  <2> QED
    BY <2>1, <2>2, <2>3, PublishedNames, UrlsComeFirst
<1> QED
  BY <1>1, PublishInvariance, PTL

\* What create locks is never stuck, and never anybody else's: reclaim takes
\* the coin that create published and whoever created it; and of any coin that
\* it takes, its owner, whatever fee it can afford, has a bundle that the chain
\* accepts whole or without the fee, and nobody else has one of any mirror coin.
THEOREM ReclaimIsAlwaysOpen == Spec => []AlwaysReclaimable
<1>1. ASSUME PublishInv, NEW m \in Mirrors, NEW b \in pending, Published(b, m)
      PROVE  MayReclaim(b.by, m)
  <2>1. b.verb = "create"
    BY <1>1 DEF Published
  <2>2. PICK s \in b.spends : m \in s.outputs
    BY <1>1 DEF Published
  <2>3. /\ Holder(m.coin) = b.by /\ b.by \in Wallets
        /\ b.advert \in Adverts /\ Publishable(b.advert)
        /\ m.memos = MemosOf(b.by, b.advert)
    BY <1>1, <2>1, <2>2, MirrorOfBundle
  <2>4. ParseMemos(m.memos) \notin {NoAdvert, Undecodable}
    BY <2>3, PublishedReads
  <2> QED
    BY <2>3, <2>4 DEF MayReclaim, IsMirrorCoin, Mirrors
<1>2. ASSUME StakeInv, NEW m \in Mirrors, NEW wallet \in Wallets, NEW fee \in Fees,
             NEW fees \in SUBSET Purse(wallet, "xch")
      PROVE  LET spends == ReclaimBundle(m.coin, wallet, fees, fee)
                 bundle == [by |-> wallet, spends |-> spends]
                 alone == {s \in spends : s.coin = m.coin}
             IN  /\ MayReclaim(wallet, m) => Accepted(spends, bundle) /\ Accepted(alone, bundle)
                 /\ Accepted(alone, bundle) => wallet = Holder(m.coin)
  <2> DEFINE spends == ReclaimBundle(m.coin, wallet, fees, fee)
             bundle == [by |-> wallet, spends |-> spends]
             alone == {s \in spends : s.coin = m.coin}
             release == Spend(m.coin, {Returned(m.coin, wallet, fee)}, {})
  <2>1. ASSUME Accepted(alone, bundle)
        PROVE  wallet = Holder(m.coin)
    <3>1. release \in alone /\ release.coin = m.coin
      BY DEF ReclaimBundle, Spend
    <3>2. Admissible(release, alone, bundle)
      BY <2>1, <3>1 DEF Accepted, Consistent
    <3> QED
      BY <3>1, <3>2 DEF Admissible
  <2>2. ASSUME MayReclaim(wallet, m)
        PROVE  Accepted(spends, bundle) /\ Accepted(alone, bundle)
    BY <1>2, <2>2, ReclaimIsAccepted DEF MayReclaim
  <2> QED
    BY <2>1, <2>2
<1>3. PublishInv => AlwaysReclaimable
  <2> SUFFICES ASSUME PublishInv PROVE AlwaysReclaimable
    OBVIOUS
  <2>1. StakeInv
    BY DEF PublishInv
  <2>2. \A m \in Mirrors : \A bundle \in pending :
          Published(bundle, m) => MayReclaim(bundle.by, m)
    BY <1>1
  <2>3. \A m \in Mirrors, wallet \in Wallets, fee \in Fees :
          \A fees \in SUBSET Purse(wallet, "xch") :
            LET spends == ReclaimBundle(m.coin, wallet, fees, fee)
                bundle == [by |-> wallet, spends |-> spends]
                alone == {s \in spends : s.coin = m.coin}
            IN  /\ MayReclaim(wallet, m) => Accepted(spends, bundle) /\ Accepted(alone, bundle)
                /\ Accepted(alone, bundle) => wallet = Holder(m.coin)
    BY <1>2, <2>1
  <2> QED
    BY <2>2, <2>3, Zenon DEF AlwaysReclaimable
<1> QED
  BY <1>3, PublishInvariance, PTL

\* One stake is credited to at most one peer: to the one its only readable
\* declaration spells, whoever published it, and however a claim spells it.
THEOREM CreditIsNeverAmbiguous == Spec => []CreditIsUnambiguous
<1>1. PublishInv => CreditIsUnambiguous
  <2> SUFFICES ASSUME PublishInv, NEW m \in Mirrors,
                      ParseMemos(m.memos) \notin {NoAdvert, Undecodable}, NEW raw \in Claims
               PROVE  LET view == ParseMemos(m.memos)
                      IN  DeclaresPeer(view, raw) <=>
                            \E i \in DOMAIN view.urls :
                              /\ {j \in DOMAIN view.urls : view.urls[j].prefixed} = {i}
                              /\ WellSpelt(raw)
                              /\ Lowered(view.urls[i].rest) = Lowered(raw)
    BY DEF CreditIsUnambiguous
  <2> DEFINE view == ParseMemos(m.memos)
             urls == view.urls
             prefixed == {j \in DOMAIN urls : urls[j].prefixed}
  <2>1. m.memos \in MemoLists
    <3>1. m.memos \in MemoLists \union {Undecodable, NoAdvert}
      BY MirrorsWereBuilt, MirrorOfBundle
    <3> QED
      BY <3>1 DEF ParseMemos
  <2>2. urls \in Seq(Terms)
    <3>1. m.memos.tail \in Seq(Terms \union {NotText})
      BY <2>1 DEF MemoLists
    <3>2. urls = Readable(m.memos.tail)
      BY DEF ParseMemos
    <3> QED
      BY <3>1, <3>2, ReadableIs
  <2>3. raw \in Seq(Bytes)
    <3>1. PICK memos \in Memos \ {Undecodable, NoAdvert} :
            \E t \in ToSet(memos.tail) : Text(t) /\ raw = t.rest
      BY DEF Claims
    <3>2. PICK t \in ToSet(memos.tail) : Text(t) /\ raw = t.rest
      BY <3>1
    <3>3. memos.tail \in Seq(Terms \union {NotText})
      BY MemoAssumption DEF MemoLists
    <3>4. t \in Terms
      BY <3>2, <3>3 DEF ToSet, Text
    <3> QED
      BY <3>2, <3>4 DEF Terms
  <2>4. \A i \in DOMAIN urls : urls[i].rest \in Seq(Bytes)
    <3>1. \A i \in DOMAIN urls : urls[i] \in Terms
      BY <2>2
    <3> QED
      BY <3>1 DEF Terms
  <2>5. DeclaresPeer(view, raw) <=> DeclaredPeer(urls) # NoPeer /\ FromHex(raw) = DeclaredPeer(urls)
    BY DEF DeclaresPeer, Names
  <2> HIDE DEF view, urls
  <2>6. ASSUME NEW i \in DOMAIN urls, prefixed = {i}
        PROVE  DeclaresPeer(view, raw) <=> WellSpelt(raw) /\ Lowered(urls[i].rest) = Lowered(raw)
    <3>1. DeclaredPeer(urls) = FromHex(urls[i].rest)
      BY <2>2, <2>6, DeclaredPeerIs
    <3>2. WellSpelt(raw) <=> FromHex(raw) # NoPeer
      BY <2>3, SpeltIsRead
    <3>3. FromHex(raw) # NoPeer =>
            (FromHex(raw) = FromHex(urls[i].rest) <=> Lowered(raw) = Lowered(urls[i].rest))
      BY <2>3, <2>4, SpellingsOfOnePeer, SentinelAssumption
    <3> QED
      BY <2>5, <3>1, <3>2, <3>3
  <2>7. ASSUME \A i \in DOMAIN urls : prefixed # {i}
        PROVE  ~DeclaresPeer(view, raw)
    BY <2>2, <2>5, <2>7, DeclaredPeerIs
  <2> QED
    BY <2>6, <2>7 DEF view, urls
<1> QED
  BY <1>1, PublishInvariance, PTL
=============================================================================
