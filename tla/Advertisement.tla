---------------------------- MODULE Advertisement ----------------------------
(***************************************************************************)
(* What a mirror coin publishes and how it is read back: the morph of      *)
(* src/namespace.rs, the memo list of src/coin.rs and the peer declaration *)
(* of src/declaration.rs. Pure operators; Query and MirrorLifecycle use    *)
(* them. Ids and roots are the integers that the morph reads them as; a    *)
(* peer id and its spelling are the bytes they are, since the two spellings*)
(* of one id are what the code has to tell from two ids.                   *)
(***************************************************************************)
EXTENDS Integers, Sequences

CONSTANTS
  PeerBytes,    \* the width of a peer id in bytes
  NotText,      \* a memo entry that is not UTF-8
  Undecodable,  \* memos that are no list of atoms
  NoAdvert,     \* what memos that were read and are not mirror-shaped say
  NoPeer        \* no peer declared, or none that reads

ASSUME PeerAssumption == PeerBytes \in Nat

(***************************************************************************)
(* mirror_hint: the sum of the four terms, hashed under a tag. The hash is *)
(* left out, as it is injective; the sum is not.                           *)
(***************************************************************************)
MirrorHint(store, root, owner, epoch) == store + root + owner + epoch

Bonds == [store : Int, root : Int, epoch : Int]

(***************************************************************************)
(* Peer ids and the hexadecimal they are written in, as ASCII bytes.       *)
(***************************************************************************)
Bytes == 0 .. 255
PeerIds == [1 .. PeerBytes -> Bytes]

\* What a spelling is, without the arithmetic that reads it.
Digits == 48 .. 57 \union 97 .. 102
Lowered(raw) == [i \in DOMAIN raw |-> IF raw[i] \in 65 .. 70 THEN raw[i] + 32 ELSE raw[i]]
WellSpelt(raw) ==
  Len(raw) = 2 * PeerBytes /\ \A i \in DOMAIN raw : Lowered(raw)[i] \in Digits

\* The value of one digit, -1 for any other byte.
HexDigit(byte) ==
  CASE byte \in 48 .. 57  -> byte - 48
    [] byte \in 97 .. 102 -> byte - 87
    [] byte \in 65 .. 70  -> byte - 55
    [] OTHER              -> -1

LowerDigit(value) == IF value < 10 THEN value + 48 ELSE value + 87

\* PeerDeclaration::from_hex, NoPeer where it errs.
FromHex(raw) ==
  IF Len(raw) = 2 * PeerBytes /\ \A i \in DOMAIN raw : HexDigit(raw[i]) >= 0
  THEN [i \in 1 .. PeerBytes |-> 16 * HexDigit(raw[2 * i - 1]) + HexDigit(raw[2 * i])]
  ELSE NoPeer

ToHex(peer) ==
  [i \in 1 .. 2 * PeerBytes |->
     LET byte == peer[(i + 1) \div 2]
     IN  LowerDigit(IF i % 2 = 1 THEN byte \div 16 ELSE byte % 16)]

\* PeerDeclaration::names: what does not parse names nobody.
Names(peer, raw) == peer # NoPeer /\ FromHex(raw) = peer

(***************************************************************************)
(* The advertised tail: each term either carries exactly the declaration   *)
(* prefix, with `rest` after it, or is an ordinary string.                 *)
(***************************************************************************)
ToTerm(peer) == [prefixed |-> TRUE, rest |-> ToHex(peer)]

NoTerm == [found |-> "none"]
OneTerm(peer) == [found |-> "one", peer |-> peer]
TwoTerms == [found |-> "two"]

\* Mutation: a second declaration that does not parse is not counted.
CountReadable(seen, term) ==
  IF seen = TwoTerms \/ ~term.prefixed \/ FromHex(term.rest) = NoPeer THEN seen
  ELSE IF seen = NoTerm THEN OneTerm(FromHex(term.rest)) ELSE TwoTerms

\* One turn of the loop of declared_peer, which a second term ends.
Count(seen, term) ==
  IF seen = TwoTerms \/ ~term.prefixed THEN seen
  ELSE IF seen = NoTerm THEN OneTerm(FromHex(term.rest)) ELSE TwoTerms

DeclaredPeer(urls) ==
  LET scan[k \in 0 .. Len(urls)] ==
        IF k = 0 THEN NoTerm ELSE Count(scan[k - 1], urls[k])
      seen == scan[Len(urls)]
  IN  IF seen.found = "one" THEN seen.peer ELSE NoPeer

(***************************************************************************)
(* Memos, and the view MirrorCoin keeps of them.                           *)
(***************************************************************************)
Terms == [prefixed : BOOLEAN, rest : Seq(Bytes)]
MemoLists == [hint : Int, declared : Bonds, tail : Seq(Terms \union {NotText})]
Views == [hint : Int, declared : Bonds, urls : Seq(Terms)]

ASSUME SentinelAssumption ==
  /\ NotText \notin Terms /\ NoPeer \notin PeerIds
  /\ {Undecodable, NoAdvert} \cap (MemoLists \union Views) = {}

Text(entry) == entry # NotText

\* The entries that are text, in their order.
Readable(tail) ==
  LET kept[i \in 0 .. Len(tail)] ==
        IF i = 0 THEN <<>>
        ELSE IF Text(tail[i]) THEN Append(kept[i - 1], tail[i]) ELSE kept[i - 1]
  IN  kept[Len(tail)]

\* parse_memos of a list whose first four entries have their widths; lists of
\* another shape are NoAdvert, and of no shape at all Undecodable.
ParseMemos(memos) ==
  IF memos \in {Undecodable, NoAdvert} THEN memos
  ELSE IF Readable(memos.tail) = <<>> THEN NoAdvert
  ELSE [hint |-> memos.hint, declared |-> memos.declared,
        urls |-> Readable(memos.tail)]

\* Mutation: the hint alone decides.
AdvertisesByHint(view, owner, asked) ==
  view.hint = MirrorHint(asked.store, asked.root, owner, asked.epoch)

\* Mutation: the declaration alone decides.
AdvertisesByDeclaration(view, owner, asked) == view.declared = asked

\* MirrorCoin::advertises: both checks, the owner from the lineage proof.
Advertises(view, owner, asked) ==
  /\ view.declared = asked
  /\ view.hint = MirrorHint(asked.store, asked.root, owner, asked.epoch)

\* MirrorCoin::declares_peer, for the text of a claimed peer id.
DeclaresPeer(view, raw) == Names(DeclaredPeer(view.urls), raw)
=============================================================================
