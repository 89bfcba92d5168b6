-------------------------- MODULE MCMirrorLifecycle --------------------------
(***************************************************************************)
(* MirrorLifecycle with two wallets, one of which has two DIG coins and an *)
(* XCH coin, and peer ids of one byte.                                     *)
(***************************************************************************)
EXTENDS MirrorLifecycle

Origin == [asset |-> "none"]

Minted(wallet, asset, amount) ==
  [parent |-> Origin, puzzle |-> wallet, asset |-> asset, amount |-> amount]

MCGenesis ==
  {Minted(1, "dig", 1), Minted(1, "dig", 2), Minted(1, "xch", 2), Minted(2, "dig", 1)}

\* The peer 10, as "0a" and as "0A", and what looks like one, "0g".
Lower == <<48, 97>>
Upper == <<48, 65>>
Misspelt == <<48, 103>>

Url == [prefixed |-> FALSE, rest |-> Lower]
Declaring(raw) == [prefixed |-> TRUE, rest |-> raw]

Bond == [store |-> 0, root |-> 0, epoch |-> 1]
Advert(urls, peer, collateral) ==
  [asked |-> Bond, urls |-> urls, peer |-> peer, collateral |-> collateral]

MCAdverts ==
  {Advert(<<Url>>, <<10>>, 2),
   Advert(<<Url>>, NoPeer, 1),
   Advert(<<Url, Declaring(Upper)>>, <<10>>, 1),
   Advert(<<>>, <<10>>, 1),
   Advert(<<>>, NoPeer, 1),
   Advert(<<Url>>, NoPeer, 0)}

Foreign(tail) == [hint |-> 2, declared |-> Bond, tail |-> tail]

MCMemos ==
  {Foreign(<<NotText, Declaring(Upper)>>),
   Foreign(<<Declaring(Misspelt), Declaring(Lower)>>),
   Foreign(<<NotText>>),
   Undecodable}
=============================================================================
