------------------------------ MODULE MCCensus ------------------------------
(***************************************************************************)
(* Census on small populations, on a chain that stands still: OrderInit    *)
(* varies what the coins are and how a truthful source lists them,         *)
(* LiarInit what a source says of the coins of the one suspect, x.         *)
(* EpochCensus has the chain that moves.                                   *)
(***************************************************************************)
EXTENDS Census

CONSTANTS p, q, s, x, r1, r2

Here(root) == [root |-> root, epoch |-> prior.epoch, proven |-> TRUE]
Elsewhere == [Here(r1) EXCEPT !.epoch = @ - 1]
Unproven == [Here(r1) EXCEPT !.proven = FALSE]

Mint(creators, amounts, foreigners) ==
  [c \in Coins |-> [parent |-> creators[c],
                    amount |-> amounts[c],
                    foreign |-> c \in foreigners]]

\* The owner of the coins that are not varied; which one is all the same.
Holder == CHOOSE o \in Owners : TRUE

\* Two of the coins are created by one spend, or each by its own.
OrderCoins ==
  {Mint(<<p, p, q>>, a, {}) : a \in {<<2, 3, 2>>, <<3, 2, 3>>, <<1, 3, 3>>}}
  \union {Mint(<<p, p, q>>, <<2, 2, 3>>, {3})}
  \union {Mint(<<p, q, s>>, a, {}) : a \in {<<2, 2, 2>>, <<2, 3, 2>>}}

OrderInit ==
  /\ coin \in OrderCoins
  /\ kind \in [Parents -> Owners \union {Coinbase, Garbled}]
  /\ kind[s] = Holder /\ kind[x] = Holder
  /\ kind[p] \in {Holder, Garbled}
  /\ kind[q] # Garbled
  /\ \/ prior = [epoch |-> 1, required |-> 2]
     \/ prior = [epoch |-> MaxEpoch, required |-> 1] /\ kind[p] = Garbled
  /\ at = 1
  /\ tip \in {1, 2}
  /\ made \in {[y \in Parents |-> IF y = q THEN h ELSE 0] : h \in {NoHeight, 1, 2}}
  /\ spent \in {[c \in Coins |-> IF c = 3 THEN h ELSE NoHeight] : h \in {NoHeight, 1, 2}}
  /\ advert \in {<<a, Here(r1), b>> : a \in {Here(r1), NotAMirror},
                                      b \in {Here(r1), Here(r2), Elsewhere, Unproven}}
  /\ Init

\* The coins of x are lied about. They share a triple with each other, or
\* with the coin of q.
LiarInit ==
  /\ coin \in {Mint(<<x, x, q>>, <<2, 3, 2>>, {}), Mint(<<x, x, q>>, <<3, 2, 3>>, {}),
              Mint(<<x, q, s>>, <<2, 2, 2>>, {})}
  /\ kind \in [Parents -> Owners \union {Coinbase, Garbled}]
  /\ \A y \in Parents \ {x} : kind[y] = Holder
  /\ prior = [epoch |-> 1, required |-> 2]
  /\ at = 0 /\ tip = 1
  /\ made \in {[y \in Parents |-> IF y = x THEN h ELSE 0] : h \in {NoHeight, 0, 1}}
  /\ spent \in {[c \in Coins |-> IF c = 1 THEN h ELSE NoHeight] : h \in {NoHeight, 0}}
  /\ advert \in {<<a, Here(r1), b>> : a \in {Here(r1), NotAMirror}, b \in {Here(r1), Here(r2)}}
  /\ Init

\* A source that lies repeats no record here: its lies about two records of one
\* coin would be the same.
MCNext == Step /\ (at = 0 => examined' <= Cardinality(Coins) /\ \A c \in Coins : todo'[c] <= 1)

MCSpec == (OrderInit \/ LiarInit) /\ [][MCNext]_vars
=============================================================================
