------------------------------- MODULE MCQuery -------------------------------
(***************************************************************************)
(* Query on two coins, in every combination of memos that a caller asking  *)
(* for owner 1, store 0, root 0 and epoch 1 must tell apart.               *)
(***************************************************************************)
EXTENDS Query

CONSTANTS p1, p2

Url == [prefixed |-> FALSE, rest |-> <<>>]

Ad(hint, store, epoch, tail) ==
  [hint |-> hint, declared |-> [store |-> store, root |-> 0, epoch |-> epoch], tail |-> tail]

\* The advertisement asked about as owner 1 and as owner 2 publish it, a coin
\* of another store whose epoch was solved for the first one's hint, and one
\* under that hint whose tail is not text.
MCMemos ==
  {Ad(2, 0, 1, <<NotText, Url>>), Ad(3, 0, 1, <<Url>>), Ad(2, 1, 0, <<Url>>),
   Ad(2, 0, 1, <<NotText>>), Undecodable}

MCInit ==
  /\ coin \in {[c \in Coins |-> [parent |-> creators[c], memos |-> memos[c],
                                 foreign |-> c = 2 /\ creators[c] = p2 /\ memos[c] = Undecodable]] :
                 creators \in {<<p1, p1>>, <<p1, p2>>},
                 memos \in [Coins -> Memos]}
  /\ spend \in [Parents -> {[kind |-> "runs", owner |-> 1, dig |-> TRUE],
                            [kind |-> "runs", owner |-> 2, dig |-> TRUE],
                            [kind |-> "runs", owner |-> 1, dig |-> FALSE],
                            [kind |-> "malformed", owner |-> 2, dig |-> TRUE],
                            [kind |-> "reward", owner |-> 2, dig |-> FALSE]}]
  /\ asked \in {[verb |-> v, store |-> 0, root |-> 0, owner |-> 1, epoch |-> 1] :
                  v \in {"list", "discover"}}
  /\ Init

MCSpec == MCInit /\ [][Next]_vars
=============================================================================
