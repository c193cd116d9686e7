----------------------------- MODULE MCLogQuery -----------------------------
(* Instances of LogQuery for TLC. *)
EXTENDS LogQuery

\* The blooms of A and t collide in a bit; that of B is covered by the two.
MCBits == [A |-> {1, 2}, B |-> {2, 3}, t |-> {2}, u |-> {3, 4}]

MCBlockLogs == {<< >>,
                <<[address |-> "A", topics |-> <<"t">>]>>,
                <<[address |-> "B", topics |-> <<"u">>], [address |-> "A", topics |-> <<"u", "t">>]>>}

MCCriteria == [fromBlock : {-1, 0, 1, 2, 4}, toBlock : {-1, 0, 2, 3, 5},
               addresses : {{}, {"A"}, {"A", "B"}}, topics : {<< >>, <<{"u"}>>, <<{}, {"t"}>>}]
=============================================================================
