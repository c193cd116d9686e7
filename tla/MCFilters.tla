----------------------------- MODULE MCFilters -----------------------------
(* An instance of Filters for TLC. *)
EXTENDS Filters

CONSTANTS f1, f2, f3

MCIds == {f1, f2, f3}

\* The log with id n was emitted in block n; A and B emit two logs each in turn.
MCLogOf == [n \in 1..MaxItems |-> [blockNumber |-> n, address |-> IF n % 4 \in {1, 2} THEN "A" ELSE "B", topics |-> <<"t">>]]

Anything == [fromBlock |-> -1, toBlock |-> -1, addresses |-> {}, topics |-> << >>]

MCCriteria == {Anything, [Anything EXCEPT !.addresses = {"B"}, !.topics = <<{"t"}>>]}

\* Ids are given out in order.
InOrder == used \in {{}, {f1}, {f1, f2}, {f1, f2, f3}}

\* Filters meet at the mutex and the cap and not in the streams: the instance
\* either publishes, to one stream with a single filter, or has several filters.
Apart ==
  LET busy == {t \in Types : streams[t].added > 0}
      made == {filters[id].typ : id \in Installed}
  IN  IF Cardinality(used) <= 1 THEN Cardinality(busy \cup made) <= 1
      ELSE busy = {} /\ \A id \in Installed : filters[id].typ = "block" /\ filters[id].crit = Anything

MCSpec == Init /\ [][Next /\ InOrder' /\ Apart']_vars /\ Fairness
=============================================================================
