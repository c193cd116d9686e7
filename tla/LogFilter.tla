----------------------------- MODULE LogFilter -----------------------------
(***************************************************************************)
(* The matching of logs with the criteria of a filter                      *)
(* (rpc/namespaces/ethereum/eth/filters/utils.go).  Criteria have optional *)
(* bounds on the block number, where a negative bound (latest, pending) is *)
(* none, a set of addresses, empty for any, and for each topic position a  *)
(* set of alternatives, empty for any.                                     *)
(***************************************************************************)
EXTENDS Integers, Sequences

\* Whether a log is kept: bounds, addresses, then the topics by position.
Matches(log, crit) ==
  /\ crit.fromBlock >= 0 => crit.fromBlock <= log.blockNumber
  /\ crit.toBlock >= 0 => log.blockNumber <= crit.toBlock
  /\ crit.addresses # {} => log.address \in crit.addresses
  /\ Len(crit.topics) <= Len(log.topics)
  /\ \A i \in DOMAIN crit.topics : crit.topics[i] # {} => log.topics[i] \in crit.topics[i]

\* A mutant of BloomFilter: every address asked for must be in the bloom.
BloomNeedsAll(bits, bloom, crit) ==
  /\ \A address \in crit.addresses : bits[address] \subseteq bloom
  /\ \A i \in DOMAIN crit.topics :
       crit.topics[i] # {} => \E topic \in crit.topics[i] : bits[topic] \subseteq bloom

\* bloomFilter: whether a block with this bloom may have a log that matches.
\* bits gives the bits of an address or topic in a bloom; values may share bits.
BloomFilter(bits, bloom, crit) ==
  /\ crit.addresses # {} => \E address \in crit.addresses : bits[address] \subseteq bloom
  /\ \A i \in DOMAIN crit.topics :
       crit.topics[i] # {} => \E topic \in crit.topics[i] : bits[topic] \subseteq bloom

FilterLogs(logs, crit) == SelectSeq(logs, LAMBDA log : Matches(log, crit))
=============================================================================
