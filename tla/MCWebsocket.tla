---------------------------- MODULE MCWebsocket ----------------------------
(* Instances of Websocket for TLC: a subscription to every item, and one to *)
(* logs that match in some chunks in part and in others not at all.         *)
EXTENDS Websocket

CONSTANTS s1, s2, MaxShared

MCWanted == [r \in {s1, s2} |-> IF r = s1 THEN 1..MaxItems ELSE {2, 3}]

\* Subscriptions meet at the connection only: with more than MaxShared items
\* there is one of them, which the stream may overrun.
Apart == added > MaxShared => \E r \in Subscribers : \A o \in Subscribers \ {r} : pc[o] = "idle"

MCNext == WNext /\ Apart'

MCSpec == WInit /\ [][MCNext]_allVars /\ WFairness
=============================================================================
