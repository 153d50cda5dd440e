------------------------------ MODULE MCReplSet ------------------------------
(* MongoReplSet for TLC: the operations are alike, and connects that overlap are two. *)
EXTENDS MongoReplSet, TLC

OpsAlike == Permutations(Ops)

\* Bound: what follows three connects that ask at the same time is not explored.
TwoAsk ==
  Cardinality({c \in DOMAIN connects : \E s \in Servers : sockets[c][s] \in Waiting}) < 3
=============================================================================
