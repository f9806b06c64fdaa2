--------------------------- MODULE MCUnorderedMap ---------------------------
(***************************************************************************)
(* Instances of UnorderedMap for TLC.                                      *)
(***************************************************************************)
EXTENDS UnorderedMap

CONSTANTS c1, c2, k1, k2, v1, v2

\* One process on each node, so that every shard has a local and a remote
\* caller.
OnePerNode == [c \in Clients |-> IF c = c1 THEN 0 ELSE 1]

Everywhere == [c \in Clients |-> TRUE]

\* c1 shares the mapping of its server, c2 uses RPCs even for its own.
OnlyC1 == [c \in Clients |-> c = c1]

\* Hashes on both sides of 2^16.  With two servers both keys are at home in
\* server 0, and a segment of one node is exhausted by the first of them.
SharedHome == [k \in Keys |-> IF k = k1 THEN 65536 ELSE 2]

\* With three servers Put takes 65536 to server 0, Get to server 1.
OwnHomes == [k \in Keys |-> IF k = k1 THEN 65536 ELSE 65539]
=============================================================================
