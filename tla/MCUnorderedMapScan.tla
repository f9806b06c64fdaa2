------------------------- MODULE MCUnorderedMapScan -------------------------
(***************************************************************************)
(* An instance of UnorderedMapScan for TLC: c1 scans on server 0's node    *)
(* and c2 on server 1's, each against the other's Puts and Erases.         *)
(***************************************************************************)
EXTENDS UnorderedMapScan

CONSTANTS c1, c2, k1, k2, v1, v2

OnePerNode == [c \in Clients |-> IF c = c1 THEN 0 ELSE 1]
Everywhere == [c \in Clients |-> TRUE]

\* Hashes on both sides of 2^16, and a home of its own for each key.
OwnHomes == [k \in Keys |-> IF k = k1 THEN 65536 ELSE 65539]
=============================================================================
