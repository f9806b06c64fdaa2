---------------------------- MODULE MCOrderedSet ----------------------------
(***************************************************************************)
(* An instance of OrderedSetScan for TLC: one process on each of two       *)
(* nodes, each of them on the mapping of its own server; c1 also scans.    *)
(***************************************************************************)
EXTENDS OrderedSetScan

CONSTANTS c1, c2

OnePerNode == [c \in Clients |-> IF c = c1 THEN 0 ELSE 1]
Everywhere == [c \in Clients |-> TRUE]

\* Keys 0 to 2 are at home in server 0, whose segment holds two of them, key
\* 3 in server 1.
Homes == [k \in Keys |-> IF k = 3 THEN 65539 ELSE 65538]

\* Contains(1, 1) and Contains(1, 2).
OneOrTwo == {<<1, 1>>, <<1, 2>>}
=============================================================================
