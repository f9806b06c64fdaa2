---------------------------- MODULE MCOrderedMap ----------------------------
(***************************************************************************)
(* An instance of OrderedMap for TLC: one process on the mapping of        *)
(* server 1, another that uses RPCs; there are three servers, which do not *)
(* divide 2^16.                                                            *)
(***************************************************************************)
EXTENDS OrderedMap

CONSTANTS c1, c2, v1, v2

OneAndZero == [c \in Clients |-> IF c = c1 THEN 1 ELSE 0]
OnlyC1 == [c \in Clients |-> c = c1]

\* All keys are at home in server 1, although 65536 truncates to 0; the
\* segment holds two of three.
Homes == [k \in Keys |-> IF k = 1 THEN 65536 ELSE 1]

\* Contains(1, 1), Contains(1) of the multimap, and Contains(1, 2).
OneOrTwo == {<<1, 1>>, <<1, 2>>}
=============================================================================
