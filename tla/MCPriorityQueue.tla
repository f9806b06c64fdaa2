-------------------------- MODULE MCPriorityQueue --------------------------
(***************************************************************************)
(* An instance of PriorityQueue for TLC.                                   *)
(***************************************************************************)
EXTENDS PriorityQueue

CONSTANTS c1, c2, c3

\* c1 and c2 share the mapping of server 0, c3 reaches it by RPC.
AllServerZero == [c \in Clients |-> 0]
AllButC3 == [c \in Clients |-> c # c3]

\* BagSize is the cardinality of the Bags module, on all small bags of values.
ASSUME SizeAssumption ==
    \A S \in SUBSET Vals : \A b \in [S -> 1 .. 3] : BagSize(b) = BagCardinality(b)
=============================================================================
