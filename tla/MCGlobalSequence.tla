-------------------------- MODULE MCGlobalSequence --------------------------
(***************************************************************************)
(* An instance of GlobalSequence for TLC.                                  *)
(***************************************************************************)
EXTENDS GlobalSequence

CONSTANTS c1, c2, c3

\* c1 and c2 share the mapping of server 0; c3 belongs to server 1, which is
\* not on its node.
TwoOnNode == [c \in Clients |-> IF c = c3 THEN 1 ELSE 0]
AllButC3 == [c \in Clients |-> c # c3]
=============================================================================
