------------------------------ MODULE MCQueue -------------------------------
(***************************************************************************)
(* Instances of Queue for TLC.                                             *)
(***************************************************************************)
EXTENDS Queue

CONSTANTS c1, c2, c3, v1, v2

\* c1 and c2 share the mapping of server 0, c3 reaches it by RPC.
AllServerZero == [c \in Clients |-> 0]
AllButC3 == [c \in Clients |-> c # c3]
=============================================================================
