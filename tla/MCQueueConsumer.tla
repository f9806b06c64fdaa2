-------------------------- MODULE MCQueueConsumer ---------------------------
(***************************************************************************)
(* Instances of QueueConsumer for TLC: one consumer, two producers.        *)
(***************************************************************************)
EXTENDS QueueConsumer

CONSTANTS c1, c2, c3, v1, v2

AllServerZero == [c \in Clients |-> 0]
OnlyC1 == [c \in Clients |-> c = c1]

\* The consumer takes as many elements as the producers push.
TwoPushesEach == [c \in Clients |-> IF c = Consumer THEN 4 ELSE 2]
=============================================================================
