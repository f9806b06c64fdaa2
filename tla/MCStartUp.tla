----------------------------- MODULE MCStartUp -----------------------------
(***************************************************************************)
(* Two servers, on one node or only the first of them, a client on the     *)
(* first one's mapping and a client that uses RPCs, over one object of     *)
(* each kind; two processes are killed.  Without the tests' barrier, one   *)
(* server and one process killed.                                          *)
(***************************************************************************)
EXTENDS StartUp

CONSTANTS s0, s1, c1, c2

MCServers == {s0, s1}
MCMyServer == [c \in {c1, c2} |-> s0]
MCServerOnNode == [c \in {c1, c2} |-> c = c1]
MCInodes == 0 .. 3
MCKinds == {"container", "sequence", "clock"}
MCPrograms ==
    [kind : MCKinds, node : {{s0}, {s0, s1}}, barrier : {TRUE}, kills : {2}]
    \cup [kind : MCKinds, node : {{s0}}, barrier : {FALSE}, kills : {1}]

=============================================================================
