---------------------------- MODULE MCPureCheck -----------------------------
(***************************************************************************)
(* Hashes around the multiples of 2^16, ports around 2^15, all shards and  *)
(* queries over seven keys, server list files of two lines, and the        *)
(* servers of lists of up to four hosts.                                   *)
(***************************************************************************)
EXTENDS PureCheck

MCHashes == (0 .. 40) \cup (65500 .. 65600) \cup (131050 .. 131090)
MCServerCounts == (1 .. 12) \cup {16, 100, 256, 65535, 65536}
MCPorts == {1, 8080, 32760, 32767, 32768, 60000}
=============================================================================
