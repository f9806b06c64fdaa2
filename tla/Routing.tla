------------------------------ MODULE Routing ------------------------------
(***************************************************************************)
(* How a key is turned into a server index.  keyHash is std::hash, a       *)
(* size_t; key_int is a uint16_t.  unordered_map computes key_int in two   *)
(* ways: Put and the *WithCallback operations truncate the hash to 16 bits *)
(* before they reduce it modulo num_servers, Get and Erase reduce the      *)
(* whole hash and truncate the remainder.  map, multimap and set use the   *)
(* second form everywhere.                                                 *)
(***************************************************************************)
EXTENDS Integers

\* The number of values of a uint16_t.
UInt16Range == 65536

\* uint16_t key_int = (uint16_t)keyHash(key) % num_servers
MutantPutRouteMasks16Bits(hash, n) == (hash % (UInt16Range - 1)) % n

PutRoute(hash, n) == (hash % UInt16Range) % n

\* uint16_t key_int = static_cast<uint16_t>(key_hash % num_servers)
GetRoute(hash, n) == (hash % n) % UInt16Range

\* The condition under which a key is looked up where it was put.
RoutesAgree(hash, n) == PutRoute(hash, n) = GetRoute(hash, n)

\* The numbers of servers for which truncating first does not matter.
Divides16Bits(n) == UInt16Range % n = 0

-----------------------------------------------------------------------------
\* The values of an int16_t, from the unsigned value of the same bits.
MutantAsInt16OffByOne(x) ==
    IF x <= UInt16Range \div 2 THEN x ELSE x - UInt16Range

AsInt16(x) == IF x < UInt16Range \div 2 THEN x ELSE x - UInt16Range

\* RPC's constructor: server_port + MY_SERVER, an int, is the port a Thallium
\* server listens on, as text; rpc::server takes it as a uint16_t.
ThalliumServerPort(base, server) == base + server
RpclibServerPort(base, server) == (base + server) % UInt16Range

\* RPC::call: int16_t port = server_port + server_index.
CallPort(base, server) == AsInt16((base + server) % UInt16Range)

\* rpc::client takes the port as a uint16_t; a Thallium client prints it.
RpclibCallPort(base, server) == CallPort(base, server) % UInt16Range
ThalliumCallPort(base, server) == CallPort(base, server)
=============================================================================
