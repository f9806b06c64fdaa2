----------------------------- MODULE PureCheck ------------------------------
(***************************************************************************)
(* The functions of Routing, RangeScan and Configuration over ranges of    *)
(* inputs, against what they are for.  A state is one input: a key's hash, *)
(* a number of servers and an RPC_PORT; or the keys of a shard and the     *)
(* bounds of a query; or a process that has begun to run over a server     *)
(* list file.  Only a process goes on, a statement at a time.  A fourth    *)
(* kind, with a specification of its own, is a server on one of the ranks  *)
(* of an MPI job.                                                          *)
(***************************************************************************)
EXTENDS Routing, RangeScan, Configuration, Sequences

CONSTANTS
    Hashes, ServerCounts, Ports,
    KeyRange,      \* bound: the keys of shards and queries
    Hosts,         \* the names in a server list file
    MaxLines,      \* bound: the lines of a server list file
    MaxCount,      \* bound: the servers per line of it, and ranks per server
    MaxStatements  \* bound: the statements of a program's start

ASSUME AddressAssumption ==
    /\ Hashes \subseteq Nat /\ ServerCounts \subseteq 1 .. UInt16Range
    /\ Ports \subseteq 0 .. UInt16Range - 1
ASSUME KeyRangeAssumption == KeyRange \subseteq Nat /\ IsFiniteSet(KeyRange)
ASSUME HostsAssumption == "nowhere" \notin Hosts
ASSUME CountsAssumption == MaxLines \in Nat /\ MaxCount \in Nat

VARIABLE input

Addresses == [hash : Hashes, n : ServerCounts, base : Ports]
Queries == [shard : SUBSET KeyRange, lo : KeyRange, hi : KeyRange]

\* The sequences over S of at most max elements.
SeqsUpTo(S, max) == UNION {[1 .. n -> S] : n \in 0 .. max}

\* Server list files that name at least one server.
Files == {lines \in SeqsUpTo([host : Hosts, count : 0 .. MaxCount], MaxLines) :
            ServerList(lines) # <<>>}

Statements == [do : {"Configure"}] \cup [do : {"Assign"}, num : 1 .. 3]
              \cup [do : {"Construct"}, port : {8080, 9090}]

\* A process that has executed the statements of program, and what it knows.
Processes == [lines : Files, program : Seq(Statements), conf : Knowledge]

InputInit ==
    \/ input \in Addresses \/ input \in Queries
    \/ input \in [lines : Files, program : {<<>>}, conf : {Defaults}]

ExecuteStatement ==
    /\ input \in Processes /\ Len(input.program) < MaxStatements
    /\ \E statement \in Statements :
          input' = [lines |-> input.lines,
                    program |-> Append(input.program, statement),
                    conf |-> StepTo(input.conf, statement, input.lines)]

InputNext == ExecuteStatement \/ UNCHANGED input

InputSpec == InputInit /\ [][InputNext]_input

(***************************************************************************)
(* Servers of a list and the ranks they run on: the rank that the programs *)
(* of test/ give them with some number of ranks per server, or, with       *)
(* ConfigureDefaultServer on the first ranks, their own number.            *)
(***************************************************************************)
Deployments ==
    {d \in [list : SeqsUpTo(Hosts, MaxLines * MaxCount),
            server : 0 .. MaxLines * MaxCount,
            rank : 0 .. (MaxLines * MaxCount + 1) * MaxCount] :
        /\ d.server < Len(d.list)
        /\ \/ \E ranks \in 1 .. MaxCount : d.rank = TestRank(d.server, ranks)
           \/ d.rank < Len(d.list) /\ d.server = MyServerOf(d.rank, d.list)}

DeploymentSpec == input \in Deployments /\ [][InputNext]_input

-----------------------------------------------------------------------------
\* The routes of Put and of Get agree on every hash if the number of servers
\* divides 2^16, and they disagree on some hash if it does not.
RoutesAgreeIfDivides ==
    input \in Addresses =>
        IF Divides16Bits(input.n) THEN RoutesAgree(input.hash, input.n)
                                  ELSE ~RoutesAgree(UInt16Range, input.n)

\* The server that a route yields is called on the port it listens on.  A
\* Thallium client prints its int16_t port: it calls the right port exactly
\* while base port plus server index stay below 2^15.  The port wraps for
\* rpclib too, but the conversions back to uint16_t undo it.
PortsMeet ==
    input \in Addresses =>
        LET base == input.base
            server == GetRoute(input.hash, input.n)
        IN  /\ RpclibCallPort(base, server) = RpclibServerPort(base, server)
            /\ ThalliumCallPort(base, server) = ThalliumServerPort(base, server)
                  <=> base + server < UInt16Range \div 2

\* Contains returns exactly the keys from key_start to key_end of every shard
\* that does not hold exactly one element, key_start > key_end included.
ScanIsRange ==
    input \in Queries /\ Cardinality(input.shard) # 1 =>
        LET want == InRange(input.shard, input.lo, input.hi)
        IN  /\ MapScan(input.shard, input.lo, input.hi) = want
            /\ SetScan(input.shard, input.lo, input.hi) = want

(***************************************************************************)
(* What Contains gets wrong with a shard of one element.  set forgets no   *)
(* key, map forgets one: key_start.  What they return too much is a key    *)
(* beyond key_end, never one below key_start.                              *)
(***************************************************************************)
OneElementErrs ==
    input \in Queries =>
        LET S == input.shard
            want == InRange(S, input.lo, input.hi)
            map == MapScan(S, input.lo, input.hi)
            set == SetScan(S, input.lo, input.hi)
        IN  /\ want \ set = {}
            /\ want \ map = IF S = {input.lo} THEN want ELSE {}
            /\ \A k \in (map \cup set) \ want :
                  k > input.hi /\ input.lo <= k /\ S = {k}

\* multimap's Contains returns the elements of the key it is called with; of
\* a shard of one element it returns that element, for every key.
MultimapFindsKey ==
    input \in Queries =>
        MultimapScan(input.shard, input.lo) =
            IF Cardinality(input.shard) = 1 THEN input.shard
            ELSE InRange(input.shard, input.lo, input.lo)

\* The statements of a kind.
Which(program, what) == {i \in DOMAIN program : program[i].do = what}

\* Statement i sets NUM_SERVERS: every statement does, but constructing on a
\* port that an earlier statement has constructed on.
SetsNumServers(program, i) ==
    ~ \E j \in 1 .. i - 1 : program[i].do = "Construct" /\ program[j] = program[i]

\* The number of servers that the last of the first n statements that sets it
\* leaves behind: the number it assigns, or that of the list.
NumAfter(program, n, lines) ==
    LET setters == {i \in 1 .. n : SetsNumServers(program, i)}
        last == program[Max(setters)]
    IN  IF setters = {} THEN Defaults.num
        ELSE IF last.do = "Assign" THEN last.num ELSE Len(ServerList(lines))

\* The containers that a program constructs count, in their order, what was
\* left behind before them.
CountedRight(conf, program, lines) ==
    LET constructs == Which(program, "Construct")
        place(i) == Cardinality({j \in constructs : j <= i})
    IN  \A i \in constructs :
            conf.objects[place(i)] = NumAfter(program, i - 1, lines)

(***************************************************************************)
(* Which number of servers a container of a process counts, and so routes  *)
(* by.  It is what was left behind before its constructor began, because   *)
(* unordered_map.cpp:36 runs before GetRPC, line 51: the default of one    *)
(* server for the very first container without a Configure*, the number    *)
(* assigned before, as in test/, for the first container only, and for     *)
(* every later one the list's.  But GetRPC loads the list only on a port   *)
(* that is new (rpc_factory.h:18-19): a number assigned after the port's   *)
(* first container lasts for as long as the process keeps to its ports.    *)
(***************************************************************************)
NumServersAgree ==
    input \in Processes => CountedRight(input.conf, input.program, input.lines)

(***************************************************************************)
(* What the README asks of my_server: that it is the relative rank of the  *)
(* server, "if servers are on ranks 3 and 5, server relative ranks are     *)
(* still 0 and 1".  Then a Thallium server has to listen on the host where *)
(* it is called, server_list.at(my_server), on whatever rank it runs; but  *)
(* it listens on SERVER_LIST[MPI_RANK] (rpc_lib.cpp:68).                   *)
(***************************************************************************)
HostsMeet ==
    input \in Deployments =>
        ServerHost(input.rank, input.list) = CallHost(input.server, input.list)
=============================================================================
