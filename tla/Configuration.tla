--------------------------- MODULE Configuration ---------------------------
(***************************************************************************)
(* ConfigurationManager and RPCFactory, as the start of one process uses   *)
(* them: BASKET_CONF is configured, or its fields are assigned, and        *)
(* containers are constructed.  A container takes num_servers from         *)
(* BASKET_CONF before it asks the factory for the RPC of its port; an RPC  *)
(* that is new loads the server list and overwrites NUM_SERVERS.           *)
(***************************************************************************)
EXTENDS Naturals, Sequences

\* A line "host:count" of the server list file, or "host", which counts once.
LineHosts(line) == [i \in 1 .. line.count |-> line.host]

\* LoadServers: SERVER_LIST, one entry per server, line by line.
ServerList(lines) ==
    LET upTo[i \in 0 .. Len(lines)] ==
            IF i = 0 THEN <<>> ELSE upTo[i - 1] \o LineHosts(lines[i])
    IN  upTo[Len(lines)]

\* What a process knows: NUM_SERVERS, the ports the factory has an RPC for,
\* and num_servers of the containers constructed so far.
Knowledge == [num : Nat, rpcs : SUBSET Nat, objects : Seq(Nat)]
Defaults == [num |-> 1, rpcs |-> {}, objects |-> <<>>]

LoadServers(conf, lines) == [conf EXCEPT !.num = Len(ServerList(lines))]

\* ConfigureDefaultServer and ConfigureDefaultClient: the process's server.
MyServerOf(rank, list) == rank % Len(list)

\* RPCFactory::GetRPC and the RPC constructor that it may call; RPC_PORT is
\* the same again when it returns.
MutantGetRPCWithoutList(conf, port, lines) == [conf EXCEPT !.rpcs = @ \cup {port}]

GetRPC(conf, port, lines) ==
    IF port \in conf.rpcs THEN conf
    ELSE [LoadServers(conf, lines) EXCEPT !.rpcs = @ \cup {port}]

\* A container's constructor: num_servers first, then the RPC.
Construct(conf, port, lines) ==
    GetRPC([conf EXCEPT !.objects = Append(@, conf.num)], port, lines)

\* The statements of a program's start: Configure (one of ConfigureDefault*),
\* Assign (NUM_SERVERS = num) and Construct.
StepTo(conf, statement, lines) ==
    CASE statement.do = "Configure" -> LoadServers(conf, lines)
      [] statement.do = "Assign" -> [conf EXCEPT !.num = statement.num]
      [] statement.do = "Construct" -> Construct(conf, statement.port, lines)

-----------------------------------------------------------------------------
\* With Thallium a server listens on SERVER_LIST[MPI_RANK]; beyond the list
\* that is whatever the memory holds, "nowhere".
ServerHost(rank, list) ==
    IF rank + 1 \in DOMAIN list THEN list[rank + 1] ELSE "nowhere"

\* Everybody calls server s at server_list.at(s).
CallHost(s, list) == list[s + 1]

\* The rank of server s in the programs of test/, where every k-th rank is a
\* server: is_server = (my_rank + 1) % k == 0, my_server = my_rank / k.
TestRank(s, k) == (s + 1) * k - 1
=============================================================================
