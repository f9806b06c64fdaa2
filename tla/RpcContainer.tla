---------------------------- MODULE RpcContainer ----------------------------
(***************************************************************************)
(* The call path that every basket container shares.                       *)
(*                                                                         *)
(* A container (unordered_map, queue, ...) is split into one shard per     *)
(* server.  A shard is a structure in a memory-mapped file together with   *)
(* one interprocess_mutex "mtx".  A process that calls the container picks *)
(* the shard and then                                                      *)
(*   - runs the Local* function itself, on the shared mapping, when the    *)
(*     shard is its own server's and that server runs on its node; or      *)
(*   - sends an RPC (RPC_CALL_WRAPPER) that one of the RPC_THREADS worker  *)
(*     threads of the server executes with the same Local* function.       *)
(* Both kinds of executor meet at the mutex.  Callers are synchronous: a   *)
(* process has at most one call under way, so the state of a call, local   *)
(* or remote, is kept per calling process.                                 *)
(*                                                                         *)
(* The stages of a call:                                                   *)
(*   idle   no call under way                                              *)
(*   sent   the request is in flight or queued at the server               *)
(*   entry  the Local* function has been entered                           *)
(*   read   it inspects the structure (find, size, front, ...)             *)
(*   apply  it acts on what it found (assign, insert, erase, pop, ...)     *)
(*   unlock the return value is built, scoped_lock still holds the mutex   *)
(*   reply  the function has returned; a remote caller's response is in    *)
(*          flight                                                         *)
(* A component that extends this module supplies the read and apply steps. *)
(***************************************************************************)
EXTENDS Integers, FiniteSets

CONSTANTS
    Clients,       \* the processes that call the container
    NumServers,    \* BASKET_CONF->NUM_SERVERS
    RpcThreads,    \* BASKET_CONF->RPC_THREADS, worker threads per server
    MyServer,      \* MyServer[c]: BASKET_CONF->MY_SERVER of process c
    ServerOnNode,  \* ServerOnNode[c]: BASKET_CONF->SERVER_ON_NODE of c
    Free           \* an unlocked interprocess_mutex

Servers == 0 .. (NumServers - 1)

ASSUME NumServersAssumption == NumServers \in Nat \ {0} /\ NumServers <= 65536
ASSUME RpcThreadsAssumption == RpcThreads \in Nat \ {0}
ASSUME PlacementAssumption ==
    /\ MyServer \in [Clients -> Servers]
    /\ ServerOnNode \in [Clients -> BOOLEAN]
ASSUME FreeAssumption == Free \notin Clients

VARIABLES
    stage,         \* stage[c]: how far c's call has come
    target,        \* target[c]: key_int, the server c's call is addressed to
    mutex          \* mutex[s]: the call that holds shard s's "mtx", or Free

rpcVars == <<stage, target, mutex>>

Stages == {"idle", "sent", "entry", "read", "apply", "unlock", "reply"}

\* The stages in which a worker thread is occupied by a remote call.
Executing == {"entry", "read", "apply", "unlock"}

\* The stages inside the scope of scoped_lock.
Holding == {"read", "apply", "unlock"}

RpcTypeOK ==
    /\ stage \in [Clients -> Stages]
    /\ target \in [Clients -> Servers]
    /\ mutex \in [Servers -> Clients \cup {Free}]

(***************************************************************************)
(* The constructors have run: every shard exists, its mutex is free and    *)
(* its handlers are bound before any client is past the start-up barrier.  *)
(***************************************************************************)
RpcInit ==
    /\ stage = [c \in Clients |-> "idle"]
    /\ target = MyServer
    /\ mutex = [s \in Servers |-> Free]

-----------------------------------------------------------------------------
\* The condition under which every operation takes the shared-memory path:
\* key_int == my_server && server_on_node.
IsLocal(c, s) == s = MyServer[c] /\ ServerOnNode[c]

\* The remote calls that occupy a worker thread of server s.
Busy(s) == {c \in Clients : /\ target[c] = s
                            /\ stage[c] \in Executing
                            /\ ~IsLocal(c, s)}

\* c addresses server s: it enters the Local* function itself, on the shard
\* it has mapped, its own server's, or sends an RPC to s.
Dispatch(c, s) ==
    /\ target' = [target EXCEPT ![c] = IF IsLocal(c, s) THEN MyServer[c] ELSE s]
    /\ stage' = [stage EXCEPT ![c] = IF IsLocal(c, s) THEN "entry" ELSE "sent"]
    /\ mutex' = mutex

\* A free worker thread takes c's request and enters the bound function.
\* Every call opens a connection of its own, so requests of different
\* processes are taken in any order.
Accept(c) ==
    /\ stage[c] = "sent"
    /\ Cardinality(Busy(target[c])) < RpcThreads
    /\ stage' = [stage EXCEPT ![c] = "entry"]
    /\ UNCHANGED <<target, mutex>>

\* scoped_lock<interprocess_mutex> lock(*mutex) at the head of a Local* function.
MutantAcquireWithoutWaiting(c) ==
    /\ stage[c] = "entry"
    /\ mutex' = [mutex EXCEPT ![target[c]] = c]
    /\ stage' = [stage EXCEPT ![c] = "read"]
    /\ target' = target

Acquire(c) ==
    /\ stage[c] = "entry"
    /\ mutex[target[c]] = Free
    /\ mutex' = [mutex EXCEPT ![target[c]] = c]
    /\ stage' = [stage EXCEPT ![c] = "read"]
    /\ target' = target

\* c goes on to the next stage inside the Local* function.
Advance(c, next) ==
    /\ stage' = [stage EXCEPT ![c] = next]
    /\ UNCHANGED <<target, mutex>>

\* The Local* function returns: scoped_lock unlocks, whether it returns a
\* value or unwinds an exception, and the worker thread is free again.
MutantReleaseForgetsUnlock(c) ==
    /\ stage[c] = "unlock"
    /\ stage' = [stage EXCEPT ![c] = "reply"]
    /\ UNCHANGED <<target, mutex>>

Release(c) ==
    /\ stage[c] = "unlock"
    /\ mutex' = [mutex EXCEPT ![target[c]] = Free]
    /\ stage' = [stage EXCEPT ![c] = "reply"]
    /\ target' = target

\* The caller has its result and is outside the container again; key_int, a
\* local variable of the call, goes back to a canonical value.
Finish(c) ==
    /\ stage[c] = "reply"
    /\ stage' = [stage EXCEPT ![c] = "idle"]
    /\ target' = [target EXCEPT ![c] = MyServer[c]]
    /\ mutex' = mutex

-----------------------------------------------------------------------------
(***************************************************************************)
(* A call inside the scope of its scoped_lock holds its shard's mutex, and *)
(* a locked mutex is held by such a call.  With several worker threads and *)
(* any number of processes on the mapping, at most one of them is between  *)
(* "read" and "unlock" in one shard.                                       *)
(***************************************************************************)
LockDiscipline ==
    \A c \in Clients, s \in Servers :
        mutex[s] = c <=> target[c] = s /\ stage[c] \in Holding
=============================================================================
