---------------------------- MODULE UnorderedMap ----------------------------
(***************************************************************************)
(* basket::unordered_map: Put, Get, Erase and GetAllData, called by any    *)
(* number of processes, executed by the callers themselves and by the RPC  *)
(* worker threads of the servers.                                          *)
(*                                                                         *)
(* A Local* function is taken in steps: it takes the shard's mutex, looks  *)
(* the key up, acts on what the look-up returned, and unlocks.  Between    *)
(* two steps any other process or worker thread may run, so that nothing   *)
(* but the mutex keeps a look-up from being stale when it is used.         *)
(***************************************************************************)
EXTENDS RpcContainer, Routing

CONSTANTS
    Keys,          \* KeyType
    Vals,          \* MappedType
    DefaultVal,    \* MappedType()
    Hash,          \* Hash[k]: keyHash(k), a size_t
    Capacity       \* nodes that fit into a segment of memory_allocated bytes

ASSUME DataAssumption == DefaultVal \in Vals /\ Hash \in [Keys -> Nat]
ASSUME CapacityAssumption == Capacity \in Nat

VARIABLES
    shard,         \* shard[s]: the (key, value) nodes of server s's hash map
    call,          \* call[c]: the operation c has called, with its arguments
    it,            \* it[c]: the nodes the look-up returned; {} is end()
    res,           \* res[c]: the value the Local* function returns
    got            \* got[c][s]: the part of final_values read from server s

mapVars == <<shard, call, it, res, got>>
vars == <<stage, target, mutex, shard, call, it, res, got>>

Pairs == Keys \X Vals

PutCalls == [op : {"Put"}, key : Keys, val : Vals]
KeyCalls == [op : {"Get", "Erase"}, key : Keys]
NoCall == [op |-> "none"]
ScanCall == [op |-> "GetAllData"]
MapCalls == PutCalls \cup KeyCalls
Calls == MapCalls \cup {NoCall, ScanCall}

\* "bad_alloc" is the exception of the segment's allocator: it unwinds the
\* Local* function and reaches a local caller as it is and a remote caller,
\* through suppress_exceptions, as an error response that call() rethrows.
Outcomes == {"none", "true", "false", "bad_alloc"}
Results == [ok : Outcomes, val : Vals]
NoResult == [ok |-> "none", val |-> DefaultVal]
NothingRead == [s \in Servers |-> {}]

TypeOK ==
    /\ RpcTypeOK
    /\ shard \in [Servers -> SUBSET Pairs]
    /\ call \in [Clients -> Calls]
    /\ it \in [Clients -> SUBSET Pairs]
    /\ res \in [Clients -> Results]
    /\ got \in [Clients -> [Servers -> SUBSET Pairs]]

Init ==
    /\ RpcInit
    /\ shard = [s \in Servers |-> {}]
    /\ call = [c \in Clients |-> NoCall]
    /\ it = [c \in Clients |-> {}]
    /\ res = [c \in Clients |-> NoResult]
    /\ got = [c \in Clients |-> NothingRead]

-----------------------------------------------------------------------------
\* The nodes with key k among the nodes m.
Matching(m, k) == {p \in m : p[1] = k}

\* A process calls operation cl, which addresses server s first.
Invoke(c, cl, s) ==
    /\ stage[c] = "idle"
    /\ Dispatch(c, s)
    /\ call' = [call EXCEPT ![c] = cl]
    /\ UNCHANGED <<shard, it, res, got>>

Put(c, k, v) == Invoke(c, [op |-> "Put", key |-> k, val |-> v],
                       PutRoute(Hash[k], NumServers))

Get(c, k) == Invoke(c, [op |-> "Get", key |-> k],
                    GetRoute(Hash[k], NumServers))

Erase(c, k) == Invoke(c, [op |-> "Erase", key |-> k],
                      GetRoute(Hash[k], NumServers))

\* GetAllData begins with GetAllDataInServer, the caller's own server.
GetAllData(c) == Invoke(c, ScanCall, MyServer[c])

-----------------------------------------------------------------------------
ServeRequest(c) == Accept(c) /\ UNCHANGED mapVars

Lock(c) == Acquire(c) /\ UNCHANGED mapVars

Unlock(c) == Release(c) /\ UNCHANGED mapVars

\* find(key), explicit in LocalGet, inside insert_or_assign and erase in the
\* other two.
MutantFindUnlocksAtOnce(c) ==
    /\ stage[c] = "read"
    /\ call[c] \in MapCalls
    /\ it' = [it EXCEPT ![c] = Matching(shard[target[c]], call[c].key)]
    /\ stage' = [stage EXCEPT ![c] = "apply"]
    /\ mutex' = [mutex EXCEPT ![target[c]] = Free]
    /\ UNCHANGED <<target, shard, call, res, got>>

Find(c) ==
    /\ stage[c] = "read"
    /\ call[c] \in MapCalls
    /\ it' = [it EXCEPT ![c] = Matching(shard[target[c]], call[c].key)]
    /\ Advance(c, "apply")
    /\ UNCHANGED <<shard, call, res, got>>

\* The Local* function has computed its return value.
Yield(c, ok, val) ==
    /\ res' = [res EXCEPT ![c] = [ok |-> ok, val |-> val]]
    /\ Advance(c, "unlock")
    /\ UNCHANGED <<call, it, got>>

\* Replace the nodes old of c's shard by the nodes new.
Rewrite(c, old, new) ==
    shard' = [shard EXCEPT ![target[c]] = (@ \ old) \cup new]

Applying(c, op) == stage[c] = "apply" /\ call[c].op = op

\* LocalPut, key present: the node the look-up returned is assigned.
MutantPutAssignKeepsValue(c) ==
    /\ Applying(c, "Put")
    /\ it[c] # {}
    /\ shard' = shard
    /\ Yield(c, "true", DefaultVal)

PutAssign(c) ==
    /\ Applying(c, "Put")
    /\ it[c] # {}
    /\ Rewrite(c, it[c], {<<call[c].key, call[c].val>>})
    /\ Yield(c, "true", DefaultVal)

\* LocalPut, key absent: a node is allocated in the segment and linked.
PutInsert(c) ==
    /\ Applying(c, "Put")
    /\ it[c] = {}
    /\ Cardinality(shard[target[c]]) < Capacity
    /\ Rewrite(c, {}, {<<call[c].key, call[c].val>>})
    /\ Yield(c, "true", DefaultVal)

\* LocalPut, key absent and the segment exhausted: the allocator throws
\* before anything is linked.
PutExhausted(c) ==
    /\ Applying(c, "Put")
    /\ it[c] = {}
    /\ Cardinality(shard[target[c]]) >= Capacity
    /\ shard' = shard
    /\ Yield(c, "bad_alloc", DefaultVal)

\* LocalGet.
GetFound(c) ==
    /\ Applying(c, "Get")
    /\ \E p \in it[c] : Yield(c, "true", p[2])
    /\ shard' = shard

GetMissing(c) ==
    /\ Applying(c, "Get")
    /\ it[c] = {}
    /\ Yield(c, "false", DefaultVal)
    /\ shard' = shard

\* LocalErase: the number of erased nodes decides the result, the value part
\* is always MappedType().
LocalErase(c) ==
    /\ Applying(c, "Erase")
    /\ Rewrite(c, it[c], {})
    /\ Yield(c, IF it[c] # {} THEN "true" ELSE "false", DefaultVal)

\* LocalGetAllDataInServer, the loop over the shard under its mutex; what it
\* finds is appended to final_values.
ReadShard(c) ==
    /\ stage[c] = "read"
    /\ call[c] = ScanCall
    /\ got' = [got EXCEPT ![c][target[c]] = @ \cup shard[target[c]]]
    /\ Advance(c, "unlock")
    /\ UNCHANGED <<shard, call, it, res>>

-----------------------------------------------------------------------------
\* The servers GetAllData still addresses after server s: its own comes
\* first, then every other one in the order of its index.
MutantLegsAfterOnlyHigher(c, s) == {i \in Servers : i > s /\ i # MyServer[c]}

MutantLegsAfterOwnAgain(c, s) ==
    IF s = MyServer[c] THEN Servers \ {s} ELSE {i \in Servers : i > s}

LegsAfter(c, s) ==
    IF s = MyServer[c] THEN Servers \ {s}
                       ELSE {i \in Servers : i > s /\ i # MyServer[c]}

\* GetAllData has appended one server's pairs and addresses the next server.
NextServer(c) ==
    /\ stage[c] = "reply"
    /\ call[c] = ScanCall
    /\ \E s \in LegsAfter(c, target[c]) :
          /\ \A i \in LegsAfter(c, target[c]) : s <= i
          /\ Dispatch(c, s)
    /\ UNCHANGED mapVars

\* The operation returns to its caller; its local variables are gone.
MutantReturnKeepsPairs(c) ==
    /\ call[c] = ScanCall => LegsAfter(c, target[c]) = {}
    /\ Finish(c)
    /\ call' = [call EXCEPT ![c] = NoCall]
    /\ it' = [it EXCEPT ![c] = {}]
    /\ res' = [res EXCEPT ![c] = NoResult]
    /\ UNCHANGED <<shard, got>>

Return(c) ==
    /\ call[c] = ScanCall => LegsAfter(c, target[c]) = {}
    /\ Finish(c)
    /\ call' = [call EXCEPT ![c] = NoCall]
    /\ it' = [it EXCEPT ![c] = {}]
    /\ res' = [res EXCEPT ![c] = NoResult]
    /\ got' = [got EXCEPT ![c] = NothingRead]
    /\ shard' = shard

LocalPut(c) == PutAssign(c) \/ PutInsert(c) \/ PutExhausted(c)
LocalGet(c) == GetFound(c) \/ GetMissing(c)

\* A step of a call that is under way.
Step(c) ==
    \/ ServeRequest(c) \/ Lock(c) \/ Find(c)
    \/ LocalPut(c) \/ LocalGet(c) \/ LocalErase(c) \/ ReadShard(c)
    \/ Unlock(c) \/ NextServer(c) \/ Return(c)

\* A process calls an operation.
Start(c) ==
    \/ \E k \in Keys : (\E v \in Vals : Put(c, k, v)) \/ Get(c, k) \/ Erase(c, k)
    \/ GetAllData(c)

Next == \E c \in Clients : Start(c) \/ Step(c)

Spec == Init /\ [][Next]_vars

\* The operating system runs every thread that can run.  Nothing is assumed
\* about who wins a contended mutex or a free worker thread.
FairSpec == Spec /\ \A c \in Clients : WF_vars(Step(c))

-----------------------------------------------------------------------------
(***************************************************************************)
(* Every key lives in one place: a node is only in the shard that Put      *)
(* routes its key to, and a shard has one node per key.  Two concurrent    *)
(* Puts of a new key, both past their look-up, would break it.             *)
(***************************************************************************)
OneHome ==
    \A s \in Servers, p \in Pairs :
        p \in shard[s] =>
            /\ PutRoute(Hash[p[1]], NumServers) = s
            /\ \A q \in shard[s] : q[1] = p[1] => q = p

\* What an operation found is what is there for as long as it acts on it: no
\* other process or worker thread invalidates the iterator in between.
IteratorFresh ==
    \A c \in Clients :
        stage[c] = "apply" => it[c] = Matching(shard[target[c]], call[c].key)

(***************************************************************************)
(* The comment on Get: "If bool is true then data was found and is present *)
(* in value part else bool is set to false".  When a Get has looked its    *)
(* key up and reports that it is not there, no server holds the key: the   *)
(* shard it looked at is the one the key was put into.                     *)
(***************************************************************************)
MissIsAbsence ==
    \A c \in Clients :
        stage[c] = "unlock" /\ call[c].op = "Get" /\ res[c].ok = "false"
            => \A s \in Servers : Matching(shard[s], call[c].key) = {}

\* Once processes stop calling the map, every call under way returns: no
\* lock is left held, no worker thread is lost, no scan goes round in circles.
CallsDrain ==
    <>[][~(\E c \in Clients : Start(c))]_vars
        => \A c \in Clients : <>[](stage[c] = "idle")

-----------------------------------------------------------------------------
(***************************************************************************)
(* The inductive invariant.  An operation on a key addresses its route     *)
(* from its call to its return, only such an operation is ever in stage    *)
(* "apply", and nothing else has a result (CallShape); while a Get holds   *)
(* the lock after a miss the key cannot appear in the shard it looked at   *)
(* (LockedMiss).                                                           *)
(***************************************************************************)
CallShape ==
    \A c \in Clients :
        /\ call[c].op = "Put"
              => target[c] = PutRoute(Hash[call[c].key], NumServers)
        /\ call[c].op \in {"Get", "Erase"}
              => target[c] = GetRoute(Hash[call[c].key], NumServers)
        /\ stage[c] = "apply" => call[c] \in MapCalls
        /\ stage[c] = "idle" => call[c] = NoCall
        /\ call[c] \notin MapCalls => res[c] = NoResult

LockedMiss ==
    \A c \in Clients :
        stage[c] = "unlock" /\ call[c].op = "Get" /\ res[c].ok = "false"
            => Matching(shard[target[c]], call[c].key) = {}

IndInv ==
    /\ TypeOK /\ LockDiscipline /\ CallShape
    /\ IteratorFresh /\ OneHome /\ LockedMiss

-----------------------------------------------------------------------------
(***************************************************************************)
(* The sharded map implements AtomicMap.  The abstract map is the union of *)
(* the shards; an operation is done once its Local* function has computed  *)
(* its result.  A GetAllData, which is not atomic, is not visible.         *)
(***************************************************************************)
Visible(c) == call[c] \in MapCalls

store == UNION {shard[s] : s \in Servers}

phase == [c \in Clients |->
            IF ~Visible(c) THEN "idle"
            ELSE IF stage[c] \in {"unlock", "reply"} THEN "done" ELSE "pending"]

absCall == [c \in Clients |-> IF Visible(c) THEN call[c] ELSE NoCall]

Abstract == INSTANCE AtomicMap WITH call <- absCall

\* Put, Get and Erase are linearizable, whatever mixture of processes on the
\* shared mapping and worker threads executes them.
Linearizable == Abstract!Spec
=============================================================================
