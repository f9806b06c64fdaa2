----------------------------- MODULE OrderedSet -----------------------------
(***************************************************************************)
(* basket::set: Put, Get and Erase of keys, SeekFirst, PopFirst,           *)
(* SeekFirstN and Size of a server that the caller names, Contains (a      *)
(* range) and GetAllData over all servers.  Only LocalSize works without   *)
(* the shard's mutex.                                                      *)
(*                                                                         *)
(* Keys are numbers, ordered by std::less; so is the tree in a shard.      *)
(***************************************************************************)
EXTENDS RpcContainer, Routing, RangeScan

CONSTANTS
    Keys,          \* KeyType
    Hash,          \* Hash[k]: keyHash(k), a size_t
    Capacity,      \* nodes that fit into a segment of memory_allocated bytes
    MaxN,          \* bound: the greatest argument of SeekFirstN
    Ranges         \* bound: the <<key_start, key_end>> that Contains is called with

ASSUME SetDataAssumption ==
    /\ Keys \subseteq Nat /\ Hash \in [Keys -> Nat]
    /\ Capacity \in Nat /\ MaxN \in Nat /\ Ranges \subseteq Keys \X Keys

VARIABLES
    tree,          \* tree[s]: the keys in server s's set
    call,          \* call[c]: the operation c has called, with its arguments
    it,            \* it[c]: the node an iterator points to; {} is end()
    res,           \* res[c]: what the Local* function returns
    got            \* got[c][s]: what Contains or GetAllData has read from s

setVars == <<tree, call, it, res, got>>
vars == <<stage, target, mutex, tree, call, it, res, got>>

NoCall == [op |-> "none"]
KeyCalls == [op : {"Put", "Get", "Erase"}, key : Keys]
FirstCalls == [op : {"SeekFirst", "PopFirst"}, server : Servers]
SizeCalls == [op : {"Size"}, server : Servers]
SeekNCalls == [op : {"SeekFirstN"}, server : Servers, n : 0 .. MaxN]
SetCalls == KeyCalls \cup FirstCalls \cup SizeCalls \cup SeekNCalls
ScanCalls == [op : {"Contains"}, lo : Keys, hi : Keys] \cup [op : {"GetAllData"}]

\* As in UnorderedMap, "bad_alloc" is the allocator's exception.
Results == [ok : {"none", "true", "false", "bad_alloc"},
            keys : SUBSET Keys, size : Nat]
NoResult == [ok |-> "none", keys |-> {}, size |-> 0]
NothingRead == [s \in Servers |-> {}]

TypeOK ==
    /\ RpcTypeOK
    /\ tree \in [Servers -> SUBSET Keys]
    /\ \A s \in Servers :
          IsFiniteSet(tree[s]) /\ Cardinality(tree[s]) <= Capacity
    /\ call \in [Clients -> SetCalls \cup ScanCalls \cup {NoCall}]
    /\ it \in [Clients -> SUBSET Keys]
    /\ res \in [Clients -> Results]
    /\ got \in [Clients -> [Servers -> SUBSET Keys]]

Init ==
    /\ RpcInit
    /\ tree = [s \in Servers |-> {}]
    /\ call = [c \in Clients |-> NoCall]
    /\ it = [c \in Clients |-> {}]
    /\ res = [c \in Clients |-> NoResult]
    /\ got = [c \in Clients |-> NothingRead]

-----------------------------------------------------------------------------
\* A process calls operation cl, which addresses server s first.
Invoke(c, cl, s) ==
    /\ stage[c] = "idle"
    /\ Dispatch(c, s)
    /\ call' = [call EXCEPT ![c] = cl]
    /\ UNCHANGED <<tree, it, res, got>>

Route(k) == GetRoute(Hash[k], NumServers)

\* The server that an operation of SetCalls addresses.
Home == [k \in Keys |-> Route(k)]

ServerOf(cl) == IF cl \in KeyCalls THEN Home[cl.key] ELSE cl.server

Put(c, k) == Invoke(c, [op |-> "Put", key |-> k], Route(k))
Get(c, k) == Invoke(c, [op |-> "Get", key |-> k], Route(k))
Erase(c, k) == Invoke(c, [op |-> "Erase", key |-> k], Route(k))

SeekFirst(c, s) == Invoke(c, [op |-> "SeekFirst", server |-> s], s)
PopFirst(c, s) == Invoke(c, [op |-> "PopFirst", server |-> s], s)
Size(c, s) == Invoke(c, [op |-> "Size", server |-> s], s)

\* LocalSeekFirstN, called directly by a process on the mapping: the remote
\* branch of SeekFirstN converts a pair of bool and key to a pair of bool and
\* vector, which does not compile.
SeekFirstN(c, n) ==
    /\ ServerOnNode[c]
    /\ Invoke(c, [op |-> "SeekFirstN", server |-> MyServer[c], n |-> n], MyServer[c])

\* Contains and GetAllData begin with the caller's own server.
Contains(c, lo, hi) ==
    Invoke(c, [op |-> "Contains", lo |-> lo, hi |-> hi], MyServer[c])
GetAllData(c) == Invoke(c, [op |-> "GetAllData"], MyServer[c])

-----------------------------------------------------------------------------
ServeRequest(c) == Accept(c) /\ UNCHANGED setVars

\* LocalSize is the one function without a scoped_lock.
Lock(c) == call[c].op # "Size" /\ Acquire(c) /\ UNCHANGED setVars

Unlock(c) == Release(c) /\ UNCHANGED setVars

Mine(c) == tree[target[c]]

At(c, st, op) == stage[c] = st /\ call[c].op = op

\* The n smallest keys of m.
MutantFirstOfGreatest(m, n) == {k \in m : Cardinality({j \in m : j > k}) < n}

FirstOf(m, n) == {k \in m : Cardinality({j \in m : j < k}) < n}

\* What an iterator to c's key, or to begin(), points to.
Sought(c) ==
    IF call[c] \in KeyCalls THEN Mine(c) \cap {call[c].key} ELSE FirstOf(Mine(c), 1)

\* find(key), explicit in LocalGet, inside insert and erase in LocalPut and
\* LocalErase; size() > 0 and begin() in LocalSeekFirst and LocalPopFirst.
Find(c) ==
    /\ stage[c] = "read"
    /\ call[c] \in KeyCalls \cup FirstCalls
    /\ it' = [it EXCEPT ![c] = Sought(c)]
    /\ Advance(c, "apply")
    /\ UNCHANGED <<tree, call, res, got>>

Truth(b) == IF b THEN "true" ELSE "false"

\* The Local* function has computed its result.
Yield(c, ok, keys) ==
    /\ res' = [res EXCEPT ![c] = [ok |-> ok, keys |-> keys, size |-> 0]]
    /\ Advance(c, "unlock")
    /\ UNCHANGED <<call, it, got>>

\* LocalPut: insert leaves a present key alone and allocates a node for a new
\* one; the allocator throws before anything is linked.
PutPresent(c) ==
    /\ At(c, "apply", "Put")
    /\ it[c] # {}
    /\ Yield(c, "true", {})
    /\ tree' = tree

PutInsert(c) ==
    /\ At(c, "apply", "Put")
    /\ it[c] = {}
    /\ Cardinality(Mine(c)) < Capacity
    /\ tree' = [tree EXCEPT ![target[c]] = @ \cup {call[c].key}]
    /\ Yield(c, "true", {})

PutExhausted(c) ==
    /\ At(c, "apply", "Put")
    /\ it[c] = {}
    /\ Cardinality(Mine(c)) >= Capacity
    /\ Yield(c, "bad_alloc", {})
    /\ tree' = tree

LocalGet(c) ==
    /\ At(c, "apply", "Get")
    /\ Yield(c, Truth(it[c] # {}), {})
    /\ tree' = tree

LocalErase(c) ==
    /\ At(c, "apply", "Erase")
    /\ tree' = [tree EXCEPT ![target[c]] = @ \ it[c]]
    /\ Yield(c, Truth(it[c] # {}), {})

\* LocalSeekFirst: *iterator is copied.
LocalSeekFirst(c) ==
    /\ At(c, "apply", "SeekFirst")
    /\ Yield(c, Truth(it[c] # {}), it[c])
    /\ tree' = tree

\* LocalPopFirst: *iterator is copied, and the node erased.
LocalPopFirst(c) ==
    /\ At(c, "apply", "PopFirst")
    /\ tree' = [tree EXCEPT ![target[c]] = @ \ it[c]]
    /\ Yield(c, Truth(it[c] # {}), it[c])

\* LocalSeekFirstN: the loop from begin(), under the mutex.
LocalSeekFirstN(c) ==
    /\ At(c, "read", "SeekFirstN")
    /\ LET first == FirstOf(Mine(c), call[c].n)
       IN  Yield(c, Truth(first # {}), first)
    /\ tree' = tree

\* LocalSize: one word is read, before or after a concurrent insert or erase
\* has changed it.
LocalSize(c) ==
    /\ At(c, "entry", "Size")
    /\ res' = [res EXCEPT ![c] = [ok |-> "true", keys |-> {},
                                  size |-> Cardinality(Mine(c))]]
    /\ Advance(c, "reply")
    /\ UNCHANGED <<tree, call, it, got>>

\* LocalContainsInServer and LocalGetAllDataInServer, under the mutex; what they
\* find in a shard with the keys m is appended to final_values.
ScanOf(c, m) ==
    IF call[c].op = "GetAllData" THEN m ELSE SetScan(m, call[c].lo, call[c].hi)

ReadShard(c) ==
    /\ stage[c] = "read"
    /\ call[c] \in ScanCalls
    /\ got' = [got EXCEPT ![c][target[c]] = @ \cup ScanOf(c, Mine(c))]
    /\ Advance(c, "unlock")
    /\ UNCHANGED <<tree, call, it, res>>

-----------------------------------------------------------------------------
\* The servers a scan still addresses after server s: its own comes first,
\* then every other one in the order of its index.
LegsAfter(c, s) ==
    IF s = MyServer[c] THEN Servers \ {s}
                       ELSE {i \in Servers : i > s /\ i # MyServer[c]}

NextServer(c) ==
    /\ stage[c] = "reply"
    /\ call[c] \in ScanCalls
    /\ \E s \in LegsAfter(c, target[c]) :
          /\ \A i \in LegsAfter(c, target[c]) : s <= i
          /\ Dispatch(c, s)
    /\ UNCHANGED setVars

\* The operation returns to its caller; its local variables are gone.
MutantReturnKeepsKeys(c) ==
    /\ call[c] \in ScanCalls => LegsAfter(c, target[c]) = {}
    /\ Finish(c)
    /\ call' = [call EXCEPT ![c] = NoCall]
    /\ it' = [it EXCEPT ![c] = {}]
    /\ res' = [res EXCEPT ![c] = NoResult]
    /\ UNCHANGED <<tree, got>>

Return(c) ==
    /\ call[c] \in ScanCalls => LegsAfter(c, target[c]) = {}
    /\ Finish(c)
    /\ call' = [call EXCEPT ![c] = NoCall]
    /\ it' = [it EXCEPT ![c] = {}]
    /\ res' = [res EXCEPT ![c] = NoResult]
    /\ got' = [got EXCEPT ![c] = NothingRead]
    /\ tree' = tree

LocalPut(c) == PutPresent(c) \/ PutInsert(c) \/ PutExhausted(c)

\* A step of a call that is under way.
Step(c) ==
    \/ ServeRequest(c) \/ Lock(c) \/ Find(c)
    \/ LocalPut(c) \/ LocalGet(c) \/ LocalErase(c)
    \/ LocalSeekFirst(c) \/ LocalPopFirst(c) \/ LocalSeekFirstN(c) \/ LocalSize(c)
    \/ ReadShard(c) \/ Unlock(c) \/ NextServer(c) \/ Return(c)

\* A process calls an operation.
StartKey(c) == \E k \in Keys : Put(c, k) \/ Get(c, k) \/ Erase(c, k)

StartFirst(c) ==
    \/ \E s \in Servers : SeekFirst(c, s) \/ PopFirst(c, s) \/ Size(c, s)
    \/ \E n \in 0 .. MaxN : SeekFirstN(c, n)

StartScan(c) == GetAllData(c) \/ \E r \in Ranges : Contains(c, r[1], r[2])

Start(c) == StartKey(c) \/ StartFirst(c) \/ StartScan(c)

Next == \E c \in Clients : Start(c) \/ Step(c)

Spec == Init /\ [][Next]_vars

-----------------------------------------------------------------------------
(***************************************************************************)
(* The inductive invariant.  A call on a key addresses the key's home,     *)
(* where alone the key may be, a call on a server that server, only these  *)
(* are ever in stage "apply", and nothing else has a result (CallShape,    *)
(* KeysAtHome).  What an iterator points to is still there, and begin() is *)
(* still the smallest key, when the function uses it (IteratorFresh).  A   *)
(* scan has nothing of the servers it is still to read (ReadOnce).         *)
(***************************************************************************)
CallShape ==
    \A c \in Clients :
        /\ call[c] \in SetCalls => target[c] = ServerOf(call[c])
        /\ stage[c] = "apply" => call[c] \in KeyCalls \cup FirstCalls
        /\ stage[c] = "idle" => call[c] = NoCall
        /\ call[c] \notin SetCalls => res[c] = NoResult
        /\ call[c] \notin ScanCalls => got[c] = NothingRead

KeysAtHome == \A s \in Servers : \A k \in tree[s] : Route(k) = s

IteratorFresh ==
    \A c \in Clients : stage[c] = "apply" => it[c] = Sought(c)

Unread(c) ==
    LegsAfter(c, target[c])
    \cup (IF stage[c] \in {"unlock", "reply"} THEN {} ELSE {target[c]})

ReadOnce ==
    \A c \in Clients :
        call[c] \in ScanCalls => \A s \in Unread(c) : got[c][s] = {}

ShardInv ==
    /\ TypeOK /\ LockDiscipline /\ CallShape
    /\ KeysAtHome /\ IteratorFresh /\ ReadOnce

(***************************************************************************)
(* The shards implement AtomicSet.  An operation is done once its Local*   *)
(* function has computed the result.  Contains and GetAllData, which are   *)
(* not atomic, are not visible.                                            *)
(***************************************************************************)
Visible(c) == call[c] \in SetCalls

phase == [c \in Clients |->
            IF ~Visible(c) THEN "idle"
            ELSE IF stage[c] \in {"unlock", "reply"} THEN "done" ELSE "pending"]

absCall == [c \in Clients |-> IF Visible(c) THEN call[c] ELSE NoCall]

Abstract == INSTANCE AtomicSet WITH call <- absCall

\* Operations on keys, on the first keys of a server, and the unlocked Size
\* are linearizable: no key is popped twice, none is skipped.
Linearizable == Abstract!Spec
=============================================================================
