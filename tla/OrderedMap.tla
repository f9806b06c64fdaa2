----------------------------- MODULE OrderedMap -----------------------------
(***************************************************************************)
(* basket::map and basket::multimap: Put, Get and Erase of a key on the    *)
(* server it is hashed to, Contains (of a range in map, of one key in      *)
(* multimap) and GetAllData over all servers.  The two classes differ in   *)
(* LocalPut and LocalContainsInServer only.                                *)
(*                                                                         *)
(* Unlike unordered_map, every operation computes key_int in the same way, *)
(* and a scan of a shard may be of a range.  Keys are numbers, ordered by  *)
(* std::less.                                                              *)
(***************************************************************************)
EXTENDS RpcContainer, Routing, RangeScan

CONSTANTS
    Keys,          \* KeyType
    Vals,          \* MappedType
    DefaultVal,    \* MappedType()
    Hash,          \* Hash[k]: keyHash(k), a size_t
    Capacity,      \* nodes that fit into a segment of memory_allocated bytes
    Ranges,        \* bound: the <<key_start, key_end>> that Contains is called with
    Scanners       \* bound: the processes that call Contains and GetAllData

ASSUME MapDataAssumption ==
    /\ Keys \subseteq Nat /\ Hash \in [Keys -> Nat]
    /\ DefaultVal \in Vals /\ Capacity \in Nat /\ Ranges \subseteq Keys \X Keys

VARIABLES
    kind,          \* which of the two classes this is; it never changes
    tree,          \* tree[s]: the (key, value) nodes of server s's map
    call,          \* call[c]: the operation c has called, with its arguments
    it,            \* it[c]: the nodes a look-up found; {} is end()
    gone,          \* gone[c]: what multimap's Put has erased and not yet replaced
    res,           \* res[c]: what the Local* function returns
    got            \* got[c][s]: the part of final_values read from server s

treeVars == <<kind, tree, call, it, gone, res, got>>
vars == <<stage, target, mutex, kind, tree, call, it, gone, res, got>>

Pairs == Keys \X Vals
KeysOf(m) == {p[1] : p \in m}

NoCall == [op |-> "none"]
MapCalls == [op : {"Put"}, key : Keys, val : Vals]
            \cup [op : {"Get", "Erase"}, key : Keys]
ScanCalls == [op : {"Contains"}, lo : Keys, hi : Keys] \cup [op : {"GetAllData"}]

\* As in UnorderedMap, "bad_alloc" is the allocator's exception.
Results == [ok : {"none", "true", "false", "bad_alloc"}, val : Vals]
NoResult == [ok |-> "none", val |-> DefaultVal]
NothingRead == [s \in Servers |-> {}]

TypeOK ==
    /\ RpcTypeOK
    /\ kind \in {"map", "multimap"}
    /\ tree \in [Servers -> SUBSET Pairs]
    /\ \A s \in Servers :
          IsFiniteSet(tree[s]) /\ Cardinality(tree[s]) <= Capacity
    /\ call \in [Clients -> MapCalls \cup ScanCalls \cup {NoCall}]
    /\ it \in [Clients -> SUBSET Pairs]
    /\ gone \in [Clients -> SUBSET Pairs]
    /\ res \in [Clients -> Results]
    /\ got \in [Clients -> [Servers -> SUBSET Pairs]]

Init ==
    /\ RpcInit
    /\ kind \in {"map", "multimap"}
    /\ tree = [s \in Servers |-> {}]
    /\ call = [c \in Clients |-> NoCall]
    /\ it = [c \in Clients |-> {}]
    /\ gone = [c \in Clients |-> {}]
    /\ res = [c \in Clients |-> NoResult]
    /\ got = [c \in Clients |-> NothingRead]

-----------------------------------------------------------------------------
\* A process calls operation cl, which addresses server s first.
Invoke(c, cl, s) ==
    /\ stage[c] = "idle"
    /\ Dispatch(c, s)
    /\ call' = [call EXCEPT ![c] = cl]
    /\ UNCHANGED <<kind, tree, it, gone, res, got>>

Route(k) == GetRoute(Hash[k], NumServers)

Put(c, k, v) == Invoke(c, [op |-> "Put", key |-> k, val |-> v], Route(k))
Get(c, k) == Invoke(c, [op |-> "Get", key |-> k], Route(k))
Erase(c, k) == Invoke(c, [op |-> "Erase", key |-> k], Route(k))

\* Contains and GetAllData begin with the caller's own server.  multimap's
\* Contains has one argument, a key.
Contains(c, lo, hi) ==
    /\ kind = "multimap" => lo = hi
    /\ Invoke(c, [op |-> "Contains", lo |-> lo, hi |-> hi], MyServer[c])

GetAllData(c) == Invoke(c, [op |-> "GetAllData"], MyServer[c])

-----------------------------------------------------------------------------
ServeRequest(c) == Accept(c) /\ UNCHANGED treeVars

Lock(c) == Acquire(c) /\ UNCHANGED treeVars

Unlock(c) == Release(c) /\ UNCHANGED treeVars

Mine(c) == tree[target[c]]

\* The nodes that find(key) may return.
Sought(c) == {p \in Mine(c) : p[1] = call[c].key}

\* find(key), explicit in LocalGet and in multimap's LocalPut, inside
\* insert_or_assign and erase in map's LocalPut and in LocalErase.
Find(c) ==
    /\ stage[c] = "read"
    /\ call[c] \in MapCalls
    /\ it' = [it EXCEPT ![c] = Sought(c)]
    /\ Advance(c, "apply")
    /\ UNCHANGED <<kind, tree, call, gone, res, got>>

\* The Local* function has computed its result.
Yield(c, ok, val) ==
    /\ res' = [res EXCEPT ![c] = [ok |-> ok, val |-> val]]
    /\ gone' = [gone EXCEPT ![c] = {}]
    /\ Advance(c, "unlock")
    /\ UNCHANGED <<kind, call, it, got>>

Applying(c, op) == stage[c] = "apply" /\ call[c].op = op

\* Replace the nodes that were found by the nodes new.
Rewrite(c, new) == tree' = [tree EXCEPT ![target[c]] = (@ \ it[c]) \cup new]

\* map's LocalPut: insert_or_assign of a present key.
MutantPutAssignKeepsValue(c) ==
    /\ Applying(c, "Put")
    /\ kind = "map" /\ it[c] # {}
    /\ tree' = tree
    /\ Yield(c, "true", DefaultVal)

PutAssign(c) ==
    /\ Applying(c, "Put")
    /\ kind = "map" /\ it[c] # {}
    /\ Rewrite(c, {<<call[c].key, call[c].val>>})
    /\ Yield(c, "true", DefaultVal)

\* multimap's LocalPut: the element that was found is erased.
PutErase(c) ==
    /\ Applying(c, "Put")
    /\ kind = "multimap"
    /\ \E p \in it[c] :
          /\ tree' = [tree EXCEPT ![target[c]] = @ \ {p}]
          /\ gone' = [gone EXCEPT ![c] = {p}]
    /\ it' = [it EXCEPT ![c] = {}]
    /\ UNCHANGED <<stage, target, mutex, kind, call, res, got>>

\* LocalPut: a node is allocated and linked, or the allocator throws.
MutantPutInsertOffByOne(c) ==
    /\ Applying(c, "Put")
    /\ it[c] = {}
    /\ Cardinality(Mine(c)) <= Capacity
    /\ Rewrite(c, {<<call[c].key, call[c].val>>})
    /\ Yield(c, "true", DefaultVal)

PutInsert(c) ==
    /\ Applying(c, "Put")
    /\ it[c] = {}
    /\ Cardinality(Mine(c)) < Capacity
    /\ Rewrite(c, {<<call[c].key, call[c].val>>})
    /\ Yield(c, "true", DefaultVal)

PutExhausted(c) ==
    /\ Applying(c, "Put")
    /\ it[c] = {}
    /\ Cardinality(Mine(c)) >= Capacity
    /\ tree' = tree
    /\ Yield(c, "bad_alloc", DefaultVal)

GetFound(c) ==
    /\ Applying(c, "Get")
    /\ \E p \in it[c] : Yield(c, "true", p[2])
    /\ tree' = tree

GetMissing(c) ==
    /\ Applying(c, "Get")
    /\ it[c] = {}
    /\ Yield(c, "false", DefaultVal)
    /\ tree' = tree

LocalErase(c) ==
    /\ Applying(c, "Erase")
    /\ Rewrite(c, {})
    /\ Yield(c, IF it[c] # {} THEN "true" ELSE "false", DefaultVal)

\* What c's scan reads of a shard with the nodes m, no two of one key.
ScanOf(c, m) ==
    LET lo == call[c].lo
        hi == call[c].hi
        keys == IF call[c].op = "GetAllData" THEN KeysOf(m)
                ELSE IF kind = "map" THEN MapScan(KeysOf(m), lo, hi)
                                     ELSE MultimapScan(KeysOf(m), lo)
    IN  {p \in m : p[1] \in keys}

\* LocalContainsInServer and LocalGetAllDataInServer, under the mutex; what they
\* find is appended to final_values.
ReadShard(c) ==
    /\ stage[c] = "read"
    /\ call[c] \in ScanCalls
    /\ got' = [got EXCEPT ![c][target[c]] = @ \cup ScanOf(c, Mine(c))]
    /\ Advance(c, "unlock")
    /\ UNCHANGED <<kind, tree, call, it, gone, res>>

-----------------------------------------------------------------------------
\* The servers a scan still addresses after server s: its own comes first,
\* then every other one in the order of its index.
LegsAfter(c, s) ==
    IF s = MyServer[c] THEN Servers \ {s}
                       ELSE {i \in Servers : i > s /\ i # MyServer[c]}

NextServer(c) ==
    /\ stage[c] = "reply"
    /\ call[c] \in ScanCalls
    /\ \E s \in LegsAfter(c, target[c]) :
          /\ \A i \in LegsAfter(c, target[c]) : s <= i
          /\ Dispatch(c, s)
    /\ UNCHANGED treeVars

\* The operation returns to its caller; its local variables are gone.
Return(c) ==
    /\ call[c] \in ScanCalls => LegsAfter(c, target[c]) = {}
    /\ Finish(c)
    /\ call' = [call EXCEPT ![c] = NoCall]
    /\ it' = [it EXCEPT ![c] = {}]
    /\ res' = [res EXCEPT ![c] = NoResult]
    /\ got' = [got EXCEPT ![c] = NothingRead]
    /\ UNCHANGED <<kind, tree, gone>>

LocalPut(c) == PutAssign(c) \/ PutErase(c) \/ PutInsert(c) \/ PutExhausted(c)
LocalGet(c) == GetFound(c) \/ GetMissing(c)

\* A step of a call that is under way.
Step(c) ==
    \/ ServeRequest(c) \/ Lock(c) \/ Find(c)
    \/ LocalPut(c) \/ LocalGet(c) \/ LocalErase(c) \/ ReadShard(c)
    \/ Unlock(c) \/ NextServer(c) \/ Return(c)

\* A process calls an operation on a key, or a scan.
StartKey(c) ==
    \E k \in Keys : (\E v \in Vals : Put(c, k, v)) \/ Get(c, k) \/ Erase(c, k)

StartScan(c) == GetAllData(c) \/ \E r \in Ranges : Contains(c, r[1], r[2])

Next ==
    \E c \in Clients :
        StartKey(c) \/ (c \in Scanners /\ StartScan(c)) \/ Step(c)

Spec == Init /\ [][Next]_vars

-----------------------------------------------------------------------------
\* A multimap is meant to hold several values of one key, but LocalPut erases
\* what it finds: neither class ever holds two nodes of one key, which would
\* need two Puts of a new key at the same time.
OneNodePerKey ==
    \A s \in Servers : \A p, q \in tree[s] : p[1] = q[1] => p = q

(***************************************************************************)
(* The inductive invariant.  A call addresses the home of its key, where   *)
(* all nodes of the key are, only such a call is ever in stage "apply",    *)
(* and nothing else has a result (CallShape, KeysAtHome).  What a look-up  *)
(* found is what is there for as long as the call acts on it               *)
(* (IteratorFresh).  Between the erase and the insert of multimap's        *)
(* LocalPut the shard has neither the old node nor the new one, but room   *)
(* for one, so that the insert cannot fail (GapHeld).  A scan of a shard   *)
(* is up to date until the lock is released (ScanFresh), and has nothing   *)
(* of the servers that it is still to read (ReadOnce).                     *)
(***************************************************************************)
CallShape ==
    \A c \in Clients :
        /\ call[c] \in MapCalls => target[c] = Route(call[c].key)
        /\ stage[c] = "apply" => call[c] \in MapCalls
        /\ stage[c] = "idle" => call[c] = NoCall
        /\ call[c] \notin MapCalls => res[c] = NoResult
        /\ call[c] \notin ScanCalls => got[c] = NothingRead
        /\ kind = "multimap" /\ call[c].op = "Contains"
              => call[c].lo = call[c].hi

KeysAtHome == \A s \in Servers : \A p \in tree[s] : Route(p[1]) = s

IteratorFresh == \A c \in Clients : stage[c] = "apply" => it[c] = Sought(c)

GapHeld ==
    \A c \in Clients : gone[c] # {} =>
        /\ kind = "multimap" /\ Applying(c, "Put") /\ it[c] = {}
        /\ \A p \in gone[c] : p[1] = call[c].key
        /\ Cardinality(Mine(c)) < Capacity

ScanFresh ==
    \A c \in Clients :
        call[c] \in ScanCalls /\ stage[c] = "unlock"
            => got[c][target[c]] = ScanOf(c, Mine(c))

Unread(c) ==
    LegsAfter(c, target[c])
    \cup (IF stage[c] \in {"unlock", "reply"} THEN {} ELSE {target[c]})

ReadOnce ==
    \A c \in Clients :
        call[c] \in ScanCalls => \A s \in Unread(c) : got[c][s] = {}

ShardInv ==
    /\ TypeOK /\ LockDiscipline /\ CallShape /\ OneNodePerKey
    /\ KeysAtHome /\ IteratorFresh /\ GapHeld /\ ScanFresh /\ ReadOnce

\* The pairs that c's scan is for, among those of m.
Wanted(c, m) ==
    IF call[c].op = "GetAllData" THEN m
    ELSE {p \in m : p[1] \in InRange(KeysOf(m), call[c].lo, call[c].hi)}

\* What a scan returns of one server beyond what it was for is a single pair;
\* map's is beyond key_end, multimap's may have any key.
StraysAreAlone ==
    \A c \in Clients, s \in Servers :
        call[c] \in ScanCalls =>
            \A p \in got[c][s] \ Wanted(c, got[c][s]) :
                got[c][s] = {p} /\ (kind = "map" => p[1] > call[c].hi)

\* While a scan holds a shard's lock, what it has not read of what it is for
\* is at most key_start, alone in a map's shard.
ScanForgetsOnlyStart ==
    \A c \in Clients :
        call[c] \in ScanCalls /\ stage[c] = "unlock" =>
            \A p \in Wanted(c, Mine(c)) \ got[c][target[c]] :
                kind = "map" /\ Mine(c) = {p} /\ p[1] = call[c].lo

(***************************************************************************)
(* The shards implement AtomicMap, as those of unordered_map do, and for   *)
(* every number of servers.  The element that a Put of a multimap has      *)
(* erased and is about to replace still counts: nobody sees the gap.       *)
(* Contains and GetAllData, which are not atomic, are not visible.         *)
(***************************************************************************)
Visible(c) == call[c] \in MapCalls

store == (UNION {tree[s] : s \in Servers}) \cup (UNION {gone[c] : c \in Clients})

phase == [c \in Clients |->
            IF ~Visible(c) THEN "idle"
            ELSE IF stage[c] \in {"unlock", "reply"} THEN "done" ELSE "pending"]

absCall == [c \in Clients |-> IF Visible(c) THEN call[c] ELSE NoCall]

Abstract == INSTANCE AtomicMap WITH call <- absCall

\* Put, Get and Erase are linearizable although three servers do not divide
\* 2^16: they agree on the server of a key.
Linearizable == Abstract!Spec
=============================================================================
