-------------------------- MODULE OrderedMapProofs --------------------------
(***************************************************************************)
(* Theorems about OrderedMap, that is, map and multimap, for any number of *)
(* processes, servers, worker threads, keys and values and any hash.       *)
(***************************************************************************)
EXTENDS OrderedMap, SharedProofs

\* A key's home is a server.
LEMMA RouteInServers ==
    ASSUME NEW k \in Keys
    PROVE  Route(k) \in Servers
  <1> DEFINE h == Hash[k]
             n == NumServers
  <1>1. h \in Nat /\ n \in Nat /\ n > 0 /\ n <= 65536
    BY NumServersAssumption, MapDataAssumption
  <1> HIDE DEF h, n
  <1>2. h % n \in 0 .. (n - 1)
    BY <1>1, SMT
  <1>3. (h % n) % 65536 \in 0 .. (n - 1)
    BY <1>1, <1>2, SMT
  <1> QED
    BY <1>3, SMT DEF Route, GetRoute, UInt16Range, Servers, h, n

\* What the operations of a call record are.
LEMMA CallTypes ==
    /\ \A cl \in MapCalls : /\ cl.key \in Keys
                            /\ cl.op \in {"Put", "Get", "Erase"}
                            /\ cl.op = "Put" => cl.val \in Vals
    /\ \A cl \in ScanCalls : cl.op \in {"Contains", "GetAllData"}
    /\ \A cl \in ScanCalls : cl.op = "Contains" => cl.lo \in Keys /\ cl.hi \in Keys
    /\ NoCall.op = "none"
    /\ NoCall \notin MapCalls /\ NoCall \notin ScanCalls
    /\ \A cl \in ScanCalls : cl \notin MapCalls
  <1> USE DEF MapCalls, ScanCalls, NoCall
  <1>1. \A cl \in MapCalls : cl.key \in Keys
    OBVIOUS
  <1>2. \A cl \in MapCalls : cl.op \in {"Put", "Get", "Erase"}
    OBVIOUS
  <1>3. \A cl \in MapCalls : cl.op = "Put" => cl.val \in Vals
    OBVIOUS
  <1>4. \A cl \in ScanCalls : cl.op \in {"Contains", "GetAllData"}
    OBVIOUS
  <1>5. \A cl \in ScanCalls : cl.op = "Contains" => cl.lo \in Keys /\ cl.hi \in Keys
    OBVIOUS
  <1>6. NoCall.op = "none"
    OBVIOUS
  <1>7. NoCall \notin MapCalls /\ NoCall \notin ScanCalls
    BY <1>2, <1>4, <1>6
  <1>8. \A cl \in ScanCalls : cl \notin MapCalls
    BY <1>2, <1>4
  <1> QED
    BY <1>1, <1>2, <1>3, <1>4, <1>5, <1>6, <1>7, <1>8

-----------------------------------------------------------------------------
\* Process c calls an operation.
Start(c) == StartKey(c) \/ StartScan(c)

\* A call as the operations make it: cl addresses s first.
Called(cl, s) ==
    /\ cl \in MapCalls \cup ScanCalls /\ s \in Servers
    /\ cl \in MapCalls => s = Route(cl.key)
    /\ kind = "multimap" /\ cl.op = "Contains" => cl.lo = cl.hi

\* Whatever a process calls is such a call.
LEMMA StartInvokes ==
    ASSUME NEW c \in Clients, Start(c)
    PROVE  \E cl, s : Called(cl, s) /\ Invoke(c, cl, s)
  <1>1. ASSUME NEW k \in Keys, NEW v \in Vals, Put(c, k, v)
        PROVE  \E cl, s : Called(cl, s) /\ Invoke(c, cl, s)
    <2> DEFINE cl == [op |-> "Put", key |-> k, val |-> v]
    <2>1. cl \in MapCalls /\ cl.key = k /\ cl.op = "Put"
      BY DEF MapCalls
    <2> HIDE DEF cl
    <2>2. Called(cl, Route(k))
      BY <2>1, RouteInServers DEF Called
    <2> QED
      BY <1>1, <2>2 DEF Put, cl
  <1>2. ASSUME NEW k \in Keys, NEW op \in {"Get", "Erase"},
               Invoke(c, [op |-> op, key |-> k], Route(k))
        PROVE  \E cl, s : Called(cl, s) /\ Invoke(c, cl, s)
    <2> DEFINE cl == [op |-> op, key |-> k]
    <2>1. cl \in MapCalls /\ cl.key = k /\ cl.op # "Contains"
      BY DEF MapCalls
    <2> HIDE DEF cl
    <2>2. Called(cl, Route(k))
      BY <2>1, RouteInServers DEF Called
    <2> QED
      BY <1>2, <2>2 DEF cl
  <1>3. ASSUME GetAllData(c)
        PROVE  \E cl, s : Called(cl, s) /\ Invoke(c, cl, s)
    <2> DEFINE cl == [op |-> "GetAllData"]
    <2>1. cl \in ScanCalls /\ cl.op = "GetAllData"
      BY DEF ScanCalls
    <2> HIDE DEF cl
    <2>2. Called(cl, MyServer[c])
      BY <2>1, CallTypes, PlacementAssumption DEF Called
    <2> QED
      BY <1>3, <2>2 DEF GetAllData, cl
  <1>4. ASSUME NEW r \in Ranges, Contains(c, r[1], r[2])
        PROVE  \E cl, s : Called(cl, s) /\ Invoke(c, cl, s)
    <2> DEFINE cl == [op |-> "Contains", lo |-> r[1], hi |-> r[2]]
    <2>1. r[1] \in Keys /\ r[2] \in Keys
      BY MapDataAssumption
    <2>2. cl \in ScanCalls /\ cl.lo = r[1] /\ cl.hi = r[2]
      BY <2>1 DEF ScanCalls
    <2>3. kind = "multimap" => r[1] = r[2]
      BY <1>4 DEF Contains
    <2> HIDE DEF cl
    <2>4. Called(cl, MyServer[c])
      BY <2>2, <2>3, CallTypes, PlacementAssumption DEF Called
    <2> QED
      BY <1>4, <2>4 DEF Contains, cl
  <1> QED
    BY <1>1, <1>2, <1>3, <1>4 DEF Start, StartKey, StartScan, Get, Erase

\* What a call changes, and what it starts from.
LEMMA InvokeEffect ==
    ASSUME TypeOK, CallShape, NEW c \in Clients, NEW cl, NEW s,
           Called(cl, s), Invoke(c, cl, s)
    PROVE  /\ stage[c] = "idle" /\ call[c] = NoCall
           /\ res[c] = NoResult /\ got[c] = NothingRead
           /\ call'[c] = cl /\ target'[c] = s
           /\ stage'[c] \in {"entry", "sent"}
           /\ UNCHANGED <<kind, tree, it, gone, res, got>>
  <1> USE DEF TypeOK, RpcTypeOK
  <1>1. /\ stage[c] = "idle" /\ call[c] = NoCall
        /\ NoCall \notin MapCalls /\ NoCall \notin ScanCalls
    BY CallTypes DEF Invoke, CallShape
  <1>2. res[c] = NoResult /\ got[c] = NothingRead
    BY <1>1 DEF CallShape
  <1>3. target'[c] = s
    BY DispatchType DEF Invoke, Called
  <1> QED
    BY <1>1, <1>2, <1>3 DEF Invoke, Dispatch

\* A step that acts on what a look-up has found, other than the erase in
\* multimap's LocalPut, computes the result.
Applies(d) ==
    \/ PutAssign(d) \/ PutInsert(d) \/ PutExhausted(d)
    \/ LocalGet(d) \/ LocalErase(d)

LEMMA AppliesYields ==
    ASSUME TypeOK, NEW d \in Clients, Applies(d)
    PROVE  /\ stage[d] = "apply" /\ call[d].op \in {"Put", "Get", "Erase"}
           /\ \E ok \in {"true", "false", "bad_alloc"}, v \in Vals : Yield(d, ok, v)
           /\ \/ tree' = tree
              \/ \E new \in SUBSET {<<call[d].key, call[d].val>>} :
                    /\ Rewrite(d, new)
                    /\ new # {} => call[d].op = "Put"
                    /\ it[d] = {} /\ new # {} => Cardinality(Mine(d)) < Capacity
  <1>0. DefaultVal \in Vals
    BY MapDataAssumption
  <1>1. CASE PutAssign(d)
    BY <1>0, <1>1 DEF PutAssign, Applying
  <1>2. CASE PutInsert(d)
    BY <1>0, <1>2 DEF PutInsert, Applying
  <1>3. CASE PutExhausted(d) \/ GetMissing(d)
    BY <1>0, <1>3 DEF PutExhausted, GetMissing, Applying
  <1>4. CASE GetFound(d)
    <2>1. \A p \in it[d] : p[2] \in Vals
      BY DEF TypeOK, Pairs
    <2> QED
      BY <1>4, <2>1 DEF GetFound, Applying
  <1>5. CASE LocalErase(d)
    BY <1>0, <1>5 DEF LocalErase, Applying
  <1> QED
    BY <1>1, <1>2, <1>3, <1>4, <1>5 DEF Applies, LocalGet

\* The steps of a call, in the groups that the lemmas treat alike.
LEMMA StepCases ==
    ASSUME NEW d \in Clients, Step(d)
    PROVE  \/ ServeRequest(d) \/ Lock(d) \/ Unlock(d) \/ Find(d) \/ ReadShard(d)
           \/ Applies(d) \/ PutErase(d) \/ NextServer(d) \/ Return(d)
  BY DEF Step, LocalPut, Applies

\* A step of process d leaves every other process's call alone, and changes no
\* shard but, in stage "apply", the one d addresses.
LEMMA Frame ==
    ASSUME TypeOK, NEW d \in Clients, Start(d) \/ Step(d)
    PROVE  /\ kind' = kind
           /\ \A c \in Clients \ {d} :
                 /\ stage'[c] = stage[c] /\ target'[c] = target[c]
                 /\ call'[c] = call[c] /\ it'[c] = it[c] /\ res'[c] = res[c]
                 /\ gone'[c] = gone[c] /\ got'[c] = got[c]
           /\ \A s \in Servers : \/ tree'[s] = tree[s]
                                 \/ s = target[d] /\ stage[d] = "apply"
  <1> USE DEF TypeOK, RpcTypeOK
  <1>1. CASE Start(d)
    <2>1. PICK cl, s : Invoke(d, cl, s)
      BY <1>1, StartInvokes
    <2> QED
      BY <2>1 DEF Invoke, Dispatch
  <1>2. CASE ServeRequest(d) \/ Lock(d) \/ Unlock(d)
    BY <1>2 DEF ServeRequest, Accept, Lock, Acquire, Unlock, Release, treeVars
  <1>3. CASE Find(d) \/ ReadShard(d)
    BY <1>3 DEF Find, ReadShard, Advance
  <1>4. CASE Applies(d)
    <2>1. /\ stage[d] = "apply" /\ \E ok, v : Yield(d, ok, v)
          /\ tree' = tree \/ \E new : Rewrite(d, new)
      BY <1>4, AppliesYields
    <2>2. PICK ok, v : Yield(d, ok, v)
      BY <2>1
    <2>3. \A s \in Servers : tree'[s] = tree[s] \/ s = target[d]
      BY <2>1 DEF Rewrite
    <2> QED
      BY <2>1, <2>2, <2>3 DEF Yield, Advance
  <1>5. CASE PutErase(d)
    <2>1. PICK p \in it[d] :
             /\ tree' = [tree EXCEPT ![target[d]] = @ \ {p}]
             /\ gone' = [gone EXCEPT ![d] = {p}]
      BY <1>5 DEF PutErase
    <2> QED
      BY <1>5, <2>1 DEF PutErase, Applying
  <1>6. CASE NextServer(d) \/ Return(d)
    BY <1>6 DEF NextServer, Dispatch, Return, Finish, treeVars
  <1> QED
    BY <1>1, <1>2, <1>3, <1>4, <1>5, <1>6, StepCases

\* In particular a call that holds its shard's lock finds the shard unchanged.
LEMMA HeldFrame ==
    ASSUME TypeOK, LockDiscipline, NEW d \in Clients, Start(d) \/ Step(d),
           NEW c \in Clients \ {d}, stage[c] \in Holding
    PROVE  Mine(c)' = Mine(c)
  <1>1. target'[c] = target[c] /\ target[c] \in Servers
    BY Frame DEF TypeOK, RpcTypeOK
  <1>2. ~(target[c] = target[d] /\ stage[d] = "apply")
    BY Exclusion DEF TypeOK, Holding
  <1>3. tree'[target[c]] = tree[target[c]]
    BY <1>1, <1>2, Frame
  <1> QED
    BY <1>1, <1>3 DEF Mine

-----------------------------------------------------------------------------
\* What a step does to the trees: at most, the nodes of the call's key give
\* way to a new one.
LEMMA Writes ==
    ASSUME ShardInv, NEW d \in Clients, Start(d) \/ Step(d), tree' # tree
    PROVE  /\ stage[d] = "apply" /\ call[d] \in MapCalls
           /\ \E new \in SUBSET {<<call[d].key, call[d].val>>} :
                 /\ new # {} => call[d].op = "Put"
                 /\ tree' = [tree EXCEPT ![target[d]] = (@ \ Sought(d)) \cup new]
                 /\ new # {} /\ Sought(d) = {} => Cardinality(Mine(d)) < Capacity
  <1> USE DEF ShardInv
  <1>1. Step(d)
    BY StartInvokes DEF Invoke
  <1>2. ~(ServeRequest(d) \/ Lock(d) \/ Unlock(d) \/ NextServer(d))
    BY DEF ServeRequest, Lock, Unlock, NextServer, treeVars
  <1>3. ~(Find(d) \/ ReadShard(d) \/ Return(d))
    BY DEF Find, ReadShard, Return
  <1>4. CASE Applies(d)
    <2>1. stage[d] = "apply" /\ call[d] \in MapCalls
      BY <1>4, AppliesYields DEF CallShape
    <2>2. it[d] = Sought(d)
      BY <2>1 DEF IteratorFresh
    <2>3. PICK new \in SUBSET {<<call[d].key, call[d].val>>} :
             /\ Rewrite(d, new)
             /\ new # {} => call[d].op = "Put"
             /\ it[d] = {} /\ new # {} => Cardinality(Mine(d)) < Capacity
      BY <1>4, AppliesYields
    <2> QED
      BY <2>1, <2>2, <2>3 DEF Rewrite
  <1>5. CASE PutErase(d)
    <2>1. stage[d] = "apply" /\ call[d] \in MapCalls
      BY <1>5 DEF PutErase, Applying, CallShape
    <2>2. it[d] = Sought(d) /\ target[d] \in Servers
      BY <2>1 DEF IteratorFresh, TypeOK, RpcTypeOK
    <2>3. PICK p \in Sought(d) : tree' = [tree EXCEPT ![target[d]] = @ \ {p}]
      BY <1>5, <2>2 DEF PutErase
    <2>4. Sought(d) = {p}
      <3>1. \A q \in Sought(d) : q \in tree[target[d]] /\ q[1] = call[d].key
        BY DEF Sought, Mine
      <3> QED
        BY <2>2, <2>3, <3>1 DEF OneNodePerKey
    <2>5. tree' = [tree EXCEPT ![target[d]] = (@ \ Sought(d)) \cup {}]
      BY <2>3, <2>4
    <2> QED
      BY <2>1, <2>5
  <1> QED
    BY <1>1, <1>2, <1>3, <1>4, <1>5, StepCases

\* A tree keeps its types and its bound, one node per key, and only keys at
\* home.
TreesSound ==
    /\ tree \in [Servers -> SUBSET Pairs]
    /\ \A s \in Servers :
          IsFiniteSet(tree[s]) /\ Cardinality(tree[s]) <= Capacity
    /\ OneNodePerKey /\ KeysAtHome

LEMMA TreeStep ==
    ASSUME ShardInv, NEW d \in Clients, Start(d) \/ Step(d)
    PROVE  TreesSound'
  <1> USE DEF ShardInv, TypeOK, RpcTypeOK
  <1>1. CASE tree' = tree
    BY <1>1 DEF TreesSound, OneNodePerKey, KeysAtHome
  <1>2. CASE tree' # tree
    <2> DEFINE k == call[d].key
               t == target[d]
               node == <<k, call[d].val>>
    <2>1. PICK new \in SUBSET {node} :
             /\ new # {} => call[d].op = "Put"
             /\ tree' = [tree EXCEPT ![t] = (@ \ Sought(d)) \cup new]
             /\ new # {} /\ Sought(d) = {} => Cardinality(Mine(d)) < Capacity
      BY <1>2, Writes
    <2>2. /\ t \in Servers /\ k \in Keys /\ t = Route(k)
          /\ call[d].op = "Put" => call[d].val \in Vals
      BY <1>2, Writes, CallTypes DEF CallShape
    <2>3. new \subseteq Pairs
      BY <2>1, <2>2 DEF Pairs
    <2>4. tree'[t] = (tree[t] \ Sought(d)) \cup new
          /\ \A s \in Servers \ {t} : tree'[s] = tree[s]
      BY <2>1, <2>2
    <2>5. tree' \in [Servers -> SUBSET Pairs]
      BY <2>1, <2>2, <2>3
    <2>6. \A p \in tree[t] \ Sought(d) : p[1] # k
      BY DEF Sought, Mine
    <2>7. \A p \in new : p = node /\ p[1] = k
      BY <2>1
    <2>8. IsFiniteSet(tree'[t]) /\ Cardinality(tree'[t]) <= Capacity
      <3> DEFINE rest == tree[t] \ Sought(d)
      <3>1. /\ IsFiniteSet(tree[t]) /\ Cardinality(tree[t]) <= Capacity
            /\ Mine(d) = tree[t]
        BY <2>2 DEF Mine
      <3>2. /\ IsFiniteSet(rest) /\ Cardinality(rest) <= Cardinality(tree[t])
            /\ Cardinality(rest) = Cardinality(tree[t]) => Sought(d) = {}
        <4>1. rest \in SUBSET tree[t]
          OBVIOUS
        <4>2. tree[t] = rest => Sought(d) = {}
          BY <3>1 DEF Sought
        <4> QED
          BY <3>1, <4>1, <4>2, FS_Subset
      <3>3. /\ Cardinality(rest) \in Nat /\ Cardinality(tree[t]) \in Nat
            /\ Capacity \in Nat
        BY <3>1, <3>2, FS_CardinalityType, MapDataAssumption
      <3> HIDE DEF rest
      <3>4. CASE new = {}
        BY <2>4, <3>1, <3>2, <3>3, <3>4 DEF rest
      <3>5. CASE new = {node}
        <4>1. Cardinality(rest) < Capacity
          <5>1. CASE Sought(d) = {}
            <6>1. Cardinality(tree[t]) < Capacity
              BY <2>1, <3>1, <3>5, <5>1
            <6> QED
              BY <3>2, <3>3, <6>1
          <5>2. CASE Sought(d) # {}
            <6>1. Cardinality(rest) # Cardinality(tree[t])
              BY <3>2, <5>2
            <6>2. \A i, j, n \in Nat : i <= j /\ j <= n /\ i # j => i < n
              OBVIOUS
            <6> QED
              BY <3>1, <3>2, <3>3, <6>1, <6>2, Zenon
          <5> QED
            BY <5>1, <5>2
        <4>2. /\ IsFiniteSet(rest \cup {node})
              /\ Cardinality(rest \cup {node}) \in
                    {Cardinality(rest), Cardinality(rest) + 1}
          BY <3>2, FS_AddElement
        <4>3. Cardinality(rest \cup {node}) \in Nat
          BY <4>2, FS_CardinalityType
        <4>4. tree'[t] = rest \cup {node}
          BY <2>4, <3>5 DEF rest
        <4> QED
          BY <3>3, <4>1, <4>2, <4>3, <4>4
      <3> QED
        BY <2>1, <3>4, <3>5
    <2>9. OneNodePerKey'
      <3> SUFFICES ASSUME NEW s \in Servers, NEW p \in tree'[s],
                          NEW q \in tree'[s], p[1] = q[1]
                   PROVE  p = q
        BY DEF OneNodePerKey
      <3>1. CASE s # t
        BY <2>4, <3>1 DEF OneNodePerKey
      <3>2. CASE s = t
        BY <2>2, <2>4, <2>6, <2>7, <3>2 DEF OneNodePerKey
      <3> QED
        BY <3>1, <3>2
    <2>10. KeysAtHome'
      BY <2>2, <2>4, <2>7 DEF KeysAtHome
    <2> QED
      BY <2>4, <2>5, <2>8, <2>9, <2>10 DEF TreesSound
  <1> QED
    BY <1>1, <1>2

\* Every value is of its type after a step.
LEMMA TypeStep ==
    ASSUME ShardInv, NEW d \in Clients, Start(d) \/ Step(d)
    PROVE  TypeOK'
  <1> USE DEF ShardInv
  <1>0. {"read", "apply", "unlock"} \subseteq Stages
    BY DEF Stages
  <1>a. DefaultVal \in Vals /\ NoResult \in Results
    BY MapDataAssumption DEF Results, NoResult
  <1>b. /\ tree' \in [Servers -> SUBSET Pairs]
        /\ \A s \in Servers :
              IsFiniteSet(tree'[s]) /\ Cardinality(tree'[s]) <= Capacity
    BY TreeStep DEF TreesSound
  <1>c. kind' \in {"map", "multimap"} /\ target[d] \in Servers
    BY Frame DEF TypeOK, RpcTypeOK
  <1>d. Mine(d) \in SUBSET Pairs
    BY <1>c DEF Mine, TypeOK
  <1> DEFINE Rest == /\ call' \in [Clients -> MapCalls \cup ScanCalls \cup {NoCall}]
                     /\ it' \in [Clients -> SUBSET Pairs]
                     /\ gone' \in [Clients -> SUBSET Pairs]
                     /\ res' \in [Clients -> Results]
                     /\ got' \in [Clients -> [Servers -> SUBSET Pairs]]
  <1>1. CASE Start(d)
    <2>1. PICK cl, s : Called(cl, s) /\ Invoke(d, cl, s)
      BY <1>1, StartInvokes
    <2>2. RpcTypeOK'
      BY <2>1, DispatchType DEF Called, Invoke, TypeOK
    <2>3. Rest
      BY <2>1 DEF Called, Invoke, TypeOK
    <2> QED
      BY <1>b, <1>c, <2>2, <2>3 DEF TypeOK
  <1>2. CASE ServeRequest(d) \/ Lock(d) \/ Unlock(d)
    <2>1. RpcTypeOK'
      BY <1>2, RpcStepType DEF ServeRequest, Lock, Unlock, TypeOK
    <2>2. Rest
      BY <1>2 DEF ServeRequest, Lock, Unlock, treeVars, TypeOK
    <2> QED
      BY <1>b, <1>c, <2>1, <2>2 DEF TypeOK
  <1>3. CASE Find(d)
    <2>1. RpcTypeOK'
      BY <1>0, <1>3, RpcStepType DEF Find, TypeOK
    <2>2. Sought(d) \in SUBSET Pairs
      BY <1>d DEF Sought
    <2>3. Rest
      BY <1>3, <2>2 DEF Find, TypeOK
    <2> QED
      BY <1>b, <1>c, <2>1, <2>3 DEF TypeOK
  <1>4. CASE Applies(d)
    <2>1. PICK ok \in {"true", "false", "bad_alloc"}, v \in Vals : Yield(d, ok, v)
      BY <1>4, AppliesYields
    <2>2. RpcTypeOK'
      BY <1>0, <2>1, RpcStepType DEF Yield, TypeOK
    <2>3. Rest
      BY <2>1 DEF Yield, TypeOK, Results
    <2> QED
      BY <1>b, <1>c, <2>2, <2>3 DEF TypeOK
  <1>5. CASE PutErase(d)
    <2>1. RpcTypeOK'
      BY <1>5 DEF PutErase, TypeOK, RpcTypeOK
    <2>2. PICK p \in it[d] : gone' = [gone EXCEPT ![d] = {p}]
      BY <1>5 DEF PutErase
    <2>3. Rest
      BY <1>5, <2>2 DEF PutErase, TypeOK
    <2> QED
      BY <1>b, <1>c, <2>1, <2>3 DEF TypeOK
  <1>6. CASE ReadShard(d)
    <2>1. RpcTypeOK'
      BY <1>0, <1>6, RpcStepType DEF ReadShard, TypeOK
    <2>2. ScanOf(d, Mine(d)) \in SUBSET Pairs
      BY <1>d DEF ScanOf
    <2>3. got' \in [Clients -> [Servers -> SUBSET Pairs]]
      BY <1>6, <1>c, <2>2 DEF ReadShard, TypeOK
    <2>4. Rest
      BY <1>6, <2>3 DEF ReadShard, TypeOK
    <2> QED
      BY <1>b, <1>c, <2>1, <2>4 DEF TypeOK
  <1>7. CASE NextServer(d)
    <2>1. LegsAfter(d, target[d]) \subseteq Servers
      BY DEF LegsAfter
    <2>2. RpcTypeOK'
      BY <1>7, <2>1, DispatchType DEF NextServer, TypeOK
    <2>3. Rest
      BY <1>7 DEF NextServer, treeVars, TypeOK
    <2> QED
      BY <1>b, <1>c, <2>2, <2>3 DEF TypeOK
  <1>8. CASE Return(d)
    <2>1. RpcTypeOK'
      BY <1>8, RpcStepType DEF Return, TypeOK
    <2>2. NothingRead \in [Servers -> SUBSET Pairs]
      BY DEF NothingRead
    <2>3. Rest
      BY <1>8, <1>a, <2>2 DEF Return, TypeOK
    <2> QED
      BY <1>b, <1>c, <2>1, <2>3 DEF TypeOK
  <1> QED
    BY <1>1, <1>2, <1>3, <1>4, <1>5, <1>6, <1>7, <1>8, StepCases

\* The lock discipline survives a step of any process.
LEMMA LockStep ==
    ASSUME TypeOK, LockDiscipline, NEW d \in Clients, Start(d) \/ Step(d)
    PROVE  LockDiscipline'
  <1> USE DEF TypeOK
  <1>1. CASE Start(d)
    <2>1. PICK cl, s : Called(cl, s) /\ Invoke(d, cl, s)
      BY <1>1, StartInvokes
    <2> QED
      BY <2>1, DispatchLocks DEF Called, Invoke, Holding
  <1>2. CASE ServeRequest(d) \/ Lock(d) \/ Unlock(d) \/ Return(d)
    BY <1>2, RpcStepLocks DEF ServeRequest, Lock, Unlock, Return
  <1>3. CASE Find(d) \/ ReadShard(d)
    BY <1>3, RpcStepLocks DEF Find, ReadShard, Holding
  <1>4. CASE Applies(d)
    <2>1. stage[d] = "apply" /\ Advance(d, "unlock")
      BY <1>4, AppliesYields DEF Yield
    <2> QED
      BY <2>1, RpcStepLocks DEF Holding
  <1>5. CASE PutErase(d)
    BY <1>5 DEF PutErase, LockDiscipline
  <1>6. CASE NextServer(d)
    <2>1. PICK s \in LegsAfter(d, target[d]) : Dispatch(d, s)
      BY <1>6 DEF NextServer
    <2> QED
      BY <1>6, <2>1, DispatchLocks DEF NextServer, LegsAfter, Holding
  <1> QED
    BY <1>1, <1>2, <1>3, <1>4, <1>5, <1>6, StepCases

-----------------------------------------------------------------------------
\* What the step of process d does to the parts of the invariant that are
\* about d's own call, for each group of steps.
ShapeOf(c) ==
    /\ call[c] \in MapCalls => target[c] = Route(call[c].key)
    /\ stage[c] = "apply" => call[c] \in MapCalls
    /\ stage[c] = "idle" => call[c] = NoCall
    /\ call[c] \notin MapCalls => res[c] = NoResult
    /\ call[c] \notin ScanCalls => got[c] = NothingRead
    /\ kind = "multimap" /\ call[c].op = "Contains" => call[c].lo = call[c].hi

FreshOf(c) == stage[c] = "apply" => it[c] = Sought(c)

GapOf(c) ==
    gone[c] # {} =>
        /\ kind = "multimap" /\ Applying(c, "Put") /\ it[c] = {}
        /\ \A p \in gone[c] : p[1] = call[c].key
        /\ Cardinality(Mine(c)) < Capacity

ScanOfCall(c) ==
    call[c] \in ScanCalls /\ stage[c] = "unlock"
        => got[c][target[c]] = ScanOf(c, Mine(c))

OnceOf(c) == call[c] \in ScanCalls => \A s \in Unread(c) : got[c][s] = {}

CallSound(c) ==
    ShapeOf(c) /\ FreshOf(c) /\ GapOf(c) /\ ScanOfCall(c) /\ OnceOf(c)

\* The call invariants are those of all calls.
LEMMA CallsSound ==
    (CallShape /\ IteratorFresh /\ GapHeld /\ ScanFresh /\ ReadOnce)
        <=> \A c \in Clients : CallSound(c)
  BY DEF CallShape, IteratorFresh, GapHeld, ScanFresh, ReadOnce, CallSound,
         ShapeOf, FreshOf, GapOf, ScanOfCall, OnceOf

\* A step of d does not disturb another call: where that one relies on a
\* shard it holds the lock.
LEMMA OthersStep ==
    ASSUME ShardInv, NEW d \in Clients, Start(d) \/ Step(d),
           NEW c \in Clients \ {d}
    PROVE  CallSound(c)'
  <1> USE DEF ShardInv
  <1>1. CallSound(c)
    BY CallsSound
  <1>2. /\ stage'[c] = stage[c] /\ target'[c] = target[c]
        /\ call'[c] = call[c] /\ it'[c] = it[c] /\ res'[c] = res[c]
        /\ gone'[c] = gone[c] /\ got'[c] = got[c] /\ kind' = kind
    BY Frame
  <1>3. stage[c] \in Holding => Mine(c)' = Mine(c)
    BY HeldFrame
  <1>4. ShapeOf(c)'
    BY <1>1, <1>2 DEF CallSound, ShapeOf, Route
  <1>5. FreshOf(c)'
    <2> SUFFICES ASSUME stage'[c] = "apply" PROVE it'[c] = Sought(c)'
      BY DEF FreshOf
    <2>1. it[c] = Sought(c) /\ Mine(c)' = Mine(c)
      BY <1>1, <1>2, <1>3 DEF CallSound, FreshOf, Holding
    <2> QED
      BY <1>2, <2>1 DEF Sought
  <1>6. GapOf(c)'
    <2> SUFFICES ASSUME gone'[c] # {}
                 PROVE  /\ kind' = "multimap" /\ Applying(c, "Put")' /\ it'[c] = {}
                        /\ \A p \in gone'[c] : p[1] = call'[c].key
                        /\ Cardinality(Mine(c)') < Capacity
      BY DEF GapOf
    <2>1. /\ kind = "multimap" /\ Applying(c, "Put") /\ it[c] = {}
          /\ \A p \in gone[c] : p[1] = call[c].key
          /\ Cardinality(Mine(c)) < Capacity
      BY <1>1, <1>2 DEF CallSound, GapOf
    <2>2. Mine(c)' = Mine(c)
      BY <1>3, <2>1 DEF Applying, Holding
    <2> QED
      BY <1>2, <2>1, <2>2 DEF Applying
  <1>7. ScanOfCall(c)'
    <2> SUFFICES ASSUME call'[c] \in ScanCalls, stage'[c] = "unlock"
                 PROVE  got'[c][target'[c]] = ScanOf(c, Mine(c))'
      BY DEF ScanOfCall
    <2>1. got[c][target[c]] = ScanOf(c, Mine(c)) /\ Mine(c)' = Mine(c)
      BY <1>1, <1>2, <1>3 DEF CallSound, ScanOfCall, Holding
    <2> QED
      BY <1>2, <2>1 DEF ScanOf
  <1>8. OnceOf(c)'
    <2>1. Unread(c)' = Unread(c)
      BY <1>2 DEF Unread, LegsAfter
    <2> QED
      BY <1>1, <1>2, <2>1 DEF CallSound, OnceOf
  <1> QED
    BY <1>4, <1>5, <1>6, <1>7, <1>8 DEF CallSound

\* The servers that a scan is still to read are those it was to read before
\* it went on to the next one.
LEMMA NextIsUnread ==
    ASSUME TypeOK, NEW d \in Clients, NextServer(d)
    PROVE  Unread(d)' \subseteq Unread(d)
  <1> USE DEF TypeOK, RpcTypeOK
  <1> DEFINE my == MyServer[d]
             t == target[d]
  <1>1. PICK s \in LegsAfter(d, t) : Dispatch(d, s)
    BY DEF NextServer
  <1>2. stage[d] = "reply" /\ target'[d] = s /\ stage'[d] \in {"entry", "sent"}
    BY <1>1, DispatchType DEF NextServer, LegsAfter, Dispatch
  <1>3. Unread(d) = LegsAfter(d, t) /\ Unread(d)' = LegsAfter(d, s) \cup {s}
    BY <1>2 DEF Unread, LegsAfter
  <1>4. s \in Servers /\ s # my /\ (t # my => s > t)
    BY <1>1 DEF LegsAfter
  <1>5. LegsAfter(d, s) = {i \in Servers : i > s /\ i # my}
    BY <1>4 DEF LegsAfter
  <1>6. ASSUME NEW i \in Servers, i > s, i # my PROVE i \in LegsAfter(d, t)
    <2>1. CASE t = my
      BY <1>6, <2>1 DEF LegsAfter
    <2>2. CASE t # my
      <3>1. i \in Nat /\ s \in Nat /\ t \in Nat
        BY <1>4, <1>6 DEF Servers
      <3>2. i > t
        BY <1>4, <1>6, <2>2, <3>1
      <3> QED
        BY <1>6, <2>2, <3>2 DEF LegsAfter
    <2> QED
      BY <2>1, <2>2
  <1> QED
    BY <1>1, <1>3, <1>5, <1>6

\* Nor does it leave its own call in disorder.
LEMMA OwnStep ==
    ASSUME ShardInv, NEW d \in Clients, Start(d) \/ Step(d)
    PROVE  CallSound(d)'
  <1> USE DEF ShardInv
  <1>a. ShapeOf(d) /\ FreshOf(d) /\ GapOf(d) /\ ScanOfCall(d) /\ OnceOf(d)
    BY CallsSound DEF CallSound
  <1>b. target[d] \in Servers
    BY DEF TypeOK, RpcTypeOK
  <1>c. kind' = kind
    BY Frame
  <1>d. stage[d] # "apply" => gone[d] = {}
    BY <1>a DEF GapOf, Applying
  <1>1. CASE Start(d)
    <2>1. PICK cl, s : Called(cl, s) /\ Invoke(d, cl, s)
      BY <1>1, StartInvokes
    <2>2. /\ stage[d] = "idle" /\ call[d] = NoCall
          /\ res[d] = NoResult /\ got[d] = NothingRead /\ call'[d] = cl /\ target'[d] = s
          /\ stage'[d] \in {"entry", "sent"}
          /\ UNCHANGED <<kind, tree, it, gone, res, got>>
      BY <2>1, InvokeEffect
    <2>3. ShapeOf(d)'
      BY <2>1, <2>2 DEF Called, ShapeOf, Route
    <2>4. OnceOf(d)'
      <3>1. Unread(d)' \subseteq Servers
        BY <2>1, <2>2 DEF Called, Unread, LegsAfter, Route
      <3> QED
        BY <2>2, <3>1 DEF OnceOf, NothingRead
    <2> QED
      BY <1>d, <2>2, <2>3, <2>4 DEF CallSound, FreshOf, GapOf, ScanOfCall
  <1>2. CASE ServeRequest(d) \/ Lock(d) \/ Unlock(d)
    <2>1. /\ stage'[d] \in {"entry", "read", "reply"} /\ stage[d] # "apply"
          /\ target'[d] = target[d] /\ UNCHANGED treeVars
          /\ stage[d] \in {"unlock", "reply"} <=> stage'[d] \in {"unlock", "reply"}
      BY <1>2 DEF ServeRequest, Accept, Lock, Acquire, Unlock, Release, TypeOK,
                  RpcTypeOK
    <2>2. ShapeOf(d)'
      BY <1>a, <2>1 DEF ShapeOf, Route, treeVars
    <2>3. gone'[d] = {}
      BY <1>d, <2>1 DEF treeVars
    <2>4. OnceOf(d)'
      <3>1. Unread(d)' = Unread(d)
        BY <2>1 DEF Unread, LegsAfter
      <3> QED
        BY <1>a, <2>1, <3>1 DEF OnceOf, treeVars
    <2> QED
      BY <2>1, <2>2, <2>3, <2>4 DEF CallSound, FreshOf, GapOf, ScanOfCall
  <1>3. CASE Find(d)
    <2>1. /\ stage[d] = "read" /\ stage'[d] = "apply" /\ call[d] \in MapCalls
          /\ it'[d] = Sought(d) /\ UNCHANGED <<kind, tree, call, gone, res, got>>
          /\ UNCHANGED <<target, mutex>>
      BY <1>3 DEF Find, Advance, TypeOK, RpcTypeOK
    <2>2. ShapeOf(d)'
      BY <1>a, <2>1, CallTypes DEF ShapeOf, Route
    <2>3. FreshOf(d)'
      BY <2>1 DEF FreshOf, Sought, Mine
    <2>4. gone'[d] = {}
      BY <1>d, <2>1
    <2>5. call'[d] \notin ScanCalls
      BY <2>1, CallTypes
    <2> QED
      BY <2>1, <2>2, <2>3, <2>4, <2>5 DEF CallSound, GapOf, ScanOfCall, OnceOf
  <1>4. CASE Applies(d)
    <2>1. PICK ok \in {"true", "false", "bad_alloc"}, v \in Vals : Yield(d, ok, v)
      BY <1>4, AppliesYields
    <2>2. /\ stage[d] = "apply" /\ stage'[d] = "unlock" /\ call' = call
          /\ gone'[d] = {} /\ UNCHANGED <<target, mutex, got>>
      BY <1>4, <2>1, AppliesYields DEF Yield, Advance, TypeOK, RpcTypeOK
    <2>3. call[d] \in MapCalls
      BY <1>a, <2>2 DEF ShapeOf
    <2>4. ShapeOf(d)'
      BY <1>a, <2>2, <2>3, CallTypes DEF ShapeOf, Route
    <2> QED
      BY <2>2, <2>3, <2>4, CallTypes
         DEF CallSound, FreshOf, GapOf, ScanOfCall, OnceOf
  <1>5. CASE PutErase(d)
    <2>1. /\ Applying(d, "Put") /\ kind = "multimap"
          /\ UNCHANGED <<stage, target, mutex, kind, call, res, got>>
          /\ it'[d] = {}
      BY <1>5 DEF PutErase, TypeOK
    <2>2. PICK p \in it[d] : /\ tree' = [tree EXCEPT ![target[d]] = @ \ {p}]
                             /\ gone' = [gone EXCEPT ![d] = {p}]
      BY <1>5 DEF PutErase
    <2>3. stage[d] = "apply" /\ call[d] \in MapCalls
      BY <1>a, <2>1 DEF Applying, ShapeOf
    <2>4. it[d] = Sought(d)
      BY <1>a, <2>3 DEF FreshOf
    <2>5. Mine(d)' = Mine(d) \ {p} /\ gone'[d] = {p}
      BY <1>b, <2>1, <2>2 DEF Mine, TypeOK
    <2>6. p \in Mine(d) /\ p[1] = call[d].key
          /\ \A q \in Mine(d) : q[1] = call[d].key => q = p
      <3>1. p \in Mine(d) /\ p[1] = call[d].key
        BY <2>2, <2>4 DEF Sought
      <3> QED
        BY <1>b, <3>1 DEF OneNodePerKey, Mine
    <2>7. Sought(d)' = {}
      BY <2>1, <2>5, <2>6 DEF Sought
    <2>8. Cardinality(Mine(d)') < Capacity
      <3> DEFINE n == Cardinality(Mine(d))
      <3>1. IsFiniteSet(Mine(d)) /\ n <= Capacity /\ Capacity \in Nat
        BY <1>b, MapDataAssumption DEF Mine, TypeOK
      <3>2. n \in Nat
        BY <3>1, FS_CardinalityType
      <3>3. Cardinality(Mine(d) \ {p}) = n - 1
        BY <2>6, <3>1, FS_RemoveElement
      <3> HIDE DEF n
      <3>4. n - 1 < Capacity
        BY <3>1, <3>2
      <3> QED
        BY <2>5, <3>3, <3>4
    <2>9. ShapeOf(d)'
      BY <1>a, <2>1 DEF ShapeOf, Route
    <2>10. GapOf(d)'
      BY <2>1, <2>5, <2>6, <2>8 DEF GapOf, Applying
    <2>11. call'[d] \notin ScanCalls
      BY <2>1, <2>3, CallTypes
    <2> QED
      BY <2>1, <2>3, <2>7, <2>9, <2>10, <2>11
         DEF CallSound, FreshOf, ScanOfCall, OnceOf
  <1>6. CASE ReadShard(d)
    <2>1. /\ stage[d] = "read" /\ stage'[d] = "unlock" /\ call[d] \in ScanCalls
          /\ got' = [got EXCEPT ![d][target[d]] = @ \cup ScanOf(d, Mine(d))]
          /\ UNCHANGED <<kind, tree, call, it, gone, res>>
          /\ UNCHANGED <<target, mutex>>
      BY <1>6, <1>b DEF ReadShard, Advance, TypeOK, RpcTypeOK
    <2>a. got[d][target[d]] = {}
      BY <1>a, <2>1 DEF OnceOf, Unread
    <2>b. /\ got'[d][target[d]] = ScanOf(d, Mine(d))
          /\ \A s \in Servers \ {target[d]} : got'[d][s] = got[d][s]
      BY <1>b, <2>1, <2>a DEF TypeOK
    <2>2. ShapeOf(d)'
      BY <1>a, <2>1 DEF ShapeOf, Route
    <2>3. ScanOfCall(d)'
      BY <2>1, <2>b DEF ScanOfCall, ScanOf, Mine
    <2>4. gone'[d] = {}
      BY <1>d, <2>1
    <2>5. OnceOf(d)'
      <3>1. target[d] \notin LegsAfter(d, target[d])
        BY <1>b DEF LegsAfter, Servers
      <3>2. /\ Unread(d)' = LegsAfter(d, target[d])
            /\ LegsAfter(d, target[d]) \subseteq Unread(d) \cap Servers
        BY <2>1 DEF Unread, LegsAfter
      <3> QED
        BY <1>a, <2>1, <2>b, <3>1, <3>2 DEF OnceOf
    <2> QED
      BY <2>1, <2>2, <2>3, <2>4, <2>5 DEF CallSound, FreshOf, GapOf
  <1>7. CASE NextServer(d)
    <2>1. /\ stage[d] = "reply" /\ stage'[d] \in {"entry", "sent"}
          /\ call[d] \in ScanCalls /\ UNCHANGED treeVars
      BY <1>7 DEF NextServer, Dispatch, TypeOK, RpcTypeOK
    <2>2. ShapeOf(d)'
      BY <1>a, <2>1, CallTypes DEF ShapeOf, treeVars
    <2>3. gone'[d] = {}
      BY <1>d, <2>1 DEF treeVars
    <2>4. OnceOf(d)'
      <3>1. Unread(d)' \subseteq Unread(d)
        BY <1>7, NextIsUnread
      <3> QED
        BY <1>a, <2>1, <3>1 DEF OnceOf, treeVars
    <2> QED
      BY <2>1, <2>2, <2>3, <2>4 DEF CallSound, FreshOf, GapOf, ScanOfCall
  <1>8. CASE Return(d)
    <2>1. /\ stage[d] = "reply" /\ stage'[d] = "idle" /\ call'[d] = NoCall
          /\ res'[d] = NoResult /\ got'[d] = NothingRead /\ gone' = gone
      BY <1>8 DEF Return, Finish, TypeOK, RpcTypeOK
    <2>2. ShapeOf(d)'
      BY <2>1, CallTypes DEF ShapeOf
    <2>3. gone'[d] = {}
      BY <1>d, <2>1
    <2>4. call'[d] \notin ScanCalls
      BY <2>1, CallTypes
    <2> QED
      BY <2>1, <2>2, <2>3, <2>4 DEF CallSound, FreshOf, GapOf, ScanOfCall, OnceOf
  <1> QED
    BY <1>1, <1>2, <1>3, <1>4, <1>5, <1>6, <1>7, <1>8, StepCases

\* The initial states.
LEMMA InitHolds == Init => ShardInv
  <1> SUFFICES ASSUME Init PROVE ShardInv
    OBVIOUS
  <1>1. TypeOK
    <2>1. NoResult \in Results /\ NothingRead \in [Servers -> SUBSET Pairs]
      BY MapDataAssumption DEF NoResult, Results, NothingRead
    <2>2. IsFiniteSet({}) /\ Cardinality({}) = 0 /\ 0 <= Capacity
      BY FS_EmptySet, MapDataAssumption
    <2>3. RpcTypeOK
      BY PlacementAssumption DEF Init, RpcInit, RpcTypeOK, Stages
    <2> QED
      BY <2>1, <2>2, <2>3 DEF Init, TypeOK
  <1>2. LockDiscipline
    BY FreeAssumption DEF Init, RpcInit, LockDiscipline, Holding
  <1>3. \A c \in Clients : CallSound(c)
    BY CallTypes
    DEF Init, RpcInit, CallSound, ShapeOf, FreshOf, GapOf, ScanOfCall, OnceOf
  <1>4. OneNodePerKey /\ KeysAtHome
    BY DEF Init, OneNodePerKey, KeysAtHome
  <1> QED
    BY <1>1, <1>2, <1>3, <1>4, CallsSound DEF ShardInv

\* Every step keeps the invariant.
LEMMA StepHolds == ShardInv /\ [Next]_vars => ShardInv'
  <1> SUFFICES ASSUME ShardInv, [Next]_vars PROVE ShardInv'
    OBVIOUS
  <1>1. ASSUME NEW d \in Clients, Start(d) \/ Step(d)
        PROVE  ShardInv'
    <2>1. TypeOK'
      BY <1>1, TypeStep
    <2>2. LockDiscipline'
      BY <1>1, LockStep DEF ShardInv
    <2>3. OneNodePerKey' /\ KeysAtHome'
      BY <1>1, TreeStep DEF TreesSound
    <2>4. \A c \in Clients : CallSound(c)'
      BY <1>1, OthersStep, OwnStep
    <2>5. CallShape' /\ IteratorFresh' /\ GapHeld' /\ ScanFresh' /\ ReadOnce'
      BY <2>4
      DEF CallShape, IteratorFresh, GapHeld, ScanFresh, ReadOnce, CallSound,
          ShapeOf, FreshOf, GapOf, ScanOfCall, OnceOf
    <2> QED
      BY <2>1, <2>2, <2>3, <2>5 DEF ShardInv
  <1>2. CASE UNCHANGED vars
    <2>1. /\ TypeOK' /\ LockDiscipline' /\ CallShape' /\ OneNodePerKey'
          /\ KeysAtHome' /\ IteratorFresh' /\ GapHeld' /\ ScanFresh'
      BY <1>2 DEF vars, ShardInv, TypeOK, RpcTypeOK, LockDiscipline, CallShape,
                  OneNodePerKey, KeysAtHome, IteratorFresh, GapHeld, ScanFresh,
                  Applying, Sought, Mine, ScanOf, Route
    <2>2. ReadOnce'
      BY <1>2 DEF vars, ShardInv, ReadOnce, Unread, LegsAfter
    <2> QED
      BY <2>1, <2>2 DEF ShardInv
  <1> QED
    BY <1>1, <1>2 DEF Next, Start

\* The invariant of the shards and of the calls in them holds in every
\* reachable state of map and multimap.
THEOREM Inductive == Spec => []ShardInv
  BY InitHolds, StepHolds, PTL DEF Spec

-----------------------------------------------------------------------------
\* A shard's keys are natural numbers, finitely many; if there is one of them
\* the shard has one node.
LEMMA KeysOfShard ==
    ASSUME NEW m \in SUBSET Pairs, IsFiniteSet(m)
    PROVE  KeysOf(m) \in SUBSET Nat /\ IsFiniteSet(KeysOf(m))
  <1> DEFINE key == [p \in m |-> p[1]]
  <1>1. \A p \in m : p[1] \in Nat
    BY MapDataAssumption DEF Pairs
  <1>2. KeysOf(m) \in SUBSET Nat
    BY <1>1 DEF KeysOf
  <1>3. key \in Surjection(m, KeysOf(m))
    BY DEF KeysOf, Surjection
  <1>4. IsFiniteSet(KeysOf(m))
    BY <1>3, FS_Surjection
  <1> QED
    BY <1>2, <1>4

OneKeyEach(m) == \A p, q \in m : p[1] = q[1] => p = q

\* What one look at a shard returns beyond the range is alone in the shard,
\* and for map it is beyond key_end.
LEMMA ScanStrays ==
    ASSUME kind \in {"map", "multimap"}, CallShape,
           NEW c \in Clients, call[c] \in ScanCalls,
           NEW m \in SUBSET Pairs, IsFiniteSet(m), OneKeyEach(m),
           NEW p \in ScanOf(c, m), p \notin Wanted(c, ScanOf(c, m))
    PROVE  ScanOf(c, m) = {p} /\ (kind = "map" => p[1] > call[c].hi)
  <1> DEFINE S == KeysOf(m)
             lo == call[c].lo
             hi == call[c].hi
             found == ScanOf(c, m)
  <1>1. call[c].op = "Contains" /\ lo \in Nat /\ hi \in Nat
    <2>1. call[c].op # "GetAllData"
      BY DEF Wanted
    <2> QED
      BY <2>1, CallTypes, MapDataAssumption
  <1>2. S \in SUBSET Nat /\ IsFiniteSet(S) /\ p[1] \in S /\ p \in m
    BY KeysOfShard DEF ScanOf, KeysOf
  <1>3. ~(lo <= p[1] /\ p[1] <= hi)
    <2>1. p[1] \in KeysOf(found)
      BY DEF KeysOf
    <2> QED
      BY <1>1, <2>1 DEF Wanted, InRange
  <1>4. Cardinality(S) = 1
    <2> SUFFICES ASSUME Cardinality(S) # 1 PROVE FALSE
      OBVIOUS
    <2>1. CASE kind = "map"
      <3>1. p[1] \in InRange(S, lo, hi)
        BY <1>1, <1>2, <2>1, ScansAreRanges DEF ScanOf
      <3> QED
        BY <1>3, <3>1 DEF InRange
    <2>2. CASE kind = "multimap"
      <3>1. lo = hi
        BY <1>1, <2>2 DEF CallShape
      <3>2. p[1] \in InRange(S, lo, lo)
        BY <1>1, <1>2, <2>2, MultimapScanFindsKey DEF ScanOf
      <3> QED
        BY <1>3, <3>1, <3>2 DEF InRange
    <2> QED
      BY <2>1, <2>2
  <1>5. S = {p[1]}
    BY <1>2, <1>4, FS_Singleton
  <1>6. m = {p}
    BY <1>2, <1>5 DEF KeysOf, OneKeyEach
  <1>7. found = {p}
    BY <1>6 DEF ScanOf
  <1>8. ASSUME kind = "map" PROVE p[1] > hi
    <2>1. MapScan(S, lo, hi) = MapOneBranch(S, lo)
      BY <1>4, <1>5 DEF MapScan
    <2>2. p[1] > lo
      BY <1>1, <1>8, <2>1 DEF ScanOf, MapOneBranch
    <2>3. p[1] \in Nat
      BY <1>2
    <2> QED
      BY <1>1, <1>3, <2>2, <2>3
  <1> QED
    BY <1>7, <1>8

\* What one look at a shard leaves out of the range is key_start, alone in a
\* map's shard.
LEMMA ScanForgets ==
    ASSUME kind \in {"map", "multimap"}, CallShape,
           NEW c \in Clients, call[c] \in ScanCalls,
           NEW m \in SUBSET Pairs, IsFiniteSet(m), OneKeyEach(m),
           NEW p \in Wanted(c, m), p \notin ScanOf(c, m)
    PROVE  kind = "map" /\ m = {p} /\ p[1] = call[c].lo
  <1> DEFINE S == KeysOf(m)
             lo == call[c].lo
             hi == call[c].hi
  <1>0. p \in m /\ p[1] \in S
    BY DEF Wanted, KeysOf
  <1>1. call[c].op = "Contains" /\ lo \in Nat /\ hi \in Nat
    <2>1. call[c].op # "GetAllData"
      BY <1>0 DEF ScanOf
    <2> QED
      BY <2>1, CallTypes, MapDataAssumption
  <1>2. S \in SUBSET Nat /\ IsFiniteSet(S)
    BY KeysOfShard
  <1>3. p[1] \in InRange(S, lo, hi)
    BY <1>1 DEF Wanted
  <1>4. CASE kind = "map"
    <2>1. p[1] \notin MapScan(S, lo, hi)
      BY <1>0, <1>1, <1>4 DEF ScanOf
    <2>2. S = {lo} /\ p[1] = lo
      BY <1>1, <1>2, <1>3, <2>1, MapScanForgetsOnlyStart
    <2>3. m = {p}
      BY <1>0, <2>2 DEF KeysOf, OneKeyEach
    <2> QED
      BY <1>4, <2>2, <2>3
  <1>5. CASE kind = "multimap"
    <2>1. p[1] \notin MultimapScan(S, lo)
      BY <1>0, <1>1, <1>5 DEF ScanOf
    <2>2. lo = hi
      BY <1>1, <1>5 DEF CallShape
    <2>3. Cardinality(S) # 1
      BY <1>0, <2>1 DEF MultimapScan
    <2> QED
      BY <1>1, <1>2, <1>3, <2>1, <2>2, <2>3, MultimapScanFindsKey
  <1> QED
    BY <1>4, <1>5

\* While a scan holds a shard's lock it has read what it is for, but for
\* key_start where it is alone in a map's shard.
THEOREM ScansForgetOnlyStart == Spec => []ScanForgetsOnlyStart
  <1>1. ShardInv => ScanForgetsOnlyStart
    <2> SUFFICES ASSUME ShardInv, NEW c \in Clients, call[c] \in ScanCalls,
                        stage[c] = "unlock",
                        NEW p \in Wanted(c, Mine(c)) \ got[c][target[c]]
                 PROVE  kind = "map" /\ Mine(c) = {p} /\ p[1] = call[c].lo
      BY DEF ScanForgetsOnlyStart
    <2> USE DEF ShardInv
    <2>1. got[c][target[c]] = ScanOf(c, Mine(c))
      BY DEF ScanFresh
    <2>2. target[c] \in Servers /\ Mine(c) = tree[target[c]]
      BY DEF TypeOK, RpcTypeOK, Mine
    <2>3. Mine(c) \in SUBSET Pairs /\ IsFiniteSet(Mine(c)) /\ OneKeyEach(Mine(c))
      BY <2>2 DEF TypeOK, OneNodePerKey, OneKeyEach
    <2>4. kind \in {"map", "multimap"}
      BY DEF TypeOK
    <2> QED
      BY <2>1, <2>3, <2>4, ScanForgets
  <1> QED
    BY <1>1, Inductive, PTL

\* A result of one server beyond what the scan was for is a single pair.
LEMMA StraysStep ==
    ShardInv /\ StraysAreAlone /\ [Next]_vars => StraysAreAlone'
  <1> SUFFICES ASSUME ShardInv, StraysAreAlone, [Next]_vars PROVE StraysAreAlone'
    OBVIOUS
  <1> USE DEF ShardInv
  <1> DEFINE Strays(c, s) ==
        call[c] \in ScanCalls =>
            \A p \in got[c][s] \ Wanted(c, got[c][s]) :
                got[c][s] = {p} /\ (kind = "map" => p[1] > call[c].hi)
  <1>1. ASSUME NEW d \in Clients, Start(d) \/ Step(d),
               NEW c \in Clients, NEW s \in Servers
        PROVE  Strays(c, s)'
    <2>0. Strays(c, s) /\ kind' = kind
      BY <1>1, Frame DEF StraysAreAlone
    <2>1. CASE call'[c] = call[c] /\ got'[c] = got[c]
      BY <2>0, <2>1 DEF Wanted
    <2>2. CASE ~(call'[c] = call[c] /\ got'[c] = got[c])
      <3>1. c = d
        BY <1>1, <2>2, Frame
      <3>2. CASE Start(d)
        <4>1. PICK cl, t : Called(cl, t) /\ Invoke(d, cl, t)
          BY <3>2, StartInvokes
        <4>2. stage[d] = "idle" /\ got' = got
          BY <4>1 DEF Invoke
        <4>3. got[d] = NothingRead
          BY <4>1, CallTypes, InvokeEffect DEF CallShape
        <4> QED
          BY <3>1, <4>2, <4>3 DEF NothingRead
      <3>3. CASE ReadShard(d)
        <4>1. /\ call[d] \in ScanCalls /\ call' = call
              /\ got' = [got EXCEPT ![d][target[d]] = @ \cup ScanOf(d, Mine(d))]
              /\ stage[d] = "read"
          BY <3>3 DEF ReadShard
        <4>2. target[d] \in Servers /\ kind \in {"map", "multimap"}
          BY DEF TypeOK, RpcTypeOK
        <4>3. CASE s # target[d]
          <5>1. got'[c][s] = got[c][s]
            BY <3>1, <4>1, <4>3 DEF TypeOK
          <5> QED
            BY <2>0, <4>1, <5>1 DEF Wanted
        <4>4. CASE s = target[d]
          <5>1. got'[c][s] = ScanOf(d, Mine(d))
            <6>1. got[d][target[d]] = {}
              BY <4>1 DEF ReadOnce, Unread
            <6> QED
              BY <3>1, <4>1, <4>2, <4>4, <6>1 DEF TypeOK
          <5>2. /\ Mine(d) \in SUBSET Pairs /\ IsFiniteSet(Mine(d))
                /\ OneKeyEach(Mine(d))
            BY <4>2 DEF TypeOK, OneNodePerKey, OneKeyEach, Mine
          <5>3. \A p \in ScanOf(d, Mine(d)) \ Wanted(d, ScanOf(d, Mine(d))) :
                    /\ ScanOf(d, Mine(d)) = {p}
                    /\ kind = "map" => p[1] > call[d].hi
            BY <4>1, <4>2, <5>2, ScanStrays
          <5>4. call' = call
            BY <4>1
          <5> QED
            BY <2>0, <3>1, <5>1, <5>3, <5>4 DEF Wanted
        <4> QED
          BY <4>3, <4>4
      <3>4. CASE Return(d)
        BY <3>1, <3>4, CallTypes DEF Return, TypeOK
      <3>5. CASE ~(Start(d) \/ ReadShard(d) \/ Return(d))
        <4>1. CASE Applies(d)
          BY <2>2, <3>1, <4>1, AppliesYields DEF Yield
        <4>2. CASE ~Applies(d)
          BY <1>1, <2>2, <3>1, <3>5, <4>2, StepCases
          DEF ServeRequest, Lock, Unlock, Find, PutErase, NextServer, treeVars
        <4> QED
          BY <4>1, <4>2
      <3> QED
        BY <3>2, <3>3, <3>4, <3>5
    <2> QED
      BY <2>1, <2>2
  <1>2. CASE UNCHANGED vars
    BY <1>2 DEF vars, StraysAreAlone, Wanted
  <1>3. ASSUME NEW d \in Clients, Start(d) \/ Step(d) PROVE StraysAreAlone'
    BY <1>1, <1>3 DEF StraysAreAlone
  <1> QED
    BY <1>2, <1>3 DEF Next, Start

\* In every reachable state, what a scan has of one server beyond what it is
\* for is a single pair, and for map it is beyond key_end.
THEOREM ScansStrayAlone == Spec => []StraysAreAlone
  <1>1. Init => StraysAreAlone
    BY CallTypes DEF Init, StraysAreAlone
  <1> QED
    BY <1>1, StraysStep, Inductive, PTL DEF Spec

-----------------------------------------------------------------------------
(***************************************************************************)
(* The proof that the two classes implement AtomicMap.                     *)
(***************************************************************************)

\* While a call acts on a key, the key's pairs in the abstract map are the
\* nodes that the call has found and those that it has erased: no other shard
\* holds the key, and no other call has it in its hands.
LEMMA StoreAtKey ==
    ASSUME ShardInv, NEW d \in Clients, stage[d] = "apply"
    PROVE  Abstract!At(call[d].key) = it[d] \cup gone[d]
  <1> USE DEF ShardInv
  <1> DEFINE k == call[d].key
  <1>1. /\ call[d] \in MapCalls /\ k \in Keys /\ target[d] = Route(k)
        /\ target[d] \in Servers
    BY CallTypes DEF CallShape, TypeOK, RpcTypeOK
  <1>2. it[d] = Sought(d) /\ Mine(d) = tree[target[d]]
    BY DEF IteratorFresh, Mine
  <1>3. \A p \in gone[d] : p[1] = k
    BY DEF GapHeld
  <1>4. ASSUME NEW s \in Servers, NEW p \in tree[s], p[1] = k
        PROVE  p \in it[d]
    <2>1. s = target[d]
      BY <1>1, <1>4 DEF KeysAtHome
    <2> QED
      BY <1>2, <1>4, <2>1 DEF Sought
  <1>5. ASSUME NEW c \in Clients, NEW p \in gone[c], p[1] = k
        PROVE  p \in gone[d]
    <2> SUFFICES ASSUME c # d PROVE FALSE
      OBVIOUS
    <2>1. /\ stage[c] = "apply" /\ call[c] \in MapCalls /\ p[1] = call[c].key
          /\ target[c] = Route(call[c].key)
      BY <1>5 DEF GapHeld, Applying, CallShape
    <2>2. target[c] = target[d]
      BY <1>1, <1>5, <2>1
    <2> QED
      BY <2>1, <2>2, Exclusion DEF TypeOK, Holding
  <1>6. it[d] \subseteq store /\ \A p \in it[d] : p[1] = k
    BY <1>1, <1>2 DEF Sought, store
  <1>7. gone[d] \subseteq store
    BY DEF store
  <1>8. ASSUME NEW p \in store, p[1] = k PROVE p \in it[d] \cup gone[d]
    BY <1>4, <1>5, <1>8 DEF store
  <1> QED
    BY <1>3, <1>6, <1>7, <1>8 DEF Abstract!At

\* Replacing those nodes in the shard, and letting go of what was erased,
\* replaces the key's pairs in the abstract map and nothing else.
LEMMA StoreRewrite ==
    ASSUME ShardInv, NEW d \in Clients, stage[d] = "apply", NEW new,
           Rewrite(d, new), gone' = [gone EXCEPT ![d] = {}]
    PROVE  store' = (store \ Abstract!At(call[d].key)) \cup new
  <1> USE DEF ShardInv
  <1> DEFINE k == call[d].key
             t == target[d]
             at == it[d] \cup gone[d]
  <1>0. Abstract!At(k) = at
    BY StoreAtKey
  <1>1. /\ t \in Servers /\ tree'[t] = (tree[t] \ it[d]) \cup new
        /\ \A s \in Servers \ {t} : tree'[s] = tree[s]
        /\ gone'[d] = {} /\ \A c \in Clients \ {d} : gone'[c] = gone[c]
    BY DEF Rewrite, TypeOK, RpcTypeOK
  <1>2. ASSUME NEW s \in Servers \ {t}, NEW p \in tree[s] PROVE p \notin at
    <2>1. p[1] # k
      BY <1>1, <1>2, CallTypes DEF KeysAtHome, CallShape
    <2>2. \A q \in at : q[1] = k
      BY <1>0 DEF Abstract!At
    <2> QED
      BY <2>1, <2>2
  <1>3. ASSUME NEW c \in Clients \ {d}, NEW p \in gone[c] PROVE p \notin at
    <2>1. /\ stage[c] = "apply" /\ call[c] \in MapCalls /\ p[1] = call[c].key
          /\ target[c] = Route(call[c].key)
      BY <1>3 DEF GapHeld, Applying, CallShape
    <2>2. t = Route(k)
      BY DEF CallShape
    <2>3. target[c] # t
      BY <2>1, Exclusion DEF TypeOK, Holding
    <2>4. p[1] # k
      BY <2>1, <2>2, <2>3
    <2>5. \A q \in at : q[1] = k
      BY <1>0 DEF Abstract!At
    <2> QED
      BY <2>4, <2>5
  <1>4. ASSUME NEW p \in tree[t], p \notin it[d] PROVE p \notin at
    <2>1. p[1] # k
      BY <1>4 DEF IteratorFresh, Sought, Mine
    <2>2. \A q \in at : q[1] = k
      BY <1>0 DEF Abstract!At
    <2> QED
      BY <2>1, <2>2
  <1>5. ASSUME NEW p \in store' PROVE p \in (store \ at) \cup new
    <2>1. CASE \E s \in Servers : p \in tree'[s]
      <3>1. PICK s \in Servers : p \in tree'[s]
        BY <2>1
      <3>2. CASE s = t
        BY <1>1, <1>4, <3>1, <3>2 DEF store
      <3>3. CASE s # t
        BY <1>1, <1>2, <3>1, <3>3 DEF store
      <3> QED
        BY <3>2, <3>3
    <2>2. CASE \E c \in Clients : p \in gone'[c]
      BY <1>1, <1>3, <2>2 DEF store
    <2> QED
      BY <1>5, <2>1, <2>2 DEF store
  <1>6. ASSUME NEW p \in (store \ at) \cup new PROVE p \in store'
    <2>1. CASE p \in new
      BY <1>1, <2>1 DEF store
    <2>2. CASE p \in store /\ p \notin at
      <3>1. CASE \E s \in Servers : p \in tree[s]
        BY <1>1, <2>2, <3>1 DEF store
      <3>2. CASE \E c \in Clients : p \in gone[c]
        BY <1>1, <2>2, <3>2 DEF store
      <3> QED
        BY <2>2, <3>1, <3>2 DEF store
    <2> QED
      BY <1>6, <2>1, <2>2
  <1> QED
    BY <1>0, <1>5, <1>6

\* The phase of a call in the abstract map.
PhaseOf(c) == IF ~Visible(c) THEN "idle"
              ELSE IF stage[c] \in {"unlock", "reply"} THEN "done" ELSE "pending"

AbsCallOf(c) == IF Visible(c) THEN call[c] ELSE NoCall

\* A step of process d moves the abstract call of d only.
LEMMA AbstractFrame ==
    ASSUME TypeOK, NEW d \in Clients, Start(d) \/ Step(d)
    PROVE  /\ phase' = [phase EXCEPT ![d] = PhaseOf(d)']
           /\ absCall' = [absCall EXCEPT ![d] = AbsCallOf(d)']
           /\ phase[d] = PhaseOf(d) /\ absCall[d] = AbsCallOf(d)
  <1>1. \A c \in Clients \ {d} : /\ PhaseOf(c)' = PhaseOf(c)
                                 /\ AbsCallOf(c)' = AbsCallOf(c)
    BY Frame DEF PhaseOf, AbsCallOf, Visible
  <1>2. phase = [c \in Clients |-> PhaseOf(c)]
        /\ absCall = [c \in Clients |-> AbsCallOf(c)]
    BY DEF phase, absCall, PhaseOf, AbsCallOf
  <1>3. phase' = [c \in Clients |-> PhaseOf(c)']
        /\ absCall' = [c \in Clients |-> AbsCallOf(c)']
    BY DEF phase, absCall, PhaseOf, AbsCallOf, Visible
  <1> HIDE DEF PhaseOf, AbsCallOf
  <1> QED
    BY <1>1, <1>2, <1>3

\* A step that changes neither the abstract map nor what is visible of its own
\* call is a stuttering step of AtomicMap.
LEMMA Stutter ==
    ASSUME TypeOK, NEW d \in Clients, Start(d) \/ Step(d), store' = store,
           res' = res, PhaseOf(d)' = PhaseOf(d), AbsCallOf(d)' = AbsCallOf(d)
    PROVE  UNCHANGED Abstract!absVars
  <1>1. phase' = [phase EXCEPT ![d] = phase[d]]
        /\ absCall' = [absCall EXCEPT ![d] = absCall[d]]
    BY AbstractFrame
  <1>2. DOMAIN phase = Clients /\ DOMAIN absCall = Clients
    BY DEF phase, absCall
  <1>3. phase' = phase /\ absCall' = absCall
    BY <1>1, <1>2 DEF phase, absCall
  <1> QED
    BY <1>3 DEF Abstract!absVars

\* Calling Put, Get or Erase begins an abstract operation; calling a scan does
\* nothing to the abstract map.
LEMMA StartSimulates ==
    ASSUME ShardInv, NEW d \in Clients, Start(d)
    PROVE  Abstract!Next \/ UNCHANGED Abstract!absVars
  <1> USE DEF ShardInv
  <1>1. PICK cl, s : Called(cl, s) /\ Invoke(d, cl, s)
    BY StartInvokes
  <1>2. /\ stage[d] = "idle" /\ call[d] = NoCall /\ call'[d] = cl
        /\ stage'[d] \in {"entry", "sent"}
        /\ UNCHANGED <<kind, tree, it, gone, res, got>>
    BY <1>1, InvokeEffect
  <1>3. PhaseOf(d) = "idle" /\ AbsCallOf(d) = NoCall /\ store' = store
    BY <1>2, CallTypes DEF PhaseOf, AbsCallOf, Visible, store
  <1>4. CASE cl \in MapCalls
    <2>1. PhaseOf(d)' = "pending" /\ AbsCallOf(d)' = cl
      BY <1>2, <1>4 DEF Visible, PhaseOf, AbsCallOf
    <2>2. cl \in Abstract!MapCalls
      BY <1>4 DEF MapCalls, Abstract!MapCalls
    <2>3. Abstract!Begin(d, cl)
      BY <1>2, <1>3, <2>1, AbstractFrame DEF Abstract!Begin
    <2> QED
      BY <2>2, <2>3 DEF Abstract!Next
  <1>5. CASE cl \notin MapCalls
    <2>1. PhaseOf(d)' = PhaseOf(d) /\ AbsCallOf(d)' = AbsCallOf(d)
      BY <1>2, <1>3, <1>5 DEF Visible, PhaseOf, AbsCallOf
    <2> QED
      BY <1>2, <1>3, <2>1, Stutter
  <1> QED
    BY <1>4, <1>5

\* What holds of the abstract map when a call computes its result.
LEMMA ApplyPoint ==
    ASSUME ShardInv, NEW d \in Clients, Step(d), Applies(d),
           NEW ok, NEW v, Yield(d, ok, v)
    PROVE  /\ stage[d] = "apply"
           /\ Abstract!At(call[d].key) = it[d] \cup gone[d]
           /\ gone' = [gone EXCEPT ![d] = {}]
           /\ absCall[d] = call[d] /\ absCall' = absCall
           /\ phase[d] = "pending" /\ phase' = [phase EXCEPT ![d] = "done"]
           /\ res' = [res EXCEPT ![d] = [ok |-> ok, val |-> v]]
  <1> USE DEF ShardInv
  <1>1. stage[d] = "apply"
    BY AppliesYields
  <1>2. call[d] \in MapCalls
    BY <1>1 DEF CallShape
  <1>3. stage'[d] = "unlock" /\ call' = call
        /\ res' = [res EXCEPT ![d] = [ok |-> ok, val |-> v]]
        /\ gone' = [gone EXCEPT ![d] = {}]
    BY DEF Yield, Advance, TypeOK, RpcTypeOK
  <1>4. /\ PhaseOf(d) = "pending" /\ PhaseOf(d)' = "done"
        /\ AbsCallOf(d) = call[d] /\ AbsCallOf(d)' = call[d]
    BY <1>1, <1>2, <1>3 DEF PhaseOf, AbsCallOf, Visible
  <1>5. /\ phase[d] = "pending" /\ phase' = [phase EXCEPT ![d] = "done"]
        /\ absCall[d] = call[d] /\ absCall' = [absCall EXCEPT ![d] = absCall[d]]
    BY <1>4, AbstractFrame
  <1>6. absCall' = absCall
    BY <1>5 DEF absCall
  <1> QED
    BY <1>1, <1>3, <1>5, <1>6, StoreAtKey

\* The step that computes the result of LocalPut, LocalGet or LocalErase is
\* the instant at which the abstract operation takes effect.
LEMMA AppliesSimulates ==
    ASSUME ShardInv, NEW d \in Clients, Step(d), Applies(d)
    PROVE  Abstract!Next
  <1> USE DEF ShardInv
  <1>0. stage[d] = "apply"
    BY AppliesYields
  <1>a. gone[d] # {} => kind = "multimap" /\ call[d].op = "Put" /\ it[d] = {}
                        /\ Cardinality(Mine(d)) < Capacity
    BY DEF GapHeld, Applying
  <1> DEFINE put == {<<call[d].key, call[d].val>>}
  <1>1. CASE PutAssign(d) \/ PutInsert(d)
    <2>1. /\ Yield(d, "true", DefaultVal) /\ call[d].op = "Put"
          /\ Rewrite(d, put)
      BY <1>1 DEF PutAssign, PutInsert, Applying
    <2>2. store' = (store \ Abstract!At(call[d].key)) \cup put
      BY <1>0, <2>1, ApplyPoint, StoreRewrite
    <2>3. Abstract!DoPut(d)
      BY <2>1, <2>2, ApplyPoint
      DEF Abstract!DoPut, Abstract!Pending, Abstract!Effect
    <2> QED
      BY <2>3 DEF Abstract!Next
  <1>2. ASSUME tree' = tree, gone[d] = {}, PutExhausted(d) \/ LocalGet(d)
        PROVE  Abstract!Next
    <2>1. ASSUME NEW ok, NEW v, Yield(d, ok, v)
          PROVE  store' = store /\ Abstract!At(call[d].key) = it[d]
      <3>1. gone' = gone
        BY <1>2, <2>1 DEF Yield, TypeOK
      <3>2. store' = store
        BY <1>2, <3>1 DEF store
      <3> QED
        BY <1>2, <2>1, <3>2, ApplyPoint
    <2>2. CASE PutExhausted(d)
      <3>1. Yield(d, "bad_alloc", DefaultVal) /\ call[d].op = "Put" /\ it[d] = {}
        BY <2>2 DEF PutExhausted, Applying
      <3>2. Abstract!DoPutExhausted(d)
        BY <2>1, <3>1, ApplyPoint
        DEF Abstract!DoPutExhausted, Abstract!Pending, Abstract!Effect
      <3> QED
        BY <3>2 DEF Abstract!Next
    <2>3. CASE GetFound(d)
      <3>1. PICK p \in it[d] : Yield(d, "true", p[2])
        BY <2>3 DEF GetFound
      <3>2. call[d].op = "Get"
        BY <2>3 DEF GetFound, Applying
      <3>3. Abstract!DoGet(d)
        BY <2>1, <3>1, <3>2, ApplyPoint
        DEF Abstract!DoGet, Abstract!Pending, Abstract!Effect
      <3> QED
        BY <3>3 DEF Abstract!Next
    <2>4. CASE GetMissing(d)
      <3>1. Yield(d, "false", DefaultVal) /\ call[d].op = "Get" /\ it[d] = {}
        BY <2>4 DEF GetMissing, Applying
      <3>2. Abstract!DoGet(d)
        BY <2>1, <3>1, ApplyPoint
        DEF Abstract!DoGet, Abstract!Pending, Abstract!Effect
      <3> QED
        BY <3>2 DEF Abstract!Next
    <2> QED
      BY <1>2, <2>2, <2>3, <2>4 DEF LocalGet
  <1>3. CASE LocalErase(d)
    <2> DEFINE ok == IF it[d] # {} THEN "true" ELSE "false"
    <2>1. Yield(d, ok, DefaultVal) /\ call[d].op = "Erase" /\ Rewrite(d, {})
      BY <1>3 DEF LocalErase, Applying
    <2>2. gone[d] = {}
      BY <1>a, <2>1
    <2> HIDE DEF ok
    <2>3. store' = (store \ Abstract!At(call[d].key)) \cup {}
      BY <1>0, <2>1, ApplyPoint, StoreRewrite
    <2>4. Abstract!At(call[d].key) = it[d]
      BY <1>0, <2>2, StoreAtKey
    <2>5. Abstract!DoErase(d)
      BY <2>1, <2>3, <2>4, ApplyPoint
      DEF Abstract!DoErase, Abstract!Pending, Abstract!Effect, ok
    <2> QED
      BY <2>5 DEF Abstract!Next
  <1>4. (PutExhausted(d) \/ LocalGet(d)) => tree' = tree /\ gone[d] = {}
    <2>1. CASE PutExhausted(d)
      <3>1. tree' = tree /\ Cardinality(Mine(d)) >= Capacity
        BY <2>1 DEF PutExhausted
      <3>2. target[d] \in Servers /\ IsFiniteSet(Mine(d))
        BY DEF TypeOK, RpcTypeOK, Mine
      <3>3. Cardinality(Mine(d)) \in Nat /\ Capacity \in Nat
        BY <3>2, FS_CardinalityType, MapDataAssumption
      <3> QED
        BY <1>a, <3>1, <3>3
    <2>2. CASE LocalGet(d)
      BY <1>a, <2>2 DEF LocalGet, GetFound, GetMissing, Applying
    <2> QED
      BY <2>1, <2>2
  <1> QED
    BY <1>1, <1>2, <1>3, <1>4 DEF Applies

\* The gap in multimap's LocalPut is invisible: what is no longer in the shard
\* is still in the abstract map.
LEMMA EraseStutters ==
    ASSUME ShardInv, NEW d \in Clients, Step(d), PutErase(d)
    PROVE  UNCHANGED Abstract!absVars
  <1> USE DEF ShardInv
  <1>1. PICK p \in it[d] : /\ tree' = [tree EXCEPT ![target[d]] = @ \ {p}]
                           /\ gone' = [gone EXCEPT ![d] = {p}]
    BY DEF PutErase
  <1>2. /\ stage[d] = "apply" /\ gone[d] = {} /\ target[d] \in Servers
        /\ UNCHANGED <<stage, call, res>>
    BY <1>1 DEF PutErase, Applying, GapHeld, TypeOK, RpcTypeOK
  <1>3. p \in tree[target[d]]
    BY <1>1, <1>2 DEF IteratorFresh, Sought, Mine
  <1>4. /\ tree'[target[d]] = tree[target[d]] \ {p} /\ gone'[d] = {p}
        /\ \A s \in Servers \ {target[d]} : tree'[s] = tree[s]
        /\ \A c \in Clients \ {d} : gone'[c] = gone[c]
    BY <1>1, <1>2 DEF TypeOK
  <1>5. store' \subseteq store
    BY <1>2, <1>3, <1>4 DEF store
  <1>6. store \subseteq store'
    <2> SUFFICES ASSUME NEW q \in store PROVE q \in store'
      OBVIOUS
    <2>1. CASE q = p
      BY <1>4, <2>1 DEF store
    <2>2. CASE q # p
      <3>1. CASE \E s \in Servers : q \in tree[s]
        BY <1>4, <2>2, <3>1 DEF store
      <3>2. CASE \E c \in Clients : q \in gone[c]
        BY <1>2, <1>4, <3>2 DEF store
      <3> QED
        BY <3>1, <3>2 DEF store
    <2> QED
      BY <2>1, <2>2
  <1>7. PhaseOf(d)' = PhaseOf(d) /\ AbsCallOf(d)' = AbsCallOf(d)
    BY <1>2, Zenon DEF PhaseOf, AbsCallOf, Visible
  <1>8. store' = store
    BY <1>5, <1>6
  <1>9. res' = res
    BY <1>2
  <1> QED
    BY <1>7, <1>8, <1>9, Stutter, Zenon

\* Returning from Put, Get or Erase ends the abstract operation; every other
\* step is invisible.
LEMMA OtherSimulates ==
    ASSUME ShardInv, NEW d \in Clients, Step(d), ~Applies(d), ~PutErase(d)
    PROVE  Abstract!Next \/ UNCHANGED Abstract!absVars
  <1> USE DEF ShardInv
  <1>1. CASE Return(d)
    <2>1. /\ stage[d] = "reply" /\ call'[d] = NoCall /\ tree' = tree
          /\ gone' = gone /\ res' = [res EXCEPT ![d] = NoResult]
      BY <1>1 DEF Return, Finish, TypeOK
    <2>2. store' = store
      BY <2>1 DEF store
    <2>3. PhaseOf(d)' = "idle" /\ AbsCallOf(d)' = NoCall
      BY <2>1, CallTypes DEF PhaseOf, AbsCallOf, Visible
    <2>4. CASE Visible(d)
      <3>1. PhaseOf(d) = "done"
        BY <2>1, <2>4 DEF PhaseOf
      <3>2. Abstract!NoCall = NoCall /\ Abstract!NoResult = NoResult
        BY DEF NoCall, NoResult, Abstract!NoCall, Abstract!NoResult
      <3>3. Abstract!End(d)
        BY <2>1, <2>2, <2>3, <3>1, <3>2, AbstractFrame DEF Abstract!End
      <3> QED
        BY <3>3 DEF Abstract!Next
    <2>5. CASE ~Visible(d)
      <3>1. res[d] = NoResult
        BY <2>5 DEF CallShape, Visible
      <3>2. res' = res
        BY <2>1, <3>1 DEF TypeOK
      <3>3. PhaseOf(d) = "idle" /\ AbsCallOf(d) = NoCall
        BY <2>5 DEF PhaseOf, AbsCallOf
      <3> QED
        BY <2>2, <2>3, <3>2, <3>3, Stutter
    <2> QED
      BY <2>4, <2>5
  <1>2. CASE ~Return(d)
    <2>1. /\ tree' = tree /\ gone' = gone /\ res' = res /\ call' = call
          /\ \/ call[d] \in ScanCalls
             \/ /\ stage[d] \in {"unlock", "reply"}
                /\ stage'[d] \in {"unlock", "reply"}
             \/ /\ stage[d] \notin {"unlock", "reply"}
                /\ stage'[d] \notin {"unlock", "reply"}
      <3> USE DEF TypeOK, RpcTypeOK
      <3>1. CASE ServeRequest(d) \/ Lock(d) \/ Unlock(d)
        BY <3>1 DEF ServeRequest, Accept, Lock, Acquire, Unlock, Release, treeVars
      <3>2. CASE Find(d)
        BY <3>2 DEF Find, Advance
      <3>3. CASE ReadShard(d) \/ NextServer(d)
        BY <3>3 DEF ReadShard, NextServer, treeVars
      <3> QED
        BY <1>2, <3>1, <3>2, <3>3, StepCases
    <2>2. PhaseOf(d)' = PhaseOf(d) /\ AbsCallOf(d)' = AbsCallOf(d)
      BY <2>1, CallTypes DEF PhaseOf, AbsCallOf, Visible
    <2>3. store' = store
      BY <2>1 DEF store
    <2> QED
      BY <2>1, <2>2, <2>3, Stutter
  <1> QED
    BY <1>1, <1>2

\* Put, Get and Erase of map and of multimap are linearizable, for any number
\* of servers: the sharded map implements AtomicMap.
THEOREM ImplementsAtomicMap == Spec => Linearizable
  <1>1. Init => Abstract!Init
    <2> SUFFICES ASSUME Init PROVE Abstract!Init
      OBVIOUS
    <2>1. store = {}
      BY DEF Init, store
    <2>2. \A c \in Clients : ~Visible(c)
      BY CallTypes DEF Init, Visible
    <2>3. phase = [c \in Clients |-> "idle"] /\ absCall = [c \in Clients |-> NoCall]
      BY <2>2 DEF phase, absCall
    <2> QED
      BY <2>1, <2>3
      DEF Init, Abstract!Init, NoCall, NoResult, Abstract!NoCall, Abstract!NoResult
  <1>2. ShardInv /\ [Next]_vars => [Abstract!Next]_Abstract!absVars
    <2> SUFFICES ASSUME ShardInv, [Next]_vars
                 PROVE  [Abstract!Next]_Abstract!absVars
      OBVIOUS
    <2>1. CASE UNCHANGED vars
      BY <2>1 DEF vars, store, phase, absCall, Visible, Abstract!absVars
    <2>2. ASSUME NEW d \in Clients, Start(d) \/ Step(d)
          PROVE  Abstract!Next \/ UNCHANGED Abstract!absVars
      BY <2>2, StartSimulates, AppliesSimulates, EraseStutters, OtherSimulates
    <2> QED
      BY <2>1, <2>2 DEF Next, Start
  <1> QED
    BY <1>1, <1>2, Inductive, PTL DEF Spec, Linearizable, Abstract!Spec
=============================================================================
