-------------------------- MODULE OrderedSetProofs --------------------------
(***************************************************************************)
(* Theorems about OrderedSet and its scans, for any number of processes,   *)
(* servers, worker threads and keys and any hash.                          *)
(***************************************************************************)
EXTENDS OrderedSetScan, SharedProofs

\* A key's home is a server.
LEMMA RouteInServers ==
    ASSUME NEW k \in Keys
    PROVE  Route(k) \in Servers
  <1> DEFINE h == Hash[k]
             n == NumServers
  <1>1. h \in Nat /\ n \in Nat /\ n > 0 /\ n <= 65536
    BY NumServersAssumption, SetDataAssumption
  <1> HIDE DEF h, n
  <1>2. h % n \in 0 .. (n - 1)
    BY <1>1, SMT
  <1>3. (h % n) % 65536 \in 0 .. (n - 1)
    BY <1>1, <1>2, SMT
  <1> QED
    BY <1>3, SMT DEF Route, GetRoute, UInt16Range, Servers, h, n

\* What the operations of a call record are, and that the kinds of calls are
\* told apart by them.
KeyOps == {"Put", "Get", "Erase"}
FirstOps == {"SeekFirst", "PopFirst"}
ScanOps == {"Contains", "GetAllData"}

LEMMA CallTypes ==
    /\ \A cl \in KeyCalls : cl.key \in Keys /\ cl.op \in KeyOps
    /\ \A cl \in FirstCalls : cl.server \in Servers /\ cl.op \in FirstOps
    /\ \A cl \in SizeCalls : cl.server \in Servers /\ cl.op = "Size"
    /\ \A cl \in SeekNCalls : /\ cl.server \in Servers /\ cl.n \in 0 .. MaxN
                              /\ cl.op = "SeekFirstN"
    /\ \A cl \in ScanCalls : cl.op \in ScanOps
    /\ \A cl \in ScanCalls : cl.op = "Contains" => cl.lo \in Keys /\ cl.hi \in Keys
    /\ NoCall.op = "none"
  <1>1. \A cl \in KeyCalls : cl.key \in Keys /\ cl.op \in KeyOps
    BY DEF KeyCalls, KeyOps
  <1>2. \A cl \in FirstCalls : cl.server \in Servers /\ cl.op \in FirstOps
    BY DEF FirstCalls, FirstOps
  <1>3. \A cl \in SizeCalls : cl.server \in Servers /\ cl.op = "Size"
    BY DEF SizeCalls
  <1>4. \A cl \in SeekNCalls : /\ cl.server \in Servers /\ cl.n \in 0 .. MaxN
                               /\ cl.op = "SeekFirstN"
    BY DEF SeekNCalls
  <1>5. \A cl \in ScanCalls : cl.op \in ScanOps
    BY DEF ScanCalls, ScanOps
  <1>6. \A cl \in ScanCalls : cl.op = "Contains" => cl.lo \in Keys /\ cl.hi \in Keys
    BY DEF ScanCalls
  <1>7. NoCall.op = "none"
    BY DEF NoCall
  <1> QED
    BY <1>1, <1>2, <1>3, <1>4, <1>5, <1>6, <1>7

LEMMA CallKinds ==
    /\ \A cl \in SetCalls :
          /\ cl \in KeyCalls <=> cl.op \in KeyOps
          /\ cl \in FirstCalls <=> cl.op \in FirstOps
          /\ cl \in SizeCalls <=> cl.op = "Size"
          /\ cl \in SeekNCalls <=> cl.op = "SeekFirstN"
          /\ cl \notin ScanCalls /\ ServerOf(cl) \in Servers
    /\ NoCall \notin SetCalls /\ NoCall \notin ScanCalls
    /\ \A cl \in ScanCalls : cl \notin SetCalls
  <1> USE DEF SetCalls, KeyOps, FirstOps, ScanOps
  <1>1. \A cl \in SetCalls :
           /\ cl \in KeyCalls <=> cl.op \in KeyOps
           /\ cl \in FirstCalls <=> cl.op \in FirstOps
           /\ cl \in SizeCalls <=> cl.op = "Size"
           /\ cl \in SeekNCalls <=> cl.op = "SeekFirstN"
    BY CallTypes
  <1>2. \A cl \in SetCalls : cl \notin ScanCalls
    BY CallTypes
  <1>3. \A cl \in SetCalls : ServerOf(cl) \in Servers
    <2> SUFFICES ASSUME NEW cl \in SetCalls PROVE ServerOf(cl) \in Servers
      OBVIOUS
    <2>1. CASE cl \in KeyCalls
      BY <2>1, CallTypes, RouteInServers DEF ServerOf, Home
    <2>2. CASE cl \notin KeyCalls
      BY <2>2, CallTypes DEF ServerOf
    <2> QED
      BY <2>1, <2>2
  <1>4. NoCall \notin SetCalls /\ NoCall \notin ScanCalls
    BY CallTypes
  <1> QED
    BY <1>1, <1>2, <1>3, <1>4

-----------------------------------------------------------------------------
\* Process c calls cl, a scan at its own server first.
Calls(c, cl, s) ==
    /\ cl \in SetCalls \cup ScanCalls /\ s \in Servers
    /\ cl \in SetCalls => s = ServerOf(cl)
    /\ cl \in ScanCalls => s = MyServer[c]
    /\ Invoke(c, cl, s)

\* Whatever a process calls is such a call.
LEMMA StartCalls ==
    ASSUME NEW c \in Clients, Start(c)
    PROVE  \E cl, s : Calls(c, cl, s)
  <1> USE DEF Calls
  <1>0. MyServer[c] \in Servers
    BY PlacementAssumption
  <1>1. ASSUME NEW k \in Keys, NEW op \in KeyOps,
               Invoke(c, [op |-> op, key |-> k], Route(k))
        PROVE  \E cl, s : Calls(c, cl, s)
    <2> DEFINE cl == [op |-> op, key |-> k]
    <2>1. cl \in KeyCalls /\ cl.key = k
      BY DEF KeyCalls, KeyOps
    <2> HIDE DEF cl
    <2>2. cl \in SetCalls /\ cl \notin ScanCalls /\ ServerOf(cl) = Route(k)
      BY <2>1, CallKinds DEF SetCalls, ServerOf, Home
    <2>3. Calls(c, cl, Route(k))
      BY <1>1, <2>2, RouteInServers DEF cl
    <2> QED
      BY <2>3
  <1>2. ASSUME NEW s \in Servers, NEW op \in {"SeekFirst", "PopFirst", "Size"},
               Invoke(c, [op |-> op, server |-> s], s)
        PROVE  \E cl, t : Calls(c, cl, t)
    <2> DEFINE cl == [op |-> op, server |-> s]
    <2>1. cl \in FirstCalls \cup SizeCalls /\ cl.server = s /\ cl.op = op
      BY DEF FirstCalls, SizeCalls
    <2> HIDE DEF cl
    <2>2. cl \in SetCalls /\ cl \notin ScanCalls /\ ServerOf(cl) = s
      BY <2>1, CallKinds DEF SetCalls, ServerOf, KeyOps
    <2>3. Calls(c, cl, s)
      BY <1>2, <2>2 DEF cl
    <2> QED
      BY <2>3
  <1>3. ASSUME NEW n \in 0 .. MaxN, SeekFirstN(c, n)
        PROVE  \E cl, t : Calls(c, cl, t)
    <2> DEFINE cl == [op |-> "SeekFirstN", server |-> MyServer[c], n |-> n]
    <2>1. cl \in SeekNCalls /\ cl.server = MyServer[c] /\ cl.op = "SeekFirstN"
      BY <1>0 DEF SeekNCalls
    <2> HIDE DEF cl
    <2>2. cl \in SetCalls /\ cl \notin ScanCalls /\ ServerOf(cl) = MyServer[c]
      BY <2>1, CallKinds DEF SetCalls, ServerOf, KeyOps
    <2>3. Calls(c, cl, MyServer[c])
      BY <1>0, <1>3, <2>2 DEF SeekFirstN, cl
    <2> QED
      BY <2>3
  <1>4. ASSUME NEW r \in Ranges, Contains(c, r[1], r[2])
        PROVE  \E cl, t : Calls(c, cl, t)
    <2> DEFINE cl == [op |-> "Contains", lo |-> r[1], hi |-> r[2]]
    <2>1. cl \in ScanCalls
      BY SetDataAssumption DEF ScanCalls
    <2> HIDE DEF cl
    <2>2. Calls(c, cl, MyServer[c])
      BY <1>0, <1>4, <2>1, CallKinds DEF Contains, cl
    <2> QED
      BY <2>2
  <1>5. ASSUME GetAllData(c)
        PROVE  \E cl, t : Calls(c, cl, t)
    <2> DEFINE cl == [op |-> "GetAllData"]
    <2>1. cl \in ScanCalls
      BY DEF ScanCalls
    <2> HIDE DEF cl
    <2>2. Calls(c, cl, MyServer[c])
      BY <1>0, <1>5, <2>1, CallKinds DEF GetAllData, cl
    <2> QED
      BY <2>2
  <1> HIDE DEF Calls
  <1> QED
    BY <1>1, <1>2, <1>3, <1>4, <1>5
    DEF Start, StartKey, StartFirst, StartScan, Put, Get, Erase, SeekFirst,
        PopFirst, Size, KeyOps

\* What a call changes, and what it starts from.
LEMMA InvokeEffect ==
    ASSUME TypeOK, CallShape, NEW c \in Clients, NEW cl, NEW s, Calls(c, cl, s)
    PROVE  /\ stage[c] = "idle" /\ call[c] = NoCall
           /\ res[c] = NoResult /\ got[c] = NothingRead
           /\ call'[c] = cl /\ target'[c] = s
           /\ stage'[c] \in {"entry", "sent"}
           /\ UNCHANGED <<tree, it, res, got>>
  <1> USE DEF TypeOK, RpcTypeOK
  <1>1. stage[c] = "idle" /\ call[c] = NoCall
    BY DEF Calls, Invoke, CallShape
  <1>2. res[c] = NoResult /\ got[c] = NothingRead
    BY <1>1, CallKinds DEF CallShape
  <1>3. target'[c] = s
    BY DispatchType DEF Invoke, Calls
  <1> QED
    BY <1>1, <1>2, <1>3 DEF Calls, Invoke, Dispatch

\* A step that acts on what an iterator points to.
Applies(d) ==
    \/ PutPresent(d) \/ PutInsert(d) \/ PutExhausted(d)
    \/ LocalGet(d) \/ LocalErase(d) \/ LocalSeekFirst(d) \/ LocalPopFirst(d)

LEMMA AppliesYields ==
    ASSUME TypeOK, NEW d \in Clients, Applies(d)
    PROVE  /\ stage[d] = "apply"
           /\ \E ok \in {"true", "false", "bad_alloc"}, keys \in SUBSET Keys :
                 Yield(d, ok, keys)
           /\ \/ tree' = tree
              \/ tree' = [tree EXCEPT ![target[d]] = @ \ it[d]]
              \/ /\ call[d].op = "Put" /\ Cardinality(Mine(d)) < Capacity
                 /\ tree' = [tree EXCEPT ![target[d]] = @ \cup {call[d].key}]
  <1>0. /\ {} \in SUBSET Keys /\ it[d] \in SUBSET Keys
        /\ \A b \in BOOLEAN : Truth(b) \in {"true", "false", "bad_alloc"}
    BY DEF TypeOK, Truth
  <1>1. CASE PutPresent(d) \/ PutExhausted(d)
    BY <1>0, <1>1 DEF PutPresent, PutExhausted, At
  <1>2. CASE PutInsert(d)
    BY <1>0, <1>2 DEF PutInsert, At
  <1>3. CASE LocalGet(d) \/ LocalSeekFirst(d)
    BY <1>0, <1>3 DEF LocalGet, LocalSeekFirst, At
  <1>4. CASE LocalErase(d) \/ LocalPopFirst(d)
    BY <1>0, <1>4 DEF LocalErase, LocalPopFirst, At
  <1> QED
    BY <1>1, <1>2, <1>3, <1>4 DEF Applies

\* The steps of a call, in the groups that the lemmas treat alike.
LEMMA StepCases ==
    ASSUME NEW d \in Clients, Step(d)
    PROVE  \/ ServeRequest(d) \/ Lock(d) \/ Unlock(d) \/ Find(d) \/ ReadShard(d)
           \/ Applies(d) \/ LocalSeekFirstN(d) \/ LocalSize(d)
           \/ NextServer(d) \/ Return(d)
  BY DEF Step, LocalPut, Applies

\* The result of LocalSeekFirstN.
LEMMA SeekNYields ==
    ASSUME TypeOK, NEW d \in Clients, LocalSeekFirstN(d)
    PROVE  /\ stage[d] = "read" /\ call[d].op = "SeekFirstN" /\ tree' = tree
           /\ \E ok \in {"true", "false"}, keys \in SUBSET Keys : Yield(d, ok, keys)
  <1> DEFINE first == FirstOf(Mine(d), call[d].n)
  <1>1. first \in SUBSET Keys
    BY DEF FirstOf, Mine, TypeOK, RpcTypeOK
  <1>2. Truth(first # {}) \in {"true", "false"}
    BY DEF Truth
  <1>3. Yield(d, Truth(first # {}), first)
    BY DEF LocalSeekFirstN
  <1> HIDE DEF first
  <1> QED
    BY <1>1, <1>2, <1>3 DEF LocalSeekFirstN, At

\* A step of process d leaves every other process's call alone, and changes no
\* shard but, in stage "apply", the one d addresses.
LEMMA Frame ==
    ASSUME TypeOK, NEW d \in Clients, Start(d) \/ Step(d)
    PROVE  /\ \A c \in Clients \ {d} :
                 /\ stage'[c] = stage[c] /\ target'[c] = target[c]
                 /\ call'[c] = call[c] /\ it'[c] = it[c] /\ res'[c] = res[c]
                 /\ got'[c] = got[c]
           /\ \A s \in Servers : \/ tree'[s] = tree[s]
                                 \/ s = target[d] /\ stage[d] = "apply"
  <1> USE DEF TypeOK, RpcTypeOK
  <1>1. CASE Start(d)
    <2>1. PICK cl, s : Invoke(d, cl, s)
      BY <1>1, StartCalls DEF Calls
    <2> QED
      BY <2>1 DEF Invoke, Dispatch
  <1>2. CASE ServeRequest(d) \/ Lock(d) \/ Unlock(d)
    BY <1>2 DEF ServeRequest, Accept, Lock, Acquire, Unlock, Release, setVars
  <1>3. CASE Find(d) \/ ReadShard(d) \/ LocalSize(d)
    BY <1>3 DEF Find, ReadShard, LocalSize, Advance
  <1>4. CASE Applies(d)
    <2>1. PICK ok, keys : Yield(d, ok, keys)
      BY <1>4, AppliesYields
    <2>2. stage[d] = "apply" /\ \A s \in Servers : tree'[s] = tree[s] \/ s = target[d]
      BY <1>4, AppliesYields
    <2> QED
      BY <2>1, <2>2 DEF Yield, Advance
  <1>5. CASE LocalSeekFirstN(d)
    <2>1. PICK ok, keys : Yield(d, ok, keys)
      BY <1>5, SeekNYields
    <2> QED
      BY <1>5, <2>1, SeekNYields DEF Yield, Advance
  <1>6. CASE NextServer(d) \/ Return(d)
    BY <1>6 DEF NextServer, Dispatch, Return, Finish, setVars
  <1> QED
    BY <1>1, <1>2, <1>3, <1>4, <1>5, <1>6, StepCases

\* In particular a call that holds its shard's lock finds the shard unchanged.
LEMMA HeldFrame ==
    ASSUME TypeOK, LockDiscipline, NEW d \in Clients, Start(d) \/ Step(d),
           NEW c \in Clients \ {d}, stage[c] \in Holding
    PROVE  Mine(c)' = Mine(c)
  <1>1. target'[c] = target[c] /\ target[c] \in Servers
    BY Frame DEF TypeOK, RpcTypeOK
  <1>2. ~(target[c] = target[d] /\ stage[d] = "apply")
    BY Exclusion DEF TypeOK, Holding
  <1>3. tree'[target[c]] = tree[target[c]]
    BY <1>1, <1>2, Frame
  <1> QED
    BY <1>1, <1>3 DEF Mine

-----------------------------------------------------------------------------
\* A tree keeps its types, its bound, and only keys at home.
TreesSound ==
    /\ tree \in [Servers -> SUBSET Keys]
    /\ \A s \in Servers :
          IsFiniteSet(tree[s]) /\ Cardinality(tree[s]) <= Capacity
    /\ KeysAtHome

LEMMA TreeStep ==
    ASSUME ShardInv, NEW d \in Clients, Start(d) \/ Step(d)
    PROVE  TreesSound'
  <1> USE DEF ShardInv, TypeOK, RpcTypeOK
  <1> DEFINE t == target[d]
  <1>1. CASE tree' = tree
    BY <1>1 DEF TreesSound, KeysAtHome, Route
  <1>2. CASE Applies(d) /\ tree' # tree
    <2>1. stage[d] = "apply" /\ t \in Servers
      BY <1>2, AppliesYields
    <2>2. IsFiniteSet(tree[t]) /\ Cardinality(tree[t]) <= Capacity
          /\ Capacity \in Nat /\ Cardinality(tree[t]) \in Nat
      BY <2>1, SetDataAssumption, FS_CardinalityType
    <2>3. CASE tree' = [tree EXCEPT ![t] = @ \ it[d]]
      <3>1. tree'[t] = tree[t] \ it[d] /\ \A s \in Servers \ {t} : tree'[s] = tree[s]
        BY <2>1, <2>3
      <3>2. IsFiniteSet(tree'[t]) /\ Cardinality(tree'[t]) <= Capacity
        <4>1. tree'[t] \in SUBSET tree[t]
          BY <3>1
        <4>2. /\ IsFiniteSet(tree'[t])
              /\ Cardinality(tree'[t]) <= Cardinality(tree[t])
          BY <2>2, <4>1, FS_Subset
        <4>3. Cardinality(tree'[t]) \in Nat
          BY <4>2, FS_CardinalityType
        <4> QED
          BY <2>2, <4>2, <4>3
      <3>3. tree' \in [Servers -> SUBSET Keys]
        BY <2>3
      <3>4. KeysAtHome'
        BY <3>1 DEF KeysAtHome, Route
      <3> QED
        BY <3>1, <3>2, <3>3, <3>4 DEF TreesSound
    <2>4. CASE /\ call[d].op = "Put" /\ Cardinality(Mine(d)) < Capacity
               /\ tree' = [tree EXCEPT ![t] = @ \cup {call[d].key}]
      <3> DEFINE k == call[d].key
      <3>1. call[d] \in KeyCalls
        BY <2>1, <2>4, CallTypes DEF CallShape, FirstOps
      <3>2. k \in Keys /\ Route(k) = t
        BY <3>1, CallTypes DEF CallShape, ServerOf, Home, SetCalls
      <3>3. /\ tree'[t] = tree[t] \cup {k}
            /\ \A s \in Servers \ {t} : tree'[s] = tree[s]
        BY <2>1, <2>4
      <3>4. IsFiniteSet(tree'[t]) /\ Cardinality(tree'[t]) <= Capacity
        <4>1. Cardinality(tree[t]) < Capacity
          BY <2>4 DEF Mine
        <4>2. /\ IsFiniteSet(tree[t] \cup {k})
              /\ Cardinality(tree[t] \cup {k}) \in
                    {Cardinality(tree[t]), Cardinality(tree[t]) + 1}
          BY <2>2, FS_AddElement
        <4> QED
          BY <2>2, <3>3, <4>1, <4>2
      <3>5. tree' \in [Servers -> SUBSET Keys]
        BY <2>4, <3>2
      <3>6. KeysAtHome'
        BY <3>2, <3>3 DEF KeysAtHome, Route
      <3> QED
        BY <3>3, <3>4, <3>5, <3>6 DEF TreesSound
    <2> QED
      BY <1>2, <2>3, <2>4, AppliesYields
  <1>3. tree' = tree \/ Applies(d)
    <2>1. CASE Start(d)
      BY <2>1, StartCalls DEF Calls, Invoke
    <2>2. CASE LocalSeekFirstN(d)
      BY <2>2, SeekNYields
    <2> QED
      BY <2>1, <2>2, StepCases
      DEF ServeRequest, Lock, Unlock, Find, ReadShard, LocalSize, NextServer,
          Return, setVars
  <1> QED
    BY <1>1, <1>2, <1>3

\* Every value is of its type after a step.
LEMMA TypeStep ==
    ASSUME ShardInv, NEW d \in Clients, Start(d) \/ Step(d)
    PROVE  TypeOK'
  <1> USE DEF ShardInv
  <1>0. {"read", "apply", "unlock", "reply"} \subseteq Stages
    BY DEF Stages
  <1>a. NoResult \in Results
    BY DEF Results, NoResult
  <1>b. /\ tree' \in [Servers -> SUBSET Keys]
        /\ \A s \in Servers :
              IsFiniteSet(tree'[s]) /\ Cardinality(tree'[s]) <= Capacity
    BY TreeStep DEF TreesSound
  <1>c. target[d] \in Servers
    BY DEF TypeOK, RpcTypeOK
  <1>d. /\ Mine(d) \in SUBSET Keys /\ Cardinality(Mine(d)) \in Nat
    BY <1>c, FS_CardinalityType DEF Mine, TypeOK
  <1> DEFINE Rest == /\ call' \in [Clients -> SetCalls \cup ScanCalls \cup {NoCall}]
                     /\ it' \in [Clients -> SUBSET Keys]
                     /\ res' \in [Clients -> Results]
                     /\ got' \in [Clients -> [Servers -> SUBSET Keys]]
  <1>1. CASE Start(d)
    <2>1. PICK cl, s : Calls(d, cl, s)
      BY <1>1, StartCalls
    <2>2. RpcTypeOK'
      BY <2>1, DispatchType DEF Calls, Invoke, TypeOK
    <2>3. Rest
      BY <2>1 DEF Calls, Invoke, TypeOK
    <2> QED
      BY <1>b, <2>2, <2>3 DEF TypeOK
  <1>2. CASE ServeRequest(d) \/ Lock(d) \/ Unlock(d)
    <2>1. RpcTypeOK'
      BY <1>2, RpcStepType DEF ServeRequest, Lock, Unlock, TypeOK
    <2>2. Rest
      BY <1>2 DEF ServeRequest, Lock, Unlock, setVars, TypeOK
    <2> QED
      BY <1>b, <2>1, <2>2 DEF TypeOK
  <1>3. CASE Find(d)
    <2>1. RpcTypeOK'
      BY <1>0, <1>3, RpcStepType DEF Find, TypeOK
    <2>2. Sought(d) \in SUBSET Keys
      BY <1>d DEF Sought, FirstOf
    <2>3. Rest
      BY <1>3, <2>2 DEF Find, TypeOK
    <2> QED
      BY <1>b, <2>1, <2>3 DEF TypeOK
  <1>4. CASE Applies(d) \/ LocalSeekFirstN(d)
    <2>1. PICK ok \in {"true", "false", "bad_alloc"}, keys \in SUBSET Keys :
                 Yield(d, ok, keys)
      BY <1>4, AppliesYields, SeekNYields DEF TypeOK
    <2>2. RpcTypeOK'
      BY <1>0, <2>1, RpcStepType DEF Yield, TypeOK
    <2>3. Rest
      BY <2>1 DEF Yield, TypeOK, Results
    <2> QED
      BY <1>b, <2>2, <2>3 DEF TypeOK
  <1>5. CASE LocalSize(d)
    <2>1. RpcTypeOK'
      BY <1>0, <1>5, RpcStepType DEF LocalSize, TypeOK
    <2>2. Rest
      BY <1>5, <1>d DEF LocalSize, TypeOK, Results
    <2> QED
      BY <1>b, <2>1, <2>2 DEF TypeOK
  <1>6. CASE ReadShard(d)
    <2>1. RpcTypeOK'
      BY <1>0, <1>6, RpcStepType DEF ReadShard, TypeOK
    <2> DEFINE found == ScanOf(d, Mine(d))
    <2>2. found \in SUBSET Keys
      BY <1>d DEF ScanOf, SetScan, SetOneBranch, ManyBranch, ScanLoop
    <2>3. got' = [got EXCEPT ![d][target[d]] = @ \cup found]
      BY <1>6 DEF ReadShard
    <2> HIDE DEF found
    <2>4. got' \in [Clients -> [Servers -> SUBSET Keys]]
      BY <1>c, <2>2, <2>3 DEF TypeOK
    <2>5. Rest
      BY <1>6, <2>4 DEF ReadShard, TypeOK
    <2> QED
      BY <1>b, <2>1, <2>5 DEF TypeOK
  <1>7. CASE NextServer(d)
    <2>1. LegsAfter(d, target[d]) \subseteq Servers
      BY DEF LegsAfter
    <2>2. RpcTypeOK'
      BY <1>7, <2>1, DispatchType DEF NextServer, TypeOK
    <2>3. Rest
      BY <1>7 DEF NextServer, setVars, TypeOK
    <2> QED
      BY <1>b, <2>2, <2>3 DEF TypeOK
  <1>8. CASE Return(d)
    <2>1. RpcTypeOK'
      BY <1>8, RpcStepType DEF Return, TypeOK
    <2>2. NothingRead \in [Servers -> SUBSET Keys]
      BY DEF NothingRead
    <2>3. Rest
      BY <1>8, <1>a, <2>2 DEF Return, TypeOK
    <2> QED
      BY <1>b, <2>1, <2>3 DEF TypeOK
  <1> QED
    BY <1>1, <1>2, <1>3, <1>4, <1>5, <1>6, <1>7, <1>8, StepCases

\* The lock discipline survives a step of any process.
LEMMA LockStep ==
    ASSUME TypeOK, LockDiscipline, NEW d \in Clients, Start(d) \/ Step(d)
    PROVE  LockDiscipline'
  <1> USE DEF TypeOK
  <1>1. CASE Start(d)
    <2>1. PICK cl, s : Calls(d, cl, s)
      BY <1>1, StartCalls
    <2> QED
      BY <2>1, DispatchLocks DEF Calls, Invoke, Holding
  <1>2. CASE ServeRequest(d) \/ Lock(d) \/ Unlock(d) \/ Return(d)
    BY <1>2, RpcStepLocks DEF ServeRequest, Lock, Unlock, Return
  <1>3. CASE Find(d) \/ ReadShard(d)
    BY <1>3, RpcStepLocks DEF Find, ReadShard, Holding
  <1>4. CASE Applies(d) \/ LocalSeekFirstN(d)
    <2>1. stage[d] \in {"apply", "read"} /\ Advance(d, "unlock")
      BY <1>4, AppliesYields, SeekNYields DEF Yield
    <2> QED
      BY <2>1, RpcStepLocks DEF Holding
  <1>5. CASE LocalSize(d)
    <2>1. /\ stage[d] = "entry" /\ stage' = [stage EXCEPT ![d] = "reply"]
          /\ UNCHANGED <<target, mutex>>
      BY <1>5 DEF LocalSize, At, Advance
    <2> QED
      BY <2>1 DEF LockDiscipline, RpcTypeOK, Holding
  <1>6. CASE NextServer(d)
    <2>1. PICK s \in LegsAfter(d, target[d]) : Dispatch(d, s)
      BY <1>6 DEF NextServer
    <2> QED
      BY <1>6, <2>1, DispatchLocks DEF NextServer, LegsAfter, Holding
  <1> QED
    BY <1>1, <1>2, <1>3, <1>4, <1>5, <1>6, StepCases

-----------------------------------------------------------------------------
\* The parts of the invariant that are about one call.
ShapeOf(c) ==
    /\ call[c] \in SetCalls => target[c] = ServerOf(call[c])
    /\ stage[c] = "apply" => call[c] \in KeyCalls \cup FirstCalls
    /\ stage[c] = "idle" => call[c] = NoCall
    /\ call[c] \notin SetCalls => res[c] = NoResult
    /\ call[c] \notin ScanCalls => got[c] = NothingRead

FreshOf(c) == stage[c] = "apply" => it[c] = Sought(c)

\* A step of d does not disturb another call: where that one relies on a
\* shard it holds the lock.
LEMMA OthersStep ==
    ASSUME ShardInv, NEW d \in Clients, Start(d) \/ Step(d),
           NEW c \in Clients \ {d}
    PROVE  ShapeOf(c)' /\ FreshOf(c)'
  <1> USE DEF ShardInv
  <1>1. /\ stage'[c] = stage[c] /\ target'[c] = target[c]
        /\ call'[c] = call[c] /\ it'[c] = it[c] /\ res'[c] = res[c]
        /\ got'[c] = got[c]
    BY Frame
  <1>2. ShapeOf(c)'
    BY <1>1 DEF CallShape, ShapeOf, ServerOf, Home, Route
  <1>3. FreshOf(c)'
    <2> SUFFICES ASSUME stage'[c] = "apply" PROVE it'[c] = Sought(c)'
      BY DEF FreshOf
    <2>1. it[c] = Sought(c) /\ Mine(c)' = Mine(c)
      BY <1>1, HeldFrame DEF IteratorFresh, Holding
    <2> QED
      BY <1>1, <2>1 DEF Sought
  <1> QED
    BY <1>2, <1>3

\* Nor does it leave its own call in disorder.
LEMMA OwnStep ==
    ASSUME ShardInv, NEW d \in Clients, Start(d) \/ Step(d)
    PROVE  ShapeOf(d)' /\ FreshOf(d)'
  <1> USE DEF ShardInv
  <1>a. ShapeOf(d)
    BY DEF CallShape, ShapeOf
  <1>1. CASE Start(d)
    <2>1. PICK cl, s : Calls(d, cl, s)
      BY <1>1, StartCalls
    <2>2. /\ res[d] = NoResult /\ got[d] = NothingRead
          /\ call'[d] = cl /\ target'[d] = s
          /\ stage'[d] \in {"entry", "sent"}
          /\ UNCHANGED <<tree, it, res, got>>
      BY <2>1, InvokeEffect
    <2> QED
      BY <2>1, <2>2 DEF Calls, ShapeOf, FreshOf, ServerOf, Home, Route
  <1>2. CASE ServeRequest(d) \/ Lock(d) \/ Unlock(d)
    <2>1. /\ stage'[d] \in {"entry", "read", "reply"}
          /\ target'[d] = target[d] /\ UNCHANGED setVars
      BY <1>2 DEF ServeRequest, Accept, Lock, Acquire, Unlock, Release, TypeOK,
                  RpcTypeOK
    <2> QED
      BY <1>a, <2>1 DEF ShapeOf, FreshOf, ServerOf, Home, Route, setVars
  <1>3. CASE Find(d)
    <2>1. /\ stage'[d] = "apply" /\ call[d] \in KeyCalls \cup FirstCalls
          /\ it'[d] = Sought(d) /\ UNCHANGED <<target, tree, call, res, got>>
      BY <1>3 DEF Find, Advance, TypeOK, RpcTypeOK
    <2>2. FreshOf(d)'
      BY <2>1 DEF FreshOf, Sought, Mine
    <2>3. ShapeOf(d)'
      BY <1>a, <2>1 DEF ShapeOf, ServerOf, Home, Route
    <2> QED
      BY <2>2, <2>3
  <1>4. CASE Applies(d) \/ LocalSeekFirstN(d)
    <2>1. PICK ok, keys : Yield(d, ok, keys)
      BY <1>4, AppliesYields, SeekNYields
    <2>2. /\ stage'[d] = "unlock" /\ UNCHANGED <<target, call, got>>
      BY <2>1 DEF Yield, Advance, TypeOK, RpcTypeOK
    <2>3. call[d] \in SetCalls
      <3>1. CASE Applies(d)
        BY <1>a, <3>1, AppliesYields DEF ShapeOf, SetCalls
      <3>2. CASE LocalSeekFirstN(d)
        <4>1. call[d].op = "SeekFirstN"
          BY <3>2, SeekNYields
        <4>2. call[d] \in SetCalls \cup ScanCalls \cup {NoCall}
          BY DEF TypeOK
        <4> QED
          BY <4>1, <4>2, CallTypes DEF ScanOps
      <3> QED
        BY <1>4, <3>1, <3>2
    <2> QED
      BY <1>a, <2>2, <2>3 DEF ShapeOf, FreshOf, ServerOf, Home, Route
  <1>5. CASE LocalSize(d)
    <2>1. /\ stage'[d] = "reply" /\ call[d].op = "Size"
          /\ UNCHANGED <<target, call, got>>
      BY <1>5 DEF LocalSize, At, Advance, TypeOK, RpcTypeOK
    <2>2. call[d] \in SetCalls
      BY <2>1, CallTypes DEF TypeOK, ScanOps
    <2> QED
      BY <1>a, <2>1, <2>2 DEF ShapeOf, FreshOf, ServerOf, Home, Route
  <1>6. CASE ReadShard(d)
    <2>1. /\ stage'[d] = "unlock" /\ call[d] \in ScanCalls
          /\ UNCHANGED <<target, call, res>>
      BY <1>6 DEF ReadShard, Advance, TypeOK, RpcTypeOK
    <2> QED
      BY <1>a, <2>1, CallKinds DEF ShapeOf, FreshOf
  <1>7. CASE NextServer(d)
    <2>1. /\ stage'[d] \in {"entry", "sent"} /\ call[d] \in ScanCalls
          /\ UNCHANGED setVars
      BY <1>7 DEF NextServer, Dispatch, TypeOK, RpcTypeOK
    <2> QED
      BY <1>a, <2>1, CallKinds DEF ShapeOf, FreshOf, setVars
  <1>8. CASE Return(d)
    <2>1. /\ stage'[d] = "idle" /\ call'[d] = NoCall
          /\ res'[d] = NoResult /\ got'[d] = NothingRead
      BY <1>8 DEF Return, Finish, TypeOK, RpcTypeOK
    <2> QED
      BY <2>1, CallKinds DEF ShapeOf, FreshOf
  <1> QED
    BY <1>1, <1>2, <1>3, <1>4, <1>5, <1>6, <1>7, <1>8, StepCases

\* The next server a scan addresses is the one it reads next: the servers
\* that it has not read yet stay the same.
LEMMA NextIsUnread ==
    ASSUME TypeOK, NEW d \in Clients, NextServer(d)
    PROVE  Unread(d)' = Unread(d)
  <1> USE DEF TypeOK, RpcTypeOK
  <1> DEFINE t == target[d]
             my == MyServer[d]
  <1>1. PICK s \in LegsAfter(d, t) : /\ \A i \in LegsAfter(d, t) : s <= i
                                     /\ Dispatch(d, s)
    BY DEF NextServer
  <1>2. s \in Servers /\ my \in Servers /\ t \in Servers /\ s # my
    BY <1>1, PlacementAssumption DEF LegsAfter
  <1>3. target'[d] = s /\ stage'[d] \in {"entry", "sent"} /\ stage[d] = "reply"
    BY <1>1, <1>2, DispatchType DEF Dispatch, NextServer
  <1>4. Unread(d) = LegsAfter(d, t) /\ Unread(d)' = LegsAfter(d, s) \cup {s}
    BY <1>3 DEF Unread, LegsAfter
  <1>5. \A i \in Servers : i \in Nat /\ (s <= i => i > s \/ i = s)
    <2>1. \A i, j \in Nat : j <= i => i > j \/ i = j
      OBVIOUS
    <2>2. \A i \in Servers : i \in Nat
      BY DEF Servers
    <2> QED
      BY <1>2, <2>1, <2>2
  <1>6. LegsAfter(d, s) = {i \in Servers : i > s /\ i # my}
    BY <1>2 DEF LegsAfter
  <1>7. CASE t = my
    <2>1. LegsAfter(d, t) = Servers \ {my}
      BY <1>7 DEF LegsAfter
    <2>2. \A i \in Servers : i # my => s <= i
      BY <1>1, <2>1
    <2>3. \A i \in Servers : i # my => (i > s \/ i = s)
      BY <1>2, <1>5, <2>2
    <2> QED
      BY <1>2, <1>4, <1>6, <2>1, <2>3
  <1>8. CASE t # my
    <2>1. LegsAfter(d, t) = {i \in Servers : i > t /\ i # my}
      BY <1>8 DEF LegsAfter
    <2>a. s > t /\ \A i \in Servers : i > t /\ i # my => s <= i
      BY <1>1, <2>1
    <2>2. s > t /\ \A i \in Servers : i > t /\ i # my => (i > s \/ i = s)
      BY <1>2, <1>5, <2>a
    <2>3. \A i \in Servers : i > s => i > t
      BY <1>2, <1>5, <2>2
    <2> QED
      BY <1>2, <1>4, <1>6, <2>1, <2>2, <2>3
  <1> QED
    BY <1>7, <1>8

\* A scan that has just begun has read no server.
LEMMA BegunIsUnread ==
    ASSUME TypeOK, CallShape, NEW d \in Clients, NEW cl \in ScanCalls, NEW s,
           Calls(d, cl, s)
    PROVE  Unread(d)' = Servers
  <1>1. /\ target'[d] = s /\ stage'[d] \in {"entry", "sent"}
        /\ s = MyServer[d] /\ s \in Servers
    BY InvokeEffect DEF Calls
  <1> QED
    BY <1>1 DEF Unread, LegsAfter

\* A process whose call is under way calls nothing else.
LEMMA StepBusy ==
    ASSUME TypeOK, NEW d \in Clients, Step(d)
    PROVE  stage[d] # "idle"
  <1>1. CASE Applies(d) \/ LocalSeekFirstN(d)
    BY <1>1, AppliesYields, SeekNYields
  <1>2. CASE ~(Applies(d) \/ LocalSeekFirstN(d))
    BY <1>2, StepCases
    DEF ServeRequest, Accept, Lock, Acquire, Unlock, Release, Find, ReadShard,
        LocalSize, At, NextServer, Return, Finish
  <1> QED
    BY <1>1, <1>2

\* Every other step within a scan, but the read of a shard, keeps them too.
LEMMA UnreadStep ==
    ASSUME TypeOK, NEW d \in Clients, Step(d), call[d] \in ScanCalls,
           ~ReadShard(d), ~Return(d), CallShape
    PROVE  Unread(d)' = Unread(d) /\ call'[d] = call[d]
  <1> USE DEF TypeOK, RpcTypeOK
  <1>1. ~Applies(d) /\ ~LocalSeekFirstN(d) /\ ~LocalSize(d) /\ ~Find(d)
    <2>1. ~Applies(d)
      BY AppliesYields, CallKinds DEF CallShape, SetCalls
    <2>2. ~LocalSeekFirstN(d) /\ ~LocalSize(d)
      BY CallTypes DEF LocalSeekFirstN, LocalSize, At, ScanOps
    <2>3. ~Find(d)
      BY CallKinds DEF Find, SetCalls
    <2> QED
      BY <2>1, <2>2, <2>3
  <1>2. CASE NextServer(d)
    BY <1>2, NextIsUnread DEF NextServer, setVars
  <1>3. CASE ServeRequest(d) \/ Lock(d) \/ Unlock(d)
    <2>1. /\ target'[d] = target[d] /\ call' = call
          /\ stage[d] \in {"unlock", "reply"} <=> stage'[d] \in {"unlock", "reply"}
      BY <1>3 DEF ServeRequest, Accept, Lock, Acquire, Unlock, Release, setVars
    <2> QED
      BY <2>1 DEF Unread, LegsAfter
  <1> QED
    BY <1>1, <1>2, <1>3, StepCases

\* A scan appends what it reads to nothing it has already: no step gives a
\* process a result of a server that it has still to read.
OnceOf(c) == call[c] \in ScanCalls => \A s \in Unread(c) : got[c][s] = {}

LEMMA OnceStep ==
    ASSUME ShardInv, NEW d \in Clients, Start(d) \/ Step(d), NEW c \in Clients
    PROVE  OnceOf(c)'
  <1> USE DEF ShardInv
  <1>a. OnceOf(c)
    BY DEF ReadOnce, OnceOf
  <1>1. CASE c # d
    <2>1. /\ stage'[c] = stage[c] /\ target'[c] = target[c]
          /\ call'[c] = call[c] /\ got'[c] = got[c]
      BY <1>1, Frame
    <2>2. Unread(c)' = Unread(c)
      BY <2>1 DEF Unread, LegsAfter
    <2> QED
      BY <1>a, <2>1, <2>2 DEF OnceOf
  <1>2. CASE c = d /\ Start(d)
    <2>1. PICK cl, s : Calls(d, cl, s)
      BY <1>2, StartCalls
    <2>2. got[d] = NothingRead /\ call'[d] = cl /\ got' = got
      BY <2>1, InvokeEffect
    <2>3. SUFFICES ASSUME cl \in ScanCalls PROVE OnceOf(d)'
      BY <1>2, <2>2 DEF OnceOf
    <2>4. Unread(d)' = Servers
      BY <2>1, <2>3, BegunIsUnread
    <2> QED
      BY <2>2, <2>4 DEF OnceOf, NothingRead
  <1>3. CASE c = d /\ Step(d) /\ ReadShard(d)
    <2>1. /\ stage[d] = "read" /\ stage'[d] = "unlock" /\ call' = call
          /\ target' = target /\ target[d] \in Servers
          /\ got' = [got EXCEPT ![d][target[d]] = @ \cup ScanOf(d, Mine(d))]
      BY <1>3 DEF ReadShard, Advance, TypeOK, RpcTypeOK
    <2>2. /\ Unread(d)' = LegsAfter(d, target[d])
          /\ LegsAfter(d, target[d]) \subseteq Unread(d) \cap Servers
      BY <2>1 DEF Unread, LegsAfter
    <2>3. target[d] \notin LegsAfter(d, target[d])
      BY <2>1 DEF LegsAfter, Servers
    <2>4. \A s \in LegsAfter(d, target[d]) : got'[d][s] = got[d][s]
      BY <2>1, <2>2, <2>3 DEF TypeOK
    <2> QED
      BY <1>3, <1>a, <2>1, <2>2, <2>4 DEF OnceOf
  <1>4. CASE c = d /\ Step(d) /\ Return(d)
    <2>1. call'[d] = NoCall
      BY <1>4 DEF Return, TypeOK
    <2> QED
      BY <1>4, <2>1, CallKinds DEF OnceOf
  <1>5. CASE c = d /\ Step(d) /\ ~ReadShard(d) /\ ~Return(d)
    <2>1. call'[d] = call[d] /\ got' = got
      <3>1. CASE Applies(d) \/ LocalSeekFirstN(d)
        <4>1. PICK ok, keys : Yield(d, ok, keys)
          BY <3>1, AppliesYields, SeekNYields
        <4> QED
          BY <4>1 DEF Yield
      <3>2. CASE ServeRequest(d) \/ Lock(d) \/ Unlock(d) \/ Find(d)
                 \/ LocalSize(d) \/ NextServer(d)
        BY <3>2 DEF ServeRequest, Lock, Unlock, Find, LocalSize, NextServer,
                    setVars
      <3> QED
        BY <1>5, <3>1, <3>2, StepCases
    <2>2. SUFFICES ASSUME call[d] \in ScanCalls PROVE OnceOf(d)'
      BY <1>5, <2>1 DEF OnceOf
    <2>3. Unread(d)' = Unread(d)
      BY <1>5, <2>2, UnreadStep
    <2> QED
      BY <1>5, <1>a, <2>1, <2>2, <2>3 DEF OnceOf
  <1> QED
    BY <1>1, <1>2, <1>3, <1>4, <1>5

\* The initial states.
LEMMA InitHolds == Init => ShardInv
  <1> SUFFICES ASSUME Init PROVE ShardInv
    OBVIOUS
  <1>1. TypeOK
    <2>1. NoResult \in Results /\ NothingRead \in [Servers -> SUBSET Keys]
      BY DEF NoResult, Results, NothingRead
    <2>2. IsFiniteSet({}) /\ Cardinality({}) = 0 /\ 0 <= Capacity
      BY FS_EmptySet, SetDataAssumption
    <2>3. RpcTypeOK
      BY PlacementAssumption DEF Init, RpcInit, RpcTypeOK, Stages
    <2> QED
      BY <2>1, <2>2, <2>3 DEF Init, TypeOK
  <1>2. LockDiscipline
    BY FreeAssumption DEF Init, RpcInit, LockDiscipline, Holding
  <1>3. CallShape /\ IteratorFresh /\ KeysAtHome
    BY CallKinds DEF Init, RpcInit, CallShape, IteratorFresh, KeysAtHome
  <1>4. ReadOnce
    BY CallKinds DEF Init, ReadOnce
  <1> QED
    BY <1>1, <1>2, <1>3, <1>4 DEF ShardInv

\* Every step keeps the invariant.
LEMMA StepHolds == ShardInv /\ [Next]_vars => ShardInv'
  <1> SUFFICES ASSUME ShardInv, [Next]_vars PROVE ShardInv'
    OBVIOUS
  <1>1. ASSUME NEW d \in Clients, Start(d) \/ Step(d)
        PROVE  ShardInv'
    <2>1. TypeOK' /\ KeysAtHome'
      BY <1>1, TypeStep, TreeStep DEF TreesSound
    <2>2. LockDiscipline'
      BY <1>1, LockStep DEF ShardInv
    <2>3. \A c \in Clients : ShapeOf(c)' /\ FreshOf(c)'
      BY <1>1, OthersStep, OwnStep
    <2>4. CallShape' /\ IteratorFresh'
      BY <2>3 DEF CallShape, IteratorFresh, ShapeOf, FreshOf
    <2>5. ReadOnce'
      <3>1. \A c \in Clients : OnceOf(c)'
        BY <1>1, OnceStep
      <3> QED
        BY <3>1 DEF ReadOnce, OnceOf
    <2> QED
      BY <2>1, <2>2, <2>4, <2>5 DEF ShardInv
  <1>2. CASE UNCHANGED vars
    <2>1. ReadOnce'
      BY <1>2 DEF vars, ShardInv, ReadOnce, Unread, LegsAfter
    <2>2. (TypeOK /\ LockDiscipline /\ CallShape /\ KeysAtHome /\ IteratorFresh)'
      BY <1>2 DEF vars, ShardInv, TypeOK, RpcTypeOK, LockDiscipline, CallShape,
                  KeysAtHome, IteratorFresh, Sought, Mine, ServerOf, Home, Route
    <2> QED
      BY <2>1, <2>2 DEF ShardInv
  <1> QED
    BY <1>1, <1>2 DEF Next

\* The invariant of the shards and of the calls in them holds in every
\* reachable state of a set.
THEOREM Inductive == Spec => []ShardInv
  BY InitHolds, StepHolds, PTL DEF Spec

-----------------------------------------------------------------------------
(***************************************************************************)
(* Contains and GetAllData.                                                *)
(***************************************************************************)

\* The history variables restrict nothing: with them a set does only what it
\* does without them.
LEMMA ScanSpecIsSpec == ScanSpec => Spec
  <1>1. ScanInit => Init
    BY DEF ScanInit
  <1>2. [ScanNext]_scanVars => [Next]_vars
    BY DEF ScanNext, scanVars, Next, Start
  <1> QED
    BY <1>1, <1>2, PTL DEF ScanSpec, Spec

\* What a look at a shard with the keys m appends to c's scan.
LEMMA BoundsOfScan ==
    ASSUME NEW c \in Clients, call[c] \in ScanCalls
    PROVE  \/ call[c].op = "GetAllData"
           \/ call[c].op = "Contains" /\ call[c].lo \in Nat /\ call[c].hi \in Nat
  BY CallTypes, SetDataAssumption DEF ScanOps

\* It is part of the shard, and leaves out nothing the scan is for.
LEMMA ScanCovers ==
    ASSUME NEW c \in Clients, call[c] \in ScanCalls, NEW m \in SUBSET Keys
    PROVE  ScanOf(c, m) \subseteq m /\ Wanted(c, m) \subseteq ScanOf(c, m)
  <1>1. m \in SUBSET Nat
    BY SetDataAssumption
  <1>2. CASE call[c].op = "GetAllData"
    BY <1>2 DEF ScanOf, Wanted
  <1>3. CASE call[c].op # "GetAllData"
    <2>1. call[c].lo \in Nat /\ call[c].hi \in Nat
      BY <1>3, BoundsOfScan
    <2>2. InRange(m, call[c].lo, call[c].hi) \subseteq SetScan(m, call[c].lo, call[c].hi)
      BY <1>1, <2>1, SetScanForgetsNothing
    <2>3. SetScan(m, call[c].lo, call[c].hi) \subseteq m
      BY DEF SetScan, SetOneBranch, ManyBranch, ScanLoop
    <2> QED
      BY <1>3, <2>2, <2>3 DEF ScanOf, Wanted
  <1> QED
    BY <1>2, <1>3

\* What it has beyond that is alone in the shard, and beyond key_end.
LEMMA ScanStrays ==
    ASSUME NEW c \in Clients, call[c] \in ScanCalls,
           NEW m \in SUBSET Keys, IsFiniteSet(m),
           NEW k \in ScanOf(c, m), k \notin Wanted(c, ScanOf(c, m))
    PROVE  ScanOf(c, m) = {k} /\ k > call[c].hi
  <1> DEFINE lo == call[c].lo
             hi == call[c].hi
  <1>1. call[c].op # "GetAllData" /\ lo \in Nat /\ hi \in Nat
    BY BoundsOfScan DEF Wanted
  <1>2. m \in SUBSET Nat /\ k \in m /\ k \in Nat
    BY ScanCovers, SetDataAssumption
  <1>3. ~(lo <= k /\ k <= hi)
    BY <1>1 DEF Wanted, InRange
  <1>4. Cardinality(m) = 1
    <2> SUFFICES ASSUME Cardinality(m) # 1 PROVE FALSE
      OBVIOUS
    <2>1. k \in InRange(m, lo, hi)
      BY <1>1, <1>2, ScansAreRanges DEF ScanOf
    <2> QED
      BY <1>3, <2>1 DEF InRange
  <1>5. m = {k}
    BY <1>2, <1>4, FS_Singleton
  <1>6. k \in SetOneBranch(m, lo)
    BY <1>1, <1>4, <1>5 DEF ScanOf, SetScan
  <1>7. k >= lo
    BY <1>6 DEF SetOneBranch
  <1> QED
    BY <1>1, <1>2, <1>3, <1>5, <1>7, ScanCovers

\* The server that a scan reads had given it nothing before: what is appended
\* is all it has of that server.
LEMMA ReadEffect ==
    ASSUME ShardInv, NEW d \in Clients, ReadShard(d)
    PROVE  /\ call[d] \in ScanCalls /\ call' = call
           /\ tree' = tree /\ target' = target
           /\ stage[d] = "read" /\ stage'[d] = "unlock"
           /\ got' = [got EXCEPT ![d][target[d]] = ScanOf(d, Mine(d))]
  <1>1. /\ stage[d] = "read" /\ stage'[d] = "unlock" /\ call' = call
        /\ target' = target /\ tree' = tree /\ call[d] \in ScanCalls
        /\ got' = [got EXCEPT ![d][target[d]] = @ \cup ScanOf(d, Mine(d))]
    BY DEF ReadShard, Advance, ShardInv, TypeOK, RpcTypeOK
  <1>2. got[d][target[d]] = {}
    BY <1>1 DEF ShardInv, ReadOnce, Unread
  <1>3. got' = [got EXCEPT ![d][target[d]] = ScanOf(d, Mine(d))]
    BY <1>1, <1>2
  <1> QED
    BY <1>1, <1>3

\* A step of process d reads a shard into d's result, empties it, or leaves
\* all results alone; d begins and ends its scans with nothing read.
LEMMA GotStep ==
    ASSUME ShardInv, NEW d \in Clients, Start(d) \/ Step(d)
    PROVE  \/ /\ ReadShard(d) /\ call[d] \in ScanCalls /\ call' = call
              /\ tree' = tree /\ target' = target
              /\ stage[d] = "read" /\ stage'[d] = "unlock"
              /\ got' = [got EXCEPT ![d][target[d]] = ScanOf(d, Mine(d))]
           \/ got' = got /\ call'[d] = call[d]
           \/ got'[d] = NothingRead /\ (Start(d) \/ Return(d))
  <1> USE DEF ShardInv
  <1>1. CASE ReadShard(d)
    BY <1>1, ReadEffect
  <1>2. CASE Start(d)
    BY <1>2, StartCalls, InvokeEffect
  <1>3. CASE Return(d)
    BY <1>3 DEF Return, TypeOK
  <1>4. CASE Applies(d) \/ LocalSeekFirstN(d)
    <2>1. PICK ok, keys : Yield(d, ok, keys)
      BY <1>4, AppliesYields, SeekNYields
    <2> QED
      BY <2>1 DEF Yield
  <1>5. CASE ServeRequest(d) \/ Lock(d) \/ Unlock(d) \/ Find(d) \/ LocalSize(d)
             \/ NextServer(d)
    BY <1>5 DEF ServeRequest, Lock, Unlock, Find, LocalSize, NextServer, setVars
  <1> QED
    BY <1>1, <1>2, <1>3, <1>4, <1>5, StepCases

\* A result of one server beyond what the scan was for is a single key.
LEMMA StraysStep ==
    ShardInv /\ StraysAreAlone /\ [Next]_vars => StraysAreAlone'
  <1> SUFFICES ASSUME ShardInv, StraysAreAlone, [Next]_vars PROVE StraysAreAlone'
    OBVIOUS
  <1> USE DEF ShardInv
  <1> DEFINE Strays(c, s) ==
        Scanning(c) => \A k \in got[c][s] \ Wanted(c, got[c][s]) :
                            got[c][s] = {k} /\ k > call[c].hi
  <1>1. ASSUME NEW d \in Clients, Start(d) \/ Step(d),
               NEW c \in Clients, NEW s \in Servers
        PROVE  Strays(c, s)'
    <2>0. Strays(c, s)
      BY DEF StraysAreAlone
    <2>1. CASE call'[c] = call[c] /\ got'[c][s] = got[c][s]
      BY <2>0, <2>1 DEF Wanted, Scanning
    <2>2. CASE ~(call'[c] = call[c] /\ got'[c][s] = got[c][s])
      <3>1. c = d
        BY <1>1, <2>2, Frame
      <3>2. CASE got'[d] = NothingRead
        BY <3>1, <3>2 DEF NothingRead
      <3>3. CASE /\ call[d] \in ScanCalls /\ call' = call
                 /\ got' = [got EXCEPT ![d][target[d]] = ScanOf(d, Mine(d))]
        <4>1. s = target[d] /\ got'[d][s] = ScanOf(d, Mine(d))
          BY <2>2, <3>1, <3>3 DEF TypeOK
        <4>2. Mine(d) \in SUBSET Keys /\ IsFiniteSet(Mine(d))
          BY <4>1 DEF Mine, TypeOK
        <4>3. \A k \in ScanOf(d, Mine(d)) \ Wanted(d, ScanOf(d, Mine(d))) :
                  ScanOf(d, Mine(d)) = {k} /\ k > call[d].hi
          BY <3>3, <4>2, ScanStrays
        <4> QED
          BY <3>1, <3>3, <4>1, <4>3 DEF Wanted
      <3> QED
        BY <1>1, <2>2, <3>1, <3>2, <3>3, GotStep
    <2> QED
      BY <2>1, <2>2
  <1>2. CASE UNCHANGED vars
    BY <1>2 DEF vars, StraysAreAlone, Wanted, Scanning
  <1>3. ASSUME NEW d \in Clients, Start(d) \/ Step(d) PROVE StraysAreAlone'
    BY <1>1, <1>3 DEF StraysAreAlone
  <1> QED
    BY <1>2, <1>3 DEF Next

\* In every reachable state, what Contains has of one server beyond the range
\* is a single key, beyond key_end.
THEOREM ScansStrayAlone == ScanSpec => []StraysAreAlone
  <1>1. Init => StraysAreAlone
    BY CallKinds DEF Init, StraysAreAlone, Scanning
  <1> QED
    BY <1>1, StraysStep, Inductive, ScanSpecIsSpec, PTL DEF Spec

-----------------------------------------------------------------------------
\* What Record does: the history takes in the set as it is after the step.
LEMMA RecordEffect ==
    ASSUME Record, TypeOK', ever \in [Clients -> SUBSET Keys],
           always \in [Clients -> SUBSET Keys]
    PROVE  /\ HistorySound'
           /\ \A c \in Clients : Scanning(c)' =>
                 /\ ever[c] \subseteq ever'[c] /\ Present' \subseteq ever'[c]
                 /\ Scanning(c) => always'[c] = always[c] \cap Present'
  <1> DEFINE E(c) == IF Scanning(c)' THEN ever[c] \cup Present' ELSE {}
             A(c) == IF Scanning(c)'
                     THEN IF Scanning(c) THEN always[c] \cap Present' ELSE Present'
                     ELSE {}
  <1>1. Present' \subseteq Keys
    BY DEF Present, TypeOK
  <1>2. ever' = [c \in Clients |-> E(c)] /\ always' = [c \in Clients |-> A(c)]
    BY DEF Record
  <1>3. \A c \in Clients : E(c) \in SUBSET Keys /\ A(c) \in SUBSET Keys
    BY <1>1
  <1>4. \A c \in Clients : ever'[c] = E(c) /\ always'[c] = A(c)
    BY <1>2
  <1>5. /\ ever' \in [Clients -> SUBSET Keys] /\ always' \in [Clients -> SUBSET Keys]
    <2> HIDE DEF E, A
    <2> QED
      BY <1>2, <1>3
  <1>6. \A c \in Clients : Scanning(c)' => always'[c] \subseteq Present'
    BY <1>4
  <1> QED
    BY <1>4, <1>5, <1>6 DEF HistorySound

\* When a step of the set and its record are taken, the history still covers
\* what the scans have read, and the scans what the history has kept.
LEMMA SoundStep ==
    ASSUME ShardInv, ShardInv', HistorySound, Record, ScanSound,
           NEW d \in Clients, Start(d) \/ Step(d)
    PROVE  ScanSound'
  <1> USE DEF ShardInv
  <1> SUFFICES ASSUME NEW c \in Clients, NEW s \in Servers, NEW k \in got'[c][s]
               PROVE  k \in ever'[c]
    BY DEF ScanSound, Collected
  <1>1. Scanning(c)'
    BY DEF Scanning, CallShape, NothingRead
  <1>2. ever[c] \subseteq ever'[c] /\ Present' \subseteq ever'[c]
    BY <1>1, RecordEffect DEF HistorySound
  <1>3. CASE k \in got[c][s]
    BY <1>2, <1>3 DEF ScanSound, Collected
  <1>4. CASE k \notin got[c][s]
    <2>1. c = d /\ got'[d] # NothingRead
      BY <1>4, Frame DEF NothingRead
    <2>2. /\ call[d] \in ScanCalls /\ tree' = tree
          /\ got' = [got EXCEPT ![d][target[d]] = ScanOf(d, Mine(d))]
      BY <1>4, <2>1, GotStep
    <2>3. s = target[d] /\ k \in ScanOf(d, Mine(d))
      BY <1>4, <2>1, <2>2 DEF TypeOK
    <2>4. k \in Mine(d)
      <3>1. Mine(d) \in SUBSET Keys
        BY <2>3 DEF Mine, TypeOK
      <3> QED
        BY <2>2, <2>3, <3>1, ScanCovers
    <2>5. k \in Present'
      BY <2>2, <2>3, <2>4 DEF Mine, Present
    <2> QED
      BY <1>2, <2>1, <2>5
  <1> QED
    BY <1>3, <1>4

LEMMA FoundStep ==
    ASSUME ShardInv, ShardInv', HistorySound, Record, FoundSoFar,
           NEW d \in Clients, Start(d) \/ Step(d)
    PROVE  FoundSoFar'
  <1> USE DEF ShardInv
  <1> SUFFICES ASSUME NEW c \in Clients, Scanning(c)',
                      NEW k \in Wanted(c, always[c])', (Route(k) \notin Unread(c))'
               PROVE  k \in got'[c][Route(k)]
    BY DEF FoundSoFar, Route
  <1>0. ever \in [Clients -> SUBSET Keys] /\ always \in [Clients -> SUBSET Keys]
    BY DEF HistorySound
  <1>1. HistorySound' /\ (Scanning(c) => always'[c] \subseteq always[c])
    BY <1>0, RecordEffect
  <1>2. k \in Present' /\ k \in always'[c] /\ k \in Keys
    <2>1. k \in always'[c]
      BY DEF Wanted, InRange
    <2> QED
      BY <1>1, <2>1 DEF HistorySound
  <1>3. PICK s \in Servers : k \in tree'[s]
    BY <1>2 DEF Present
  <1>4. s = Route(k)
    BY <1>3 DEF KeysAtHome, Route
  <1>5. Route(k) \notin Unread(c)'
    BY DEF Route
  <1>6. ASSUME Scanning(c), call'[c] = call[c]
        PROVE  k \in Wanted(c, always[c]) /\ (k \in tree[s] => k \in Wanted(c, tree[s]))
    BY <1>1, <1>2, <1>6 DEF Wanted, InRange
  <1>7. CASE /\ Scanning(c) /\ call'[c] = call[c] /\ got'[c] = got[c]
             /\ Unread(c)' = Unread(c)
    BY <1>5, <1>6, <1>7 DEF FoundSoFar
  <1>8. CASE c # d
    <2>1. /\ call'[c] = call[c] /\ got'[c] = got[c]
          /\ target'[c] = target[c] /\ stage'[c] = stage[c]
      BY <1>8, Frame
    <2>2. Unread(c)' = Unread(c) /\ Scanning(c)
      BY <2>1 DEF Unread, LegsAfter, Scanning
    <2> QED
      BY <1>7, <2>1, <2>2
  <1>9. CASE c = d
    <2>1. CASE Start(d)
      <3>1. PICK cl, t : Calls(d, cl, t)
        BY <2>1, StartCalls
      <3>2. cl \in ScanCalls
        BY <1>9, <3>1, InvokeEffect DEF Scanning
      <3> QED
        BY <1>4, <1>5, <1>9, <3>1, <3>2, BegunIsUnread
    <2>2. CASE Return(d)
      BY <1>9, <2>2, CallKinds DEF Return, Scanning, TypeOK
    <2>3. CASE ReadShard(d)
      <3>1. /\ call[d] \in ScanCalls /\ call' = call
            /\ tree' = tree /\ target' = target
            /\ stage[d] = "read" /\ stage'[d] = "unlock"
            /\ got' = [got EXCEPT ![d][target[d]] = ScanOf(d, Mine(d))]
        BY <2>3, ReadEffect
      <3>2. Scanning(c)
        BY <1>9, <3>1 DEF Scanning
      <3>3. CASE s = target[d]
        <4>1. got'[c][s] = ScanOf(d, Mine(d))
          BY <1>9, <3>1, <3>3 DEF TypeOK
        <4>2. k \in Wanted(d, Mine(d)) /\ Mine(d) \in SUBSET Keys
          BY <1>3, <1>6, <1>9, <3>1, <3>2, <3>3 DEF Mine, TypeOK
        <4> QED
          BY <1>4, <3>1, <4>1, <4>2, ScanCovers
      <3>4. CASE s # target[d]
        <4>1. got'[c][s] = got[c][s]
          BY <1>9, <3>1, <3>4 DEF TypeOK
        <4>2. s \notin Unread(c)
          BY <1>4, <1>5, <1>9, <3>1, <3>4 DEF Unread, LegsAfter
        <4> QED
          BY <1>4, <1>6, <3>1, <3>2, <4>1, <4>2 DEF FoundSoFar
      <3> QED
        BY <3>3, <3>4
    <2>4. CASE Step(d) /\ ~ReadShard(d) /\ ~Return(d)
      <3>1. got' = got /\ call'[d] = call[d]
        <4>1. ~Start(d)
          <5>1. stage[d] # "idle"
            BY <2>4, StepBusy
          <5> QED
            BY <5>1, StartCalls DEF Calls, Invoke
        <4> QED
          BY <2>4, <4>1, GotStep
      <3>2. Scanning(c)
        BY <1>9, <3>1 DEF Scanning
      <3>3. Unread(d)' = Unread(d)
        BY <1>9, <2>4, <3>2, UnreadStep DEF Scanning
      <3> QED
        BY <1>7, <1>9, <3>1, <3>2, <3>3
    <2> QED
      BY <2>1, <2>2, <2>3, <2>4
  <1> QED
    BY <1>8, <1>9

\* What scans return is an invariant of the set with its history.
LEMMA ScanInductive == ScanSpec => [](ScanInv /\ ScanSound)
  <1>1. ScanInit => ScanInv /\ ScanSound
    <2> SUFFICES ASSUME ScanInit PROVE ScanInv /\ ScanSound
      OBVIOUS
    <2>1. ShardInv
      BY InitHolds DEF ScanInit
    <2>2. \A c \in Clients : ~Scanning(c)
      BY CallKinds DEF ScanInit, Init, Scanning
    <2>3. HistorySound /\ FoundSoFar
      BY <2>2 DEF ScanInit, HistorySound, FoundSoFar
    <2>4. ScanSound
      BY DEF ScanInit, Init, ScanSound, Collected, NothingRead
    <2> QED
      BY <2>1, <2>3, <2>4 DEF ScanInv
  <1>2. ScanInv /\ ScanSound /\ [ScanNext]_scanVars => (ScanInv /\ ScanSound)'
    <2> SUFFICES ASSUME ScanInv, ScanSound, [ScanNext]_scanVars
                 PROVE  (ScanInv /\ ScanSound)'
      OBVIOUS
    <2> USE DEF ScanInv
    <2>1. CASE UNCHANGED scanVars
      <3>1. ShardInv'
        BY <2>1, StepHolds DEF scanVars
      <3>2. HistorySound' /\ FoundSoFar' /\ ScanSound'
        BY <2>1 DEF scanVars, vars, HistorySound, FoundSoFar, ScanSound, Scanning,
                    Present, Wanted, Unread, LegsAfter, Collected, Route
      <3> QED
        BY <3>1, <3>2
    <2>2. ASSUME NEW d \in Clients, Start(d) \/ Step(d), Record
          PROVE  (ScanInv /\ ScanSound)'
      <3>1. ShardInv'
        BY <2>2, StepHolds DEF Next
      <3>2. HistorySound'
        BY <2>2, <3>1, RecordEffect DEF ShardInv, HistorySound
      <3> QED
        BY <2>2, <3>1, <3>2, SoundStep, FoundStep
    <2> QED
      BY <2>1, <2>2 DEF ScanNext, Start
  <1> QED
    BY <1>1, <1>2, PTL DEF ScanSpec

\* In every reachable state, a scan has read nothing that was not in the set
\* since it began.
THEOREM ScansAreSound == ScanSpec => []ScanSound
  BY ScanInductive, PTL

\* And when it returns, it has found every key it asked for that was there
\* all the time.
THEOREM ScansFindAll == ScanSpec => []ScanFindsAll
  <1>1. ScanInv => ScanFindsAll
    <2> SUFFICES ASSUME ScanInv, NEW c \in Clients, ScanComplete(c),
                        NEW k \in Wanted(c, always[c])
                 PROVE  k \in Collected(c)
      BY DEF ScanFindsAll
    <2>1. Unread(c) = {} /\ Scanning(c)
      BY DEF ScanComplete, Unread
    <2>2. k \in Keys
      BY DEF Wanted, InRange, ScanInv, HistorySound
    <2>3. k \in got[c][Route(k)] /\ Route(k) \in Servers
      BY <2>1, <2>2, RouteInServers DEF ScanInv, FoundSoFar
    <2> QED
      BY <2>3 DEF Collected
  <1> QED
    BY <1>1, ScanInductive, PTL

\* The invariant with which TLC checks the scans.
THEOREM ScansInductive == ScanSpec => []ScanInv
  BY ScanInductive, PTL

-----------------------------------------------------------------------------
(***************************************************************************)
(* The proof that the shards implement AtomicSet.                          *)
(***************************************************************************)

\* The abstract set has the same calls, for the same servers.
LEMMA SameCalls ==
    /\ Abstract!SetCalls = SetCalls
    /\ \A cl \in SetCalls : Abstract!ServerOf(cl) = ServerOf(cl)
    /\ Abstract!NoCall = NoCall /\ Abstract!NoResult = NoResult
  <1>1. Abstract!SetCalls = SetCalls
    <2>1. ASSUME NEW cl \in Abstract!SetCalls PROVE cl \in SetCalls
      BY <2>1 DEF Abstract!SetCalls, SetCalls, KeyCalls, FirstCalls, SizeCalls,
                  SeekNCalls
    <2>2. ASSUME NEW cl \in SetCalls PROVE cl \in Abstract!SetCalls
      BY <2>2 DEF Abstract!SetCalls, SetCalls, KeyCalls, FirstCalls, SizeCalls,
                  SeekNCalls
    <2> QED
      BY <2>1, <2>2
  <1>2. ASSUME NEW cl \in SetCalls PROVE Abstract!ServerOf(cl) = ServerOf(cl)
    <2>1. CASE cl \in KeyCalls
      <3>1. DOMAIN cl = {"op", "key"}
        BY <2>1 DEF KeyCalls
      <3> QED
        BY <2>1, <3>1 DEF ServerOf, Abstract!ServerOf
    <2>2. CASE cl \notin KeyCalls
      <3>1. DOMAIN cl = {"op", "server"} \/ DOMAIN cl = {"op", "server", "n"}
        BY <2>2 DEF SetCalls, FirstCalls, SizeCalls, SeekNCalls
      <3> QED
        BY <2>2, <3>1 DEF ServerOf, Abstract!ServerOf
    <2> QED
      BY <2>1, <2>2
  <1>3. Abstract!NoCall = NoCall /\ Abstract!NoResult = NoResult
    BY DEF Abstract!NoCall, NoCall, Abstract!NoResult, NoResult
  <1> QED
    BY <1>1, <1>2, <1>3

\* A shard that is not empty has a first key.
LEMMA FirstOfNonEmpty ==
    ASSUME NEW m \in SUBSET Nat
    PROVE  FirstOf(m, 1) \subseteq m /\ (FirstOf(m, 1) # {} <=> m # {})
  <1>1. FirstOf(m, 1) \subseteq m
    BY DEF FirstOf
  <1>2. ASSUME m # {} PROVE FirstOf(m, 1) # {}
    <2>1. PICK k \in m : \A j \in m : k <= j
      BY <1>2, MinIsLeast
    <2>2. {j \in m : j < k} = {}
      <3>1. \A j \in m : ~(j < k)
        BY <2>1
      <3> QED
        BY <3>1
    <2>3. Cardinality({j \in m : j < k}) < 1
      BY <2>2, FS_EmptySet
    <2> QED
      BY <2>3 DEF FirstOf
  <1> QED
    BY <1>1, <1>2

\* The phase of a call in the abstract set.
PhaseOf(c) == IF ~Visible(c) THEN "idle"
              ELSE IF stage[c] \in {"unlock", "reply"} THEN "done" ELSE "pending"

AbsCallOf(c) == IF Visible(c) THEN call[c] ELSE NoCall

\* A step of process d moves the abstract call of d only.
LEMMA AbstractFrame ==
    ASSUME TypeOK, NEW d \in Clients, Start(d) \/ Step(d)
    PROVE  /\ phase' = [phase EXCEPT ![d] = PhaseOf(d)']
           /\ absCall' = [absCall EXCEPT ![d] = AbsCallOf(d)']
           /\ phase[d] = PhaseOf(d) /\ absCall[d] = AbsCallOf(d)
  <1>1. \A c \in Clients \ {d} : /\ PhaseOf(c)' = PhaseOf(c)
                                 /\ AbsCallOf(c)' = AbsCallOf(c)
    BY Frame DEF PhaseOf, AbsCallOf, Visible
  <1>2. phase = [c \in Clients |-> PhaseOf(c)]
        /\ absCall = [c \in Clients |-> AbsCallOf(c)]
    BY DEF phase, absCall, PhaseOf, AbsCallOf
  <1>3. phase' = [c \in Clients |-> PhaseOf(c)']
        /\ absCall' = [c \in Clients |-> AbsCallOf(c)']
    BY DEF phase, absCall, PhaseOf, AbsCallOf, Visible
  <1> HIDE DEF PhaseOf, AbsCallOf
  <1> QED
    BY <1>1, <1>2, <1>3

\* A step that changes neither the shards nor what is visible of its own call
\* is a stuttering step of AtomicSet.
LEMMA Stutter ==
    ASSUME TypeOK, NEW d \in Clients, Start(d) \/ Step(d), tree' = tree,
           res' = res, PhaseOf(d)' = PhaseOf(d), AbsCallOf(d)' = AbsCallOf(d)
    PROVE  UNCHANGED Abstract!absVars
  <1>1. phase' = [phase EXCEPT ![d] = phase[d]]
        /\ absCall' = [absCall EXCEPT ![d] = absCall[d]]
    BY AbstractFrame
  <1>2. DOMAIN phase = Clients /\ DOMAIN absCall = Clients
    BY DEF phase, absCall
  <1>3. phase' = phase /\ absCall' = absCall
    BY <1>1, <1>2 DEF phase, absCall
  <1> QED
    BY <1>3 DEF Abstract!absVars

\* Calling an operation on a key or on a server begins an abstract operation;
\* calling a scan does nothing to the abstract set.
LEMMA StartSimulates ==
    ASSUME ShardInv, NEW d \in Clients, Start(d)
    PROVE  Abstract!Next \/ UNCHANGED Abstract!absVars
  <1> USE DEF ShardInv
  <1>1. PICK cl, s : Calls(d, cl, s)
    BY StartCalls
  <1>2. /\ call[d] = NoCall /\ call'[d] = cl
        /\ stage'[d] \in {"entry", "sent"}
        /\ UNCHANGED <<tree, it, res, got>>
    BY <1>1, InvokeEffect
  <1>3. PhaseOf(d) = "idle" /\ AbsCallOf(d) = NoCall
    BY <1>2, CallKinds DEF PhaseOf, AbsCallOf, Visible
  <1>4. CASE cl \in SetCalls
    <2>1. PhaseOf(d)' = "pending" /\ AbsCallOf(d)' = cl
      BY <1>2, <1>4 DEF Visible, PhaseOf, AbsCallOf
    <2>2. Abstract!Begin(d)
      BY <1>2, <1>3, <1>4, <2>1, AbstractFrame, SameCalls DEF Abstract!Begin
    <2> QED
      BY <2>2 DEF Abstract!Next
  <1>5. CASE cl \notin SetCalls
    <2>1. PhaseOf(d)' = PhaseOf(d) /\ AbsCallOf(d)' = AbsCallOf(d)
      BY <1>2, <1>3, <1>5 DEF Visible, PhaseOf, AbsCallOf
    <2> QED
      BY <1>2, <2>1, Stutter
  <1> QED
    BY <1>4, <1>5

\* A step that fixes the result of a visible call, new the keys it leaves in
\* its shard, is the instant at which the abstract operation takes effect.
LEMMA EffectPoint ==
    ASSUME ShardInv, NEW d \in Clients, Step(d), call[d] \in SetCalls,
           stage[d] \notin {"unlock", "reply"}, stage'[d] \in {"unlock", "reply"},
           call' = call, NEW new, tree' = [tree EXCEPT ![target[d]] = new],
           NEW ok, NEW keys, NEW size,
           res' = [res EXCEPT ![d] = [ok |-> ok, keys |-> keys, size |-> size]]
    PROVE  /\ Abstract!Effect(d, new, ok, keys, size)
           /\ Abstract!Mine(d) = Mine(d) /\ absCall[d] = call[d]
           /\ \A op : Abstract!Pending(d, op) <=> call[d].op = op
  <1> USE DEF ShardInv
  <1>1. /\ PhaseOf(d) = "pending" /\ PhaseOf(d)' = "done"
        /\ AbsCallOf(d) = call[d] /\ AbsCallOf(d)' = call[d]
    BY DEF PhaseOf, AbsCallOf, Visible
  <1>2. /\ phase[d] = "pending" /\ phase' = [phase EXCEPT ![d] = "done"]
        /\ absCall[d] = call[d] /\ absCall' = [absCall EXCEPT ![d] = absCall[d]]
    BY <1>1, AbstractFrame
  <1>3. absCall' = absCall
    BY <1>2 DEF absCall
  <1>4. Abstract!ServerOf(absCall[d]) = target[d]
    BY <1>2, SameCalls DEF CallShape
  <1> QED
    BY <1>2, <1>3, <1>4
    DEF Abstract!Effect, Abstract!Mine, Abstract!Pending, Mine

\* The abstract specification counts and orders as the model does.
LEMMA SameCardinality == \A S : Abstract!Cardinality(S) = Cardinality(S)
  BY Zenon DEF Abstract!Cardinality, Cardinality

LEMMA SameFirst ==
    ASSUME NEW m, NEW n
    PROVE  Abstract!FirstOf(m, n) = FirstOf(m, n)
  BY SameCardinality, Zenon DEF Abstract!FirstOf, FirstOf

\* Such are the steps of the Local* functions in stage "apply",
LEMMA AppliesSimulates ==
    ASSUME ShardInv, NEW d \in Clients, Step(d), Applies(d)
    PROVE  Abstract!Next
  <1> USE DEF ShardInv
  <1> DEFINE m == Mine(d)
             t == target[d]
  <1>1. /\ stage[d] = "apply" /\ it[d] = Sought(d) /\ t \in Servers
        /\ call[d] \in KeyCalls \cup FirstCalls /\ call[d] \in SetCalls
    BY AppliesYields DEF IteratorFresh, TypeOK, RpcTypeOK, CallShape, SetCalls
  <1>2. m = tree[t] /\ m \in SUBSET Nat
    BY <1>1, SetDataAssumption DEF Mine, TypeOK
  <1>3. /\ call[d].op \in KeyOps => it[d] = m \cap {call[d].key}
        /\ call[d].op \in FirstOps =>
              it[d] = FirstOf(m, 1) /\ (it[d] # {} <=> m # {})
    BY <1>1, <1>2, CallKinds, CallTypes, FirstOfNonEmpty
    DEF Sought, KeyOps, FirstOps
  <1>4. tree = [tree EXCEPT ![t] = m]
    BY <1>1, <1>2 DEF TypeOK
  <1>5. ASSUME NEW ok, NEW keys, Yield(d, ok, keys), NEW new,
               tree' = [tree EXCEPT ![t] = new]
        PROVE  /\ Abstract!Effect(d, new, ok, keys, 0)
               /\ Abstract!Mine(d) = m /\ absCall[d] = call[d]
               /\ \A op : Abstract!Pending(d, op) <=> call[d].op = op
    <2>1. /\ stage'[d] = "unlock" /\ call' = call
          /\ res' = [res EXCEPT ![d] = [ok |-> ok, keys |-> keys, size |-> 0]]
      BY <1>5 DEF Yield, Advance, TypeOK, RpcTypeOK
    <2> QED
      BY <1>1, <1>5, <2>1, EffectPoint
  <1>6. \A S : Abstract!FirstOf(S, 1) = FirstOf(S, 1)
    BY SameFirst
  <1>7. \A b : Abstract!Truth(b) = Truth(b)
    BY DEF Abstract!Truth, Truth
  <1>10. CASE PutPresent(d)
    <2>1. call[d].op = "Put" /\ it[d] # {} /\ Yield(d, "true", {}) /\ tree' = tree
      BY <1>10 DEF PutPresent, At
    <2>2. m \cup {call[d].key} = m
      BY <1>3, <2>1 DEF KeyOps
    <2>3. Abstract!DoPut(d)
      BY <1>4, <1>5, <2>1, <2>2 DEF Abstract!DoPut
    <2> QED
      BY <2>3 DEF Abstract!Next
  <1>11. CASE PutInsert(d)
    <2>1. /\ call[d].op = "Put" /\ Yield(d, "true", {})
          /\ tree' = [tree EXCEPT ![t] = @ \cup {call[d].key}]
      BY <1>11 DEF PutInsert, At
    <2>2. tree' = [tree EXCEPT ![t] = m \cup {call[d].key}]
      BY <1>2, <2>1
    <2>3. Abstract!DoPut(d)
      BY <1>5, <2>1, <2>2 DEF Abstract!DoPut
    <2> QED
      BY <2>3 DEF Abstract!Next
  <1>12. CASE PutExhausted(d)
    <2>1. call[d].op = "Put" /\ it[d] = {} /\ Yield(d, "bad_alloc", {}) /\ tree' = tree
      BY <1>12 DEF PutExhausted, At
    <2>2. call[d].key \notin m
      BY <1>3, <2>1 DEF KeyOps
    <2>3. Abstract!DoPut(d)
      BY <1>4, <1>5, <2>1, <2>2 DEF Abstract!DoPut
    <2> QED
      BY <2>3 DEF Abstract!Next
  <1>13. CASE LocalGet(d)
    <2>1. call[d].op = "Get" /\ Yield(d, Truth(it[d] # {}), {}) /\ tree' = tree
      BY <1>13 DEF LocalGet, At
    <2>2. (it[d] # {}) = (call[d].key \in m)
      BY <1>3, <2>1 DEF KeyOps
    <2>3. Abstract!DoGet(d)
      BY <1>4, <1>5, <1>7, <2>1, <2>2 DEF Abstract!DoGet
    <2> QED
      BY <2>3 DEF Abstract!Next
  <1>14. CASE LocalErase(d)
    <2>1. /\ call[d].op = "Erase" /\ Yield(d, Truth(it[d] # {}), {})
          /\ tree' = [tree EXCEPT ![t] = @ \ it[d]]
      BY <1>14 DEF LocalErase, At
    <2>2. (it[d] # {}) = (call[d].key \in m) /\ m \ it[d] = m \ {call[d].key}
      BY <1>3, <2>1 DEF KeyOps
    <2>3. tree' = [tree EXCEPT ![t] = m \ {call[d].key}]
      BY <1>2, <2>1, <2>2
    <2>4. Abstract!DoErase(d)
      BY <1>5, <1>7, <2>1, <2>2, <2>3 DEF Abstract!DoErase
    <2> QED
      BY <2>4 DEF Abstract!Next
  <1>15. CASE LocalSeekFirst(d)
    <2>1. call[d].op = "SeekFirst" /\ Yield(d, Truth(it[d] # {}), it[d]) /\ tree' = tree
      BY <1>15 DEF LocalSeekFirst, At
    <2>2. it[d] = FirstOf(m, 1) /\ (it[d] # {}) = (m # {})
      BY <1>3, <2>1 DEF FirstOps
    <2>3. Abstract!DoSeekFirst(d)
      BY <1>4, <1>5, <1>6, <1>7, <2>1, <2>2 DEF Abstract!DoSeekFirst
    <2> QED
      BY <2>3 DEF Abstract!Next
  <1>16. CASE LocalPopFirst(d)
    <2>1. /\ call[d].op = "PopFirst" /\ Yield(d, Truth(it[d] # {}), it[d])
          /\ tree' = [tree EXCEPT ![t] = @ \ it[d]]
      BY <1>16 DEF LocalPopFirst, At
    <2>2. it[d] = FirstOf(m, 1) /\ (it[d] # {}) = (m # {})
      BY <1>3, <2>1 DEF FirstOps
    <2>3. tree' = [tree EXCEPT ![t] = m \ FirstOf(m, 1)]
      BY <1>2, <2>1, <2>2
    <2>4. Abstract!DoPopFirst(d)
      BY <1>5, <1>6, <1>7, <2>1, <2>2, <2>3 DEF Abstract!DoPopFirst
    <2> QED
      BY <2>4 DEF Abstract!Next
  <1> QED
    BY <1>10, <1>11, <1>12, <1>13, <1>14, <1>15, <1>16 DEF Applies

\* the loop of LocalSeekFirstN, and the unlocked read of LocalSize.
LEMMA ReadsSimulate ==
    ASSUME ShardInv, NEW d \in Clients, Step(d), LocalSeekFirstN(d) \/ LocalSize(d)
    PROVE  Abstract!Next
  <1> USE DEF ShardInv
  <1>1. /\ call[d] \in SetCalls /\ target[d] \in Servers /\ tree' = tree
        /\ call' = call
    <2>1. call[d].op \in {"SeekFirstN", "Size"}
      BY DEF LocalSeekFirstN, LocalSize, At
    <2>2. call[d] \in SetCalls
      BY <2>1, CallTypes DEF TypeOK, ScanOps
    <2> QED
      BY <2>2 DEF LocalSeekFirstN, Yield, LocalSize, TypeOK, RpcTypeOK
  <1>2. tree' = [tree EXCEPT ![target[d]] = Mine(d)]
    BY <1>1 DEF Mine, TypeOK
  <1>3. CASE LocalSeekFirstN(d)
    <2> DEFINE first == FirstOf(Mine(d), call[d].n)
    <2>1. Yield(d, Truth(first # {}), first) /\ stage[d] = "read"
          /\ call[d].op = "SeekFirstN"
      BY <1>3 DEF LocalSeekFirstN, At
    <2>2. /\ Abstract!FirstOf(Mine(d), call[d].n) = first
          /\ \A b : Abstract!Truth(b) = Truth(b)
      BY SameFirst DEF Abstract!Truth, Truth
    <2> HIDE DEF first
    <2>3. /\ stage'[d] = "unlock"
          /\ res' = [res EXCEPT ![d] = [ok |-> Truth(first # {}), keys |-> first,
                                        size |-> 0]]
      BY <2>1 DEF Yield, Advance, TypeOK, RpcTypeOK
    <2>4. /\ Abstract!Effect(d, Mine(d), Truth(first # {}), first, 0)
          /\ Abstract!Mine(d) = Mine(d) /\ absCall[d] = call[d]
          /\ Abstract!Pending(d, "SeekFirstN")
      BY <1>1, <1>2, <2>1, <2>3, EffectPoint
    <2>5. Abstract!DoSeekFirstN(d)
      BY <2>2, <2>4 DEF Abstract!DoSeekFirstN
    <2> QED
      BY <2>5 DEF Abstract!Next
  <1>4. CASE LocalSize(d)
    <2>1. /\ stage[d] = "entry" /\ stage'[d] = "reply" /\ call[d].op = "Size"
          /\ res' = [res EXCEPT ![d] = [ok |-> "true", keys |-> {},
                                        size |-> Cardinality(Mine(d))]]
      BY <1>4 DEF LocalSize, At, Advance, TypeOK, RpcTypeOK
    <2>2. /\ Abstract!Effect(d, Mine(d), "true", {}, Cardinality(Mine(d)))
          /\ Abstract!Mine(d) = Mine(d) /\ Abstract!Pending(d, "Size")
      BY <1>1, <1>2, <2>1, EffectPoint
    <2>3. Abstract!DoSize(d)
      BY <2>2, SameCardinality DEF Abstract!DoSize
    <2> QED
      BY <2>3 DEF Abstract!Next
  <1> QED
    BY <1>3, <1>4

\* Returning from a visible call ends the abstract operation; every other step
\* is invisible.
LEMMA OtherSimulates ==
    ASSUME ShardInv, NEW d \in Clients, Step(d), ~Applies(d),
           ~LocalSeekFirstN(d), ~LocalSize(d)
    PROVE  Abstract!Next \/ UNCHANGED Abstract!absVars
  <1> USE DEF ShardInv
  <1>1. CASE Return(d)
    <2>1. /\ stage[d] = "reply" /\ call'[d] = NoCall /\ tree' = tree
          /\ res' = [res EXCEPT ![d] = NoResult]
      BY <1>1 DEF Return, Finish, TypeOK
    <2>2. PhaseOf(d)' = "idle" /\ AbsCallOf(d)' = NoCall
      BY <2>1, CallKinds DEF PhaseOf, AbsCallOf, Visible
    <2>3. CASE Visible(d)
      <3>1. PhaseOf(d) = "done"
        BY <2>1, <2>3 DEF PhaseOf
      <3>2. Abstract!End(d)
        BY <2>1, <2>2, <3>1, AbstractFrame, SameCalls DEF Abstract!End
      <3> QED
        BY <3>2 DEF Abstract!Next
    <2>4. CASE ~Visible(d)
      <3>1. res' = res
        BY <2>1, <2>4 DEF CallShape, Visible, TypeOK
      <3>2. PhaseOf(d) = "idle" /\ AbsCallOf(d) = NoCall
        BY <2>4 DEF PhaseOf, AbsCallOf
      <3> QED
        BY <2>1, <2>2, <3>1, <3>2, Stutter
    <2> QED
      BY <2>3, <2>4
  <1>2. CASE ~Return(d)
    <2>1. /\ tree' = tree /\ res' = res /\ call' = call
          /\ \/ call[d] \in ScanCalls
             \/ stage[d] \in {"unlock", "reply"} <=> stage'[d] \in {"unlock", "reply"}
      <3> USE DEF TypeOK, RpcTypeOK
      <3>1. CASE ServeRequest(d) \/ Lock(d) \/ Unlock(d)
        BY <3>1 DEF ServeRequest, Accept, Lock, Acquire, Unlock, Release, setVars
      <3>2. CASE Find(d)
        BY <3>2 DEF Find, Advance
      <3>3. CASE ReadShard(d) \/ NextServer(d)
        BY <3>3 DEF ReadShard, NextServer, setVars
      <3> QED
        BY <1>2, <3>1, <3>2, <3>3, StepCases
    <2>2. PhaseOf(d)' = PhaseOf(d) /\ AbsCallOf(d)' = AbsCallOf(d)
      BY <2>1, CallKinds DEF PhaseOf, AbsCallOf, Visible
    <2> QED
      BY <2>1, <2>2, Stutter
  <1> QED
    BY <1>1, <1>2

\* The operations on keys, on the first keys of a server and the unlocked Size
\* are linearizable: the sharded set implements AtomicSet.
THEOREM ImplementsAtomicSet == Spec => Linearizable
  <1>1. Init => Abstract!Init
    <2> SUFFICES ASSUME Init PROVE Abstract!Init
      OBVIOUS
    <2>1. \A c \in Clients : ~Visible(c)
      BY CallKinds DEF Init, Visible
    <2>2. phase = [c \in Clients |-> "idle"] /\ absCall = [c \in Clients |-> NoCall]
      BY <2>1 DEF phase, absCall
    <2> QED
      BY <2>2, SameCalls DEF Init, Abstract!Init
  <1>2. ShardInv /\ [Next]_vars => [Abstract!Next]_Abstract!absVars
    <2> SUFFICES ASSUME ShardInv, [Next]_vars
                 PROVE  [Abstract!Next]_Abstract!absVars
      OBVIOUS
    <2>1. CASE UNCHANGED vars
      BY <2>1 DEF vars, phase, absCall, Visible, Abstract!absVars
    <2>2. ASSUME NEW d \in Clients, Start(d) \/ Step(d)
          PROVE  Abstract!Next \/ UNCHANGED Abstract!absVars
      BY <2>2, StartSimulates, AppliesSimulates, ReadsSimulate, OtherSimulates
    <2> QED
      BY <2>1, <2>2 DEF Next
  <1> QED
    BY <1>1, <1>2, Inductive, PTL DEF Spec, Linearizable, Abstract!Spec
=============================================================================
