------------------------- MODULE UnorderedMapProofs -------------------------
(***************************************************************************)
(* Theorems about UnorderedMap, for any number of processes, servers,      *)
(* worker threads, keys and values.                                        *)
(***************************************************************************)
EXTENDS UnorderedMapScan, SharedProofs

\* A key's routes are server indices.
LEMMA RouteInServers ==
    ASSUME NEW k \in Keys
    PROVE  /\ PutRoute(Hash[k], NumServers) \in Servers
           /\ GetRoute(Hash[k], NumServers) \in Servers
  <1> DEFINE h == Hash[k]
             n == NumServers
  <1>1. h \in Nat /\ n \in Nat /\ n > 0 /\ n <= 65536
    BY NumServersAssumption, DataAssumption
  <1> HIDE DEF h, n
  <1>2. h % 65536 \in Nat /\ h % n \in 0 .. (n - 1)
    BY <1>1, SMT
  <1>3. (h % 65536) % n \in 0 .. (n - 1)
    BY <1>1, <1>2, SMT
  <1>4. (h % n) % 65536 \in 0 .. (n - 1)
    BY <1>1, <1>2, SMT
  <1> QED
    BY <1>3, <1>4, SMT DEF PutRoute, GetRoute, UInt16Range, Servers, h, n

\* The types hold initially.
LEMMA InitTypeOK == Init => TypeOK
  BY PlacementAssumption, DataAssumption
     DEF Init, RpcInit, TypeOK, RpcTypeOK, Stages, Servers, Pairs, Calls,
         NoCall, Results, NoResult, Outcomes, NothingRead

\* Every value a call record can take in the steps below.
LEMMA CallTypes ==
    /\ \A k \in Keys, v \in Vals : [op |-> "Put", key |-> k, val |-> v] \in Calls
    /\ \A k \in Keys : /\ [op |-> "Get", key |-> k] \in Calls
                       /\ [op |-> "Erase", key |-> k] \in Calls
    /\ ScanCall \in Calls /\ NoCall \in Calls
    /\ \A cl \in MapCalls : cl.key \in Keys
    /\ \A cl \in MapCalls : cl.op = "Put" => cl.val \in Vals
    /\ \A cl \in Calls : cl.op \in {"Put", "Get", "Erase"} => cl \in MapCalls
    /\ \A cl \in MapCalls : cl.op \in {"Put", "Get", "Erase"}
    /\ ScanCall \notin MapCalls /\ NoCall \notin MapCalls /\ NoCall # ScanCall
  <1> USE DEF Calls, MapCalls, PutCalls, KeyCalls, ScanCall, NoCall
  <1>1. \A k \in Keys, v \in Vals : [op |-> "Put", key |-> k, val |-> v] \in Calls
    OBVIOUS
  <1>2. \A k \in Keys : /\ [op |-> "Get", key |-> k] \in Calls
                        /\ [op |-> "Erase", key |-> k] \in Calls
    OBVIOUS
  <1>3. ScanCall \in Calls /\ NoCall \in Calls
    OBVIOUS
  <1>4. \A cl \in MapCalls : cl.key \in Keys
    OBVIOUS
  <1>5. \A cl \in MapCalls : cl.op = "Put" => cl.val \in Vals
    OBVIOUS
  <1>6. \A cl \in Calls : cl.op \in {"Put", "Get", "Erase"} => cl \in MapCalls
    OBVIOUS
  <1>7. \A cl \in MapCalls : cl.op \in {"Put", "Get", "Erase"}
    OBVIOUS
  <1>8. ScanCall.op = "GetAllData" /\ NoCall.op = "none"
    OBVIOUS
  <1> QED
    BY <1>1, <1>2, <1>3, <1>4, <1>5, <1>6, <1>7, <1>8

-----------------------------------------------------------------------------
\* Whatever a process calls is addressed to a server.
LEMMA StartInvokes ==
    ASSUME NEW c \in Clients, Start(c)
    PROVE  \E cl \in Calls, s \in Servers : Invoke(c, cl, s)
  <1>1. ASSUME NEW k \in Keys, NEW v \in Vals, Put(c, k, v)
        PROVE  \E cl \in Calls, s \in Servers : Invoke(c, cl, s)
    BY <1>1, CallTypes, RouteInServers DEF Put
  <1>2. ASSUME NEW k \in Keys, Get(c, k)
        PROVE  \E cl \in Calls, s \in Servers : Invoke(c, cl, s)
    BY <1>2, CallTypes, RouteInServers DEF Get
  <1>3. ASSUME NEW k \in Keys, Erase(c, k)
        PROVE  \E cl \in Calls, s \in Servers : Invoke(c, cl, s)
    BY <1>3, CallTypes, RouteInServers DEF Erase
  <1>4. CASE GetAllData(c)
    BY <1>4, CallTypes, PlacementAssumption DEF GetAllData
  <1> QED
    BY <1>1, <1>2, <1>3, <1>4 DEF Start

\* Calling an operation keeps the types.
LEMMA StartType ==
    ASSUME TypeOK, NEW c \in Clients, Start(c)
    PROVE  TypeOK'
  <1>2. PICK cl \in Calls, s \in Servers : Invoke(c, cl, s)
    BY StartInvokes
  <1>3. RpcTypeOK'
    BY <1>2, DispatchType DEF TypeOK, Invoke
  <1> QED
    BY <1>2, <1>3 DEF TypeOK, Invoke

\* Every step of a call under way keeps the types.
LEMMA StepType ==
    ASSUME TypeOK, NEW c \in Clients, Step(c)
    PROVE  TypeOK'
  <1> USE DEF TypeOK
  <1>0. {"read", "apply", "unlock"} \subseteq Stages
    BY DEF Stages
  <1>a. DefaultVal \in Vals /\ NoResult \in Results
    BY DataAssumption DEF Results, NoResult, Outcomes
  <1>1. CASE ServeRequest(c) \/ Lock(c) \/ Unlock(c)
    <2>1. RpcTypeOK'
      BY <1>1, RpcStepType DEF ServeRequest, Lock, Unlock
    <2> QED
      BY <1>1, <2>1 DEF ServeRequest, Lock, Unlock, mapVars
  <1>2. CASE Find(c)
    <2>1. RpcTypeOK'
      BY <1>0, <1>2, RpcStepType DEF Find
    <2>2. target[c] \in Servers
      BY DEF RpcTypeOK
    <2>3. Matching(shard[target[c]], call[c].key) \in SUBSET Pairs
      BY <2>2 DEF Matching
    <2> QED
      BY <1>2, <2>1, <2>3 DEF Find
  <1>3. CASE LocalPut(c) \/ LocalGet(c) \/ LocalErase(c)
    <2>1. target[c] \in Servers
      BY DEF RpcTypeOK
    <2>2. \E ok \in Outcomes, v \in Vals : Yield(c, ok, v)
      <3>1. \A p \in it[c] : p[2] \in Vals
        BY DEF Pairs
      <3> QED
        BY <1>3, <1>a, <3>1
        DEF LocalPut, PutAssign, PutInsert, PutExhausted, LocalGet, GetFound,
            GetMissing, LocalErase, Outcomes
    <2>3. PICK ok \in Outcomes, v \in Vals : Yield(c, ok, v)
      BY <2>2
    <2>4. RpcTypeOK'
      BY <1>0, <2>3, RpcStepType DEF Yield
    <2>5. res' \in [Clients -> Results]
      BY <2>3 DEF Yield, Results
    <2>6. shard' \in [Servers -> SUBSET Pairs]
      <3>1. CASE PutAssign(c) \/ PutInsert(c)
        <4>1. call[c].op = "Put"
          BY <3>1 DEF PutAssign, PutInsert, Applying
        <4>2. call[c].key \in Keys /\ call[c].val \in Vals
          BY <4>1, CallTypes
        <4>3. <<call[c].key, call[c].val>> \in Pairs
          BY <4>2 DEF Pairs
        <4>4. \E old \in SUBSET Pairs :
                 Rewrite(c, old, {<<call[c].key, call[c].val>>})
          BY <3>1 DEF PutAssign, PutInsert
        <4>5. PICK old \in SUBSET Pairs :
                 Rewrite(c, old, {<<call[c].key, call[c].val>>})
          BY <4>4
        <4>6. (shard[target[c]] \ old) \cup {<<call[c].key, call[c].val>>}
                 \in SUBSET Pairs
          BY <2>1, <4>3
        <4> QED
          BY <4>5, <4>6 DEF Rewrite
      <3>2. CASE LocalErase(c)
        BY <3>2, <2>1 DEF LocalErase, Rewrite
      <3>3. CASE PutExhausted(c) \/ LocalGet(c)
        BY <3>3 DEF PutExhausted, LocalGet, GetFound, GetMissing
      <3> QED
        BY <1>3, <3>1, <3>2, <3>3 DEF LocalPut
    <2> QED
      BY <2>3, <2>4, <2>5, <2>6 DEF Yield
  <1>4. CASE ReadShard(c)
    <2>1. RpcTypeOK'
      BY <1>0, <1>4, RpcStepType DEF ReadShard
    <2>2. target[c] \in Servers
      BY DEF RpcTypeOK
    <2>3. got' \in [Clients -> [Servers -> SUBSET Pairs]]
      BY <1>4, <2>2 DEF ReadShard
    <2> QED
      BY <1>4, <2>1, <2>3 DEF ReadShard
  <1>5. CASE NextServer(c)
    <2>1. LegsAfter(c, target[c]) \subseteq Servers
      BY DEF LegsAfter
    <2>2. RpcTypeOK'
      BY <1>5, <2>1, DispatchType DEF NextServer
    <2> QED
      BY <1>5, <2>2 DEF NextServer, mapVars
  <1>6. CASE Return(c)
    <2>1. RpcTypeOK'
      BY <1>6, RpcStepType DEF Return
    <2>2. NothingRead \in [Servers -> SUBSET Pairs]
      BY DEF NothingRead
    <2> QED
      BY <1>6, <1>a, <2>1, <2>2, CallTypes DEF Return
  <1> QED
    BY <1>1, <1>2, <1>3, <1>4, <1>5, <1>6 DEF Step

\* Every reachable state of the map is well typed: no route leaves the range
\* of servers, no step writes a value of another shape.
THEOREM TypeCorrect == Spec => []TypeOK
  <1>1. TypeOK /\ [Next]_vars => TypeOK'
    <2> SUFFICES ASSUME TypeOK, [Next]_vars PROVE TypeOK'
      OBVIOUS
    <2>1. CASE UNCHANGED vars
      BY <2>1 DEF vars, TypeOK, RpcTypeOK
    <2> QED
      BY <2>1, StartType, StepType DEF Next
  <1> QED
    BY InitTypeOK, <1>1, PTL DEF Spec

-----------------------------------------------------------------------------
\* A step of process d leaves every other process's call alone, and changes no
\* shard but, in stage "apply", the one d addresses.
LEMMA Frame ==
    ASSUME TypeOK, NEW d \in Clients, Start(d) \/ Step(d)
    PROVE  /\ \A c \in Clients \ {d} :
                 /\ stage'[c] = stage[c] /\ target'[c] = target[c]
                 /\ call'[c] = call[c] /\ it'[c] = it[c] /\ res'[c] = res[c]
           /\ \A s \in Servers : \/ shard'[s] = shard[s]
                                 \/ s = target[d] /\ stage[d] = "apply"
  <1> USE DEF TypeOK, RpcTypeOK
  <1>1. CASE Start(d)
    <2>1. PICK cl \in Calls, s \in Servers : Invoke(d, cl, s)
      BY <1>1, StartInvokes
    <2> QED
      BY <2>1 DEF Invoke, Dispatch
  <1>2. CASE ServeRequest(d) \/ Lock(d) \/ Unlock(d)
    BY <1>2 DEF ServeRequest, Accept, Lock, Acquire, Unlock, Release, mapVars
  <1>3. CASE Find(d) \/ ReadShard(d)
    BY <1>3 DEF Find, ReadShard, Advance
  <1>4. CASE LocalPut(d) \/ LocalGet(d) \/ LocalErase(d)
    <2>1. PICK ok, v : Yield(d, ok, v)
      BY <1>4 DEF LocalPut, PutAssign, PutInsert, PutExhausted, LocalGet,
                  GetFound, GetMissing, LocalErase
    <2>2. stage[d] = "apply"
      BY <1>4 DEF LocalPut, PutAssign, PutInsert, PutExhausted, LocalGet,
                  GetFound, GetMissing, LocalErase, Applying
    <2>3. \/ shard' = shard
          \/ \E old, new : Rewrite(d, old, new)
      BY <1>4 DEF LocalPut, PutAssign, PutInsert, PutExhausted, LocalGet,
                  GetFound, GetMissing, LocalErase
    <2>4. \A s \in Servers : shard'[s] = shard[s] \/ s = target[d]
      BY <2>3 DEF Rewrite
    <2> QED
      BY <2>1, <2>2, <2>4 DEF Yield, Advance
  <1>5. CASE NextServer(d) \/ Return(d)
    BY <1>5 DEF NextServer, Dispatch, Return, Finish, mapVars
  <1> QED
    BY <1>1, <1>2, <1>3, <1>4, <1>5 DEF Step

\* The lock discipline survives a step of any process: the mutex is taken only
\* when it is free, and given back only by the call that holds it.
LEMMA LockStep ==
    ASSUME TypeOK, LockDiscipline, NEW d \in Clients, Start(d) \/ Step(d)
    PROVE  LockDiscipline'
  <1> USE DEF TypeOK
  <1>1. CASE Start(d)
    <2>1. PICK cl \in Calls, s \in Servers : Invoke(d, cl, s)
      BY <1>1, StartInvokes
    <2> QED
      BY <2>1, DispatchLocks DEF Invoke, Holding
  <1>2. CASE ServeRequest(d) \/ Lock(d) \/ Unlock(d) \/ Return(d)
    BY <1>2, RpcStepLocks DEF ServeRequest, Lock, Unlock, Return
  <1>3. CASE Find(d) \/ ReadShard(d)
    BY <1>3, RpcStepLocks DEF Find, ReadShard, Holding
  <1>4. CASE LocalPut(d) \/ LocalGet(d) \/ LocalErase(d)
    <2>1. stage[d] = "apply" /\ Advance(d, "unlock")
      BY <1>4 DEF LocalPut, PutAssign, PutInsert, PutExhausted, LocalGet,
                  GetFound, GetMissing, LocalErase, Applying, Yield
    <2> QED
      BY <2>1, RpcStepLocks DEF Holding
  <1>5. CASE NextServer(d)
    <2>1. PICK s \in LegsAfter(d, target[d]) : Dispatch(d, s)
      BY <1>5 DEF NextServer
    <2> QED
      BY <1>5, <2>1, DispatchLocks DEF NextServer, LegsAfter, Holding
  <1> QED
    BY <1>1, <1>2, <1>3, <1>4, <1>5 DEF Step

-----------------------------------------------------------------------------
\* What a call is about does not change while it is under way.
LEMMA ShapeStep ==
    ASSUME TypeOK, CallShape, NEW d \in Clients, Start(d) \/ Step(d)
    PROVE  CallShape'
  <1> DEFINE Shape(c) ==
        /\ call[c].op = "Put"
              => target[c] = PutRoute(Hash[call[c].key], NumServers)
        /\ call[c].op \in {"Get", "Erase"}
              => target[c] = GetRoute(Hash[call[c].key], NumServers)
        /\ stage[c] = "apply" => call[c] \in MapCalls
        /\ stage[c] = "idle" => call[c] = NoCall
        /\ call[c] \notin MapCalls => res[c] = NoResult
  <1>1. ASSUME NEW c \in Clients, c # d
        PROVE  Shape(c)'
    BY <1>1, Frame DEF CallShape
  <1>2. Shape(d)'
    <2> USE DEF TypeOK, RpcTypeOK
    <2>0. ScanCall.op = "GetAllData" /\ NoCall.op = "none"
      BY DEF ScanCall, NoCall
    <2>a. ASSUME NEW cl \in Calls, NEW s \in Servers, Invoke(d, cl, s)
          PROVE  /\ call'[d] = cl /\ target'[d] = s /\ res'[d] = NoResult
                 /\ stage'[d] \in {"entry", "sent"}
      <3>1. call[d] = NoCall /\ NoCall \notin MapCalls
        BY <2>a, CallTypes DEF CallShape, Invoke
      <3>2. res[d] = NoResult
        BY <3>1 DEF CallShape
      <3>3. target'[d] = s
        BY <2>a, DispatchType DEF Invoke
      <3> QED
        BY <2>a, <3>2, <3>3 DEF Invoke, Dispatch
    <2>1. ASSUME NEW k \in Keys, NEW v \in Vals, Put(d, k, v)
          PROVE  Shape(d)'
      <3> DEFINE cl == [op |-> "Put", key |-> k, val |-> v]
      <3>1. cl \in Calls /\ cl.op = "Put" /\ cl.key = k
        BY CallTypes
      <3> HIDE DEF cl
      <3>2. /\ call'[d] = cl /\ target'[d] = PutRoute(Hash[k], NumServers)
            /\ res'[d] = NoResult /\ stage'[d] \in {"entry", "sent"}
        BY <2>1, <2>a, <3>1, RouteInServers DEF Put, cl
      <3> QED
        BY <3>1, <3>2
    <2>2. ASSUME NEW k \in Keys, NEW op \in {"Get", "Erase"},
                 Invoke(d, [op |-> op, key |-> k], GetRoute(Hash[k], NumServers))
          PROVE  Shape(d)'
      <3> DEFINE cl == [op |-> op, key |-> k]
      <3>1. cl \in Calls /\ cl.op = op /\ cl.key = k
        BY CallTypes
      <3> HIDE DEF cl
      <3>2. /\ call'[d] = cl /\ target'[d] = GetRoute(Hash[k], NumServers)
            /\ res'[d] = NoResult /\ stage'[d] \in {"entry", "sent"}
        BY <2>2, <2>a, <3>1, RouteInServers DEF cl
      <3> QED
        BY <3>1, <3>2
    <2>3. CASE GetAllData(d)
      <3>1. /\ call'[d] = ScanCall /\ res'[d] = NoResult
            /\ stage'[d] \in {"entry", "sent"}
        BY <2>3, <2>a, CallTypes, PlacementAssumption DEF GetAllData
      <3> QED
        BY <2>0, <3>1
    <2>4. CASE ServeRequest(d) \/ Lock(d) \/ Unlock(d)
      BY <2>4 DEF CallShape, ServeRequest, Accept, Lock, Acquire, Unlock,
                  Release, mapVars
    <2>5. CASE Find(d) \/ ReadShard(d)
      BY <2>5 DEF CallShape, Find, ReadShard, Advance
    <2>6. CASE LocalPut(d) \/ LocalGet(d) \/ LocalErase(d)
      <3>1. /\ call' = call /\ target' = target
            /\ stage[d] = "apply" /\ stage'[d] = "unlock"
        BY <2>6 DEF Applying, LocalPut, PutAssign, PutInsert, PutExhausted, LocalGet,
                    GetFound, GetMissing, LocalErase, Yield, Advance
      <3> QED
        BY <3>1 DEF CallShape
    <2>7. CASE NextServer(d)
      <3>1. call'[d] = ScanCall /\ stage'[d] \in {"entry", "sent"}
        BY <2>7 DEF NextServer, Dispatch, mapVars
      <3>2. res'[d] = NoResult
        <4>1. res[d] = NoResult
          BY <2>7, CallTypes DEF NextServer, CallShape
        <4> QED
          BY <2>7, <4>1 DEF NextServer, mapVars
      <3> QED
        BY <2>0, <3>1, <3>2
    <2>8. CASE Return(d)
      <3>1. call'[d] = NoCall /\ stage'[d] = "idle" /\ res'[d] = NoResult
        BY <2>8 DEF Return, Finish
      <3> QED
        BY <2>0, <3>1
    <2> QED
      BY <2>1, <2>2, <2>3, <2>4, <2>5, <2>6, <2>7, <2>8
      DEF Start, Step, Get, Erase
  <1> HIDE DEF Shape
  <1>3. \A c \in Clients : Shape(c)'
    BY <1>1, <1>2
  <1> QED
    BY <1>3 DEF CallShape, Shape

\* No process invalidates an iterator another process is about to use.
LEMMA IteratorStep ==
    ASSUME TypeOK, LockDiscipline, IteratorFresh,
           NEW d \in Clients, Start(d) \/ Step(d)
    PROVE  IteratorFresh'
  <1> USE DEF TypeOK, RpcTypeOK
  <1> SUFFICES ASSUME NEW c \in Clients, stage'[c] = "apply"
               PROVE  it'[c] = Matching(shard'[target'[c]], call'[c].key)
    BY DEF IteratorFresh, Matching
  <1>1. CASE c # d
    <2>1. stage[c] = "apply" /\ target'[c] = target[c] /\ call'[c] = call[c]
          /\ it'[c] = it[c]
      BY <1>1, Frame
    <2>2. shard'[target[c]] = shard[target[c]]
      BY <1>1, <2>1, Frame, Exclusion DEF Holding
    <2> QED
      BY <2>1, <2>2 DEF IteratorFresh
  <1>2. CASE c = d
    <2>1. Find(d)
      <3>1. ~Start(d)
        <4>1. SUFFICES ASSUME Start(d) PROVE FALSE
          OBVIOUS
        <4>2. PICK cl \in Calls, s \in Servers : Invoke(d, cl, s)
          BY <4>1, StartInvokes
        <4> QED
          BY <1>2, <4>2 DEF Invoke, Dispatch
      <3>2. ~(ServeRequest(d) \/ Lock(d) \/ Unlock(d) \/ ReadShard(d))
        BY <1>2 DEF ServeRequest, Accept, Lock, Acquire, Unlock, Release,
                    ReadShard, Advance
      <3>3. ~(LocalPut(d) \/ LocalGet(d) \/ LocalErase(d))
        BY <1>2 DEF LocalPut, PutAssign, PutInsert, PutExhausted, LocalGet,
                    GetFound, GetMissing, LocalErase, Yield, Advance
      <3>4. ~(NextServer(d) \/ Return(d))
        BY <1>2 DEF NextServer, Dispatch, Return, Finish
      <3> QED
        BY <3>1, <3>2, <3>3, <3>4 DEF Step
    <2> QED
      BY <1>2, <2>1 DEF Find, Advance
  <1> QED
    BY <1>1, <1>2

\* What the three operations on a key do to the shards, stated without the
\* iterator: a fresh one is the set of nodes with the key.
LEMMA ApplyEffect ==
    ASSUME TypeOK, IteratorFresh, CallShape, NEW d \in Clients, Step(d),
           shard' # shard
    PROVE  /\ stage[d] = "apply"
           /\ call[d] \in MapCalls
           /\ \E new \in SUBSET {<<call[d].key, call[d].val>>} :
                 /\ new # {} => call[d].op = "Put"
                 /\ shard' = [shard EXCEPT ![target[d]] =
                                (@ \ Matching(@, call[d].key)) \cup new]
  <1>1. ~(ServeRequest(d) \/ Lock(d) \/ Unlock(d) \/ NextServer(d))
    BY DEF ServeRequest, Lock, Unlock, NextServer, mapVars
  <1>2. ~(Find(d) \/ ReadShard(d) \/ Return(d) \/ LocalGet(d) \/ PutExhausted(d))
    BY DEF Find, ReadShard, Return, LocalGet, GetFound, GetMissing, PutExhausted
  <1>3. PutAssign(d) \/ PutInsert(d) \/ LocalErase(d)
    BY <1>1, <1>2 DEF Step, LocalPut
  <1>4. stage[d] = "apply"
    BY <1>3 DEF PutAssign, PutInsert, LocalErase, Applying
  <1>5. call[d] \in MapCalls
    BY <1>4 DEF CallShape
  <1>6. it[d] = Matching(shard[target[d]], call[d].key)
    BY <1>4 DEF IteratorFresh
  <1>7. CASE PutAssign(d)
    BY <1>4, <1>5, <1>6, <1>7 DEF PutAssign, Applying, Rewrite
  <1>8. CASE PutInsert(d)
    <2>1. Matching(shard[target[d]], call[d].key) = {}
      BY <1>6, <1>8 DEF PutInsert
    <2> QED
      BY <1>4, <1>5, <1>8, <2>1 DEF PutInsert, Applying, Rewrite
  <1>9. CASE LocalErase(d)
    BY <1>4, <1>5, <1>6, <1>9 DEF LocalErase, Rewrite
  <1> QED
    BY <1>3, <1>7, <1>8, <1>9

\* No step stores a second node of a key, or a node away from its key's home.
LEMMA HomeStep ==
    ASSUME TypeOK, IteratorFresh, CallShape, OneHome,
           NEW d \in Clients, Start(d) \/ Step(d)
    PROVE  OneHome'
  <1>1. CASE shard' = shard
    BY <1>1 DEF OneHome
  <1>2. CASE shard' # shard
    <2>1. Step(d)
      BY <1>2, StartInvokes DEF Invoke
    <2> DEFINE k == call[d].key
               m == shard[target[d]]
    <2>2. PICK new \in SUBSET {<<k, call[d].val>>} :
             /\ new # {} => call[d].op = "Put"
             /\ shard' = [shard EXCEPT ![target[d]] = (@ \ Matching(@, k)) \cup new]
      BY <1>2, <2>1, ApplyEffect
    <2>3. new # {} => target[d] = PutRoute(Hash[k], NumServers)
      BY <2>2 DEF CallShape
    <2>4. target[d] \in Servers /\ shard \in [Servers -> SUBSET Pairs]
      BY DEF TypeOK, RpcTypeOK
    <2>5. shard'[target[d]] = (m \ Matching(m, k)) \cup new
      BY <2>2, <2>4
    <2> SUFFICES ASSUME NEW s \in Servers, NEW p \in Pairs, p \in shard'[s]
                 PROVE  /\ PutRoute(Hash[p[1]], NumServers) = s
                        /\ \A q \in shard'[s] : q[1] = p[1] => q = p
      BY DEF OneHome
    <2>6. CASE s # target[d]
      BY <2>2, <2>4, <2>6 DEF OneHome
    <2>7. CASE s = target[d]
      <3>1. \A q \in m : q \in Pairs
        BY <2>4
      <3>2. \A q \in new : q[1] = k /\ q = <<k, call[d].val>>
        BY <2>2
      <3>3. \A q \in m \ Matching(m, k) : q[1] # k
        BY DEF Matching
      <3>4. \A q, r \in m : q[1] = r[1] => q = r
        BY <2>4, <3>1 DEF OneHome
      <3>5. CASE p \in new
        BY <2>3, <2>5, <2>7, <3>2, <3>3, <3>5
      <3>6. CASE p \notin new
        <4>1. p \in m \ Matching(m, k)
          BY <2>5, <2>7, <3>6
        <4>2. PutRoute(Hash[p[1]], NumServers) = s
          BY <2>4, <2>7, <4>1 DEF OneHome
        <4> QED
          BY <2>5, <2>7, <3>2, <3>3, <3>4, <4>1, <4>2
      <3> QED
        BY <3>5, <3>6
    <2> QED
      BY <2>6, <2>7
  <1> QED
    BY <1>1, <1>2

\* While a Get that missed holds its lock, nobody puts the key into the shard.
LEMMA MissStep ==
    ASSUME TypeOK, LockDiscipline, IteratorFresh, CallShape, LockedMiss,
           NEW d \in Clients, Start(d) \/ Step(d)
    PROVE  LockedMiss'
  <1> USE DEF TypeOK, RpcTypeOK
  <1> SUFFICES ASSUME NEW c \in Clients, stage'[c] = "unlock",
                      call'[c].op = "Get", res'[c].ok = "false"
               PROVE  Matching(shard'[target'[c]], call'[c].key) = {}
    BY DEF LockedMiss, Matching
  <1>1. CASE c # d
    <2>1. stage[c] = "unlock" /\ target'[c] = target[c] /\ call'[c] = call[c]
          /\ res'[c] = res[c]
      BY <1>1, Frame
    <2>2. shard'[target[c]] = shard[target[c]]
      BY <1>1, <2>1, Frame, Exclusion DEF Holding
    <2> QED
      BY <2>1, <2>2 DEF LockedMiss
  <1>2. CASE c = d
    <2>1. GetMissing(d)
      <3>1. ~Start(d)
        <4>1. SUFFICES ASSUME Start(d) PROVE FALSE
          OBVIOUS
        <4>2. PICK cl \in Calls, s \in Servers : Invoke(d, cl, s)
          BY <4>1, StartInvokes
        <4> QED
          BY <1>2, <4>2 DEF Invoke, Dispatch
      <3>2. ~(ServeRequest(d) \/ Lock(d) \/ Unlock(d) \/ Find(d))
        BY <1>2 DEF ServeRequest, Accept, Lock, Acquire, Unlock, Release,
                    Find, Advance
      <3>3. ~(LocalPut(d) \/ LocalErase(d) \/ GetFound(d))
        BY <1>2 DEF LocalPut, PutAssign, PutInsert, PutExhausted, GetFound,
                    LocalErase, Yield, Applying
      <3>4. ~(NextServer(d) \/ Return(d))
        BY <1>2 DEF NextServer, Dispatch, Return, Finish
      <3>5. ~ReadShard(d)
        BY <1>2 DEF ReadShard, ScanCall
      <3> QED
        BY <3>1, <3>2, <3>3, <3>4, <3>5 DEF Step, LocalGet
    <2>2. /\ stage[d] = "apply" /\ it[d] = {}
          /\ shard' = shard /\ call' = call /\ target' = target
      BY <2>1 DEF GetMissing, Applying, Yield, Advance
    <2> QED
      BY <1>2, <2>2 DEF IteratorFresh
  <1> QED
    BY <1>1, <1>2

-----------------------------------------------------------------------------
\* The inductive invariant holds in every reachable state.
THEOREM Inductive == Spec => []IndInv
  <1>1. Init => IndInv
    <2> SUFFICES ASSUME Init PROVE IndInv
      OBVIOUS
    <2>1. TypeOK
      BY InitTypeOK
    <2>2. LockDiscipline
      BY FreeAssumption DEF Init, RpcInit, LockDiscipline, Holding
    <2>3. CallShape /\ IteratorFresh /\ LockedMiss
      BY DEF Init, RpcInit, CallShape, IteratorFresh, LockedMiss, NoCall
    <2>4. OneHome
      BY DEF Init, OneHome
    <2> QED
      BY <2>1, <2>2, <2>3, <2>4 DEF IndInv
  <1>2. IndInv /\ [Next]_vars => IndInv'
    <2> SUFFICES ASSUME IndInv, [Next]_vars PROVE IndInv'
      OBVIOUS
    <2> USE DEF IndInv
    <2>1. ASSUME NEW d \in Clients, Start(d) \/ Step(d)
          PROVE  IndInv'
      BY <2>1, StartType, StepType, LockStep, ShapeStep, IteratorStep, HomeStep,
         MissStep
    <2>2. CASE UNCHANGED vars
      BY <2>2 DEF vars, TypeOK, RpcTypeOK, LockDiscipline, CallShape,
                  IteratorFresh, OneHome, LockedMiss, Matching
    <2> QED
      BY <2>1, <2>2 DEF Next
  <1> QED
    BY <1>1, <1>2, PTL DEF Spec

\* A mutex is held exactly by the one call that is inside its scoped_lock.
THEOREM MutualExclusion == Spec => []LockDiscipline
  <1>1. IndInv => LockDiscipline
    BY DEF IndInv
  <1> QED
    BY <1>1, Inductive, PTL

\* No iterator is invalidated between the look-up and its use.
THEOREM IteratorsStayFresh == Spec => []IteratorFresh
  <1>1. IndInv => IteratorFresh
    BY DEF IndInv
  <1> QED
    BY <1>1, Inductive, PTL

\* Every key is stored at most once, in the shard that Put routes it to.
THEOREM OneHomePerKey == Spec => []OneHome
  <1>1. IndInv => OneHome
    BY DEF IndInv
  <1> QED
    BY <1>1, Inductive, PTL

\* When Put and Get route every key alike, a Get that finds nothing tells the
\* truth about the whole map.
THEOREM MissesAreAbsences ==
    ASSUME \A k \in Keys : RoutesAgree(Hash[k], NumServers)
    PROVE  Spec => []MissIsAbsence
  <1>1. IndInv => MissIsAbsence
    <2> SUFFICES ASSUME IndInv, NEW c \in Clients, stage[c] = "unlock",
                        call[c].op = "Get", res[c].ok = "false",
                        NEW s \in Servers
                 PROVE  Matching(shard[s], call[c].key) = {}
      BY DEF MissIsAbsence
    <2> USE DEF IndInv
    <2>1. call[c].key \in Keys
      BY CallTypes DEF TypeOK
    <2>2. target[c] = PutRoute(Hash[call[c].key], NumServers)
      BY <2>1 DEF CallShape, RoutesAgree
    <2>3. CASE s = target[c]
      BY <2>3 DEF LockedMiss
    <2>4. CASE s # target[c]
      BY <2>2, <2>4 DEF OneHome, Matching, TypeOK
    <2> QED
      BY <2>3, <2>4
  <1> QED
    BY <1>1, Inductive, PTL

\* Every server index is a uint16_t.
LEMMA ServersInRange == NumServers \in 1 .. UInt16Range
  <1>1. /\ NumServers \in Nat \ {0} /\ UInt16Range \in Nat
        /\ NumServers <= UInt16Range
    BY NumServersAssumption DEF UInt16Range
  <1> QED
    BY <1>1

\* In particular with any number of servers that divides 2^16.
THEOREM MissesAreAbsencesByDivision ==
    ASSUME Divides16Bits(NumServers)
    PROVE  Spec => []MissIsAbsence
  <1>1. NumServers \in 1 .. UInt16Range
    BY ServersInRange
  <1>2. \A k \in Keys : RoutesAgree(Hash[k], NumServers)
    BY <1>1, DataAssumption, DividingServersAgree
  <1> QED
    BY <1>2, MissesAreAbsences

-----------------------------------------------------------------------------
(***************************************************************************)
(* The proof that the sharded, multi-process map implements AtomicMap,     *)
(* when Put and Get route every key alike.                                 *)
(***************************************************************************)

AllRoutesAgree == \A k \in Keys : RoutesAgree(Hash[k], NumServers)

\* The pairs of a key in the abstract map are the nodes of its home shard.
LEMMA StoreAtKey ==
    ASSUME TypeOK, OneHome, NEW k \in Keys,
           NEW t \in Servers, t = PutRoute(Hash[k], NumServers)
    PROVE  Abstract!At(k) = Matching(shard[t], k)
  <1>1. ASSUME NEW s \in Servers, NEW p \in shard[s], p[1] = k
        PROVE  s = t
    <2>1. p \in Pairs
      BY DEF TypeOK
    <2> QED
      BY <1>1, <2>1 DEF OneHome
  <1> QED
    BY <1>1 DEF Abstract!At, Matching, store

\* Rewriting the nodes of a key in its home shard rewrites the key's pairs in
\* the abstract map, and nothing else.
LEMMA StoreRewrite ==
    ASSUME TypeOK, OneHome, NEW k \in Keys, NEW new,
           NEW t \in Servers, t = PutRoute(Hash[k], NumServers),
           shard' = [shard EXCEPT ![t] = (@ \ Matching(@, k)) \cup new]
    PROVE  store' = (store \ Abstract!At(k)) \cup new
  <1>1. shard'[t] = (shard[t] \ Matching(shard[t], k)) \cup new
        /\ \A s \in Servers \ {t} : shard'[s] = shard[s]
    BY DEF TypeOK
  <1>2. Abstract!At(k) = Matching(shard[t], k)
    BY StoreAtKey
  <1>3. ASSUME NEW s \in Servers \ {t}, NEW p \in shard[s]
        PROVE  p \notin Matching(shard[t], k)
    <2>1. p \in Pairs
      BY DEF TypeOK
    <2> QED
      BY <1>3, <2>1 DEF OneHome, Matching
  <1>4. ASSUME NEW p \in store'
        PROVE  p \in (store \ Abstract!At(k)) \cup new
    <2>1. PICK s \in Servers : p \in shard'[s]
      BY <1>4 DEF store
    <2> QED
      BY <1>1, <1>2, <1>3, <2>1 DEF store
  <1>5. ASSUME NEW p \in (store \ Abstract!At(k)) \cup new
        PROVE  p \in store'
    <2>1. CASE p \in new
      BY <1>1, <2>1 DEF store
    <2>2. CASE p \in store \ Abstract!At(k)
      <3>1. PICK s \in Servers : p \in shard[s]
        BY <2>2 DEF store
      <3> QED
        BY <1>1, <1>2, <2>2, <3>1 DEF store
    <2> QED
      BY <1>5, <2>1, <2>2
  <1> QED
    BY <1>4, <1>5

-----------------------------------------------------------------------------
\* The phase of a call in the abstract map.
PhaseOf(c) == IF ~Visible(c) THEN "idle"
              ELSE IF stage[c] \in {"unlock", "reply"} THEN "done" ELSE "pending"

AbsCallOf(c) == IF Visible(c) THEN call[c] ELSE NoCall

\* A step of process d moves the abstract call of d only.
LEMMA AbstractFrame ==
    ASSUME TypeOK, NEW d \in Clients, Start(d) \/ Step(d)
    PROVE  /\ phase' = [phase EXCEPT ![d] = PhaseOf(d)']
           /\ absCall' = [absCall EXCEPT ![d] = AbsCallOf(d)']
           /\ phase[d] = PhaseOf(d) /\ absCall[d] = AbsCallOf(d)
  <1>1. \A c \in Clients \ {d} : stage'[c] = stage[c] /\ call'[c] = call[c]
    BY Frame
  <1>2. \A c \in Clients \ {d} : /\ PhaseOf(c)' = PhaseOf(c)
                                 /\ AbsCallOf(c)' = AbsCallOf(c)
    BY <1>1 DEF PhaseOf, AbsCallOf, Visible
  <1>3. phase = [c \in Clients |-> PhaseOf(c)]
        /\ absCall = [c \in Clients |-> AbsCallOf(c)]
    BY DEF phase, absCall, PhaseOf, AbsCallOf
  <1>4. phase' = [c \in Clients |-> PhaseOf(c)']
        /\ absCall' = [c \in Clients |-> AbsCallOf(c)']
    BY DEF phase, absCall, PhaseOf, AbsCallOf, Visible
  <1> HIDE DEF PhaseOf, AbsCallOf
  <1> QED
    BY <1>2, <1>3, <1>4

\* A step that changes neither the shards nor what is visible of its own call
\* is a stuttering step of the abstract map.
LEMMA Stutter ==
    ASSUME TypeOK, NEW d \in Clients, Start(d) \/ Step(d), shard' = shard,
           res' = res, PhaseOf(d)' = PhaseOf(d), AbsCallOf(d)' = AbsCallOf(d)
    PROVE  UNCHANGED Abstract!absVars
  <1>1. phase' = phase /\ absCall' = absCall
    <2>1. phase' = [phase EXCEPT ![d] = phase[d]]
          /\ absCall' = [absCall EXCEPT ![d] = absCall[d]]
      BY AbstractFrame
    <2>2. DOMAIN phase = Clients /\ DOMAIN absCall = Clients
      BY DEF phase, absCall
    <2> QED
      BY <2>1, <2>2 DEF phase, absCall
  <1>2. store' = store
    BY DEF store
  <1> QED
    BY <1>1, <1>2 DEF Abstract!absVars

-----------------------------------------------------------------------------
\* Calling Put, Get or Erase begins an abstract operation; calling GetAllData
\* does nothing to the abstract map.
LEMMA StartSimulates ==
    ASSUME IndInv, NEW d \in Clients, Start(d)
    PROVE  Abstract!Next \/ UNCHANGED Abstract!absVars
  <1> USE DEF IndInv
  <1>1. PICK cl \in Calls, s \in Servers : Invoke(d, cl, s)
    BY StartInvokes
  <1>2. call[d] = NoCall /\ ~Visible(d)
    BY <1>1, CallTypes DEF Invoke, CallShape, Visible
  <1>3. /\ call'[d] = cl /\ stage'[d] \in {"entry", "sent"}
        /\ shard' = shard /\ res' = res
    BY <1>1 DEF Invoke, Dispatch, TypeOK, RpcTypeOK
  <1>4. PhaseOf(d) = "idle" /\ AbsCallOf(d) = NoCall
    BY <1>2 DEF PhaseOf, AbsCallOf
  <1>5. CASE cl \in MapCalls
    <2>1. Visible(d)' /\ PhaseOf(d)' = "pending" /\ AbsCallOf(d)' = cl
      BY <1>3, <1>5 DEF Visible, PhaseOf, AbsCallOf
    <2>2. store' = store
      BY <1>3 DEF store
    <2>3. cl \in Abstract!MapCalls
      BY <1>5 DEF MapCalls, PutCalls, KeyCalls, Abstract!MapCalls
    <2>4. Abstract!Begin(d, cl)
      BY <1>3, <1>4, <2>1, <2>2, AbstractFrame DEF Abstract!Begin
    <2> QED
      BY <2>3, <2>4 DEF Abstract!Next
  <1>6. CASE cl \notin MapCalls
    <2>1. PhaseOf(d)' = PhaseOf(d) /\ AbsCallOf(d)' = AbsCallOf(d)
      BY <1>3, <1>4, <1>6 DEF Visible, PhaseOf, AbsCallOf
    <2> QED
      BY <1>3, <2>1, Stutter
  <1> QED
    BY <1>5, <1>6

\* What holds of the abstract map when a call acts on what it has found.
LEMMA ApplyPoint ==
    ASSUME IndInv, AllRoutesAgree, NEW d \in Clients, stage[d] = "apply",
           NEW ok, NEW v, Step(d), Yield(d, ok, v)
    PROVE  /\ call[d].key \in Keys
           /\ target[d] \in Servers
           /\ target[d] = PutRoute(Hash[call[d].key], NumServers)
           /\ it[d] = Abstract!At(call[d].key)
           /\ absCall[d] = call[d] /\ absCall' = absCall
           /\ phase[d] = "pending" /\ phase' = [phase EXCEPT ![d] = "done"]
           /\ res' = [res EXCEPT ![d] = [ok |-> ok, val |-> v]]
  <1> USE DEF IndInv
  <1>1. call[d] \in MapCalls
    BY DEF CallShape
  <1>2. call[d].key \in Keys
    BY <1>1, CallTypes
  <1>3. target[d] \in Servers
    BY DEF TypeOK, RpcTypeOK
  <1>4. target[d] = PutRoute(Hash[call[d].key], NumServers)
    BY <1>1, <1>2, CallTypes DEF CallShape, AllRoutesAgree, RoutesAgree
  <1>5. it[d] = Abstract!At(call[d].key)
    BY <1>2, <1>3, <1>4, StoreAtKey DEF IteratorFresh
  <1>6. stage'[d] = "unlock" /\ call' = call
        /\ res' = [res EXCEPT ![d] = [ok |-> ok, val |-> v]]
    BY DEF Yield, Advance, TypeOK, RpcTypeOK
  <1>7. /\ PhaseOf(d) = "pending" /\ PhaseOf(d)' = "done"
        /\ AbsCallOf(d) = call[d] /\ AbsCallOf(d)' = call[d]
    BY <1>1, <1>6 DEF PhaseOf, AbsCallOf, Visible
  <1>8. /\ phase[d] = "pending" /\ phase' = [phase EXCEPT ![d] = "done"]
        /\ absCall[d] = call[d] /\ absCall' = [absCall EXCEPT ![d] = absCall[d]]
    BY <1>7, AbstractFrame
  <1>9. absCall' = absCall
    BY <1>8 DEF absCall
  <1> QED
    BY <1>2, <1>3, <1>4, <1>5, <1>6, <1>8, <1>9

\* The step in which LocalPut, LocalGet and LocalErase act on what they found
\* is the instant at which the abstract operation takes effect.
LEMMA ApplySimulates ==
    ASSUME IndInv, AllRoutesAgree, NEW d \in Clients,
           LocalPut(d) \/ LocalGet(d) \/ LocalErase(d)
    PROVE  Abstract!Next
  <1> USE DEF IndInv
  <1>0. Step(d) /\ stage[d] = "apply"
    BY DEF Step, LocalPut, LocalGet, PutAssign, PutInsert, PutExhausted,
           GetFound, GetMissing, LocalErase, Applying
  <1> DEFINE k == call[d].key
             t == target[d]
             put == {<<call[d].key, call[d].val>>}
  <1>a. TypeOK /\ OneHome
    OBVIOUS
  <1>1. CASE PutAssign(d) \/ PutInsert(d)
    <2>1. Yield(d, "true", DefaultVal) /\ call[d].op = "Put"
      BY <1>1 DEF PutAssign, PutInsert, Applying
    <2>2. /\ k \in Keys /\ t \in Servers /\ t = PutRoute(Hash[k], NumServers)
          /\ it[d] = Abstract!At(k)
          /\ absCall[d] = call[d] /\ absCall' = absCall
          /\ phase[d] = "pending" /\ phase' = [phase EXCEPT ![d] = "done"]
          /\ res' = [res EXCEPT ![d] = [ok |-> "true", val |-> DefaultVal]]
      BY <1>0, <2>1, ApplyPoint
    <2>3. Rewrite(d, it[d], put)
      BY <1>1 DEF PutAssign, PutInsert
    <2>4. it[d] = Matching(shard[t], k)
      BY <1>0 DEF IteratorFresh
    <2>5. shard' = [shard EXCEPT ![t] = (@ \ Matching(@, k)) \cup put]
      BY <2>3, <2>4 DEF Rewrite
    <2>6. store' = (store \ Abstract!At(k)) \cup put
      BY <1>a, <2>2, <2>5, StoreRewrite
    <2>7. Abstract!DoPut(d)
      BY <2>1, <2>2, <2>6
      DEF Abstract!DoPut, Abstract!Pending, Abstract!Effect
    <2> QED
      BY <2>7 DEF Abstract!Next
  <1>2. CASE PutExhausted(d)
    <2>1. Yield(d, "bad_alloc", DefaultVal) /\ call[d].op = "Put" /\ it[d] = {}
          /\ store' = store
      BY <1>2 DEF PutExhausted, Applying, store
    <2>2. Abstract!DoPutExhausted(d)
      BY <1>0, <2>1, ApplyPoint
      DEF Abstract!DoPutExhausted, Abstract!Pending, Abstract!Effect
    <2> QED
      BY <2>2 DEF Abstract!Next
  <1>3. CASE GetFound(d)
    <2>1. call[d].op = "Get" /\ store' = store
      BY <1>3 DEF GetFound, Applying, store
    <2>2. PICK p \in it[d] : Yield(d, "true", p[2])
      BY <1>3 DEF GetFound
    <2>3. Abstract!DoGet(d)
      BY <1>0, <2>1, <2>2, ApplyPoint
      DEF Abstract!DoGet, Abstract!Pending, Abstract!Effect
    <2> QED
      BY <2>3 DEF Abstract!Next
  <1>4. CASE GetMissing(d)
    <2>1. Yield(d, "false", DefaultVal) /\ call[d].op = "Get" /\ it[d] = {}
          /\ store' = store
      BY <1>4 DEF GetMissing, Applying, store
    <2>2. Abstract!DoGet(d)
      BY <1>0, <2>1, ApplyPoint
      DEF Abstract!DoGet, Abstract!Pending, Abstract!Effect
    <2> QED
      BY <2>2 DEF Abstract!Next
  <1>5. CASE LocalErase(d)
    <2> DEFINE ok == IF it[d] # {} THEN "true" ELSE "false"
    <2>1. Yield(d, ok, DefaultVal) /\ call[d].op = "Erase"
      BY <1>5 DEF LocalErase, Applying
    <2> HIDE DEF ok
    <2>2. /\ k \in Keys /\ t \in Servers /\ t = PutRoute(Hash[k], NumServers)
          /\ it[d] = Abstract!At(k)
          /\ absCall[d] = call[d] /\ absCall' = absCall
          /\ phase[d] = "pending" /\ phase' = [phase EXCEPT ![d] = "done"]
          /\ res' = [res EXCEPT ![d] = [ok |-> ok, val |-> DefaultVal]]
      BY <1>0, <2>1, ApplyPoint
    <2>4. it[d] = Matching(shard[t], k)
      BY <1>0 DEF IteratorFresh
    <2>5. shard' = [shard EXCEPT ![t] = (@ \ Matching(@, k)) \cup {}]
      BY <1>5, <2>4 DEF LocalErase, Rewrite
    <2>6. store' = (store \ Abstract!At(k)) \cup {}
      BY <1>a, <2>2, <2>5, StoreRewrite
    <2>7. Abstract!DoErase(d)
      BY <2>1, <2>2, <2>6
      DEF Abstract!DoErase, Abstract!Pending, Abstract!Effect, ok
    <2> QED
      BY <2>7 DEF Abstract!Next
  <1> QED
    BY <1>1, <1>2, <1>3, <1>4, <1>5 DEF LocalPut, LocalGet

\* Returning from Put, Get or Erase ends the abstract operation; every other
\* step is invisible.
LEMMA OtherSimulates ==
    ASSUME IndInv, NEW d \in Clients, Step(d),
           ~(LocalPut(d) \/ LocalGet(d) \/ LocalErase(d))
    PROVE  Abstract!Next \/ UNCHANGED Abstract!absVars
  <1> USE DEF IndInv
  <1>1. CASE Return(d) /\ Visible(d)
    <2>1. /\ stage[d] = "reply" /\ call'[d] = NoCall /\ shard' = shard
          /\ res' = [res EXCEPT ![d] = NoResult]
      BY <1>1 DEF Return, Finish, TypeOK
    <2>2. PhaseOf(d) = "done" /\ PhaseOf(d)' = "idle" /\ AbsCallOf(d)' = NoCall
      BY <1>1, <2>1, CallTypes DEF PhaseOf, AbsCallOf, Visible
    <2>3. store' = store
      BY <2>1 DEF store
    <2>4. Abstract!NoCall = NoCall /\ Abstract!NoResult = NoResult
      BY DEF NoCall, NoResult, Abstract!NoCall, Abstract!NoResult
    <2>5. Abstract!End(d)
      BY <2>1, <2>2, <2>3, <2>4, AbstractFrame DEF Abstract!End
    <2> QED
      BY <2>5 DEF Abstract!Next
  <1>2. CASE Return(d) /\ ~Visible(d)
    <2>1. call'[d] = NoCall /\ shard' = shard /\ res' = [res EXCEPT ![d] = NoResult]
      BY <1>2 DEF Return, TypeOK
    <2>2. res[d] = NoResult
      BY <1>2 DEF CallShape, Visible
    <2>3. res' = res
      BY <2>1, <2>2 DEF TypeOK
    <2>4. PhaseOf(d)' = PhaseOf(d) /\ AbsCallOf(d)' = AbsCallOf(d)
      BY <1>2, <2>1, CallTypes DEF PhaseOf, AbsCallOf, Visible
    <2> QED
      BY <2>1, <2>3, <2>4, Stutter
  <1>3. CASE ~Return(d)
    <2>1. /\ shard' = shard /\ res' = res /\ call' = call
          /\ \/ call[d] = ScanCall
             \/ /\ stage[d] \in {"unlock", "reply"}
                /\ stage'[d] \in {"unlock", "reply"}
             \/ /\ stage[d] \notin {"unlock", "reply"}
                /\ stage'[d] \notin {"unlock", "reply"}
      <3> USE DEF TypeOK, RpcTypeOK
      <3>1. CASE ServeRequest(d) \/ Lock(d) \/ Unlock(d)
        BY <3>1 DEF ServeRequest, Accept, Lock, Acquire, Unlock, Release, mapVars
      <3>2. CASE Find(d)
        BY <3>2 DEF Find, Advance
      <3>3. CASE ReadShard(d) \/ NextServer(d)
        BY <3>3 DEF ReadShard, NextServer, mapVars
      <3> QED
        BY <1>3, <3>1, <3>2, <3>3 DEF Step
    <2>2. PhaseOf(d)' = PhaseOf(d) /\ AbsCallOf(d)' = AbsCallOf(d)
      BY <2>1, CallTypes DEF PhaseOf, AbsCallOf, Visible
    <2> QED
      BY <2>1, <2>2, Stutter
  <1> QED
    BY <1>1, <1>2, <1>3

-----------------------------------------------------------------------------
\* Put, Get and Erase are linearizable: the sharded map, with local callers on
\* the mapping and worker threads serving remote ones, implements AtomicMap.
THEOREM ImplementsAtomicMap ==
    ASSUME AllRoutesAgree
    PROVE  Spec => Linearizable
  <1>1. Init => Abstract!Init
    <2> SUFFICES ASSUME Init PROVE Abstract!Init
      OBVIOUS
    <2>1. store = {}
      BY DEF Init, store
    <2>2. \A c \in Clients : ~Visible(c)
      BY CallTypes DEF Init, Visible
    <2>3. phase = [c \in Clients |-> "idle"] /\ absCall = [c \in Clients |-> NoCall]
      BY <2>2 DEF phase, absCall
    <2> QED
      BY <2>1, <2>3
      DEF Init, Abstract!Init, NoCall, NoResult, Abstract!NoCall, Abstract!NoResult
  <1>2. IndInv /\ [Next]_vars => [Abstract!Next]_Abstract!absVars
    <2> SUFFICES ASSUME IndInv, [Next]_vars
                 PROVE  [Abstract!Next]_Abstract!absVars
      OBVIOUS
    <2>1. CASE UNCHANGED vars
      BY <2>1 DEF vars, store, phase, absCall, Visible, Abstract!absVars
    <2>2. ASSUME NEW d \in Clients, Start(d) \/ Step(d)
          PROVE  Abstract!Next \/ UNCHANGED Abstract!absVars
      BY <2>2, StartSimulates, ApplySimulates, OtherSimulates
    <2> QED
      BY <2>1, <2>2 DEF Next
  <1> QED
    BY <1>1, <1>2, Inductive, PTL DEF Spec, Linearizable, Abstract!Spec

-----------------------------------------------------------------------------
(***************************************************************************)
(* GetAllData, which reads the servers one after the other.                *)
(***************************************************************************)

\* The history variables restrict nothing: with them the map does only what it
\* does without them.
LEMMA ScanSpecIsSpec == ScanSpec => Spec
  <1>1. ScanInit => Init
    BY DEF ScanInit
  <1>2. [ScanNext]_scanVars => [Next]_vars
    BY DEF ScanNext, scanVars
  <1> QED
    BY <1>1, <1>2, PTL DEF ScanSpec, Spec

\* The next server a scan addresses is the one it reads next: the servers
\* that it has not read yet stay the same.
LEMMA NextIsUnread ==
    ASSUME TypeOK, NEW d \in Clients, NextServer(d)
    PROVE  Unread(d)' = Unread(d)
  <1> USE DEF TypeOK, RpcTypeOK
  <1> DEFINE t == target[d]
             my == MyServer[d]
  <1>1. PICK s \in LegsAfter(d, t) : /\ \A i \in LegsAfter(d, t) : s <= i
                                     /\ Dispatch(d, s)
    BY DEF NextServer
  <1>2. s \in Servers /\ my \in Servers /\ t \in Servers /\ s # my
    BY <1>1, PlacementAssumption DEF LegsAfter
  <1>3. target'[d] = s /\ stage'[d] \in {"entry", "sent"} /\ stage[d] = "reply"
    BY <1>1, <1>2, DispatchType DEF Dispatch, NextServer
  <1>4. Unread(d) = LegsAfter(d, t) /\ Unread(d)' = LegsAfter(d, s) \cup {s}
    BY <1>3 DEF Unread, LegsAfter
  <1>5. \A i \in Servers : s <= i => i > s \/ i = s
    <2>1. \A i, j \in Nat : j <= i => i > j \/ i = j
      OBVIOUS
    <2>2. \A i \in Servers : i \in Nat
      BY DEF Servers
    <2> QED
      BY <1>2, <2>1, <2>2
  <1>6. LegsAfter(d, s) = {i \in Servers : i > s /\ i # my}
    BY <1>2 DEF LegsAfter
  <1>7. CASE t = my
    <2>1. LegsAfter(d, t) = Servers \ {my}
      BY <1>7 DEF LegsAfter
    <2>2. \A i \in Servers : i # my => s <= i
      BY <1>1, <2>1
    <2> QED
      BY <1>2, <1>4, <1>5, <1>6, <2>1, <2>2
  <1>8. CASE t # my
    <2>1. LegsAfter(d, t) = {i \in Servers : i > t /\ i # my}
      BY <1>8 DEF LegsAfter
    <2>2. s > t /\ \A i \in Servers : i > t /\ i # my => (i > s \/ i = s)
      BY <1>1, <1>2, <1>5, <2>1
    <2>3. \A i \in Servers : i > s => i > t
      <3>1. \A i, j, k \in Nat : i > j /\ j > k => i > k
        OBVIOUS
      <3>2. \A i \in Servers : i \in Nat
        BY DEF Servers
      <3> QED
        BY <1>2, <2>2, <3>1, <3>2
    <2> QED
      BY <1>2, <1>4, <1>6, <2>1, <2>2, <2>3
  <1> QED
    BY <1>7, <1>8

\* The steps of process d as its scan sees them: it reads a shard, begins, ends,
\* or goes on with what it has read and the servers it has not.
Reads(d) ==
    /\ Scanning(d) /\ call' = call /\ shard' = shard
    /\ got' = [got EXCEPT ![d][target[d]] = @ \cup shard[target[d]]]
    /\ target[d] \in Unread(d) /\ Unread(d)' = Unread(d) \ {target[d]}

Begins(d) == got' = got /\ ~Scanning(d) /\ (Scanning(d)' => Unread(d)' = Servers)

Ends(d) == got' = [got EXCEPT ![d] = NothingRead] /\ ~Scanning(d)'

GoesOn(d) ==
    /\ got' = got /\ call'[d] = call[d]
    /\ Scanning(d) => Unread(d)' = Unread(d)

LEMMA ScanStep ==
    ASSUME IndInv, NEW d \in Clients, Start(d) \/ Step(d)
    PROVE  Reads(d) \/ Begins(d) \/ Ends(d) \/ GoesOn(d)
  <1> USE DEF IndInv, TypeOK, RpcTypeOK
  <1>1. CASE ReadShard(d)
    <2>1. /\ Scanning(d) /\ call' = call /\ shard' = shard /\ target' = target
          /\ got' = [got EXCEPT ![d][target[d]] = @ \cup shard[target[d]]]
          /\ stage[d] = "read" /\ stage'[d] = "unlock"
      BY <1>1 DEF ReadShard, Advance, Scanning
    <2>2. target[d] \in Unread(d) /\ Unread(d)' = Unread(d) \ {target[d]}
      <3>1. target[d] \in Servers /\ target[d] \notin LegsAfter(d, target[d])
        BY DEF LegsAfter, Servers
      <3>2. /\ Unread(d) = LegsAfter(d, target[d]) \cup {target[d]}
            /\ Unread(d)' = LegsAfter(d, target[d])
        BY <2>1 DEF Unread, LegsAfter
      <3> QED
        BY <3>1, <3>2
    <2> QED
      BY <2>1, <2>2 DEF Reads
  <1>2. CASE Start(d)
    <2>1. PICK cl \in Calls, s \in Servers : Invoke(d, cl, s)
      BY <1>2, StartInvokes
    <2>2. got' = got /\ ~Scanning(d) /\ call'[d] = cl
      BY <2>1, CallTypes DEF Invoke, Scanning, CallShape
    <2>3. ASSUME Scanning(d)'
          PROVE  Unread(d)' = Servers
      <3>1. GetAllData(d)
        <4>1. cl = ScanCall
          BY <2>2, <2>3 DEF Scanning
        <4>2. \A k \in Keys, v \in Vals : ~Put(d, k, v)
          BY <2>1, <4>1 DEF Put, Invoke, ScanCall
        <4>3. \A k \in Keys : ~Get(d, k) /\ ~Erase(d, k)
          BY <2>1, <4>1 DEF Get, Erase, Invoke, ScanCall
        <4> QED
          BY <1>2, <4>2, <4>3 DEF Start
      <3>2. target'[d] = MyServer[d] /\ stage'[d] \in {"entry", "sent"}
            /\ MyServer[d] \in Servers
        BY <3>1, DispatchType, PlacementAssumption DEF GetAllData, Invoke, Dispatch
      <3> QED
        BY <3>2 DEF Unread, LegsAfter
    <2> QED
      BY <2>2, <2>3 DEF Begins
  <1>3. CASE Return(d)
    BY <1>3, CallTypes DEF Return, Ends, Scanning
  <1>4. CASE NextServer(d)
    BY <1>4, NextIsUnread DEF NextServer, mapVars, GoesOn
  <1>5. CASE ServeRequest(d) \/ Lock(d) \/ Unlock(d)
    <2>1. /\ target'[d] = target[d] /\ call' = call /\ got' = got
          /\ stage[d] \in {"unlock", "reply"} <=> stage'[d] \in {"unlock", "reply"}
      BY <1>5 DEF ServeRequest, Accept, Lock, Acquire, Unlock, Release, mapVars
    <2> QED
      BY <2>1 DEF GoesOn, Unread, LegsAfter
  <1>6. CASE Find(d) \/ LocalPut(d) \/ LocalGet(d) \/ LocalErase(d)
    <2>1. got' = got /\ call' = call
      BY <1>6 DEF Find, LocalPut, PutAssign, PutInsert, PutExhausted, LocalGet,
                  GetFound, GetMissing, LocalErase, Yield
    <2>2. ~Scanning(d)
      BY <1>6, CallTypes
      DEF CallShape, Scanning, Find, Applying, LocalPut, PutAssign, PutInsert,
          PutExhausted, LocalGet, GetFound, GetMissing, LocalErase
    <2> QED
      BY <2>1, <2>2 DEF GoesOn
  <1> QED
    BY <1>1, <1>2, <1>3, <1>4, <1>5, <1>6 DEF Step

\* To another process's scan it is a step that leaves everything as it is.
LEMMA OtherScan ==
    ASSUME IndInv, NEW d \in Clients, Start(d) \/ Step(d), NEW c \in Clients \ {d}
    PROVE  got'[c] = got[c] /\ call'[c] = call[c] /\ Unread(c)' = Unread(c)
  <1>1. /\ call'[c] = call[c] /\ target'[c] = target[c] /\ stage'[c] = stage[c]
    BY Frame DEF IndInv
  <1>2. got'[c] = got[c]
    BY ScanStep DEF IndInv, TypeOK, Reads, Begins, Ends, GoesOn
  <1> QED
    BY <1>1, <1>2 DEF Unread, LegsAfter

\* What Record does: the history takes in the map as it is after the step.
LEMMA RecordEffect ==
    ASSUME Record, TypeOK', ever \in [Clients -> SUBSET Pairs],
           always \in [Clients -> SUBSET Pairs]
    PROVE  /\ HistorySound'
           /\ \A c \in Clients : Scanning(c)' =>
                 /\ ever[c] \subseteq ever'[c] /\ store' \subseteq ever'[c]
                 /\ Scanning(c) => always'[c] = always[c] \cap store'
  <1> DEFINE E(c) == IF Scanning(c)' THEN ever[c] \cup store' ELSE {}
             A(c) == IF Scanning(c)'
                     THEN IF Scanning(c) THEN always[c] \cap store' ELSE store'
                     ELSE {}
  <1>1. store' \subseteq Pairs
    BY DEF store, TypeOK
  <1>2. ever' = [c \in Clients |-> E(c)] /\ always' = [c \in Clients |-> A(c)]
    BY DEF Record
  <1>3. \A c \in Clients : E(c) \in SUBSET Pairs /\ A(c) \in SUBSET Pairs
    BY <1>1
  <1>4. \A c \in Clients : ever'[c] = E(c) /\ always'[c] = A(c)
    BY <1>2
  <1>5. ever' \in [Clients -> SUBSET Pairs] /\ always' \in [Clients -> SUBSET Pairs]
    <2> HIDE DEF E, A
    <2> QED
      BY <1>2, <1>3
  <1>6. \A c \in Clients : Scanning(c)' => always'[c] \subseteq store'
    BY <1>4
  <1> QED
    BY <1>4, <1>5, <1>6 DEF HistorySound, Pairs

\* A shard has one node per key, the one at home there, and so has a result.
LEMMA CollectedStep ==
    ASSUME IndInv, CollectedAtHome, NEW d \in Clients, Start(d) \/ Step(d)
    PROVE  CollectedAtHome'
  <1> USE DEF IndInv, TypeOK, RpcTypeOK
  <1> SUFFICES ASSUME NEW c \in Clients, NEW s \in Servers
               PROVE  /\ ~Scanning(c)' \/ s \in Unread(c)' => got'[c][s] = {}
                      /\ \A p \in got'[c][s] :
                            /\ HomeOf(p) = s
                            /\ \A q \in got'[c][s] : q[1] = p[1] => q = p
    BY DEF CollectedAtHome, HomeOf
  <1>1. CASE /\ got'[c][s] = got[c][s] /\ call'[c] = call[c]
             /\ Scanning(c) => (s \in Unread(c)' => s \in Unread(c))
    BY <1>1 DEF CollectedAtHome, Scanning
  <1>2. CASE c # d
    BY <1>1, <1>2, OtherScan
  <1>3. CASE c = d
    <2>1. CASE Reads(d)
      <3>1. \A p \in shard[target[d]] :
               /\ HomeOf(p) = target[d]
               /\ \A q \in shard[target[d]] : q[1] = p[1] => q = p
        <4>1. shard[target[d]] \subseteq Pairs
          OBVIOUS
        <4> QED
          BY <4>1 DEF OneHome, HomeOf
      <3>2. CASE s = target[d]
        <4>1. got[c][s] = {}
          BY <1>3, <2>1, <3>2 DEF Reads, CollectedAtHome
        <4>2. got'[c][s] = shard[target[d]] /\ Scanning(c)' /\ s \notin Unread(c)'
          BY <1>3, <2>1, <3>2, <4>1 DEF Reads, Scanning
        <4> QED
          BY <3>1, <3>2, <4>2
      <3>3. CASE s # target[d]
        BY <1>1, <1>3, <2>1, <3>3 DEF Reads
      <3> QED
        BY <3>2, <3>3
    <2>2. CASE Begins(d)
      BY <1>3, <2>2 DEF Begins, CollectedAtHome
    <2>3. CASE Ends(d)
      <3>1. got'[c][s] = {}
        BY <1>3, <2>3 DEF Ends, NothingRead
      <3> QED
        BY <3>1
    <2>4. CASE GoesOn(d)
      BY <1>1, <1>3, <2>4 DEF GoesOn
    <2> QED
      BY <2>1, <2>2, <2>3, <2>4, ScanStep
  <1> QED
    BY <1>2, <1>3

\* The history covers what the scans have read.
LEMMA SoundStep ==
    ASSUME IndInv, IndInv', CollectedAtHome, CollectedAtHome', HistorySound, Record,
           ScanSound, NEW d \in Clients, Start(d) \/ Step(d)
    PROVE  ScanSound'
  <1> USE DEF IndInv
  <1> SUFFICES ASSUME NEW c \in Clients, NEW s \in Servers, NEW p \in got'[c][s]
               PROVE  p \in ever'[c]
    BY DEF ScanSound, Collected
  <1>1. Scanning(c)'
    BY DEF CollectedAtHome
  <1>2. ever[c] \subseteq ever'[c] /\ store' \subseteq ever'[c]
    BY <1>1, RecordEffect DEF HistorySound
  <1>3. CASE p \in got[c][s]
    BY <1>2, <1>3 DEF ScanSound, Collected
  <1>4. CASE p \notin got[c][s]
    <2>1. c = d
      BY <1>4, OtherScan
    <2>2. Reads(d)
      BY <1>1, <1>4, <2>1, ScanStep DEF Begins, Ends, GoesOn
    <2>3. s = target[d] /\ p \in shard'[s]
      BY <1>4, <2>1, <2>2 DEF Reads, TypeOK
    <2> QED
      BY <1>2, <2>3 DEF store
  <1> QED
    BY <1>3, <1>4

\* The scans have what the history has kept of the servers they have read.
LEMMA FoundStep ==
    ASSUME IndInv, IndInv', HistorySound, Record, FoundSoFar,
           NEW d \in Clients, Start(d) \/ Step(d)
    PROVE  FoundSoFar'
  <1> USE DEF IndInv, TypeOK, RpcTypeOK
  <1> SUFFICES ASSUME NEW c \in Clients, Scanning(c)', NEW p \in always'[c],
                      HomeOf(p) \notin Unread(c)'
               PROVE  p \in got'[c][HomeOf(p)]
    BY DEF FoundSoFar, HomeOf
  <1>1. HistorySound' /\ (Scanning(c) => always'[c] \subseteq always[c])
    BY RecordEffect DEF HistorySound
  <1>2. PICK s \in Servers : p \in shard'[s]
    BY <1>1 DEF HistorySound, store
  <1>3. s = HomeOf(p)
    <2>1. p \in Pairs
      BY <1>2
    <2> QED
      BY <1>2, <2>1 DEF OneHome, HomeOf
  <1>4. CASE Scanning(c) /\ got'[c][s] = got[c][s] /\ s \notin Unread(c)
    BY <1>1, <1>3, <1>4 DEF FoundSoFar
  <1>5. CASE c # d
    <2>1. got'[c] = got[c] /\ Scanning(c) /\ Unread(c)' = Unread(c)
      BY <1>5, OtherScan DEF Scanning
    <2> QED
      BY <1>3, <1>4, <2>1
  <1>6. CASE c = d
    <2>1. CASE Reads(d)
      <3>1. CASE s = target[d]
        <4>1. shard'[s] \subseteq got'[c][s]
          BY <1>6, <2>1, <3>1 DEF Reads
        <4> QED
          BY <1>2, <1>3, <4>1
      <3>2. CASE s # target[d]
        BY <1>3, <1>4, <1>6, <2>1, <3>2 DEF Reads
      <3> QED
        BY <3>1, <3>2
    <2>2. CASE Begins(d)
      BY <1>3, <1>6, <2>2 DEF Begins
    <2>3. CASE Ends(d)
      BY <1>6, <2>3 DEF Ends
    <2>4. CASE GoesOn(d)
      <3>1. Scanning(c)
        BY <1>6, <2>4 DEF GoesOn, Scanning
      <3> QED
        BY <1>3, <1>4, <1>6, <2>4, <3>1 DEF GoesOn
    <2> QED
      BY <2>1, <2>2, <2>3, <2>4, ScanStep
  <1> QED
    BY <1>5, <1>6

\* The strengthening of what a GetAllData returns is an invariant.
THEOREM ScansInductive == ScanSpec => []ScanInv
  <1>1. ScanInit /\ IndInv => ScanInv
    <2> SUFFICES ASSUME ScanInit, IndInv PROVE ScanInv
      OBVIOUS
    <2>1. \A c \in Clients : ~Scanning(c)
      BY CallTypes DEF ScanInit, Init, Scanning
    <2>2. \A c \in Clients, s \in Servers : got[c][s] = {}
      BY DEF ScanInit, Init, NothingRead
    <2> QED
      BY <2>1, <2>2
      DEF ScanInit, ScanInv, CollectedAtHome, HistorySound, FoundSoFar, ScanSound,
          Collected
  <1>2. ScanInv /\ IndInv' /\ [ScanNext]_scanVars => ScanInv'
    <2> SUFFICES ASSUME ScanInv, IndInv', [ScanNext]_scanVars PROVE ScanInv'
      OBVIOUS
    <2> USE DEF ScanInv
    <2>1. CASE UNCHANGED scanVars
      <3>1. \A c \in Clients : /\ Unread(c)' = Unread(c)
                               /\ Scanning(c)' <=> Scanning(c)
        BY <2>1 DEF scanVars, vars, Unread, LegsAfter, Scanning
      <3>2. always' = always /\ got' = got
        BY <2>1 DEF scanVars, vars
      <3>3. FoundSoFar'
        BY <3>1, <3>2 DEF FoundSoFar, HomeOf
      <3>4. CollectedAtHome' /\ ScanSound'
        BY <2>1, <3>1 DEF scanVars, vars, CollectedAtHome, ScanSound, Collected, HomeOf
      <3>5. HistorySound'
        BY <2>1 DEF scanVars, vars, HistorySound, Scanning, store
      <3> QED
        BY <3>3, <3>4, <3>5
    <2>2. CASE Next /\ Record
      <3>1. PICK d \in Clients : Start(d) \/ Step(d)
        BY <2>2 DEF Next
      <3>2. CollectedAtHome'
        BY <3>1, CollectedStep
      <3>3. HistorySound'
        BY <2>2, RecordEffect DEF IndInv, HistorySound
      <3> QED
        BY <2>2, <3>1, <3>2, <3>3, SoundStep, FoundStep
    <2> QED
      BY <2>1, <2>2 DEF ScanNext
  <1> QED
    BY <1>1, <1>2, Inductive, ScanSpecIsSpec, PTL DEF ScanSpec

\* Every pair that a GetAllData has read was in the map at some time since it
\* was called.
THEOREM ScansAreSound == ScanSpec => []ScanSound
  <1>1. ScanInv => ScanSound
    BY DEF ScanInv
  <1> QED
    BY <1>1, ScansInductive, PTL

\* When it returns, it has every pair that was in the map all the time.
THEOREM ScansFindAll == ScanSpec => []ScanFindsAll
  <1>1. ScanInv => ScanFindsAll
    <2> SUFFICES ASSUME ScanInv, NEW c \in Clients, ScanComplete(c),
                        NEW p \in always[c]
                 PROVE  p \in Collected(c)
      BY DEF ScanFindsAll
    <2>1. Unread(c) = {} /\ Scanning(c)
      BY DEF ScanComplete, Unread
    <2>2. p \in got[c][HomeOf(p)]
      BY <2>1 DEF ScanInv, FoundSoFar
    <2>3. HomeOf(p) \in Servers
      <3>1. p \in Pairs
        BY DEF ScanInv, HistorySound
      <3> QED
        BY <3>1, RouteInServers DEF HomeOf, Pairs
    <2> QED
      BY <2>2, <2>3 DEF Collected
  <1> QED
    BY <1>1, ScansInductive, PTL

\* And it never has two pairs of a key, from whichever servers.
THEOREM ScansReadKeysOnce == ScanSpec => []ScanKeysOnce
  <1>1. ScanInv => ScanKeysOnce
    BY DEF ScanInv, CollectedAtHome, ScanKeysOnce, HomeOf
  <1> QED
    BY <1>1, ScansInductive, PTL
=============================================================================
