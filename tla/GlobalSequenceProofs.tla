------------------------ MODULE GlobalSequenceProofs ------------------------
(***************************************************************************)
(* Theorems about GlobalSequence, for any number of processes, servers,    *)
(* worker threads and calls.                                               *)
(***************************************************************************)
EXTENDS GlobalSequence, SharedProofs

\* A call asks some server, the caller's own or a named one.
LEMMA StartAsks ==
    ASSUME NEW c \in Clients, Start(c)
    PROVE  \E s \in Servers : GetNextSequenceServer(c, s)
  BY PlacementAssumption DEF Start, GetNextSequence

\* The types and the lock discipline hold initially.
LEMMA InitBasics == Init => TypeOK /\ LockDiscipline
  <1> SUFFICES ASSUME Init PROVE TypeOK /\ LockDiscipline
    OBVIOUS
  <1> USE DEF Init, RpcInit
  <1>1. RpcTypeOK
    BY PlacementAssumption DEF RpcTypeOK, Stages
  <1>2. LockDiscipline
    BY FreeAssumption DEF LockDiscipline, Holding
  <1> QED
    BY <1>1, <1>2, MaxCallsAssumption DEF TypeOK

\* Every step keeps them.
LEMMA StepBasics ==
    ASSUME TypeOK, LockDiscipline, NEW c \in Clients, Start(c) \/ Step(c)
    PROVE  TypeOK' /\ LockDiscipline'
  <1> USE DEF TypeOK
  <1>1. CASE Start(c)
    <2>1. PICK s \in Servers : GetNextSequenceServer(c, s)
      BY <1>1, StartAsks
    <2>2. RpcTypeOK' /\ LockDiscipline'
      BY <2>1, DispatchType, DispatchLocks DEF GetNextSequenceServer, Holding
    <2>3. /\ made' \in [Clients -> 0 .. MaxCalls]
          /\ since' \in [Clients -> Nat]
      BY <2>1, MaxCallsAssumption DEF GetNextSequenceServer
    <2> QED
      BY <2>1, <2>2, <2>3 DEF GetNextSequenceServer
  <1>2. CASE ServeRequest(c) \/ Lock(c) \/ Unlock(c)
    BY <1>2, RpcStepType, RpcStepLocks
       DEF ServeRequest, Lock, Unlock, sequenceVars
  <1>3. CASE ReadValue(c)
    <2>1. RpcTypeOK' /\ LockDiscipline'
      BY <1>3, RpcStepType, RpcStepLocks DEF ReadValue, Holding, Stages
    <2> QED
      BY <1>3, <2>1 DEF ReadValue, RpcTypeOK
  <1>4. CASE Increment(c)
    <2>1. RpcTypeOK' /\ LockDiscipline'
      BY <1>4, RpcStepType, RpcStepLocks DEF Increment, Holding, Stages
    <2>2. target[c] \in Servers /\ copy[c] + 1 \in Nat
      BY DEF RpcTypeOK
    <2>3. issued' \in [Servers -> Seq(Nat)]
      BY <1>4, <2>2 DEF Increment
    <2> QED
      BY <1>4, <2>1, <2>2, <2>3 DEF Increment
  <1>5. CASE Return(c)
    BY <1>5, RpcStepType, RpcStepLocks DEF Return
  <1> QED
    BY <1>1, <1>2, <1>3, <1>4, <1>5 DEF Step

\* Every reachable state is well typed, and the mutexes are exclusive.
THEOREM Basics == Spec => [](TypeOK /\ LockDiscipline)
  <1>1. TypeOK /\ LockDiscipline /\ [Next]_vars => (TypeOK /\ LockDiscipline)'
    <2> SUFFICES ASSUME TypeOK, LockDiscipline, [Next]_vars
                 PROVE  TypeOK' /\ LockDiscipline'
      OBVIOUS
    <2>1. CASE UNCHANGED vars
      BY <2>1 DEF vars, TypeOK, RpcTypeOK, LockDiscipline
    <2> QED
      BY <2>1, StepBasics DEF Next
  <1> QED
    BY InitBasics, <1>1, PTL DEF Spec

-----------------------------------------------------------------------------
\* What the increment does to the state the invariant speaks of: one number
\* more is issued, the next one, and every other server is left alone.
LEMMA IncrementIssuesNext ==
    ASSUME IndInv, NEW c \in Clients, Increment(c)
    PROVE  /\ target[c] \in Servers /\ stage[c] = "apply"
           /\ Len(issued'[target[c]]) = Len(issued[target[c]]) + 1
           /\ issued'[target[c]][Len(issued[target[c]]) + 1]
                 = Len(issued[target[c]]) + 1
           /\ \A i \in DOMAIN issued[target[c]] :
                 issued'[target[c]][i] = issued[target[c]][i]
           /\ value'[target[c]] = Len(issued[target[c]]) + 1
           /\ res'[c] = Len(issued[target[c]]) + 1
           /\ \A s \in Servers \ {target[c]} :
                 issued'[s] = issued[s] /\ value'[s] = value[s]
  <1>1. target[c] \in Servers /\ stage[c] = "apply"
    BY DEF IndInv, TypeOK, RpcTypeOK, Increment
  <1>2. copy[c] = Len(issued[target[c]])
    BY <1>1 DEF IndInv, CopyFresh, ValueCounts
  <1>3. issued[target[c]] \in Seq(Nat) /\ copy[c] + 1 \in Nat
    BY <1>1 DEF IndInv, TypeOK
  <1>4. issued'[target[c]] = Append(issued[target[c]], copy[c] + 1)
    BY <1>1 DEF IndInv, TypeOK, Increment
  <1>5. /\ value'[target[c]] = copy[c] + 1
        /\ res'[c] = copy[c] + 1
        /\ \A s \in Servers \ {target[c]} :
              issued'[s] = issued[s] /\ value'[s] = value[s]
    BY <1>1 DEF IndInv, TypeOK, Increment
  <1> QED
    BY <1>1, <1>2, <1>3, <1>4, <1>5

\* The numbers, the counter and the copies of a step that issues no number.
LEMMA QuietStep ==
    ASSUME IndInv, NEW c \in Clients, Start(c) \/ Step(c), ~Increment(c)
    PROVE  issued' = issued /\ value' = value
  BY StartAsks
     DEF Step, ServeRequest, Lock, Unlock, ReadValue, Return, sequenceVars,
         GetNextSequenceServer

\* A step of process c leaves the calls of the others alone.
LEMMA Frame ==
    ASSUME IndInv, NEW c \in Clients, Start(c) \/ Step(c),
           NEW d \in Clients \ {c}
    PROVE  /\ stage'[d] = stage[d] /\ target'[d] = target[d]
           /\ copy'[d] = copy[d] /\ res'[d] = res[d] /\ since'[d] = since[d]
  <1> USE DEF IndInv, TypeOK, RpcTypeOK
  <1>1. CASE Start(c)
    <2>1. PICK s \in Servers : GetNextSequenceServer(c, s)
      BY <1>1, StartAsks
    <2> QED
      BY <2>1 DEF GetNextSequenceServer, Dispatch
  <1>2. CASE ServeRequest(c) \/ Lock(c) \/ Unlock(c)
    BY <1>2 DEF ServeRequest, Lock, Unlock, Accept, Acquire, Release,
                sequenceVars
  <1>3. CASE ReadValue(c) \/ Increment(c)
    BY <1>3 DEF ReadValue, Increment, Advance
  <1>4. CASE Return(c)
    BY <1>4 DEF Return, Finish
  <1> QED
    BY <1>1, <1>2, <1>3, <1>4 DEF Step

-----------------------------------------------------------------------------
\* The counter still counts the numbers, and they are still 1, 2, 3, ...
LEMMA CountStep ==
    ASSUME IndInv, NEW c \in Clients, Start(c) \/ Step(c)
    PROVE  ValueCounts' /\ NumbersInOrder'
  <1>1. CASE ~Increment(c)
    BY <1>1, QuietStep DEF IndInv, ValueCounts, NumbersInOrder
  <1>2. CASE Increment(c)
    <2> DEFINE n == Len(issued[target[c]])
    <2>1. n \in Nat /\ DOMAIN issued[target[c]] = 1 .. n
      BY <1>2, IncrementIssuesNext DEF IndInv, TypeOK
    <2>2. issued'[target[c]] \in Seq(Nat)
      BY <1>2, IncrementIssuesNext, StepBasics DEF IndInv, TypeOK
    <2>3. DOMAIN issued'[target[c]] = 1 .. (n + 1)
      BY <1>2, <2>2, IncrementIssuesNext
    <2>4. \A i \in 1 .. (n + 1) : issued'[target[c]][i] = i
      <3> TAKE i \in 1 .. (n + 1)
      <3>1. CASE i = n + 1
        BY <1>2, <3>1, IncrementIssuesNext
      <3>2. CASE i # n + 1
        <4>1. i \in DOMAIN issued[target[c]]
          BY <2>1, <3>2
        <4> QED
          BY <1>2, <4>1, IncrementIssuesNext DEF IndInv, NumbersInOrder
      <3> QED
        BY <3>1, <3>2
    <2>5. \A s \in Servers \ {target[c]} :
             issued'[s] = issued[s] /\ value'[s] = value[s]
      BY <1>2, IncrementIssuesNext
    <2>6. value'[target[c]] = Len(issued'[target[c]])
      BY <1>2, IncrementIssuesNext
    <2>7. NumbersInOrder'
      BY <2>3, <2>4, <2>5 DEF IndInv, NumbersInOrder
    <2>8. ValueCounts'
      BY <2>5, <2>6 DEF IndInv, ValueCounts
    <2> QED
      BY <2>7, <2>8
  <1> QED
    BY <1>1, <1>2

\* Nobody changes the counter between another call's read and its write.
LEMMA CopyStep ==
    ASSUME IndInv, NEW c \in Clients, Start(c) \/ Step(c)
    PROVE  CopyFresh'
  <1> SUFFICES ASSUME NEW d \in Clients, stage'[d] = "apply"
               PROVE  copy'[d] = value'[target'[d]]
    BY DEF CopyFresh
  <1>a. TypeOK /\ RpcTypeOK /\ LockDiscipline
    BY DEF IndInv, TypeOK
  <1>1. CASE d # c
    <2>1. /\ stage[d] = "apply" /\ target'[d] = target[d] /\ copy'[d] = copy[d]
          /\ target[d] \in Servers
      BY <1>1, <1>a, Frame DEF RpcTypeOK
    <2>2. value'[target[d]] = value[target[d]]
      <3>1. CASE ~Increment(c)
        BY <3>1, QuietStep
      <3>2. CASE Increment(c)
        <4>1. target[c] # target[d]
          BY <1>1, <1>a, <2>1, <3>2, IncrementIssuesNext, Exclusion DEF Holding
        <4> QED
          BY <2>1, <3>2, <4>1, IncrementIssuesNext
      <3> QED
        BY <3>1, <3>2
    <2> QED
      BY <2>1, <2>2 DEF IndInv, CopyFresh
  <1>2. CASE d = c
    <2> USE <1>2
    <2>1. ReadValue(c)
      <3>1. ~Start(c)
        BY <1>a, StartAsks DEF GetNextSequenceServer, Dispatch, RpcTypeOK
      <3>2. ~(ServeRequest(c) \/ Lock(c) \/ Unlock(c) \/ Return(c) \/ Increment(c))
        BY <1>a DEF RpcTypeOK, ServeRequest, Lock, Unlock, Return, Increment,
                    Accept, Acquire, Release, Finish, Advance
      <3> QED
        BY <3>1, <3>2 DEF Step
    <2> QED
      BY <1>a, <2>1 DEF TypeOK, RpcTypeOK, ReadValue, Advance
  <1> QED
    BY <1>1, <1>2

\* No server's numbers become fewer.
LEMMA IssuedGrows ==
    ASSUME IndInv, NEW c \in Clients, Start(c) \/ Step(c), NEW s \in Servers
    PROVE  Len(issued[s]) <= Len(issued'[s]) /\ Len(issued[s]) \in Nat
  <1>1. Len(issued[s]) \in Nat
    BY DEF IndInv, TypeOK
  <1>2. CASE ~Increment(c)
    BY <1>1, <1>2, QuietStep
  <1>3. CASE Increment(c)
    BY <1>1, <1>3, IncrementIssuesNext
  <1> QED
    BY <1>2, <1>3, <1>1

\* A call began when there were no more numbers than now, and what it returns
\* is greater than the number of those.
LEMMA SinceStep ==
    ASSUME IndInv, NEW c \in Clients, Start(c) \/ Step(c)
    PROVE  BegunBefore' /\ LaterCallsGetGreaterNumbers'
  <1>a. TypeOK /\ RpcTypeOK
    BY DEF IndInv, TypeOK
  <1>b. \A d \in Clients : target[d] \in Servers /\ since[d] \in Nat
    BY <1>a DEF TypeOK, RpcTypeOK
  <1>c. \A d \in Clients : stage[d] # "idle" => since[d] <= Len(issued[target[d]])
    BY DEF IndInv, BegunBefore
  <1>d. \A d \in Clients : stage[d] \in {"unlock", "reply"} => res[d] > since[d]
    BY DEF IndInv, LaterCallsGetGreaterNumbers
  <1> DEFINE Kept(d) ==
        /\ stage'[d] # "idle" => since'[d] <= Len(issued'[target'[d]])
        /\ stage'[d] \in {"unlock", "reply"} => res'[d] > since'[d]
  <1>1. ASSUME NEW d \in Clients, d # c PROVE Kept(d)
    BY <1>1, <1>b, <1>c, <1>d, Frame, IssuedGrows
  <1>2. Kept(c)
    <2>1. CASE Start(c)
      <3>1. PICK s \in Servers : GetNextSequenceServer(c, s)
        BY <2>1, StartAsks
      <3>2. target'[c] = s /\ stage'[c] \in {"entry", "sent"}
        BY <1>a, <3>1, DispatchType
           DEF GetNextSequenceServer, Dispatch, RpcTypeOK
      <3>3. since'[c] = Len(issued[s]) /\ issued' = issued
        BY <1>a, <3>1 DEF TypeOK, GetNextSequenceServer
      <3>4. Len(issued[s]) \in Nat
        BY <1>a DEF TypeOK
      <3> QED
        BY <3>2, <3>3, <3>4
    <2>2. CASE ServeRequest(c) \/ Lock(c) \/ ReadValue(c) \/ Unlock(c)
      <3>1. /\ issued' = issued /\ since' = since /\ res' = res /\ target' = target
            /\ stage[c] # "idle"
            /\ stage'[c] \in {"unlock", "reply"} => stage[c] \in {"unlock", "reply"}
        BY <2>2, <1>a
           DEF ServeRequest, Lock, ReadValue, Unlock, Accept, Acquire, Advance,
               Release, RpcTypeOK, sequenceVars
      <3> QED
        BY <1>c, <1>d, <3>1
    <2>3. CASE Increment(c)
      <3>1. target' = target /\ since' = since /\ stage[c] # "idle"
        BY <2>3 DEF Increment, Advance
      <3>2. res'[c] = Len(issued[target[c]]) + 1
        BY <2>3, IncrementIssuesNext
      <3>3. /\ Len(issued[target[c]]) <= Len(issued'[target[c]])
            /\ Len(issued[target[c]]) \in Nat /\ Len(issued'[target[c]]) \in Nat
        BY <2>3, <1>b, IssuedGrows, IncrementIssuesNext
      <3> QED
        BY <1>b, <1>c, <3>1, <3>2, <3>3
    <2>4. CASE Return(c)
      <3>1. stage'[c] = "idle"
        BY <2>4, <1>a DEF Return, Finish, RpcTypeOK
      <3> QED
        BY <3>1
    <2> QED
      BY <2>1, <2>2, <2>3, <2>4 DEF Step
  <1>3. \A d \in Clients : Kept(d)
    BY <1>1, <1>2
  <1> QED
    BY <1>3 DEF BegunBefore, LaterCallsGetGreaterNumbers

\* The conjunction of all of this holds in every reachable state.
THEOREM Inductive == Spec => []IndInv
  <1>1. Init => IndInv
    <2> SUFFICES ASSUME Init PROVE IndInv
      OBVIOUS
    <2>1. TypeOK /\ LockDiscipline
      BY InitBasics
    <2>2. ValueCounts /\ NumbersInOrder
      BY DEF Init, ValueCounts, NumbersInOrder
    <2>3. CopyFresh /\ BegunBefore /\ LaterCallsGetGreaterNumbers
      BY DEF Init, RpcInit, CopyFresh, BegunBefore, LaterCallsGetGreaterNumbers
    <2> QED
      BY <2>1, <2>2, <2>3 DEF IndInv
  <1>2. IndInv /\ [Next]_vars => IndInv'
    <2> SUFFICES ASSUME IndInv, [Next]_vars PROVE IndInv'
      OBVIOUS
    <2>1. CASE UNCHANGED vars
      BY <2>1 DEF vars, IndInv, TypeOK, RpcTypeOK, LockDiscipline, ValueCounts,
                  CopyFresh, BegunBefore, NumbersInOrder,
                  LaterCallsGetGreaterNumbers
    <2>2. ASSUME NEW c \in Clients, Start(c) \/ Step(c) PROVE IndInv'
      <3>1. TypeOK' /\ LockDiscipline'
        BY <2>2, StepBasics DEF IndInv
      <3>2. ValueCounts' /\ NumbersInOrder' /\ CopyFresh'
        BY <2>2, CountStep, CopyStep
      <3>3. BegunBefore' /\ LaterCallsGetGreaterNumbers'
        BY <2>2, SinceStep
      <3> QED
        BY <3>1, <3>2, <3>3 DEF IndInv
    <2> QED
      BY <2>1, <2>2 DEF Next
  <1> QED
    BY <1>1, <1>2, PTL DEF Spec

\* LocalGetNextSequence hands out each number once and leaves none out, in
\* whatever mixture of processes and worker threads it is executed.
THEOREM SequenceHasNoGapsOrRepeats == Spec => []NumbersInOrder
  <1>1. IndInv => NumbersInOrder
    BY DEF IndInv
  <1> QED
    BY <1>1, Inductive, PTL

\* GetNextSequence respects real time: a call that begins after another has
\* returned gets the greater number.
THEOREM SequenceIsMonotonic == Spec => []LaterCallsGetGreaterNumbers
  <1>1. IndInv => LaterCallsGetGreaterNumbers
    BY DEF IndInv
  <1> QED
    BY <1>1, Inductive, PTL
=============================================================================
