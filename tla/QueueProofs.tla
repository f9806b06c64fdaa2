----------------------------- MODULE QueueProofs -----------------------------
(***************************************************************************)
(* Theorems about Queue and QueueConsumer, for any number of processes,    *)
(* servers, worker threads, values, rounds and any size of the segment:    *)
(* the inductive invariant, that the queues implement AtomicQueue, and     *)
(* that the test program's pops succeed.                                   *)
(***************************************************************************)
EXTENDS QueueConsumer, SharedProofs

AllCalls == QueueCalls \cup WaitCalls

\* Every value a call record can take.
LEMMA CallTypes ==
    /\ \A s \in Servers, v \in Vals :
          [op |-> "Push", server |-> s, val |-> v] \in AllCalls
    /\ \A s \in Servers : /\ [op |-> "Pop", server |-> s] \in AllCalls
                          /\ [op |-> "Size", server |-> s] \in AllCalls
                          /\ [op |-> "WaitForElement", server |-> s] \in AllCalls
    /\ \A cl \in AllCalls : cl.server \in Servers
    /\ \A cl \in QueueCalls : /\ cl.op \in {"Push", "Pop", "Size"}
                              /\ cl.op = "Push" => cl.val \in Vals
    /\ \A cl \in WaitCalls : cl.op = "WaitForElement"
    /\ NoCall.op = "none" /\ NoCall \notin AllCalls
  <1> USE DEF AllCalls, QueueCalls, WaitCalls, NoCall
  <1>1. \A s \in Servers, v \in Vals :
           [op |-> "Push", server |-> s, val |-> v] \in AllCalls
    OBVIOUS
  <1>2. \A s \in Servers : /\ [op |-> "Pop", server |-> s] \in AllCalls
                           /\ [op |-> "Size", server |-> s] \in AllCalls
                           /\ [op |-> "WaitForElement", server |-> s] \in AllCalls
    OBVIOUS
  <1>3. \A cl \in AllCalls : cl.server \in Servers
    OBVIOUS
  <1>4. \A cl \in QueueCalls : /\ cl.op \in {"Push", "Pop", "Size"}
                               /\ cl.op = "Push" => cl.val \in Vals
    OBVIOUS
  <1>5. \A cl \in WaitCalls : cl.op = "WaitForElement"
    OBVIOUS
  <1>6. NoCall.op = "none"
    OBVIOUS
  <1>7. \A cl \in AllCalls : cl.op # "none"
    OBVIOUS
  <1> HIDE DEF AllCalls, QueueCalls, WaitCalls, NoCall
  <1> QED
    BY <1>1, <1>2, <1>3, <1>4, <1>5, <1>6, <1>7

\* The results that the functions return.
LEMMA ResultTypes ==
    /\ NoResult \in Results
    /\ \A ok \in {"true", "false", "bad_alloc"} :
          [NoResult EXCEPT !.ok = ok] \in Results
    /\ \A v \in Vals : [NoResult EXCEPT !.ok = "true", !.val = v] \in Results
    /\ \A n \in 0 .. Capacity :
          [NoResult EXCEPT !.ok = "true", !.size = n] \in Results
  <1>1. 0 \in 0 .. Capacity /\ DefaultVal \in Vals
    BY QueueDataAssumption
  <1>2. NoResult \in Results
    BY <1>1 DEF Results, NoResult
  <1>3. \A r \in Results, ok \in {"true", "false", "bad_alloc"} :
           [r EXCEPT !.ok = ok] \in Results
    BY DEF Results
  <1>4. \A r \in Results, v \in Vals : [r EXCEPT !.ok = "true", !.val = v] \in Results
    BY DEF Results
  <1>5. \A r \in Results, n \in 0 .. Capacity :
           [r EXCEPT !.ok = "true", !.size = n] \in Results
    BY DEF Results
  <1> QED
    BY <1>2, <1>3, <1>4, <1>5

\* Whatever a process calls is addressed to a server.
LEMMA StartInvokes ==
    ASSUME NEW c \in Clients, Start(c)
    PROVE  \E cl \in AllCalls : Invoke(c, cl)
  BY CallTypes DEF Start, Push, Pop, Size, WaitForElement

-----------------------------------------------------------------------------
\* Calling an operation keeps the types.
LEMMA StartType ==
    ASSUME TypeOK, NEW c \in Clients, Start(c)
    PROVE  TypeOK'
  <1>1. PICK cl \in AllCalls : Invoke(c, cl)
    BY StartInvokes
  <1>2. RpcTypeOK'
    BY <1>1, CallTypes, DispatchType DEF TypeOK, Invoke
  <1>3. call' \in [Clients -> QueueCalls \cup WaitCalls \cup {NoCall}]
    BY <1>1 DEF TypeOK, Invoke, AllCalls
  <1> QED
    BY <1>1, <1>2, <1>3 DEF TypeOK, Invoke

\* So does every step of a call under way: a new element has room, and an
\* element is taken only from a queue that has one.
LEMMA StepType ==
    ASSUME TypeOK, RoomReserved, FrontFresh, NEW c \in Clients, Step(c)
    PROVE  TypeOK'
  <1> USE DEF TypeOK
  <1>0. {"read", "apply", "unlock", "reply"} \subseteq Stages
    BY DEF Stages
  <1>a. target[c] \in Servers
    BY DEF RpcTypeOK
  <1>b. Mine(c) \in Seq(Vals) /\ Len(Mine(c)) \in 0 .. Capacity
    BY <1>a, QueueDataAssumption DEF Mine
  <1>c. RpcTypeOK'
    BY <1>0, RpcStepType
    DEF Step, ServeRequest, Lock, LocalPush, PushReserve, PushExhausted,
        PushBack, LocalPop, PopFront, PopRemove, PopEmpty, LocalSize, Yield,
        LocalWaitForElement, WaitSeesElement, WaitSpins, vars, RpcTypeOK,
        Unlock, Return
  <1>1. CASE ServeRequest(c) \/ Lock(c) \/ Unlock(c)
    BY <1>1, <1>c DEF ServeRequest, Lock, Unlock, queueVars
  <1>2. CASE PushReserve(c)
    BY <1>2, <1>c DEF PushReserve, queueVars
  <1>3. CASE PushExhausted(c) \/ PopEmpty(c)
    <2>1. res' \in [Clients -> Results]
      BY <1>3, ResultTypes DEF PushExhausted, PopEmpty, Yield
    <2> QED
      BY <1>3, <1>c, <2>1 DEF PushExhausted, PopEmpty, Yield
  <1>4. CASE PushBack(c)
    <2>1. call[c].op = "Push" /\ Len(Mine(c)) < Capacity
      BY <1>4 DEF PushBack, RoomReserved, At
    <2>2. call[c].val \in Vals
      BY <2>1, CallTypes
    <2>3. queue' = [queue EXCEPT ![target[c]] = Append(Mine(c), call[c].val)]
      BY <1>4 DEF PushBack, Mine
    <2>4. Append(Mine(c), call[c].val) \in Seq(Vals)
          /\ Len(Append(Mine(c), call[c].val)) = Len(Mine(c)) + 1
      BY <1>b, <2>2
    <2>5. /\ queue' \in [Servers -> Seq(Vals)]
          /\ \A s \in Servers : Len(queue'[s]) <= Capacity
      BY <1>a, <1>b, <2>1, <2>3, <2>4, QueueDataAssumption
    <2>6. res' \in [Clients -> Results]
      BY <1>4, ResultTypes DEF PushBack, Yield
    <2> QED
      BY <1>4, <1>c, <2>5, <2>6 DEF PushBack, Yield
  <1>5. CASE PopFront(c)
    <2>1. Head(Mine(c)) \in Vals
      BY <1>5, <1>b DEF PopFront
    <2> QED
      BY <1>5, <1>c, <2>1 DEF PopFront
  <1>6. CASE PopRemove(c)
    <2>1. Mine(c) # <<>>
      BY <1>6 DEF PopRemove, FrontFresh
    <2>2. queue' = [queue EXCEPT ![target[c]] = Tail(Mine(c))]
      BY <1>6 DEF PopRemove, Mine
    <2>3. Tail(Mine(c)) \in Seq(Vals) /\ Len(Tail(Mine(c))) = Len(Mine(c)) - 1
      BY <1>b, <2>1
    <2>4. /\ queue' \in [Servers -> Seq(Vals)]
          /\ \A s \in Servers : Len(queue'[s]) <= Capacity
      BY <1>a, <1>b, <2>2, <2>3, QueueDataAssumption
    <2>5. res' \in [Clients -> Results]
      BY <1>6, ResultTypes DEF PopRemove, Yield
    <2> QED
      BY <1>6, <1>c, <2>4, <2>5 DEF PopRemove, Yield
  <1>7. CASE LocalSize(c)
    <2>1. res' \in [Clients -> Results]
      BY <1>7, <1>b, ResultTypes DEF LocalSize, Yield
    <2> QED
      BY <1>7, <1>c, <2>1 DEF LocalSize, Yield
  <1>8. CASE WaitSeesElement(c)
    <2>1. \A r \in Results : [r EXCEPT !.ok = "true"] \in Results
      BY DEF Results
    <2>2. res' = [res EXCEPT ![c] = [res[c] EXCEPT !.ok = "true"]]
      BY <1>8 DEF WaitSeesElement
    <2>3. res' \in [Clients -> Results]
      BY <2>1, <2>2
    <2> QED
      BY <1>8, <1>c, <2>3 DEF WaitSeesElement
  <1>9. CASE WaitSpins(c)
    BY <1>9, <1>c DEF WaitSpins, vars
  <1>10. CASE Return(c)
    BY <1>10, <1>c, QueueDataAssumption, ResultTypes DEF Return
  <1> QED
    BY <1>1, <1>2, <1>3, <1>4, <1>5, <1>6, <1>7, <1>8, <1>9, <1>10
    DEF Step, LocalPush, LocalPop, LocalWaitForElement

-----------------------------------------------------------------------------
\* A step of process d leaves every other process's call alone, and changes no
\* queue but, in stage "apply", the one d addresses.
LEMMA Frame ==
    ASSUME TypeOK, NEW d \in Clients, Start(d) \/ Step(d)
    PROVE  /\ \A c \in Clients \ {d} :
                 /\ stage'[c] = stage[c] /\ target'[c] = target[c]
                 /\ call'[c] = call[c] /\ front'[c] = front[c] /\ res'[c] = res[c]
           /\ \A s \in Servers : \/ queue'[s] = queue[s]
                                 \/ s = target[d] /\ stage[d] = "apply"
  <1> USE DEF TypeOK, RpcTypeOK
  <1>1. CASE Start(d)
    <2>1. PICK cl \in AllCalls : Invoke(d, cl)
      BY <1>1, StartInvokes
    <2> QED
      BY <2>1 DEF Invoke, Dispatch
  <1>2. CASE ServeRequest(d) \/ Lock(d) \/ Unlock(d)
    BY <1>2 DEF ServeRequest, Accept, Lock, Acquire, Unlock, Release, queueVars
  <1>3. CASE LocalPush(d)
    BY <1>3 DEF LocalPush, PushReserve, PushExhausted, PushBack, Yield, Advance,
                At, queueVars
  <1>4. CASE LocalPop(d) \/ LocalSize(d)
    BY <1>4 DEF LocalPop, PopFront, PopRemove, PopEmpty, LocalSize, Yield,
                Advance, At
  <1>5. CASE LocalWaitForElement(d)
    BY <1>5 DEF LocalWaitForElement, WaitSeesElement, WaitSpins, Advance, vars
  <1>6. CASE Return(d)
    BY <1>6 DEF Return, Finish
  <1> QED
    BY <1>1, <1>2, <1>3, <1>4, <1>5, <1>6 DEF Step

\* The mutex of every queue is held by exactly the call inside its scoped_lock.
LEMMA LockStep ==
    ASSUME TypeOK, LockDiscipline, NEW d \in Clients, Start(d) \/ Step(d)
    PROVE  LockDiscipline'
  <1> USE DEF TypeOK
  <1>1. CASE Start(d)
    <2>1. PICK cl \in AllCalls : Invoke(d, cl)
      BY <1>1, StartInvokes
    <2> QED
      BY <2>1, CallTypes, DispatchLocks DEF Invoke, Holding
  <1>2. CASE ServeRequest(d) \/ Lock(d) \/ Unlock(d) \/ Return(d)
    BY <1>2, RpcStepLocks DEF ServeRequest, Lock, Unlock, Return
  <1>3. CASE LocalPush(d) \/ LocalPop(d) \/ LocalSize(d)
    <2>1. stage[d] \in Holding /\ \E next \in Holding : Advance(d, next)
      BY <1>3 DEF LocalPush, PushReserve, PushExhausted, PushBack, LocalPop,
                  PopFront, PopRemove, PopEmpty, LocalSize, Yield, At, Holding
    <2> QED
      BY <2>1, RpcStepLocks
  <1>4. CASE WaitSeesElement(d)
    BY <1>4 DEF WaitSeesElement, At, Advance, LockDiscipline, RpcTypeOK, Holding
  <1>5. CASE WaitSpins(d)
    BY <1>5 DEF WaitSpins, vars, LockDiscipline
  <1> QED
    BY <1>1, <1>2, <1>3, <1>4, <1>5 DEF Step, LocalWaitForElement

\* What a call is about does not change while it is under way.
LEMMA ShapeStep ==
    ASSUME TypeOK, CallShape, NEW d \in Clients, Start(d) \/ Step(d)
    PROVE  CallShape'
  <1> DEFINE Shape(c) ==
        /\ stage[c] = "idle" <=> call[c] = NoCall
        /\ call[c] # NoCall => target[c] = call[c].server
        /\ stage[c] \in Holding => call[c] \in QueueCalls
        /\ stage[c] \in {"idle", "sent", "entry", "read", "apply"}
              => res[c] = NoResult
  <1>1. ASSUME NEW c \in Clients, c # d
        PROVE  Shape(c)'
    BY <1>1, Frame DEF CallShape
  <1>2. Shape(d)'
    <2> USE DEF TypeOK, RpcTypeOK, Holding
    <2>1. CASE Start(d)
      <3>1. PICK cl \in AllCalls : Invoke(d, cl)
        BY <2>1, StartInvokes
      <3>2. target'[d] = cl.server
        BY <3>1, CallTypes, DispatchType DEF Invoke
      <3>3. res'[d] = NoResult /\ stage'[d] \in {"entry", "sent"} /\ call'[d] = cl
        BY <3>1 DEF Invoke, Dispatch, CallShape
      <3> QED
        BY <3>2, <3>3, CallTypes
    <2>2. CASE ServeRequest(d) \/ Unlock(d)
      BY <2>2 DEF CallShape, ServeRequest, Accept, Unlock, Release, queueVars
    <2>3. CASE Lock(d)
      <3>1. call[d] # NoCall /\ call[d].op # "WaitForElement"
        BY <2>3 DEF Lock, Acquire, CallShape
      <3>2. call[d] \in QueueCalls
        BY <3>1, CallTypes
      <3> QED
        BY <2>3, <3>2 DEF CallShape, Lock, Acquire, queueVars
    <2>4. CASE LocalPush(d) \/ LocalPop(d) \/ LocalSize(d)
      <3>1. /\ call' = call /\ target' = target
            /\ stage[d] \in {"read", "apply"} /\ stage'[d] \in {"apply", "unlock"}
            /\ stage'[d] = "apply" => res' = res
        BY <2>4 DEF LocalPush, PushReserve, PushExhausted, PushBack, LocalPop,
                    PopFront, PopRemove, PopEmpty, LocalSize, Yield, Advance, At,
                    queueVars
      <3> QED
        BY <3>1 DEF CallShape
    <2>5. CASE WaitSeesElement(d)
      BY <2>5 DEF CallShape, WaitSeesElement, Advance, At
    <2>6. CASE WaitSpins(d)
      BY <2>6 DEF CallShape, WaitSpins, vars
    <2>7. CASE Return(d)
      <3>1. call'[d] = NoCall /\ stage'[d] = "idle" /\ res'[d] = NoResult
        BY <2>7 DEF Return, Finish
      <3> QED
        BY <3>1
    <2> QED
      BY <2>1, <2>2, <2>3, <2>4, <2>5, <2>6, <2>7 DEF Step, LocalWaitForElement
  <1> HIDE DEF Shape
  <1>3. \A c \in Clients : Shape(c)'
    BY <1>1, <1>2
  <1> QED
    BY <1>3 DEF CallShape, Shape

-----------------------------------------------------------------------------
\* The step that brings a call to where it changes the queue.
LEMMA ReachesApply ==
    ASSUME TypeOK, NEW d \in Clients, Start(d) \/ Step(d), stage'[d] = "apply",
           call'[d].op \in {"Push", "Pop"}
    PROVE  /\ \/ call'[d].op = "Push" /\ PushReserve(d)
              \/ call'[d].op = "Pop" /\ PopFront(d)
           /\ queue' = queue /\ target' = target
  <1> USE DEF TypeOK, RpcTypeOK
  <1>1. ~Start(d)
    <2>1. SUFFICES ASSUME Start(d) PROVE FALSE
      OBVIOUS
    <2>2. PICK cl \in AllCalls : Invoke(d, cl)
      BY <2>1, StartInvokes
    <2> QED
      BY <2>2 DEF Invoke, Dispatch
  <1>2. ~(ServeRequest(d) \/ Lock(d) \/ Unlock(d) \/ Return(d))
    BY DEF ServeRequest, Accept, Lock, Acquire, Unlock, Release, Return, Finish
  <1>3. ~(PushExhausted(d) \/ PushBack(d) \/ PopRemove(d) \/ PopEmpty(d)
          \/ LocalSize(d))
    BY DEF PushExhausted, PushBack, PopRemove, PopEmpty, LocalSize, Yield, Advance
  <1>4. ~LocalWaitForElement(d)
    BY DEF LocalWaitForElement, WaitSeesElement, WaitSpins, At, Advance, vars
  <1>5. PushReserve(d) \/ PopFront(d)
    BY <1>1, <1>2, <1>3, <1>4 DEF Step, LocalPush, LocalPop
  <1> QED
    BY <1>5 DEF PushReserve, PopFront, At, Advance, queueVars

\* Nobody takes the element that a Pop has read as the front, nor puts one
\* before it.
LEMMA FrontStep ==
    ASSUME TypeOK, LockDiscipline, FrontFresh, NEW d \in Clients,
           Start(d) \/ Step(d)
    PROVE  FrontFresh'
  <1> USE DEF TypeOK, RpcTypeOK
  <1> SUFFICES ASSUME NEW c \in Clients, stage'[c] = "apply", call'[c].op = "Pop"
               PROVE  /\ queue'[target'[c]] # <<>>
                      /\ front'[c] = Head(queue'[target'[c]])
    BY DEF FrontFresh, At, Mine
  <1>1. CASE c # d
    <2>1. stage[c] = "apply" /\ target'[c] = target[c] /\ call'[c] = call[c]
          /\ front'[c] = front[c]
      BY <1>1, Frame
    <2>2. queue'[target[c]] = queue[target[c]]
      BY <1>1, <2>1, Frame, Exclusion DEF Holding
    <2> QED
      BY <2>1, <2>2 DEF FrontFresh, At, Mine
  <1>2. CASE c = d
    <2>1. PopFront(d) /\ queue' = queue /\ target' = target
      BY <1>2, ReachesApply
    <2> QED
      BY <1>2, <2>1 DEF PopFront, Mine
  <1> QED
    BY <1>1, <1>2

\* Nobody takes the room that a Push has found.
LEMMA RoomStep ==
    ASSUME TypeOK, LockDiscipline, RoomReserved, NEW d \in Clients,
           Start(d) \/ Step(d)
    PROVE  RoomReserved'
  <1> USE DEF TypeOK, RpcTypeOK
  <1> SUFFICES ASSUME NEW c \in Clients, stage'[c] = "apply", call'[c].op = "Push"
               PROVE  Len(queue'[target'[c]]) < Capacity
    BY DEF RoomReserved, At, Mine
  <1>1. CASE c # d
    <2>1. stage[c] = "apply" /\ target'[c] = target[c] /\ call'[c] = call[c]
      BY <1>1, Frame
    <2>2. queue'[target[c]] = queue[target[c]]
      BY <1>1, <2>1, Frame, Exclusion DEF Holding
    <2> QED
      BY <2>1, <2>2 DEF RoomReserved, At, Mine
  <1>2. CASE c = d
    <2>1. PushReserve(d) /\ queue' = queue /\ target' = target
      BY <1>2, ReachesApply
    <2> QED
      BY <1>2, <2>1 DEF PushReserve, Mine
  <1> QED
    BY <1>1, <1>2

-----------------------------------------------------------------------------
\* The inductive invariant holds when the constructors have run.
LEMMA InitHolds == Init => IndInv
  <1> SUFFICES ASSUME Init PROVE IndInv
    OBVIOUS
  <1>1. RpcTypeOK
    BY PlacementAssumption DEF Init, RpcInit, RpcTypeOK, Stages
  <1>2. /\ queue \in [Servers -> Seq(Vals)]
        /\ \A s \in Servers : Len(queue[s]) <= Capacity
    BY QueueDataAssumption DEF Init
  <1>3. /\ call \in [Clients -> QueueCalls \cup WaitCalls \cup {NoCall}]
        /\ front \in [Clients -> Vals] /\ res \in [Clients -> Results]
    BY QueueDataAssumption, ResultTypes DEF Init
  <1>4. LockDiscipline
    BY FreeAssumption DEF Init, RpcInit, LockDiscipline, Holding
  <1>5. CallShape /\ FrontFresh /\ RoomReserved
    BY DEF Init, RpcInit, CallShape, FrontFresh, RoomReserved, At, Holding
  <1> QED
    BY <1>1, <1>2, <1>3, <1>4, <1>5 DEF IndInv, TypeOK

\* And every step keeps it.
LEMMA StepHolds == IndInv /\ [Next]_vars => IndInv'
  <1> SUFFICES ASSUME IndInv, [Next]_vars PROVE IndInv'
    OBVIOUS
  <1> USE DEF IndInv
  <1>1. ASSUME NEW d \in Clients, Start(d) \/ Step(d)
        PROVE  IndInv'
    BY <1>1, StartType, StepType, LockStep, ShapeStep, FrontStep, RoomStep
  <1>2. CASE UNCHANGED vars
    BY <1>2 DEF vars, TypeOK, RpcTypeOK, LockDiscipline, CallShape, FrontFresh,
                RoomReserved, At, Mine
  <1> QED
    BY <1>1, <1>2 DEF Next

\* The inductive invariant holds in every reachable state: nobody pops an
\* element another Pop has read, and no queue outgrows its segment.
THEOREM Inductive == Spec => []IndInv
  BY InitHolds, StepHolds, PTL DEF Spec

-----------------------------------------------------------------------------
\* The abstract operation of a process.
PhaseOf(c) == IF ~Visible(c) THEN "idle"
              ELSE IF stage[c] \in {"unlock", "reply"} THEN "done" ELSE "pending"

AbsCallOf(c) == IF Visible(c) THEN call[c] ELSE NoCall

AbsResOf(c) == IF Visible(c) THEN res[c] ELSE NoResult

\* A step of process d moves the abstract operation of d only.
LEMMA AbstractFrame ==
    ASSUME TypeOK, NEW d \in Clients, Start(d) \/ Step(d)
    PROVE  /\ phase' = [phase EXCEPT ![d] = PhaseOf(d)']
           /\ absCall' = [absCall EXCEPT ![d] = AbsCallOf(d)']
           /\ absRes' = [absRes EXCEPT ![d] = AbsResOf(d)']
           /\ phase[d] = PhaseOf(d) /\ absCall[d] = AbsCallOf(d)
           /\ absRes[d] = AbsResOf(d)
  <1>1. \A c \in Clients \ {d} : stage'[c] = stage[c] /\ call'[c] = call[c]
                                 /\ res'[c] = res[c]
    BY Frame
  <1>2. \A c \in Clients \ {d} : /\ PhaseOf(c)' = PhaseOf(c)
                                 /\ AbsCallOf(c)' = AbsCallOf(c)
                                 /\ AbsResOf(c)' = AbsResOf(c)
    BY <1>1 DEF PhaseOf, AbsCallOf, AbsResOf, Visible
  <1>3. /\ phase = [c \in Clients |-> PhaseOf(c)]
        /\ absCall = [c \in Clients |-> AbsCallOf(c)]
        /\ absRes = [c \in Clients |-> AbsResOf(c)]
    BY DEF phase, absCall, absRes, PhaseOf, AbsCallOf, AbsResOf
  <1>4. /\ phase' = [c \in Clients |-> PhaseOf(c)']
        /\ absCall' = [c \in Clients |-> AbsCallOf(c)']
        /\ absRes' = [c \in Clients |-> AbsResOf(c)']
    BY DEF phase, absCall, absRes, PhaseOf, AbsCallOf, AbsResOf, Visible
  <1> HIDE DEF PhaseOf, AbsCallOf, AbsResOf
  <1> QED
    BY <1>2, <1>3, <1>4

\* A step that changes neither the queues nor what is visible of its own call
\* is a stuttering step of the abstract queues.
LEMMA Stutter ==
    ASSUME TypeOK, NEW d \in Clients, Start(d) \/ Step(d), queue' = queue,
           PhaseOf(d)' = PhaseOf(d), AbsCallOf(d)' = AbsCallOf(d),
           AbsResOf(d)' = AbsResOf(d)
    PROVE  UNCHANGED Abstract!absVars
  <1>1. /\ phase' = [phase EXCEPT ![d] = phase[d]]
        /\ absCall' = [absCall EXCEPT ![d] = absCall[d]]
        /\ absRes' = [absRes EXCEPT ![d] = absRes[d]]
    BY AbstractFrame
  <1>2. /\ phase = [c \in Clients |-> phase[c]]
        /\ absCall = [c \in Clients |-> absCall[c]]
        /\ absRes = [c \in Clients |-> absRes[c]]
    BY DEF phase, absCall, absRes
  <1>3. phase' = phase /\ absCall' = absCall /\ absRes' = absRes
    BY <1>1, <1>2
  <1> QED
    BY <1>3 DEF Abstract!absVars

\* Calling Push, Pop or Size begins an abstract operation; calling
\* WaitForElement is invisible.
LEMMA StartSimulates ==
    ASSUME IndInv, NEW d \in Clients, Start(d)
    PROVE  Abstract!Next \/ UNCHANGED Abstract!absVars
  <1> USE DEF IndInv
  <1>1. PICK cl \in AllCalls : Invoke(d, cl)
    BY StartInvokes
  <1>2. call[d] = NoCall /\ ~Visible(d)
    BY <1>1, CallTypes DEF Invoke, CallShape, Visible, AllCalls
  <1>3. /\ call'[d] = cl /\ stage'[d] \in {"entry", "sent"} /\ queue' = queue
        /\ res'[d] = NoResult
    BY <1>1 DEF Invoke, Dispatch, TypeOK, RpcTypeOK, CallShape
  <1>4. PhaseOf(d) = "idle" /\ AbsCallOf(d) = NoCall /\ AbsResOf(d) = NoResult
    BY <1>2 DEF PhaseOf, AbsCallOf, AbsResOf
  <1>5. CASE cl \in QueueCalls
    <2>1. /\ PhaseOf(d)' = "pending" /\ AbsCallOf(d)' = cl
          /\ AbsResOf(d)' = NoResult
      BY <1>3, <1>5 DEF Visible, PhaseOf, AbsCallOf, AbsResOf
    <2>2. absRes' = absRes
      <3>1. absRes' = [absRes EXCEPT ![d] = absRes[d]]
        BY <1>4, <2>1, AbstractFrame
      <3> QED
        BY <3>1 DEF absRes
    <2>3. cl \in Abstract!QueueCalls
      BY <1>5 DEF QueueCalls, Abstract!QueueCalls
    <2>4. Abstract!Begin(d, cl)
      BY <1>3, <1>4, <2>1, <2>2, AbstractFrame DEF Abstract!Begin
    <2> QED
      BY <2>3, <2>4 DEF Abstract!Next
  <1>6. CASE cl \notin QueueCalls
    <2>1. /\ PhaseOf(d)' = PhaseOf(d) /\ AbsCallOf(d)' = AbsCallOf(d)
          /\ AbsResOf(d)' = AbsResOf(d)
      BY <1>3, <1>4, <1>6 DEF Visible, PhaseOf, AbsCallOf, AbsResOf
    <2> QED
      BY <1>3, <2>1, Stutter
  <1> QED
    BY <1>5, <1>6

\* What holds of the abstract queues when a Local* function has its result.
LEMMA YieldPoint ==
    ASSUME IndInv, NEW d \in Clients, Step(d), NEW r, Yield(d, r),
           stage[d] \in {"read", "apply"}
    PROVE  /\ absCall[d] = call[d] /\ absCall' = absCall
           /\ phase[d] = "pending" /\ phase' = [phase EXCEPT ![d] = "done"]
           /\ absRes' = [absRes EXCEPT ![d] = r]
           /\ call[d].server = target[d]
           /\ queue = [queue EXCEPT ![target[d]] = queue[target[d]]]
  <1> USE DEF IndInv
  <1>1. call[d] \in QueueCalls
    BY DEF CallShape, Holding
  <1>2. call[d].server = target[d]
    BY <1>1, CallTypes DEF CallShape, AllCalls
  <1>3. stage'[d] = "unlock" /\ call' = call /\ res'[d] = r
    BY DEF Yield, Advance, TypeOK, RpcTypeOK
  <1>4. /\ PhaseOf(d) = "pending" /\ PhaseOf(d)' = "done"
        /\ AbsCallOf(d) = call[d] /\ AbsCallOf(d)' = call[d]
        /\ AbsResOf(d)' = r
    BY <1>1, <1>3 DEF PhaseOf, AbsCallOf, AbsResOf, Visible
  <1>5. /\ phase[d] = "pending" /\ phase' = [phase EXCEPT ![d] = "done"]
        /\ absCall[d] = call[d] /\ absCall' = [absCall EXCEPT ![d] = absCall[d]]
        /\ absRes' = [absRes EXCEPT ![d] = r]
    BY <1>4, AbstractFrame
  <1>6. absCall' = absCall
    BY <1>5 DEF absCall
  <1>7. queue = [queue EXCEPT ![target[d]] = queue[target[d]]]
    BY DEF TypeOK
  <1> QED
    BY <1>2, <1>5, <1>6, <1>7

\* The step in which LocalPush, LocalPop or LocalSize has its result is the
\* instant at which the abstract operation takes effect.
LEMMA YieldSimulates ==
    ASSUME IndInv, NEW d \in Clients,
           \/ PushExhausted(d) \/ PushBack(d) \/ PopRemove(d) \/ PopEmpty(d)
           \/ LocalSize(d)
    PROVE  Abstract!Next
  <1> USE DEF IndInv
  <1>0. Step(d) /\ stage[d] \in {"read", "apply"}
    BY DEF Step, LocalPush, LocalPop, PushExhausted, PushBack, PopRemove,
           PopEmpty, LocalSize, At
  <1>n. Abstract!NoResult = NoResult
    BY DEF NoResult, Abstract!NoResult
  <1>1. CASE PushBack(d)
    <2>1. /\ Yield(d, [NoResult EXCEPT !.ok = "true"]) /\ call[d].op = "Push"
          /\ queue' = [queue EXCEPT ![target[d]] = Append(queue[target[d]], call[d].val)]
      BY <1>1 DEF PushBack, At
    <2>2. Abstract!DoPush(d)
      BY <1>0, <1>n, <2>1, YieldPoint
      DEF Abstract!DoPush, Abstract!Pending, Abstract!Effect, Abstract!Mine
    <2> QED
      BY <2>2 DEF Abstract!Next
  <1>2. CASE PushExhausted(d)
    <2>1. /\ Yield(d, [NoResult EXCEPT !.ok = "bad_alloc"]) /\ call[d].op = "Push"
          /\ queue' = queue
      BY <1>2 DEF PushExhausted, At
    <2>2. Abstract!DoPush(d)
      BY <1>0, <1>n, <2>1, YieldPoint
      DEF Abstract!DoPush, Abstract!Pending, Abstract!Effect, Abstract!Mine
    <2> QED
      BY <2>2 DEF Abstract!Next
  <1>3. CASE PopRemove(d)
    <2> DEFINE r == [NoResult EXCEPT !.ok = "true", !.val = front[d]]
    <2>1. /\ Yield(d, r) /\ call[d].op = "Pop" /\ stage[d] = "apply"
          /\ queue' = [queue EXCEPT ![target[d]] = Tail(queue[target[d]])]
      BY <1>3 DEF PopRemove, At
    <2>2. Abstract!Mine(d) = queue[target[d]]
      BY <1>0, <2>1, YieldPoint DEF Abstract!Mine
    <2>3. Abstract!Mine(d) # <<>> /\ front[d] = Head(Abstract!Mine(d))
      BY <2>1, <2>2 DEF FrontFresh, At, Mine
    <2>4. r = [Abstract!NoResult EXCEPT !.ok = "true", !.val = Head(Abstract!Mine(d))]
      BY <1>n, <2>3
    <2> HIDE DEF r
    <2>5. /\ Abstract!Pending(d, "Pop")
          /\ Abstract!Effect(d, Tail(Abstract!Mine(d)), r)
      BY <1>0, <2>1, <2>2, YieldPoint DEF Abstract!Pending, Abstract!Effect
    <2>6. Abstract!DoPop(d)
      BY <2>3, <2>4, <2>5 DEF Abstract!DoPop
    <2> QED
      BY <2>6 DEF Abstract!Next
  <1>4. CASE PopEmpty(d)
    <2>1. /\ Yield(d, [NoResult EXCEPT !.ok = "false"]) /\ call[d].op = "Pop"
          /\ queue' = queue /\ queue[target[d]] = <<>>
      BY <1>4 DEF PopEmpty, At, Mine
    <2>2. Abstract!DoPop(d)
      BY <1>0, <1>n, <2>1, YieldPoint
      DEF Abstract!DoPop, Abstract!Pending, Abstract!Effect, Abstract!Mine
    <2> QED
      BY <2>2 DEF Abstract!Next
  <1>5. CASE LocalSize(d)
    <2> DEFINE r == [NoResult EXCEPT !.ok = "true", !.size = Len(queue[target[d]])]
    <2>1. Yield(d, r) /\ call[d].op = "Size" /\ queue' = queue
      BY <1>5 DEF LocalSize, At, Mine
    <2>2. Abstract!Mine(d) = queue[target[d]]
      BY <1>0, <2>1, YieldPoint DEF Abstract!Mine
    <2>3. r = [Abstract!NoResult EXCEPT !.ok = "true", !.size = Len(Abstract!Mine(d))]
      BY <1>n, <2>2
    <2> HIDE DEF r
    <2>4. Abstract!Pending(d, "Size") /\ Abstract!Effect(d, Abstract!Mine(d), r)
      BY <1>0, <2>1, <2>2, YieldPoint DEF Abstract!Pending, Abstract!Effect
    <2>5. Abstract!DoSize(d)
      BY <2>3, <2>4 DEF Abstract!DoSize
    <2> QED
      BY <2>5 DEF Abstract!Next
  <1> QED
    BY <1>1, <1>2, <1>3, <1>4, <1>5

\* Returning from Push, Pop or Size ends the abstract operation; every other
\* step, all of WaitForElement's among them, is invisible.
LEMMA OtherSimulates ==
    ASSUME IndInv, NEW d \in Clients, Step(d),
           ~(\/ PushExhausted(d) \/ PushBack(d) \/ PopRemove(d) \/ PopEmpty(d)
             \/ LocalSize(d))
    PROVE  Abstract!Next \/ UNCHANGED Abstract!absVars
  <1> USE DEF IndInv
  <1>1. CASE Return(d) /\ Visible(d)
    <2>1. /\ stage[d] = "reply" /\ call'[d] = NoCall /\ queue' = queue
      BY <1>1 DEF Return, Finish, TypeOK
    <2>2. /\ PhaseOf(d) = "done" /\ PhaseOf(d)' = "idle"
          /\ AbsCallOf(d)' = NoCall /\ AbsResOf(d)' = NoResult
      BY <1>1, <2>1, CallTypes DEF PhaseOf, AbsCallOf, AbsResOf, Visible, AllCalls
    <2>3. Abstract!NoCall = NoCall /\ Abstract!NoResult = NoResult
      BY DEF NoCall, NoResult, Abstract!NoCall, Abstract!NoResult
    <2>4. Abstract!End(d)
      BY <2>1, <2>2, <2>3, AbstractFrame DEF Abstract!End
    <2> QED
      BY <2>4 DEF Abstract!Next
  <1>2. CASE Return(d) /\ ~Visible(d)
    <2>1. call'[d] = NoCall /\ queue' = queue
      BY <1>2 DEF Return, TypeOK
    <2>2. /\ PhaseOf(d)' = PhaseOf(d) /\ AbsCallOf(d)' = AbsCallOf(d)
          /\ AbsResOf(d)' = AbsResOf(d)
      BY <1>2, <2>1, CallTypes DEF PhaseOf, AbsCallOf, AbsResOf, Visible, AllCalls
    <2> QED
      BY <2>1, <2>2, Stutter
  <1>3. CASE LocalWaitForElement(d)
    <2>1. /\ queue' = queue /\ call' = call /\ ~Visible(d)
      BY <1>3, CallTypes DEF LocalWaitForElement, WaitSeesElement, WaitSpins, vars,
                             At, Visible
    <2>2. /\ PhaseOf(d)' = PhaseOf(d) /\ AbsCallOf(d)' = AbsCallOf(d)
          /\ AbsResOf(d)' = AbsResOf(d)
      BY <2>1 DEF PhaseOf, AbsCallOf, AbsResOf, Visible
    <2> QED
      BY <1>3, <2>1, <2>2, Stutter
  <1>4. CASE \/ ServeRequest(d) \/ Lock(d) \/ Unlock(d)
             \/ PushReserve(d) \/ PopFront(d)
    <2>1. /\ queue' = queue /\ res' = res /\ call' = call
          /\ \/ /\ stage[d] \in {"unlock", "reply"}
                /\ stage'[d] \in {"unlock", "reply"}
             \/ /\ stage[d] \notin {"unlock", "reply"}
                /\ stage'[d] \notin {"unlock", "reply"}
      BY <1>4 DEF ServeRequest, Accept, Lock, Acquire, Unlock, Release, queueVars,
                  PushReserve, PopFront, At, Advance, TypeOK, RpcTypeOK
    <2>2. /\ PhaseOf(d)' = PhaseOf(d) /\ AbsCallOf(d)' = AbsCallOf(d)
          /\ AbsResOf(d)' = AbsResOf(d)
      BY <2>1 DEF PhaseOf, AbsCallOf, AbsResOf, Visible
    <2> QED
      BY <2>1, <2>2, Stutter
  <1> QED
    BY <1>1, <1>2, <1>3, <1>4 DEF Step, LocalPush, LocalPop

-----------------------------------------------------------------------------
\* Push, Pop and Size are linearizable and each queue is FIFO: with local
\* callers on the mapping, worker threads serving remote ones and unlocked
\* WaitForElements in between, the queues implement AtomicQueue.
THEOREM ImplementsAtomicQueue == Spec => Linearizable
  <1>1. Init => Abstract!Init
    <2> SUFFICES ASSUME Init PROVE Abstract!Init
      OBVIOUS
    <2>1. \A c \in Clients : ~Visible(c)
      BY CallTypes DEF Init, Visible, AllCalls
    <2>2. /\ phase = [c \in Clients |-> "idle"]
          /\ absCall = [c \in Clients |-> NoCall]
          /\ absRes = [c \in Clients |-> NoResult]
      BY <2>1 DEF phase, absCall, absRes
    <2> QED
      BY <2>2
      DEF Init, Abstract!Init, NoCall, NoResult, Abstract!NoCall, Abstract!NoResult
  <1>2. IndInv /\ [Next]_vars => [Abstract!Next]_Abstract!absVars
    <2> SUFFICES ASSUME IndInv, [Next]_vars
                 PROVE  [Abstract!Next]_Abstract!absVars
      OBVIOUS
    <2>1. CASE UNCHANGED vars
      BY <2>1 DEF vars, phase, absCall, absRes, Visible, Abstract!absVars
    <2>2. ASSUME NEW d \in Clients, Start(d) \/ Step(d)
          PROVE  Abstract!Next \/ UNCHANGED Abstract!absVars
      BY <2>2, StartSimulates, YieldSimulates, OtherSimulates
    <2> QED
      BY <2>1, <2>2 DEF Next
  <1> QED
    BY <1>1, <1>2, Inductive, PTL DEF Spec, Linearizable, Abstract!Spec

-----------------------------------------------------------------------------
\* What the processes of simple_test do to the queue is what processes may do.
LEMMA ProgramStepIsStep ==
    ASSUME NEW d \in Clients, ProgramStep(d)
    PROVE  Start(d) \/ Step(d)
  BY ProgramAssumption
  DEF ProgramStep, Produce, StartWaiting, StartPopping, Continue, Start

\* A step of a call ends it or keeps it.
LEMMA StepEndsOrKeeps ==
    ASSUME TypeOK, NEW d \in Clients, Step(d)
    PROVE  \/ /\ Return(d) /\ stage[d] = "reply" /\ stage'[d] = "idle"
              /\ call'[d] = NoCall
           \/ stage'[d] # "idle" /\ call'[d] = call[d]
  <1> USE DEF TypeOK, RpcTypeOK
  <1>1. CASE Return(d)
    BY <1>1 DEF Return, Finish
  <1>2. CASE ServeRequest(d) \/ Lock(d) \/ Unlock(d)
    BY <1>2 DEF ServeRequest, Accept, Lock, Acquire, Unlock, Release, queueVars
  <1>3. CASE LocalPush(d) \/ LocalPop(d) \/ LocalSize(d)
    BY <1>3 DEF LocalPush, PushReserve, PushExhausted, PushBack, LocalPop,
                PopFront, PopRemove, PopEmpty, LocalSize, Yield, Advance, At,
                queueVars
  <1>4. CASE LocalWaitForElement(d)
    BY <1>4 DEF LocalWaitForElement, WaitSeesElement, WaitSpins, Advance, At, vars
  <1> QED
    BY <1>1, <1>2, <1>3, <1>4 DEF Step

\* Producers only push, and the consumer waits before every Pop.
LEMMA ProgramCallsStep ==
    ASSUME TypeOK, ProgramCalls, NEW d \in Clients, ProgramStep(d)
    PROVE  ProgramCalls'
  <1> USE DEF ProgramCalls
  <1>0. Consumer \in Clients /\ NoCall.op = "none"
    BY ProgramAssumption DEF NoCall
  <1>1. \A c \in Clients \ {d} : call'[c] = call[c]
    BY ProgramStepIsStep, Frame
  <1>2. CASE Produce(d)
    <2>1. call'[d] \in [op : {"Push"}, server : {Home}, val : Vals]
      BY <1>2 DEF Produce, Push, Invoke, TypeOK
    <2>2. d # Consumer /\ waited' = waited
      BY <1>2 DEF Produce
    <2> QED
      BY <1>0, <1>1, <2>1, <2>2
  <1>3. CASE d = Consumer /\ StartWaiting
    <2>1. /\ call'[d] = [op |-> "WaitForElement", server |-> Home]
          /\ ~waited /\ waited' = waited
      BY <1>3 DEF StartWaiting, WaitForElement, Invoke, TypeOK
    <2> QED
      BY <1>1, <1>3, <2>1
  <1>4. CASE d = Consumer /\ StartPopping
    <2>1. /\ call'[d] = [op |-> "Pop", server |-> Home]
          /\ waited /\ waited' = waited
      BY <1>4 DEF StartPopping, Pop, Invoke, TypeOK
    <2> QED
      BY <1>1, <1>4, <2>1
  <1>5. CASE Continue(d) /\ stage'[d] # "idle"
    <2>1. waited' = waited /\ call'[d] = call[d]
      BY <1>5, StepEndsOrKeeps DEF Continue
    <2> QED
      BY <1>0, <1>1, <2>1
  <1>6. CASE Continue(d) /\ stage'[d] = "idle"
    <2>1. call'[d] = NoCall
      BY <1>6, StepEndsOrKeeps DEF Continue
    <2>2. waited' \in BOOLEAN
      BY <1>6 DEF Continue
    <2>3. d # Consumer => waited' = waited
      <3> SUFFICES ASSUME d # Consumer PROVE waited' = waited
        OBVIOUS
      <3>1. call[d].op # "WaitForElement"
        BY <1>0
      <3> QED
        BY <1>6, <3>1 DEF Continue
    <2> QED
      BY <1>0, <1>1, <2>1, <2>2, <2>3
  <1> QED
    BY <1>2, <1>3, <1>4, <1>5, <1>6 DEF ProgramStep

\* What the program's calls say of a step that touches the queue.
LEMMA ProgramTargets ==
    ASSUME IndInv, ProgramCalls, NEW c \in Clients
    PROVE  /\ stage[c] \in Holding => target[c] = Home
           /\ stage[c] \in Holding /\ c # Consumer => call[c].op = "Push"
           /\ stage[c] \in Holding /\ c = Consumer => call[c].op = "Pop"
           /\ call[c] # NoCall => target[c] = Home
  <1>1. stage[c] \in Holding => call[c] # NoCall
    BY DEF IndInv, CallShape, Holding
  <1>2. call[c] # NoCall => target[c] = call[c].server
    BY DEF IndInv, CallShape
  <1>3. stage[c] \in Holding => call[c].op # "WaitForElement"
    BY CallTypes DEF IndInv, CallShape
  <1> QED
    BY <1>1, <1>2, <1>3 DEF ProgramCalls

\* The step of WaitForElement that has seen an element, or a push in the race,
\* is right to promise one.
LEMMA WaitPromises ==
    ASSUME ProgramInv, ProgramStep(Consumer), WaitSeesElement(Consumer)
    PROVE  ElementPromised'
  <1> USE DEF ProgramInv, IndInv
  <1>1. Consumer \in Clients
    BY ProgramAssumption
  <1>2. stage[Consumer] = "entry" /\ target[Consumer] = Home /\ queue' = queue
    BY <1>1, CallTypes, ProgramTargets DEF WaitSeesElement, At
  <1>3. CASE queue[Home] # <<>>
    BY <1>2, <1>3 DEF ElementPromised
  <1>4. CASE BeingChanged(Home)
    <2>1. PICK c \in Clients : target[c] = Home /\ stage[c] = "apply"
      BY <1>4 DEF BeingChanged
    <2>2. c # Consumer /\ call[c].op = "Push"
      BY <1>2, <2>1, ProgramTargets DEF Holding
    <2>3. stage'[c] = stage[c] /\ call'[c] = call[c]
      BY <1>1, <2>2, ProgramStepIsStep, Frame
    <2> QED
      BY <2>1, <2>2, <2>3 DEF ElementPromised, At
  <1> QED
    BY <1>2, <1>3, <1>4 DEF WaitSeesElement, Mine

\* Every other promise was there before the step.
LEMMA PromiseKept ==
    ASSUME ProgramInv, NEW d \in Clients, ProgramStep(d), Promised',
           ~(d = Consumer /\ WaitSeesElement(Consumer))
    PROVE  Promised
  <1> USE DEF ProgramInv, IndInv, TypeOK, RpcTypeOK
  <1>0. Consumer \in Clients
    BY ProgramAssumption
  <1>1. CASE d # Consumer
    <2>1. stage'[Consumer] = stage[Consumer] /\ call'[Consumer] = call[Consumer]
      BY <1>0, <1>1, ProgramStepIsStep, Frame
    <2>2. waited' = waited
      BY <1>1, CallTypes DEF ProgramStep, Produce, Continue, ProgramCalls
    <2> QED
      BY <2>1, <2>2 DEF Promised, At
  <1>2. CASE d = Consumer /\ StartWaiting
    <2>1. stage'[Consumer] # "reply" /\ waited' = waited /\ ~waited
      BY <1>0, <1>2 DEF StartWaiting, WaitForElement, Invoke, Dispatch
    <2> QED
      BY <2>1 DEF Promised, At
  <1>3. CASE d = Consumer /\ StartPopping
    <2>1. waited /\ stage[Consumer] = "idle"
      BY <1>3 DEF StartPopping, Pop, Invoke
    <2> QED
      BY <2>1 DEF Promised
  <1>4. CASE d = Consumer /\ Continue(d) /\ Return(d)
    <2>1. /\ stage[d] = "reply" /\ stage'[d] = "idle" /\ call[d] # NoCall
          /\ waited'
      BY <1>4 DEF Return, Finish, CallShape, Promised, At
    <2>2. call[d].op = "WaitForElement"
      BY <1>4, <2>1 DEF Continue
    <2> QED
      BY <1>4, <2>1, <2>2 DEF Promised, At
  <1>5. CASE d = Consumer /\ Continue(d) /\ ~Return(d)
    <2>1. stage'[d] # "idle" /\ call'[d] = call[d] /\ waited' = waited
      BY <1>5, StepEndsOrKeeps DEF Continue
    <2>2. CASE waited
      <3>1. ~(call[d].op = "Pop" /\ stage'[d] \in {"unlock", "reply"})
        BY <1>5, <2>1, <2>2, CallTypes DEF Promised, At, ProgramCalls
      <3>2. stage[d] \in {"unlock", "reply"} => stage'[d] \in {"unlock", "reply"}
        BY <1>5 DEF Continue, Step, ServeRequest, Accept, Lock, Acquire, Unlock,
                    Release, LocalPush, PushReserve, PushExhausted, PushBack,
                    LocalPop, PopFront, PopRemove, PopEmpty, LocalSize,
                    LocalWaitForElement, WaitSeesElement, WaitSpins, At
      <3> QED
        BY <1>5, <2>2, <3>1, <3>2 DEF Promised
    <2>3. CASE ~waited
      <3>1. stage'[d] = "reply" /\ call[d].op = "WaitForElement"
        BY <1>5, <2>1, <2>3 DEF Promised, At
      <3>2. stage[d] = "reply"
        <4>1. ~Lock(d) /\ stage[d] \notin Holding
          BY <3>1, CallTypes DEF Lock, CallShape
        <4> QED
          BY <1>5, <3>1, <4>1
          DEF Continue, Step, ServeRequest, Accept, Unlock, Release, Holding,
              LocalPush, PushReserve, PushExhausted, PushBack, LocalPop,
              PopFront, PopRemove, PopEmpty, LocalSize, LocalWaitForElement,
              WaitSpins, At, vars
      <3> QED
        BY <1>5, <3>1, <3>2 DEF Promised, At
    <2> QED
      BY <2>2, <2>3 DEF ProgramCalls
  <1> QED
    <2> HIDE DEF ProgramInv, IndInv, TypeOK, RpcTypeOK
    <2> QED
      BY <1>1, <1>2, <1>3, <1>4, <1>5 DEF ProgramStep, Produce

\* Only the consumer's own Pop takes what is promised.
LEMMA ElementStays ==
    ASSUME ProgramInv, NEW d \in Clients, ProgramStep(d), Promised, Promised'
    PROVE  ElementPromised'
  <1> USE DEF ProgramInv, IndInv, TypeOK, RpcTypeOK
  <1>0. Consumer \in Clients /\ Home \in Servers
    BY ProgramAssumption
  <1>1. CASE PushBack(d)
    <2>1. target[d] = Home
      BY <1>1, ProgramTargets DEF PushBack, At, Holding
    <2>2. queue'[Home] = Append(queue[Home], call[d].val)
      BY <1>0, <1>1, <2>1 DEF PushBack
    <2>3. queue[Home] \in Seq(Vals) /\ call[d].val \in Vals
      BY <1>0, <1>1, CallTypes DEF PushBack, At
    <2>4. queue'[Home] # <<>>
      <3>1. Len(queue'[Home]) = Len(queue[Home]) + 1 /\ Len(queue[Home]) \in Nat
        BY <2>2, <2>3
      <3> QED
        BY <3>1
    <2> QED
      BY <2>4 DEF ElementPromised
  <1>2. CASE ~PushBack(d) /\ ~PopRemove(d)
    <2>1. queue' = queue
      BY <1>2, ProgramStepIsStep, StartInvokes
      DEF Invoke, Step, ServeRequest, Lock, Unlock, queueVars, LocalPush,
          PushReserve, PushExhausted, LocalPop, PopFront, PopEmpty, LocalSize,
          LocalWaitForElement, WaitSeesElement, WaitSpins, vars, Return
    <2>2. ASSUME NEW c \in Clients, At(c, "apply", "Push")
          PROVE  At(c, "apply", "Push")'
      <3>1. CASE c # d
        BY <2>2, <3>1, ProgramStepIsStep, Frame DEF At
      <3>2. CASE c = d
        <4>1. FALSE
          BY <1>2, <2>2, <3>2, ProgramStepIsStep, StartInvokes
          DEF Invoke, At, Step, ServeRequest, Accept, Lock, Acquire, Unlock,
              Release, LocalPush, PushReserve, PushExhausted, LocalPop, PopFront,
              PopEmpty, LocalSize, LocalWaitForElement, WaitSeesElement,
              WaitSpins, Return, Finish
        <4> QED
          BY <4>1
      <3> QED
        BY <3>1, <3>2
    <2> QED
      BY <2>1, <2>2 DEF ElementPromised
  <1>3. CASE PopRemove(d)
    <2>1. call[d].op = "Pop" /\ stage'[d] = "unlock" /\ call'[d] = call[d]
      BY <1>3 DEF PopRemove, At, Yield, Advance
    <2>2. d = Consumer
      BY <1>3, <2>1, ProgramTargets DEF PopRemove, At, Holding
    <2> QED
      BY <2>1, <2>2 DEF Promised, At
  <1> QED
    BY <1>1, <1>2, <1>3

\* A Pop of the consumer does not find the queue empty: the push that it may
\* have been promised would be inside the same lock.
LEMMA PopStep ==
    ASSUME ProgramInv, NEW d \in Clients, ProgramStep(d)
    PROVE  PopAfterWaitSucceeds'
  <1> USE DEF ProgramInv, IndInv, TypeOK, RpcTypeOK
  <1>0. Consumer \in Clients
    BY ProgramAssumption
  <1>1. CASE d # Consumer
    <2>1. /\ stage'[Consumer] = stage[Consumer] /\ call'[Consumer] = call[Consumer]
          /\ res'[Consumer] = res[Consumer]
      BY <1>0, <1>1, ProgramStepIsStep, Frame
    <2> QED
      BY <2>1 DEF PopAfterWaitSucceeds
  <1>2. CASE d = Consumer /\ PopEmpty(d)
    <2>1. call[d].op = "Pop" /\ stage[d] = "read" /\ target[d] = Home
          /\ queue[Home] = <<>>
      BY <1>2, ProgramTargets DEF PopEmpty, At, Mine, Holding
    <2>2. waited
      BY <1>2, <2>1, CallTypes DEF ProgramCalls
    <2>3. PICK c \in Clients : At(c, "apply", "Push")
      BY <1>2, <2>1, <2>2 DEF Promised, ElementPromised
    <2>4. target[c] = Home /\ c # d
      BY <2>1, <2>3, ProgramTargets DEF At, Holding
    <2> QED
      BY <2>1, <2>3, <2>4, Exclusion DEF At, Holding
  <1>3. CASE d = Consumer /\ PopRemove(d)
    BY <1>3 DEF PopRemove, Yield, PopAfterWaitSucceeds, Results, NoResult
  <1>4. CASE d = Consumer /\ ~PopEmpty(d) /\ ~PopRemove(d)
    <2> SUFFICES ASSUME call'[d].op = "Pop", stage'[d] \in {"unlock", "reply"}
                 PROVE  res'[d].ok = "true"
      BY <1>4 DEF PopAfterWaitSucceeds
    <2>1. Step(d)
      <3>1. ~Start(d)
        BY StartInvokes DEF Invoke, Dispatch
      <3> QED
        BY <3>1, ProgramStepIsStep
    <2>2. call'[d] = call[d]
      BY <2>1, StepEndsOrKeeps
    <2>3. Unlock(d)
      BY <1>4, <2>1, <2>2
      DEF Step, ServeRequest, Accept, Lock, Acquire, LocalPush, PushReserve,
          PushExhausted, PushBack, LocalPop, PopFront, Advance, LocalSize,
          LocalWaitForElement, WaitSeesElement, WaitSpins, At, vars, Return, Finish
    <2> QED
      BY <1>4, <2>2, <2>3 DEF Unlock, Release, queueVars, PopAfterWaitSucceeds
  <1> QED
    BY <1>1, <1>2, <1>3, <1>4

-----------------------------------------------------------------------------
\* simple_test's pops succeed: with any number of producers, a consumer that
\* waits for an element, without the lock, and then pops always gets one.
THEOREM PopsSucceed == ProgramSpec => []PopAfterWaitSucceeds
  <1>1. ProgramInit => ProgramInv
    <2> SUFFICES ASSUME ProgramInit PROVE ProgramInv
      OBVIOUS
    <2>1. Init => IndInv
      BY InitHolds
    <2>2. ProgramCalls /\ ElementPromised /\ PopAfterWaitSucceeds
      BY ProgramAssumption
      DEF ProgramInit, Init, RpcInit, ProgramCalls, Promised, ElementPromised,
          PopAfterWaitSucceeds, At
    <2> QED
      BY <2>1, <2>2 DEF ProgramInit, ProgramInv
  <1>2. ProgramInv /\ [ProgramNext]_programVars => ProgramInv'
    <2> SUFFICES ASSUME ProgramInv, [ProgramNext]_programVars PROVE ProgramInv'
      OBVIOUS
    <2>1. CASE UNCHANGED programVars
      <3>1. IndInv'
        BY <2>1, StepHolds DEF programVars, ProgramInv
      <3>2. (ProgramCalls /\ ElementPromised /\ PopAfterWaitSucceeds)'
        BY <2>1 DEF programVars, vars, ProgramInv, ProgramCalls, Promised,
                    ElementPromised, PopAfterWaitSucceeds, At
      <3> QED
        BY <3>1, <3>2 DEF ProgramInv
    <2>2. ASSUME NEW d \in Clients, ProgramStep(d) PROVE ProgramInv'
      <3>1. IndInv'
        BY <2>2, ProgramStepIsStep, StepHolds DEF ProgramInv, Next
      <3>2. ProgramCalls'
        BY <2>2, ProgramCallsStep DEF ProgramInv, IndInv
      <3>3. ElementPromised'
        <4>1. ~Promised' => ElementPromised'
          BY DEF ElementPromised
        <4> QED
          BY <2>2, <4>1, WaitPromises, PromiseKept, ElementStays
      <3>4. PopAfterWaitSucceeds'
        BY <2>2, PopStep
      <3> QED
        BY <3>1, <3>2, <3>3, <3>4 DEF ProgramInv
    <2> QED
      BY <2>1, <2>2 DEF ProgramNext
  <1>3. ProgramInv => PopAfterWaitSucceeds
    BY DEF ProgramInv
  <1> QED
    BY <1>1, <1>2, <1>3, PTL DEF ProgramSpec
=============================================================================
