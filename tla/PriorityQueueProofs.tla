------------------------- MODULE PriorityQueueProofs -------------------------
(***************************************************************************)
(* Theorems about PriorityQueue, for any number of processes, servers,     *)
(* worker threads and values and any size of the segment: the inductive    *)
(* invariant, and that the queues implement AtomicPriorityQueue.  Before   *)
(* them, what adding and removing a value does to the size of a bag, and   *)
(* that a heap which is not empty has a greatest value.                    *)
(***************************************************************************)
EXTENDS PriorityQueue, SharedProofs

\* A value's copies.
LEMMA CopyMeans ==
    ASSUME NEW b, NEW p
    PROVE  p \in Copies(b) <=> \E v \in DOMAIN b : \E i \in 1 .. b[v] : p = <<v, i>>
  BY DEF Copies

\* No value has more copies than the bag has elements.
LEMMA CopiesBounded ==
    ASSUME NEW b, b \in [DOMAIN b -> Nat \ {0}], IsFiniteSet(Copies(b)),
           NEW v \in DOMAIN b
    PROVE  b[v] <= BagSize(b)
  <1> DEFINE f == [i \in 1 .. b[v] |-> <<v, i>>]
  <1>1. f \in [1 .. b[v] -> Copies(b)]
    BY CopyMeans
  <1>2. \A i, j \in 1 .. b[v] : f[i] = f[j] => i = j
    OBVIOUS
  <1> HIDE DEF f
  <1>3. f \in Injection(1 .. b[v], Copies(b))
    BY <1>1, <1>2 DEF Injection, IsInjective
  <1>4. Cardinality(1 .. b[v]) <= Cardinality(Copies(b))
    BY <1>3, FS_Injection
  <1>5. b[v] \in Nat /\ b[v] > 0
    OBVIOUS
  <1>6. Cardinality(1 .. b[v]) = b[v]
    BY <1>5, FS_Interval
  <1> QED
    BY <1>4, <1>6 DEF BagSize

\* What it means to be a bag of values of V that fits into n elements.
LEMMA HeapMeans ==
    ASSUME NEW V, NEW n \in Nat, NEW b
    PROVE  b \in Heaps(V, n) <=> /\ DOMAIN b \subseteq V
                                 /\ b \in [DOMAIN b -> Nat \ {0}]
                                 /\ IsFiniteSet(Copies(b)) /\ BagSize(b) <= n
  <1>1. ASSUME b \in Heaps(V, n)
        PROVE  /\ DOMAIN b \subseteq V /\ b \in [DOMAIN b -> Nat \ {0}]
               /\ IsFiniteSet(Copies(b)) /\ BagSize(b) <= n
    BY <1>1 DEF Heaps
  <1>2. ASSUME DOMAIN b \subseteq V, b \in [DOMAIN b -> Nat \ {0}],
               IsFiniteSet(Copies(b)), BagSize(b) <= n
        PROVE  b \in Heaps(V, n)
    <2>1. BagSize(b) \in Nat
      BY <1>2, FS_CardinalityType DEF BagSize
    <2>2. ASSUME NEW v \in DOMAIN b PROVE b[v] \in 1 .. n
      <3>1. b[v] <= BagSize(b) /\ b[v] \in Nat \ {0}
        BY <1>2, CopiesBounded
      <3> QED
        BY <1>2, <2>1, <3>1
    <2>3. b \in [DOMAIN b -> 1 .. n]
      BY <1>2, <2>2
    <2> QED
      BY <1>2, <2>3 DEF Heaps
  <1> QED
    BY <1>1, <1>2

\* An element more is a pair more.
LEMMA AddIsOneMore ==
    ASSUME NEW b, b \in [DOMAIN b -> Nat \ {0}], IsFiniteSet(Copies(b)), NEW v
    PROVE  /\ DOMAIN WithValue(b, v) = DOMAIN b \cup {v}
           /\ WithValue(b, v) \in [DOMAIN WithValue(b, v) -> Nat \ {0}]
           /\ IsFiniteSet(Copies(WithValue(b, v)))
           /\ BagSize(b) \in Nat /\ BagSize(WithValue(b, v)) = BagSize(b) + 1
  <1> DEFINE c == WithValue(b, v)
             n == IF v \in DOMAIN b THEN b[v] ELSE 0
             new == <<v, n + 1>>
  <1>1. DOMAIN c = DOMAIN b \cup {v}
    BY DEF WithValue, (+), SetToBag
  <1>2. n \in Nat /\ c[v] = n + 1
    BY DEF WithValue, (+), SetToBag
  <1>3. \A w \in DOMAIN b \ {v} : c[w] = b[w]
    BY DEF WithValue, (+), SetToBag
  <1>4. c \in [DOMAIN c -> Nat \ {0}]
    BY DEF WithValue, (+), SetToBag
  <1>5. 1 .. (n + 1) = 1 .. n \cup {n + 1}
    BY <1>2
  <1>6. ASSUME NEW p PROVE p \in Copies(c) <=> p \in Copies(b) \cup {new}
    <2>1. CASE \E i : p = <<v, i>>
      <3>1. PICK i : p = <<v, i>>
        BY <2>1
      <3>2. p \in Copies(c) <=> i \in 1 .. (n + 1)
        BY <1>1, <1>2, <3>1, CopyMeans
      <3>3. p \in Copies(b) <=> i \in 1 .. n
        <4>1. CASE v \in DOMAIN b
          BY <3>1, <4>1, CopyMeans
        <4>2. CASE v \notin DOMAIN b
          BY <3>1, <4>2, CopyMeans
        <4> QED
          BY <4>1, <4>2
      <3>4. p = new <=> i = n + 1
        BY <3>1
      <3> QED
        BY <1>5, <3>2, <3>3, <3>4
    <2>2. CASE ~ \E i : p = <<v, i>>
      <3>1. p # new
        BY <2>2
      <3> HIDE DEF c
      <3>2. p \in Copies(c) <=> \E w \in DOMAIN b \ {v} : \E i \in 1 .. c[w] : p = <<w, i>>
        BY <1>1, <2>2, CopyMeans
      <3>3. p \in Copies(b) <=> \E w \in DOMAIN b \ {v} : \E i \in 1 .. b[w] : p = <<w, i>>
        BY <2>2, CopyMeans
      <3> QED
        BY <1>3, <3>1, <3>2, <3>3
    <2> QED
      BY <2>1, <2>2
  <1>7. new \notin Copies(b)
    <2>1. ASSUME v \in DOMAIN b, NEW i \in 1 .. b[v] PROVE n + 1 # i
      BY <2>1
    <2> QED
      BY <2>1, CopyMeans
  <1>8. Copies(c) = Copies(b) \cup {new}
    BY <1>6
  <1> HIDE DEF c, n, new
  <1>9. /\ IsFiniteSet(Copies(c)) /\ Cardinality(Copies(b)) \in Nat
        /\ Cardinality(Copies(c)) = Cardinality(Copies(b)) + 1
    BY <1>7, <1>8, FS_AddElement, FS_CardinalityType
  <1> QED
    BY <1>1, <1>4, <1>9 DEF c, BagSize

\* One less is a pair less.
LEMMA RemoveIsOneLess ==
    ASSUME NEW b, b \in [DOMAIN b -> Nat \ {0}], IsFiniteSet(Copies(b)),
           NEW v \in DOMAIN b
    PROVE  /\ DOMAIN WithoutValue(b, v) \subseteq DOMAIN b
           /\ WithoutValue(b, v) \in [DOMAIN WithoutValue(b, v) -> Nat \ {0}]
           /\ IsFiniteSet(Copies(WithoutValue(b, v)))
           /\ BagSize(b) \in Nat /\ BagSize(WithoutValue(b, v)) = BagSize(b) - 1
  <1> DEFINE c == WithoutValue(b, v)
             old == <<v, b[v]>>
  <1>1. /\ DOMAIN c \subseteq DOMAIN b /\ DOMAIN b \ {v} \subseteq DOMAIN c
        /\ v \in DOMAIN c <=> b[v] # 1
    BY DEF WithoutValue, (-), SetToBag
  <1>2. b[v] # 1 => c[v] = b[v] - 1
    BY DEF WithoutValue, (-), SetToBag
  <1>3. \A w \in DOMAIN b \ {v} : c[w] = b[w]
    BY DEF WithoutValue, (-), SetToBag
  <1>4. c \in [DOMAIN c -> Nat \ {0}]
    <2>1. CASE b[v] = 1
      BY <2>1 DEF WithoutValue, (-), SetToBag
    <2>2. CASE b[v] # 1
      BY <2>2 DEF WithoutValue, (-), SetToBag
    <2> QED
      BY <2>1, <2>2
  <1>5. b[v] \in Nat \ {0} /\ 1 .. (b[v] - 1) = (1 .. b[v]) \ {b[v]}
    OBVIOUS
  <1>6. ASSUME NEW p PROVE p \in Copies(c) <=> p \in Copies(b) \ {old}
    <2>1. CASE \E i : p = <<v, i>>
      <3>1. PICK i : p = <<v, i>>
        BY <2>1
      <3>2. p \in Copies(c) <=> i \in 1 .. (b[v] - 1)
        <4>1. CASE b[v] = 1
          <5>1. v \notin DOMAIN c /\ 1 .. (b[v] - 1) = {}
            BY <1>1, <4>1
          <5> HIDE DEF c
          <5> QED
            BY <3>1, <5>1, CopyMeans
        <4>2. CASE b[v] # 1
          <5>1. v \in DOMAIN c /\ c[v] = b[v] - 1
            BY <1>1, <1>2, <4>2
          <5> HIDE DEF c
          <5> QED
            BY <3>1, <5>1, CopyMeans
        <4> QED
          BY <4>1, <4>2
      <3>3. p \in Copies(b) <=> i \in 1 .. b[v]
        BY <3>1, CopyMeans
      <3>4. p = old <=> i = b[v]
        BY <3>1
      <3> QED
        BY <1>5, <3>2, <3>3, <3>4
    <2>2. CASE ~ \E i : p = <<v, i>>
      <3>1. p # old
        BY <2>2
      <3> HIDE DEF c
      <3>2. p \in Copies(c) <=> \E w \in DOMAIN b \ {v} : \E i \in 1 .. c[w] : p = <<w, i>>
        BY <1>1, <2>2, CopyMeans
      <3>3. p \in Copies(b) <=> \E w \in DOMAIN b \ {v} : \E i \in 1 .. b[w] : p = <<w, i>>
        BY <2>2, CopyMeans
      <3> QED
        BY <1>3, <3>1, <3>2, <3>3
    <2> QED
      BY <2>1, <2>2
  <1>7. old \in Copies(b)
    BY <1>5, CopyMeans
  <1>8. Copies(c) = Copies(b) \ {old}
    BY <1>6
  <1> HIDE DEF c, old
  <1>9. /\ IsFiniteSet(Copies(c)) /\ Cardinality(Copies(b)) \in Nat
        /\ Cardinality(Copies(c)) = Cardinality(Copies(b)) - 1
    BY <1>7, <1>8, FS_RemoveElement, FS_CardinalityType
  <1> QED
    BY <1>1, <1>4, <1>9 DEF c, BagSize

\* A finite set of numbers that is not empty has a greatest one.
LEMMA FiniteHasGreatest ==
    ASSUME NEW S \in SUBSET Nat, IsFiniteSet(S), S # {}
    PROVE  \E m \in S : \A k \in S : k <= m
  <1> DEFINE Bad(T) == /\ T \in SUBSET Nat /\ IsFiniteSet(T) /\ T # {}
                       /\ ~ \E m \in T : \A k \in T : k <= m
             Sizes == {n \in Nat : \E T \in SUBSET Nat : Bad(T) /\ Cardinality(T) = n}
  <1> SUFFICES ASSUME Bad(S) PROVE FALSE
    OBVIOUS
  <1>1. Cardinality(S) \in Sizes
    BY FS_CardinalityType
  <1>2. PICK n \in Sizes : \A k \in Sizes : ~(<<k, n>> \in OpToRel(<, Nat))
    BY <1>1, NatLessThanWellFounded, WFMin
  <1>3. \A k \in Sizes : ~(k < n)
    BY <1>2, Zenon DEF OpToRel
  <1>4. PICK T \in SUBSET Nat : Bad(T) /\ Cardinality(T) = n
    OBVIOUS
  <1>5. PICK x \in T : TRUE
    BY <1>4
  <1>6. /\ IsFiniteSet(T \ {x}) /\ Cardinality(T \ {x}) = n - 1 /\ n \in Nat
    BY <1>4, <1>5, FS_RemoveElement, FS_CardinalityType
  <1>7. ~Bad(T \ {x})
    <2>1. SUFFICES ASSUME Bad(T \ {x}) PROVE FALSE
      OBVIOUS
    <2>2. Cardinality(T \ {x}) \in Nat
      BY <1>6, FS_CardinalityType
    <2>3. n - 1 \in Sizes
      BY <1>6, <2>1, <2>2
    <2> QED
      BY <1>3, <1>6, <2>3
  <1>8. CASE T = {x}
    BY <1>4, <1>8
  <1>9. CASE T # {x}
    <2>1. PICK m \in T \ {x} : \A k \in T \ {x} : k <= m
      BY <1>4, <1>5, <1>6, <1>7, <1>9
    <2>2. m \in Nat /\ x \in Nat
      BY <1>5
    <2>3. CASE x <= m
      BY <1>4, <2>1, <2>3
    <2>4. CASE ~(x <= m)
      <3>1. ASSUME NEW k \in T PROVE k <= x
        BY <2>1, <2>2, <2>4, <3>1
      <3> QED
        BY <1>4, <1>5, <3>1
    <2> QED
      BY <2>3, <2>4
  <1> QED
    BY <1>8, <1>9

\* A heap that is not empty has something on top.
LEMMA GreatestIsOnTop ==
    ASSUME NEW b, b \in [DOMAIN b -> Nat \ {0}], IsFiniteSet(Copies(b)),
           DOMAIN b \in SUBSET Nat, b # EmptyBag
    PROVE  \E v \in DOMAIN b : IsGreatest(v, b)
  <1>1. DOMAIN b # {}
    BY DEF EmptyBag, SetToBag
  <1>2. IsFiniteSet(DOMAIN b)
    <2> DEFINE f == [v \in DOMAIN b |-> <<v, 1>>]
    <2>1. \A v \in DOMAIN b : f[v] \in Copies(b)
      BY CopyMeans
    <2>2. f \in Injection(DOMAIN b, Copies(b))
      BY <2>1 DEF Injection, IsInjective
    <2> HIDE DEF f
    <2> QED
      BY <2>2, FS_Injection
  <1>3. PICK v \in DOMAIN b : \A w \in DOMAIN b : w <= v
    BY <1>1, <1>2, FiniteHasGreatest
  <1> QED
    BY <1>3 DEF IsGreatest

-----------------------------------------------------------------------------
\* Every value a call record can take.
LEMMA CallTypes ==
    /\ \A s \in Servers, v \in Vals :
          [op |-> "Push", server |-> s, val |-> v] \in QueueCalls
    /\ \A s \in Servers : /\ [op |-> "Pop", server |-> s] \in QueueCalls
                          /\ [op |-> "Top", server |-> s] \in QueueCalls
                          /\ [op |-> "Size", server |-> s] \in QueueCalls
    /\ \A cl \in QueueCalls : /\ cl.server \in Servers
                              /\ cl.op = "Push" => cl.val \in Vals
    /\ NoCall.op = "none" /\ NoCall \notin QueueCalls
  <1> USE DEF QueueCalls, NoCall
  <1>1. \A s \in Servers, v \in Vals :
           [op |-> "Push", server |-> s, val |-> v] \in QueueCalls
    OBVIOUS
  <1>2. \A s \in Servers : /\ [op |-> "Pop", server |-> s] \in QueueCalls
                           /\ [op |-> "Top", server |-> s] \in QueueCalls
                           /\ [op |-> "Size", server |-> s] \in QueueCalls
    OBVIOUS
  <1>3. \A cl \in QueueCalls : /\ cl.server \in Servers
                               /\ cl.op = "Push" => cl.val \in Vals
    OBVIOUS
  <1>4. NoCall.op = "none"
    OBVIOUS
  <1>5. \A cl \in QueueCalls : cl.op # "none"
    OBVIOUS
  <1> HIDE DEF QueueCalls, NoCall
  <1> QED
    BY <1>1, <1>2, <1>3, <1>4, <1>5

\* The results that the functions return.
LEMMA ResultTypes ==
    /\ NoResult \in Results
    /\ \A ok \in {"true", "false", "bad_alloc"} :
          [NoResult EXCEPT !.ok = ok] \in Results
    /\ \A v \in Vals : [NoResult EXCEPT !.ok = "true", !.val = v] \in Results
    /\ \A n \in 0 .. Capacity :
          [NoResult EXCEPT !.ok = "true", !.size = n] \in Results
  <1>1. 0 \in 0 .. Capacity /\ DefaultVal \in Vals
    BY HeapDataAssumption
  <1>2. NoResult \in Results
    BY <1>1 DEF Results, NoResult
  <1>3. \A r \in Results, ok \in {"true", "false", "bad_alloc"} :
           [r EXCEPT !.ok = ok] \in Results
    BY DEF Results
  <1>4. \A r \in Results, v \in Vals : [r EXCEPT !.ok = "true", !.val = v] \in Results
    BY DEF Results
  <1>5. \A r \in Results, n \in 0 .. Capacity :
           [r EXCEPT !.ok = "true", !.size = n] \in Results
    BY DEF Results
  <1> QED
    BY <1>2, <1>3, <1>4, <1>5

\* Whatever a process calls is addressed to a server.
LEMMA StartInvokes ==
    ASSUME NEW c \in Clients, Start(c)
    PROVE  \E cl \in QueueCalls : Invoke(c, cl)
  BY CallTypes DEF Start, Push, Pop, Top, Size

\* The heap that a call addresses.
LEMMA MineIsHeap ==
    ASSUME TypeOK, NEW c \in Clients
    PROVE  /\ target[c] \in Servers
           /\ DOMAIN Mine(c) \in SUBSET Vals
           /\ Mine(c) \in [DOMAIN Mine(c) -> Nat \ {0}]
           /\ IsFiniteSet(Copies(Mine(c))) /\ BagSize(Mine(c)) \in 0 .. Capacity
  <1>1. target[c] \in Servers
    BY DEF TypeOK, RpcTypeOK
  <1>2. Mine(c) \in Heaps(Vals, Capacity)
    BY <1>1 DEF TypeOK, Mine
  <1>3. BagSize(Mine(c)) \in Nat
    BY <1>2, HeapMeans, FS_CardinalityType, HeapDataAssumption DEF BagSize
  <1> QED
    BY <1>1, <1>2, <1>3, HeapMeans, HeapDataAssumption

\* If it is not empty, top() is a greatest of its values.
LEMMA MineHasTop ==
    ASSUME TypeOK, NEW c \in Clients, Mine(c) # EmptyBag
    PROVE  /\ IsGreatest(Greatest(Mine(c)), Mine(c))
           /\ Greatest(Mine(c)) \in DOMAIN Mine(c) /\ Greatest(Mine(c)) \in Vals
  <1>1. \E v \in DOMAIN Mine(c) : IsGreatest(v, Mine(c))
    BY MineIsHeap, GreatestIsOnTop, HeapDataAssumption
  <1>2. IsGreatest(Greatest(Mine(c)), Mine(c)) /\ Greatest(Mine(c)) \in DOMAIN Mine(c)
    BY <1>1 DEF Greatest
  <1> QED
    BY <1>2, MineIsHeap

-----------------------------------------------------------------------------
\* Calling an operation keeps the types.
LEMMA StartType ==
    ASSUME TypeOK, NEW c \in Clients, Start(c)
    PROVE  TypeOK'
  <1>1. PICK cl \in QueueCalls : Invoke(c, cl)
    BY StartInvokes
  <1>2. RpcTypeOK'
    BY <1>1, CallTypes, DispatchType DEF TypeOK, Invoke
  <1>3. call' \in [Clients -> QueueCalls \cup {NoCall}]
    BY <1>1 DEF TypeOK, Invoke
  <1> QED
    BY <1>1, <1>2, <1>3 DEF TypeOK, Invoke

\* So does every step of a call under way: a new element has room, and an
\* element is taken only from a heap that has one.
LEMMA StepType ==
    ASSUME TypeOK, RoomReserved, TopFresh, NEW c \in Clients, Step(c)
    PROVE  TypeOK'
  <1>0. {"read", "apply", "unlock", "reply"} \subseteq Stages
    BY DEF Stages
  <1>a. /\ target[c] \in Servers /\ DOMAIN Mine(c) \in SUBSET Vals
        /\ Mine(c) \in [DOMAIN Mine(c) -> Nat \ {0}]
        /\ IsFiniteSet(Copies(Mine(c))) /\ BagSize(Mine(c)) \in 0 .. Capacity
    BY MineIsHeap
  <1>c. RpcTypeOK'
    BY <1>0, RpcStepType
    DEF Step, ServeRequest, Lock, LocalPush, PushReserve, PushExhausted, PushUp,
        LocalPop, LocalTop, CopyTop, PopRemove, TopFound, NothingOnTop, LocalSize,
        Yield, Unlock, Return, TypeOK
  <1> USE DEF TypeOK
  <1>d. ASSUME NEW r \in Results, Yield(c, r) PROVE res' \in [Clients -> Results]
    BY <1>d DEF Yield
  <1>1. CASE ServeRequest(c) \/ Lock(c) \/ Unlock(c) \/ PushReserve(c)
    BY <1>1, <1>c DEF ServeRequest, Lock, Unlock, PushReserve, heapVars
  <1>2. CASE PushExhausted(c) \/ NothingOnTop(c)
    <2>1. res' \in [Clients -> Results]
      BY <1>2, <1>d, ResultTypes DEF PushExhausted, NothingOnTop
    <2> QED
      BY <1>2, <1>c, <2>1 DEF PushExhausted, NothingOnTop, Yield
  <1>3. CASE PushUp(c)
    <2>1. call[c].op = "Push" /\ BagSize(Mine(c)) < Capacity
      BY <1>3 DEF PushUp, RoomReserved, At
    <2>2. call[c].val \in Vals
      BY <2>1, CallTypes
    <2> DEFINE new == WithValue(Mine(c), call[c].val)
    <2>3. heap' = [heap EXCEPT ![target[c]] = new]
      BY <1>3 DEF PushUp, Mine
    <2>4. /\ DOMAIN new = DOMAIN Mine(c) \cup {call[c].val}
          /\ new \in [DOMAIN new -> Nat \ {0}] /\ IsFiniteSet(Copies(new))
          /\ BagSize(new) = BagSize(Mine(c)) + 1
      BY <1>a, AddIsOneMore
    <2> HIDE DEF new
    <2>5. BagSize(new) <= Capacity
      BY <1>a, <2>1, <2>4, HeapDataAssumption
    <2>6. new \in Heaps(Vals, Capacity)
      BY <1>a, <2>2, <2>4, <2>5, HeapMeans, HeapDataAssumption
    <2>7. heap' \in [Servers -> Heaps(Vals, Capacity)]
      BY <1>a, <2>3, <2>6
    <2>8. res' \in [Clients -> Results]
      BY <1>3, <1>d, ResultTypes DEF PushUp
    <2> QED
      BY <1>3, <1>c, <2>7, <2>8 DEF PushUp, Yield
  <1>4. CASE CopyTop(c)
    <2>1. Greatest(Mine(c)) \in Vals
      BY <1>4, MineHasTop DEF CopyTop
    <2> QED
      BY <1>4, <1>c, <2>1 DEF CopyTop
  <1>5. CASE PopRemove(c)
    <2>1. Mine(c) # EmptyBag
      BY <1>5 DEF PopRemove, TopFresh
    <2> DEFINE v == Greatest(Mine(c))
               new == WithoutValue(Mine(c), v)
    <2>2. heap' = [heap EXCEPT ![target[c]] = new]
      BY <1>5 DEF PopRemove, Mine
    <2>3. v \in DOMAIN Mine(c)
      BY <2>1, MineHasTop
    <2>4. /\ DOMAIN new \subseteq DOMAIN Mine(c)
          /\ new \in [DOMAIN new -> Nat \ {0}] /\ IsFiniteSet(Copies(new))
          /\ BagSize(new) = BagSize(Mine(c)) - 1
      BY <1>a, <2>3, RemoveIsOneLess
    <2> HIDE DEF new
    <2>5. BagSize(new) <= Capacity
      BY <1>a, <2>4, HeapDataAssumption
    <2>6. new \in Heaps(Vals, Capacity)
      BY <1>a, <2>4, <2>5, HeapMeans, HeapDataAssumption
    <2>7. heap' \in [Servers -> Heaps(Vals, Capacity)]
      BY <1>a, <2>2, <2>6
    <2>8. res' \in [Clients -> Results]
      BY <1>5, <1>d, ResultTypes DEF PopRemove
    <2> QED
      BY <1>5, <1>c, <2>7, <2>8 DEF PopRemove, Yield
  <1>6. CASE TopFound(c) \/ LocalSize(c)
    <2>1. res' \in [Clients -> Results]
      BY <1>6, <1>a, <1>d, ResultTypes DEF TopFound, LocalSize
    <2> QED
      BY <1>6, <1>c, <2>1 DEF TopFound, LocalSize, Yield
  <1>7. CASE Return(c)
    BY <1>7, <1>c, HeapDataAssumption, ResultTypes DEF Return
  <1> QED
    BY <1>1, <1>2, <1>3, <1>4, <1>5, <1>6, <1>7 DEF Step, LocalPush, LocalPop, LocalTop

-----------------------------------------------------------------------------
\* A step of process d leaves every other process's call alone, and changes no
\* heap but, in stage "apply", the one d addresses.
LEMMA Frame ==
    ASSUME TypeOK, NEW d \in Clients, Start(d) \/ Step(d)
    PROVE  /\ \A c \in Clients \ {d} :
                 /\ stage'[c] = stage[c] /\ target'[c] = target[c]
                 /\ call'[c] = call[c] /\ top'[c] = top[c] /\ res'[c] = res[c]
           /\ \A s \in Servers : \/ heap'[s] = heap[s]
                                 \/ s = target[d] /\ stage[d] = "apply"
  <1> USE DEF TypeOK, RpcTypeOK
  <1>1. CASE Start(d)
    <2>1. PICK cl \in QueueCalls : Invoke(d, cl)
      BY <1>1, StartInvokes
    <2> QED
      BY <2>1 DEF Invoke, Dispatch
  <1>2. CASE ServeRequest(d) \/ Lock(d) \/ Unlock(d)
    BY <1>2 DEF ServeRequest, Accept, Lock, Acquire, Unlock, Release, heapVars
  <1>3. CASE LocalPush(d)
    BY <1>3 DEF LocalPush, PushReserve, PushExhausted, PushUp, Yield, Advance, At,
                heapVars
  <1>4. CASE LocalPop(d) \/ LocalTop(d) \/ LocalSize(d)
    BY <1>4 DEF LocalPop, LocalTop, CopyTop, PopRemove, TopFound, NothingOnTop,
                LocalSize, Yield, Advance, At
  <1>5. CASE Return(d)
    BY <1>5 DEF Return, Finish
  <1> QED
    BY <1>1, <1>2, <1>3, <1>4, <1>5 DEF Step

\* The mutex of every heap is held by exactly the call inside its scoped_lock.
LEMMA LockStep ==
    ASSUME TypeOK, LockDiscipline, NEW d \in Clients, Start(d) \/ Step(d)
    PROVE  LockDiscipline'
  <1> USE DEF TypeOK
  <1>1. CASE Start(d)
    <2>1. PICK cl \in QueueCalls : Invoke(d, cl)
      BY <1>1, StartInvokes
    <2> QED
      BY <2>1, CallTypes, DispatchLocks DEF Invoke, Holding
  <1>2. CASE ServeRequest(d) \/ Lock(d) \/ Unlock(d) \/ Return(d)
    BY <1>2, RpcStepLocks DEF ServeRequest, Lock, Unlock, Return
  <1>3. CASE LocalPush(d) \/ LocalPop(d) \/ LocalTop(d) \/ LocalSize(d)
    <2>1. stage[d] \in Holding /\ \E next \in Holding : Advance(d, next)
      BY <1>3 DEF LocalPush, PushReserve, PushExhausted, PushUp, LocalPop, LocalTop,
                  CopyTop, PopRemove, TopFound, NothingOnTop, LocalSize, Yield, At,
                  Holding
    <2> QED
      BY <2>1, RpcStepLocks
  <1> QED
    BY <1>1, <1>2, <1>3 DEF Step

\* What a call is about does not change while it is under way.
LEMMA ShapeStep ==
    ASSUME TypeOK, CallShape, NEW d \in Clients, Start(d) \/ Step(d)
    PROVE  CallShape'
  <1> DEFINE Shape(c) ==
        /\ stage[c] = "idle" <=> call[c] = NoCall
        /\ call[c] # NoCall => target[c] = call[c].server
        /\ stage[c] \in {"idle", "sent", "entry", "read", "apply"}
              => res[c] = NoResult
  <1>1. ASSUME NEW c \in Clients, c # d
        PROVE  Shape(c)'
    BY <1>1, Frame DEF CallShape
  <1>2. Shape(d)'
    <2> USE DEF TypeOK, RpcTypeOK
    <2>1. CASE Start(d)
      <3>1. PICK cl \in QueueCalls : Invoke(d, cl)
        BY <2>1, StartInvokes
      <3>2. target'[d] = cl.server
        BY <3>1, CallTypes, DispatchType DEF Invoke
      <3>3. res'[d] = NoResult /\ stage'[d] \in {"entry", "sent"} /\ call'[d] = cl
        BY <3>1 DEF Invoke, Dispatch, CallShape
      <3> QED
        BY <3>2, <3>3, CallTypes
    <2>2. CASE ServeRequest(d) \/ Lock(d) \/ Unlock(d)
      BY <2>2 DEF CallShape, ServeRequest, Accept, Lock, Acquire, Unlock, Release,
                  heapVars
    <2>3. CASE LocalPush(d) \/ LocalPop(d) \/ LocalTop(d) \/ LocalSize(d)
      <3>1. /\ call' = call /\ target' = target
            /\ stage[d] \in {"read", "apply"} /\ stage'[d] \in {"apply", "unlock"}
            /\ stage'[d] = "apply" => res' = res
        BY <2>3 DEF LocalPush, PushReserve, PushExhausted, PushUp, LocalPop,
                    LocalTop, CopyTop, PopRemove, TopFound, NothingOnTop, LocalSize,
                    Yield, Advance, At, heapVars
      <3> QED
        BY <3>1 DEF CallShape
    <2>4. CASE Return(d)
      <3>1. call'[d] = NoCall /\ stage'[d] = "idle" /\ res'[d] = NoResult
        BY <2>4 DEF Return, Finish
      <3> QED
        BY <3>1
    <2> QED
      BY <2>1, <2>2, <2>3, <2>4 DEF Step
  <1> HIDE DEF Shape
  <1>3. \A c \in Clients : Shape(c)'
    BY <1>1, <1>2
  <1> QED
    BY <1>3 DEF CallShape, Shape

-----------------------------------------------------------------------------
\* The step that brings a call to where it changes the heap or returns what it
\* has copied.
LEMMA ReachesApply ==
    ASSUME TypeOK, NEW d \in Clients, Start(d) \/ Step(d), stage'[d] = "apply"
    PROVE  /\ \/ PushReserve(d)
              \/ CopyTop(d)
           /\ heap' = heap /\ target' = target /\ call' = call
  <1> USE DEF TypeOK, RpcTypeOK
  <1>1. ~Start(d)
    <2>1. SUFFICES ASSUME Start(d) PROVE FALSE
      OBVIOUS
    <2>2. PICK cl \in QueueCalls : Invoke(d, cl)
      BY <2>1, StartInvokes
    <2> QED
      BY <2>2 DEF Invoke, Dispatch
  <1>2. ~(ServeRequest(d) \/ Lock(d) \/ Unlock(d) \/ Return(d))
    BY DEF ServeRequest, Accept, Lock, Acquire, Unlock, Release, Return, Finish
  <1>3. ~(PushExhausted(d) \/ PushUp(d) \/ PopRemove(d) \/ TopFound(d)
          \/ NothingOnTop(d) \/ LocalSize(d))
    BY DEF PushExhausted, PushUp, PopRemove, TopFound, NothingOnTop, LocalSize,
           Yield, Advance
  <1>4. PushReserve(d) \/ CopyTop(d)
    BY <1>1, <1>2, <1>3 DEF Step, LocalPush, LocalPop, LocalTop
  <1> QED
    BY <1>4 DEF PushReserve, CopyTop, Advance, heapVars

\* While a call is in "apply", nobody else changes its heap.
LEMMA NobodyElse ==
    ASSUME TypeOK, LockDiscipline, NEW d \in Clients, Start(d) \/ Step(d),
           NEW c \in Clients, c # d, stage'[c] = "apply"
    PROVE  /\ stage[c] = "apply" /\ call'[c] = call[c] /\ top'[c] = top[c]
           /\ Mine(c)' = Mine(c)
  <1> USE DEF TypeOK, RpcTypeOK
  <1>1. stage[c] = "apply" /\ target'[c] = target[c] /\ call'[c] = call[c]
        /\ top'[c] = top[c]
    BY Frame
  <1>2. heap'[target[c]] = heap[target[c]]
    BY <1>1, Frame, Exclusion DEF Holding
  <1> QED
    BY <1>1, <1>2 DEF Mine

\* Nobody takes the value that a Pop or Top has copied, nor puts a greater one
\* above it.
LEMMA TopStep ==
    ASSUME TypeOK, LockDiscipline, TopFresh, NEW d \in Clients,
           Start(d) \/ Step(d)
    PROVE  TopFresh'
  <1> SUFFICES ASSUME NEW c \in Clients, stage'[c] = "apply",
                      call'[c].op \in {"Pop", "Top"}
               PROVE  Mine(c)' # EmptyBag /\ top'[c] = Greatest(Mine(c)')
    BY DEF TopFresh, At, Greatest
  <1>1. CASE c # d
    BY <1>1, NobodyElse DEF TopFresh, At
  <1>2. CASE c = d
    <2>1. CopyTop(d) /\ heap' = heap /\ target' = target
      BY <1>2, ReachesApply DEF PushReserve, At
    <2>2. Mine(d)' = Mine(d)
      BY <2>1 DEF Mine
    <2>3. Mine(d) # EmptyBag /\ top'[d] = Greatest(Mine(d))
      BY <2>1 DEF CopyTop, TypeOK
    <2> QED
      BY <1>2, <2>2, <2>3
  <1> QED
    BY <1>1, <1>2

\* Nobody takes the room that a Push has found.
LEMMA RoomStep ==
    ASSUME TypeOK, LockDiscipline, RoomReserved, NEW d \in Clients,
           Start(d) \/ Step(d)
    PROVE  RoomReserved'
  <1> SUFFICES ASSUME NEW c \in Clients, stage'[c] = "apply", call'[c].op = "Push"
               PROVE  BagSize(Mine(c)') < Capacity
    BY DEF RoomReserved, At, BagSize, Copies
  <1>1. CASE c # d
    BY <1>1, NobodyElse DEF RoomReserved, At
  <1>2. CASE c = d
    <2>1. PushReserve(d) /\ heap' = heap /\ target' = target
      BY <1>2, ReachesApply DEF CopyTop, At
    <2>2. Mine(d)' = Mine(d)
      BY <2>1 DEF Mine
    <2> QED
      BY <1>2, <2>1, <2>2 DEF PushReserve
  <1> QED
    BY <1>1, <1>2

-----------------------------------------------------------------------------
\* The inductive invariant holds when the constructors have run.
LEMMA InitHolds == Init => IndInv
  <1> SUFFICES ASSUME Init PROVE IndInv
    OBVIOUS
  <1>1. RpcTypeOK
    BY PlacementAssumption DEF Init, RpcInit, RpcTypeOK, Stages
  <1>2. heap \in [Servers -> Heaps(Vals, Capacity)]
    <2>1. DOMAIN EmptyBag = {} /\ EmptyBag \in [{} -> Nat \ {0}]
      BY DEF EmptyBag, SetToBag
    <2>2. Copies(EmptyBag) = {}
      BY <2>1 DEF Copies
    <2>3. IsFiniteSet(Copies(EmptyBag)) /\ BagSize(EmptyBag) = 0
      BY <2>2, FS_EmptySet DEF BagSize
    <2>4. BagSize(EmptyBag) <= Capacity
      BY <2>3, HeapDataAssumption
    <2>5. DOMAIN EmptyBag \subseteq Vals /\ EmptyBag \in [DOMAIN EmptyBag -> Nat \ {0}]
      BY <2>1
    <2>6. EmptyBag \in Heaps(Vals, Capacity)
      BY <2>3, <2>4, <2>5, HeapMeans, HeapDataAssumption, Zenon
    <2> QED
      BY <2>6 DEF Init
  <1>3. /\ call \in [Clients -> QueueCalls \cup {NoCall}]
        /\ top \in [Clients -> Vals] /\ res \in [Clients -> Results]
    BY HeapDataAssumption, ResultTypes DEF Init
  <1>4. LockDiscipline
    BY FreeAssumption DEF Init, RpcInit, LockDiscipline, Holding
  <1>5. CallShape /\ TopFresh /\ RoomReserved
    BY DEF Init, RpcInit, CallShape, TopFresh, RoomReserved, At
  <1> QED
    BY <1>1, <1>2, <1>3, <1>4, <1>5 DEF IndInv, TypeOK

\* And every step keeps it.
LEMMA StepHolds == IndInv /\ [Next]_vars => IndInv'
  <1> SUFFICES ASSUME IndInv, [Next]_vars PROVE IndInv'
    OBVIOUS
  <1> USE DEF IndInv
  <1>1. ASSUME NEW d \in Clients, Start(d) \/ Step(d)
        PROVE  IndInv'
    BY <1>1, StartType, StepType, LockStep, ShapeStep, TopStep, RoomStep
  <1>2. CASE UNCHANGED vars
    <2>1. \A c \in Clients : Mine(c)' = Mine(c)
      BY <1>2 DEF vars, Mine
    <2> QED
      BY <1>2, <2>1 DEF vars, TypeOK, RpcTypeOK, LockDiscipline, CallShape, TopFresh,
                        RoomReserved, At
  <1> QED
    BY <1>1, <1>2 DEF Next

\* The inductive invariant holds in every reachable state: a Pop removes the
\* value it has copied, and no heap outgrows its segment.
THEOREM Inductive == Spec => []IndInv
  BY InitHolds, StepHolds, PTL DEF Spec

-----------------------------------------------------------------------------
(***************************************************************************)
(* The refinement.  The instance has operators on bags of its own, which   *)
(* are the same.                                                           *)
(***************************************************************************)
LEMMA SameBags ==
    /\ Abstract!EmptyBag = EmptyBag
    /\ \A b, v : /\ Abstract!WithValue(b, v) = WithValue(b, v)
                 /\ Abstract!WithoutValue(b, v) = WithoutValue(b, v)
                 /\ Abstract!IsGreatest(v, b) <=> IsGreatest(v, b)
    /\ \A b : Abstract!BagSize(b) = BagSize(b)
  <1>1. Abstract!EmptyBag = EmptyBag
    BY Zenon DEF EmptyBag, Abstract!EmptyBag, SetToBag, Abstract!SetToBag
  <1>2. \A b, v : Abstract!WithValue(b, v) = WithValue(b, v)
    BY Zenon DEF WithValue, Abstract!WithValue, (+), Abstract!(+), SetToBag,
                 Abstract!SetToBag
  <1>3. \A b, v : Abstract!WithoutValue(b, v) = WithoutValue(b, v)
    BY Zenon DEF WithoutValue, Abstract!WithoutValue, (-), Abstract!(-), SetToBag,
                 Abstract!SetToBag
  <1>4. \A b, v : Abstract!IsGreatest(v, b) <=> IsGreatest(v, b)
    BY DEF IsGreatest, Abstract!IsGreatest
  <1>5. \A b : Abstract!BagSize(b) = BagSize(b)
    <2>1. \A S : Abstract!Cardinality(S) = Cardinality(S)
      BY Zenon DEF Cardinality, Abstract!Cardinality
    <2>2. \A b : Abstract!Copies(b) = Copies(b)
      BY Zenon DEF Copies, Abstract!Copies
    <2> QED
      BY <2>1, <2>2, Zenon DEF BagSize, Abstract!BagSize
  <1> QED
    BY <1>1, <1>2, <1>3, <1>4, <1>5

\* How far a process's operation has come.
PhaseOf(c) == IF stage[c] = "idle" THEN "idle"
              ELSE IF stage[c] \in {"unlock", "reply"} THEN "done" ELSE "pending"

\* A step of process d moves the phase of d only.
LEMMA PhaseFrame ==
    ASSUME TypeOK, NEW d \in Clients, Start(d) \/ Step(d)
    PROVE  phase[d] = PhaseOf(d) /\ phase' = [phase EXCEPT ![d] = PhaseOf(d)']
  <1>1. \A c \in Clients \ {d} : PhaseOf(c)' = PhaseOf(c)
    BY Frame DEF PhaseOf
  <1>2. /\ phase = [c \in Clients |-> PhaseOf(c)]
        /\ phase' = [c \in Clients |-> PhaseOf(c)']
    BY DEF phase, PhaseOf
  <1> HIDE DEF PhaseOf
  <1> QED
    BY <1>1, <1>2

\* A call whose Local* function has its result r is pending before and done
\* after, and its heap may become what it becomes.
LEMMA YieldPoint ==
    ASSUME IndInv, NEW d \in Clients, Step(d), NEW r, Yield(d, r),
           stage[d] \in {"read", "apply"}, NEW new,
           heap' = [heap EXCEPT ![target[d]] = new]
    PROVE  /\ Abstract!Pending(d, call[d].op) /\ Abstract!Effect(d, new, r)
           /\ Abstract!Mine(d) = Mine(d)
  <1> USE DEF IndInv
  <1>1. call[d].server = target[d] /\ target[d] \in Servers
    BY MineIsHeap DEF CallShape
  <1>2. stage'[d] = "unlock" /\ call' = call /\ res' = [res EXCEPT ![d] = r]
    BY DEF Yield, Advance, TypeOK, RpcTypeOK
  <1>3. PhaseOf(d) = "pending" /\ PhaseOf(d)' = "done"
    BY <1>2 DEF PhaseOf
  <1>4. phase[d] = "pending" /\ phase' = [phase EXCEPT ![d] = "done"]
    BY <1>3, PhaseFrame
  <1>5. Abstract!Mine(d) = Mine(d)
    BY <1>1 DEF Abstract!Mine, Mine
  <1>6. Abstract!Pending(d, call[d].op)
    BY <1>4 DEF Abstract!Pending
  <1>7. Abstract!Effect(d, new, r)
    BY <1>1, <1>2, <1>4 DEF Abstract!Effect
  <1> QED
    BY <1>5, <1>6, <1>7

\* The heap that stays as it is.
LEMMA SameHeap ==
    ASSUME TypeOK, NEW d \in Clients, heap' = heap
    PROVE  heap' = [heap EXCEPT ![target[d]] = Mine(d)]
  BY DEF TypeOK, RpcTypeOK, Mine

\* The step in which a Local* function has its result is the instant at which
\* the abstract operation takes effect.
LEMMA YieldSimulates ==
    ASSUME IndInv, NEW d \in Clients,
           \/ PushExhausted(d) \/ PushUp(d) \/ PopRemove(d) \/ TopFound(d)
           \/ NothingOnTop(d) \/ LocalSize(d)
    PROVE  Abstract!Next
  <1> USE DEF IndInv
  <1>0. Step(d) /\ stage[d] \in {"read", "apply"}
    BY DEF Step, LocalPush, LocalPop, LocalTop, PushExhausted, PushUp, PopRemove,
           TopFound, NothingOnTop, LocalSize, At
  <1>n. Abstract!NoResult = NoResult
    BY DEF NoResult, Abstract!NoResult
  <1>1. CASE PushUp(d)
    <2> DEFINE new == WithValue(Mine(d), call[d].val)
               r == [NoResult EXCEPT !.ok = "true"]
    <2>1. Yield(d, r) /\ heap' = [heap EXCEPT ![target[d]] = new] /\ call[d].op = "Push"
      BY <1>1 DEF PushUp, At, Mine
    <2> HIDE DEF new, r
    <2>2. /\ Abstract!Pending(d, "Push") /\ Abstract!Effect(d, new, r)
          /\ Abstract!Mine(d) = Mine(d)
      BY <1>0, <2>1, YieldPoint
    <2>3. new = Abstract!WithValue(Abstract!Mine(d), call[d].val)
      BY <2>2, SameBags DEF new
    <2>4. Abstract!DoPush(d)
      BY <1>n, <2>2, <2>3, Zenon DEF Abstract!DoPush, r
    <2> QED
      BY <2>4 DEF Abstract!Next
  <1>2. CASE PushExhausted(d)
    <2> DEFINE r == [NoResult EXCEPT !.ok = "bad_alloc"]
    <2>1. Yield(d, r) /\ heap' = heap /\ call[d].op = "Push"
      BY <1>2 DEF PushExhausted, At
    <2> HIDE DEF r
    <2>2. /\ Abstract!Pending(d, "Push") /\ Abstract!Effect(d, Mine(d), r)
          /\ Abstract!Mine(d) = Mine(d)
      BY <1>0, <2>1, SameHeap, YieldPoint
    <2>3. Abstract!DoPush(d)
      BY <1>n, <2>2, Zenon DEF Abstract!DoPush, r
    <2> QED
      BY <2>3 DEF Abstract!Next
  <1>3. CASE NothingOnTop(d)
    <2> DEFINE r == [NoResult EXCEPT !.ok = "false"]
    <2>1. /\ Yield(d, r) /\ heap' = heap /\ Mine(d) = EmptyBag
          /\ call[d].op = "Pop" \/ call[d].op = "Top"
      BY <1>3 DEF NothingOnTop, At
    <2> HIDE DEF r
    <2>2. /\ Abstract!Pending(d, "Pop") \/ Abstract!Pending(d, "Top")
          /\ Abstract!Effect(d, Mine(d), r) /\ Abstract!Mine(d) = Mine(d)
      BY <1>0, <2>1, SameHeap, YieldPoint
    <2>3. Abstract!DoNothing(d)
      BY <1>n, <2>1, <2>2, SameBags, Zenon DEF Abstract!DoNothing, r
    <2> QED
      BY <2>3 DEF Abstract!Next
  <1>4. CASE PopRemove(d) \/ TopFound(d)
    <2> DEFINE r == [NoResult EXCEPT !.ok = "true", !.val = top[d]]
    <2>1. Yield(d, r) /\ stage[d] = "apply" /\ call[d].op \in {"Pop", "Top"}
      BY <1>4 DEF PopRemove, TopFound, At
    <2> HIDE DEF r
    <2>2. Mine(d) # EmptyBag /\ top[d] = Greatest(Mine(d))
      BY <2>1 DEF TopFresh, At
    <2>3. Abstract!IsGreatest(top[d], Mine(d)) /\ top[d] \in Vals
      BY <2>2, MineHasTop, SameBags
    <2>4. r = Abstract!Found(top[d])
      BY <1>n, Zenon DEF r, Abstract!Found
    <2>5. CASE PopRemove(d)
      <3> DEFINE new == WithoutValue(Mine(d), top[d])
      <3>1. heap' = [heap EXCEPT ![target[d]] = new] /\ call[d].op = "Pop"
        BY <2>2, <2>5 DEF PopRemove, At, Mine
      <3> HIDE DEF new
      <3>2. /\ Abstract!Pending(d, "Pop") /\ Abstract!Effect(d, new, r)
            /\ Abstract!Mine(d) = Mine(d)
        BY <1>0, <2>1, <3>1, YieldPoint
      <3>3. new = Abstract!WithoutValue(Abstract!Mine(d), top[d])
        BY <3>2, SameBags DEF new
      <3>4. Abstract!DoPop(d)
        BY <2>3, <2>4, <3>2, <3>3, Zenon DEF Abstract!DoPop
      <3> QED
        BY <3>4 DEF Abstract!Next
    <2>6. CASE TopFound(d)
      <3>1. heap' = heap /\ call[d].op = "Top"
        BY <2>6 DEF TopFound, At
      <3>2. /\ Abstract!Pending(d, "Top") /\ Abstract!Effect(d, Mine(d), r)
            /\ Abstract!Mine(d) = Mine(d)
        BY <1>0, <2>1, <3>1, SameHeap, YieldPoint
      <3>3. Abstract!DoTop(d)
        BY <2>3, <2>4, <3>2, Zenon DEF Abstract!DoTop
      <3> QED
        BY <3>3 DEF Abstract!Next
    <2> QED
      BY <1>4, <2>5, <2>6
  <1>5. CASE LocalSize(d)
    <2> DEFINE r == [NoResult EXCEPT !.ok = "true", !.size = BagSize(Mine(d))]
    <2>1. Yield(d, r) /\ heap' = heap /\ call[d].op = "Size"
      BY <1>5 DEF LocalSize, At
    <2> HIDE DEF r
    <2>2. /\ Abstract!Pending(d, "Size") /\ Abstract!Effect(d, Mine(d), r)
          /\ Abstract!Mine(d) = Mine(d)
      BY <1>0, <2>1, SameHeap, YieldPoint
    <2>3. Abstract!BagSize(Mine(d)) = BagSize(Mine(d))
      BY SameBags
    <2>4. Abstract!DoSize(d)
      BY <1>n, <2>2, <2>3, Zenon DEF Abstract!DoSize, r
    <2> QED
      BY <2>4 DEF Abstract!Next
  <1> QED
    BY <1>1, <1>2, <1>3, <1>4, <1>5

\* Calling an operation begins the abstract one, returning from it ends it.
LEMMA CallSimulates ==
    ASSUME IndInv, NEW d \in Clients, Start(d) \/ Return(d)
    PROVE  Abstract!Next
  <1> USE DEF IndInv
  <1>1. CASE Start(d)
    <2>1. PICK cl \in QueueCalls : Invoke(d, cl)
      BY <1>1, StartInvokes
    <2>2. /\ stage[d] = "idle" /\ stage'[d] \in {"entry", "sent"}
          /\ call' = [call EXCEPT ![d] = cl] /\ UNCHANGED <<heap, res>>
      BY <2>1 DEF Invoke, Dispatch, TypeOK, RpcTypeOK
    <2>3. phase[d] = "idle" /\ phase' = [phase EXCEPT ![d] = "pending"]
      BY <1>1, <2>2, PhaseFrame DEF PhaseOf
    <2>4. cl \in Abstract!QueueCalls
      BY DEF QueueCalls, Abstract!QueueCalls
    <2>5. Abstract!Begin(d)
      BY <2>2, <2>3, <2>4 DEF Abstract!Begin
    <2> QED
      BY <2>5 DEF Abstract!Next
  <1>2. CASE Return(d)
    <2>1. /\ stage[d] = "reply" /\ stage'[d] = "idle" /\ heap' = heap
          /\ call' = [call EXCEPT ![d] = NoCall] /\ res' = [res EXCEPT ![d] = NoResult]
      BY <1>2 DEF Return, Finish, TypeOK, RpcTypeOK
    <2>2. phase[d] = "done" /\ phase' = [phase EXCEPT ![d] = "idle"]
      BY <1>2, <2>1, PhaseFrame DEF PhaseOf, Step
    <2>3. Abstract!NoCall = NoCall /\ Abstract!NoResult = NoResult
      BY DEF NoCall, NoResult, Abstract!NoCall, Abstract!NoResult
    <2>4. Abstract!End(d)
      BY <2>1, <2>2, <2>3 DEF Abstract!End
    <2> QED
      BY <2>4 DEF Abstract!Next
  <1> QED
    BY <1>1, <1>2

\* Every other step is invisible.
LEMMA OtherStutters ==
    ASSUME IndInv, NEW d \in Clients,
           \/ ServeRequest(d) \/ Lock(d) \/ Unlock(d) \/ PushReserve(d) \/ CopyTop(d)
    PROVE  UNCHANGED Abstract!absVars
  <1> USE DEF IndInv
  <1>1. UNCHANGED <<heap, call, res>>
    BY DEF ServeRequest, Lock, Unlock, PushReserve, CopyTop, heapVars
  <1>2. PhaseOf(d)' = PhaseOf(d)
    <2> USE DEF TypeOK, RpcTypeOK
    <2>1. CASE ServeRequest(d) \/ Lock(d) \/ Unlock(d)
      BY <2>1 DEF PhaseOf, ServeRequest, Accept, Lock, Acquire, Unlock, Release
    <2>2. CASE PushReserve(d) \/ CopyTop(d)
      BY <2>2 DEF PhaseOf, PushReserve, CopyTop, At, Advance
    <2> QED
      BY <2>1, <2>2
  <1>3. phase' = [phase EXCEPT ![d] = phase[d]]
    BY <1>2, PhaseFrame DEF Step, LocalPush, LocalPop
  <1>4. phase' = phase
    BY <1>3 DEF phase
  <1> QED
    BY <1>1, <1>4 DEF Abstract!absVars

\* The priority queues implement AtomicPriorityQueue, for any number of servers
\* and whatever calls are under way: every Pop removes and returns a greatest
\* value of its queue, every Push stores its value or fails for lack of memory,
\* at an instant between call and return.
THEOREM ImplementsAtomicPriorityQueue == Spec => Linearizable
  <1>1. Init => Abstract!Init
    BY SameBags DEF Init, RpcInit, Abstract!Init, phase, NoCall, NoResult,
                    Abstract!NoCall, Abstract!NoResult
  <1>2. IndInv /\ [Next]_vars => [Abstract!Next]_Abstract!absVars
    <2> SUFFICES ASSUME IndInv, [Next]_vars
                 PROVE  Abstract!Next \/ UNCHANGED Abstract!absVars
      OBVIOUS
    <2>1. CASE UNCHANGED vars
      BY <2>1 DEF vars, phase, Abstract!absVars
    <2>2. ASSUME NEW d \in Clients, Start(d) \/ Step(d)
          PROVE  Abstract!Next \/ UNCHANGED Abstract!absVars
      BY <2>2, YieldSimulates, CallSimulates, OtherStutters
      DEF Step, LocalPush, LocalPop, LocalTop
    <2> QED
      BY <2>1, <2>2 DEF Next
  <1> QED
    BY <1>1, <1>2, Inductive, PTL DEF Spec, Linearizable, Abstract!Spec
=============================================================================
