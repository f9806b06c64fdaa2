--------------------------- MODULE PriorityQueue ---------------------------
(***************************************************************************)
(* basket::priority_queue: Push, Pop, Top and Size on the queue of the     *)
(* server that the caller names, all of them under the shard's mutex.      *)
(*                                                                         *)
(* A shard is a std::priority_queue over a vector in the segment, ordered  *)
(* by std::less.  Values are numbers; the order of equal ones and of the   *)
(* vector's elements is left out, so that a shard is a bag.                *)
(***************************************************************************)
EXTENDS RpcContainer, ValueBags

CONSTANTS
    Vals,          \* MappedType
    DefaultVal,    \* MappedType()
    Capacity       \* elements that fit into a segment of memory_allocated bytes

ASSUME HeapDataAssumption ==
    Vals \subseteq Nat /\ DefaultVal \in Vals /\ Capacity \in Nat

VARIABLES
    heap,          \* heap[s]: the values in the priority queue of server s
    call,          \* call[c]: the operation c has called, with its arguments
    top,           \* top[c]: the value c has copied from top()
    res            \* res[c]: what the Local* function returns

heapVars == <<heap, call, top, res>>
vars == <<stage, target, mutex, heap, call, top, res>>

NoCall == [op |-> "none"]
QueueCalls == [op : {"Push"}, server : Servers, val : Vals]
              \cup [op : {"Pop", "Top", "Size"}, server : Servers]

\* As in UnorderedMap, "bad_alloc" is the allocator's exception.
Results == [ok : {"none", "true", "false", "bad_alloc"}, val : Vals,
            size : 0 .. Capacity]
NoResult == [ok |-> "none", val |-> DefaultVal, size |-> 0]

TypeOK ==
    /\ RpcTypeOK
    /\ heap \in [Servers -> Heaps(Vals, Capacity)]
    /\ call \in [Clients -> QueueCalls \cup {NoCall}]
    /\ top \in [Clients -> Vals]
    /\ res \in [Clients -> Results]

Init ==
    /\ RpcInit
    /\ heap = [s \in Servers |-> EmptyBag]
    /\ call = [c \in Clients |-> NoCall]
    /\ top = [c \in Clients |-> DefaultVal]
    /\ res = [c \in Clients |-> NoResult]

-----------------------------------------------------------------------------
\* A process calls operation cl on the queue of server cl.server (key_int).
Invoke(c, cl) ==
    /\ stage[c] = "idle"
    /\ Dispatch(c, cl.server)
    /\ call' = [call EXCEPT ![c] = cl]
    /\ UNCHANGED <<heap, top, res>>

Push(c, s, v) == Invoke(c, [op |-> "Push", server |-> s, val |-> v])

Pop(c, s) == Invoke(c, [op |-> "Pop", server |-> s])

Top(c, s) == Invoke(c, [op |-> "Top", server |-> s])

Size(c, s) == Invoke(c, [op |-> "Size", server |-> s])

-----------------------------------------------------------------------------
ServeRequest(c) == Accept(c) /\ UNCHANGED heapVars

Lock(c) == Acquire(c) /\ UNCHANGED heapVars

Unlock(c) == Release(c) /\ UNCHANGED heapVars

Mine(c) == heap[target[c]]

At(c, st, op) == stage[c] = st /\ call[c].op = op

\* top(): a greatest value of the queue.
MutantGreatestIsSmallest(b) ==
    CHOOSE v \in DOMAIN b : \A w \in DOMAIN b : v <= w

Greatest(b) == CHOOSE v \in DOMAIN b : IsGreatest(v, b)

\* The function has computed its result.
Yield(c, result) ==
    /\ res' = [res EXCEPT ![c] = result]
    /\ Advance(c, "unlock")
    /\ call' = call

\* LocalPush: the vector has room for one more element, or the allocator
\* throws before the queue is changed.
MutantPushReserveOffByOne(c) ==
    /\ At(c, "read", "Push")
    /\ BagSize(Mine(c)) <= Capacity
    /\ Advance(c, "apply")
    /\ UNCHANGED heapVars

PushReserve(c) ==
    /\ At(c, "read", "Push")
    /\ BagSize(Mine(c)) < Capacity
    /\ Advance(c, "apply")
    /\ UNCHANGED heapVars

PushExhausted(c) ==
    /\ At(c, "read", "Push")
    /\ BagSize(Mine(c)) >= Capacity
    /\ Yield(c, [NoResult EXCEPT !.ok = "bad_alloc"])
    /\ UNCHANGED <<heap, top>>

\* LocalPush: the element is appended and moved to its place.
PushUp(c) ==
    /\ At(c, "apply", "Push")
    /\ heap' = [heap EXCEPT ![target[c]] = WithValue(@, call[c].val)]
    /\ Yield(c, [NoResult EXCEPT !.ok = "true"])
    /\ top' = top

\* LocalPop, LocalTop: size() > 0, and top() is copied.
CopyTop(c) ==
    /\ At(c, "read", "Pop") \/ At(c, "read", "Top")
    /\ Mine(c) # EmptyBag
    /\ top' = [top EXCEPT ![c] = Greatest(Mine(c))]
    /\ Advance(c, "apply")
    /\ UNCHANGED <<heap, call, res>>

\* LocalPop: pop() removes what is on top by now, and the copy is returned.
PopRemove(c) ==
    /\ At(c, "apply", "Pop")
    /\ heap' = [heap EXCEPT ![target[c]] = WithoutValue(@, Greatest(@))]
    /\ Yield(c, [NoResult EXCEPT !.ok = "true", !.val = top[c]])
    /\ top' = top

TopFound(c) ==
    /\ At(c, "apply", "Top")
    /\ Yield(c, [NoResult EXCEPT !.ok = "true", !.val = top[c]])
    /\ UNCHANGED <<heap, top>>

\* LocalPop, LocalTop of an empty queue.
NothingOnTop(c) ==
    /\ At(c, "read", "Pop") \/ At(c, "read", "Top")
    /\ Mine(c) = EmptyBag
    /\ Yield(c, [NoResult EXCEPT !.ok = "false"])
    /\ UNCHANGED <<heap, top>>

LocalSize(c) ==
    /\ At(c, "read", "Size")
    /\ Yield(c, [NoResult EXCEPT !.ok = "true", !.size = BagSize(Mine(c))])
    /\ UNCHANGED <<heap, top>>

\* The operation returns to its caller.
Return(c) ==
    /\ Finish(c)
    /\ call' = [call EXCEPT ![c] = NoCall]
    /\ top' = [top EXCEPT ![c] = DefaultVal]
    /\ res' = [res EXCEPT ![c] = NoResult]
    /\ heap' = heap

LocalPush(c) == PushReserve(c) \/ PushExhausted(c) \/ PushUp(c)
LocalPop(c) == CopyTop(c) \/ PopRemove(c) \/ NothingOnTop(c)
LocalTop(c) == CopyTop(c) \/ TopFound(c) \/ NothingOnTop(c)

\* A step of a call that is under way.
Step(c) ==
    \/ ServeRequest(c) \/ Lock(c)
    \/ LocalPush(c) \/ LocalPop(c) \/ LocalTop(c) \/ LocalSize(c)
    \/ Unlock(c) \/ Return(c)

\* A process calls an operation on some server's queue.
Start(c) ==
    \E s \in Servers :
        \/ \E v \in Vals : Push(c, s, v)
        \/ Pop(c, s) \/ Top(c, s) \/ Size(c, s)

Next == \E c \in Clients : Start(c) \/ Step(c)

Spec == Init /\ [][Next]_vars

-----------------------------------------------------------------------------
\* The value that LocalPop or LocalTop has copied is still on top when it is
\* popped or returned.
TopFresh ==
    \A c \in Clients :
        At(c, "apply", "Pop") \/ At(c, "apply", "Top") =>
            Mine(c) # EmptyBag /\ top[c] = Greatest(Mine(c))

(***************************************************************************)
(* The inductive invariant.  A call addresses the server it names, and     *)
(* nothing has a result before its function has computed it (CallShape);   *)
(* the room that the vector had for a new element is still there when the  *)
(* element is stored (RoomReserved).                                       *)
(***************************************************************************)
CallShape ==
    \A c \in Clients :
        /\ stage[c] = "idle" <=> call[c] = NoCall
        /\ call[c] # NoCall => target[c] = call[c].server
        /\ stage[c] \in {"idle", "sent", "entry", "read", "apply"}
              => res[c] = NoResult

RoomReserved ==
    \A c \in Clients :
        At(c, "apply", "Push") => BagSize(Mine(c)) < Capacity

IndInv == TypeOK /\ LockDiscipline /\ CallShape /\ TopFresh /\ RoomReserved

(***************************************************************************)
(* The queues implement AtomicPriorityQueue.  An operation is done once    *)
(* its Local* function has computed the result.                            *)
(***************************************************************************)
phase == [c \in Clients |->
            IF stage[c] = "idle" THEN "idle"
            ELSE IF stage[c] \in {"unlock", "reply"} THEN "done" ELSE "pending"]

Abstract == INSTANCE AtomicPriorityQueue

\* Push, Pop, Top and Size are linearizable: each Pop removes the value it
\* returns, which is a greatest one at that instant.
Linearizable == Abstract!Spec
=============================================================================
