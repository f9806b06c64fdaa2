------------------------------- MODULE Queue --------------------------------
(***************************************************************************)
(* basket::queue: Push, Pop, Size and WaitForElement on the queue of the   *)
(* server that the caller names.  Push, Pop and Size work under the        *)
(* shard's mutex; WaitForElement polls size() without it, and a remote one *)
(* polls on a worker thread of the server, which it occupies meanwhile.    *)
(***************************************************************************)
EXTENDS RpcContainer, Sequences

CONSTANTS
    Vals,          \* MappedType
    DefaultVal,    \* MappedType()
    Capacity       \* elements that fit into a segment of memory_allocated bytes

ASSUME QueueDataAssumption == DefaultVal \in Vals /\ Capacity \in Nat

VARIABLES
    queue,         \* queue[s]: the deque of server s, front first
    call,          \* call[c]: the operation c has called, with its arguments
    front,         \* front[c]: the value LocalPop has copied from front()
    res            \* res[c]: what the Local* function returns

queueVars == <<queue, call, front, res>>
vars == <<stage, target, mutex, queue, call, front, res>>

NoCall == [op |-> "none"]
QueueCalls == [op : {"Push"}, server : Servers, val : Vals]
              \cup [op : {"Pop", "Size"}, server : Servers]
WaitCalls == [op : {"WaitForElement"}, server : Servers]

\* As in UnorderedMap, "bad_alloc" is the allocator's exception.
Results == [ok : {"none", "true", "false", "bad_alloc"}, val : Vals,
            size : 0 .. Capacity]
NoResult == [ok |-> "none", val |-> DefaultVal, size |-> 0]

TypeOK ==
    /\ RpcTypeOK
    /\ queue \in [Servers -> Seq(Vals)]
    /\ \A s \in Servers : Len(queue[s]) <= Capacity
    /\ call \in [Clients -> QueueCalls \cup WaitCalls \cup {NoCall}]
    /\ front \in [Clients -> Vals]
    /\ res \in [Clients -> Results]

Init ==
    /\ RpcInit
    /\ queue = [s \in Servers |-> <<>>]
    /\ call = [c \in Clients |-> NoCall]
    /\ front = [c \in Clients |-> DefaultVal]
    /\ res = [c \in Clients |-> NoResult]

-----------------------------------------------------------------------------
\* A process calls operation cl on the queue of server cl.server (key_int).
Invoke(c, cl) ==
    /\ stage[c] = "idle"
    /\ Dispatch(c, cl.server)
    /\ call' = [call EXCEPT ![c] = cl]
    /\ UNCHANGED <<queue, front, res>>

Push(c, s, v) == Invoke(c, [op |-> "Push", server |-> s, val |-> v])

Pop(c, s) == Invoke(c, [op |-> "Pop", server |-> s])

Size(c, s) == Invoke(c, [op |-> "Size", server |-> s])

WaitForElement(c, s) == Invoke(c, [op |-> "WaitForElement", server |-> s])

-----------------------------------------------------------------------------
ServeRequest(c) == Accept(c) /\ UNCHANGED queueVars

\* LocalWaitForElement is the one function without a scoped_lock.
MutantLockForEveryOperation(c) == Acquire(c) /\ UNCHANGED queueVars

Lock(c) == call[c].op # "WaitForElement" /\ Acquire(c) /\ UNCHANGED queueVars

Unlock(c) == Release(c) /\ UNCHANGED queueVars

Mine(c) == queue[target[c]]

At(c, st, op) == stage[c] = st /\ call[c].op = op

\* The function has computed its result.
Yield(c, result) ==
    /\ res' = [res EXCEPT ![c] = result]
    /\ Advance(c, "unlock")
    /\ call' = call

\* LocalPush: push_back finds room for one more element in the segment, or
\* the allocator throws before the deque is changed.
MutantPushReserveOffByOne(c) ==
    /\ At(c, "read", "Push")
    /\ Len(Mine(c)) <= Capacity
    /\ Advance(c, "apply")
    /\ UNCHANGED queueVars

PushReserve(c) ==
    /\ At(c, "read", "Push")
    /\ Len(Mine(c)) < Capacity
    /\ Advance(c, "apply")
    /\ UNCHANGED queueVars

PushExhausted(c) ==
    /\ At(c, "read", "Push")
    /\ Len(Mine(c)) >= Capacity
    /\ Yield(c, [NoResult EXCEPT !.ok = "bad_alloc"])
    /\ UNCHANGED <<queue, front>>

\* LocalPush: push_back links the element.
MutantPushFront(c) ==
    /\ At(c, "apply", "Push")
    /\ queue' = [queue EXCEPT ![target[c]] = <<call[c].val>> \o @]
    /\ Yield(c, [NoResult EXCEPT !.ok = "true"])
    /\ front' = front

PushBack(c) ==
    /\ At(c, "apply", "Push")
    /\ queue' = [queue EXCEPT ![target[c]] = Append(@, call[c].val)]
    /\ Yield(c, [NoResult EXCEPT !.ok = "true"])
    /\ front' = front

\* LocalPop: size() > 0, and front() is copied.
PopFront(c) ==
    /\ At(c, "read", "Pop")
    /\ Mine(c) # <<>>
    /\ front' = [front EXCEPT ![c] = Head(Mine(c))]
    /\ Advance(c, "apply")
    /\ UNCHANGED <<queue, call, res>>

\* LocalPop: pop_front() and the copy is returned.
PopRemove(c) ==
    /\ At(c, "apply", "Pop")
    /\ queue' = [queue EXCEPT ![target[c]] = Tail(@)]
    /\ Yield(c, [NoResult EXCEPT !.ok = "true", !.val = front[c]])
    /\ front' = front

PopEmpty(c) ==
    /\ At(c, "read", "Pop")
    /\ Mine(c) = <<>>
    /\ Yield(c, [NoResult EXCEPT !.ok = "false"])
    /\ UNCHANGED <<queue, front>>

LocalSize(c) ==
    /\ At(c, "read", "Size")
    /\ Yield(c, [NoResult EXCEPT !.ok = "true", !.size = Len(Mine(c))])
    /\ UNCHANGED <<queue, front>>

-----------------------------------------------------------------------------
\* Some call is changing the deque of server s at this moment.
BeingChanged(s) == \E d \in Clients : target[d] = s /\ stage[d] = "apply"

\* LocalWaitForElement's size() differs from 0.  It is read without the lock:
\* while push_back or pop_front moves the deque's ends, a data race, the
\* build may see any difference of the two, whatever is in the deque.
MutantWaitLooksOnlyOnce(c) ==
    /\ At(c, "entry", "WaitForElement")
    /\ res' = [res EXCEPT ![c].ok = "true"]
    /\ Advance(c, "reply")
    /\ UNCHANGED <<queue, call, front>>

WaitSeesElement(c) ==
    /\ At(c, "entry", "WaitForElement")
    /\ Mine(c) # <<>> \/ BeingChanged(target[c])
    /\ res' = [res EXCEPT ![c].ok = "true"]
    /\ Advance(c, "reply")
    /\ UNCHANGED <<queue, call, front>>

\* It is 0, or looks like 0 in the race: usleep, and another turn of the loop.
WaitSpins(c) ==
    /\ At(c, "entry", "WaitForElement")
    /\ Mine(c) = <<>> \/ BeingChanged(target[c])
    /\ UNCHANGED vars

\* The operation returns to its caller.
Return(c) ==
    /\ Finish(c)
    /\ call' = [call EXCEPT ![c] = NoCall]
    /\ front' = [front EXCEPT ![c] = DefaultVal]
    /\ res' = [res EXCEPT ![c] = NoResult]
    /\ queue' = queue

LocalPush(c) == PushReserve(c) \/ PushExhausted(c) \/ PushBack(c)
LocalPop(c) == PopFront(c) \/ PopRemove(c) \/ PopEmpty(c)
LocalWaitForElement(c) == WaitSeesElement(c) \/ WaitSpins(c)

\* A step of a call that is under way.
Step(c) ==
    \/ ServeRequest(c) \/ Lock(c)
    \/ LocalPush(c) \/ LocalPop(c) \/ LocalSize(c) \/ LocalWaitForElement(c)
    \/ Unlock(c) \/ Return(c)

\* A process calls an operation on some server's queue.
Start(c) ==
    \E s \in Servers :
        \/ \E v \in Vals : Push(c, s, v)
        \/ Pop(c, s) \/ Size(c, s) \/ WaitForElement(c, s)

Next == \E c \in Clients : Start(c) \/ Step(c)

Spec == Init /\ [][Next]_vars

-----------------------------------------------------------------------------
\* The value LocalPop has copied is still the front when it calls pop_front:
\* no element is returned twice and none is dropped unread.
FrontFresh ==
    \A c \in Clients :
        At(c, "apply", "Pop") => Mine(c) # <<>> /\ front[c] = Head(Mine(c))

(***************************************************************************)
(* The inductive invariant.  A call addresses the server it names, only    *)
(* Push, Pop and Size come past the lock, and nothing has a result before  *)
(* its function has computed it (CallShape); the room that push_back has   *)
(* found in the segment is still there when it links the element           *)
(* (RoomReserved).                                                         *)
(***************************************************************************)
CallShape ==
    \A c \in Clients :
        /\ stage[c] = "idle" <=> call[c] = NoCall
        /\ call[c] # NoCall => target[c] = call[c].server
        /\ stage[c] \in Holding => call[c] \in QueueCalls
        /\ stage[c] \in {"idle", "sent", "entry", "read", "apply"}
              => res[c] = NoResult

RoomReserved ==
    \A c \in Clients : At(c, "apply", "Push") => Len(Mine(c)) < Capacity

IndInv == TypeOK /\ LockDiscipline /\ CallShape /\ FrontFresh /\ RoomReserved

(***************************************************************************)
(* The queues implement AtomicQueue.  An operation is done once its Local* *)
(* function has computed the result.  WaitForElement changes nothing and   *)
(* is not visible.                                                         *)
(***************************************************************************)
Visible(c) == call[c] \in QueueCalls

phase == [c \in Clients |->
            IF ~Visible(c) THEN "idle"
            ELSE IF stage[c] \in {"unlock", "reply"} THEN "done" ELSE "pending"]

absCall == [c \in Clients |-> IF Visible(c) THEN call[c] ELSE NoCall]

absRes == [c \in Clients |-> IF Visible(c) THEN res[c] ELSE NoResult]

Abstract == INSTANCE AtomicQueue WITH call <- absCall, res <- absRes

\* Push, Pop and Size are linearizable and the queue is FIFO: elements leave
\* it once each, in the order in which their Pushes took effect.
Linearizable == Abstract!Spec
=============================================================================
