------------------------ MODULE AtomicPriorityQueue ------------------------
(***************************************************************************)
(* What a distributed priority queue promises: a bag of values per server, *)
(* and operations that take effect in a single instant between their call  *)
(* and their return.  Top and Pop return a greatest value.  A Push may     *)
(* fail for lack of memory, and then leaves the queue as it is.            *)
(***************************************************************************)
EXTENDS ValueBags

CONSTANTS
    Clients, Servers, Vals, DefaultVal

VARIABLES
    heap,          \* heap[s]: the bag of values in server s's queue
    phase,         \* phase[c]: "idle", "pending" (called) or "done"
    call,          \* call[c]: the operation under way, with its arguments
    res            \* res[c]: the result of an operation that is done

absVars == <<heap, phase, call, res>>

NoCall == [op |-> "none"]
NoResult == [ok |-> "none", val |-> DefaultVal, size |-> 0]

QueueCalls == [op : {"Push"}, server : Servers, val : Vals]
              \cup [op : {"Pop", "Top", "Size"}, server : Servers]

Init ==
    /\ heap = [s \in Servers |-> EmptyBag]
    /\ phase = [c \in Clients |-> "idle"]
    /\ call = [c \in Clients |-> NoCall]
    /\ res = [c \in Clients |-> NoResult]

Begin(c) ==
    /\ phase[c] = "idle"
    /\ phase' = [phase EXCEPT ![c] = "pending"]
    /\ \E cl \in QueueCalls : call' = [call EXCEPT ![c] = cl]
    /\ UNCHANGED <<heap, res>>

Pending(c, op) == phase[c] = "pending" /\ call[c].op = op

Mine(c) == heap[call[c].server]

\* The operation takes effect: its server's queue becomes new.
Effect(c, new, result) ==
    /\ heap' = [heap EXCEPT ![call[c].server] = new]
    /\ phase' = [phase EXCEPT ![c] = "done"]
    /\ res' = [res EXCEPT ![c] = result]
    /\ call' = call

DoPush(c) ==
    /\ Pending(c, "Push")
    /\ \/ Effect(c, WithValue(Mine(c), call[c].val), [NoResult EXCEPT !.ok = "true"])
       \/ Effect(c, Mine(c), [NoResult EXCEPT !.ok = "bad_alloc"])

\* Pop and Top of an empty queue report that there is nothing.
DoNothing(c) ==
    /\ Pending(c, "Pop") \/ Pending(c, "Top")
    /\ Mine(c) = EmptyBag
    /\ Effect(c, Mine(c), [NoResult EXCEPT !.ok = "false"])

Found(v) == [NoResult EXCEPT !.ok = "true", !.val = v]

DoPop(c) ==
    /\ Pending(c, "Pop")
    /\ \E v \in Vals : /\ IsGreatest(v, Mine(c))
                       /\ Effect(c, WithoutValue(Mine(c), v), Found(v))

DoTop(c) ==
    /\ Pending(c, "Top")
    /\ \E v \in Vals : IsGreatest(v, Mine(c)) /\ Effect(c, Mine(c), Found(v))

DoSize(c) ==
    /\ Pending(c, "Size")
    /\ Effect(c, Mine(c), [NoResult EXCEPT !.ok = "true", !.size = BagSize(Mine(c))])

End(c) ==
    /\ phase[c] = "done"
    /\ phase' = [phase EXCEPT ![c] = "idle"]
    /\ call' = [call EXCEPT ![c] = NoCall]
    /\ res' = [res EXCEPT ![c] = NoResult]
    /\ heap' = heap

Next ==
    \E c \in Clients :
        \/ Begin(c)
        \/ DoPush(c) \/ DoNothing(c) \/ DoPop(c) \/ DoTop(c) \/ DoSize(c)
        \/ End(c)

Spec == Init /\ [][Next]_absVars
=============================================================================
