---------------------------- MODULE AtomicQueue -----------------------------
(***************************************************************************)
(* What a distributed queue promises: one FIFO queue per server, and Push, *)
(* Pop and Size operations that take effect in a single instant between    *)
(* their call and their return.  A Push may fail for lack of memory, and   *)
(* then leaves the queue as it is.                                         *)
(***************************************************************************)
EXTENDS Sequences, Naturals

CONSTANTS
    Clients, Servers, Vals, DefaultVal

VARIABLES
    queue,         \* queue[s]: the elements of server s's queue, oldest first
    phase,         \* phase[c]: "idle", "pending" (called) or "done"
    call,          \* call[c]: the operation under way, with its arguments
    res            \* res[c]: the result of an operation that is done

absVars == <<queue, phase, call, res>>

NoCall == [op |-> "none"]
NoResult == [ok |-> "none", val |-> DefaultVal, size |-> 0]

QueueCalls == [op : {"Push"}, server : Servers, val : Vals]
              \cup [op : {"Pop", "Size"}, server : Servers]

Init ==
    /\ queue = [s \in Servers |-> <<>>]
    /\ phase = [c \in Clients |-> "idle"]
    /\ call = [c \in Clients |-> NoCall]
    /\ res = [c \in Clients |-> NoResult]

Begin(c, cl) ==
    /\ phase[c] = "idle"
    /\ phase' = [phase EXCEPT ![c] = "pending"]
    /\ call' = [call EXCEPT ![c] = cl]
    /\ UNCHANGED <<queue, res>>

Pending(c, op) == phase[c] = "pending" /\ call[c].op = op

Mine(c) == queue[call[c].server]

\* The operation takes effect: its server's queue becomes new.
Effect(c, new, result) ==
    /\ queue' = [queue EXCEPT ![call[c].server] = new]
    /\ phase' = [phase EXCEPT ![c] = "done"]
    /\ res' = [res EXCEPT ![c] = result]
    /\ call' = call

DoPush(c) ==
    /\ Pending(c, "Push")
    /\ \/ Effect(c, Append(Mine(c), call[c].val), [NoResult EXCEPT !.ok = "true"])
       \/ Effect(c, Mine(c), [NoResult EXCEPT !.ok = "bad_alloc"])

DoPop(c) ==
    /\ Pending(c, "Pop")
    /\ IF Mine(c) # <<>>
       THEN Effect(c, Tail(Mine(c)),
                   [NoResult EXCEPT !.ok = "true", !.val = Head(Mine(c))])
       ELSE Effect(c, Mine(c), [NoResult EXCEPT !.ok = "false"])

DoSize(c) ==
    /\ Pending(c, "Size")
    /\ Effect(c, Mine(c), [NoResult EXCEPT !.ok = "true", !.size = Len(Mine(c))])

End(c) ==
    /\ phase[c] = "done"
    /\ phase' = [phase EXCEPT ![c] = "idle"]
    /\ call' = [call EXCEPT ![c] = NoCall]
    /\ res' = [res EXCEPT ![c] = NoResult]
    /\ queue' = queue

Next ==
    \E c \in Clients :
        \/ \E cl \in QueueCalls : Begin(c, cl)
        \/ DoPush(c) \/ DoPop(c) \/ DoSize(c)
        \/ End(c)

Spec == Init /\ [][Next]_absVars
=============================================================================
