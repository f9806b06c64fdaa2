----------------------------- MODULE AtomicMap ------------------------------
(***************************************************************************)
(* What a distributed map promises: one map, and operations that take      *)
(* effect in a single instant between their call and their return.  There  *)
(* are no servers, no threads and no locks here.  A Put of a key that is   *)
(* not in the map may fail for lack of memory, and then changes nothing.   *)
(***************************************************************************)
CONSTANTS
    Clients, Keys, Vals, DefaultVal

VARIABLES
    store,         \* the pairs in the map
    phase,         \* phase[c]: "idle", "pending" (called) or "done"
    call,          \* call[c]: the operation under way, with its arguments
    res            \* res[c]: the result of an operation that is done

absVars == <<store, phase, call, res>>

NoCall == [op |-> "none"]
NoResult == [ok |-> "none", val |-> DefaultVal]

MapCalls == [op : {"Put"}, key : Keys, val : Vals]
            \cup [op : {"Get", "Erase"}, key : Keys]

Init ==
    /\ store = {}
    /\ phase = [c \in Clients |-> "idle"]
    /\ call = [c \in Clients |-> NoCall]
    /\ res = [c \in Clients |-> NoResult]

At(k) == {p \in store : p[1] = k}

Begin(c, cl) ==
    /\ phase[c] = "idle"
    /\ phase' = [phase EXCEPT ![c] = "pending"]
    /\ call' = [call EXCEPT ![c] = cl]
    /\ UNCHANGED <<store, res>>

Pending(c, op) == phase[c] = "pending" /\ call[c].op = op

\* The operation takes effect: the map becomes new and the result is fixed.
Effect(c, new, ok, val) ==
    /\ store' = new
    /\ phase' = [phase EXCEPT ![c] = "done"]
    /\ res' = [res EXCEPT ![c] = [ok |-> ok, val |-> val]]
    /\ call' = call

DoPut(c) ==
    /\ Pending(c, "Put")
    /\ Effect(c, (store \ At(call[c].key)) \cup {<<call[c].key, call[c].val>>},
              "true", DefaultVal)

DoPutExhausted(c) ==
    /\ Pending(c, "Put")
    /\ At(call[c].key) = {}
    /\ Effect(c, store, "bad_alloc", DefaultVal)

DoGet(c) ==
    /\ Pending(c, "Get")
    /\ \/ \E p \in At(call[c].key) : Effect(c, store, "true", p[2])
       \/ At(call[c].key) = {} /\ Effect(c, store, "false", DefaultVal)

DoErase(c) ==
    /\ Pending(c, "Erase")
    /\ Effect(c, store \ At(call[c].key),
              IF At(call[c].key) # {} THEN "true" ELSE "false", DefaultVal)

End(c) ==
    /\ phase[c] = "done"
    /\ phase' = [phase EXCEPT ![c] = "idle"]
    /\ call' = [call EXCEPT ![c] = NoCall]
    /\ res' = [res EXCEPT ![c] = NoResult]
    /\ store' = store

Next ==
    \E c \in Clients :
        \/ \E cl \in MapCalls : Begin(c, cl)
        \/ DoPut(c) \/ DoPutExhausted(c) \/ DoGet(c) \/ DoErase(c)
        \/ End(c)

Spec == Init /\ [][Next]_absVars
=============================================================================
