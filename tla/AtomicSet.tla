----------------------------- MODULE AtomicSet ------------------------------
(***************************************************************************)
(* What a distributed set promises: an ordered set per server, a server to *)
(* which each key belongs, and operations that take effect in a single     *)
(* instant between their call and their return.  A Put of a new key may    *)
(* fail for lack of memory, and then changes nothing.                      *)
(***************************************************************************)
EXTENDS Integers, FiniteSets

CONSTANTS
    Clients, Servers, Keys,
    Home,          \* Home[k]: the server to which key k belongs
    MaxN           \* the greatest argument of SeekFirstN

VARIABLES
    tree,          \* tree[s]: the keys of server s
    phase,         \* phase[c]: "idle", "pending" (called) or "done"
    call,          \* call[c]: the operation under way, with its arguments
    res            \* res[c]: the result of an operation that is done

absVars == <<tree, phase, call, res>>

NoCall == [op |-> "none"]
NoResult == [ok |-> "none", keys |-> {}, size |-> 0]

SetCalls ==
    [op : {"Put", "Get", "Erase"}, key : Keys]
    \cup [op : {"SeekFirst", "PopFirst", "Size"}, server : Servers]
    \cup [op : {"SeekFirstN"}, server : Servers, n : 0 .. MaxN]

\* The server an operation is about.
ServerOf(cl) == IF "key" \in DOMAIN cl THEN Home[cl.key] ELSE cl.server

Init ==
    /\ tree = [s \in Servers |-> {}]
    /\ phase = [c \in Clients |-> "idle"]
    /\ call = [c \in Clients |-> NoCall]
    /\ res = [c \in Clients |-> NoResult]

Begin(c) ==
    /\ phase[c] = "idle"
    /\ phase' = [phase EXCEPT ![c] = "pending"]
    /\ \E cl \in SetCalls : call' = [call EXCEPT ![c] = cl]
    /\ UNCHANGED <<tree, res>>

Pending(c, op) == phase[c] = "pending" /\ call[c].op = op

Mine(c) == tree[ServerOf(call[c])]

Truth(b) == IF b THEN "true" ELSE "false"

\* The n smallest keys of m.
FirstOf(m, n) == {k \in m : Cardinality({j \in m : j < k}) < n}

\* The operation takes effect: its server's set becomes new.
Effect(c, new, ok, keys, size) ==
    /\ tree' = [tree EXCEPT ![ServerOf(call[c])] = new]
    /\ phase' = [phase EXCEPT ![c] = "done"]
    /\ res' = [res EXCEPT ![c] = [ok |-> ok, keys |-> keys, size |-> size]]
    /\ call' = call

DoPut(c) ==
    /\ Pending(c, "Put")
    /\ \/ Effect(c, Mine(c) \cup {call[c].key}, "true", {}, 0)
       \/ call[c].key \notin Mine(c) /\ Effect(c, Mine(c), "bad_alloc", {}, 0)

DoGet(c) ==
    /\ Pending(c, "Get")
    /\ Effect(c, Mine(c), Truth(call[c].key \in Mine(c)), {}, 0)

DoErase(c) ==
    /\ Pending(c, "Erase")
    /\ Effect(c, Mine(c) \ {call[c].key}, Truth(call[c].key \in Mine(c)), {}, 0)

DoSeekFirst(c) ==
    /\ Pending(c, "SeekFirst")
    /\ Effect(c, Mine(c), Truth(Mine(c) # {}), FirstOf(Mine(c), 1), 0)

DoPopFirst(c) ==
    /\ Pending(c, "PopFirst")
    /\ Effect(c, Mine(c) \ FirstOf(Mine(c), 1), Truth(Mine(c) # {}),
              FirstOf(Mine(c), 1), 0)

DoSeekFirstN(c) ==
    /\ Pending(c, "SeekFirstN")
    /\ LET first == FirstOf(Mine(c), call[c].n)
       IN  Effect(c, Mine(c), Truth(first # {}), first, 0)

DoSize(c) ==
    /\ Pending(c, "Size")
    /\ Effect(c, Mine(c), "true", {}, Cardinality(Mine(c)))

End(c) ==
    /\ phase[c] = "done"
    /\ phase' = [phase EXCEPT ![c] = "idle"]
    /\ call' = [call EXCEPT ![c] = NoCall]
    /\ res' = [res EXCEPT ![c] = NoResult]
    /\ tree' = tree

Next ==
    \E c \in Clients :
        \/ Begin(c)
        \/ DoPut(c) \/ DoGet(c) \/ DoErase(c)
        \/ DoSeekFirst(c) \/ DoPopFirst(c) \/ DoSeekFirstN(c) \/ DoSize(c)
        \/ End(c)

Spec == Init /\ [][Next]_absVars
=============================================================================
