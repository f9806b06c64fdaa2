--------------------------- MODULE GlobalSequence ---------------------------
(***************************************************************************)
(* basket::global_sequence: one counter per server, incremented under the  *)
(* mutex of its segment by processes on the mapping and by worker threads. *)
(* ++*value is a read and a write, between which anybody else may run.     *)
(***************************************************************************)
EXTENDS RpcContainer, Sequences

CONSTANT
    MaxCalls       \* bound: how many numbers each process asks for

ASSUME MaxCallsAssumption == MaxCalls \in Nat

VARIABLES
    value,         \* value[s]: *value in server s's segment, a uint64_t
    copy,          \* copy[c]: what ++ has read
    res,           \* res[c]: what LocalGetNextSequence returns
    made,          \* made[c]: how many calls c has made
    issued,        \* history, issued[s]: the numbers of server s, as they were taken
    since          \* history, since[c]: how many numbers c's server had
                   \* issued when c called it

sequenceVars == <<value, copy, res, made, issued, since>>
vars == <<stage, target, mutex, value, copy, res, made, issued, since>>

TypeOK ==
    /\ RpcTypeOK
    /\ value \in [Servers -> Nat]
    /\ copy \in [Clients -> Nat]
    /\ res \in [Clients -> Nat]
    /\ made \in [Clients -> 0 .. MaxCalls]
    /\ issued \in [Servers -> Seq(Nat)]
    /\ since \in [Clients -> Nat]

Init ==
    /\ RpcInit
    /\ value = [s \in Servers |-> 0]
    /\ copy = [c \in Clients |-> 0]
    /\ res = [c \in Clients |-> 0]
    /\ made = [c \in Clients |-> 0]
    /\ issued = [s \in Servers |-> <<>>]
    /\ since = [c \in Clients |-> 0]

-----------------------------------------------------------------------------
GetNextSequenceServer(c, s) ==
    /\ stage[c] = "idle"
    /\ made[c] < MaxCalls
    /\ Dispatch(c, s)
    /\ made' = [made EXCEPT ![c] = @ + 1]
    /\ since' = [since EXCEPT ![c] = Len(issued[s])]
    /\ UNCHANGED <<value, copy, res, issued>>

\* The caller's own server, whether or not it is on the caller's node.
GetNextSequence(c) == GetNextSequenceServer(c, MyServer[c])

ServeRequest(c) == Accept(c) /\ UNCHANGED sequenceVars

Lock(c) == Acquire(c) /\ UNCHANGED sequenceVars

Unlock(c) == Release(c) /\ UNCHANGED sequenceVars

\* ++*value reads the counter ...
ReadValue(c) ==
    /\ stage[c] = "read"
    /\ copy' = [copy EXCEPT ![c] = value[target[c]]]
    /\ Advance(c, "apply")
    /\ UNCHANGED <<value, res, made, issued, since>>

\* ... and writes it, incremented; that is also the function's result.
MutantIncrementReturnsOld(c) ==
    /\ stage[c] = "apply"
    /\ value' = [value EXCEPT ![target[c]] = copy[c] + 1]
    /\ res' = [res EXCEPT ![c] = copy[c]]
    /\ issued' = [issued EXCEPT ![target[c]] = Append(@, copy[c] + 1)]
    /\ Advance(c, "unlock")
    /\ UNCHANGED <<copy, made, since>>

Increment(c) ==
    /\ stage[c] = "apply"
    /\ value' = [value EXCEPT ![target[c]] = copy[c] + 1]
    /\ res' = [res EXCEPT ![c] = copy[c] + 1]
    /\ issued' = [issued EXCEPT ![target[c]] = Append(@, copy[c] + 1)]
    /\ Advance(c, "unlock")
    /\ UNCHANGED <<copy, made, since>>

Return(c) ==
    /\ Finish(c)
    /\ copy' = [copy EXCEPT ![c] = 0]
    /\ res' = [res EXCEPT ![c] = 0]
    /\ since' = [since EXCEPT ![c] = 0]
    /\ UNCHANGED <<value, made, issued>>

\* A step of a call that is under way.
Step(c) ==
    \/ ServeRequest(c) \/ Lock(c) \/ ReadValue(c) \/ Increment(c)
    \/ Unlock(c) \/ Return(c)

Start(c) == GetNextSequence(c) \/ \E s \in Servers : GetNextSequenceServer(c, s)

Next == \E c \in Clients : Start(c) \/ Step(c)

Spec == Init /\ [][Next]_vars

-----------------------------------------------------------------------------
(***************************************************************************)
(* A server's numbers are 1, 2, 3, ... in the order in which they were     *)
(* taken: LocalGetNextSequence returns none twice and leaves none out,     *)
(* whoever executes it.                                                    *)
(***************************************************************************)
NumbersInOrder == \A s \in Servers : \A i \in DOMAIN issued[s] : issued[s][i] = i

(***************************************************************************)
(* What makes the numbers a sequence for its users: GetNextSequence        *)
(* returns a greater number than every call to the same server that had    *)
(* returned before it was called, in whatever process.                     *)
(***************************************************************************)
LaterCallsGetGreaterNumbers ==
    \A c \in Clients : stage[c] \in {"unlock", "reply"} => res[c] > since[c]

-----------------------------------------------------------------------------
(***************************************************************************)
(* The inductive invariant: the counter counts the numbers issued, what ++ *)
(* has read is still the counter's value when it writes, and a call began  *)
(* no later than now.                                                      *)
(***************************************************************************)
ValueCounts == \A s \in Servers : value[s] = Len(issued[s])

CopyFresh == \A c \in Clients : stage[c] = "apply" => copy[c] = value[target[c]]

BegunBefore ==
    \A c \in Clients : stage[c] # "idle" => since[c] <= Len(issued[target[c]])

IndInv ==
    /\ TypeOK /\ LockDiscipline /\ ValueCounts /\ CopyFresh /\ BegunBefore
    /\ NumbersInOrder /\ LaterCallsGetGreaterNumbers
=============================================================================
