-------------------------- MODULE UnorderedMapScan --------------------------
(***************************************************************************)
(* GetAllData visits the servers one after the other and locks only the    *)
(* shard it is reading, while Puts and Erases go on everywhere.  What it   *)
(* returns is no snapshot.  Two history variables say what it still is.    *)
(***************************************************************************)
EXTENDS UnorderedMap

VARIABLES
    ever,          \* ever[c]: pairs in the map at some time since c's scan began
    always         \* always[c]: pairs in the map at all times since then

scanVars == <<vars, ever, always>>

Scanning(c) == call[c] = ScanCall

ScanInit ==
    /\ Init
    /\ ever = [c \in Clients |-> {}]
    /\ always = [c \in Clients |-> {}]

\* The history of every scan under way takes in the map as it is now.
Record ==
    /\ ever' = [c \in Clients |->
                  IF Scanning(c)' THEN ever[c] \cup store' ELSE {}]
    /\ always' = [c \in Clients |->
                    IF Scanning(c)'
                    THEN IF Scanning(c) THEN always[c] \cap store' ELSE store'
                    ELSE {}]

ScanNext == Next /\ Record

ScanSpec == ScanInit /\ [][ScanNext]_scanVars

-----------------------------------------------------------------------------
\* final_values, the concatenation of what the servers returned so far.
Collected(c) == UNION {got[c][s] : s \in Servers}

\* The last server has answered and GetAllData returns final_values.
ScanComplete(c) ==
    Scanning(c) /\ stage[c] = "reply" /\ LegsAfter(c, target[c]) = {}

\* GetAllData invents nothing: every pair it returns was in the map at some
\* time between its call and its return.
ScanSound == \A c \in Clients : Collected(c) \subseteq ever[c]

\* GetAllData forgets nothing: a pair that was in the map from its call to
\* its return is in the result, wherever the pair's shard comes in the scan.
ScanFindsAll ==
    \A c \in Clients : ScanComplete(c) => always[c] \subseteq Collected(c)

\* GetAllData returns no key twice, although a key may be erased and put
\* again, with another value, between its visits of two servers: it appends
\* what it reads, so that a second visit of a server would show.
ScanKeysOnce ==
    \A c \in Clients : \A s, t \in Servers :
        \A p \in got[c][s], q \in got[c][t] : p[1] = q[1] => s = t /\ p = q

(***************************************************************************)
(* The inductive invariant.  What GetAllData has of a server are nodes of  *)
(* different keys that are at home there, and of a server that it is still *)
(* to read it has nothing (CollectedAtHome).  The servers it has read are  *)
(* all but Unread(c), and when it read one, every pair that had been in    *)
(* the map since the call began and is at home there was in the shard      *)
(* (FoundSoFar).                                                           *)
(***************************************************************************)
HomeOf(p) == PutRoute(Hash[p[1]], NumServers)

Unread(c) ==
    LegsAfter(c, target[c])
    \cup (IF stage[c] \in {"unlock", "reply"} THEN {} ELSE {target[c]})

CollectedAtHome ==
    \A c \in Clients, s \in Servers :
        /\ ~Scanning(c) \/ s \in Unread(c) => got[c][s] = {}
        /\ \A p \in got[c][s] :
              HomeOf(p) = s /\ \A q \in got[c][s] : q[1] = p[1] => q = p

HistorySound ==
    /\ ever \in [Clients -> SUBSET Pairs] /\ always \in [Clients -> SUBSET Pairs]
    /\ \A c \in Clients : Scanning(c) => always[c] \subseteq store

FoundSoFar ==
    \A c \in Clients : Scanning(c) =>
        \A p \in always[c] : HomeOf(p) \notin Unread(c) => p \in got[c][HomeOf(p)]

ScanInv ==
    /\ IndInv /\ CollectedAtHome
    /\ HistorySound /\ FoundSoFar /\ ScanSound
=============================================================================
