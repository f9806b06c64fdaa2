--------------------------- MODULE OrderedSetScan ---------------------------
(***************************************************************************)
(* Contains and GetAllData of the set, which read the servers one after    *)
(* the other while Puts, Erases and PopFirsts go on everywhere.  Two       *)
(* history variables say what the result still is.                         *)
(***************************************************************************)
EXTENDS OrderedSet

CONSTANT
    Scanners       \* bound: the processes that call Contains and GetAllData

VARIABLES
    ever,          \* ever[c]: keys in the set at some time since c's scan began
    always         \* always[c]: keys in the set at all times since then

scanVars == <<vars, ever, always>>

Scanning(c) == call[c] \in ScanCalls

Present == UNION {tree[s] : s \in Servers}

ScanInit ==
    /\ Init
    /\ ever = [c \in Clients |-> {}]
    /\ always = [c \in Clients |-> {}]

\* The history of every scan under way takes in the set as it is now.
Record ==
    /\ ever' = [c \in Clients |->
                  IF Scanning(c)' THEN ever[c] \cup Present' ELSE {}]
    /\ always' = [c \in Clients |->
                    IF Scanning(c)'
                    THEN IF Scanning(c) THEN always[c] \cap Present' ELSE Present'
                    ELSE {}]

\* Every process changes and queries the set; two scans do not disturb each
\* other, and only some processes scan.
ScanNext ==
    /\ \E c \in Clients :
          \/ StartKey(c) \/ StartFirst(c) \/ (c \in Scanners /\ StartScan(c))
          \/ Step(c)
    /\ Record

ScanSpec == ScanInit /\ [][ScanNext]_scanVars

-----------------------------------------------------------------------------
Collected(c) == UNION {got[c][s] : s \in Servers}

\* The keys c asked for.
Wanted(c, m) ==
    IF call[c].op = "GetAllData" THEN m ELSE InRange(m, call[c].lo, call[c].hi)

\* The last server has answered and the scan returns.
ScanComplete(c) ==
    Scanning(c) /\ stage[c] = "reply" /\ LegsAfter(c, target[c]) = {}

\* A scan invents nothing: what it returns was in the set at some time
\* between its call and its return.
ScanSound == \A c \in Clients : Collected(c) \subseteq ever[c]

\* A scan forgets nothing: a key it asked for that stayed in the set from its
\* call to its return is in the result, also if it was alone in its shard.
ScanFindsAll ==
    \A c \in Clients :
        ScanComplete(c) => Wanted(c, always[c]) \subseteq Collected(c)

\* What Contains returns beyond key_end is the only key that one server had,
\* so that a call returns at most one such key per server, and it returns no
\* key below key_start.
StraysAreAlone ==
    \A c \in Clients, s \in Servers :
        Scanning(c) => \A k \in got[c][s] \ Wanted(c, got[c][s]) :
                            got[c][s] = {k} /\ k > call[c].hi

(***************************************************************************)
(* Why a scan forgets nothing.  The servers it has read are all but        *)
(* Unread(c), and when it read one, every key that had been in the set     *)
(* since the call began and is at home there was in the shard.             *)
(***************************************************************************)
HistorySound ==
    /\ ever \in [Clients -> SUBSET Keys] /\ always \in [Clients -> SUBSET Keys]
    /\ \A c \in Clients : Scanning(c) => always[c] \subseteq Present

FoundSoFar ==
    \A c \in Clients : Scanning(c) =>
        \A k \in Wanted(c, always[c]) :
            Route(k) \notin Unread(c) => k \in got[c][Route(k)]

ScanInv == ShardInv /\ HistorySound /\ FoundSoFar
=============================================================================
