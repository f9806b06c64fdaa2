----------------------------- MODULE RangeScan -----------------------------
(***************************************************************************)
(* LocalContainsInServer: the keys from key_start to key_end of one shard  *)
(* of a map or set, and the keys equal to a given one of a multimap.  The  *)
(* functions treat a shard of one element apart from the others.           *)
(*                                                                         *)
(* A shard is the set S of its keys; keys are numbers, as Compare is       *)
(* std::less.  An iterator is the key it points to, and to step it is to   *)
(* go to the next greater or smaller key of S.                             *)
(***************************************************************************)
EXTENDS Integers, FiniteSets, FiniteSetsExt

\* What a range query means.
InRange(S, lo, hi) == {k \in S : lo <= k /\ k <= hi}

\* lower_bound(key_start), when it is not end().
LowerBound(S, lo) == Min({k \in S : lo <= k})

\* The element before k in S.
Preceding(S, k) == {j \in S : j < k}

\* lower_bound, then one step back unless that leads to a key below key_start.
MutantScanStartKeepsStep(S, lo) ==
    LET first == LowerBound(S, lo)
        before == Preceding(S, first)
    IN  IF before # {} THEN Max(before) ELSE first

ScanStart(S, lo) ==
    LET first == LowerBound(S, lo)
        before == Preceding(S, first)
    IN  IF before # {} /\ ~(lo > Max(before)) THEN Max(before) ELSE first

\* The loop: on from start, until a key is greater than key_end.
MutantScanLoopExcludesEnd(S, start, hi) ==
    {k \in S : start <= k /\ \A j \in S : start <= j /\ j <= k => j < hi}

ScanLoop(S, start, hi) ==
    {k \in S : start <= k /\ \A j \in S : start <= j /\ j <= k => ~(j > hi)}

\* The branch for shards of two elements or more.
ManyBranch(S, lo, hi) ==
    IF \A k \in S : k < lo THEN {} ELSE ScanLoop(S, ScanStart(S, lo), hi)

\* map: the only element, if it is greater than key_start.
MapOneBranch(S, lo) == {k \in S : k > lo}

\* set: the only element, if it is not less than key_start.
MutantSetOneBranchStrict(S, lo) == {k \in S : k > lo}

SetOneBranch(S, lo) == {k \in S : k >= lo}

MapScan(S, lo, hi) ==
    IF S = {} THEN {}
    ELSE IF Cardinality(S) = 1 THEN MapOneBranch(S, lo) ELSE ManyBranch(S, lo, hi)

SetScan(S, lo, hi) ==
    IF S = {} THEN {}
    ELSE IF Cardinality(S) = 1 THEN SetOneBranch(S, lo) ELSE ManyBranch(S, lo, hi)

-----------------------------------------------------------------------------
\* multimap compares with the key type's own Contains, which is equality in
\* every key type of the repository: the loop stops at the first other key.
MutantMultimapLoopWithoutBreak(S, start, key) == {k \in S : start <= k}

MultimapLoop(S, start, key) ==
    {k \in S : start <= k /\ \A j \in S : start <= j /\ j <= k => j = key}

\* One step back from lower_bound unless the key there is a different one.
MultimapStart(S, key) ==
    LET first == LowerBound(S, key)
        before == Preceding(S, first)
    IN  IF before # {} /\ Max(before) = key THEN Max(before) ELSE first

\* A shard of one element is returned whatever its key.
MultimapScan(S, key) ==
    IF S = {} \/ Cardinality(S) = 1 THEN S
    ELSE IF \A k \in S : k < key THEN {}
    ELSE MultimapLoop(S, MultimapStart(S, key), key)
=============================================================================
