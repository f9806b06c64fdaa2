---------------------------- MODULE SharedProofs ----------------------------
(***************************************************************************)
(* What the proofs of several containers need, and the theorems about the  *)
(* functions they call: the call path keeps types and locks, for every     *)
(* container; and the routes, ports, range scans and start-up of           *)
(* configuration are right on the inputs of PureCheck, for any number of   *)
(* servers, any hash and any shard of natural keys.                        *)
(***************************************************************************)
EXTENDS RpcContainer, PureCheck, WellFoundedInduction, FiniteSetTheorems, TLAPS

\* A call to any server keeps the call path well typed and reaches that
\* server's shard.
LEMMA DispatchType ==
    ASSUME RpcTypeOK, NEW c \in Clients, NEW s \in Servers, Dispatch(c, s)
    PROVE  RpcTypeOK' /\ target'[c] = s
  <1>1. target' = [target EXCEPT ![c] = s]
    BY DEF Dispatch, IsLocal
  <1>2. stage' \in [Clients -> Stages] /\ mutex' = mutex
    BY DEF RpcTypeOK, Dispatch, Stages
  <1> QED
    BY <1>1, <1>2 DEF RpcTypeOK

\* So does every other step of the call path.
LEMMA RpcStepType ==
    ASSUME RpcTypeOK, NEW c \in Clients,
           \/ Accept(c) \/ Acquire(c) \/ Release(c) \/ Finish(c)
           \/ \E next \in Stages : Advance(c, next)
    PROVE  RpcTypeOK'
  BY PlacementAssumption
     DEF RpcTypeOK, Accept, Acquire, Release, Finish, Advance, Stages

\* A process that holds no lock may address any server.
LEMMA DispatchLocks ==
    ASSUME RpcTypeOK, LockDiscipline, NEW c \in Clients, NEW s \in Servers,
           stage[c] \notin Holding, Dispatch(c, s)
    PROVE  LockDiscipline'
  <1>1. /\ stage'[c] \in {"entry", "sent"} /\ mutex' = mutex
        /\ \A d \in Clients \ {c} : stage'[d] = stage[d] /\ target'[d] = target[d]
    BY DEF Dispatch, RpcTypeOK
  <1> QED
    BY <1>1 DEF LockDiscipline, RpcTypeOK, Holding

\* The mutex is taken only when it is free, given back only by the call that
\* holds it, and kept between the two.
LEMMA RpcStepLocks ==
    ASSUME RpcTypeOK, LockDiscipline, NEW c \in Clients,
           \/ Accept(c) \/ Acquire(c) \/ Release(c) \/ Finish(c)
           \/ stage[c] \in Holding /\ \E next \in Holding : Advance(c, next)
    PROVE  LockDiscipline'
  <1> USE DEF RpcTypeOK, LockDiscipline, Holding
  <1>1. CASE Accept(c)
    BY <1>1 DEF Accept
  <1>2. CASE Acquire(c)
    BY <1>2, FreeAssumption DEF Acquire
  <1>3. CASE Release(c)
    BY <1>3, FreeAssumption DEF Release
  <1>4. CASE Finish(c)
    BY <1>4 DEF Finish
  <1>5. CASE stage[c] \in Holding /\ \E next \in Holding : Advance(c, next)
    BY <1>5 DEF Advance
  <1> QED
    BY <1>1, <1>2, <1>3, <1>4, <1>5

\* Two calls inside their scoped_locks are in different shards.
LEMMA Exclusion ==
    ASSUME RpcTypeOK, LockDiscipline, NEW c \in Clients, NEW d \in Clients,
           c # d, stage[c] \in Holding, stage[d] \in Holding
    PROVE  target[c] # target[d]
  BY DEF LockDiscipline, RpcTypeOK

-----------------------------------------------------------------------------
(***************************************************************************)
(* For which numbers of servers unordered_map finds what it has put: the   *)
(* two routes agree on every hash exactly if num_servers divides 2^16.     *)
(***************************************************************************)

\* x divided by n is q with remainder r.
Divided(x, n, q, r) == q \in Nat /\ r \in Nat /\ r < n /\ x = n * q + r

\* Division is possible, and % is its remainder.
LEMMA Division ==
    \A x \in Nat, n \in Nat \ {0} : \E q : Divided(x, n, q, x % n)
  <1> SUFFICES ASSUME NEW x \in Nat, NEW n \in Nat \ {0}
               PROVE  Divided(x, n, x \div n, x % n)
    OBVIOUS
  <1>1. n \in Int /\ n > 0 /\ x \in Int
    BY SMT
  <1>2. x % n \in 0 .. (n - 1)
    BY <1>1, SMT
  <1>3. x = n * (x \div n) + (x % n)
    BY <1>1, SMT
  <1>4. x \div n \in Int
    BY <1>1, SMT
  <1>5. x \div n >= 0
    BY <1>1, <1>4, SMT
  <1> QED
    BY <1>2, <1>3, <1>4, <1>5, SMT DEF Divided

\* Quotient and remainder are unique.
LEMMA Unique ==
    \A x \in Nat, n \in Nat \ {0} : \A q, r, p, t :
        Divided(x, n, q, r) /\ Divided(x, n, p, t) => r = t
  <1> SUFFICES ASSUME NEW x \in Nat, NEW n \in Nat \ {0}, NEW q, NEW r, NEW p,
                      NEW t, Divided(x, n, q, r), Divided(x, n, p, t)
               PROVE  r = t
    OBVIOUS
  <1>1. /\ p \in Nat /\ q \in Nat /\ r \in 0 .. (n - 1) /\ t \in 0 .. (n - 1)
        /\ n * p + t = n * q + r
    BY SMT DEF Divided
  <1>2. n * (p - q) = r - t
    BY <1>1, SMT
  <1>3. ~(p - q >= 1)
    <2>1. p - q >= 1 => n * (p - q) >= n
      BY <1>1, SMT
    <2> QED
      BY <1>1, <1>2, <2>1, SMT
  <1>4. ~(p - q <= -1)
    <2>1. p - q <= -1 => n * (p - q) <= -n
      BY <1>1, SMT
    <2> QED
      BY <1>1, <1>2, <2>1, SMT
  <1>5. p = q
    BY <1>1, <1>3, <1>4, SMT
  <1> QED
    BY <1>1, <1>5, SMT

\* Whatever divides x by n leaves the remainder x % n.
LEMMA Remainder ==
    \A x \in Nat, n \in Nat \ {0} : \A q, r : Divided(x, n, q, r) => x % n = r
  BY Division, Unique

\* If num_servers divides 2^16, truncating the hash to 16 bits first does not
\* change the server: Get and Erase look where Put has stored.
THEOREM DividingServersAgree ==
    ASSUME NEW n \in 1 .. UInt16Range, Divides16Bits(n), NEW hash \in Nat
    PROVE  RoutesAgree(hash, n)
  <1>1. n \in Nat \ {0} /\ n <= UInt16Range /\ UInt16Range \in Nat \ {0}
        /\ UInt16Range % n = 0
    BY DEF UInt16Range, Divides16Bits
  <1>2. PICK m : Divided(UInt16Range, n, m, 0)
    BY <1>1, Division
  <1>3. PICK h, l : Divided(hash, UInt16Range, h, l) /\ hash % UInt16Range = l
    BY <1>1, Division
  <1>4. l \in Nat
    BY <1>3 DEF Divided
  <1>5. PICK q, r : Divided(l, n, q, r) /\ l % n = r
    BY <1>1, <1>4, Division
  <1>6. Divided(hash, n, m * h + q, r)
    <2>1. /\ m \in Nat /\ h \in Nat /\ l \in Nat /\ q \in Nat /\ r \in Nat
          /\ r < n /\ UInt16Range = n * m /\ hash = UInt16Range * h + l
          /\ l = n * q + r
      BY <1>1, <1>2, <1>3, <1>5, SMT DEF Divided
    <2>2. hash = n * (m * h + q) + r
      BY <1>1, <2>1, SMT
    <2> QED
      BY <2>1, <2>2, SMT DEF Divided
  <1>7. hash % n = r
    BY <1>1, <1>6, Remainder
  <1>8. Divided(r, UInt16Range, 0, r)
    BY <1>1, <1>5, SMT DEF Divided, UInt16Range
  <1>9. r \in Nat
    BY <1>5 DEF Divided
  <1>10. r % UInt16Range = r
    BY <1>1, <1>8, <1>9, Remainder
  <1> QED
    BY <1>3, <1>5, <1>7, <1>10 DEF RoutesAgree, PutRoute, GetRoute

\* If it does not, the hash 2^16 is put into server 0 and looked up elsewhere.
THEOREM OtherServersDisagree ==
    ASSUME NEW n \in 1 .. UInt16Range, ~Divides16Bits(n)
    PROVE  ~RoutesAgree(UInt16Range, n)
  <1> DEFINE r == UInt16Range % n
  <1>1. n \in Nat \ {0} /\ n <= UInt16Range /\ UInt16Range \in Nat \ {0}
    BY DEF UInt16Range
  <1>2. r # 0
    BY DEF Divides16Bits
  <1>3. PutRoute(UInt16Range, n) = 0
    <2>1. Divided(UInt16Range, UInt16Range, 1, 0) /\ Divided(0, n, 0, 0)
      BY <1>1, SMT DEF Divided, UInt16Range
    <2> QED
      BY <1>1, <2>1, Remainder DEF PutRoute
  <1>4. PICK q : Divided(UInt16Range, n, q, r)
    BY <1>1, Division
  <1> HIDE DEF r
  <1>5. r \in Nat /\ r < n
    BY <1>4 DEF Divided
  <1>6. Divided(r, UInt16Range, 0, r)
    BY <1>1, <1>5, SMT DEF Divided, UInt16Range
  <1>7. r % UInt16Range = r
    BY <1>1, <1>5, <1>6, Remainder
  <1> QED
    BY <1>2, <1>3, <1>7 DEF RoutesAgree, GetRoute, r

-----------------------------------------------------------------------------
(***************************************************************************)
(* The range queries of map, multimap and set.                             *)
(***************************************************************************)

\* A set of naturals that is not empty has a least element.
LEMMA MinIsLeast ==
    ASSUME NEW T \in SUBSET Nat, T # {}
    PROVE  Min(T) \in T /\ \A k \in T : Min(T) <= k
  <1>1. PICK x \in T : \A y \in T : ~(<<y, x>> \in OpToRel(<, Nat))
    BY NatLessThanWellFounded, WFMin
  <1>2. \A y \in T : ~(y < x)
    BY <1>1, Zenon DEF OpToRel
  <1>3. \A y \in T : x <= y
    BY <1>2
  <1> QED
    BY <1>3, Zenon DEF Min

\* And a greatest one, if it is bounded.
LEMMA MaxIsGreatest ==
    ASSUME NEW T \in SUBSET Nat, T # {}, NEW b \in Nat, \A k \in T : k < b
    PROVE  Max(T) \in T /\ \A k \in T : k <= Max(T)
  <1> DEFINE D == {d \in Nat : \E k \in T : d = b - k}
  <1>1. PICK t \in T : TRUE
    OBVIOUS
  <1>2. b - t \in D
    BY <1>1
  <1>3. PICK d \in D : \A e \in D : ~(<<e, d>> \in OpToRel(<, Nat))
    BY <1>2, NatLessThanWellFounded, WFMin
  <1>a. \A e \in D : ~(e < d)
    BY <1>3, Zenon DEF OpToRel
  <1>4. \A e \in D : d <= e
    BY <1>a
  <1>5. PICK x \in T : d = b - x
    BY <1>3
  <1>6. ASSUME NEW k \in T PROVE k <= x
    <2>1. b - k \in D
      BY <1>6
    <2> QED
      BY <1>4, <1>5, <2>1
  <1> QED
    BY <1>5, <1>6 DEF Max

\* lower_bound points to a key of the shard, and no key of the range is before
\* it.
LEMMA LowerBoundIsFirst ==
    ASSUME NEW S \in SUBSET Nat, NEW lo \in Nat, ~(\A k \in S : k < lo)
    PROVE  /\ LowerBound(S, lo) \in S /\ lo <= LowerBound(S, lo)
           /\ \A k \in S : lo <= k => LowerBound(S, lo) <= k
  <1> DEFINE T == {k \in S : lo <= k}
  <1>1. T \in SUBSET Nat
    OBVIOUS
  <1>2. T # {}
    OBVIOUS
  <1>3. Min(T) \in T /\ \A k \in T : Min(T) <= k
    BY <1>1, <1>2, MinIsLeast
  <1> QED
    BY <1>3 DEF LowerBound

\* The step back is always undone: what precedes lower_bound is below
\* key_start.
LEMMA ScanStartIsLowerBound ==
    ASSUME NEW S \in SUBSET Nat, NEW lo \in Nat, ~(\A k \in S : k < lo)
    PROVE  ScanStart(S, lo) = LowerBound(S, lo)
  <1> DEFINE first == LowerBound(S, lo)
             before == Preceding(S, first)
  <1>1. first \in Nat /\ \A k \in S : lo <= k => first <= k
    BY LowerBoundIsFirst
  <1>2. ASSUME before # {} PROVE lo > Max(before)
    <2>1. before \in SUBSET Nat /\ \A k \in before : k < first
      BY DEF Preceding
    <2>2. Max(before) \in before
      BY <1>1, <1>2, <2>1, MaxIsGreatest
    <2>3. Max(before) \in S /\ Max(before) < first
      BY <2>2 DEF Preceding
    <2>4. PICK j \in S : j = Max(before)
      BY <2>3
    <2>5. j \in Nat /\ j < first /\ (lo <= j => first <= j)
      BY <1>1, <2>3, <2>4
    <2>6. lo > j
      BY <1>1, <2>5
    <2> QED
      BY <2>4, <2>6
  <1> QED
    BY <1>2 DEF ScanStart

\* The general branch of LocalContainsInServer returns the range.
LEMMA ManyBranchIsRange ==
    ASSUME NEW S \in SUBSET Nat, NEW lo \in Nat, NEW hi \in Nat
    PROVE  ManyBranch(S, lo, hi) = InRange(S, lo, hi)
  <1>1. CASE \A k \in S : k < lo
    <2>1. \A k \in S : ~(lo <= k)
      BY <1>1
    <2>2. InRange(S, lo, hi) = {}
      BY <2>1 DEF InRange
    <2> QED
      BY <1>1, <2>2 DEF ManyBranch
  <1>2. CASE ~(\A k \in S : k < lo)
    <2> DEFINE first == LowerBound(S, lo)
    <2>1. first \in S /\ lo <= first /\ \A k \in S : lo <= k => first <= k
      BY <1>2, LowerBoundIsFirst
    <2>2. ManyBranch(S, lo, hi) = ScanLoop(S, first, hi)
      BY <1>2, ScanStartIsLowerBound DEF ManyBranch
    <2>3. ASSUME NEW k \in S PROVE k \in ScanLoop(S, first, hi) <=> lo <= k /\ k <= hi
      <3>1. first \in Nat /\ k \in Nat /\ \A j \in S : j \in Nat
        BY <2>1, <2>3
      <3>2. (\A j \in S : first <= j /\ j <= k => ~(j > hi)) 
               <=> (first <= k => k <= hi)
        BY <3>1
      <3>3. first <= k <=> lo <= k
        BY <2>1, <3>1
      <3> QED
        BY <2>3, <3>2, <3>3 DEF ScanLoop
    <2> QED
      BY <2>2, <2>3 DEF ScanLoop, InRange
  <1> QED
    BY <1>1, <1>2

\* Contains of map and of set is right on every shard whose number of elements
\* is not 1, for keys and bounds of any size.
THEOREM ScansAreRanges ==
    ASSUME NEW S \in SUBSET Nat, NEW lo \in Nat, NEW hi \in Nat,
           Cardinality(S) # 1
    PROVE  /\ MapScan(S, lo, hi) = InRange(S, lo, hi)
           /\ SetScan(S, lo, hi) = InRange(S, lo, hi)
  BY ManyBranchIsRange DEF MapScan, SetScan, InRange

\* set's Contains forgets no key of the range, whatever the shard.
THEOREM SetScanForgetsNothing ==
    ASSUME NEW S \in SUBSET Nat, NEW lo \in Nat, NEW hi \in Nat
    PROVE  InRange(S, lo, hi) \subseteq SetScan(S, lo, hi)
  BY ManyBranchIsRange DEF SetScan, SetOneBranch, InRange

\* map's Contains may forget one: key_start itself, alone in its shard.
THEOREM MapScanForgetsOnlyStart ==
    ASSUME NEW S \in SUBSET Nat, IsFiniteSet(S), NEW lo \in Nat,
           NEW hi \in Nat, NEW k \in InRange(S, lo, hi), k \notin MapScan(S, lo, hi)
    PROVE  S = {lo} /\ k = lo
  <1>1. k \in S /\ lo <= k /\ k <= hi
    BY DEF InRange
  <1>2. Cardinality(S) = 1
    BY ScansAreRanges
  <1>3. ~(k > lo)
    BY <1>1, <1>2 DEF MapScan, MapOneBranch
  <1>4. k = lo
    BY <1>1, <1>3
  <1> QED
    BY <1>1, <1>2, <1>4, FS_Singleton

\* multimap's Contains is right on every shard whose number of elements is
\* not 1: it returns what has the key it is called with.
THEOREM MultimapScanFindsKey ==
    ASSUME NEW S \in SUBSET Nat, NEW key \in Nat, Cardinality(S) # 1
    PROVE  MultimapScan(S, key) = InRange(S, key, key)
  <1>1. CASE S = {}
    BY <1>1 DEF MultimapScan, InRange
  <1>2. CASE S # {} /\ \A k \in S : k < key
    <2>1. InRange(S, key, key) = {}
      <3>1. \A k \in S : ~(key <= k)
        BY <1>2
      <3> QED
        BY <3>1 DEF InRange
    <2> QED
      BY <1>2, <2>1 DEF MultimapScan
  <1>3. CASE S # {} /\ ~(\A k \in S : k < key)
    <2> DEFINE first == MultimapStart(S, key)
    <2>1. MultimapScan(S, key) = MultimapLoop(S, first, key)
      BY <1>3 DEF MultimapScan
    <2>2. /\ LowerBound(S, key) \in S /\ key <= LowerBound(S, key)
          /\ \A k \in S : key <= k => LowerBound(S, key) <= k
      BY <1>3, LowerBoundIsFirst
    <2>3. first = LowerBound(S, key) \/ first = key
      <3> DEFINE before == Preceding(S, LowerBound(S, key))
      <3>1. first = IF before # {} /\ Max(before) = key
                    THEN Max(before) ELSE LowerBound(S, key)
        BY DEF MultimapStart
      <3> QED
        BY <3>1
    <2> HIDE DEF first
    <2>4. first \in Nat /\ key <= first /\ \A k \in S : key <= k => first <= k
      <3>1. CASE first = key
        BY <3>1
      <3>2. CASE first = LowerBound(S, key)
        BY <2>2, <3>2
      <3> QED
        BY <2>3, <3>1, <3>2
    <2>5. ASSUME NEW k \in S
          PROVE  k \in MultimapLoop(S, first, key) <=> key <= k /\ k <= key
      <3>1. CASE k = key
        <4>1. first = key
          BY <2>4, <3>1
        <4>2. \A j \in S : first <= j /\ j <= k => j = key
          BY <3>1, <4>1
        <4>3. k \in Nat
          OBVIOUS
        <4> QED
          BY <3>1, <4>1, <4>2, <4>3 DEF MultimapLoop
      <3>2. CASE k # key
        <4>1. k \notin MultimapLoop(S, first, key)
          BY <3>2 DEF MultimapLoop
        <4> QED
          BY <3>2, <4>1
      <3> QED
        BY <3>1, <3>2
    <2> QED
      BY <2>1, <2>5 DEF MultimapLoop, InRange
  <1> QED
    BY <1>1, <1>2, <1>3

-----------------------------------------------------------------------------
(***************************************************************************)
(* The properties of PureCheck, for inputs without bound.                  *)
(***************************************************************************)

\* The two routes of a hash agree whatever it is, or disagree on 2^16, as the
\* number of servers divides 2^16 or not.
THEOREM RoutesAgreeExactly == InputSpec => []RoutesAgreeIfDivides
  <1>1. RoutesAgreeIfDivides
    <2> SUFFICES ASSUME input \in Addresses
                 PROVE  IF Divides16Bits(input.n) THEN RoutesAgree(input.hash, input.n)
                        ELSE ~RoutesAgree(UInt16Range, input.n)
      BY DEF RoutesAgreeIfDivides
    <2>1. input.n \in 1 .. UInt16Range /\ input.hash \in Nat
      BY AddressAssumption DEF Addresses
    <2> QED
      BY <2>1, DividingServersAgree, OtherServersDisagree
  <1> QED
    BY <1>1, PTL

\* Numbers of 16 bits.
LEMMA Words ==
    /\ \A y \in Nat : y < 65536 => y % 65536 = y /\ (y - 65536) % 65536 = y
    /\ \A y \in Nat : y >= 65536 /\ y < 131072 => y % 65536 = y - 65536
    /\ UInt16Range = 65536 /\ UInt16Range \div 2 = 32768
  <1>1. \A y \in Nat : y < 65536 => y % 65536 = y
    BY SMT
  <1>2. \A y \in Nat : y < 65536 => (y - 65536) % 65536 = y
    BY SMT
  <1>3. \A y \in Nat : y >= 65536 /\ y < 131072 => y % 65536 = y - 65536
    BY SMT
  <1>4. UInt16Range = 65536 /\ UInt16Range \div 2 = 32768
    BY SMT DEF UInt16Range
  <1> QED
    BY <1>1, <1>2, <1>3, <1>4, SMT

\* The port of a call: what has become of the sum of RPC_PORT and server index.
LEMMA CallPortOf ==
    ASSUME NEW base \in Nat, NEW server \in Nat, base < 65536, server < 65536
    PROVE  LET sum == base + server
               word == IF sum < 65536 THEN sum ELSE sum - 65536
           IN  /\ CallPort(base, server) = IF word < 32768 THEN word ELSE word - 65536
               /\ RpclibServerPort(base, server) = word
  <1> DEFINE sum == base + server
             word == IF sum < 65536 THEN sum ELSE sum - 65536
  <1>1. sum \in Nat /\ sum < 131072
    BY SMT
  <1>2. sum % 65536 = word
    BY <1>1, Words, SMT
  <1>3. word \in Nat
    BY <1>1, SMT
  <1> HIDE DEF word
  <1>4. CallPort(base, server) = IF word < 32768 THEN word ELSE word - 65536
    BY <1>1, <1>3, <1>2, SMT DEF CallPort, AsInt16, UInt16Range
  <1>5. RpclibServerPort(base, server) = word
    BY <1>1, <1>2, SMT DEF RpclibServerPort, UInt16Range
  <1> QED
    BY <1>4, <1>5, SMT DEF word

\* An RPC_PORT and the index of a server have 16 bits.
LEMMA AddressTypes ==
    ASSUME input \in Addresses
    PROVE  /\ input.base \in Nat /\ input.base < UInt16Range
           /\ GetRoute(input.hash, input.n) \in Nat
           /\ GetRoute(input.hash, input.n) < UInt16Range
  <1>1. input.n \in ServerCounts /\ input.hash \in Hashes /\ input.base \in Ports
    BY Zenon DEF Addresses
  <1>2. UInt16Range \in Nat \ {0}
    BY SMT DEF UInt16Range
  <1>3. ASSUME NEW w \in Nat
        PROVE  /\ \A m \in 1 .. w : m \in Nat \ {0} /\ m <= w
               /\ \A m \in 0 .. w - 1 : m \in Nat /\ m < w
    BY SMT
  <1>4. /\ input.n \in Nat \ {0} /\ input.n <= UInt16Range
        /\ input.base \in Nat /\ input.base < UInt16Range /\ input.hash \in Nat
    BY <1>1, <1>2, <1>3, AddressAssumption
  <1> DEFINE rest == input.hash % input.n
  <1>5. PICK q : Divided(input.hash, input.n, q, rest)
    BY <1>4, Division
  <1>6. rest \in Nat /\ rest < input.n
    BY <1>5 DEF Divided
  <1>7. GetRoute(input.hash, input.n) = rest % UInt16Range
    BY DEF GetRoute
  <1> HIDE DEF rest
  <1>8. rest < UInt16Range
    BY <1>2, <1>4, <1>6
  <1>9. Divided(rest, UInt16Range, 0, rest)
    BY <1>2, <1>6, <1>8 DEF Divided
  <1>10. rest % UInt16Range = rest
    BY <1>2, <1>6, <1>9, Remainder
  <1> QED
    BY <1>4, <1>6, <1>7, <1>8, <1>10

\* A call reaches the port its server listens on, with rpclib always, with
\* Thallium exactly while the sum is below 2^15.
THEOREM PortsMeetExactly == InputSpec => []PortsMeet
  <1>1. ASSUME NEW base \in Nat, NEW server \in Nat, base < 65536, server < 65536
        PROVE  /\ RpclibCallPort(base, server) = RpclibServerPort(base, server)
               /\ ThalliumCallPort(base, server) = ThalliumServerPort(base, server)
                     <=> base + server < 32768
    <2> DEFINE sum == base + server
               word == IF sum < 65536 THEN sum ELSE sum - 65536
    <2>1. /\ CallPort(base, server) = IF word < 32768 THEN word ELSE word - 65536
          /\ RpclibServerPort(base, server) = word
      BY <1>1, CallPortOf, SMT
    <2>2. sum \in Nat /\ word \in Nat /\ word < 65536
      BY <1>1, SMT
    <2>3. CallPort(base, server) % 65536 = word
      BY <2>1, <2>2, Words, SMT
    <2>4. CallPort(base, server) = sum <=> sum < 32768
      BY <1>1, <2>1, <2>2, SMT
    <2> HIDE DEF word
    <2>5. RpclibCallPort(base, server) = RpclibServerPort(base, server)
      BY <2>1, <2>3, SMT DEF RpclibCallPort, UInt16Range
    <2>6. ThalliumCallPort(base, server) = ThalliumServerPort(base, server)
             <=> base + server < 32768
      BY <2>4, SMT DEF ThalliumCallPort, ThalliumServerPort
    <2> QED
      BY <2>5, <2>6, SMT
  <1>2. PortsMeet
    BY <1>1, AddressTypes, Words, SMT DEF PortsMeet
  <1> QED
    BY <1>2, PTL

-----------------------------------------------------------------------------
\* A query is about a finite shard of natural numbers.
LEMMA QueryTypes ==
    ASSUME input \in Queries
    PROVE  /\ input.shard \in SUBSET Nat /\ IsFiniteSet(input.shard)
           /\ input.lo \in Nat /\ input.hi \in Nat
  BY KeyRangeAssumption, FS_Subset DEF Queries

\* Contains of map and set returns the range, of any shard that does not hold
\* exactly one element.
THEOREM ScansAreExact == InputSpec => []ScanIsRange
  <1>1. ScanIsRange
    BY QueryTypes, ScansAreRanges DEF ScanIsRange
  <1> QED
    BY <1>1, PTL

\* Of a shard of one element set forgets nothing and map forgets key_start; what
\* they return too much is beyond key_end.
THEOREM OneElementErrsSo == InputSpec => []OneElementErrs
  <1>1. ASSUME NEW S \in SUBSET Nat, IsFiniteSet(S), NEW lo \in Nat, NEW hi \in Nat
        PROVE  /\ InRange(S, lo, hi) \ SetScan(S, lo, hi) = {}
               /\ InRange(S, lo, hi) \ MapScan(S, lo, hi)
                     = IF S = {lo} THEN InRange(S, lo, hi) ELSE {}
               /\ \A k \in (MapScan(S, lo, hi) \cup SetScan(S, lo, hi))
                           \ InRange(S, lo, hi) : k > hi /\ lo <= k /\ S = {k}
    <2>1. InRange(S, lo, hi) \ SetScan(S, lo, hi) = {}
      BY <1>1, SetScanForgetsNothing
    <2>2. InRange(S, lo, hi) \ MapScan(S, lo, hi)
             = IF S = {lo} THEN InRange(S, lo, hi) ELSE {}
      <3>1. CASE S = {lo}
        <4>1. Cardinality(S) = 1 /\ S # {}
          BY <3>1, FS_Singleton
        <4>2. MapScan(S, lo, hi) = {}
          <5>1. MapScan(S, lo, hi) = MapOneBranch(S, lo)
            BY <4>1 DEF MapScan
          <5> QED
            BY <3>1, <5>1 DEF MapOneBranch
        <4> QED
          BY <3>1, <4>2
      <3>2. CASE S # {lo}
        BY <1>1, <3>2, MapScanForgetsOnlyStart
      <3> QED
        BY <3>1, <3>2
    <2>3. ASSUME NEW k \in (MapScan(S, lo, hi) \cup SetScan(S, lo, hi))
                           \ InRange(S, lo, hi)
          PROVE  k > hi /\ lo <= k /\ S = {k}
      <3>1. Cardinality(S) = 1
        BY <2>3, ScansAreRanges
      <3>2. k \in MapOneBranch(S, lo) \cup SetOneBranch(S, lo)
        BY <2>3, <3>1 DEF MapScan, SetScan
      <3>3. k \in S /\ k \in Nat /\ (k > lo \/ k >= lo)
        BY <3>2 DEF MapOneBranch, SetOneBranch
      <3>4. lo <= k
        BY <3>3
      <3>5. k > hi
        BY <2>3, <3>3, <3>4 DEF InRange
      <3> QED
        BY <1>1, <3>1, <3>3, <3>4, <3>5, FS_Singleton
    <2> QED
      BY <2>1, <2>2, <2>3
  <1>2. OneElementErrs
    BY <1>1, QueryTypes DEF OneElementErrs
  <1> QED
    BY <1>2, PTL

\* Contains of multimap returns what has the key, of any shard that does not
\* hold exactly one element.
THEOREM MultimapFindsItsKey == InputSpec => []MultimapFindsKey
  <1>1. MultimapFindsKey
    <2> SUFFICES ASSUME input \in Queries
                 PROVE  MultimapScan(input.shard, input.lo) =
                           IF Cardinality(input.shard) = 1 THEN input.shard
                           ELSE InRange(input.shard, input.lo, input.lo)
      BY DEF MultimapFindsKey
    <2>1. CASE Cardinality(input.shard) = 1
      BY <2>1 DEF MultimapScan
    <2>2. CASE Cardinality(input.shard) # 1
      BY <2>2, QueryTypes, MultimapScanFindsKey
    <2> QED
      BY <2>1, <2>2
  <1> QED
    BY <1>1, PTL

-----------------------------------------------------------------------------
(***************************************************************************)
(* What NumServersAgree rests on: NUM_SERVERS itself is what the last      *)
(* statement that set it left behind, the factory has an RPC for each port *)
(* that was constructed on, and every Construct counts one container.      *)
(***************************************************************************)
CountsOf(conf, program, lines) ==
    LET constructs == Which(program, "Construct")
    IN  /\ conf.num = NumAfter(program, Len(program), lines)
        /\ conf.rpcs = {program[i].port : i \in constructs}
        /\ Len(conf.objects) = Cardinality(constructs)

CountsFollow ==
    input \in Processes => CountsOf(input.conf, input.program, input.lines)

\* The input of a function is not a process.
LEMMA KindsDiffer ==
    \A r : r \in Addresses \/ r \in Queries => r \notin Processes
  <1>1. ASSUME NEW r, r \in Processes PROVE "program" \in DOMAIN r
    BY <1>1 DEF Processes
  <1>2. ASSUME NEW r, r \in Addresses PROVE "program" \notin DOMAIN r
    BY <1>2 DEF Addresses
  <1>3. ASSUME NEW r, r \in Queries PROVE "program" \notin DOMAIN r
    BY <1>3 DEF Queries
  <1> QED
    BY <1>1, <1>2, <1>3

\* Statements are of three kinds.
LEMMA StatementKinds ==
    \A s \in Statements : s.do = "Configure" \/ s.do = "Assign" \/ s.do = "Construct"
  BY DEF Statements

\* What Append adds to the statements of a kind.
LEMMA WhichAppend ==
    ASSUME NEW program \in Seq(Statements), NEW statement \in Statements, NEW what
    PROVE  Which(Append(program, statement), what) =
              Which(program, what)
                 \cup (IF statement.do = what THEN {Len(program) + 1} ELSE {})
  <1> DEFINE longer == Append(program, statement)
  <1>1. /\ DOMAIN program = 1 .. Len(program) /\ Len(program) \in Nat
        /\ DOMAIN longer = 1 .. Len(program) + 1
        /\ longer[Len(program) + 1] = statement
        /\ \A i \in DOMAIN program : longer[i] = program[i]
    OBVIOUS
  <1>2. \A i : i \in DOMAIN longer <=> i \in DOMAIN program \/ i = Len(program) + 1
    BY <1>1
  <1>3. Len(program) + 1 \notin DOMAIN program
    BY <1>1
  <1> HIDE DEF longer
  <1>4. Which(longer, what) = Which(program, what)
                 \cup (IF statement.do = what THEN {Len(program) + 1} ELSE {})
    BY <1>1, <1>2, <1>3 DEF Which
  <1> QED
    BY <1>4 DEF longer

\* What a longer program has in common with the one it extends.
LEMMA Longer ==
    ASSUME NEW program \in Seq(Statements), NEW statement \in Statements
    PROVE  LET longer == Append(program, statement)
               n == Len(program)
           IN  /\ n \in Nat /\ Len(longer) = n + 1
               /\ longer[n + 1] = statement
               /\ \A i \in 1 .. n : longer[i] = program[i]
  OBVIOUS

\* A statement's number of servers does not depend on the statements after it.
LEMMA NumAfterAppend ==
    ASSUME NEW program \in Seq(Statements), NEW statement \in Statements, NEW lines,
           NEW m \in 0 .. Len(program)
    PROVE  NumAfter(Append(program, statement), m, lines) = NumAfter(program, m, lines)
  <1> DEFINE longer == Append(program, statement)
             setters == {i \in 1 .. m : SetsNumServers(program, i)}
  <1>1. m \in Nat /\ \A i \in 1 .. m : longer[i] = program[i]
    BY Longer
  <1> HIDE DEF longer
  <1>2. \A i \in 1 .. m : SetsNumServers(longer, i) <=> SetsNumServers(program, i)
    <2> SUFFICES ASSUME NEW i \in 1 .. m
                 PROVE  SetsNumServers(longer, i) <=> SetsNumServers(program, i)
      OBVIOUS
    <2>1. \A j \in 1 .. i - 1 : longer[j] = program[j]
      BY <1>1
    <2> QED
      BY <1>1, <2>1 DEF SetsNumServers
  <1>3. {i \in 1 .. m : SetsNumServers(longer, i)} = setters
    BY <1>2
  <1>4. ASSUME setters # {} PROVE longer[Max(setters)] = program[Max(setters)]
    <2>1. /\ setters \in SUBSET Nat /\ setters \subseteq 1 .. m
          /\ m + 1 \in Nat /\ \A k \in setters : k < m + 1
      BY <1>1
    <2> HIDE DEF setters
    <2>2. Max(setters) \in setters
      BY <1>4, <2>1, MaxIsGreatest
    <2> QED
      BY <1>1, <2>1, <2>2
  <1> HIDE DEF setters
  <1>5. NumAfter(longer, m, lines) = NumAfter(program, m, lines)
    BY <1>3, <1>4 DEF NumAfter, setters
  <1> QED
    BY <1>5 DEF longer

\* What the last statement of a program leaves behind.
LEMMA NumAfterLast ==
    ASSUME NEW program \in Seq(Statements), NEW statement \in Statements, NEW lines
    PROVE  LET longer == Append(program, statement)
               n == Len(program)
           IN  NumAfter(longer, n + 1, lines) =
                  IF statement.do = "Construct"
                        /\ \E j \in 1 .. n : program[j] = statement
                  THEN NumAfter(program, n, lines)
                  ELSE IF statement.do = "Assign" THEN statement.num
                       ELSE Len(ServerList(lines))
  <1> DEFINE longer == Append(program, statement)
             n == Len(program)
             setters(m) == {i \in 1 .. m : SetsNumServers(longer, i)}
  <1>1. /\ n \in Nat /\ longer[n + 1] = statement
        /\ \A i \in 1 .. n : longer[i] = program[i]
    BY Longer
  <1>2. NumAfter(longer, n, lines) = NumAfter(program, n, lines)
    BY <1>1, NumAfterAppend
  <1> HIDE DEF longer, n
  <1>3. SetsNumServers(longer, n + 1) <=>
           ~(statement.do = "Construct" /\ \E j \in 1 .. n : program[j] = statement)
    <2>1. (n + 1) - 1 = n
      BY <1>1
    <2> QED
      BY <1>1, <2>1 DEF SetsNumServers
  <1>4. CASE ~SetsNumServers(longer, n + 1)
    <2>1. setters(n + 1) = setters(n)
      BY <1>1, <1>4
    <2>2. NumAfter(longer, n + 1, lines) = NumAfter(longer, n, lines)
      BY <2>1, Zenon DEF NumAfter
    <2> QED
      BY <1>2, <1>3, <1>4, <2>2, Zenon DEF longer, n
  <1>5. CASE SetsNumServers(longer, n + 1)
    <2> DEFINE S == setters(n + 1)
    <2>1. /\ S \in SUBSET Nat /\ n + 1 \in S /\ n + 2 \in Nat
          /\ \A k \in S : k < n + 2 /\ k <= n + 1
      BY <1>1, <1>5
    <2> HIDE DEF S
    <2>2. S # {} /\ \A k \in S : k < n + 2
      BY <2>1
    <2>3. Max(S) \in S /\ \A k \in S : k <= Max(S)
      BY <2>1, <2>2, MaxIsGreatest
    <2>4. Max(S) \in Nat /\ Max(S) <= n + 1 /\ n + 1 <= Max(S)
      BY <2>1, <2>3
    <2>5. Max(S) = n + 1
      BY <1>1, <2>4
    <2>6. NumAfter(longer, n + 1, lines) =
             IF statement.do = "Assign" THEN statement.num ELSE Len(ServerList(lines))
      <3>1. S # {} /\ longer[Max(S)] = statement
        BY <1>1, <2>1, <2>5
      <3> QED
        BY <3>1, Zenon DEF NumAfter, S
    <2> QED
      BY <1>3, <1>5, <2>6, Zenon DEF longer, n
  <1> QED
    BY <1>4, <1>5

\* An earlier statement is the same Construct exactly if the ports constructed
\* on include its port.
LEMMA SamePort ==
    ASSUME NEW program \in Seq(Statements), NEW statement \in Statements,
           statement.do = "Construct"
    PROVE  statement.port \in {program[i].port : i \in Which(program, "Construct")}
              <=> \E j \in 1 .. Len(program) : program[j] = statement
  <1>1. /\ DOMAIN program = 1 .. Len(program)
        /\ \A i \in DOMAIN program : program[i] \in Statements
    OBVIOUS
  <1>2. \A r, s \in Statements :
           r.do = "Construct" /\ s.do = "Construct" /\ r.port = s.port => r = s
    BY DEF Statements
  <1>3. \A i \in Which(program, "Construct") :
           i \in DOMAIN program /\ program[i].do = "Construct"
    BY DEF Which
  <1>4. \A i \in DOMAIN program :
           program[i] = statement => i \in Which(program, "Construct")
    BY DEF Which
  <1> QED
    BY <1>1, <1>2, <1>3, <1>4

\* The containers up to a statement are counted once, in order.
LEMMA Places ==
    ASSUME NEW program \in Seq(Statements)
    PROVE  LET constructs == Which(program, "Construct")
               place(i) == Cardinality({j \in constructs : j <= i})
           IN  /\ IsFiniteSet(constructs) /\ Cardinality(constructs) \in Nat
               /\ \A i \in constructs :
                     /\ i \in 1 .. Len(program)
                     /\ place(i) \in 1 .. Cardinality(constructs)
  <1> DEFINE constructs == Which(program, "Construct")
             upTo(i) == {j \in constructs : j <= i}
  <1>1. Len(program) \in Nat /\ constructs \subseteq 1 .. Len(program)
    BY DEF Which
  <1> HIDE DEF constructs
  <1>2. IsFiniteSet(1 .. Len(program))
    BY <1>1, FS_Interval
  <1>3. IsFiniteSet(constructs) /\ Cardinality(constructs) \in Nat
    BY <1>1, <1>2, FS_Subset, FS_CardinalityType
  <1>4. ASSUME NEW i \in constructs
        PROVE  Cardinality(upTo(i)) \in 1 .. Cardinality(constructs)
    <2>1. i \in upTo(i) /\ upTo(i) \in SUBSET constructs
      BY <1>1, <1>4
    <2> HIDE DEF upTo
    <2>2. /\ IsFiniteSet(upTo(i)) /\ Cardinality(upTo(i)) \in Nat
          /\ Cardinality(upTo(i)) <= Cardinality(constructs)
      BY <1>3, <2>1, FS_Subset, FS_CardinalityType
    <2>3. Cardinality(upTo(i)) # 0
      BY <2>1, <2>2, FS_EmptySet
    <2> QED
      BY <1>3, <2>2, <2>3
  <1>5. \A i \in constructs : i \in 1 .. Len(program)
    BY <1>1
  <1> QED
    BY <1>3, <1>4, <1>5 DEF constructs

\* What a statement does to what a process knows.
LEMMA WhatStatementsDo ==
    ASSUME NEW conf \in Knowledge, NEW statement \in Statements, NEW lines
    PROVE  LET after == StepTo(conf, statement, lines)
               listed == Len(ServerList(lines))
           IN  /\ statement.do = "Configure" =>
                     /\ after.num = listed
                     /\ after.rpcs = conf.rpcs /\ after.objects = conf.objects
               /\ statement.do = "Assign" =>
                     /\ after.num = statement.num
                     /\ after.rpcs = conf.rpcs /\ after.objects = conf.objects
               /\ statement.do = "Construct" =>
                     /\ after.num = IF statement.port \in conf.rpcs THEN conf.num ELSE listed
                     /\ after.rpcs = conf.rpcs \cup {statement.port}
                     /\ after.objects = Append(conf.objects, conf.num)
  <1> DEFINE after == StepTo(conf, statement, lines)
  <1>1. CASE statement.do = "Configure"
    <2>1. after = LoadServers(conf, lines)
      BY <1>1 DEF StepTo
    <2> QED
      BY <1>1, <2>1 DEF LoadServers, Knowledge
  <1>2. CASE statement.do = "Assign"
    <2>1. after = [conf EXCEPT !.num = statement.num]
      BY <1>2 DEF StepTo
    <2> QED
      BY <1>2, <2>1 DEF Knowledge
  <1>3. CASE statement.do = "Construct"
    <2> DEFINE counted == [conf EXCEPT !.objects = Append(@, conf.num)]
    <2>1. after = GetRPC(counted, statement.port, lines)
      BY <1>3 DEF StepTo, Construct
    <2>2. /\ counted.num = conf.num /\ counted.rpcs = conf.rpcs
          /\ counted.objects = Append(conf.objects, conf.num)
          /\ counted \in [num : Nat, rpcs : SUBSET Nat, objects : {counted.objects}]
      BY DEF Knowledge
    <2> HIDE DEF counted
    <2>3. CASE statement.port \in conf.rpcs
      <3>1. after = counted /\ conf.rpcs = conf.rpcs \cup {statement.port}
        BY <2>1, <2>2, <2>3 DEF GetRPC
      <3> QED
        BY <1>3, <2>2, <2>3, <3>1
    <2>4. CASE statement.port \notin conf.rpcs
      <3> DEFINE loaded == LoadServers(counted, lines)
      <3>1. after = [loaded EXCEPT !.rpcs = @ \cup {statement.port}]
        BY <2>1, <2>2, <2>4 DEF GetRPC
      <3>2. /\ loaded.num = Len(ServerList(lines)) /\ loaded.rpcs = conf.rpcs
            /\ loaded.objects = Append(conf.objects, conf.num)
            /\ DOMAIN loaded = {"num", "rpcs", "objects"}
        BY <2>2 DEF LoadServers
      <3> HIDE DEF loaded
      <3> QED
        BY <1>3, <2>4, <3>1, <3>2
    <2> QED
      BY <2>3, <2>4
  <1> QED
    BY <1>1, <1>2, <1>3, StatementKinds

\* One statement keeps CountsFollow and NumServersAgree.
LEMMA StatementCounts ==
    ASSUME NEW program \in Seq(Statements), NEW conf \in Knowledge, NEW lines,
           NEW statement \in Statements,
           CountsOf(conf, program, lines), CountedRight(conf, program, lines)
    PROVE  LET now == StepTo(conf, statement, lines)
               longer == Append(program, statement)
           IN  CountsOf(now, longer, lines) /\ CountedRight(now, longer, lines)
  <1> DEFINE now == StepTo(conf, statement, lines)
             longer == Append(program, statement)
             n == Len(program)
             listed == Len(ServerList(lines))
             constructs == Which(program, "Construct")
             more == Which(longer, "Construct")
             upTo(C, i) == {j \in C : j <= i}
  <1>1. /\ n \in Nat /\ Len(longer) = n + 1 /\ longer[n + 1] = statement
        /\ \A i \in 1 .. n : longer[i] = program[i]
    BY Longer
  <1>2. more = constructs \cup (IF statement.do = "Construct" THEN {n + 1} ELSE {})
    BY WhichAppend
  <1>3. /\ IsFiniteSet(constructs) /\ Cardinality(constructs) \in Nat
        /\ \A i \in constructs : i \in 1 .. n
        /\ \A i \in constructs : Cardinality(upTo(constructs, i)) \in 1 .. Cardinality(constructs)
    BY Places
  <1>4. /\ conf.num = NumAfter(program, n, lines)
        /\ conf.rpcs = {program[i].port : i \in constructs}
        /\ Len(conf.objects) = Cardinality(constructs)
        /\ conf.objects \in Seq(Nat)
    BY DEF CountsOf, Knowledge
  <1>5. \A i \in constructs : conf.objects[Cardinality(upTo(constructs, i))]
                                = NumAfter(program, i - 1, lines)
    BY DEF CountedRight
  <1>6. \A m \in 0 .. n : NumAfter(longer, m, lines) = NumAfter(program, m, lines)
    BY NumAfterAppend
  <1>7. NumAfter(longer, n + 1, lines) =
           IF statement.do = "Construct" /\ \E j \in 1 .. n : program[j] = statement
           THEN NumAfter(program, n, lines)
           ELSE IF statement.do = "Assign" THEN statement.num ELSE listed
    BY NumAfterLast
  <1>8. /\ statement.do = "Configure" =>
              now.num = listed /\ now.rpcs = conf.rpcs /\ now.objects = conf.objects
        /\ statement.do = "Assign" =>
              now.num = statement.num /\ now.rpcs = conf.rpcs /\ now.objects = conf.objects
        /\ statement.do = "Construct" =>
              /\ now.num = IF statement.port \in conf.rpcs THEN conf.num ELSE listed
              /\ now.rpcs = conf.rpcs \cup {statement.port}
              /\ now.objects = Append(conf.objects, conf.num)
    BY WhatStatementsDo
  <1>9. statement.do = "Construct" =>
           (statement.port \in conf.rpcs <=> \E j \in 1 .. n : program[j] = statement)
    BY <1>4, SamePort
  <1> HIDE DEF now, longer, n, listed, constructs, more
  <1>10. now.num = NumAfter(longer, n + 1, lines)
    BY <1>4, <1>7, <1>8, <1>9, StatementKinds, Zenon
  <1>11. \A i \in constructs :
            /\ longer[i] = program[i]
            /\ NumAfter(longer, i - 1, lines) = NumAfter(program, i - 1, lines)
    <2>1. \A i \in 1 .. n : i - 1 \in 0 .. n
      BY <1>1
    <2> QED
      BY <1>1, <1>3, <1>6, <2>1, Zenon
  <1>12. CASE statement.do # "Construct"
    <2>1. more = constructs /\ now.rpcs = conf.rpcs /\ now.objects = conf.objects
      BY <1>2, <1>8, <1>12, StatementKinds
    <2>2. CountsOf(now, longer, lines)
      <3>1. now.rpcs = {longer[i].port : i \in constructs}
        BY <1>4, <1>11, <2>1
      <3> QED
        BY <1>1, <1>4, <1>10, <2>1, <3>1 DEF CountsOf, more
    <2>3. CountedRight(now, longer, lines)
      BY <1>5, <1>11, <2>1 DEF CountedRight, more
    <2> QED
      BY <2>2, <2>3 DEF now, longer
  <1>13. CASE statement.do = "Construct"
    <2>1. more = constructs \cup {n + 1} /\ n + 1 \notin constructs
      BY <1>1, <1>2, <1>3, <1>13
    <2>2. IsFiniteSet(more) /\ Cardinality(more) = Cardinality(constructs) + 1
      BY <1>3, <2>1, FS_AddElement
    <2>3. now.rpcs = {longer[i].port : i \in more}
      <3>1. conf.rpcs = {longer[i].port : i \in constructs}
        BY <1>4, <1>11
      <3> QED
        BY <1>1, <1>8, <1>13, <2>1, <3>1
    <2>4. /\ Len(now.objects) = Cardinality(constructs) + 1
          /\ now.objects[Cardinality(constructs) + 1] = conf.num
          /\ \A k \in 1 .. Cardinality(constructs) : now.objects[k] = conf.objects[k]
      <3>1. now.objects = Append(conf.objects, conf.num)
        BY <1>8, <1>13
      <3>2. /\ Len(Append(conf.objects, conf.num)) = Len(conf.objects) + 1
            /\ Append(conf.objects, conf.num)[Len(conf.objects) + 1] = conf.num
            /\ \A k \in 1 .. Len(conf.objects) :
                  Append(conf.objects, conf.num)[k] = conf.objects[k]
        <4>1. conf.objects \in Seq(Nat) /\ conf.num \in Nat
          BY <1>4 DEF Knowledge
        <4> QED
          BY <4>1
      <3> QED
        BY <1>4, <3>1, <3>2, Zenon
    <2>5. CountsOf(now, longer, lines)
      BY <1>1, <1>10, <2>2, <2>3, <2>4 DEF CountsOf, more
    <2>6. ASSUME NEW i \in constructs
          PROVE  now.objects[Cardinality(upTo(more, i))] = NumAfter(longer, i - 1, lines)
      <3>1. i \in 1 .. n
        BY <1>3
      <3>2. ~(n + 1 <= i)
        BY <1>1, <3>1
      <3>3. upTo(more, i) = upTo(constructs, i)
        BY <2>1, <3>2
      <3> QED
        BY <1>3, <1>5, <1>11, <2>4, <2>6, <3>3
    <2>7. now.objects[Cardinality(upTo(more, n + 1))] = NumAfter(longer, n, lines)
      <3>1. \A j \in more : j <= n + 1
        BY <1>1, <1>3, <2>1
      <3>2. upTo(more, n + 1) = more
        BY <3>1
      <3>3. NumAfter(longer, n, lines) = NumAfter(program, n, lines)
        BY <1>1, <1>6
      <3> QED
        BY <1>4, <2>2, <2>4, <3>2, <3>3
    <2>8. CountedRight(now, longer, lines)
      <3>1. (n + 1) - 1 = n
        BY <1>1
      <3>2. \A i \in more : now.objects[Cardinality(upTo(more, i))]
                               = NumAfter(longer, i - 1, lines)
        BY <2>1, <2>6, <2>7, <3>1
      <3> QED
        BY <3>2 DEF CountedRight, more
    <2> QED
      BY <2>5, <2>8 DEF now, longer
  <1> QED
    BY <1>12, <1>13

\* Every container counts what the last statement before it has left behind.
THEOREM NumServersCounted == InputSpec => []NumServersAgree
  <1> DEFINE Inv == CountsFollow /\ NumServersAgree
  <1>1. InputInit => Inv
    <2> SUFFICES ASSUME InputInit, input \in Processes PROVE Inv
      BY DEF CountsFollow, NumServersAgree
    <2>1. input \in [lines : Files, program : {<<>>}, conf : {Defaults}]
      BY KindsDiffer DEF InputInit
    <2>2. input.program = <<>> /\ input.conf = Defaults
      BY <2>1
    <2>3. Which(<<>>, "Construct") = {}
      BY DEF Which
    <2>4. NumAfter(<<>>, 0, input.lines) = Defaults.num
      <3>1. {i \in 1 .. 0 : SetsNumServers(<<>>, i)} = {}
        OBVIOUS
      <3> QED
        BY <3>1, Zenon DEF NumAfter
    <2>5. Len(<<>>) = 0 /\ Defaults.rpcs = {} /\ Defaults.objects = <<>>
          /\ Cardinality({}) = 0
      BY FS_EmptySet DEF Defaults
    <2>6. CountsFollow
      BY <2>2, <2>3, <2>4, <2>5 DEF CountsFollow, CountsOf
    <2>7. NumServersAgree
      BY <2>2, <2>3 DEF NumServersAgree, CountedRight
    <2> QED
      BY <2>6, <2>7
  <1>2. ASSUME Inv, ExecuteStatement PROVE Inv'
    <2>1. PICK statement \in Statements :
              input' = [lines |-> input.lines,
                        program |-> Append(input.program, statement),
                        conf |-> StepTo(input.conf, statement, input.lines)]
      BY <1>2 DEF ExecuteStatement
    <2>2. /\ input \in Processes /\ input.conf \in Knowledge
          /\ input.program \in Seq(Statements)
      BY <1>2 DEF ExecuteStatement, Processes
    <2>3. /\ CountsOf(input.conf, input.program, input.lines)
          /\ CountedRight(input.conf, input.program, input.lines)
      BY <1>2, <2>2 DEF CountsFollow, NumServersAgree
    <2> DEFINE now == StepTo(input.conf, statement, input.lines)
               longer == Append(input.program, statement)
    <2>4. CountsOf(now, longer, input.lines) /\ CountedRight(now, longer, input.lines)
      BY <2>2, <2>3, StatementCounts
    <2>5. input'.conf = now /\ input'.program = longer /\ input'.lines = input.lines
      BY <2>1
    <2> QED
      BY <2>4, <2>5 DEF CountsFollow, NumServersAgree
  <1>3. Inv /\ [InputNext]_input => Inv'
    <2>1. ASSUME Inv, UNCHANGED input PROVE Inv'
      BY <2>1 DEF CountsFollow, NumServersAgree
    <2> QED
      BY <1>2, <2>1 DEF InputNext
  <1> QED
    BY <1>1, <1>3, PTL DEF InputSpec

-----------------------------------------------------------------------------
\* The recursive function that LoadServers' loop is exists, and yields the list.
LEMMA ServerListUnfolds ==
    ASSUME NEW lines, Len(lines) \in Nat
    PROVE  \E f : /\ f = [i \in 0 .. Len(lines) |->
                             IF i = 0 THEN <<>> ELSE f[i - 1] \o LineHosts(lines[i])]
                  /\ ServerList(lines) = f[Len(lines)]
  <1> DEFINE Goes(n, g) == g = [i \in 0 .. n |->
                             IF i = 0 THEN <<>> ELSE g[i - 1] \o LineHosts(lines[i])]
             f == CHOOSE g : Goes(Len(lines), g)
             Bad == {n \in Nat : ~ \E g : Goes(n, g)}
  <1>1. ServerList(lines) = f[Len(lines)]
    BY DEF ServerList
  <1>2. Bad = {}
    <2> SUFFICES ASSUME NEW b \in Bad PROVE FALSE
      OBVIOUS
    <2> DEFINE n == Min(Bad)
    <2>1. n \in Bad /\ \A k \in Bad : n <= k
      <3>1. b \in Bad /\ Bad \in SUBSET Nat
        OBVIOUS
      <3> HIDE DEF Bad
      <3> QED
        BY <3>1, MinIsLeast
    <2> HIDE DEF n
    <2>2. \A k \in Bad : ~(k < n)
      <3>1. \A k \in Bad : k \in Nat
        OBVIOUS
      <3> HIDE DEF Bad
      <3> QED
        BY <2>1, <3>1
    <2>3. n \in Nat /\ ~ \E g : Goes(n, g)
      BY <2>1
    <2>4. \A k \in Nat : k < n => \E g : Goes(k, g)
      BY <2>2
    <2>5. CASE n = 0
      <3> DEFINE g == [i \in 0 .. 0 |-> <<>>]
      <3>1. Goes(0, g)
        OBVIOUS
      <3> QED
        BY <2>3, <2>5, <3>1
    <2>6. CASE n # 0
      <3>1. n - 1 \in Nat /\ n - 1 < n
        BY <2>3, <2>6
      <3>2. PICK g : Goes(n - 1, g)
        BY <2>4, <3>1
      <3> DEFINE h == [i \in 0 .. n |->
                   IF i = n THEN g[n - 1] \o LineHosts(lines[n]) ELSE g[i]]
      <3>3. \A i \in 0 .. n - 1 : h[i] = g[i]
        BY <2>3
      <3>4. \A i \in 0 .. n : h[i] = IF i = 0 THEN <<>> ELSE h[i - 1] \o LineHosts(lines[i])
        <4> SUFFICES ASSUME NEW i \in 0 .. n
             PROVE h[i] = IF i = 0 THEN <<>> ELSE h[i - 1] \o LineHosts(lines[i])
          OBVIOUS
        <4>1. CASE i = n
          BY <2>3, <2>6, <3>3, <4>1
        <4>2. CASE i # n
          <5>1. i \in 0 .. n - 1
            BY <2>3, <4>2
          <5>2. g[i] = IF i = 0 THEN <<>> ELSE g[i - 1] \o LineHosts(lines[i])
            BY <3>2, <5>1
          <5>3. i # 0 => i - 1 \in 0 .. n - 1
            BY <5>1, <2>3
          <5> QED
            BY <3>3, <5>1, <5>2, <5>3
        <4> QED
          BY <4>1, <4>2
      <3>5. DOMAIN h = 0 .. n /\ h = [i \in 0 .. n |-> h[i]]
        OBVIOUS
      <3> HIDE DEF h
      <3>6. Goes(n, h)
        BY <3>4, <3>5
      <3> HIDE DEF Goes
      <3> QED
        BY <2>3, <3>6
    <2> QED
      BY <2>5, <2>6
  <1>3. Goes(Len(lines), f)
    <2>1. \E g : Goes(Len(lines), g)
      BY <1>2
    <2> HIDE DEF Goes
    <2> QED
      BY <2>1
  <1>4. f = [i \in 0 .. Len(lines) |->
                 IF i = 0 THEN <<>> ELSE f[i - 1] \o LineHosts(lines[i])]
    <2> HIDE DEF f
    <2> QED
      BY <1>3
  <1> HIDE DEF f
  <1> QED
    BY <1>1, <1>4

\* The server list that a file yields is a sequence of its hosts.
LEMMA ServerListType ==
    ASSUME NEW lines \in Seq([host : Hosts, count : Nat])
    PROVE  ServerList(lines) \in Seq(Hosts)
  <1>1. Len(lines) \in Nat /\ \A i \in 1 .. Len(lines) : lines[i] \in [host : Hosts, count : Nat]
    <2> DEFINE Lines == [host : Hosts, count : Nat]
    <2>1. lines \in Seq(Lines)
      OBVIOUS
    <2> HIDE DEF Lines
    <2>2. Len(lines) \in Nat /\ \A i \in 1 .. Len(lines) : lines[i] \in Lines
      BY <2>1
    <2> QED
      BY <2>2 DEF Lines
  <1>2. \A i \in 1 .. Len(lines) : LineHosts(lines[i]) \in Seq(Hosts)
    <2> SUFFICES ASSUME NEW line \in [host : Hosts, count : Nat]
                 PROVE  LineHosts(line) \in Seq(Hosts)
      BY <1>1
    <2>1. line.host \in Hosts /\ line.count \in Nat
      OBVIOUS
    <2>2. \A n \in Nat, h \in Hosts : [i \in 1 .. n |-> h] \in Seq(Hosts)
      OBVIOUS
    <2> QED
      BY <2>1, <2>2 DEF LineHosts
  <1>3. PICK f : /\ f = [i \in 0 .. Len(lines) |->
                             IF i = 0 THEN <<>> ELSE f[i - 1] \o LineHosts(lines[i])]
                 /\ ServerList(lines) = f[Len(lines)]
    BY <1>1, ServerListUnfolds
  <1>4. \A i \in 0 .. Len(lines) :
           f[i] = IF i = 0 THEN <<>> ELSE f[i - 1] \o LineHosts(lines[i])
    BY <1>3, Zenon
  <1> DEFINE Bad == {i \in 0 .. Len(lines) : f[i] \notin Seq(Hosts)}
  <1>5. Bad = {}
    <2> SUFFICES ASSUME Bad # {} PROVE FALSE
      OBVIOUS
    <2>1. Bad \in SUBSET Nat /\ Bad \subseteq 0 .. Len(lines)
      BY <1>1
    <2> DEFINE n == Min(Bad)
    <2>2. n \in Bad /\ \A k \in Bad : n <= k
      <3> HIDE DEF Bad
      <3> QED
        BY <2>1, MinIsLeast
    <2> HIDE DEF n
    <2>3. n \in 0 .. Len(lines) /\ f[n] \notin Seq(Hosts)
      BY <2>2
    <2>4. n # 0
      <3>1. f[0] = <<>> /\ <<>> \in Seq(Hosts)
        <4>1. 0 \in 0 .. Len(lines)
          BY <1>1
        <4>2. f[0] = <<>>
          BY <1>4, <4>1, Zenon
        <4> QED
          BY <4>2
      <3> QED
        BY <2>3, <3>1
    <2>5. n - 1 \in 0 .. Len(lines) /\ n \in 1 .. Len(lines) /\ n - 1 < n
      BY <1>1, <2>3, <2>4
    <2>6. f[n - 1] \in Seq(Hosts)
      <3>1. n - 1 \notin Bad
        <4> HIDE DEF Bad
        <4> QED
          BY <2>1, <2>2, <2>5
      <3> QED
        BY <2>5, <3>1
    <2>7. f[n] = f[n - 1] \o LineHosts(lines[n])
      BY <1>4, <2>3, <2>4
    <2> QED
      BY <1>2, <2>3, <2>5, <2>6, <2>7
  <1>6. Len(lines) \in 0 .. Len(lines)
    BY <1>1
  <1>7. f[Len(lines)] \in Seq(Hosts)
    BY <1>5, <1>6
  <1> QED
    BY <1>3, <1>7, Zenon

\* An input is one of the three kinds, and a process knows what it should.
InputTypeOK ==
    input \in Addresses \/ input \in Queries \/ input \in Processes

\* Every start of a process is one that NumServersAgree speaks of: what it knows
\* stays well typed, whatever the file and the statements.
THEOREM InputTypeCorrect == InputSpec => []InputTypeOK
  <1>1. InputInit => InputTypeOK
    <2> SUFFICES ASSUME input \in [lines : Files, program : {<<>>}, conf : {Defaults}]
                 PROVE  input \in Processes
      BY DEF InputInit, InputTypeOK
    <2>1. Defaults \in Knowledge
      BY DEF Defaults, Knowledge
    <2>2. <<>> \in Seq(Statements)
      OBVIOUS
    <2> QED
      BY <2>1, <2>2 DEF Processes
  <1>2. ASSUME ExecuteStatement PROVE (input \in Processes)'
    <2>1. PICK statement \in Statements :
             input' = [lines |-> input.lines,
                       program |-> Append(input.program, statement),
                       conf |-> StepTo(input.conf, statement, input.lines)]
      BY <1>2 DEF ExecuteStatement
    <2> DEFINE conf == input.conf
               lines == input.lines
               now == StepTo(conf, statement, lines)
    <2>2. lines \in Files /\ input.program \in Seq(Statements) /\ conf \in Knowledge
      BY <1>2 DEF ExecuteStatement, Processes
    <2>3. Append(input.program, statement) \in Seq(Statements)
      BY <2>2
    <2>4. Len(ServerList(lines)) \in Nat
      <3>1. lines \in Seq([host : Hosts, count : Nat])
        <4> DEFINE Lines == [host : Hosts, count : 0 .. MaxCount]
        <4>1. lines \in SeqsUpTo(Lines, MaxLines)
          BY <2>2 DEF Files
        <4>2. PICK n \in 0 .. MaxLines : lines \in [1 .. n -> Lines]
          BY <4>1, Zenon DEF SeqsUpTo
        <4>3. \A line \in Lines : line \in [host : Hosts, count : Nat]
          BY CountsAssumption
        <4>4. n \in Nat
          BY CountsAssumption
        <4> HIDE DEF Lines, lines
        <4>5. lines \in [1 .. n -> [host : Hosts, count : Nat]]
          BY <4>2, <4>3
        <4> DEFINE Typed == [host : Hosts, count : Nat]
        <4>6. \A T : \A m \in Nat : \A g \in [1 .. m -> T] : g \in Seq(T)
          OBVIOUS
        <4> HIDE DEF Typed
        <4> QED
          BY <4>4, <4>5, <4>6, Zenon DEF Typed
      <3> QED
        BY <3>1, ServerListType
    <2>5. now \in Knowledge
      <3> HIDE DEF lines, conf
      <3>1. CASE statement.do = "Configure"
        BY <2>2, <2>4, <3>1 DEF StepTo, LoadServers, Knowledge
      <3>2. CASE statement.do = "Assign"
        <4>1. statement.num \in Nat
          BY <3>2 DEF Statements
        <4> QED
          BY <2>2, <3>2, <4>1 DEF StepTo, Knowledge
      <3>3. CASE statement.do = "Construct"
        <4>1. statement.port \in Nat
          BY <3>3 DEF Statements
        <4> DEFINE counted == [conf EXCEPT !.objects = Append(@, conf.num)]
        <4>2. counted \in Knowledge
          <5>1. conf.num \in Nat /\ conf.objects \in Seq(Nat)
            BY <2>2 DEF Knowledge
          <5>2. Append(conf.objects, conf.num) \in Seq(Nat)
            BY <5>1
          <5> QED
            BY <2>2, <5>2 DEF Knowledge
        <4>3. now = GetRPC(counted, statement.port, lines)
          BY <3>3 DEF StepTo, Construct
        <4> HIDE DEF counted, now
        <4>4. CASE statement.port \in counted.rpcs
          BY <4>2, <4>3, <4>4 DEF GetRPC
        <4>5. CASE statement.port \notin counted.rpcs
          <5>1. now = [LoadServers(counted, lines) EXCEPT !.rpcs = @ \cup {statement.port}]
            BY <4>3, <4>5 DEF GetRPC
          <5>2. LoadServers(counted, lines) \in Knowledge
            BY <2>4, <4>2 DEF LoadServers, Knowledge
          <5> QED
            BY <4>1, <5>1, <5>2 DEF Knowledge
        <4> QED
          BY <4>4, <4>5
      <3> QED
        BY <3>1, <3>2, <3>3, StatementKinds
    <2> QED
      BY <2>1, <2>2, <2>3, <2>5 DEF Processes
  <1>3. InputTypeOK /\ [InputNext]_input => InputTypeOK'
    <2>1. ASSUME InputTypeOK, UNCHANGED input PROVE InputTypeOK'
      BY <2>1 DEF InputTypeOK
    <2> QED
      BY <1>2, <2>1 DEF InputNext, InputTypeOK
  <1> QED
    BY <1>1, <1>3, PTL DEF InputSpec
=============================================================================
