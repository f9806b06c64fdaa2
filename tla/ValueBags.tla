----------------------------- MODULE ValueBags ------------------------------
(***************************************************************************)
(* The contents of a std::priority_queue: a bag of numbers, as the order   *)
(* of equal ones and of the elements of its vector is left out.            *)
(***************************************************************************)
EXTENDS Integers, FiniteSets, Bags

\* The elements of a bag told apart, as the first, second, ... copy of a value.
Copies(b) == UNION {{v} \X (1 .. b[v]) : v \in DOMAIN b}

\* size()
BagSize(b) == Cardinality(Copies(b))

\* A value more, a value less.
WithValue(b, v) == b (+) SetToBag({v})
WithoutValue(b, v) == b (-) SetToBag({v})

\* v is on top of the heap b: in it, and nothing in it is greater.
IsGreatest(v, b) == v \in DOMAIN b /\ \A w \in DOMAIN b : w <= v

\* The heaps of values of V that fit into a vector of n elements; of a value
\* there are at most n copies, then.
Heaps(V, n) ==
    {b \in UNION {[S -> 1 .. n] : S \in SUBSET V} :
        IsFiniteSet(Copies(b)) /\ BagSize(b) <= n}
=============================================================================
