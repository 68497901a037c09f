------------------------------ MODULE Enumeration ------------------------------
(* What Python's list comprehensions and its stable sort make of a list: some *)
(* of its elements, in some order. An order is a set of pairs <<earlier,      *)
(* later>>; a sort is an enumeration of indices, so equal elements stay apart. *)
EXTENDS Naturals, FiniteSets, Sequences

\* The elements of K, the earliest in the order R first.
Enumerate(K, R) ==
    [k \in 1 .. Cardinality(K) |->
        CHOOSE i \in K : Cardinality({j \in K : <<j, i>> \in R}) = k - 1]

\* The elements of s at the indices in K, in the order R of the indices.
Pick(s, K, R) ==
    LET order == Enumerate(K, R) IN [k \in DOMAIN order |-> s[order[k]]]

Ascending(K) == {x \in K \X K : x[1] < x[2]}

\* [e for e in s if e in S]
Only(s, S) ==
    LET kept == {i \in DOMAIN s : s[i] \in S} IN Pick(s, kept, Ascending(kept))
=============================================================================
