------------------------------- MODULE MCServing -------------------------------
(* Instances of Serving for TLC.                                            *)
EXTENDS Serving, TLC

CONSTANTS x1, x2, r1, r2, m1, m2

TwoTxns == {x1, x2}
TwoRequests == {r1, r2}
TwoModels == {m1, m2}

\* Both transactions are of the second day; one may come after the other was read.
SameDay == [t \in TwoTxns |-> 2]

Symmetric == Permutations(TwoTxns) \cup Permutations(TwoRequests) \cup Permutations(TwoModels)
=============================================================================
