------------------------------ MODULE MCPipeline ------------------------------
(* Instances of Pipeline for TLC.                                           *)
EXTENDS Pipeline, TLC

CONSTANTS e1, e2, good, bad, odd, m1, m2

TwoExecutions == {e1, e2}
OneExecution == {e1}

\* One row each gate accepts, one the validator rejects.
CleanRows == {good, bad}
GoodRow == {good}
\* ... and one the validator admits while the bronze gate rejects it.
AllRows == {good, bad, odd}

OneMerchant == [r \in Row |-> m1]
TwoMerchants == [r \in Row |-> IF r = good THEN m1 ELSE m2]

BadRow == {bad}
OddRow == {odd}
None == {}

Partitions == {{good, bad}, {odd}}
GoodPartition == {{good}}

Symmetric == Permutations(Execution)
=============================================================================
