------------------------------ MODULE MCDetection ------------------------------
(* Instances of Detection for TLC.                                          *)
EXTENDS Detection, TLC

CONSTANTS c1, c2

Customers == {c1, c2}
Symmetric == Permutations(Customers)
=============================================================================
