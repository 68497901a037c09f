------------------------------ MODULE MCMedallion ------------------------------
(* Instances of Medallion for TLC.                                          *)
EXTENDS Medallion

Rows == {1, 2}

\* One transaction on each of the first two days.
OneADay == [r \in Rows |-> r - 1]
=============================================================================
