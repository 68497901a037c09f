------------------------------- MODULE MCIngest -------------------------------
(* Instances of Ingest for TLC.                                             *)
EXTENDS Ingest

CONSTANTS c1, c2, s1, s2

TwoCustomers == {c1, c2}
TwoShards == {s1, s2}

\* Records 1 and 2 are of one customer.
Customers3 == <<c1, c1, c2>>
\* The keyless record shares a shard with the other customer.
Hash == [k \in {c1, c2, Unknown} |-> IF k = c1 THEN s1 ELSE s2]

\* The second transaction carries the earlier timestamp; the third carries none.
Stamps3 == <<2, 1, 0>>
=============================================================================
