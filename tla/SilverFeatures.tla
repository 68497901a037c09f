------------------------------ MODULE SilverFeatures ------------------------------
(***************************************************************************)
(* The fraud features of glue/transforms.py over a set R of bronze rows:     *)
(* windows per customer by event time in whole seconds, and the previous      *)
(* transaction.                                                              *)
(***************************************************************************)
EXTENDS Transactions, Sequences

\* The rows of r's customer from second a to second b.
Window(R, r, a, b) ==
    {q \in R : q.customer = r.customer /\ a <= _seconds(q.t) /\ _seconds(q.t) <= b}

\* rangeBetween(-w, 0): the current row and its peers are in it.
Trailing(R, r, w) == Window(R, r, _seconds(r.t) - w, _seconds(r.t))

HighVelocity(R, r, hour, day) ==
    \/ Cardinality(Trailing(R, r, hour)) >= HighHour
    \/ Cardinality(Trailing(R, r, day)) >= HighDay

is_high_velocity(R, r) == HighVelocity(R, r, Hour, Day)

\* As below, with the row in its own baseline.
BaselineWithRow(R, r) == Window(R, r, _seconds(r.t) - Month, _seconds(r.t))

\* rangeBetween(-30 days, -1): neither the row nor its peers.
Baseline(R, r) == Window(R, r, _seconds(r.t) - Month, _seconds(r.t) - 1)

\* The score is rounded before it is compared: half a unit below the limit is enough.
RoundsToOutlier(E, amount) ==
    ScoreReaches(E, amount, 2 * Precision * Outlier - 1, 2 * Precision)

is_amount_outlier(R, r) ==
    HasScore(Baseline(R, r)) /\ RoundsToOutlier(Baseline(R, r), r.amount)

-----------------------------------------------------------------------------
\* The customer's rows in the order of the lag; rows of one timestamp come in any.
Orders(R, c) ==
    LET rows == {r \in R : r.customer = c}
        n == Cardinality(rows)
    IN  {o \in [1 .. n -> rows] : \A i, j \in 1 .. n : i < j => o[i] # o[j] /\ o[i].t <= o[j].t}

\* Distances within a metro are left out.
Distance(q, r) == IF q.place = r.place THEN 0 ELSE Far

\* As below, without the sentinel: no speed between rows of one second.
SameSecondIsNull(q, r) == FALSE

\* Transactions of one second at two places get the sentinel 99999.
SameSecondTravel(q, r) == Distance(q, r) > 0

is_impossible_travel(q, r) ==
    LET elapsed == _seconds(r.t) - _seconds(q.t) IN
    IF elapsed > 0 THEN Distance(q, r) >= SpeedLimit * elapsed ELSE SameSecondTravel(q, r)

\* The numeric features of ml/ensemble.py that are NULL in row r of silver, whose lag is the
\* row in prior, if there is one; the others always have a value.
NullFeatures(R, r, prior) ==
    (IF HasScore(Baseline(R, r)) THEN {} ELSE {"amount_zscore_30d"})
        \cup (IF prior = {} THEN {"geo_distance_from_prior_km", "seconds_since_prior_txn"} ELSE {})
        \cup (IF \A q \in prior : _seconds(q.t) = _seconds(r.t) /\ Distance(q, r) = 0
              THEN {"implied_speed_kmh"} ELSE {})
=============================================================================
