------------------------------ MODULE OnlineFeatures ------------------------------
(***************************************************************************)
(* The features an event is scored with: a customer's item in the online     *)
(* store, as the updater compacts it and ScoringService.customer_features     *)
(* reads it, layered by ScoringService.score under what the caller gives.     *)
(***************************************************************************)
EXTENDS Transactions

CONSTANTS
    StoreCap,      \* MAX_EVENTS_PER_CUSTOMER
    CallerFields,  \* the optional features of a ScoreRequest
    Requested      \* the amounts of requests

\* HORIZON_SECONDS is the month of the baseline. The cap leaves enough events to tell
\* high velocity.
ASSUME OnlineAssumption == StoreCap \in Nat /\ StoreCap + 1 >= HighDay /\ Requested \subseteq Int

\* An event of the item: pos tells apart those of one time and amount.
Entry == [pos : Nat, t : Nat, amount : Int]

Usable(e) == e.customer # NoCustomer /\ e.amount # NaN

\* An event without a timestamp happens now.
EntryOf(pos, e, now) == [pos |-> pos, t |-> IF e.t = Unparsed THEN now ELSE e.t, amount |-> e.amount]

InHorizon(E, now) == {e \in E : now - e.t <= Month * Second}

\* As below, without the cap.
UncappedCompaction(K, E, now) == K = InHorizon(E, now)

\* K is what compact_events may keep of E: all within the horizon, or the newest of it.
IsCompaction(K, E, now) ==
    LET fresh == InHorizon(E, now) IN
    IF Cardinality(fresh) <= StoreCap THEN K = fresh
    ELSE /\ K \subseteq fresh /\ Cardinality(K) = StoreCap
         /\ \A k \in K, d \in fresh \ K : d.t <= k.t

-----------------------------------------------------------------------------
\* customer_features, at time now: events of the last w seconds, to the tick, and of the
\* future.
Recent(K, now, w) == {k \in K : now - k.t <= w * Second}

\* As below, without the event that is scored.
CountStored(K, now, w) == Cardinality(Recent(K, now, w))

\* "+1: the event being scored counts too"
txn_count(K, now, w) == Cardinality(Recent(K, now, w)) + 1

OnlineHighVelocity(K, now) == txn_count(K, now, Hour) >= HighHour \/ txn_count(K, now, Day) >= HighDay

\* "len(amts) >= 3", and no score without a deviation.
Scored(K) == Cardinality(K) >= MinHistory /\ Spread(K) > 0

\* The score itself is compared, not rounded.
OnlineOutlier(K, amount) == Scored(K) /\ ScoreReaches(K, amount, Outlier, 1)

NUMERIC_FEATURES ==
    {"amount", "txn_count_1h", "txn_count_24h", "amount_sum_1h", "amount_sum_24h",
     "distinct_merchants_24h", "amount_zscore_30d", "prior_txn_count_30d", "merchant_risk_score",
     "geo_distance_from_prior_km", "implied_speed_kmh", "seconds_since_prior_txn",
     "fraud_signal_count"}

\* What customer_features returns of an item, the last one None for an empty one.
FromStore(K) ==
    {"txn_count_1h", "txn_count_24h", "amount_sum_1h", "amount_sum_24h", "prior_txn_count_30d"}
        \cup (IF K = {} THEN {} ELSE {"seconds_since_prior_txn"})

\* What score fills in by setdefault.
Defaults == {"txn_count_1h", "txn_count_24h", "amount_sum_1h", "amount_sum_24h",
             "distinct_merchants_24h", "merchant_risk_score", "prior_txn_count_30d",
             "fraud_signal_count"}

\* The indicators prepare_features sets for a request with these fields, the customer's
\* item being read or not.
MissingIndicators(fields, read, K) ==
    NUMERIC_FEATURES \ ({"amount"} \cup fields \cup Defaults
                          \cup (IF read THEN FromStore(K) ELSE {})
                          \cup (IF read /\ Scored(K) THEN {"amount_zscore_30d"} ELSE {}))
=============================================================================
