-------------------------------- MODULE Detection --------------------------------
(***************************************************************************)
(* The matched pair of generator and features, and the features computed      *)
(* twice: by the silver job over bronze, and from the online store for an      *)
(* event that is scored now.                                                  *)
(***************************************************************************)
EXTENDS Generator, BronzeRules, SilverFeatures, OnlineFeatures

VARIABLES
    consumed,     \* events the updater has handled
    store         \* each customer's item

vars == <<generator, consumed, store>>

TypeOK ==
    /\ GeneratorTypeOK
    /\ consumed \in 0 .. Len(emitted)
    /\ \A c \in Customer :
         store[c] \in SUBSET Entry /\ IsFiniteSet(store[c]) /\ Cardinality(store[c]) <= StoreCap

Init ==
    /\ GeneratorInit
    /\ consumed = 0
    /\ store = [c \in Customer |-> {}]

Produce ==
    /\ GeneratorNext
    /\ UNCHANGED <<consumed, store>>

\* The updater handles the next event: a customer's are on one shard, in order.
Consume ==
    /\ consumed < Len(emitted)
    /\ consumed' = consumed + 1
    /\ LET e == emitted[consumed + 1] IN
       IF Usable(e)
       THEN LET all == store[e.customer] \cup {EntryOf(consumed + 1, e, clock)} IN
            \E K \in SUBSET all :
                /\ IsCompaction(K, all, clock)
                /\ store' = [store EXCEPT ![e.customer] = K]
       ELSE UNCHANGED store
    /\ UNCHANGED generator

Tick ==
    /\ \E t \in Moments : t > clock /\ clock' = t
    /\ UNCHANGED <<pending, emitted, corrupted, consumed, store>>

Next == Produce \/ Consume \/ Tick

Spec == Init /\ [][Next]_vars

-----------------------------------------------------------------------------
Emitted == {emitted[i] : i \in 1 .. Len(emitted)}

\* What bronze holds once everything emitted has gone through the pipeline.
Bronze == {e \in Emitted : Valid(e)}

\* An event of customer c that happens now, as silver will see it.
Now(c, amount) ==
    [id |-> MaxEvents + 1, customer |-> c, amount |-> amount, t |-> clock, place |-> "home",
     burst |-> 0, mode |-> "none"]

With(row) == Bronze \cup {row}

\* Everything of the customer is in the store, bronze took all of it, and it is past.
CaughtUp == consumed = Len(emitted)
CleanPast(c) == \A e \in Emitted : e.customer = c => e \in Bronze /\ e.t <= clock

-----------------------------------------------------------------------------
\* The boundary that halts bad data, against what the generator and corrupt produce. An
\* event is rejected for exactly what it was damaged in, so that the quarantine can be
\* compared with what was injected, and an undamaged one only for an amount above the
\* maximum; and of the rows let into bronze the gate refuses by their values those of
\* exactly the maximum amount, and no others. (Whether it refuses one for its merchant
\* depends on the dimension that the silver job has built since: module Pipeline.)
BoundaryExact ==
    \A e \in Emitted :
        /\ _rejection_reasons(e) =
               Intended(e.mode) \cup (IF e.amount > MaxAmount THEN {"amount_out_of_range"} ELSE {})
        /\ Valid(e) => (ValuesRefused(e) <=> e.amount = MaxAmount)

\* "velocity - caught by the 1h/24h per-customer velocity counters" (generator.py): when
\* HighHour rows of a burst reach bronze, the latest of them is flagged, whatever order
\* their timestamps come in and whatever else the customer does.
BurstCaught ==
    \A r \in Bronze :
        LET burst == {q \in Bronze : q.burst = r.burst} IN
        r.burst # 0 /\ Cardinality(burst) >= HighHour /\ (\A q \in burst : q.t <= r.t)
            => is_high_velocity(Bronze, r)

\* "impossible_geo - caught by geo-distance / implied-speed": between two rows at places
\* too far apart for the time between them, some row is flagged, in whatever order the
\* window puts rows of one second and whatever rows lie between.
TravelCaught ==
    \A c \in Customer : (\E e \in Bronze : e.customer = c /\ e.place = "offshore") =>
        \A o \in Orders(Bronze, c) : \A i, j \in DOMAIN o :
            (/\ i < j /\ o[i].place # o[j].place
             /\ Far >= SpeedLimit * (_seconds(o[j].t) - _seconds(o[i].t)))
                => \E k \in i + 1 .. j : is_impossible_travel(o[k - 1], o[k])

\* "Derive the composite flags EXACTLY as the silver job does" (scoring.py), velocity, as
\* far as it holds: silver's windows are of whole seconds and reach up to a second further
\* back than those of the service. From an item of at most StoreCap events, an event scored
\* now is high velocity whenever silver, with windows a second shorter, will say so; and
\* only if silver does, unless the item holds events that bronze rejected or that lie in
\* the future.
VelocityParity ==
    \A c \in Customer : CaughtUp =>
        LET row == Now(c, MinAmount)
            online == OnlineHighVelocity(store[c], clock)
        IN  /\ HighVelocity(With(row), row, Hour - 1, Day - 1) => online
            /\ CleanPast(c) /\ online => is_high_velocity(With(row), row)

\* "train/serve parity for derived features" (scoring.py), the amount. Whatever the
\* caller gives and the store holds or fails to answer, a missing-indicator is only set
\* where silver's first row of a customer has it set too. With a clean past that the item
\* holds whole, nothing in it older than a month or of this second, and nothing by which
\* the months of both sides differ, the z-score exists when it does in silver. It is then
\* the same number: silver's flag is the one that the rounded score gives, and is set
\* whenever the service's is, which leaves a score out that only rounds up to the limit.
ServedAsTrained ==
    \A c \in Customer :
        LET row == Now(c, MinAmount)
            nulls == NullFeatures({row}, row, {})
            whole == /\ CaughtUp /\ CleanPast(c)
                     /\ Cardinality({e \in Emitted : e.customer = c}) <= StoreCap
                     /\ \A k \in store[c] : /\ _seconds(k.t) < _seconds(clock)
                                            /\ clock - k.t <= Month * Second
                     /\ \A e \in Emitted : e.customer = c =>
                            (clock - e.t <= Month * Second
                                <=> _seconds(clock) - _seconds(e.t) <= Month)
        IN  /\ \A fields \in SUBSET CallerFields, read \in BOOLEAN :
                   MissingIndicators(fields, read, store[c]) \subseteq nulls
            /\ whole => \A amount \in Requested :
                   LET priced == Now(c, amount) IN
                   /\ Scored(store[c]) = HasScore(Baseline(With(priced), priced))
                   /\ is_amount_outlier(With(priced), priced)
                          = (Scored(store[c]) /\ RoundsToOutlier(store[c], amount))
                   /\ OnlineOutlier(store[c], amount) => is_amount_outlier(With(priced), priced)
=============================================================================
