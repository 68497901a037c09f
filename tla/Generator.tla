-------------------------------- MODULE Generator --------------------------------
(***************************************************************************)
(* TransactionGenerator of ingestion/generator.py, and the corruption that   *)
(* the producer applies to a fraction of its events. The random draws are    *)
(* the choices.                                                              *)
(***************************************************************************)
EXTENDS Transactions, Sequences

CONSTANTS
    Spend,           \* what _sample_amount may draw
    Probe, Hits,     \* a burst's card tests, and the escalated amounts of fraud
    BurstSizes,
    Steps,           \* seconds between the transactions of a burst
    Factors,         \* an outlier over the sampled amount
    MaxEvents, Moments, MaxCorrupt   \* bounds: events, values of the clock, damaged events

\* Amounts are at least 1.0, the minimum is 0.01; a burst of 9 with steps of 70 seconds
\* is over well within the hour.
ASSUME GeneratorAssumption ==
    /\ \A a \in Spend \cup Hits \cup {Probe} : a \in Nat /\ a > MinAmount
    /\ BurstSizes \subseteq Nat \ {0}
    /\ Steps \subseteq Nat
    /\ \A n \in BurstSizes, s \in Steps : (n - 1) * s <= Hour
    /\ Factors \subseteq Nat \ {0}
    /\ {MaxEvents, MaxCorrupt} \subseteq Nat
    /\ Moments \subseteq Nat \ {0}

VARIABLES
    clock,
    pending,      \* _pending
    emitted,      \* what the producer wrote, in the order of the stream
    corrupted     \* how many of them it damaged

generator == <<clock, pending, emitted, corrupted>>

GeneratorTypeOK ==
    /\ clock \in Moments
    /\ pending \in Seq(Event)
    /\ emitted \in Seq(Event)
    /\ corrupted \in 0 .. MaxCorrupt
    /\ Len(emitted) + Len(pending) <= MaxEvents

GeneratorInit ==
    /\ clock \in Moments
    /\ pending = <<>>
    /\ emitted = <<>>
    /\ corrupted = 0

\* The timestamp of a fresh event is "now" unless a burst says otherwise.
Build(i, c, amount, place) ==
    [id |-> Len(emitted) + i, customer |-> c, amount |-> amount, t |-> clock, place |-> place,
     burst |-> 0, mode |-> "none"]

\* The merchant that is made unknown is left out.
corrupt(e, mode) ==
    LET broken == [e EXCEPT !.mode = mode] IN
    CASE mode = "null_transaction_id" -> [broken EXCEPT !.id = NoId]
      [] mode = "missing_customer_id" -> [broken EXCEPT !.customer = NoCustomer]
      [] mode = "non_numeric_amount" -> [broken EXCEPT !.amount = NaN]
      [] mode = "negative_amount" -> [broken EXCEPT !.amount = -@]
      [] mode = "bad_timestamp" -> [broken EXCEPT !.t = Unparsed]
      [] mode = "unknown_merchant" -> broken
      [] mode = "out_of_range_geo" -> [broken EXCEPT !.place = "nowhere"]

\* main writes the event, or a damaged copy of it.
Emit(e) ==
    \/ emitted' = Append(emitted, e) /\ UNCHANGED corrupted
    \/ /\ corrupted < MaxCorrupt
       /\ \E mode \in Modes : emitted' = Append(emitted, corrupt(e, mode))
       /\ corrupted' = corrupted + 1

-----------------------------------------------------------------------------
\* "drained before new ones are generated"
Drain ==
    /\ pending # <<>>
    /\ Emit(Head(pending))
    /\ pending' = Tail(pending)
    /\ UNCHANGED clock

\* next_event with nothing pending; n events come of it.
Fresh(n) ==
    /\ pending = <<>>
    /\ Len(emitted) + n <= MaxEvents
    /\ UNCHANGED clock

_legit_transaction ==
    /\ Fresh(1)
    /\ \E c \in Customer, a \in Spend, p \in Merchants : Emit(Build(1, c, a, p))
    /\ UNCHANGED pending

\* As below, with the steps taken from minutes, not from seconds.
BurstTimeWide(i, s) == clock + (i - 1) * s[i] * Second * Hour

\* Each transaction draws its own step, from the start of the burst: the timestamps
\* lie in the future and need not be in order.
BurstTime(i, s) == clock + (i - 1) * s[i] * Second

_velocity_burst ==
    \E c \in Customer, n \in BurstSizes, hit \in Hits :
        /\ Fresh(n)
        /\ \E s \in [1 .. n -> Steps], p \in [1 .. n -> Merchants] :
             LET burst ==
                   [i \in 1 .. n |->
                      [Build(i, c, IF i <= n \div 2 THEN Probe ELSE hit, p[i])
                         EXCEPT !.t = BurstTime(i, s), !.burst = Len(emitted) + 1]]
             IN  Emit(burst[1]) /\ pending' = Tail(burst)

_impossible_geo_transaction ==
    /\ Fresh(1)
    /\ \E c \in Customer, a \in Hits : Emit(Build(1, c, a, "offshore"))
    /\ UNCHANGED pending

_amount_outlier_transaction ==
    /\ Fresh(1)
    /\ \E c \in Customer, a \in Spend, f \in Factors, p \in Merchants :
         Emit(Build(1, c, a * f, p))
    /\ UNCHANGED pending

GeneratorNext ==
    \/ Drain
    \/ _legit_transaction
    \/ _velocity_burst
    \/ _impossible_geo_transaction
    \/ _amount_outlier_transaction
=============================================================================
