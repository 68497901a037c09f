------------------------------ MODULE Transactions ------------------------------
(***************************************************************************)
(* A transaction as it travels from the generator to bronze and to the       *)
(* online store, and the settings that both sides share. Amounts are whole   *)
(* units, times are ticks, some of which make a second.                      *)
(***************************************************************************)
EXTENDS Integers, FiniteSets, Functions

CONSTANTS
    Customer,
    NoCustomer,      \* a record without the key
    Far,             \* the least distance between two such places
    Second,          \* ticks in a second
    MinAmount, MaxAmount,
    Hour, Day, Month,        \* the windows, in seconds
    HighHour, HighDay,       \* counts that make high velocity: 5 and 20
    MinHistory,              \* amounts a z-score needs: 3
    Outlier,                 \* the z-score of an outlier: 3
    Precision,               \* the units to which silver rounds a z-score of 1: 10000
    SpeedLimit               \* the least speed that rounds to one above 900: 900.005

ASSUME TransactionAssumption ==
    /\ NoCustomer \notin Customer
    /\ {MaxAmount, MinHistory, SpeedLimit, HighDay} \subseteq Nat
    /\ {MinAmount, HighHour, Far, Second, Outlier, Precision} \subseteq Nat \ {0}
    /\ {Hour, Day, Month} \subseteq Nat \ {0}
    /\ Hour <= Day /\ Day <= Month

\* "N/A" in place of an amount, and a timestamp or id that is not one.
NaN == 0
Unparsed == 0
NoId == 0

\* The customer's metro, a city far from it, and no place on earth.
Place == {"home", "offshore", "nowhere"}

\* Where there are merchants, of which most but not all customers choose a near one.
Merchants == {"home", "offshore"}
Modes == {"null_transaction_id", "missing_customer_id", "non_numeric_amount",
          "negative_amount", "bad_timestamp", "unknown_merchant", "out_of_range_geo"}

\* burst is the id of the first transaction of its burst; mode is _corruption_mode.
\* Merchants are left out.
Event == [id : Nat, customer : Customer \cup {NoCustomer}, amount : Int, t : Nat,
          place : Place, burst : Nat, mode : Modes \cup {"none"}]

\* The cast of a timestamp to whole seconds.
_seconds(t) == t \div Second

Amounts(E) == SumFunction([e \in E |-> e.amount])
Squares(E) == SumFunction([e \in E |-> e.amount * e.amount])

\* n * (n - 1) times the sample variance of the amounts.
Spread(E) == Cardinality(E) * Squares(E) - Amounts(E) * Amounts(E)

\* A z-score needs enough amounts, that are not all the same ...
HasScore(E) == Cardinality(E) >= MinHistory /\ Spread(E) > 0

\* ... and is |amount - mean| in sample deviations: compared with limit / unit, without a
\* root.
ScoreReaches(E, amount, limit, unit) ==
    LET n == Cardinality(E)
        off == n * amount - Amounts(E)
    IN  unit * unit * (off * off * (n - 1)) >= limit * limit * (n * Spread(E))
=============================================================================
