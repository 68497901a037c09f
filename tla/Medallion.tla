-------------------------------- MODULE Medallion --------------------------------
(***************************************************************************)
(* The rows of the three layers over days: raw objects filed under the day    *)
(* they arrived, versions of a row by ingest time, and the windows in which    *)
(* the silver and gold jobs recompute what is there. Each job is one step      *)
(* here; Pipeline takes them apart.                                            *)
(***************************************************************************)
EXTENDS Trigger

CONSTANTS
    Row,          \* transactions of one customer that the validator accepts
    EventDay,     \* dt of each
    LastVersion,  \* bound: ingest timestamps of a row
    Lookback,     \* LOOKBACK_DAYS: 31
    Baseline,     \* days in the widest feature window: 30
    Recompute,    \* RECOMPUTE_DAYS: 7
    MaxObjects    \* bound: objects in the raw zone

ASSUME MedallionAssumption ==
    /\ EventDay \in [Row -> Day]
    /\ {LastVersion, Lookback, Baseline, Recompute, MaxObjects} \subseteq Nat
    /\ Baseline <= Lookback /\ Recompute <= Lookback

VARIABLES
    raw,        \* objects, each with one version of a row, in the partition of its arrival
    bronze,     \* the version of each row, 0 for none
    silver,     \* the version and the history each row's features were computed from
    metrics     \* fraud_metrics_daily: the rows and versions each day was computed from

tables == <<bronze, silver, metrics>>
vars == <<triggerVars, raw, tables>>

\* The ingest timestamps, 0 for a row that is not there.
Version == 1 .. LastVersion

Object == [row : Row, version : Version, part : Day]
Stored == Version \cup {0}
Featured == [version : Stored, history : SUBSET Row]
Counted == Row \X Version

TypeOK ==
    /\ TriggerTypeOK
    /\ raw \subseteq Object /\ Cardinality(raw) <= MaxObjects
    /\ bronze \in [Row -> Stored]
    /\ silver \in [Row -> Featured]
    /\ metrics \in [Day -> SUBSET Counted]
    /\ \A d \in Day : \A x \in metrics[d] : EventDay[x[1]] = d

Init ==
    /\ TriggerInit
    /\ raw = {}
    /\ bronze = [r \in Row |-> 0]
    /\ silver = [r \in Row |-> [version |-> 0, history |-> {}]]
    /\ metrics = [d \in Day |-> {}]

\* Firehose delivers a row, late by days or once more; a later ingest_timestamp comes
\* of a transaction sent again.
Land(r, v) ==
    /\ EventDay[r] <= today
    /\ Cardinality(raw) < MaxObjects
    /\ raw' = raw \cup {[row |-> r, version |-> v, part |-> today]}
    /\ UNCHANGED <<triggerVars, tables>>

Notify(o) ==
    /\ o \in raw
    /\ StartExecution(o.part)
    /\ UNCHANGED <<raw, tables>>

-----------------------------------------------------------------------------
Versions(n, r) == {o.version : o \in {x \in raw : x.row = r /\ x.part \in Scope(n)}}

\* dedupe_transactions: the latest by ingest_timestamp.
Deduped(s) == CHOOSE v \in s : \A w \in s : v >= w

\* The MERGE replaces what it matches, without comparing versions.
BronzeJob(n) ==
    /\ At(n, "bronze")
    /\ bronze' = [r \in Row |-> IF Versions(n, r) = {} THEN bronze[r] ELSE Deduped(Versions(n, r))]
    /\ Proceed(n, "silver")
    /\ UNCHANGED <<clock, failures, raw, silver, metrics>>

\* "dt >= cutoff"
Since(d, days) == d + days >= today

\* build_silver over the bronze rows in the lookback: what a row's 30-day baseline finds.
History(r, rows) ==
    {q \in rows : EventDay[q] < EventDay[r] /\ EventDay[r] <= EventDay[q] + Baseline}

\* All rows in the window are computed again and merged.
SilverJob(n) ==
    /\ At(n, "silver")
    /\ LET rows == {r \in Row : bronze[r] # 0 /\ Since(EventDay[r], Lookback)} IN
       silver' = [r \in Row |->
                    IF r \in rows THEN [version |-> bronze[r], history |-> History(r, rows)]
                    ELSE silver[r]]
    /\ Proceed(n, "gold")
    /\ UNCHANGED <<clock, failures, raw, bronze, metrics>>

\* As below, with a static overwrite, which drops the days that are not recomputed.
OverwriteTable(days, new) == [d \in Day |-> IF d \in days THEN new[d] ELSE {}]

\* "Replace only the partitions present in source".
overwrite_partitions(days, new) == [d \in Day |-> IF d \in days THEN new[d] ELSE metrics[d]]

\* As below, grouped without dt.
AllInWindow(rows, d) == {<<r, silver[r].version>> : r \in rows}

\* build_fraud_metrics_daily: what the metrics of a day are computed from.
fraud_metrics_daily(rows, d) ==
    {<<r, silver[r].version>> : r \in {q \in rows : EventDay[q] = d}}

GoldJob(n) ==
    /\ At(n, "gold")
    /\ LET rows == {r \in Row : silver[r].version # 0 /\ Since(EventDay[r], Recompute)}
           new == [d \in Day |-> fraud_metrics_daily(rows, d)]
       IN  metrics' = overwrite_partitions({EventDay[r] : r \in rows}, new)
    /\ Proceed(n, "done")
    /\ UNCHANGED <<clock, failures, raw, bronze, silver>>

ExecutionStep(n) == BronzeJob(n) \/ SilverJob(n) \/ GoldJob(n)

Next ==
    \/ \E r \in Row, v \in Version : Land(r, v)
    \/ \E o \in raw : Notify(o)
    \/ (Schedule \/ Tick \/ \E n \in Name : EndEarly(n)) /\ UNCHANGED <<raw, tables>>
    \/ \E n \in Name : ExecutionStep(n)

\* The schedule is enabled and its executions run; nothing is asked of the trigger.
Spec ==
    /\ Init /\ [][Next]_vars
    /\ WF_vars(Schedule /\ UNCHANGED <<raw, tables>>)
    /\ WF_vars(ExecutionStep(Hourly))

-----------------------------------------------------------------------------
RowsOf(counted) == {x[1] : x \in counted}

\* silver_job.py: "anything less and the z-score is computed against a truncated
\* history"; spark_utils.py overwrite_partitions: "leaving the rest untouched". No run
\* shortens the history of a row that is not older than the lookback exceeds the
\* baseline, and no run takes a counted row out of the daily metrics, whichever
\* executions overlap and however late the rows of a day arrive.
NoStepLoses ==
    [][ /\ \A r \in Row :
             today <= EventDay[r] + (Lookback - Baseline)
                 => silver[r].history \subseteq silver'[r].history
        /\ \A d \in Day : RowsOf(metrics[d]) \subseteq RowsOf(metrics'[d]) ]_vars

\* A version of r has landed that the daily metrics do not count yet.
Behind(r) ==
    \E o \in raw : o.row = r /\ \A x \in metrics[EventDay[r]] : x[1] = r => x[2] < o.version

\* An object whose trigger was swallowed because the bucket's execution had read already,
\* or had failed, or that an older copy was merged over, is counted all the same, in that
\* version or a later one, unless its day leaves the window gold recomputes.
LandedRowCounted ==
    \A r \in Row : Behind(r) ~> (~Behind(r) \/ today > EventDay[r] + Recompute)
=============================================================================
