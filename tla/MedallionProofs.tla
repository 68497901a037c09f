----------------------------- MODULE MedallionProofs -----------------------------
(* Proofs about Medallion, for any rows, days, versions, windows and bounds,    *)
(* and for any interleaving of executions.                                      *)
EXTENDS Medallion, LeastElement

\* What is assumed of the constants, spelled out.
LEMMA Constants ==
    /\ LastTick \in Nat /\ BucketsPerDay \in Nat /\ BucketsPerDay > 0
    /\ MaxTriggered \in Nat /\ MaxFailures \in Nat /\ MaxObjects \in Nat
    /\ LastVersion \in Nat /\ Lookback \in Nat /\ Baseline \in Nat /\ Recompute \in Nat
    /\ Recompute <= Lookback
    /\ EventDay \in [Row -> Day]
BY TriggerAssumption, MedallionAssumption

\* A bucket of the clock is in a day.
LEMMA DayType ==
    ASSUME NEW t \in Ticks
    PROVE  DayOf(t) \in Day
<1>1. t \div BucketsPerDay \in 0 .. (LastTick \div BucketsPerDay)
  BY Constants, Z3 DEF Ticks
<1> QED
  BY <1>1 DEF DayOf, Day

LEMMA Days == Day \subseteq Nat /\ \A r \in Row : EventDay[r] \in Nat
BY Constants DEF Day

\* Of versions that were found, dedupe keeps one.
LEMMA DedupedType ==
    ASSUME NEW s \in SUBSET Version, s # {}
    PROVE  Deduped(s) \in s
<1>1. \E v \in s : \A w \in s : w <= v
  <2>1. s \in SUBSET (0 .. LastVersion)
    BY Constants DEF Version
  <2> QED
    BY <2>1, Constants, Greatest
<1>2. \E v \in s : \A w \in s : v >= w
  BY <1>1 DEF Version
<1> QED
  BY <1>2 DEF Deduped

LEMMA VersionsType ==
    ASSUME TypeOK, NEW n, NEW r
    PROVE  Versions(n, r) \in SUBSET Version
BY DEF TypeOK, Versions, Object

-----------------------------------------------------------------------------
(* The inductive invariant.                                                 *)

\* A row in silver is in bronze, and its history consists of rows of bronze within its
\* baseline.
SilverFounded ==
    \A r \in Row :
        /\ silver[r].version # 0 => bronze[r] # 0
        /\ \A q \in silver[r].history :
             /\ bronze[q] # 0
             /\ EventDay[q] < EventDay[r]
             /\ EventDay[r] <= EventDay[q] + Baseline

\* The metrics count rows of silver.
MetricsFounded == \A d \in Day : \A x \in metrics[d] : silver[x[1]].version # 0

IInv == TypeOK /\ IsFiniteSet(raw) /\ SilverFounded /\ MetricsFounded

LEMMA InitInv == Init => IInv
<1> SUFFICES ASSUME Init
             PROVE  IInv
  OBVIOUS
<1> USE Constants DEF Init
<1>1. TriggerTypeOK
  BY DEF TriggerInit, TriggerTypeOK, Ticks, Steps
<1>2. IsFiniteSet(raw) /\ Cardinality(raw) <= MaxObjects
  BY FS_EmptySet
<1>3. /\ bronze \in [Row -> Stored]
      /\ silver \in [Row -> Featured]
      /\ metrics \in [Day -> SUBSET Counted]
  BY DEF Stored, Featured
<1> QED
  BY <1>1, <1>2, <1>3 DEF IInv, TypeOK, SilverFounded, MetricsFounded

\* An execution that exists goes on to one of its steps.
LEMMA ProceedType ==
    ASSUME execution \in [Name -> Steps], NEW n \in Name, NEW job \in Steps, Proceed(n, job)
    PROVE  execution' \in [Name -> Steps]
BY DEF Proceed

LEMMA LandInv ==
    ASSUME IInv, NEW r \in Row, NEW v \in Version, Land(r, v)
    PROVE  IInv'
<1> DEFINE o == [row |-> r, version |-> v, part |-> today]
<1>1. o \in Object
  BY DayType DEF IInv, TypeOK, TriggerTypeOK, today, Object
<1>2. IsFiniteSet(raw') /\ Cardinality(raw') <= MaxObjects
  <2>1. Cardinality(raw) \in Nat
    BY FS_CardinalityType DEF IInv
  <2> QED
    <3>1. IsFiniteSet(raw \cup {o}) /\ Cardinality(raw \cup {o}) <= Cardinality(raw) + 1
      <4>1. IsFiniteSet(raw)
        BY DEF IInv
      <4> HIDE DEF o
      <4>2. /\ IsFiniteSet(raw \cup {o})
            /\ Cardinality(raw \cup {o}) = IF o \in raw THEN Cardinality(raw) ELSE Cardinality(raw) + 1
        BY <4>1, FS_AddElement, Zenon
      <4> QED
        BY <2>1, <4>2
    <3>2. Cardinality(raw \cup {o}) \in Nat
      BY <3>1, FS_CardinalityType
    <3>3. raw' = raw \cup {o} /\ Cardinality(raw) < MaxObjects
      BY DEF Land
    <3> QED
      BY <2>1, <3>1, <3>2, <3>3, Constants
<1> QED
  BY <1>1, <1>2 DEF Land, IInv, TypeOK, TriggerTypeOK, SilverFounded, MetricsFounded, triggerVars, tables

\* Steps that change neither the raw zone nor a table.
LEMMA ControlInv ==
    ASSUME IInv, UNCHANGED <<raw, tables>>, TriggerTypeOK'
    PROVE  IInv'
BY DEF IInv, TypeOK, SilverFounded, MetricsFounded, tables

LEMMA NotifyInv ==
    ASSUME IInv, NEW o \in raw, Notify(o)
    PROVE  IInv'
<1>1. ExecutionName(o.part) \in Name
  BY DEF IInv, TypeOK, TriggerTypeOK, Object, ExecutionName, Name
<1>2. Proceed(ExecutionName(o.part), "bronze") /\ UNCHANGED <<clock, failures>>
  BY DEF Notify, StartExecution
<1>3. TriggerTypeOK'
  BY <1>1, <1>2, ProceedType DEF IInv, TypeOK, TriggerTypeOK, Steps
<1> QED
  BY <1>3, ControlInv DEF Notify

LEMMA TriggerInv ==
    ASSUME IInv, Schedule \/ Tick \/ (\E n \in Name : EndEarly(n)), UNCHANGED <<raw, tables>>
    PROVE  IInv'
<1>1. Hourly \in Name
  BY DEF Name
<1>2. TriggerTypeOK
  BY DEF IInv, TypeOK
<1>3. CASE Schedule
  <2>1. TriggerTypeOK'
    BY <1>1, <1>2, <1>3, ProceedType DEF Schedule, TriggerTypeOK, Steps
  <2> QED
    BY <2>1, ControlInv
<1>4. CASE Tick
  <2>1. TriggerTypeOK'
    BY <1>2, <1>4, Constants DEF Tick, TriggerTypeOK, Ticks
  <2> QED
    BY <2>1, ControlInv
<1>5. CASE \E n \in Name : EndEarly(n)
  <2>1. PICK n \in Name : EndEarly(n)
    BY <1>5
  <2>2. execution' \in [Name -> Steps]
    BY <1>2, <2>1, ProceedType DEF EndEarly, TriggerTypeOK, Steps
  <2>3. TriggerTypeOK'
    BY <1>2, <2>1, <2>2, Constants DEF EndEarly, TriggerTypeOK
  <2> QED
    BY <2>3, ControlInv
<1> QED
  BY <1>3, <1>4, <1>5

\* A bronze job replaces versions by versions.
LEMMA BronzeInv ==
    ASSUME IInv, NEW n \in Name, BronzeJob(n)
    PROVE  IInv'
<1>1. TriggerTypeOK'
  BY ProceedType DEF BronzeJob, IInv, TypeOK, TriggerTypeOK, Steps
<1>2. ASSUME NEW r \in Row
      PROVE  bronze'[r] \in Stored /\ (bronze[r] # 0 => bronze'[r] # 0)
  <2>1. CASE Versions(n, r) = {}
    BY <2>1 DEF BronzeJob, IInv, TypeOK
  <2>2. CASE Versions(n, r) # {}
    <3>1. Deduped(Versions(n, r)) \in Version
      BY <2>2, VersionsType, DedupedType DEF IInv
    <3> QED
      BY <2>2, <3>1, Constants DEF BronzeJob, Stored, Version
  <2> QED
    BY <2>1, <2>2
<1>3. bronze' \in [Row -> Stored]
  BY <1>2 DEF BronzeJob
<1>4. SilverFounded'
  <2>1. \A r \in Row : silver[r].history \subseteq Row
    BY DEF IInv, TypeOK, Featured
  <2> QED
    BY <1>2, <2>1 DEF BronzeJob, IInv, SilverFounded
<1> QED
  BY <1>1, <1>3, <1>4 DEF BronzeJob, IInv, TypeOK, MetricsFounded

\* A silver job computes rows of bronze from rows of bronze.
LEMMA SilverInv ==
    ASSUME IInv, NEW n \in Name, SilverJob(n)
    PROVE  IInv'
<1> DEFINE rows == {r \in Row : bronze[r] # 0 /\ Since(EventDay[r], Lookback)}
<1>1. TriggerTypeOK'
  BY ProceedType DEF SilverJob, IInv, TypeOK, TriggerTypeOK, Steps
<1>2. ASSUME NEW r \in Row
      PROVE  /\ silver'[r] \in Featured
             /\ silver[r].version # 0 => silver'[r].version # 0
             /\ silver'[r].version # 0 => bronze[r] # 0
             /\ \A q \in silver'[r].history :
                  bronze[q] # 0 /\ EventDay[q] < EventDay[r] /\ EventDay[r] <= EventDay[q] + Baseline
  <2>1. CASE r \in rows
    <3>1. silver'[r] = [version |-> bronze[r], history |-> History(r, rows)]
      BY <2>1 DEF SilverJob
    <3>2. bronze[r] \in Stored /\ bronze[r] # 0
      BY <2>1 DEF IInv, TypeOK
    <3>3. History(r, rows) \in SUBSET Row
      BY DEF History
    <3>4. silver'[r].version = bronze[r] /\ silver'[r].history = History(r, rows)
      BY <3>1
    <3> QED
      BY <3>1, <3>2, <3>3, <3>4 DEF Featured, History
  <2>2. CASE r \notin rows
    <3>1. silver'[r] = silver[r]
      BY <2>2 DEF SilverJob
    <3> QED
      BY <3>1 DEF IInv, TypeOK, SilverFounded
  <2> QED
    BY <2>1, <2>2
<1>3. silver' \in [Row -> Featured]
  BY <1>2 DEF SilverJob
<1>4. bronze' = bronze /\ metrics' = metrics /\ raw' = raw
  BY DEF SilverJob
<1>5. SilverFounded'
  BY <1>2, <1>4 DEF SilverFounded
<1>6. MetricsFounded'
  <2>1. \A d \in Day : \A x \in metrics[d] : x[1] \in Row
    BY DEF IInv, TypeOK, Counted
  <2> QED
    BY <1>2, <1>4, <2>1 DEF IInv, MetricsFounded
<1> QED
  BY <1>1, <1>3, <1>4, <1>5, <1>6 DEF IInv, TypeOK

\* A gold job counts rows of silver, each on its day.
LEMMA GoldInv ==
    ASSUME IInv, NEW n \in Name, GoldJob(n)
    PROVE  IInv'
<1> DEFINE rows == {r \in Row : silver[r].version # 0 /\ Since(EventDay[r], Recompute)}
           new == [d \in Day |-> fraud_metrics_daily(rows, d)]
           days == {EventDay[r] : r \in rows}
<1>1. TriggerTypeOK'
  BY ProceedType DEF GoldJob, IInv, TypeOK, TriggerTypeOK, Steps
<1>2. metrics' = [d \in Day |-> IF d \in days THEN new[d] ELSE metrics[d]]
  BY DEF GoldJob, overwrite_partitions
<1>3. ASSUME NEW d \in Day
      PROVE  /\ metrics'[d] \in SUBSET Counted
             /\ \A x \in metrics'[d] : EventDay[x[1]] = d /\ silver[x[1]].version # 0
  <2>1. CASE d \in days
    <3>1. metrics'[d] = fraud_metrics_daily(rows, d)
      BY <1>2, <2>1
    <3>2. ASSUME NEW r \in rows
          PROVE  silver[r].version \in Version
      <4>1. silver[r].version \in Stored
        BY DEF IInv, TypeOK, Featured
      <4> QED
        BY <4>1 DEF Stored
    <3> QED
      BY <3>1, <3>2 DEF fraud_metrics_daily, Counted
  <2>2. CASE d \notin days
    BY <1>2, <2>2 DEF IInv, TypeOK, MetricsFounded
  <2> QED
    BY <2>1, <2>2
<1>4. metrics' \in [Day -> SUBSET Counted]
  BY <1>2, <1>3
<1> QED
  BY <1>1, <1>3, <1>4 DEF GoldJob, IInv, TypeOK, SilverFounded, MetricsFounded

\* The invariant is inductive.
LEMMA StepInv == IInv /\ [Next]_vars => IInv'
<1> SUFFICES ASSUME IInv, [Next]_vars
             PROVE  IInv'
  OBVIOUS
<1>1. ASSUME NEW r \in Row, NEW v \in Version, Land(r, v)
      PROVE  IInv'
  BY <1>1, LandInv
<1>2. ASSUME NEW o \in raw, Notify(o)
      PROVE  IInv'
  BY <1>2, NotifyInv
<1>3. ASSUME Schedule \/ Tick \/ (\E n \in Name : EndEarly(n)), UNCHANGED <<raw, tables>>
      PROVE  IInv'
  BY <1>3, TriggerInv
<1>4. ASSUME NEW n \in Name, ExecutionStep(n)
      PROVE  IInv'
  BY <1>4, BronzeInv, SilverInv, GoldInv DEF ExecutionStep
<1>5. CASE UNCHANGED vars
  BY <1>5 DEF vars, triggerVars, tables, IInv, TypeOK, TriggerTypeOK, SilverFounded, MetricsFounded
<1> QED
  BY <1>1, <1>2, <1>3, <1>4, <1>5 DEF Next

\* The invariant of the layers behind the theorems below.
THEOREM InductiveInvariant == Spec => []IInv
BY InitInv, StepInv, PTL DEF Spec

\* Types: the layers hold versions and histories of rows, the metrics count rows under
\* their own day, the bounds are kept (TypeOK of the medallion run).
THEOREM TypeCorrect == Spec => []TypeOK
<1>1. IInv => TypeOK
  BY DEF IInv
<1> QED
  BY <1>1, InductiveInvariant, PTL

-----------------------------------------------------------------------------
(* What a run of a job may not lose.                                        *)

\* silver_job.py: as long as a row is no older than the lookback exceeds the baseline,
\* all of its history is within the lookback, so that a recomputation finds it again.
LEMMA HistoryKeptByStep ==
    ASSUME IInv, Next, NEW r \in Row, today <= EventDay[r] + (Lookback - Baseline)
    PROVE  silver[r].history \subseteq silver'[r].history
<1>1. CASE silver' = silver
  BY <1>1
<1>2. CASE \E n \in Name : SilverJob(n)
  <2>1. PICK n \in Name : SilverJob(n)
    BY <1>2
  <2> DEFINE rows == {q \in Row : bronze[q] # 0 /\ Since(EventDay[q], Lookback)}
  <2>2. CASE r \notin rows
    BY <2>1, <2>2 DEF SilverJob
  <2>3. CASE r \in rows
    <3>1. silver'[r].history = History(r, rows)
      BY <2>1, <2>3 DEF SilverJob
    <3>2. ASSUME NEW q \in silver[r].history
          PROVE  q \in History(r, rows)
      <4>1. q \in Row
        BY DEF IInv, TypeOK, Featured
      <4>2. bronze[q] # 0 /\ EventDay[q] < EventDay[r] /\ EventDay[r] <= EventDay[q] + Baseline
        BY DEF IInv, SilverFounded
      <4>3. today \in Nat
        BY DayType, Days DEF IInv, TypeOK, TriggerTypeOK, today
      <4>4. Since(EventDay[q], Lookback)
        BY <4>1, <4>2, <4>3, Constants, Days DEF Since
      <4> QED
        BY <4>1, <4>2, <4>4 DEF History
    <3> QED
      BY <3>1, <3>2
  <2> QED
    BY <2>2, <2>3
<1>3. silver' = silver \/ \E n \in Name : SilverJob(n)
  BY DEF Next, Land, Notify, ExecutionStep, BronzeJob, GoldJob, tables
<1> QED
  BY <1>1, <1>2, <1>3

\* gold_job.py: a day that is recomputed has all of its rows in the window.
LEMMA MetricsKeptByStep ==
    ASSUME IInv, Next, NEW d \in Day
    PROVE  RowsOf(metrics[d]) \subseteq RowsOf(metrics'[d])
<1>1. CASE metrics' = metrics
  BY <1>1
<1>2. CASE \E n \in Name : GoldJob(n)
  <2>1. PICK n \in Name : GoldJob(n)
    BY <1>2
  <2> DEFINE rows == {r \in Row : silver[r].version # 0 /\ Since(EventDay[r], Recompute)}
             new == [e \in Day |-> fraud_metrics_daily(rows, e)]
             days == {EventDay[r] : r \in rows}
  <2>2. metrics' = [e \in Day |-> IF e \in days THEN new[e] ELSE metrics[e]]
    BY <2>1 DEF GoldJob, overwrite_partitions
  <2>3. CASE d \notin days
    BY <2>2, <2>3
  <2>4. CASE d \in days
    <3>1. Since(d, Recompute)
      BY <2>4
    <3>2. ASSUME NEW x \in metrics[d]
          PROVE  x[1] \in RowsOf(metrics'[d])
      <4>1. x[1] \in Row /\ EventDay[x[1]] = d /\ silver[x[1]].version # 0
        BY DEF IInv, TypeOK, Counted, MetricsFounded
      <4>2. x[1] \in {q \in rows : EventDay[q] = d}
        BY <3>1, <4>1
      <4>3. <<x[1], silver[x[1]].version>> \in metrics'[d]
        BY <2>2, <2>4, <4>2 DEF fraud_metrics_daily
      <4> QED
        BY <4>3 DEF RowsOf
    <3> QED
      BY <3>2 DEF RowsOf
  <2> QED
    BY <2>3, <2>4
<1>3. metrics' = metrics \/ \E n \in Name : GoldJob(n)
  BY DEF Next, Land, Notify, ExecutionStep, BronzeJob, SilverJob, tables
<1> QED
  BY <1>1, <1>2, <1>3

\* No run of a job shortens the history of a recent row or takes a counted row out of the
\* daily metrics, for windows of any length and any executions side by side (NoStepLoses
\* of the medallion run).
THEOREM NothingLost == Spec => NoStepLoses
<1> DEFINE A == /\ \A r \in Row :
                     today <= EventDay[r] + (Lookback - Baseline)
                         => silver[r].history \subseteq silver'[r].history
                /\ \A d \in Day : RowsOf(metrics[d]) \subseteq RowsOf(metrics'[d])
<1>1. IInv /\ [Next]_vars => [A]_vars
  BY HistoryKeptByStep, MetricsKeptByStep
<1> QED
  BY <1>1, InductiveInvariant, PTL DEF Spec, NoStepLoses

-----------------------------------------------------------------------------
(* What one full execution does when nothing sets it back, which is what the *)
(* liveness of LandedRowCounted rests on.                                     *)

\* The scheduled execution does not end early, and no execution merges an older version
\* of a row over a newer one.
Undisturbed ==
    /\ Next
    /\ ~EndEarly(Hourly)
    /\ \A r \in Row : bronze'[r] >= bronze[r]

\* How far the version in an object has come, unless it has left the window of the job.
InBronze(o) == bronze[o.row] >= o.version
InSilver(o) == silver[o.row].version >= o.version \/ today > EventDay[o.row] + Lookback
InMetrics(o) ==
    \/ \E x \in metrics[EventDay[o.row]] : x[1] = o.row /\ x[2] >= o.version
    \/ today > EventDay[o.row] + Recompute

\* By the job the scheduled execution runs next.
CarriedOn(o) ==
    /\ execution[Hourly] # "none"
    /\ execution[Hourly] \in {"silver", "gold", "done"} => InBronze(o)
    /\ execution[Hourly] \in {"gold", "done"} => InSilver(o)
    /\ execution[Hourly] = "done" => InMetrics(o)

\* Of the versions found, dedupe keeps the latest.
LEMMA DedupedLatest ==
    ASSUME NEW s \in SUBSET Version, NEW v \in s
    PROVE  Deduped(s) >= v
<1>1. \E w \in s : \A u \in s : u <= w
  <2>1. s \in SUBSET (0 .. LastVersion) /\ s # {}
    BY Constants DEF Version
  <2> QED
    BY <2>1, Constants, Greatest
<1>2. \E w \in s : \A u \in s : w >= u
  BY <1>1 DEF Version
<1> QED
  BY <1>2 DEF Deduped

\* The day does not go back.
LEMMA DayGoesOn ==
    ASSUME IInv, [Next]_vars
    PROVE  today \in Nat /\ today' \in Nat /\ today' >= today
<1>1. clock \in Nat /\ clock' \in Nat /\ clock' >= clock
  <2>1. clock \in Nat
    BY DEF IInv, TypeOK, TriggerTypeOK, Ticks
  <2>2. clock' = clock \/ clock' = clock + 1
    BY DEF Next, Land, Notify, StartExecution, Schedule, Tick, EndEarly, ExecutionStep,
       BronzeJob, SilverJob, GoldJob, vars, triggerVars
  <2> QED
    BY <2>1, <2>2
<1>2. \A a, b \in Nat : b >= a => b \div BucketsPerDay >= a \div BucketsPerDay
  BY Constants, Z3
<1>3. \A a \in Nat : a \div BucketsPerDay \in Nat
  BY Constants, Z3
<1> QED
  BY <1>1, <1>2, <1>3 DEF today, DayOf

\* An object holds a version of a row, in some day's partition.
LEMMA ObjectFields ==
    ASSUME IInv, NEW o \in raw
    PROVE  /\ o.row \in Row /\ o.version \in Version /\ o.part \in Day
           /\ o.version \in Nat /\ o.version > 0
           /\ EventDay[o.row] \in Day /\ EventDay[o.row] \in Nat
BY Constants, Days DEF IInv, TypeOK, Object, Version

\* The scheduled execution reads all partitions.
LEMMA BronzeCarries ==
    ASSUME IInv, BronzeJob(Hourly), NEW o \in raw
    PROVE  InBronze(o)'
<1>1. o.version \in Versions(Hourly, o.row)
  BY ObjectFields DEF Versions, Scope, ScheduledScope
<1>2. Versions(Hourly, o.row) \in SUBSET Version
  BY VersionsType DEF IInv
<1>3. bronze'[o.row] = Deduped(Versions(Hourly, o.row))
  BY <1>1, ObjectFields DEF BronzeJob
<1>4. Deduped(Versions(Hourly, o.row)) >= o.version
  BY <1>1, <1>2, DedupedLatest
<1> QED
  BY <1>3, <1>4 DEF InBronze

\* Any silver job computes the row from what is in bronze, within its window.
LEMMA SilverCarries ==
    ASSUME IInv, NEW n \in Name, SilverJob(n), NEW o \in raw, InBronze(o)
    PROVE  InSilver(o)'
<1> DEFINE rows == {r \in Row : bronze[r] # 0 /\ Since(EventDay[r], Lookback)}
<1>1. /\ o.row \in Row /\ o.version \in Nat /\ o.version > 0 /\ EventDay[o.row] \in Nat
      /\ bronze[o.row] \in Nat /\ bronze[o.row] >= o.version
  BY ObjectFields, Constants DEF IInv, TypeOK, Stored, Version, InBronze
<1>2. today' = today /\ today \in Nat
  BY DayGoesOn DEF SilverJob, today, Next, ExecutionStep
<1>3. CASE o.row \in rows
  <2>1. silver'[o.row] = [version |-> bronze[o.row], history |-> History(o.row, rows)]
    BY <1>3 DEF SilverJob
  <2> QED
    BY <1>1, <2>1 DEF InSilver
<1>4. CASE o.row \notin rows
  <2>1. ~Since(EventDay[o.row], Lookback)
    BY <1>1, <1>4
  <2> QED
    BY <1>1, <1>2, <2>1, Constants DEF Since, InSilver
<1> QED
  BY <1>3, <1>4

\* Any gold job counts what is in silver, within its window.
LEMMA GoldCarries ==
    ASSUME IInv, NEW n \in Name, GoldJob(n), NEW o \in raw, InSilver(o)
    PROVE  InMetrics(o)'
<1> DEFINE rows == {r \in Row : silver[r].version # 0 /\ Since(EventDay[r], Recompute)}
           new == [d \in Day |-> fraud_metrics_daily(rows, d)]
           days == {EventDay[r] : r \in rows}
<1>1. /\ o.row \in Row /\ o.version \in Nat /\ o.version > 0
      /\ EventDay[o.row] \in Nat /\ EventDay[o.row] \in Day
      /\ silver[o.row].version \in Nat
  <2>1. silver[o.row].version \in Stored
    BY ObjectFields DEF IInv, TypeOK, Featured
  <2> QED
    BY <2>1, ObjectFields, Constants DEF Stored, Version
<1>2. today' = today /\ today \in Nat
  BY DayGoesOn DEF GoldJob, today, Next, ExecutionStep
<1>3. CASE today > EventDay[o.row] + Recompute
  BY <1>2, <1>3 DEF InMetrics
<1>4. CASE ~(today > EventDay[o.row] + Recompute)
  <2>1. silver[o.row].version >= o.version /\ silver[o.row].version # 0
    BY <1>1, <1>2, <1>4, Constants DEF InSilver
  <2>2. o.row \in rows
    BY <1>1, <1>2, <1>4, <2>1, Constants DEF Since
  <2>3. metrics'[EventDay[o.row]] = fraud_metrics_daily(rows, EventDay[o.row])
    BY <1>1, <2>2 DEF GoldJob, overwrite_partitions
  <2>4. <<o.row, silver[o.row].version>> \in metrics'[EventDay[o.row]]
    BY <2>2, <2>3 DEF fraud_metrics_daily
  <2> QED
    BY <2>1, <2>4 DEF InMetrics
<1> QED
  BY <1>3, <1>4

\* What has been carried to silver or to the metrics stays there.
LEMMA CarriedStays ==
    ASSUME IInv, [Next]_vars, NEW o \in raw
    PROVE  /\ InBronze(o) /\ InSilver(o) => InSilver(o)'
           /\ InSilver(o) /\ InMetrics(o) => InMetrics(o)'
<1>1. today \in Nat /\ today' \in Nat /\ today' >= today /\ EventDay[o.row] \in Nat
  BY DayGoesOn, ObjectFields
<1>2. \/ \E n \in Name : SilverJob(n)
      \/ silver' = silver
  BY DEF Next, Land, Notify, ExecutionStep, BronzeJob, GoldJob, tables, vars
<1>3. \/ \E n \in Name : GoldJob(n)
      \/ metrics' = metrics
  BY DEF Next, Land, Notify, ExecutionStep, BronzeJob, SilverJob, tables, vars
<1>4. InBronze(o) /\ InSilver(o) => InSilver(o)'
  <2>1. CASE silver' = silver
    BY <1>1, <2>1, Constants DEF InSilver
  <2> QED
    BY <1>2, <2>1, SilverCarries
<1>5. InSilver(o) /\ InMetrics(o) => InMetrics(o)'
  <2>1. CASE metrics' = metrics
    BY <1>1, <2>1, Constants DEF InMetrics
  <2> QED
    BY <1>3, <2>1, GoldCarries
<1> QED
  BY <1>4, <1>5

\* What a step does to the scheduled execution.
LEMMA HourlyMoves ==
    ASSUME IInv, [Next]_vars, ~EndEarly(Hourly)
    PROVE  \/ execution'[Hourly] = execution[Hourly]
           \/ execution'[Hourly] = "bronze"
           \/ execution[Hourly] = "bronze" /\ execution'[Hourly] = "silver" /\ BronzeJob(Hourly)
           \/ execution[Hourly] = "silver" /\ execution'[Hourly] = "gold" /\ SilverJob(Hourly)
           \/ execution[Hourly] = "gold" /\ execution'[Hourly] = "done" /\ GoldJob(Hourly)
<1>1. execution \in [Name -> Steps] /\ Hourly \in Name
  BY DEF IInv, TypeOK, TriggerTypeOK, Name
<1>2. ASSUME NEW o \in raw, Notify(o)
      PROVE  execution'[Hourly] = execution[Hourly]
  <2>1. ExecutionName(o.part) # Hourly
    <3>1. o.part \in Day
      BY ObjectFields
    <3>2. Every \notin Day
      BY Constants, DayType DEF Every, Day, Ticks
    <3> QED
      BY <3>1, <3>2 DEF ExecutionName, Hourly
  <2>2. execution' = [execution EXCEPT ![ExecutionName(o.part)] = "bronze"]
    BY <1>2 DEF Notify, StartExecution, Proceed
  <2> QED
    BY <1>1, <2>1, <2>2
<1>3. ASSUME NEW n \in Name, EndEarly(n)
      PROVE  execution'[Hourly] = execution[Hourly]
  <2>1. n # Hourly
    BY <1>3
  <2> QED
    BY <1>1, <1>3, <2>1 DEF EndEarly, Proceed
<1>4. ASSUME NEW n \in Name, n # Hourly, ExecutionStep(n)
      PROVE  execution'[Hourly] = execution[Hourly]
  BY <1>1, <1>4 DEF ExecutionStep, BronzeJob, SilverJob, GoldJob, Proceed
<1>5. CASE ExecutionStep(Hourly)
  BY <1>1, <1>5 DEF ExecutionStep, BronzeJob, SilverJob, GoldJob, Proceed, At
<1>6. CASE Schedule
  BY <1>1, <1>6 DEF Schedule, Proceed
<1>7. CASE execution' = execution
  BY <1>7
<1>8. \/ execution' = execution \/ Schedule
      \/ \E o \in raw : Notify(o)
      \/ \E n \in Name : EndEarly(n)
      \/ \E n \in Name : ExecutionStep(n)
  BY DEF Next, Land, Tick, triggerVars, vars
<1> QED
  BY <1>2, <1>3, <1>4, <1>5, <1>6, <1>7, <1>8

\* An undisturbed step carries on what an object holds.
LEMMA CarriedByStep ==
    ASSUME IInv, [Undisturbed]_vars, NEW o \in raw, CarriedOn(o)
    PROVE  CarriedOn(o)' /\ o \in raw'
<1>1. o \in raw'
  BY DEF Undisturbed, Next, Land, Notify, ExecutionStep, BronzeJob, SilverJob, GoldJob, vars
<1>2. CASE UNCHANGED vars
  BY <1>1, <1>2 DEF vars, triggerVars, tables, CarriedOn, InBronze, InSilver, InMetrics, today
<1>3. CASE Undisturbed
  <2>1. [Next]_vars /\ ~EndEarly(Hourly)
    BY <1>3 DEF Undisturbed
  <2>2. InBronze(o) => InBronze(o)'
    <3>1. o.row \in Row /\ o.version \in Nat /\ bronze[o.row] \in Nat /\ bronze'[o.row] \in Nat
      <4>1. IInv'
        BY <2>1, StepInv
      <4> QED
        BY <4>1, ObjectFields, Constants DEF IInv, TypeOK, Stored, Version
    <3>2. bronze'[o.row] >= bronze[o.row]
      BY <1>3, <3>1 DEF Undisturbed
    <3> QED
      BY <3>1, <3>2 DEF InBronze
  <2>3. /\ InBronze(o) /\ InSilver(o) => InSilver(o)'
        /\ InSilver(o) /\ InMetrics(o) => InMetrics(o)'
    BY <2>1, CarriedStays
  <2>4. CASE execution'[Hourly] = execution[Hourly]
    BY <1>1, <2>2, <2>3, <2>4 DEF CarriedOn
  <2>5. CASE execution'[Hourly] = "bronze"
    BY <1>1, <2>5 DEF CarriedOn
  <2>6. CASE execution[Hourly] = "bronze" /\ execution'[Hourly] = "silver" /\ BronzeJob(Hourly)
    BY <1>1, <2>6, BronzeCarries DEF CarriedOn
  <2>7. CASE execution[Hourly] = "silver" /\ execution'[Hourly] = "gold" /\ SilverJob(Hourly)
    <3>1. InSilver(o)'
      BY <2>7, SilverCarries DEF CarriedOn, Name
    <3> QED
      BY <1>1, <2>2, <2>7, <3>1 DEF CarriedOn
  <2>8. CASE execution[Hourly] = "gold" /\ execution'[Hourly] = "done" /\ GoldJob(Hourly)
    <3>1. InMetrics(o)'
      BY <2>8, GoldCarries DEF CarriedOn, Name
    <3> QED
      BY <1>1, <2>2, <2>3, <2>8, <3>1 DEF CarriedOn
  <2> QED
    BY <1>1, <2>1, <2>4, <2>5, <2>6, <2>7, <2>8, HourlyMoves
<1> QED
  BY <1>2, <1>3

\* bronze_job, silver_job and gold_job in a row: whatever had landed when the scheduled
\* execution came to its bronze job is counted when it is done, in that version or a later
\* one, unless its day has left the window; whatever lands, is notified and is run for
\* other partitions meanwhile. So a row stays behind (LandedRowCounted) only as long as
\* executions fail or merge older versions, and of both there are finitely many.
THEOREM FullRunCounts ==
    ASSUME NEW O \in SUBSET Object
    PROVE  Spec => []( O \subseteq raw /\ At(Hourly, "bronze") /\ [][Undisturbed]_vars
                        => [](At(Hourly, "done") => \A o \in O : InMetrics(o)) )
<1> DEFINE Carried == O \subseteq raw /\ \A o \in O : CarriedOn(o)
           Counts == At(Hourly, "done") => \A o \in O : InMetrics(o)
           Start == O \subseteq raw /\ At(Hourly, "bronze")
<1>1. Start => Carried
  BY DEF At, CarriedOn
<1>2. IInv /\ Carried /\ [Undisturbed]_vars => Carried'
  BY CarriedByStep
<1>3. Carried => Counts
  BY DEF At, CarriedOn
<1>4. Spec => []IInv
  BY InductiveInvariant
<1> HIDE DEF Carried, Counts, Start
<1>5. Spec => [](Start /\ [][Undisturbed]_vars => []Counts)
  BY <1>1, <1>2, <1>3, <1>4, PTL
<1> QED
  BY <1>5 DEF Start, Counts
=============================================================================
