-------------------------------- MODULE ModelJob --------------------------------
(***************************************************************************)
(* The Glue model job, glue/ml_job.py: one run reads the recent silver days  *)
(* and the confirmed labels, trains, and then writes in turn the scores      *)
(* table, the metrics table, the value ledger, the model objects and the     *)
(* manifest that names them. A run may stop between any two writes; Step      *)
(* Functions, or the next execution, then starts another. Glue runs the job  *)
(* once at a time.                                                           *)
(***************************************************************************)
EXTENDS Naturals

CONSTANTS
    Txn,       \* transactions, none of them labelled as fraud by the pipeline
    DayOf,     \* dt of each transaction
    LastDay,
    Lookback,  \* LOOKBACK_DAYS
    Model,     \* names of the fitted models
    MaxRuns    \* bound: runs started

ASSUME ModelJobAssumption ==
    /\ {LastDay, MaxRuns} \subseteq Nat \ {0}
    /\ Lookback \in Nat
    /\ DayOf \in [Txn -> 1 .. LastDay]

Day == 1 .. LastDay
Run == 1 .. MaxRuns

\* A run number stands for run_stamp, and for all a run computes: its scores, its
\* threshold, its models. Run 0 stands for none.
Score == [run : 0 .. MaxRuns, fraud : BOOLEAN]
Ledger == [run : 0 .. MaxRuns, counted : SUBSET Txn, frauds : SUBSET Txn]
Frame == [rows : SUBSET Txn, frauds : SUBSET Txn]
Key == Run \X Model

VARIABLES
    today,
    silver,     \* transactions in the silver table
    feedback,   \* transactions confirmed as fraud under feedback/
    step,       \* what the job does next
    run,        \* the current or last run
    frame,      \* pdf: the rows read, and those of them labelled fraud
    scores,     \* scores table, by transaction
    metrics,    \* runs with rows in the metrics table
    value,      \* value table, by day
    objects,    \* the run whose model each key in the bucket holds
    latest,     \* the run that wrote latest.json
    manifest    \* the key it gives for each model

source == <<today, silver, feedback>>
tables == <<scores, metrics, value>>
bucket == <<objects, latest, manifest>>
jobVars == <<source, step, run, frame, tables, bucket>>

\* As below, with the models persisted as soon as they are fitted.
AfterModelsFirst(s) ==
    CASE s = "train" -> "models" [] s = "models" -> "manifest" [] s = "manifest" -> "scores"
      [] s = "scores" -> "metrics" [] s = "metrics" -> "value" [] s = "value" -> "idle"

\* The order of main and _persist_models. The CloudWatch call at the end changes
\* nothing here.
After(s) ==
    CASE s = "train" -> "scores" [] s = "scores" -> "metrics" [] s = "metrics" -> "value"
      [] s = "value" -> "models" [] s = "models" -> "manifest" [] s = "manifest" -> "idle"

\* As below, with one key for a model whatever the run.
ObjectKeyFixed(r, m) == <<1, m>>

\* {prefix}/{run_stamp}/{name}.joblib
ObjectKey(r, m) == <<r, m>>

JobInit ==
    /\ today = 1
    /\ silver = {} /\ feedback = {}
    /\ step = "idle" /\ run = 0
    /\ frame = [rows |-> {}, frauds |-> {}]
    /\ scores = [t \in Txn |-> [run |-> 0, fraud |-> FALSE]]
    /\ metrics = {}
    /\ value = [d \in Day |-> [run |-> 0, counted |-> {}, frauds |-> {}]]
    /\ objects = [k \in Key |-> 0]
    /\ latest = 0
    /\ manifest = [m \in Model |-> ObjectKey(1, m)]

-----------------------------------------------------------------------------
(* What the job reads changes around it.                                    *)

NextDay ==
    /\ today < LastDay
    /\ today' = today + 1
    /\ UNCHANGED <<silver, feedback, step, run, frame, tables, bucket>>

\* The silver job merges a transaction of today, or a late one.
Land(t) ==
    /\ t \notin silver /\ DayOf[t] <= today
    /\ silver' = silver \cup {t}
    /\ UNCHANGED <<today, feedback, step, run, frame, tables, bucket>>

\* simulate_feedback confirms a transaction of the scores table.
Confirm(t) ==
    /\ scores[t].run > 0
    /\ feedback' = feedback \cup {t}
    /\ UNCHANGED <<today, silver, step, run, frame, tables, bucket>>

-----------------------------------------------------------------------------
(* main.                                                                    *)

\* A run starts by reading the rows of the last Lookback days.
ReadSilver ==
    /\ step = "idle" /\ run < MaxRuns
    /\ run' = run + 1
    /\ frame' = [rows |-> {t \in silver : DayOf[t] + Lookback >= today}, frauds |-> {}]
    /\ step' = "train"
    /\ UNCHANGED <<source, tables, bucket>>

\* apply_feedback: the confirmed among the rows.
Labelled(rows, confirmed) == rows \cap confirmed

\* An unreadable feedback prefix counts as an empty one. train_and_score refuses a
\* small frame.
Train ==
    /\ step = "train"
    /\ frame.rows # {}
    /\ \E confirmed \in {feedback, {}} :
         frame' = [frame EXCEPT !.frauds = Labelled(frame.rows, confirmed)]
    /\ step' = After(step)
    /\ UNCHANGED <<source, run, tables, bucket>>

MergeScores ==
    /\ step = "scores"
    /\ scores' = [t \in Txn |-> IF t \in frame.rows
                                THEN [run |-> run, fraud |-> t \in frame.frauds]
                                ELSE scores[t]]
    /\ step' = After(step)
    /\ UNCHANGED <<source, run, frame, metrics, value, bucket>>

AppendMetrics ==
    /\ step = "metrics"
    /\ metrics' = metrics \cup {run}
    /\ step' = After(step)
    /\ UNCHANGED <<source, run, frame, scores, value, bucket>>

\* As below, from another read of silver.
PricedAnew(d) ==
    [run |-> run, counted |-> {t \in silver : DayOf[t] = d},
     frauds |-> {t \in frame.frauds : DayOf[t] = d}]

\* fraud_value_daily, for a day of the frame.
Priced(d) ==
    [run |-> run, counted |-> {t \in frame.rows : DayOf[t] = d},
     frauds |-> {t \in frame.frauds : DayOf[t] = d}]

MergeValue ==
    /\ step = "value"
    /\ value' = [d \in Day |-> IF \E t \in frame.rows : DayOf[t] = d THEN Priced(d) ELSE value[d]]
    /\ step' = After(step)
    /\ UNCHANGED <<source, run, frame, scores, metrics, bucket>>

\* The uploads of _persist_models, one object at a time.
UploadModel(m) ==
    /\ step = "models"
    /\ objects[ObjectKey(run, m)] # run
    /\ objects' = [objects EXCEPT ![ObjectKey(run, m)] = run]
    /\ step' = IF \A n \in Model : objects'[ObjectKey(run, n)] = run THEN After(step) ELSE step
    /\ UNCHANGED <<source, run, frame, tables, latest, manifest>>

PutManifest ==
    /\ step = "manifest"
    /\ latest' = run
    /\ manifest' = [m \in Model |-> ObjectKey(run, m)]
    /\ step' = After(step)
    /\ UNCHANGED <<source, run, frame, tables, objects>>

\* An exception, or Glue losing the run.
RunFails ==
    /\ step # "idle"
    /\ step' = "idle"
    /\ UNCHANGED <<source, run, frame, tables, bucket>>

JobNext ==
    \/ NextDay
    \/ \E t \in Txn : Land(t) \/ Confirm(t)
    \/ ReadSilver \/ Train
    \/ MergeScores \/ AppendMetrics \/ MergeValue
    \/ \E m \in Model : UploadModel(m)
    \/ PutManifest \/ RunFails

-----------------------------------------------------------------------------
Steps == {"idle", "train", "scores", "metrics", "value", "models", "manifest"}

JobTypeOK ==
    /\ today \in Day
    /\ silver \subseteq Txn /\ feedback \subseteq Txn
    /\ step \in Steps
    /\ run \in 0 .. MaxRuns
    /\ frame \in Frame /\ frame.frauds \subseteq frame.rows
    /\ scores \in [Txn -> Score]
    /\ metrics \subseteq Run
    /\ value \in [Day -> Ledger]
    /\ objects \in [Key -> 0 .. MaxRuns]
    /\ latest \in 0 .. MaxRuns
    /\ manifest \in [Model -> Key]

Scored(d) == {t \in Txn : DayOf[t] = d /\ scores[t].run > 0}

\* A day the ledger prices with the run that last scored it agrees with the scores
\* table on every transaction and label, whatever landed or was confirmed meanwhile;
\* and the ledger is never of a later run than a score it prices.
LedgerAgrees ==
    \A d \in Day : value[d].run > 0 =>
        /\ \A t \in value[d].counted : scores[t].run >= value[d].run
        /\ (\A t \in Scored(d) : scores[t].run <= value[d].run) =>
              /\ value[d].counted = Scored(d)
              /\ value[d].frauds = {t \in Scored(d) : scores[t].fraud}

\* What a retrain has learned from a confirmation it does not forget.
ConfirmationsStick == [][\A t \in Txn : scores[t].fraud => scores'[t].fraud]_scores
=============================================================================
