----------------------------- MODULE ServingProofs -----------------------------
(* Proofs about Serving, for any transactions, days, models, requests, runs   *)
(* and times.                                                                 *)
EXTENDS Serving, TLAPS

-----------------------------------------------------------------------------
(* The model job: types.                                                    *)

\* What is assumed of the constants, spelled out.
LEMMA Constants ==
    /\ LastDay \in Nat /\ LastDay >= 1 /\ Lookback \in Nat /\ MaxRuns \in Nat /\ MaxRuns >= 1
    /\ DayOf \in [Txn -> Day]
    /\ TTL \in Nat /\ TTL >= 1 /\ MaxLoad \in Nat /\ MaxClock \in Nat
    /\ NoRequest \notin Request
BY ModelJobAssumption, ServingAssumption DEF Service!ScoringAssumption, Day

\* Each step of the job is followed by another of its steps.
LEMMA AfterType ==
    /\ After("train") = "scores" /\ After("scores") = "metrics" /\ After("metrics") = "value"
    /\ After("value") = "models" /\ After("models") = "manifest" /\ After("manifest") = "idle"
BY DEF After

\* The key of a model of a run is a key, and tells the run.
LEMMA KeyType ==
    ASSUME NEW n \in Run, NEW m \in Model
    PROVE  ObjectKey(n, m) \in Key /\ ObjectKey(n, m)[1] = n
BY DEF ObjectKey, Key

\* A job at work has started a run.
Started == step # "idle" => run > 0

\* Every step of the job keeps its types.
LEMMA JobTypeStep ==
    ASSUME JobTypeOK, Started, JobNext
    PROVE  JobTypeOK'
<1> USE Constants
<1>0. run \in 0 .. MaxRuns /\ frame \in Frame /\ frame.rows \subseteq Txn /\ frame.frauds \subseteq frame.rows
  BY DEF JobTypeOK, Frame
<1>1. CASE NextDay
  BY <1>1 DEF NextDay, JobTypeOK, Day, tables, bucket
<1>2. CASE \E t \in Txn : Land(t) \/ Confirm(t)
  BY <1>2 DEF Land, Confirm, JobTypeOK, tables, bucket
<1>3. CASE ReadSilver
  <2>1. frame' \in Frame /\ frame'.frauds \subseteq frame'.rows
    BY <1>3 DEF ReadSilver, Frame, JobTypeOK
  <2>2. run' \in 0 .. MaxRuns /\ step' \in Steps
    BY <1>3, <1>0 DEF ReadSilver, Steps
  <2> QED
    BY <1>3, <2>1, <2>2 DEF ReadSilver, JobTypeOK, source, tables, bucket
<1>4. CASE Train
  <2>1. PICK confirmed \in {feedback, {}} :
           frame' = [frame EXCEPT !.frauds = Labelled(frame.rows, confirmed)]
    BY <1>4 DEF Train
  <2>2. Labelled(frame.rows, confirmed) \subseteq frame.rows
    BY DEF Labelled
  <2>3. frame' \in Frame /\ frame'.frauds \subseteq frame'.rows
    BY <1>0, <2>1, <2>2 DEF Frame
  <2> QED
    BY <1>4, <2>3, AfterType DEF Train, Steps, JobTypeOK, source, tables, bucket
<1>5. CASE MergeScores
  <2>1. run > 0
    BY <1>5 DEF MergeScores, Started
  <2>2. ASSUME NEW t \in Txn
        PROVE  scores'[t] \in Score
    BY <1>0, <1>5 DEF MergeScores, Score, JobTypeOK
  <2>3. scores' \in [Txn -> Score]
    BY <1>5, <2>2 DEF MergeScores
  <2> QED
    BY <1>5, <2>3, AfterType DEF MergeScores, Steps, JobTypeOK, source, bucket
<1>6. CASE AppendMetrics
  <2>1. run \in Run
    BY <1>0, <1>6 DEF AppendMetrics, Started, Run
  <2> QED
    BY <1>6, <2>1, AfterType DEF AppendMetrics, Steps, JobTypeOK, source, bucket
<1>7. CASE MergeValue
  <2>1. ASSUME NEW d \in Day PROVE Priced(d) \in Ledger
    BY <1>0 DEF Priced, Ledger
  <2>2. value' \in [Day -> Ledger]
    BY <1>7, <2>1 DEF MergeValue, JobTypeOK
  <2> QED
    BY <1>7, <2>2, AfterType DEF MergeValue, Steps, JobTypeOK, source, bucket
<1>8. CASE \E m \in Model : UploadModel(m)
  <2>1. objects' \in [Key -> 0 .. MaxRuns]
    BY <1>0, <1>8 DEF UploadModel, JobTypeOK
  <2>2. step' \in Steps
    BY <1>8, AfterType DEF UploadModel, Steps
  <2> QED
    BY <1>8, <2>1, <2>2 DEF UploadModel, JobTypeOK, source, tables
<1>9. CASE PutManifest
  <2>1. run \in Run
    BY <1>0, <1>9 DEF PutManifest, Started, Run
  <2>2. manifest' \in [Model -> Key]
    BY <1>9, <2>1, KeyType DEF PutManifest
  <2> QED
    BY <1>0, <1>9, <2>2, AfterType DEF PutManifest, Steps, JobTypeOK, source, tables
<1>10. CASE RunFails
  BY <1>10 DEF RunFails, Steps, JobTypeOK, source, tables, bucket
<1> QED
  BY <1>1, <1>2, <1>3, <1>4, <1>5, <1>6, <1>7, <1>8, <1>9, <1>10 DEF JobNext

-----------------------------------------------------------------------------
(* The model job: what its tables and its bucket hold.                      *)

\* A run on record has its metrics and has priced a day, unless a later run has.
Recorded(n) == n \in metrics /\ \E d \in Day : value[d].run >= n

\* Runs are numbered upwards, and only rows of silver are read and scored.
Numbered ==
    /\ Started
    /\ latest <= run /\ (step # "idle" => latest < run)
    /\ \A t \in Txn : scores[t].run <= run
    /\ \A d \in Day : value[d].run <= run
    /\ step \in {"train", "scores", "metrics", "value"} => \A d \in Day : value[d].run < run
    /\ frame.rows \subseteq silver
    /\ \A t \in Txn : scores[t].run > 0 => t \in silver

\* A key holds its own run's model or none, and the manifest names the latest run's keys.
Keyed ==
    /\ \A k \in Key : objects[k] \in {0, k[1]}
    /\ latest > 0 => \A m \in Model : manifest[m] = ObjectKey(latest, m)

\* A frame holds all the scored rows of its days.
Whole ==
    step \in {"train", "scores", "metrics", "value"} =>
        \A t \in frame.rows : \A u \in Scored(DayOf[t]) : u \in frame.rows

\* What a run has written so far.
Progress ==
    /\ step \in {"scores", "metrics", "value", "models", "manifest"} => frame.rows # {}
    /\ step \in {"metrics", "value"} =>
          \A t \in frame.rows : scores[t].run = run /\ (scores[t].fraud <=> t \in frame.frauds)
    /\ step \in {"value", "models", "manifest"} => run \in metrics
    /\ step \in {"models", "manifest"} => \E d \in Day : value[d].run >= run
    /\ latest > 0 => Recorded(latest)

JobInv == JobTypeOK /\ Numbered /\ Keyed /\ Whole /\ Progress /\ LedgerAgrees

\* Every job step keeps runs numbered.
LEMMA NumberedStep ==
    ASSUME JobTypeOK, Numbered, JobNext
    PROVE  Numbered'
<1> USE Constants
<1>0. /\ run \in Nat /\ latest \in Nat /\ frame.rows \subseteq Txn
      /\ \A t \in Txn : scores[t].run \in Nat
      /\ \A d \in Day : value[d].run \in Nat
  BY DEF JobTypeOK, Frame, Score, Ledger
<1>1. CASE NextDay
  BY <1>1 DEF NextDay, Numbered, Started, tables, bucket
<1>2. CASE \E t \in Txn : Land(t) \/ Confirm(t)
  BY <1>2 DEF Land, Confirm, Numbered, Started, tables, bucket
<1>3. CASE ReadSilver
  <2>1. run' = run + 1 /\ step' = "train" /\ UNCHANGED <<source, tables, bucket>>
        /\ frame'.rows \subseteq silver
    BY <1>3 DEF ReadSilver
  <2> QED
    BY <1>0, <2>1 DEF Numbered, Started, source, tables, bucket
<1>4. CASE Train
  <2>1. frame'.rows = frame.rows /\ step = "train" /\ step' = "scores"
        /\ UNCHANGED <<source, run, tables, bucket>>
    BY <1>4, AfterType DEF Train, JobTypeOK, Frame
  <2> QED
    BY <2>1 DEF Numbered, Started, source, tables, bucket
<1>5. CASE MergeScores
  <2>1. step = "scores" /\ step' = "metrics" /\ UNCHANGED <<source, run, frame, value, bucket>>
    BY <1>5, AfterType DEF MergeScores
  <2>2. ASSUME NEW t \in Txn
        PROVE  scores'[t].run <= run /\ (scores'[t].run > 0 => t \in silver)
    BY <1>0, <1>5 DEF MergeScores, Numbered
  <2> QED
    BY <2>1, <2>2 DEF Numbered, Started, source, bucket
<1>6. CASE AppendMetrics
  BY <1>6, AfterType DEF AppendMetrics, Numbered, Started, source, bucket
<1>7. CASE MergeValue
  <2>1. step = "value" /\ step' = "models" /\ UNCHANGED <<source, run, frame, scores, bucket>>
    BY <1>7, AfterType DEF MergeValue
  <2>2. ASSUME NEW d \in Day PROVE value'[d].run <= run
    BY <1>0, <1>7 DEF MergeValue, Priced, Numbered
  <2> QED
    BY <2>1, <2>2 DEF Numbered, Started, source, bucket
<1>8. CASE \E m \in Model : UploadModel(m)
  <2>1. step = "models" /\ step' \in {"models", "manifest"}
        /\ UNCHANGED <<source, run, frame, tables, latest>>
    BY <1>8, AfterType DEF UploadModel
  <2> QED
    BY <2>1 DEF Numbered, Started, source, tables
<1>9. CASE PutManifest
  <2>1. step' = "idle" /\ latest' = run /\ UNCHANGED <<source, run, frame, tables>>
    BY <1>9, AfterType DEF PutManifest
  <2> QED
    BY <1>0, <2>1 DEF Numbered, Started, source, tables
<1>10. CASE RunFails
  BY <1>0, <1>10 DEF RunFails, Numbered, Started, source, tables, bucket
<1> QED
  BY <1>1, <1>2, <1>3, <1>4, <1>5, <1>6, <1>7, <1>8, <1>9, <1>10 DEF JobNext

\* Every job step keeps keys apart by run.
LEMMA KeyedStep ==
    ASSUME JobTypeOK, Numbered, Keyed, JobNext
    PROVE  Keyed'
<1>1. CASE \E m \in Model : UploadModel(m)
  <2>1. PICK m \in Model : UploadModel(m)
    BY <1>1
  <2>2. run \in Run
    BY <2>1, Constants DEF UploadModel, Numbered, Started, JobTypeOK, Run
  <2>3. ObjectKey(run, m) \in Key /\ ObjectKey(run, m)[1] = run
    BY <2>2, KeyType
  <2>4. \A k \in Key : objects'[k] \in {0, k[1]}
    BY <2>1, <2>3 DEF UploadModel, Keyed, JobTypeOK
  <2> QED
    BY <2>1, <2>4 DEF UploadModel, Keyed, ObjectKey
<1>2. CASE PutManifest
  BY <1>2 DEF PutManifest, Keyed, ObjectKey
<1>3. CASE UNCHANGED bucket
  BY <1>3 DEF Keyed, bucket, ObjectKey
<1> QED
  BY <1>1, <1>2, <1>3 DEF JobNext, NextDay, Land, Confirm, ReadSilver, Train, MergeScores,
     AppendMetrics, MergeValue, RunFails

\* Every job step keeps the frame whole.
LEMMA WholeStep ==
    ASSUME JobTypeOK, Numbered, Whole, JobNext
    PROVE  Whole'
<1> USE Constants
<1>1. CASE ReadSilver
  <2>1. frame'.rows = {t \in silver : DayOf[t] + Lookback >= today} /\ scores' = scores
    BY <1>1 DEF ReadSilver, tables
  <2>2. ASSUME NEW t \in frame'.rows, NEW u \in Scored(DayOf[t])
        PROVE  u \in frame'.rows
    BY <2>1, <2>2 DEF Scored, Numbered
  <2> QED
    BY <2>1, <2>2 DEF Whole, Scored
<1>2. CASE MergeScores
  <2>1. frame' = frame /\ step = "scores"
    BY <1>2 DEF MergeScores
  <2>2. ASSUME NEW d \in Day
        PROVE  Scored(d)' \subseteq Scored(d) \cup frame.rows
    BY <1>2 DEF MergeScores, Scored, JobTypeOK
  <2>3. \A t \in frame.rows : DayOf[t] \in Day
    BY DEF JobTypeOK, Frame
  <2> QED
    BY <2>1, <2>2, <2>3 DEF Whole
<1>3. CASE UNCHANGED scores /\ frame'.rows = frame.rows
        /\ (step' \in {"train", "scores", "metrics", "value"} =>
               step \in {"train", "scores", "metrics", "value"})
  BY <1>3 DEF Whole, Scored
<1>4. CASE Train
  BY <1>3, <1>4, AfterType DEF Train, JobTypeOK, Frame, tables
<1>5. CASE NextDay \/ (\E t \in Txn : Land(t) \/ Confirm(t))
  BY <1>3, <1>5 DEF NextDay, Land, Confirm, tables
<1>6. CASE AppendMetrics \/ MergeValue
  BY <1>3, <1>6, AfterType DEF AppendMetrics, MergeValue
<1>7. CASE (\E m \in Model : UploadModel(m)) \/ PutManifest \/ RunFails
  BY <1>3, <1>7, AfterType DEF UploadModel, PutManifest, RunFails, tables
<1> QED
  BY <1>1, <1>2, <1>4, <1>5, <1>6, <1>7 DEF JobNext

\* What is on record stays on record.
LEMMA RecordedStep ==
    ASSUME JobTypeOK, Numbered, JobNext, NEW n \in Nat, n <= run, Recorded(n)
    PROVE  Recorded(n)'
<1> USE Constants
<1>1. n \in metrics'
  BY DEF Recorded, JobNext, NextDay, Land, Confirm, ReadSilver, Train, MergeScores,
     AppendMetrics, MergeValue, UploadModel, PutManifest, RunFails, tables
<1>2. PICK d \in Day : value[d].run >= n
  BY DEF Recorded
<1>3. CASE MergeValue
  <2>1. value'[d].run = run \/ value'[d] = value[d]
    BY <1>3 DEF MergeValue, Priced
  <2> QED
    BY <1>1, <1>2, <2>1 DEF Recorded, JobTypeOK
<1>4. CASE UNCHANGED value
  BY <1>1, <1>2, <1>4 DEF Recorded
<1> QED
  BY <1>3, <1>4 DEF JobNext, NextDay, Land, Confirm, ReadSilver, Train, MergeScores,
     AppendMetrics, UploadModel, PutManifest, RunFails, tables

\* Every job step keeps the account of what the run has written.
LEMMA ProgressStep ==
    ASSUME JobTypeOK, Numbered, Progress, JobNext
    PROVE  Progress'
<1> USE Constants
<1>0. run \in Nat /\ latest \in Nat /\ latest <= run /\ frame.rows \subseteq Txn
  BY DEF JobTypeOK, Numbered, Frame
<1>1. \A n \in Nat : n <= run /\ Recorded(n) => Recorded(n)'
  BY RecordedStep
<1>2. CASE NextDay \/ \E t \in Txn : Land(t) \/ Confirm(t)
  BY <1>2 DEF NextDay, Land, Confirm, Progress, Recorded, tables, bucket
<1>3. CASE ReadSilver
  BY <1>3 DEF ReadSilver, Progress, Recorded, tables, bucket
<1>4. CASE Train
  <2>1. frame'.rows # {} /\ step' = "scores" /\ UNCHANGED <<tables, bucket>>
    BY <1>4, AfterType DEF Train, JobTypeOK, Frame
  <2> QED
    BY <2>1 DEF Progress, Recorded, tables, bucket
<1>5. CASE MergeScores
  <2>1. step = "scores" /\ step' = "metrics" /\ UNCHANGED <<run, frame, metrics, value, latest>>
    BY <1>5, AfterType DEF MergeScores, bucket
  <2>2. \A t \in frame.rows : scores'[t].run = run /\ (scores'[t].fraud <=> t \in frame.frauds)
    BY <1>0, <1>5 DEF MergeScores
  <2> QED
    BY <2>1, <2>2 DEF Progress, Recorded
<1>6. CASE AppendMetrics
  <2>1. /\ step = "metrics" /\ step' = "value" /\ UNCHANGED <<run, frame, scores, value, latest>>
        /\ metrics' = metrics \cup {run}
    BY <1>6, AfterType DEF AppendMetrics, bucket
  <2> QED
    BY <2>1 DEF Progress, Recorded
<1>7. CASE MergeValue
  <2>1. step = "value" /\ step' = "models" /\ UNCHANGED <<run, frame, scores, metrics, latest>>
    BY <1>7, AfterType DEF MergeValue, bucket
  <2>2. PICK t \in frame.rows : TRUE
    BY <2>1 DEF Progress
  <2>3. DayOf[t] \in Day
    BY <1>0
  <2>4. value'[DayOf[t]].run = run
    BY <1>7, <2>2, <2>3 DEF MergeValue, Priced
  <2>5. \E d \in Day : value'[d].run >= run
    BY <1>0, <2>3, <2>4
  <2>6. run' \in metrics'
    BY <2>1 DEF Progress
  <2>7. latest' > 0 => Recorded(latest)'
    <3>1. latest > 0 => Recorded(latest)
      BY DEF Progress
    <3> QED
      BY <1>0, <1>1, <2>1, <3>1
  <2> QED
    BY <2>1, <2>5, <2>6, <2>7 DEF Progress
<1>8. CASE \E m \in Model : UploadModel(m)
  <2>1. step = "models" /\ step' \in {"models", "manifest"}
        /\ UNCHANGED <<run, frame, tables, latest>>
    BY <1>8, AfterType DEF UploadModel
  <2> QED
    BY <2>1 DEF Progress, Recorded, tables
<1>9. CASE PutManifest
  <2>1. step = "manifest" /\ step' = "idle" /\ latest' = run /\ UNCHANGED <<run, tables>>
    BY <1>9, AfterType DEF PutManifest
  <2>2. Recorded(run)
    BY <2>1 DEF Progress, Recorded
  <2> QED
    BY <2>1, <2>2 DEF Progress, Recorded, tables
<1>10. CASE RunFails
  BY <1>10 DEF RunFails, Progress, Recorded, tables, bucket
<1> QED
  BY <1>2, <1>3, <1>4, <1>5, <1>6, <1>7, <1>8, <1>9, <1>10 DEF JobNext

\* Every job step keeps ledger and scores in agreement: a MERGE of scores overtakes the
\* ledger of each day it touches, and the MERGE of the ledger covers just these days.
LEMMA LedgerStep ==
    ASSUME JobTypeOK, Numbered, Whole, Progress, LedgerAgrees, JobNext
    PROVE  LedgerAgrees'
<1> USE Constants
<1>0. /\ run \in Nat /\ frame.rows \subseteq Txn /\ frame.frauds \subseteq frame.rows
      /\ \A t \in Txn : scores[t].run \in Nat /\ scores[t].run <= run
      /\ \A d \in Day : value[d].run \in Nat /\ value[d].counted \subseteq Txn
  BY DEF JobTypeOK, Frame, Score, Ledger, Numbered
<1>1. CASE UNCHANGED <<scores, value>>
  BY <1>1 DEF LedgerAgrees, Scored
<1>2. CASE MergeScores
  <2>1. value' = value /\ step = "scores" /\ run > 0
    BY <1>2 DEF MergeScores, Numbered, Started
  <2>2. /\ \A t \in frame.rows : scores'[t].run = run
        /\ \A t \in Txn \ frame.rows : scores'[t] = scores[t]
    BY <1>0, <1>2 DEF MergeScores
  <2> SUFFICES ASSUME NEW d \in Day, value[d].run > 0
               PROVE  /\ \A t \in value[d].counted : scores'[t].run >= value[d].run
                      /\ (\A t \in Scored(d)' : scores'[t].run <= value[d].run) =>
                            /\ value[d].counted = Scored(d)'
                            /\ value[d].frauds = {t \in Scored(d)' : scores'[t].fraud}
    BY <2>1 DEF LedgerAgrees
  <2>3. value[d].run < run
    BY <2>1 DEF Numbered
  <2>4. \A t \in value[d].counted : scores'[t].run >= value[d].run
    BY <1>0, <2>2, <2>3 DEF LedgerAgrees
  <2>5. CASE \E t \in frame.rows : DayOf[t] = d
    <3>1. PICK t \in frame.rows : DayOf[t] = d
      BY <2>5
    <3>2. t \in Scored(d)' /\ scores'[t].run = run
      BY <1>0, <2>1, <2>2, <3>1 DEF Scored
    <3> QED
      BY <1>0, <2>3, <2>4, <3>2
  <2>6. CASE \A t \in frame.rows : DayOf[t] # d
    <3>1. \A t \in Txn : DayOf[t] = d => scores'[t] = scores[t]
      BY <2>2, <2>6
    <3>2. Scored(d)' = Scored(d)
      BY <3>1 DEF Scored
    <3>3. \A t \in Scored(d) : scores'[t] = scores[t]
      BY <3>1 DEF Scored
    <3> QED
      BY <2>4, <3>2, <3>3 DEF LedgerAgrees
  <2> QED
    BY <2>5, <2>6
<1>3. CASE MergeValue
  <2>1. scores' = scores /\ step = "value"
    BY <1>3 DEF MergeValue
  <2>2. ASSUME NEW d \in Day PROVE Scored(d)' = Scored(d)
    BY <2>1 DEF Scored
  <2> SUFFICES ASSUME NEW d \in Day, value'[d].run > 0
               PROVE  /\ \A t \in value'[d].counted : scores[t].run >= value'[d].run
                      /\ (\A t \in Scored(d) : scores[t].run <= value'[d].run) =>
                            /\ value'[d].counted = Scored(d)
                            /\ value'[d].frauds = {t \in Scored(d) : scores[t].fraud}
    BY <2>1, <2>2 DEF LedgerAgrees
  <2>3. CASE \E t \in frame.rows : DayOf[t] = d
    <3>1. PICK s \in frame.rows : DayOf[s] = d
      BY <2>3
    <3>2. value'[d] = Priced(d)
      BY <1>3, <2>3 DEF MergeValue
    <3>3. /\ value'[d].run = run
          /\ value'[d].counted = {t \in frame.rows : DayOf[t] = d}
          /\ value'[d].frauds = {t \in frame.frauds : DayOf[t] = d}
      BY <3>2 DEF Priced
    <3>4. \A t \in frame.rows : scores[t].run = run /\ (scores[t].fraud <=> t \in frame.frauds)
      BY <2>1 DEF Progress
    <3>5. run > 0
      BY <2>1 DEF Numbered, Started
    <3>6. Scored(d) = {t \in frame.rows : DayOf[t] = d}
      <4>1. Scored(d) \subseteq frame.rows
        BY <2>1, <3>1 DEF Whole
      <4> QED
        BY <1>0, <3>4, <3>5, <4>1 DEF Scored
    <3>7. {t \in frame.frauds : DayOf[t] = d} = {t \in Scored(d) : scores[t].fraud}
      BY <1>0, <3>4, <3>6
    <3> QED
      BY <1>0, <3>3, <3>4, <3>6, <3>7
  <2>4. CASE ~\E t \in frame.rows : DayOf[t] = d
    <3>1. value'[d] = value[d]
      BY <1>3, <2>4 DEF MergeValue
    <3> QED
      BY <3>1 DEF LedgerAgrees
  <2> QED
    BY <2>3, <2>4
<1> QED
  BY <1>1, <1>2, <1>3 DEF JobNext, NextDay, Land, Confirm, ReadSilver, Train,
     AppendMetrics, UploadModel, PutManifest, RunFails, tables

\* Every job step keeps the job's invariant.
LEMMA JobInvStep ==
    ASSUME JobInv, [JobNext]_jobVars
    PROVE  JobInv'
<1>1. CASE JobNext
  BY <1>1, JobTypeStep, NumberedStep, KeyedStep, WholeStep, ProgressStep, LedgerStep
     DEF JobInv, Numbered
<1>2. CASE UNCHANGED jobVars
  BY <1>2 DEF jobVars, source, tables, bucket, JobInv, JobTypeOK, Numbered, Started, Keyed,
     Whole, Scored, Progress, Recorded, LedgerAgrees
<1> QED
  BY <1>1, <1>2

-----------------------------------------------------------------------------
(* The scoring service: types.                                              *)

\* Every step of the service keeps its types.
LEMMA ServiceTypeStep ==
    ASSUME JobTypeOK, Service!ServiceTypeOK, ServiceStep
    PROVE  Service!ServiceTypeOK'
<1> USE Constants
<1>0. /\ latest \in 0 .. MaxRuns /\ manifest \in [Model -> (1 .. MaxRuns) \X Model]
      /\ objects \in [(1 .. MaxRuns) \X Model -> 0 .. MaxRuns] /\ released' = released
  BY DEF JobTypeOK, Key, Run, ServiceStep
<1>1. Service!NoLoading \in Service!Loading
  BY <1>0 DEF Service!NoLoading, Service!Loading
<1>2. ASSUME NEW r \in Request,
             \/ Service!Ask(r) \/ Service!Create(r) \/ Service!Bind(r)
             \/ Service!UseBundle(r) \/ Service!StartLoad(r)
      PROVE  Service!ServiceTypeOK'
  <2>1. CASE Service!Ask(r)
    BY <1>0, <2>1 DEF Service!Ask, Service!To, Service!ServiceTypeOK
  <2>4. CASE Service!Create(r)
    BY <1>0, <2>4 DEF Service!Create, Service!To, Service!ServiceTypeOK
  <2>5. CASE Service!Bind(r)
    BY <1>0, <2>5 DEF Service!Bind, Service!To, Service!ServiceTypeOK
  <2>2. CASE Service!UseBundle(r)
    BY <1>0, <2>2 DEF Service!UseBundle, Service!To, Service!ServiceTypeOK
  <2>3. CASE Service!StartLoad(r)
    BY <1>0, <2>3 DEF Service!StartLoad, Service!To, Service!ServiceTypeOK
  <2> QED
    BY <1>2, <2>1, <2>2, <2>3, <2>4, <2>5
<1>3. ASSUME NEW r \in Request, Service!GetManifest(r)
      PROVE  Service!ServiceTypeOK'
  <2>1. [Service!NoLoading EXCEPT !.run = latest, !.keys = manifest, !.read_at = clock]
           \in Service!Loading
    <3>1. clock \in 0 .. MaxClock
      BY DEF Service!ServiceTypeOK
    <3> QED
      BY <1>0, <1>1, <3>1 DEF Service!Loading
  <2> QED
    BY <1>0, <1>3, <2>1 DEF Service!GetManifest, Service!To, Service!ServiceTypeOK
<1>4. ASSUME NEW r \in Request, NEW m \in Model, Service!GetModel(r, m)
      PROVE  Service!ServiceTypeOK'
  <2>1. loading[r] \in Service!Loading
    BY DEF Service!ServiceTypeOK
  <2>2. objects[loading[r].keys[m]] \in 0 .. MaxRuns
    BY <1>0, <2>1 DEF Service!Loading
  <2>3. [loading[r] EXCEPT !.models = [loading[r].models EXCEPT ![m] = objects[loading[r].keys[m]]]]
           \in Service!Loading
    BY <2>1, <2>2 DEF Service!Loading
  <2>4. loading' = [loading EXCEPT ![r] =
           [loading[r] EXCEPT !.models = [loading[r].models EXCEPT ![m] = objects[loading[r].keys[m]]]]]
    BY <1>4 DEF Service!GetModel
  <2>5. loading' \in [Request -> Service!Loading]
    BY <2>3, <2>4 DEF Service!ServiceTypeOK
  <2> QED
    BY <1>0, <1>4, <2>5 DEF Service!GetModel, Service!ServiceTypeOK
<1>5. ASSUME NEW r \in Request, Service!Install(r)
      PROVE  Service!ServiceTypeOK'
  <2>1. Service!Installed(r) \in Service!Bundle
    BY <1>5 DEF Service!Installed, Service!ServiceTypeOK, Service!Bundle, Service!Loading
  <2> QED
    BY <1>0, <1>1, <1>5, <2>1 DEF Service!Install, Service!To, Service!ServiceTypeOK
<1>6. ASSUME NEW r \in Request, Service!LoadFails(r)
      PROVE  Service!ServiceTypeOK'
  BY <1>0, <1>1, <1>6 DEF Service!LoadFails, Service!To, Service!ServiceTypeOK
<1>7. CASE Service!Tick
  BY <1>0, <1>7 DEF Service!Tick, Service!ServiceTypeOK
<1> QED
  BY <1>2, <1>3, <1>4, <1>5, <1>6, <1>7 DEF ServiceStep, Service!ServiceNext

-----------------------------------------------------------------------------
(* The scoring service: bundles.                                            *)

\* A bundle of one run's models and threshold, of a run released and on record.
Sound(b) == b.run > 0 /\ b.run <= latest /\ Recorded(b.run) /\ \A m \in Model : b.models[m] = b.run

\* A run is released when the manifest names it or a later one, and not before.
ReleaseInv == \A n \in Run : \/ released[n] <= clock /\ n <= latest
                             \/ released[n] = MaxClock + 1

\* What a loader has read is of one run, not older than its object's bundle, and as new as
\* the time at which it read the manifest.
LoaderInv(r) ==
    req[r] = "models" =>
        /\ loading[r].run > 0 /\ loading[r].run <= latest /\ loading[r].run >= bundle[mine[r]].run
        /\ Recorded(loading[r].run)
        /\ \A m \in Model : /\ loading[r].keys[m] = ObjectKey(loading[r].run, m)
                            /\ loading[r].models[m] \in {0, loading[r].run}
        /\ asked[r] <= loading[r].read_at
        /\ loading[r].read_at <= clock /\ clock <= loading[r].read_at + MaxLoad
        /\ \A n \in Run : released[n] < loading[r].read_at => loading[r].run >= n

Current(b) ==
    /\ b.run <= latest
    /\ b.run > 0 => /\ Sound(b) /\ b.loaded_at <= clock
                    /\ \A n \in Run : released[n] + MaxLoad < b.loaded_at => b.run >= n

BundleInv == \A i \in Request : Current(bundle[i])

HeldInv(r) ==
    r \in Service!Served =>
        /\ Sound(held[r])
        /\ \A n \in Run : released[n] + TTL + MaxLoad <= asked[r] => held[r].run >= n

\* Only one request at a time loads for a service object.
LockInv == \A r \in Request : req[r] \in {"manifest", "models"} => lock[mine[r]] = r

AskedInv == \A r \in Request : asked[r] <= clock

ServiceInv ==
    /\ Service!ServiceTypeOK
    /\ ReleaseInv /\ BundleInv /\ LockInv /\ AskedInv
    /\ \A r \in Request : LoaderInv(r) /\ HeldInv(r)

\* The times and runs of the service are numbers.
LEMMA ServiceNumbers ==
    ASSUME JobTypeOK, Service!ServiceTypeOK
    PROVE  /\ clock \in Nat /\ latest \in Nat /\ run \in Nat /\ clock <= MaxClock
           /\ \A i \in Request : /\ bundle[i].run \in Nat /\ bundle[i].loaded_at \in Nat
                                 /\ mine[i] \in Request
           /\ \A r \in Request : /\ loading[r].run \in Nat /\ loading[r].read_at \in Nat
                                 /\ held[r].run \in Nat /\ asked[r] \in Nat
           /\ \A n \in Run : n \in Nat /\ released[n] \in Nat
<1> USE Constants
<1>1. clock \in Nat /\ latest \in Nat /\ run \in Nat /\ clock <= MaxClock
  BY DEF JobTypeOK, Service!ServiceTypeOK
<1>2. ASSUME NEW i \in Request
      PROVE  /\ bundle[i].run \in Nat /\ bundle[i].loaded_at \in Nat
             /\ mine[i] \in Request
  <2>1. bundle[i] \in Service!Bundle
    BY DEF Service!ServiceTypeOK
  <2> QED
    BY <2>1 DEF Service!ServiceTypeOK, Service!Bundle
<1>3. ASSUME NEW r \in Request
      PROVE  /\ loading[r].run \in Nat /\ loading[r].read_at \in Nat
             /\ held[r].run \in Nat /\ asked[r] \in Nat
  <2>1. loading[r] \in Service!Loading /\ held[r] \in Service!Bundle /\ asked[r] \in 0 .. MaxClock
    BY DEF Service!ServiceTypeOK
  <2> QED
    BY <2>1 DEF Service!Loading, Service!Bundle
<1>4. \A n \in Run : n \in Nat /\ released[n] \in Nat
  BY DEF Service!ServiceTypeOK, Run
<1> QED
  BY <1>1, <1>2, <1>3, <1>4

\* What a step of the job changes for the service: a release, at the current time.
LEMMA JobSeen ==
    ASSUME JobInv, ServiceInv, JobStep
    PROVE  /\ latest' \in Nat /\ latest' >= latest
           /\ \A n \in Nat : n <= latest /\ Recorded(n) => Recorded(n)'
           /\ \A n \in Run : released'[n] = released[n] \/ released'[n] = clock
           /\ ReleaseInv'
           /\ UNCHANGED service
           /\ released' \in [Run -> 0 .. MaxClock + 1]
<1> USE Constants
<1>0. JobNext /\ UNCHANGED service /\ JobInv' /\ JobTypeOK /\ Service!ServiceTypeOK
  BY JobInvStep DEF JobStep, JobInv, ServiceInv
<1>1. clock \in Nat /\ latest \in Nat /\ run \in Nat /\ clock <= MaxClock
      /\ latest' \in Nat /\ latest <= run
  BY <1>0, ServiceNumbers DEF JobInv, JobTypeOK, Numbered
<1>2. latest' >= latest
  <2>1. latest' = latest \/ latest' = run
    BY <1>0 DEF JobNext, NextDay, Land, Confirm, ReadSilver, Train, MergeScores,
       AppendMetrics, MergeValue, UploadModel, PutManifest, RunFails, bucket
  <2> QED
    BY <1>1, <2>1
<1>3. \A n \in Nat : n <= latest /\ Recorded(n) => Recorded(n)'
  BY <1>0, <1>1, RecordedStep DEF JobInv
<1>4. /\ \A n \in Run : released'[n] = IF latest' = n /\ latest # n THEN clock ELSE released[n]
      /\ released' \in [Run -> 0 .. MaxClock + 1]
  BY <1>0, <1>1 DEF JobStep, Service!ServiceTypeOK, Run
<1>5. ReleaseInv'
  <2>1. clock' = clock /\ ReleaseInv
    BY <1>0 DEF service, ServiceInv
  <2>2. ASSUME NEW n \in Run
        PROVE  (released'[n] <= clock /\ n <= latest') \/ released'[n] = MaxClock + 1
    <3>1. CASE latest' = n /\ latest # n
      BY <1>1, <1>4, <3>1
    <3>2. CASE ~(latest' = n /\ latest # n)
      <4>1. released'[n] = released[n]
        BY <1>4, <3>2
      <4>2. n \in Nat
        BY DEF Run
      <4> QED
        BY <1>1, <1>2, <2>1, <4>1, <4>2 DEF ReleaseInv
    <3> QED
      BY <3>1, <3>2
  <2> QED
    BY <2>1, <2>2 DEF ReleaseInv
<1> QED
  BY <1>0, <1>1, <1>2, <1>3, <1>4, <1>5

\* The job's steps keep the service's invariant: a new release is never older than what
\* is in use, and not yet late.
LEMMA ServiceInvJob ==
    ASSUME JobInv, ServiceInv, JobStep
    PROVE  ServiceInv'
<1> USE Constants
<1>0. /\ JobTypeOK /\ Service!ServiceTypeOK /\ ReleaseInv /\ BundleInv /\ LockInv /\ AskedInv
      /\ UNCHANGED service /\ ReleaseInv' /\ latest' >= latest /\ latest' \in Nat
      /\ \A n \in Run : released'[n] = released[n] \/ released'[n] = clock
      /\ \A n \in Nat : n <= latest /\ Recorded(n) => Recorded(n)'
  BY JobSeen DEF JobInv, ServiceInv
<1>1. Service!ServiceTypeOK'
  <2>1. /\ released' \in [1 .. MaxRuns -> 0 .. MaxClock + 1]
        /\ UNCHANGED <<clock, req, shared, mine, lock, bundle, loading, held, asked>>
    BY JobSeen DEF Run, service
  <2> QED
    BY <1>0, <2>1 DEF Service!ServiceTypeOK
<1>2. LockInv' /\ AskedInv'
  BY <1>0 DEF LockInv, AskedInv, service
<1>3. /\ clock \in Nat /\ latest \in Nat
      /\ \A i \in Request : bundle[i].run \in Nat /\ bundle[i].loaded_at \in Nat
      /\ \A n \in Run : n \in Nat /\ released[n] \in Nat
  BY <1>0, ServiceNumbers
<1>4. UNCHANGED <<clock, req, shared, mine, lock, bundle, loading, held, asked>>
  BY <1>0 DEF service
<1>5. BundleInv'
  <2> SUFFICES ASSUME NEW i \in Request PROVE Current(bundle[i])'
    BY <1>4 DEF BundleInv
  <2> DEFINE b == bundle[i]
  <2>0. Current(b) /\ b.run \in Nat /\ b.loaded_at \in Nat
    BY <1>0, <1>3 DEF BundleInv
  <2> HIDE DEF b
  <2>1. b.run <= latest'
    BY <1>0, <1>3, <2>0 DEF Current
  <2>2. ASSUME b.run > 0
        PROVE  /\ b.run <= latest' /\ Recorded(b.run)' /\ b.loaded_at <= clock
               /\ \A m \in Model : b.models[m] = b.run
               /\ \A n \in Run : released'[n] + MaxLoad < b.loaded_at => b.run >= n
    <3>1. Sound(b) /\ b.loaded_at <= clock
      BY <2>0, <2>2 DEF Current
    <3>2. Recorded(b.run)'
      <4>1. PICK n \in Nat : n = b.run
        BY <2>0
      <4>2. n <= latest /\ Recorded(n)
        BY <3>1, <4>1 DEF Sound, Recorded
      <4>3. Recorded(n)'
        BY <1>0, <4>2
      <4>4. b' = b
        BY <1>4 DEF b
      <4> QED
        BY <4>1, <4>3, <4>4 DEF Recorded
    <3>3. \A n \in Run : released'[n] + MaxLoad < b.loaded_at => b.run >= n
      BY <1>0, <1>3, <2>0, <2>2, <3>1 DEF Current
    <3> QED
      BY <2>1, <3>1, <3>2, <3>3 DEF Sound
  <2> QED
    BY <1>4, <2>1, <2>2 DEF Current, Sound, Recorded, b
<1>6. ASSUME NEW r \in Request PROVE LoaderInv(r)' /\ HeldInv(r)'
  <2>1. /\ LoaderInv(r) /\ HeldInv(r) /\ asked[r] <= clock
        /\ loading[r].run \in Nat /\ loading[r].read_at \in Nat
        /\ held[r].run \in Nat /\ asked[r] \in Nat
    BY <1>0, ServiceNumbers DEF ServiceInv, AskedInv
  <2>2. LoaderInv(r)'
    <3>1. ASSUME req[r] = "models"
          PROVE  /\ loading[r].run <= latest'
                 /\ Recorded(loading[r].run)'
                 /\ \A n \in Run : released'[n] < loading[r].read_at => loading[r].run >= n
      <4>1. Recorded(loading[r].run)'
        BY <1>0, <1>4, <2>1, <3>1 DEF LoaderInv, Recorded
      <4>2. \A n \in Run : released'[n] < loading[r].read_at => loading[r].run >= n
        BY <1>0, <1>3, <2>1, <3>1 DEF LoaderInv
      <4> QED
        BY <1>0, <1>3, <2>1, <3>1, <4>1, <4>2 DEF LoaderInv
    <3> QED
      BY <1>4, <2>1, <3>1 DEF LoaderInv, ObjectKey
  <2>3. HeldInv(r)'
    <3>1. ASSUME r \in Service!Served
          PROVE  /\ Sound(held[r])'
                 /\ \A n \in Run : released'[n] + TTL + MaxLoad <= asked[r] => held[r].run >= n
      <4>1. Sound(held[r])'
        BY <1>0, <1>3, <1>4, <2>1, <3>1 DEF HeldInv, Sound, Recorded
      <4>2. \A n \in Run : released'[n] + TTL + MaxLoad <= asked[r] => held[r].run >= n
        BY <1>0, <1>3, <2>1, <3>1 DEF HeldInv
      <4> QED
        BY <4>1, <4>2
    <3> QED
      BY <1>4, <3>1 DEF HeldInv, Service!Served
  <2> QED
    BY <2>2, <2>3
<1> QED
  BY <1>0, <1>1, <1>2, <1>5, <1>6 DEF ServiceInv

\* The service's steps keep its invariant.
LEMMA ServiceInvService ==
    ASSUME JobInv, ServiceInv, ServiceStep
    PROVE  ServiceInv'
<1> USE Constants
<1>0. /\ JobTypeOK /\ Keyed /\ Progress /\ latest <= run
      /\ Service!ServiceTypeOK /\ ReleaseInv /\ BundleInv /\ LockInv /\ AskedInv
      /\ UNCHANGED <<run, objects, latest, manifest, metrics, value, released>>
      /\ Service!ServiceTypeOK'
  BY ServiceTypeStep DEF JobInv, ServiceInv, ServiceStep, jobVars, tables, bucket, Numbered
<1>1. /\ clock \in Nat /\ latest \in Nat /\ clock <= MaxClock
      /\ \A i \in Request : /\ bundle[i].run \in Nat /\ bundle[i].loaded_at \in Nat
                            /\ mine[i] \in Request
      /\ \A n \in Run : n \in Nat /\ released[n] \in Nat
      /\ \A r \in Request : /\ loading[r].run \in Nat /\ loading[r].read_at \in Nat
                            /\ held[r].run \in Nat /\ asked[r] \in Nat
                            /\ LoaderInv(r) /\ HeldInv(r)
      /\ req \in [Request -> {"idle", "creating", "binding", "waiting", "manifest", "models",
                             "scoring", "failed"}]
      /\ DOMAIN mine = Request /\ DOMAIN lock = Request /\ DOMAIN bundle = Request
      /\ DOMAIN loading = Request /\ DOMAIN held = Request /\ DOMAIN asked = Request
  BY <1>0, ServiceNumbers DEF ServiceInv, Service!ServiceTypeOK
\* Sound, LoaderInv and HeldInv speak of the job's variables, which do not change.
<1>2. \A n \in Nat : Recorded(n) => Recorded(n)'
  BY <1>0 DEF Recorded
<1>3. CASE Service!Tick
  <2>1. clock' = clock + 1 /\ clock < MaxClock /\ UNCHANGED <<req, shared, mine, lock, bundle, loading, held, asked>>
        /\ \A r \in Request : req[r] = "models" => clock - loading[r].read_at < MaxLoad
    BY <1>3 DEF Service!Tick
  <2>2. ReleaseInv' /\ LockInv' /\ AskedInv'
    BY <1>0, <1>1, <2>1 DEF ReleaseInv, LockInv, AskedInv
  <2>3. BundleInv'
    BY <1>0, <1>1, <2>1 DEF BundleInv, Current, Sound, Recorded
  <2>4. ASSUME NEW r \in Request PROVE LoaderInv(r)' /\ HeldInv(r)'
    <3>1. LoaderInv(r)'
      BY <1>0, <1>1, <2>1 DEF LoaderInv, Recorded, ObjectKey
    <3>2. HeldInv(r)'
      BY <1>0, <1>1, <2>1 DEF HeldInv, Service!Served, Sound, Recorded
    <3> QED
      BY <3>1, <3>2
  <2> QED
    BY <1>0, <2>2, <2>3, <2>4 DEF ServiceInv
\* A step of a request leaves the other requests' parts of the invariant as they are,
\* if the bundle does not change.
<1>4. ASSUME NEW r \in Request, NEW u \in Request, u # r, clock' = clock, bundle' = bundle,
             mine'[u] = mine[u], req'[u] = req[u], loading'[u] = loading[u], held'[u] = held[u], asked'[u] = asked[u]
      PROVE  LoaderInv(u)' /\ HeldInv(u)'
  <2>1. LoaderInv(u)'
    BY <1>0, <1>1, <1>4 DEF LoaderInv, Recorded, ObjectKey
  <2>2. HeldInv(u)'
    BY <1>0, <1>1, <1>4 DEF HeldInv, Service!Served, Sound, Recorded
  <2> QED
    BY <2>1, <2>2
<1>5. ASSUME clock' = clock PROVE ReleaseInv'
  BY <1>0, <1>5 DEF ReleaseInv
<1>6. ASSUME bundle' = bundle, clock' = clock PROVE BundleInv'
  BY <1>0, <1>6 DEF BundleInv, Current, Sound, Recorded
<1>7. ASSUME NEW r \in Request, Service!Ask(r) \/ Service!Create(r) \/ Service!Bind(r)
      PROVE  ServiceInv'
  <2>1. /\ req[r] \in {"idle", "creating", "binding"}
        /\ req'[r] \in {"creating", "binding", "waiting"}
        /\ \A u \in Request \ {r} :
               req'[u] = req[u] /\ mine'[u] = mine[u] /\ asked'[u] = asked[u]
        /\ asked'[r] \in {asked[r], clock}
        /\ UNCHANGED <<clock, lock, bundle, loading, held>>
    <3>1. CASE Service!Ask(r)
      BY <1>1, <3>1 DEF Service!Ask, Service!To
    <3>2. CASE Service!Create(r)
      BY <1>1, <3>2 DEF Service!Create, Service!To
    <3>3. CASE Service!Bind(r)
      BY <1>1, <3>3 DEF Service!Bind, Service!To
    <3> QED
      BY <1>7, <3>1, <3>2, <3>3
  <2>2. LockInv' /\ AskedInv'
    BY <1>0, <1>1, <2>1 DEF LockInv, AskedInv
  <2>4. LoaderInv(r)' /\ HeldInv(r)'
    BY <2>1 DEF LoaderInv, HeldInv, Service!Served
  <2>5. \A u \in Request \ {r} : LoaderInv(u)' /\ HeldInv(u)'
    BY <1>4, <2>1
  <2> QED
    BY <1>0, <1>5, <1>6, <2>1, <2>2, <2>4, <2>5 DEF ServiceInv
<1>8. ASSUME NEW r \in Request, Service!UseBundle(r) PROVE ServiceInv'
  <2> DEFINE b == bundle[mine[r]]
  <2>0. Current(b) /\ b.run \in Nat /\ b.loaded_at \in Nat
    BY <1>0, <1>1 DEF BundleInv
  <2>1. /\ req' = [req EXCEPT ![r] = "scoring"] /\ held' = [held EXCEPT ![r] = b]
        /\ UNCHANGED <<clock, shared, mine, lock, bundle, loading, asked>>
        /\ b.run # 0 /\ clock - b.loaded_at < TTL
    BY <1>8 DEF Service!UseBundle, Service!To, Service!Fresh
  <2>2. LockInv' /\ AskedInv'
    BY <1>0, <1>1, <2>1 DEF LockInv, AskedInv
  <2>3. req'[r] = "scoring" /\ held'[r] = b /\ asked'[r] = asked[r]
    BY <1>1, <2>1
  <2> HIDE DEF b
  <2>4. LoaderInv(r)'
    BY <2>3 DEF LoaderInv
  <2>5. Sound(held[r])'
    BY <1>0, <1>1, <2>0, <2>1, <2>3 DEF Current, Sound, Recorded
  <2>6. ASSUME NEW n \in Run, released[n] + TTL + MaxLoad <= asked[r]
        PROVE  b.run >= n
    <3>1. released[n] + MaxLoad < b.loaded_at
      BY <1>0, <1>1, <2>0, <2>1, <2>6 DEF AskedInv
    <3> QED
      BY <1>1, <2>0, <2>1, <3>1 DEF Current
  <2>7. HeldInv(r)'
    BY <1>0, <2>3, <2>5, <2>6 DEF HeldInv
  <2>8. \A u \in Request \ {r} : LoaderInv(u)' /\ HeldInv(u)'
    BY <1>1, <1>4, <2>1
  <2> QED
    BY <1>0, <1>5, <1>6, <2>1, <2>2, <2>4, <2>7, <2>8 DEF ServiceInv
<1>9. ASSUME NEW r \in Request, Service!StartLoad(r) PROVE ServiceInv'
  <2>1. /\ req' = [req EXCEPT ![r] = "manifest"] /\ lock[mine[r]] = NoRequest
        /\ lock' = [lock EXCEPT ![mine[r]] = r] /\ req[r] = "waiting"
        /\ UNCHANGED <<clock, shared, mine, bundle, loading, held, asked>>
    BY <1>9 DEF Service!StartLoad, Service!To, Service!LockFree
  <2>2. LockInv' /\ AskedInv'
    BY <1>0, <1>1, <2>1 DEF LockInv, AskedInv
  <2>3. req'[r] = "manifest"
    BY <1>1, <2>1
  <2>4. LoaderInv(r)' /\ HeldInv(r)'
    BY <2>3 DEF LoaderInv, HeldInv, Service!Served
  <2>5. \A u \in Request \ {r} : LoaderInv(u)' /\ HeldInv(u)'
    BY <1>1, <1>4, <2>1
  <2> QED
    BY <1>0, <1>5, <1>6, <2>1, <2>2, <2>4, <2>5 DEF ServiceInv
<1>10. ASSUME NEW r \in Request, Service!GetManifest(r) PROVE ServiceInv'
  <2>1. /\ req' = [req EXCEPT ![r] = "models"] /\ req[r] = "manifest" /\ latest > 0
        /\ loading' = [loading EXCEPT ![r] =
               [Service!NoLoading EXCEPT !.run = latest, !.keys = manifest, !.read_at = clock]]
        /\ UNCHANGED <<clock, shared, mine, lock, bundle, held, asked>>
    BY <1>10 DEF Service!GetManifest, Service!To
  <2>2. LockInv' /\ AskedInv'
    BY <1>0, <1>1, <2>1 DEF LockInv, AskedInv
  <2>3. /\ loading'[r].run = latest /\ loading'[r].keys = manifest
        /\ loading'[r].read_at = clock /\ loading'[r].models = [m \in Model |-> 0]
        /\ req'[r] = "models" /\ asked'[r] = asked[r]
    BY <1>1, <2>1 DEF Service!NoLoading
  <2>4. Recorded(latest) /\ bundle[mine[r]].run <= latest /\ asked[r] <= clock
        /\ \A m \in Model : manifest[m] = ObjectKey(latest, m)
    BY <1>0, <1>1, <2>1 DEF Progress, Keyed, BundleInv, Current, AskedInv
  <2>5. \A n \in Run : released[n] < clock => latest >= n
    BY <1>0, <1>1 DEF ReleaseInv
  <2>6. LoaderInv(r)'
    BY <1>0, <1>1, <2>1, <2>3, <2>4, <2>5 DEF LoaderInv, Recorded, ObjectKey
  <2>7. HeldInv(r)'
    BY <2>3 DEF HeldInv, Service!Served
  <2>8. \A u \in Request \ {r} : LoaderInv(u)' /\ HeldInv(u)'
    BY <1>1, <1>4, <2>1
  <2> QED
    BY <1>0, <1>5, <1>6, <2>1, <2>2, <2>6, <2>7, <2>8 DEF ServiceInv
<1>11. ASSUME NEW r \in Request, NEW m \in Model, Service!GetModel(r, m) PROVE ServiceInv'
  <2> DEFINE got == objects[loading[r].keys[m]]
  <2>1. /\ req[r] = "models"
        /\ loading' = [loading EXCEPT ![r].models[m] = got]
        /\ UNCHANGED <<clock, req, shared, mine, lock, bundle, held, asked>>
    BY <1>11 DEF Service!GetModel
  <2>2. LockInv' /\ AskedInv'
    BY <1>0, <2>1 DEF LockInv, AskedInv
  <2>3. loading[r].run \in Run
    BY <1>0, <1>1, <2>1 DEF LoaderInv, Run, JobTypeOK
  <2>4. got \in {0, loading[r].run}
    <3>1. loading[r].keys[m] = ObjectKey(loading[r].run, m)
      BY <1>1, <2>1 DEF LoaderInv
    <3>2. loading[r].keys[m] \in Key /\ loading[r].keys[m][1] = loading[r].run
      BY <2>3, <3>1, KeyType
    <3> QED
      BY <1>0, <3>2 DEF Keyed
  <2>5. loading[r] \in Service!Loading
    BY <1>0 DEF Service!ServiceTypeOK
  <2> HIDE DEF got
  <2>6. /\ loading'[r].run = loading[r].run /\ loading'[r].keys = loading[r].keys
        /\ loading'[r].read_at = loading[r].read_at
        /\ loading'[r].models = [loading[r].models EXCEPT ![m] = got]
        /\ \A u \in Request \ {r} : loading'[u] = loading[u]
    BY <1>1, <2>1, <2>5 DEF Service!Loading
  <2>7. \A k \in Model : loading'[r].models[k] \in {0, loading[r].run}
    BY <1>1, <2>1, <2>4, <2>5, <2>6 DEF LoaderInv, Service!Loading
  <2>8. LoaderInv(r)'
    BY <1>0, <1>1, <2>1, <2>6, <2>7 DEF LoaderInv, Recorded, ObjectKey
  <2>9. HeldInv(r)'
    BY <2>1 DEF HeldInv, Service!Served
  <2>10. \A u \in Request \ {r} : LoaderInv(u)' /\ HeldInv(u)'
    BY <1>4, <2>1, <2>6
  <2> QED
    BY <1>0, <1>5, <1>6, <2>1, <2>2, <2>8, <2>9, <2>10 DEF ServiceInv
<1>12. ASSUME NEW r \in Request, Service!Install(r) PROVE ServiceInv'
  <2> DEFINE b == Service!Installed(r)
  <2>1. /\ req[r] = "models" /\ req' = [req EXCEPT ![r] = "scoring"]
        /\ lock' = [lock EXCEPT ![mine[r]] = NoRequest]
        /\ bundle' = [bundle EXCEPT ![mine[r]] = b] /\ held' = [held EXCEPT ![r] = b]
        /\ loading' = [loading EXCEPT ![r] = Service!NoLoading]
        /\ \A m \in Model : loading[r].models[m] # 0
        /\ UNCHANGED <<clock, shared, mine, asked>>
    BY <1>12 DEF Service!Install, Service!To
  <2>2. \A u \in Request \ {r} : req[u] \in {"manifest", "models"} => mine[u] # mine[r]
    BY <1>0, <2>1 DEF LockInv
  <2>3. LockInv' /\ AskedInv'
    BY <1>0, <1>1, <2>1, <2>2 DEF LockInv, AskedInv
  <2>4. b.run = loading[r].run /\ b.models = loading[r].models /\ b.loaded_at = clock
    BY DEF Service!Installed
  <2> HIDE DEF b
  <2>5. /\ loading[r].run > 0 /\ loading[r].run <= latest /\ Recorded(loading[r].run)
        /\ \A m \in Model : loading[r].models[m] = loading[r].run
        /\ asked[r] <= loading[r].read_at
        /\ loading[r].read_at <= clock /\ clock <= loading[r].read_at + MaxLoad
        /\ \A n \in Run : released[n] < loading[r].read_at => loading[r].run >= n
    BY <1>1, <2>1 DEF LoaderInv
  <2>6. b.run <= latest /\ Sound(b)
    BY <1>0, <1>1, <2>4, <2>5 DEF Sound, Recorded
  <2>7. \A n \in Run : released[n] + MaxLoad < clock => loading[r].run >= n
    BY <1>1, <2>5
  <2>8. BundleInv'
    <3>1. Current(b)
      BY <1>1, <2>4, <2>6, <2>7 DEF Current
    <3>2. ASSUME NEW i \in Request PROVE Current(bundle'[i])
      <4>1. bundle'[i] \in {b, bundle[i]}
        BY <1>1, <2>1
      <4> QED
        BY <1>0, <3>1, <4>1 DEF BundleInv
    <3>3. \A c : Current(c) => Current(c)'
      BY <1>0, <1>1, <2>1 DEF Current, Sound, Recorded
    <3> QED
      BY <3>2, <3>3 DEF BundleInv, Current, Sound, Recorded
  <2>9. req'[r] = "scoring" /\ held'[r] = b /\ asked'[r] = asked[r]
    BY <1>1, <2>1
  <2>10. \A n \in Run : released[n] + TTL + MaxLoad <= asked[r] => loading[r].run >= n
    BY <1>1, <2>5
  <2>11. LoaderInv(r)' /\ HeldInv(r)'
    BY <1>0, <2>4, <2>6, <2>9, <2>10 DEF LoaderInv, HeldInv, Sound, Recorded
  <2>12. ASSUME NEW u \in Request \ {r} PROVE LoaderInv(u)' /\ HeldInv(u)'
    <3>1. /\ req'[u] = req[u] /\ held'[u] = held[u] /\ asked'[u] = asked[u]
          /\ loading'[u] = loading[u] /\ mine'[u] = mine[u]
      BY <1>1, <2>1
    <3>2. req[u] = "models" => bundle'[mine[u]] = bundle[mine[u]]
      BY <1>1, <2>1, <2>2
    <3>3. LoaderInv(u)'
      BY <1>0, <1>1, <2>1, <3>1, <3>2 DEF LoaderInv, Recorded, ObjectKey
    <3>4. HeldInv(u)'
      BY <1>0, <1>1, <3>1 DEF HeldInv, Service!Served, Sound, Recorded
    <3> QED
      BY <3>3, <3>4
  <2> QED
    BY <1>0, <1>5, <2>1, <2>3, <2>8, <2>11, <2>12 DEF ServiceInv
<1>13. ASSUME NEW r \in Request, Service!LoadFails(r) PROVE ServiceInv'
  <2>1. /\ req[r] \in {"manifest", "models"} /\ req' = [req EXCEPT ![r] = "failed"]
        /\ lock' = [lock EXCEPT ![mine[r]] = NoRequest]
        /\ loading' = [loading EXCEPT ![r] = Service!NoLoading]
        /\ asked' = [asked EXCEPT ![r] = 0]
        /\ UNCHANGED <<clock, shared, mine, bundle, held>>
    BY <1>13 DEF Service!LoadFails, Service!To
  <2>2. LockInv' /\ AskedInv'
    BY <1>0, <1>1, <2>1 DEF LockInv, AskedInv
  <2>3. req'[r] = "failed"
    BY <1>1, <2>1
  <2>4. LoaderInv(r)' /\ HeldInv(r)'
    BY <2>3 DEF LoaderInv, HeldInv, Service!Served
  <2>5. \A u \in Request \ {r} : LoaderInv(u)' /\ HeldInv(u)'
    BY <1>1, <1>4, <2>1
  <2> QED
    BY <1>0, <1>5, <1>6, <2>1, <2>2, <2>4, <2>5 DEF ServiceInv
<1> QED
  BY <1>3, <1>7, <1>8, <1>9, <1>10, <1>11, <1>12, <1>13 DEF ServiceStep, Service!ServiceNext

-----------------------------------------------------------------------------
(* The theorems.                                                            *)

\* The job starts with nothing written.
LEMMA JobInvInit ==
    ASSUME JobInit
    PROVE  JobInv
<1> USE Constants
<1>1. /\ today = 1 /\ silver = {} /\ feedback = {} /\ step = "idle" /\ run = 0
      /\ frame = [rows |-> {}, frauds |-> {}] /\ metrics = {} /\ latest = 0
      /\ scores = [t \in Txn |-> [run |-> 0, fraud |-> FALSE]]
      /\ value = [d \in Day |-> [run |-> 0, counted |-> {}, frauds |-> {}]]
      /\ objects = [k \in Key |-> 0]
      /\ manifest = [m \in Model |-> ObjectKey(1, m)]
  BY DEF JobInit
<1>2. JobTypeOK
  <2>1. manifest \in [Model -> Key]
    <3>1. 1 \in Run
      BY DEF Run
    <3> QED
      BY <1>1, <3>1, KeyType
  <2>2. scores \in [Txn -> Score] /\ value \in [Day -> Ledger] /\ objects \in [Key -> 0 .. MaxRuns]
    BY <1>1 DEF Score, Ledger
  <2>3. frame \in Frame /\ frame.frauds \subseteq frame.rows
    BY <1>1 DEF Frame
  <2>4. today \in Day /\ step \in Steps /\ run \in 0 .. MaxRuns /\ latest \in 0 .. MaxRuns
    BY <1>1 DEF Day, Steps
  <2>5. silver \subseteq Txn /\ feedback \subseteq Txn /\ metrics \subseteq Run
    BY <1>1
  <2> QED
    BY <2>1, <2>2, <2>3, <2>4, <2>5 DEF JobTypeOK
<1>3. Numbered /\ Keyed
  BY <1>1 DEF Numbered, Started, Keyed
<1>4. Whole /\ Progress /\ LedgerAgrees
  BY <1>1 DEF Whole, Progress, LedgerAgrees
<1> QED
  BY <1>2, <1>3, <1>4 DEF JobInv

\* The service starts with no bundle and no release.
LEMMA ServiceInvInit ==
    ASSUME JobInv, Service!ServiceInit
    PROVE  ServiceInv
<1> USE Constants
<1>0. /\ clock = 0 /\ shared = {} /\ mine = [r \in Request |-> r]
      /\ lock = [i \in Request |-> NoRequest]
      /\ bundle = [i \in Request |-> Service!NoBundle]
      /\ req = [r \in Request |-> "idle"]
      /\ loading = [r \in Request |-> Service!NoLoading]
      /\ held = [r \in Request |-> Service!NoBundle]
      /\ asked = [r \in Request |-> 0]
      /\ released = [n \in Run |-> MaxClock + 1]
      /\ latest \in Nat
      /\ manifest \in [Model -> (1 .. MaxRuns) \X Model]
  BY DEF Service!ServiceInit, Run, JobInv, JobTypeOK, Key
<1>1. Service!NoBundle \in Service!Bundle /\ Service!NoLoading \in Service!Loading
  BY <1>0 DEF Service!NoBundle, Service!Bundle, Service!NoLoading, Service!Loading
<1>2. Service!ServiceTypeOK
  BY <1>0, <1>1 DEF Service!ServiceTypeOK, Run
<1>3. ReleaseInv /\ LockInv /\ AskedInv
  BY <1>0 DEF ReleaseInv, LockInv, AskedInv
<1>4. BundleInv
  BY <1>0 DEF BundleInv, Current, Service!NoBundle
<1>5. \A r \in Request : LoaderInv(r) /\ HeldInv(r)
  BY <1>0 DEF LoaderInv, HeldInv, Service!Served
<1> QED
  BY <1>2, <1>3, <1>4, <1>5 DEF ServiceInv

\* A step of the whole keeps both invariants.
LEMMA InvStep ==
    ASSUME JobInv, ServiceInv, [Next]_vars
    PROVE  JobInv' /\ ServiceInv'
<1>1. CASE JobStep
  BY <1>1, JobInvStep, ServiceInvJob DEF JobStep
<1>2. CASE ServiceStep
  BY <1>2, JobInvStep, ServiceInvService DEF ServiceStep
<1>3. CASE UNCHANGED vars
  <2>1. UNCHANGED <<jobVars, service, released>>
    BY <1>3 DEF vars
  <2>2. JobInv'
    BY <2>1, JobInvStep
  <2>3. /\ UNCHANGED <<clock, req, shared, mine, lock, bundle, loading, held, asked, released>>
        /\ UNCHANGED <<objects, latest, manifest, metrics, value>>
    BY <2>1 DEF service, jobVars, tables, bucket
  <2>4. ServiceInv'
    BY <2>3 DEF ServiceInv, Service!ServiceTypeOK, ReleaseInv, BundleInv, Current, LockInv,
       AskedInv, LoaderInv, HeldInv, Service!Served, Sound, Recorded, ObjectKey
  <2> QED
    BY <2>2, <2>4
<1> QED
  BY <1>1, <1>2, <1>3 DEF Next

\* Tables, bucket, bundle and requests always satisfy the invariant on which the other
\* theorems rest.
THEOREM InductiveInvariant == Spec => [](JobInv /\ ServiceInv)
<1>1. Init => JobInv /\ ServiceInv
  BY JobInvInit, ServiceInvInit DEF Init
<1>2. (JobInv /\ ServiceInv) /\ [Next]_vars => (JobInv /\ ServiceInv)'
  BY InvStep
<1> QED
  BY <1>1, <1>2, PTL DEF Spec

\* The model job and the scoring service keep their types.
THEOREM TypeCorrect == Spec => []TypeOK
<1>1. JobInv /\ ServiceInv => TypeOK
  BY DEF JobInv, ServiceInv, TypeOK
<1> QED
  BY <1>1, InductiveInvariant, PTL

\* The value ledger of fraud_value_daily agrees with the scores table of the run it
\* prices, wherever runs stop and whatever lands or is confirmed meanwhile.
THEOREM LedgerAlwaysAgrees == Spec => []LedgerAgrees
<1>1. JobInv /\ ServiceInv => LedgerAgrees
  BY DEF JobInv
<1> QED
  BY <1>1, InductiveInvariant, PTL

\* score never mixes the models and the threshold of two runs.
THEOREM BundleAlwaysWhole == Spec => []BundleWhole
<1>1. JobInv /\ ServiceInv => BundleWhole
  BY DEF ServiceInv, HeldInv, Sound, BundleWhole, Service!BundleWhole, Service!Served
<1> QED
  BY <1>1, InductiveInvariant, PTL

\* score never uses a model replaced longer ago than the TTL of bundle() and a load.
THEOREM AlwaysFreshEnough == Spec => []FreshEnough
<1>1. JobInv /\ ServiceInv => FreshEnough
  BY DEF ServiceInv, HeldInv, FreshEnough, Service!FreshEnough, Service!Served, Run
<1> QED
  BY <1>1, InductiveInvariant, PTL

\* Every model in service has its metrics and its ledger on record, since main writes
\* the tables before _persist_models.
THEOREM ServedOnRecord == Spec => []ServedRunRecorded
<1>1. JobInv /\ ServiceInv => ServedRunRecorded
  BY DEF ServiceInv, HeldInv, Sound, Recorded, ServedRunRecorded, Service!Served
<1> QED
  BY <1>1, InductiveInvariant, PTL

\* bundle() under its lock never replaces a service object's model by an older one.
THEOREM NeverBack == Spec => NoStepBack
<1>1. JobInv /\ ServiceInv /\ [Next]_vars =>
          [\A i \in Request : bundle'[i].run >= bundle[i].run]_bundle
  <2> SUFFICES ASSUME JobInv, ServiceInv, [Next]_vars, bundle' # bundle, NEW i \in Request
               PROVE  bundle'[i].run >= bundle[i].run
    OBVIOUS
  <2>1. PICK r \in Request : Service!Install(r)
    BY DEF Next, JobStep, ServiceStep, service, vars, Service!ServiceNext, Service!Ask,
       Service!Create, Service!Bind, Service!UseBundle, Service!StartLoad,
       Service!GetManifest, Service!GetModel, Service!LoadFails, Service!Tick
  <2>2. /\ bundle' = [bundle EXCEPT ![mine[r]] = Service!Installed(r)] /\ req[r] = "models"
        /\ Service!Installed(r).run = loading[r].run
    BY <2>1 DEF Service!Install, Service!Installed
  <2>3. /\ loading[r].run >= bundle[mine[r]].run /\ bundle[i].run \in Nat
        /\ bundle \in [Request -> Service!Bundle]
    BY <2>2, ServiceNumbers DEF JobInv, ServiceInv, LoaderInv, Service!ServiceTypeOK
  <2> QED
    BY <2>2, <2>3
<1> QED
  BY <1>1, InductiveInvariant, PTL DEF Spec, NoStepBack, Service!NoStepBack
=============================================================================
