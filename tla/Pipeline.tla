------------------------------- MODULE Pipeline -------------------------------
(***************************************************************************)
(* Executions of the Step Functions state machine of                       *)
(* orchestration/pipeline.asl.json over the shared lake: the Glue runs they *)
(* start, the tables those runs write step by step, the quality report both *)
(* gates publish under one S3 key per layer, and the failure branch.        *)
(*                                                                          *)
(* All rows lie inside the jobs' lookback windows (the windows themselves   *)
(* are another matter: no table ages here).                                 *)
(***************************************************************************)
EXTENDS Naturals, FiniteSets

CONSTANTS
    Execution,        \* executions of the state machine
    Row,              \* transactions, named by transaction_id
    Merchant,
    MerchantOf,       \* the merchant_id of each row
    Malformed,        \* rows the bronze validator quarantines
    Unfit,            \* rows it admits and a row-level rule of the bronze gate fails
    Unscored,         \* rows with no amount_zscore_30d (too little history)
    Batches,          \* the rows of each dt partition of the raw zone
    ThrottleRetries,  \* MaxAttempts of the "Glue is busy" retriers
    TaskRetries,      \* MaxAttempts of the States.TaskFailed retriers
    LambdaRetries,    \* MaxAttempts of the failure-report retrier
    Freshness,        \* outcomes the freshness rule may have
    Overlap,          \* may an execution start while another one is active?
    Orphans           \* may a Glue run survive its execution's timeout?

ASSUME PipelineAssumption ==
    /\ MerchantOf \in [Row -> Merchant]
    /\ Malformed \subseteq Row
    /\ Unfit \subseteq Row \ Malformed
    /\ Unscored \subseteq Row
    /\ Batches \subseteq SUBSET Row
    /\ {ThrottleRetries, TaskRetries, LambdaRetries} \subseteq Nat
    /\ Freshness \subseteq BOOLEAN /\ Freshness # {}
    /\ {Overlap, Orphans} \subseteq BOOLEAN

-----------------------------------------------------------------------------
(* The state machine's Glue tasks: job definition, successor and the stage  *)
(* its Catch records. One quality job definition serves both gates.         *)

Tasks == {"RunBronzeJob", "RunBronzeQualityGate", "RunSilverJob",
          "RunSilverQualityGate", "RunGoldJob", "RunModelJob"}

JobName == [t \in Tasks |->
    CASE t = "RunBronzeJob" -> "bronze"
      [] t = "RunSilverJob" -> "silver"
      [] t = "RunGoldJob"   -> "gold"
      [] t = "RunModelJob"  -> "ml"
      [] OTHER              -> "quality"]

\* As below, with a dangling Next.
NextStateDangling == [t \in Tasks |->
    CASE t = "RunBronzeJob"         -> "RunBronzeQualityGate"
      [] t = "RunBronzeQualityGate" -> "ReadBronzeVerdict"
      [] t = "RunSilverJob"         -> "RunSilverQualityGate"
      [] t = "RunSilverQualityGate" -> "ReadSilverVerdict"
      [] t = "RunGoldJob"           -> "RunModelJob"
      [] t = "RunModelJob"          -> "RefreshPolicyCorpus"]

\* As below, with no silver gate.
NextStateOneGate == [NextStateDangling EXCEPT
    !["RunSilverJob"] = "RunGoldJob", !["RunModelJob"] = "RefreshKnowledgeBase"]

NextState == [t \in Tasks |->
    CASE t = "RunBronzeJob"         -> "RunBronzeQualityGate"
      [] t = "RunBronzeQualityGate" -> "ReadBronzeVerdict"
      [] t = "RunSilverJob"         -> "RunSilverQualityGate"
      [] t = "RunSilverQualityGate" -> "ReadSilverVerdict"
      [] t = "RunGoldJob"           -> "RunModelJob"
      [] t = "RunModelJob"          -> "RefreshKnowledgeBase"]

Stage == [t \in Tasks |->
    CASE t \in {"RunBronzeJob", "RunBronzeQualityGate"} -> "bronze"
      [] t \in {"RunSilverJob", "RunSilverQualityGate"} -> "silver"
      [] t = "RunGoldJob"                               -> "gold"
      [] t = "RunModelJob"                              -> "ml_ensemble"]

Layer == {"bronze", "silver"}

Verdicts == [bronze |-> "ReadBronzeVerdict", silver |-> "ReadSilverVerdict"]

\* As below, with the gold job left out of the chain.
PromotionSkipsGold == [bronze |-> "RunSilverJob", silver |-> "RunModelJob"]

Promotion == [bronze |-> "RunSilverJob", silver |-> "RunGoldJob"]

\* Uncaught: an error in a state without a Catch ends the execution.
Terminal == {"PipelineSucceeded", "PipelineFailed", "Uncaught", "TimedOut"}

Active == Tasks \cup {"ReadBronzeVerdict", "ReadSilverVerdict",
                      "RefreshKnowledgeBase", "WriteFailureReport"}

States == {"NotStarted"} \cup Active \cup Terminal

Phase == {"started", "created", "merged", "passing", "failing", "written"}

Run == [owner : Execution, task : Tasks, phase : Phase, view : SUBSET Row]

Report == [passed : BOOLEAN, rows : SUBSET Row]
NoReport == [passed |-> FALSE, rows |-> {}]  \* a missing report reads as a failure

\* Errors a throttling retrier lists, and all others.
ErrorKind == {"busy", "fault"}

NoFailure == [type |-> "none", stage |-> "none"]

Failure == [type : {"none", "glue_error", "quality_gate"},
            stage : {"none", "bronze", "silver", "gold", "ml_ensemble"}]

VARIABLES
    raw,          \* rows landed in the raw zone
    bronze,       \* rows of fraud_bronze.transactions
    quarantine,   \* copies of each rejected row in the quarantine prefix
    dimension,    \* merchants of fraud_silver.merchant_dim
    dimTable,     \* does that table exist?
    silver,       \* rows of fraud_silver.transactions
    metrics,      \* rows the daily fraud metrics were computed from
    risk,         \* rows the merchant_risk snapshot was computed from
    scores,       \* rows with a fraud score
    report,       \* the quality report stored for each layer
    runs,         \* Glue job runs in flight
    pc,           \* the state each execution is in
    scope,        \* the raw rows an execution's process_date selects
    tries,        \* retries used in the current state
    failure,      \* what the failure branch was entered with
    notices,      \* failure notifications published for each execution
    \* history, for the properties only
    own,          \* raw rows an execution's bronze runs have read and merged
    seen,         \* rows covered by the verdict it branched on, per layer
    cleared       \* rows covered by some passing verdict, per layer

tables == <<bronze, quarantine, dimension, dimTable, silver, metrics, risk, scores>>
control == <<pc, scope, tries, failure, notices>>
history == <<own, seen, cleared>>
vars == <<raw, tables, report, runs, control, history>>

NoTries == [k \in ErrorKind |-> 0]

Init ==
    /\ raw = {} /\ bronze = {} /\ dimension = {} /\ dimTable = FALSE
    /\ silver = {} /\ metrics = {} /\ risk = {} /\ scores = {}
    /\ quarantine = [r \in Row |-> 0]
    /\ report = [l \in Layer |-> NoReport]
    /\ runs = {}
    /\ pc = [e \in Execution |-> "NotStarted"]
    /\ scope = [e \in Execution |-> {}]
    /\ tries = [e \in Execution |-> NoTries]
    /\ failure = [e \in Execution |-> NoFailure]
    /\ notices = [e \in Execution |-> 0]
    /\ own = [e \in Execution |-> {}]
    /\ seen = [e \in Execution |-> [l \in Layer |-> {}]]
    /\ cleared = [l \in Layer |-> {}]

-----------------------------------------------------------------------------
(* Outside the state machine.                                               *)

\* Firehose delivers a record to the raw zone.
Land(r) ==
    /\ r \notin raw
    /\ raw' = raw \cup {r}
    /\ UNCHANGED <<tables, report, runs, control, history>>

\* A trigger starts an execution: on one dt partition (the S3 trigger), or
\* with an empty process_date, which reads the whole raw zone (the schedule).
Start(e, rows) ==
    /\ pc[e] = "NotStarted"
    /\ Overlap \/ \A o \in Execution : pc[o] \notin Active
    /\ pc' = [pc EXCEPT ![e] = "RunBronzeJob"]
    /\ scope' = [scope EXCEPT ![e] = rows]
    /\ UNCHANGED <<raw, tables, report, runs, tries, failure, notices, history>>

-----------------------------------------------------------------------------
(* A Glue task: startJobRun.sync with its retriers and its Catch.           *)

Enter(e, s) ==
    /\ pc' = [pc EXCEPT ![e] = s]
    /\ tries' = [tries EXCEPT ![e] = NoTries]

\* The gates have no States.TaskFailed retrier.
Attempts(t, kind) ==
    CASE kind = "busy"             -> ThrottleRetries
      [] JobName[t] = "quality"    -> 0
      [] OTHER                     -> TaskRetries

\* As below, with the attempts not counted.
TaskErrorUncounted(e, kind) ==
    \/ /\ tries[e][kind] < Attempts(pc[e], kind)
       /\ UNCHANGED <<tries, pc, failure>>
    \/ /\ tries[e][kind] >= Attempts(pc[e], kind)
       /\ failure' = [failure EXCEPT ![e] = [type |-> "glue_error", stage |-> Stage[pc[e]]]]
       /\ Enter(e, "WriteFailureReport")

TaskError(e, kind) ==
    \/ /\ tries[e][kind] < Attempts(pc[e], kind)
       /\ tries' = [tries EXCEPT ![e][kind] = @ + 1]
       /\ UNCHANGED <<pc, failure>>
    \/ /\ tries[e][kind] >= Attempts(pc[e], kind)
       /\ failure' = [failure EXCEPT ![e] = [type |-> "glue_error", stage |-> Stage[pc[e]]]]
       /\ Enter(e, "WriteFailureReport")

Waiting(e) == \E r \in runs : r.owner = e /\ r.task = pc[e]

\* As below, with max_concurrent_runs raised to 2.
JobFreeForTwo(job) == Cardinality({r \in runs : JobName[r.task] = job}) < 2

\* max_concurrent_runs = 1 on every job definition.
JobFree(job) == \A r \in runs : JobName[r.task] # job

\* What a run of task t reads, as of its start.
Source(e, t) ==
    CASE t = "RunBronzeJob"                              -> raw \cap scope[e]
      [] t \in {"RunBronzeQualityGate", "RunSilverJob"}  -> bronze
      [] OTHER                                           -> silver

StartJobRun(e) ==
    /\ pc[e] \in Tasks
    /\ ~Waiting(e)
    /\ JobFree(JobName[pc[e]])
    /\ runs' = runs \cup {[owner |-> e, task |-> pc[e], phase |-> "started",
                           view |-> Source(e, pc[e])]}
    /\ UNCHANGED <<raw, tables, report, control, history>>

\* ConcurrentRunsExceeded or another transient error; or one that no throttling
\* retrier of the state lists.
StartRejected(e) ==
    /\ pc[e] \in Tasks
    /\ ~Waiting(e)
    /\ \E kind \in ErrorKind : TaskError(e, kind)
    /\ UNCHANGED <<raw, tables, report, runs, scope, notices, history>>

Advance(r, phase) == runs' = (runs \ {r}) \cup {[r EXCEPT !.phase = phase]}

\* As below, committing the job after its first write.
CompleteEarly(r) == r.phase \in {"merged", "written"}

Complete(r) == r.phase = "written"

RunSucceeds(r) ==
    /\ Complete(r)
    /\ runs' = runs \ {r}
    /\ IF pc[r.owner] = r.task THEN Enter(r.owner, NextState[r.task])
                               ELSE UNCHANGED <<pc, tries>>
    /\ UNCHANGED <<raw, tables, report, scope, failure, notices, history>>

\* A run may die before, between or after its commits.
RunFails(r) ==
    /\ runs' = runs \ {r}
    /\ IF pc[r.owner] = r.task THEN TaskError(r.owner, "fault")
                               ELSE UNCHANGED <<pc, tries, failure>>
    /\ UNCHANGED <<raw, tables, report, scope, notices, history>>

-----------------------------------------------------------------------------
(* The jobs, one step per commit.                                           *)

At(r, task, phase) == r.task = task /\ r.phase = phase

\* bronze_job: MERGE of the valid rows, then an append to the quarantine.
MergeBronze(r) ==
    /\ At(r, "RunBronzeJob", "started")
    /\ bronze' = bronze \cup (r.view \ Malformed)
    /\ own' = [own EXCEPT ![r.owner] = @ \cup r.view]
    /\ Advance(r, "merged")
    /\ UNCHANGED <<raw, quarantine, dimension, dimTable, silver, metrics, risk, scores,
                   report, control, seen, cleared>>

AppendQuarantine(r) ==
    /\ At(r, "RunBronzeJob", "merged")
    /\ quarantine' = [x \in Row |-> IF x \in r.view \cap Malformed
                                    THEN quarantine[x] + 1 ELSE quarantine[x]]
    /\ Advance(r, "written")
    /\ UNCHANGED <<raw, bronze, dimension, dimTable, silver, metrics, risk, scores,
                   report, control, history>>

\* silver_job: create the merchant dimension, MERGE into it, MERGE into silver.
CreateDimension(r) ==
    /\ At(r, "RunSilverJob", "started")
    /\ dimTable' = (dimTable \/ r.view # {})
    /\ Advance(r, IF r.view = {} THEN "written" ELSE "created")
    /\ UNCHANGED <<raw, bronze, quarantine, dimension, silver, metrics, risk, scores,
                   report, control, history>>

MergeDimension(r) ==
    /\ At(r, "RunSilverJob", "created")
    /\ dimension' = dimension \cup {MerchantOf[x] : x \in r.view}
    /\ Advance(r, "merged")
    /\ UNCHANGED <<raw, bronze, quarantine, dimTable, silver, metrics, risk, scores,
                   report, control, history>>

MergeSilver(r) ==
    /\ At(r, "RunSilverJob", "merged")
    /\ silver' = silver \cup r.view
    /\ Advance(r, "written")
    /\ UNCHANGED <<raw, bronze, quarantine, dimension, dimTable, metrics, risk, scores,
                   report, control, history>>

\* As below, with the overwrite computed from the execution's own partition.
OverwriteMetricsOwn(r) ==
    /\ At(r, "RunGoldJob", "started")
    /\ metrics' = IF r.view = {} THEN metrics ELSE r.view \cap scope[r.owner]
    /\ Advance(r, IF r.view = {} THEN "written" ELSE "merged")
    /\ UNCHANGED <<raw, bronze, quarantine, dimension, dimTable, silver, risk, scores,
                   report, control, history>>

\* gold_job: the two aggregates are recomputed and overwritten one after the other.
OverwriteMetrics(r) ==
    /\ At(r, "RunGoldJob", "started")
    /\ metrics' = IF r.view = {} THEN metrics ELSE r.view
    /\ Advance(r, IF r.view = {} THEN "written" ELSE "merged")
    /\ UNCHANGED <<raw, bronze, quarantine, dimension, dimTable, silver, risk, scores,
                   report, control, history>>

OverwriteRisk(r) ==
    /\ At(r, "RunGoldJob", "merged")
    /\ risk' = r.view
    /\ Advance(r, "written")
    /\ UNCHANGED <<raw, bronze, quarantine, dimension, dimTable, silver, metrics, scores,
                   report, control, history>>

\* ml_job, as far as the pipeline sees it: scores MERGEd by transaction.
\* Training raises on an empty silver table.
MergeScores(r) ==
    /\ At(r, "RunModelJob", "started")
    /\ r.view # {}
    /\ scores' = scores \cup r.view
    /\ Advance(r, "written")
    /\ UNCHANGED <<raw, bronze, quarantine, dimension, dimTable, silver, metrics, risk,
                   report, control, history>>

\* As below, without the row-level rules.
BronzeRulesHoldLax(rows, fresh) ==
    /\ rows # {}
    /\ fresh
    /\ dimTable => {MerchantOf[x] : x \in rows} \subseteq dimension

\* quality_job: every rule of the layer's ruleset must hold. The referential rule
\* is dropped while the merchant dimension does not exist.
BronzeRulesHold(rows, fresh) ==
    /\ rows # {}
    /\ fresh
    /\ rows \cap Unfit = {}
    /\ dimTable => {MerchantOf[x] : x \in rows} \subseteq dimension

\* Completeness "amount_zscore_30d" > 0.30, RowCount > 0.
SilverRulesHold(rows) ==
    /\ rows # {}
    /\ 10 * Cardinality(rows \ Unscored) > 3 * Cardinality(rows)

GateLayer(r) == IF r.task = "RunBronzeQualityGate" THEN "bronze" ELSE "silver"

\* A gate on a table that does not exist yet fails as a run (RunFails); on an empty
\* table its row count rule fails.
EvaluateRules(r) ==
    /\ JobName[r.task] = "quality" /\ r.phase = "started"
    /\ \E fresh \in Freshness :
         LET passed == IF GateLayer(r) = "bronze" THEN BronzeRulesHold(r.view, fresh)
                                                  ELSE SilverRulesHold(r.view)
         IN  Advance(r, IF passed THEN "passing" ELSE "failing")
    /\ UNCHANGED <<raw, tables, report, control, history>>

\* The report overwrites the layer's previous one, whoever wrote it.
WriteReport(r) ==
    /\ JobName[r.task] = "quality" /\ r.phase \in {"passing", "failing"}
    /\ LET l == GateLayer(r)
           ok == r.phase = "passing"
       IN  /\ report' = [report EXCEPT ![l] = [passed |-> ok, rows |-> r.view]]
           /\ cleared' = IF ok THEN [cleared EXCEPT ![l] = @ \cup r.view] ELSE cleared
    /\ Advance(r, "written")
    /\ UNCHANGED <<raw, tables, control, own, seen>>

-----------------------------------------------------------------------------
(* Verdict, knowledge base, failure branch, timeout.                        *)

\* The quality_gate Lambda reads the layer's report and the Choice state routes.
ReadVerdict(e, l) ==
    /\ pc[e] = Verdicts[l]
    /\ seen' = [seen EXCEPT ![e][l] = report[l].rows]
    /\ \/ /\ report[l].passed
          /\ Enter(e, Promotion[l])
          /\ UNCHANGED failure
       \/ /\ ~report[l].passed
          /\ Enter(e, "WriteFailureReport")
          /\ failure' = [failure EXCEPT ![e] = [type |-> "quality_gate", stage |-> l]]
    /\ UNCHANGED <<raw, tables, report, runs, scope, notices, own, cleared>>

\* The Lambda keeps failing: its state has retries but no Catch.
VerdictUnavailable(e, l) ==
    /\ pc[e] = Verdicts[l]
    /\ Enter(e, "Uncaught")
    /\ UNCHANGED <<raw, tables, report, runs, scope, failure, notices, history>>

\* Every outcome of the refresh leads to success.
RefreshKnowledgeBase(e) ==
    /\ pc[e] = "RefreshKnowledgeBase"
    /\ Enter(e, "PipelineSucceeded")
    /\ UNCHANGED <<raw, tables, report, runs, scope, failure, notices, history>>

\* failure_report puts the report and publishes to SNS; a failed invocation may
\* have done both already, and is retried or caught.
WriteFailureReport(e) ==
    /\ pc[e] = "WriteFailureReport"
    /\ notices' = [notices EXCEPT ![e] = @ + 1]
    /\ Enter(e, "PipelineFailed")
    /\ UNCHANGED <<raw, tables, report, runs, scope, failure, history>>

FailureReportError(e) ==
    /\ pc[e] = "WriteFailureReport"
    /\ \E published \in {0, 1} : notices' = [notices EXCEPT ![e] = @ + published]
    /\ \/ /\ tries[e]["busy"] < LambdaRetries
          /\ tries' = [tries EXCEPT ![e]["busy"] = @ + 1]
          /\ UNCHANGED pc
       \/ Enter(e, "PipelineFailed")
    /\ UNCHANGED <<raw, tables, report, runs, scope, failure, history>>

\* TimeoutSeconds. Step Functions stops the run it waits for, best effort.
TimeOut(e) ==
    /\ pc[e] \in Active
    /\ pc' = [pc EXCEPT ![e] = "TimedOut"]
    /\ \/ runs' = {r \in runs : r.owner # e}
       \/ Orphans /\ UNCHANGED runs
    /\ UNCHANGED <<raw, tables, report, scope, tries, failure, notices, history>>

-----------------------------------------------------------------------------
ExecutionStep(e) ==
    \/ StartJobRun(e)
    \/ StartRejected(e)
    \/ \E l \in Layer : ReadVerdict(e, l) \/ VerdictUnavailable(e, l)
    \/ RefreshKnowledgeBase(e)
    \/ WriteFailureReport(e)
    \/ FailureReportError(e)

RunStep(r) ==
    \/ MergeBronze(r) \/ AppendQuarantine(r)
    \/ CreateDimension(r) \/ MergeDimension(r) \/ MergeSilver(r)
    \/ OverwriteMetrics(r) \/ OverwriteRisk(r)
    \/ MergeScores(r)
    \/ EvaluateRules(r) \/ WriteReport(r)
    \/ RunSucceeds(r)
    \/ RunFails(r)

Next ==
    \/ \E r \in Row : Land(r)
    \/ \E e \in Execution, rows \in Batches \cup {Row} : Start(e, rows)
    \/ \E e \in Execution : ExecutionStep(e) \/ TimeOut(e)
    \/ \E r \in runs : RunStep(r)

Spec == Init /\ [][Next]_vars

\* Step Functions drives every execution and Glue every run; neither lands data,
\* starts an execution, nor has to wait for the timeout.
FairSpec ==
    /\ Spec
    /\ \A e \in Execution :
         /\ WF_vars(ExecutionStep(e))
         /\ WF_vars(\E r \in runs : r.owner = e /\ RunStep(r))

-----------------------------------------------------------------------------
(* Properties.                                                              *)

\* Every variable holds what the comment beside it says.
TypeOK ==
    /\ {raw, bronze, silver, metrics, risk, scores} \subseteq SUBSET Row
    /\ quarantine \in [Row -> Nat]
    /\ dimension \subseteq Merchant /\ dimTable \in BOOLEAN
    /\ report \in [Layer -> Report]
    /\ runs \subseteq Run
    /\ pc \in [Execution -> States]
    /\ scope \in [Execution -> SUBSET Row]
    /\ tries \in [Execution -> [ErrorKind -> Nat]]
    /\ failure \in [Execution -> Failure]
    /\ notices \in [Execution -> Nat]
    /\ own \in [Execution -> SUBSET Row]
    /\ seen \in [Execution -> [Layer -> SUBSET Row]]
    /\ cleared \in [Layer -> SUBSET Row]

PastSilverGate == {"RunGoldJob", "RunModelJob", "RefreshKnowledgeBase", "PipelineSucceeded"}

PastBronzeGate == {"RunSilverJob", "RunSilverQualityGate", "ReadSilverVerdict"}
                     \cup PastSilverGate

PastBronzeJob == {"RunBronzeQualityGate", "ReadBronzeVerdict"} \cup PastBronzeGate

Admitted(e) == own[e] \ Malformed

\* Both gates of all executions share one report key per layer. Still, the verdict an
\* execution was promoted on was computed over every row that execution ingested,
\* even when another execution's gate, or an abandoned one, wrote the report.
VerdictCoversOwnRows ==
    \A e \in Execution :
        /\ pc[e] \in PastBronzeGate => Admitted(e) \subseteq seen[e]["bronze"]
        /\ pc[e] \in PastSilverGate => Admitted(e) \subseteq seen[e]["silver"]

\* A bronze job that died between its two commits is made good by its retry: once
\* the execution moves on, every row it read is in bronze or in quarantine.
EveryRowAccounted ==
    \A e \in Execution : pc[e] \in PastBronzeJob =>
        \A x \in own[e] : IF x \in Malformed THEN quarantine[x] > 0 ELSE x \in bronze

\* "Bronze, silver, and gold all wrote": a succeeded execution's rows are in every
\* table downstream, whatever other executions wrote meanwhile.
SucceededIsServed ==
    \A e \in Execution : pc[e] = "PipelineSucceeded" =>
        Admitted(e) \subseteq bronze \cap silver \cap metrics \cap risk \cap scores

\* Gold is overwritten from a silver snapshot taken when the run began; no run
\* replaces an aggregate by one computed from fewer rows.
NoServedRowLost == [][metrics \subseteq metrics' /\ risk \subseteq risk']_vars

\* "Stale, never wrong": no row that a bronze rule fails is ever in silver or gold.
NeverWrong == (silver \cup metrics \cup risk \cup scores) \cap Unfit = {}

\* When executions do not overlap and no run outlives its execution, the pipeline
\* implements the gated lake.
Lake == INSTANCE GatedLake WITH
            gold <- [a \in {"metrics", "risk"} |-> IF a = "metrics" THEN metrics ELSE risk],
            certified <- cleared

GatedLakeImplemented == Lake!Spec

\* No execution runs forever, however its tasks fail and are retried, and however
\* executions contend for the jobs; the global timeout is not needed for it.
EveryExecutionEnds ==
    \A e \in Execution : pc[e] \in Active ~> pc[e] \in Terminal

\* What the failure report tells its reader about a failed gate: silver and gold hold
\* only rows that passed their own gate.
GateLeavesSilverGood ==
    \A e \in Execution :
        notices[e] > 0 /\ failure[e].type = "quality_gate" => silver \subseteq cleared["silver"]
=============================================================================
