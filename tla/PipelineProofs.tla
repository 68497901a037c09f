---------------------------- MODULE PipelineProofs ----------------------------
(* Proofs about Pipeline, for any executions, rows, merchants and retries.  *)
EXTENDS Pipeline, TLAPS

-----------------------------------------------------------------------------
(* Type correctness.                                                        *)

\* The tables of constants map every task into the states and stages they name.
LEMMA ChainTypes ==
    /\ NextState \in [Tasks -> Active]
    /\ Stage \in [Tasks -> {"bronze", "silver", "gold", "ml_ensemble"}]
    /\ Promotion \in [Layer -> Active]
    /\ Tasks \subseteq States
    /\ Active \subseteq States
    /\ Terminal \subseteq States
BY DEF NextState, Stage, Promotion, Tasks, Layer, Active, States, Terminal

\* Moving a run to its next phase keeps the set of runs well typed.
LEMMA AdvanceType ==
    ASSUME runs \subseteq Run, NEW r \in runs, NEW phase \in Phase, Advance(r, phase)
    PROVE  runs' \subseteq Run
BY DEF Advance, Run

\* A state entered with fresh retry counters is well typed.
LEMMA EnterType ==
    ASSUME TypeOK, NEW e \in Execution, NEW s \in States, Enter(e, s)
    PROVE  /\ pc' \in [Execution -> States]
           /\ tries' \in [Execution -> [ErrorKind -> Nat]]
BY DEF TypeOK, Enter, NoTries

\* A task error leaves retry counters, state and failure record well typed.
LEMMA TaskErrorType ==
    ASSUME TypeOK, NEW e \in Execution, NEW kind \in ErrorKind, TaskError(e, kind),
           pc[e] \in Tasks
    PROVE  /\ pc' \in [Execution -> States]
           /\ tries' \in [Execution -> [ErrorKind -> Nat]]
           /\ failure' \in [Execution -> Failure]
<1>1. CASE UNCHANGED <<pc, failure>> /\ tries' = [tries EXCEPT ![e][kind] = @ + 1]
  BY <1>1 DEF TypeOK
<1>2. CASE /\ failure' = [failure EXCEPT ![e] = [type |-> "glue_error", stage |-> Stage[pc[e]]]]
           /\ Enter(e, "WriteFailureReport")
  <2>1. "WriteFailureReport" \in States
    BY DEF States, Active
  <2>2. [type |-> "glue_error", stage |-> Stage[pc[e]]] \in Failure
    BY ChainTypes DEF Failure
  <2> QED
    BY <1>2, <2>1, <2>2, EnterType DEF TypeOK
<1> QED
  BY <1>1, <1>2 DEF TaskError

\* The initial state is well typed.
LEMMA TypeInit == Init => TypeOK
<1> SUFFICES ASSUME Init PROVE TypeOK
  OBVIOUS
<1>1. NoReport \in Report /\ NoFailure \in Failure /\ NoTries \in [ErrorKind -> Nat]
  BY DEF NoReport, Report, NoFailure, Failure, NoTries
<1>2. "NotStarted" \in States
  BY DEF States
<1>3. dimTable \in BOOLEAN
  BY DEF Init
<1> QED
  BY <1>1, <1>2, <1>3 DEF Init, TypeOK

\* Every step of an execution keeps the types.
LEMMA TypeExecution ==
    ASSUME TypeOK, NEW e \in Execution, ExecutionStep(e) \/ TimeOut(e)
    PROVE  TypeOK'
<1>1. CASE StartJobRun(e)
  <2>1. Source(e, pc[e]) \subseteq Row
    BY DEF TypeOK, Source
  <2> QED
    BY <1>1, <2>1 DEF StartJobRun, TypeOK, Run, Phase, control, tables, history
<1>2. CASE StartRejected(e)
  BY <1>2, TaskErrorType DEF StartRejected, TypeOK, control, tables, history
<1>3. CASE \E l \in Layer : ReadVerdict(e, l)
  <2>1. PICK l \in Layer : ReadVerdict(e, l)
    BY <1>3
  <2>2. seen' \in [Execution -> [Layer -> SUBSET Row]]
    BY <2>1 DEF ReadVerdict, TypeOK, Report
  <2>3. pc' \in [Execution -> States] /\ tries' \in [Execution -> [ErrorKind -> Nat]]
    <3>1. Promotion[l] \in States /\ "WriteFailureReport" \in States
      BY ChainTypes DEF States, Active
    <3> QED
      BY <2>1, <3>1, EnterType DEF ReadVerdict
  <2>4. failure' \in [Execution -> Failure]
    BY <2>1 DEF ReadVerdict, TypeOK, Failure, Layer
  <2> QED
    BY <2>1, <2>2, <2>3, <2>4 DEF ReadVerdict, TypeOK, tables
<1>4. CASE \E l \in Layer : VerdictUnavailable(e, l)
  <2>1. "Uncaught" \in States
    BY DEF States, Terminal
  <2> QED
    BY <1>4, <2>1, EnterType DEF VerdictUnavailable, TypeOK, tables, history
<1>5. CASE RefreshKnowledgeBase(e)
  <2>1. "PipelineSucceeded" \in States
    BY DEF States, Terminal
  <2> QED
    BY <1>5, <2>1, EnterType DEF RefreshKnowledgeBase, TypeOK, tables, history
<1>6. CASE WriteFailureReport(e)
  <2>1. "PipelineFailed" \in States
    BY DEF States, Terminal
  <2> QED
    BY <1>6, <2>1, EnterType DEF WriteFailureReport, TypeOK, tables, history
<1>7. CASE FailureReportError(e)
  <2>1. notices' \in [Execution -> Nat]
    BY <1>7 DEF FailureReportError, TypeOK
  <2>2. pc' \in [Execution -> States] /\ tries' \in [Execution -> [ErrorKind -> Nat]]
    <3>1. CASE UNCHANGED pc /\ tries' = [tries EXCEPT ![e]["busy"] = @ + 1]
      BY <3>1 DEF TypeOK, ErrorKind
    <3>2. CASE Enter(e, "PipelineFailed")
      BY <3>2, EnterType DEF States, Terminal
    <3> QED
      BY <1>7, <3>1, <3>2 DEF FailureReportError
  <2> QED
    BY <1>7, <2>1, <2>2 DEF FailureReportError, TypeOK, tables, history
<1>8. CASE TimeOut(e)
  <2>1. pc' \in [Execution -> States]
    BY <1>8 DEF TimeOut, TypeOK, States, Terminal
  <2>2. runs' \subseteq Run
    BY <1>8 DEF TimeOut, TypeOK
  <2> QED
    BY <1>8, <2>1, <2>2 DEF TimeOut, TypeOK, tables, history
<1> QED
  BY <1>1, <1>2, <1>3, <1>4, <1>5, <1>6, <1>7, <1>8 DEF ExecutionStep

\* Every step of a Glue run keeps the types.
LEMMA TypeRun ==
    ASSUME TypeOK, NEW r \in runs, RunStep(r)
    PROVE  TypeOK'
<1> USE PipelineAssumption
<1>0. r \in Run /\ r.owner \in Execution /\ r.task \in Tasks /\ r.view \subseteq Row
  BY DEF TypeOK, Run
<1>1. CASE RunSucceeds(r)
  <2>1. pc' \in [Execution -> States] /\ tries' \in [Execution -> [ErrorKind -> Nat]]
    <3>1. NextState[r.task] \in States
      BY <1>0, ChainTypes
    <3>2. CASE pc[r.owner] = r.task
      BY <1>0, <1>1, <3>1, <3>2, EnterType DEF RunSucceeds
    <3>3. CASE pc[r.owner] # r.task
      BY <1>1, <3>3 DEF RunSucceeds, TypeOK
    <3> QED
      BY <3>2, <3>3
  <2> QED
    BY <1>1, <2>1 DEF RunSucceeds, TypeOK, tables, history
<1>2. CASE RunFails(r)
  <2>1. /\ pc' \in [Execution -> States]
        /\ tries' \in [Execution -> [ErrorKind -> Nat]]
        /\ failure' \in [Execution -> Failure]
    <3>2. CASE pc[r.owner] = r.task
      BY <1>0, <1>2, <3>2, TaskErrorType DEF RunFails, ErrorKind
    <3>3. CASE pc[r.owner] # r.task
      BY <1>2, <3>3 DEF RunFails, TypeOK
    <3> QED
      BY <3>2, <3>3
  <2> QED
    BY <1>2, <2>1 DEF RunFails, TypeOK, tables, history
<1>3. CASE MergeBronze(r)
  <2>1. runs' \subseteq Run
    BY <1>3, AdvanceType DEF MergeBronze, TypeOK, Phase
  <2> QED
    BY <1>0, <1>3, <2>1 DEF MergeBronze, TypeOK, control
<1>4. CASE AppendQuarantine(r)
  <2>1. runs' \subseteq Run
    BY <1>4, AdvanceType DEF AppendQuarantine, TypeOK, Phase
  <2>2. quarantine' \in [Row -> Nat]
    BY <1>4 DEF AppendQuarantine, TypeOK
  <2> QED
    BY <1>4, <2>1, <2>2 DEF AppendQuarantine, TypeOK, control, history
<1>5. CASE CreateDimension(r)
  <2>1. runs' \subseteq Run
    BY <1>5, AdvanceType DEF CreateDimension, TypeOK, Phase
  <2> QED
    BY <1>5, <2>1 DEF CreateDimension, TypeOK, control, history
<1>6. CASE MergeDimension(r)
  <2>1. runs' \subseteq Run
    BY <1>6, AdvanceType DEF MergeDimension, TypeOK, Phase
  <2>2. dimension' \subseteq Merchant
    BY <1>0, <1>6 DEF MergeDimension, TypeOK, PipelineAssumption
  <2> QED
    BY <1>6, <2>1, <2>2 DEF MergeDimension, TypeOK, control, history
<1>7. CASE MergeSilver(r)
  <2>1. runs' \subseteq Run
    BY <1>7, AdvanceType DEF MergeSilver, TypeOK, Phase
  <2> QED
    BY <1>0, <1>7, <2>1 DEF MergeSilver, TypeOK, control, history
<1>8. CASE OverwriteMetrics(r)
  <2>1. runs' \subseteq Run
    BY <1>8, AdvanceType DEF OverwriteMetrics, TypeOK, Phase
  <2> QED
    BY <1>0, <1>8, <2>1 DEF OverwriteMetrics, TypeOK, control, history
<1>9. CASE OverwriteRisk(r)
  <2>1. runs' \subseteq Run
    BY <1>9, AdvanceType DEF OverwriteRisk, TypeOK, Phase
  <2> QED
    BY <1>0, <1>9, <2>1 DEF OverwriteRisk, TypeOK, control, history
<1>10. CASE MergeScores(r)
  <2>1. runs' \subseteq Run
    BY <1>10, AdvanceType DEF MergeScores, TypeOK, Phase
  <2> QED
    BY <1>0, <1>10, <2>1 DEF MergeScores, TypeOK, control, history
<1>11. CASE EvaluateRules(r)
  <2>1. runs' \subseteq Run
    <3>1. \E phase \in Phase : Advance(r, phase)
      BY <1>11 DEF EvaluateRules, Phase
    <3> QED
      BY <3>1, AdvanceType DEF TypeOK
  <2> QED
    BY <1>11, <2>1 DEF EvaluateRules, TypeOK, tables, control, history
<1>12. CASE WriteReport(r)
  <2>1. runs' \subseteq Run
    BY <1>12, AdvanceType DEF WriteReport, TypeOK, Phase
  <2>2. GateLayer(r) \in Layer
    BY DEF GateLayer, Layer
  <2>3. report' \in [Layer -> Report]
    BY <1>0, <1>12, <2>2 DEF WriteReport, TypeOK, Report
  <2>4. cleared' \in [Layer -> SUBSET Row]
    BY <1>0, <1>12, <2>2 DEF WriteReport, TypeOK
  <2> QED
    BY <1>12, <2>1, <2>3, <2>4 DEF WriteReport, TypeOK, tables, control
<1> QED
  BY <1>1, <1>2, <1>3, <1>4, <1>5, <1>6, <1>7, <1>8, <1>9, <1>10, <1>11, <1>12
     DEF RunStep

\* Every variable keeps its type in every reachable state.
THEOREM TypeCorrect == Spec => []TypeOK
<1>1. TypeOK /\ [Next]_vars => TypeOK'
  <2> SUFFICES ASSUME TypeOK, [Next]_vars PROVE TypeOK'
    OBVIOUS
  <2>1. CASE \E r \in Row : Land(r)
    BY <2>1 DEF Land, TypeOK, tables, control, history
  <2>2. CASE \E e \in Execution, rows \in Batches \cup {Row} : Start(e, rows)
    <3>1. PICK e \in Execution, rows \in Batches \cup {Row} : Start(e, rows)
      BY <2>2
    <3>2. rows \subseteq Row
      BY PipelineAssumption DEF PipelineAssumption
    <3>3. "RunBronzeJob" \in States
      BY DEF States, Active, Tasks
    <3> QED
      BY <3>1, <3>2, <3>3 DEF Start, TypeOK, tables, history
  <2>3. CASE \E e \in Execution : ExecutionStep(e) \/ TimeOut(e)
    BY <2>3, TypeExecution
  <2>4. CASE \E r \in runs : RunStep(r)
    BY <2>4, TypeRun
  <2>5. CASE UNCHANGED vars
    BY <2>5 DEF vars, tables, control, history, TypeOK
  <2> QED
    BY <2>1, <2>2, <2>3, <2>4, <2>5 DEF Next
<1> QED
  BY <1>1, TypeInit, PTL DEF Spec

-----------------------------------------------------------------------------
(* The inductive invariant. The verdict an execution reads, and the tables  *)
(* it leaves behind, are right because a run's snapshot covers the rows its  *)
(* owner ingested, and because runs of one job never overlap: no run that    *)
(* read an older snapshot is left to write after a newer one.                *)

\* At most one run of each job is in flight.
JobsExclusive ==
    \A r, s \in runs : JobName[r.task] = JobName[s.task] => r = s

\* A run's owner waits for it, or has timed out.
OwnersWait == \A r \in runs : pc[r.owner] \in {r.task, "TimedOut"}

PastSilverJob == {"RunSilverQualityGate", "ReadSilverVerdict"} \cup PastSilverGate
PastGoldJob == {"RunModelJob", "RefreshKnowledgeBase", "PipelineSucceeded"}
PastModelJob == {"RefreshKnowledgeBase", "PipelineSucceeded"}

Quarantined(e) == \A x \in own[e] \cap Malformed : quarantine[x] > 0

\* What a finished run of task t has done for its owner.
Delivered(e, t) ==
    /\ t = "RunBronzeJob" => Quarantined(e)
    /\ t = "RunBronzeQualityGate" => Admitted(e) \subseteq report["bronze"].rows
    /\ t = "RunSilverJob" => Admitted(e) \subseteq silver
    /\ t = "RunSilverQualityGate" => Admitted(e) \subseteq report["silver"].rows
    /\ t = "RunGoldJob" => Admitted(e) \subseteq metrics \cap risk
    /\ t = "RunModelJob" => Admitted(e) \subseteq scores

\* What the snapshot of a run covers, and what its phase says was written.
RunInv(r) ==
    /\ r.task = "RunBronzeJob" => r.view \subseteq raw \cap scope[r.owner]
    /\ r.task = "RunGoldJob" => metrics \cup risk \subseteq r.view /\ r.view \subseteq silver
    /\ pc[r.owner] = r.task =>
         /\ r.task = "RunBronzeJob" => own[r.owner] \subseteq r.view
         /\ Admitted(r.owner) \subseteq r.view
         /\ r.task = "RunGoldJob" /\ r.phase = "merged" => Admitted(r.owner) \subseteq metrics
         /\ r.phase = "written" => Delivered(r.owner, r.task)

\* What an execution has achieved by the time it is in a state.
ExecInv(e) ==
    /\ own[e] \subseteq raw \cap scope[e]
    /\ Admitted(e) \subseteq bronze
    /\ pc[e] = "NotStarted" => own[e] = {}
    /\ pc[e] \in PastBronzeJob => Quarantined(e)
    /\ pc[e] = "ReadBronzeVerdict" =>
         /\ Admitted(e) \subseteq report["bronze"].rows
         /\ \A r \in runs : r.task = "RunBronzeQualityGate" => Admitted(e) \subseteq r.view
    /\ pc[e] \in PastBronzeGate => Admitted(e) \subseteq seen[e]["bronze"]
    /\ pc[e] \in PastSilverJob => Admitted(e) \subseteq silver
    /\ pc[e] = "ReadSilverVerdict" =>
         /\ Admitted(e) \subseteq report["silver"].rows
         /\ \A r \in runs : r.task = "RunSilverQualityGate" => Admitted(e) \subseteq r.view
    /\ pc[e] \in PastSilverGate => Admitted(e) \subseteq seen[e]["silver"]
    /\ pc[e] \in PastGoldJob => Admitted(e) \subseteq metrics \cap risk
    /\ pc[e] \in PastModelJob => Admitted(e) \subseteq scores

IInv ==
    /\ TypeOK
    /\ JobsExclusive
    /\ OwnersWait
    /\ metrics \cup risk \subseteq silver
    /\ \A r \in runs : RunInv(r)
    /\ \A e \in Execution : ExecInv(e)

-----------------------------------------------------------------------------
(* What the steps of the inductive proof share.                             *)

\* The job, successor and promotion of each state, spelled out.
LEMMA ChainValues ==
    /\ \A t \in Tasks : t # "RunBronzeJob" => JobName[t] # "bronze"
    /\ \A t \in Tasks : t # "RunSilverJob" => JobName[t] # "silver"
    /\ \A t \in Tasks : t # "RunGoldJob" => JobName[t] # "gold"
    /\ \A t \in Tasks : t # "RunModelJob" => JobName[t] # "ml"
    /\ \A t \in Tasks : JobName[t] = "quality"
                            <=> t \in {"RunBronzeQualityGate", "RunSilverQualityGate"}
    /\ JobName["RunBronzeJob"] = "bronze" /\ JobName["RunSilverJob"] = "silver"
    /\ JobName["RunGoldJob"] = "gold" /\ JobName["RunModelJob"] = "ml"
    /\ NextState["RunBronzeJob"] = "RunBronzeQualityGate"
    /\ NextState["RunBronzeQualityGate"] = "ReadBronzeVerdict"
    /\ NextState["RunSilverJob"] = "RunSilverQualityGate"
    /\ NextState["RunSilverQualityGate"] = "ReadSilverVerdict"
    /\ NextState["RunGoldJob"] = "RunModelJob"
    /\ NextState["RunModelJob"] = "RefreshKnowledgeBase"
    /\ Promotion["bronze"] = "RunSilverJob" /\ Promotion["silver"] = "RunGoldJob"
    /\ Verdicts["bronze"] = "ReadBronzeVerdict" /\ Verdicts["silver"] = "ReadSilverVerdict"
BY DEF JobName, NextState, Promotion, Verdicts, Tasks

\* Two runs of the same task are the same run.
LEMMA OneRunPerTask ==
    ASSUME JobsExclusive, NEW r \in runs, NEW s \in runs, r.task = s.task
    PROVE  r = s
BY DEF JobsExclusive

\* After a run advanced, each run is one of the old ones, or that run in its new phase.
LEMMA Advanced ==
    ASSUME runs \subseteq Run, NEW r \in runs, NEW phase, Advance(r, phase)
    PROVE  \A s \in runs' : \E o \in runs :
               /\ s.owner = o.owner /\ s.task = o.task /\ s.view = o.view
               /\ \/ s = o /\ o # r
                  \/ o = r /\ s.phase = phase
<1> SUFFICES ASSUME NEW s \in runs'
             PROVE  \E o \in runs :
                        /\ s.owner = o.owner /\ s.task = o.task /\ s.view = o.view
                        /\ \/ s = o /\ o # r
                           \/ o = r /\ s.phase = phase
  OBVIOUS
<1>1. CASE s \in runs \ {r}
  BY <1>1
<1>2. CASE s = [r EXCEPT !.phase = phase]
  <2>1. r \in Run
    OBVIOUS
  <2>2. s.owner = r.owner /\ s.task = r.task /\ s.view = r.view /\ s.phase = phase
    BY <1>2, <2>1 DEF Run
  <2> QED
    BY <2>2
<1> QED
  BY <1>1, <1>2 DEF Advance

\* Advancing a run leaves the jobs exclusive and the owners waiting.
LEMMA AdvanceControl ==
    ASSUME IInv, NEW r \in runs, NEW phase, Advance(r, phase), UNCHANGED pc
    PROVE  JobsExclusive' /\ OwnersWait'
<1>1. runs \subseteq Run
  BY DEF IInv, TypeOK
<1>2. \A s \in runs' : \E o \in runs : s.owner = o.owner /\ s.task = o.task
  BY <1>1, Advanced
<1>3. OwnersWait'
  BY <1>2 DEF IInv, OwnersWait
<1>4. ASSUME NEW s \in runs', NEW u \in runs', JobName[s.task] = JobName[u.task]
      PROVE  s = u
  <2>1. /\ s \in runs \ {r} \/ s = [r EXCEPT !.phase = phase]
        /\ u \in runs \ {r} \/ u = [r EXCEPT !.phase = phase]
    BY DEF Advance
  <2>2. [r EXCEPT !.phase = phase].task = r.task
    BY <1>1 DEF Run
  <2> QED
    BY <1>4, <2>1, <2>2 DEF IInv, JobsExclusive
<1> QED
  BY <1>3, <1>4 DEF JobsExclusive

\* An execution that changes state, with no run of its own left in flight unless it
\* timed out, disturbs nothing that is known of the runs and of other executions.
LEMMA Move ==
    ASSUME IInv, TypeOK', NEW e \in Execution, NEW s,
           pc' = [pc EXCEPT ![e] = s],
           runs' \subseteq runs,
           \A r \in runs' : r.owner = e => s = "TimedOut",
           UNCHANGED <<raw, tables, report, scope, own>>,
           \A o \in Execution \ {e} : seen'[o] = seen[o],
           ExecInv(e)'
    PROVE  IInv'
<1>0. TypeOK /\ JobsExclusive /\ OwnersWait
  BY DEF IInv
<1>1. pc'[e] = s /\ \A o \in Execution \ {e} : pc'[o] = pc[o]
  BY <1>0 DEF TypeOK
<1>2. JobsExclusive'
  BY <1>0 DEF JobsExclusive
<1>3. \A r \in runs' : r.owner \in Execution /\ r.task \in Tasks
  BY <1>0 DEF TypeOK, Run
<1>4. OwnersWait'
  BY <1>0, <1>1, <1>3 DEF OwnersWait
<1>5. ASSUME NEW r \in runs' PROVE RunInv(r)'
  <2>1. RunInv(r)
    BY DEF IInv
  <2>2. pc'[r.owner] = r.task => pc[r.owner] = r.task
    BY <1>1, <1>3 DEF Tasks
  <2> QED
    BY <2>1, <2>2 DEF RunInv, Delivered, Quarantined, Admitted, tables
<1>6. ASSUME NEW o \in Execution PROVE ExecInv(o)'
  <2>1. CASE o = e
    BY <2>1
  <2>2. CASE o # e
    <3>1. ExecInv(o) /\ pc'[o] = pc[o] /\ seen'[o] = seen[o]
      BY <1>1, <2>2 DEF IInv
    <3> QED
      BY <3>1 DEF ExecInv, Quarantined, Admitted, tables
  <2> QED
    BY <2>1, <2>2
<1>7. (metrics \cup risk \subseteq silver)'
  BY DEF IInv, tables
<1> QED
  BY <1>2, <1>4, <1>5, <1>6, <1>7 DEF IInv

\* A run that ends while its owner stays where it is disturbs nothing either.
LEMMA Stay ==
    ASSUME IInv, TypeOK', runs' \subseteq runs,
           UNCHANGED <<raw, tables, report, pc, scope, own, seen>>
    PROVE  IInv'
<1>1. JobsExclusive' /\ OwnersWait'
  BY DEF IInv, JobsExclusive, OwnersWait
<1>2. ASSUME NEW r \in runs' PROVE RunInv(r)'
  BY DEF IInv, RunInv, Delivered, Quarantined, Admitted, tables
<1>3. ASSUME NEW e \in Execution PROVE ExecInv(e)'
  <2>1. ExecInv(e)
    BY DEF IInv
  <2> QED
    BY <2>1 DEF ExecInv, Quarantined, Admitted, tables
<1>4. (metrics \cup risk \subseteq silver)'
  BY DEF IInv, tables
<1> QED
  BY <1>1, <1>2, <1>3, <1>4 DEF IInv

-----------------------------------------------------------------------------
(* The steps of an execution.                                               *)

\* A task error stays in the state or moves to the failure branch.
LEMMA TaskErrorKeeps ==
    ASSUME IInv, TypeOK', NEW e \in Execution, NEW kind \in ErrorKind, TaskError(e, kind),
           pc[e] \in Tasks, runs' \subseteq runs, \A r \in runs' : r.owner # e,
           UNCHANGED <<raw, tables, report, scope, history>>
    PROVE  IInv'
<1>1. CASE UNCHANGED pc
  BY <1>1, Stay DEF history
<1>2. CASE Enter(e, "WriteFailureReport")
  <2>1. pc' = [pc EXCEPT ![e] = "WriteFailureReport"] /\ pc'[e] = "WriteFailureReport"
    BY <1>2 DEF Enter, IInv, TypeOK
  <2>2. ExecInv(e)'
    <3>1. ExecInv(e) /\ pc[e] # "NotStarted"
      BY DEF IInv, Tasks
    <3> QED
      BY <2>1, <3>1 DEF ExecInv, Admitted, tables, history, PastBronzeJob, PastBronzeGate,
                        PastSilverJob, PastSilverGate, PastGoldJob, PastModelJob
  <2> QED
    BY <2>1, <2>2, Move DEF history
<1> QED
  BY <1>1, <1>2 DEF TaskError

\* Entering a final state or the failure branch needs nothing of the tables, except
\* PipelineSucceeded, which RefreshKnowledgeBase has already earned.
LEMMA ExitKeeps ==
    ASSUME IInv, TypeOK', NEW e \in Execution, NEW s,
           \/ s \in {"WriteFailureReport", "PipelineFailed", "Uncaught", "TimedOut"}
           \/ s = "PipelineSucceeded" /\ pc[e] = "RefreshKnowledgeBase",
           pc' = [pc EXCEPT ![e] = s],
           runs' \subseteq runs, \A r \in runs' : r.owner = e => s = "TimedOut",
           \A o \in Execution \ {e} : seen'[o] = seen[o],
           s = "PipelineSucceeded" => UNCHANGED seen,
           UNCHANGED <<raw, tables, report, scope, own>>
    PROVE  IInv'
<1>1. ExecInv(e)'
  <2>1. ExecInv(e) /\ pc'[e] = s
    BY DEF IInv, TypeOK
  <2>2. CASE s \in {"WriteFailureReport", "PipelineFailed", "Uncaught", "TimedOut"}
    BY <2>1, <2>2 DEF ExecInv, Admitted, tables, PastBronzeJob, PastBronzeGate,
                      PastSilverJob, PastSilverGate, PastGoldJob, PastModelJob
  <2>3. CASE s = "PipelineSucceeded" /\ pc[e] = "RefreshKnowledgeBase"
    BY <2>1, <2>3 DEF ExecInv, Admitted, Quarantined, tables, PastBronzeJob,
                      PastBronzeGate, PastSilverJob, PastSilverGate, PastGoldJob, PastModelJob
  <2> QED
    BY <2>2, <2>3
<1> QED
  BY <1>1, Move

\* No run of an execution is in flight in a state that waits for none.
LEMMA NoRunElsewhere ==
    ASSUME IInv, NEW e \in Execution, pc[e] # "TimedOut",
           pc[e] \notin Tasks \/ ~Waiting(e)
    PROVE  \A r \in runs : r.owner # e
BY DEF IInv, OwnersWait, Waiting, TypeOK, Run

\* A new run reads a snapshot that covers what its owner ingested.
LEMMA StartJobRunKeeps ==
    ASSUME IInv, TypeOK', NEW e \in Execution, StartJobRun(e)
    PROVE  IInv'
<1> DEFINE n == [owner |-> e, task |-> pc[e], phase |-> "started",
                 view |-> Source(e, pc[e])]
<1>1. pc[e] \in Tasks /\ ~Waiting(e) /\ JobFree(JobName[pc[e]]) /\ runs' = runs \cup {n}
  BY DEF StartJobRun
<1>2. UNCHANGED <<raw, tables, report, pc, scope, own, seen>>
  BY DEF StartJobRun, control, history
<1>3. JobsExclusive'
  BY <1>1 DEF IInv, JobsExclusive, JobFree
<1>4. OwnersWait'
  BY <1>1, <1>2 DEF IInv, OwnersWait
<1>5. ExecInv(e) /\ pc[e] # "NotStarted"
  BY <1>1 DEF IInv, Tasks
<1>6. ASSUME NEW r \in runs' PROVE RunInv(r)'
  <2>1. CASE r \in runs
    <3>1. RunInv(r)
      BY <2>1 DEF IInv
    <3> QED
      BY <1>2, <3>1 DEF RunInv, Delivered, Quarantined, Admitted, tables
  <2>2. CASE r = n
    <3>1. r.owner = e /\ r.task = pc[e] /\ r.phase = "started" /\ r.view = Source(e, pc[e])
      BY <2>2
    <3>2. /\ pc[e] = "RunBronzeJob" => r.view = raw \cap scope[e]
          /\ pc[e] \in {"RunBronzeQualityGate", "RunSilverJob"} => r.view = bronze
          /\ pc[e] \in {"RunSilverQualityGate", "RunGoldJob", "RunModelJob"} => r.view = silver
      BY <3>1 DEF Source
    <3>3. metrics \cup risk \subseteq silver
      BY DEF IInv
    <3>4. Admitted(e) \subseteq r.view
      BY <1>1, <1>5, <3>2 DEF ExecInv, Tasks, Admitted, PastSilverJob, PastSilverGate
    <3> QED
      BY <1>2, <1>5, <3>1, <3>2, <3>3, <3>4 DEF RunInv, ExecInv, Admitted, tables
  <2> QED
    BY <1>1, <2>1, <2>2
<1>7. ASSUME NEW o \in Execution PROVE ExecInv(o)'
  <2>1. ExecInv(o)
    BY DEF IInv
  <2>2. n.task = "RunBronzeQualityGate" => n.view = bronze
    BY DEF Source
  <2>3. n.task = "RunSilverQualityGate" => n.view = silver
    BY DEF Source
  <2>4. pc[o] = "ReadSilverVerdict" => Admitted(o) \subseteq silver
    BY <2>1 DEF ExecInv, PastSilverJob
  <2> QED
    BY <1>1, <1>2, <2>1, <2>2, <2>3, <2>4 DEF ExecInv, Quarantined, Admitted, tables
<1>8. (metrics \cup risk \subseteq silver)'
  BY <1>2 DEF IInv, tables
<1> QED
  BY <1>3, <1>4, <1>6, <1>7, <1>8 DEF IInv

\* The verdict an execution branches on covers the rows it ingested.
LEMMA ReadVerdictKeeps ==
    ASSUME IInv, TypeOK', NEW e \in Execution, NEW l \in Layer, ReadVerdict(e, l)
    PROVE  IInv'
<1>1. pc[e] = Verdicts[l] /\ l \in {"bronze", "silver"}
  BY DEF ReadVerdict, Layer
<1>2. pc[e] \in {"ReadBronzeVerdict", "ReadSilverVerdict"}
  BY <1>1, ChainValues
<1>3. \A r \in runs' : r.owner # e
  BY <1>2, NoRunElsewhere DEF ReadVerdict, Tasks
<1>4. UNCHANGED <<raw, tables, report, runs, scope, own>>
  BY DEF ReadVerdict
<1>5. seen'[e][l] = report[l].rows /\ \A k \in Layer \ {l} : seen'[e][k] = seen[e][k]
  BY DEF ReadVerdict, IInv, TypeOK
<1>6. \A o \in Execution \ {e} : seen'[o] = seen[o]
  BY DEF ReadVerdict, IInv, TypeOK
<1>7. CASE Enter(e, "WriteFailureReport")
  BY <1>3, <1>4, <1>6, <1>7, ExitKeeps DEF Enter
<1>8. CASE Enter(e, Promotion[l])
  <2>1. pc' = [pc EXCEPT ![e] = Promotion[l]] /\ pc'[e] = Promotion[l]
    BY <1>8 DEF Enter, IInv, TypeOK
  <2>2. ExecInv(e)
    BY DEF IInv
  <2>3. CASE l = "bronze"
    <3>1. pc[e] = "ReadBronzeVerdict" /\ pc'[e] = "RunSilverJob"
      BY <1>1, <2>1, <2>3, ChainValues
    <3>2. ExecInv(e)'
      BY <1>4, <1>5, <2>2, <2>3, <3>1
         DEF ExecInv, Admitted, Quarantined, tables, PastBronzeJob, PastBronzeGate,
             PastSilverJob, PastSilverGate, PastGoldJob, PastModelJob
    <3> QED
      BY <1>3, <1>4, <1>6, <2>1, <3>2, Move
  <2>4. CASE l = "silver"
    <3>1. pc[e] = "ReadSilverVerdict" /\ pc'[e] = "RunGoldJob"
      BY <1>1, <2>1, <2>4, ChainValues
    <3>2. seen'[e]["bronze"] = seen[e]["bronze"]
      BY <1>5, <2>4 DEF Layer
    <3>3. ExecInv(e)'
      BY <1>4, <1>5, <2>2, <2>4, <3>1, <3>2
         DEF ExecInv, Admitted, Quarantined, tables, PastBronzeJob, PastBronzeGate,
             PastSilverJob, PastSilverGate, PastGoldJob, PastModelJob
    <3> QED
      BY <1>3, <1>4, <1>6, <2>1, <3>3, Move
  <2> QED
    BY <1>1, <2>3, <2>4
<1> QED
  BY <1>7, <1>8 DEF ReadVerdict

\* Every step of an execution preserves the invariant.
LEMMA ExecutionKeeps ==
    ASSUME IInv, TypeOK', NEW e \in Execution, ExecutionStep(e) \/ TimeOut(e)
    PROVE  IInv'
<1>1. CASE StartJobRun(e)
  BY <1>1, StartJobRunKeeps
<1>2. CASE StartRejected(e)
  <2>1. \A r \in runs' : r.owner # e
    BY <1>2, NoRunElsewhere DEF StartRejected, Tasks
  <2> QED
    BY <1>2, <2>1, TaskErrorKeeps DEF StartRejected
<1>3. CASE \E l \in Layer : ReadVerdict(e, l)
  BY <1>3, ReadVerdictKeeps
<1>4. CASE \E l \in Layer : VerdictUnavailable(e, l)
  <2>1. pc[e] \in {"ReadBronzeVerdict", "ReadSilverVerdict"}
    BY <1>4, ChainValues DEF VerdictUnavailable, Layer
  <2>2. \A r \in runs' : r.owner # e
    BY <1>4, <2>1, NoRunElsewhere DEF VerdictUnavailable, Tasks
  <2> QED
    BY <1>4, <2>2, ExitKeeps DEF VerdictUnavailable, Enter, history
<1>5. CASE RefreshKnowledgeBase(e)
  <2>1. \A r \in runs' : r.owner # e
    BY <1>5, NoRunElsewhere DEF RefreshKnowledgeBase, Tasks
  <2> QED
    BY <1>5, <2>1, ExitKeeps DEF RefreshKnowledgeBase, Enter, history
<1>6. CASE WriteFailureReport(e)
  <2>1. \A r \in runs' : r.owner # e
    BY <1>6, NoRunElsewhere DEF WriteFailureReport, Tasks
  <2> QED
    BY <1>6, <2>1, ExitKeeps DEF WriteFailureReport, Enter, history
<1>7. CASE FailureReportError(e)
  <2>1. \A r \in runs' : r.owner # e
    BY <1>7, NoRunElsewhere DEF FailureReportError, Tasks
  <2>2. UNCHANGED <<raw, tables, report, runs, scope, own, seen>>
    BY <1>7 DEF FailureReportError, history
  <2>3. CASE UNCHANGED pc
    BY <2>2, <2>3, Stay
  <2>4. CASE Enter(e, "PipelineFailed")
    BY <2>1, <2>2, <2>4, ExitKeeps DEF Enter
  <2> QED
    BY <1>7, <2>3, <2>4 DEF FailureReportError
<1>8. CASE TimeOut(e)
  BY <1>8, ExitKeeps DEF TimeOut, history
<1> QED
  BY <1>1, <1>2, <1>3, <1>4, <1>5, <1>6, <1>7, <1>8 DEF ExecutionStep

-----------------------------------------------------------------------------
(* The steps of a Glue run.                                                 *)

\* A finished run moves its owner on with what it delivered.
LEMMA RunSucceedsKeeps ==
    ASSUME IInv, TypeOK', NEW r \in runs, RunSucceeds(r)
    PROVE  IInv'
<1>0. r.owner \in Execution /\ r.task \in Tasks /\ r.phase = "written"
  BY DEF IInv, TypeOK, Run, RunSucceeds, Complete
<1>1. runs' = runs \ {r} /\ UNCHANGED <<raw, tables, report, scope, own, seen>>
  BY DEF RunSucceeds, history
<1>2. CASE pc[r.owner] # r.task
  BY <1>1, <1>2, Stay DEF RunSucceeds
<1>3. CASE pc[r.owner] = r.task
  <2> DEFINE e == r.owner
  <2>1. pc' = [pc EXCEPT ![e] = NextState[r.task]] /\ pc'[e] = NextState[r.task]
    BY <1>0, <1>3 DEF RunSucceeds, Enter, IInv, TypeOK
  <2>2. ASSUME NEW s \in runs', s.owner = e PROVE FALSE
    <3>1. s \in runs /\ s # r /\ s.task = r.task
      BY <1>0, <1>1, <1>3, <2>2 DEF IInv, OwnersWait, Tasks
    <3> QED
      BY <3>1, OneRunPerTask DEF IInv
  <2>3. ExecInv(e) /\ RunInv(r)
    BY <1>0 DEF IInv
  <2>4. Delivered(e, r.task) /\ (r.task = "RunBronzeJob" => own[e] \subseteq r.view)
    BY <1>0, <1>3, <2>3 DEF RunInv
  <2>5. \A s \in runs' : s.task # r.task
    BY <1>1, OneRunPerTask DEF IInv
  <2>6. ExecInv(e)'
    <3>1. CASE r.task = "RunBronzeJob"
      <4>1. pc[e] = "RunBronzeJob" /\ pc'[e] = "RunBronzeQualityGate"
        BY <1>3, <2>1, <3>1, ChainValues
      <4> QED
        BY <1>1, <2>3, <2>4, <3>1, <4>1 DEF ExecInv, Delivered, Quarantined, Admitted, tables,
           PastBronzeJob, PastBronzeGate, PastSilverJob, PastSilverGate, PastGoldJob, PastModelJob
    <3>2. CASE r.task = "RunBronzeQualityGate"
      <4>1. pc[e] = "RunBronzeQualityGate" /\ pc'[e] = "ReadBronzeVerdict"
        BY <1>3, <2>1, <3>2, ChainValues
      <4> QED
        BY <1>1, <2>3, <2>4, <2>5, <3>2, <4>1 DEF ExecInv, Delivered, Quarantined, Admitted,
           tables, PastBronzeJob, PastBronzeGate, PastSilverJob, PastSilverGate, PastGoldJob, PastModelJob
    <3>3. CASE r.task = "RunSilverJob"
      <4>1. pc[e] = "RunSilverJob" /\ pc'[e] = "RunSilverQualityGate"
        BY <1>3, <2>1, <3>3, ChainValues
      <4> QED
        BY <1>1, <2>3, <2>4, <3>3, <4>1 DEF ExecInv, Delivered, Quarantined, Admitted, tables,
           PastBronzeJob, PastBronzeGate, PastSilverJob, PastSilverGate, PastGoldJob, PastModelJob
    <3>4. CASE r.task = "RunSilverQualityGate"
      <4>1. pc[e] = "RunSilverQualityGate" /\ pc'[e] = "ReadSilverVerdict"
        BY <1>3, <2>1, <3>4, ChainValues
      <4> QED
        BY <1>1, <2>3, <2>4, <2>5, <3>4, <4>1 DEF ExecInv, Delivered, Quarantined, Admitted,
           tables, PastBronzeJob, PastBronzeGate, PastSilverJob, PastSilverGate, PastGoldJob, PastModelJob
    <3>5. CASE r.task = "RunGoldJob"
      <4>1. pc[e] = "RunGoldJob" /\ pc'[e] = "RunModelJob"
        BY <1>3, <2>1, <3>5, ChainValues
      <4> QED
        BY <1>1, <2>3, <2>4, <3>5, <4>1 DEF ExecInv, Delivered, Quarantined, Admitted, tables,
           PastBronzeJob, PastBronzeGate, PastSilverJob, PastSilverGate, PastGoldJob, PastModelJob
    <3>6. CASE r.task = "RunModelJob"
      <4>1. pc[e] = "RunModelJob" /\ pc'[e] = "RefreshKnowledgeBase"
        BY <1>3, <2>1, <3>6, ChainValues
      <4> QED
        BY <1>1, <2>3, <2>4, <3>6, <4>1 DEF ExecInv, Delivered, Quarantined, Admitted, tables,
           PastBronzeJob, PastBronzeGate, PastSilverJob, PastSilverGate, PastGoldJob, PastModelJob
    <3> QED
      BY <1>0, <3>1, <3>2, <3>3, <3>4, <3>5, <3>6 DEF Tasks
  <2> QED
    BY <1>0, <1>1, <2>1, <2>2, <2>6, Move
<1> QED
  BY <1>2, <1>3

\* A run that dies is retried, or sends its owner to the failure branch.
LEMMA RunFailsKeeps ==
    ASSUME IInv, TypeOK', NEW r \in runs, RunFails(r)
    PROVE  IInv'
<1>0. r.owner \in Execution /\ r.task \in Tasks
  BY DEF IInv, TypeOK, Run
<1>1. runs' = runs \ {r} /\ UNCHANGED <<raw, tables, report, scope, own, seen>>
  BY DEF RunFails, history
<1>2. CASE pc[r.owner] # r.task
  BY <1>1, <1>2, Stay DEF RunFails
<1>3. CASE pc[r.owner] = r.task
  <2>1. ASSUME NEW s \in runs', s.owner = r.owner PROVE FALSE
    <3>1. s \in runs /\ s # r /\ s.task = r.task
      BY <1>0, <1>1, <1>3, <2>1 DEF IInv, OwnersWait, Tasks
    <3> QED
      BY <3>1, OneRunPerTask DEF IInv
  <2> QED
    BY <1>0, <1>1, <1>3, <2>1, TaskErrorKeeps DEF RunFails, ErrorKind
<1> QED
  BY <1>2, <1>3

\* Bronze and the owner's ingested rows grow by the same snapshot.
LEMMA MergeBronzeKeeps ==
    ASSUME IInv, TypeOK', NEW r \in runs, MergeBronze(r)
    PROVE  IInv'
<1>0. /\ r.owner \in Execution /\ r.task = "RunBronzeJob" /\ runs \subseteq Run
      /\ Advance(r, "merged")
  BY DEF IInv, TypeOK, Run, MergeBronze, At
<1>1. /\ bronze' = bronze \cup (r.view \ Malformed)
      /\ own'[r.owner] = own[r.owner] \cup r.view
      /\ \A o \in Execution \ {r.owner} : own'[o] = own[o]
      /\ UNCHANGED <<raw, quarantine, silver, metrics, risk, scores, report, pc, scope, seen>>
  BY <1>0 DEF MergeBronze, IInv, TypeOK, control
<1>2. JobsExclusive' /\ OwnersWait'
  BY <1>0, <1>1, AdvanceControl
<1>3. pc[r.owner] \in {"RunBronzeJob", "TimedOut"} /\ RunInv(r)
  BY <1>0 DEF IInv, OwnersWait
<1>4. ASSUME NEW s \in runs' PROVE RunInv(s)'
  <2>1. PICK o \in runs : /\ s.owner = o.owner /\ s.task = o.task /\ s.view = o.view
                          /\ (s = o /\ o # r) \/ (o = r /\ s.phase = "merged")
    BY <1>0, Advanced
  <2>2. RunInv(o) /\ o.owner \in Execution
    BY <1>0 DEF IInv, Run
  <2>3. CASE o = r
    BY <1>0, <1>1, <2>1, <2>2, <2>3 DEF RunInv, Admitted
  <2>4. CASE o # r
    <3>1. o.task # "RunBronzeJob"
      BY <1>0, <2>4, OneRunPerTask DEF IInv
    <3>2. pc[o.owner] = o.task => o.owner # r.owner
      BY <1>3, <3>1, <2>2, <1>0 DEF Run, Tasks
    <3> QED
      BY <1>1, <2>1, <2>2, <2>4, <3>1, <3>2 DEF RunInv, Delivered, Admitted
  <2> QED
    BY <2>3, <2>4
<1>5. ASSUME NEW e \in Execution PROVE ExecInv(e)'
  <2>1. ExecInv(e)
    BY DEF IInv
  <2>2. \A s \in runs' : \E o \in runs : s.task = o.task /\ s.view = o.view
    BY <1>0, Advanced
  <2>3. CASE e = r.owner
    BY <1>0, <1>1, <1>3, <2>1, <2>3 DEF ExecInv, RunInv, Admitted,
       PastBronzeJob, PastBronzeGate, PastSilverJob, PastSilverGate, PastGoldJob, PastModelJob
  <2>4. CASE e # r.owner
    BY <1>1, <2>1, <2>2, <2>4 DEF ExecInv, Quarantined, Admitted
  <2> QED
    BY <2>3, <2>4
<1>6. (metrics \cup risk \subseteq silver)'
  BY <1>1 DEF IInv
<1> QED
  BY <1>2, <1>4, <1>5, <1>6 DEF IInv

\* Any other write of a run leaves the ingested rows, the verdicts read and the states
\* of the executions alone, and no table or report shrinks except the run's own.
Write(r, phase) ==
    /\ Advance(r, phase)
    /\ UNCHANGED <<raw, bronze, pc, scope, own, seen>>
    /\ \A x \in Row : quarantine[x] <= quarantine'[x]
    /\ silver \subseteq silver' /\ scores \subseteq scores'
    /\ metrics \subseteq metrics' /\ risk \subseteq risk'
    /\ metrics' \cup risk' \subseteq silver'
    /\ \A l \in Layer : \/ report'[l] = report[l]
                       \/ /\ report'[l].rows = r.view
                          /\ JobName[r.task] = "quality" /\ GateLayer(r) = l
    /\ \/ UNCHANGED <<metrics, risk>>
       \/ r.task = "RunGoldJob" /\ metrics' \subseteq r.view /\ risk' \subseteq r.view
    /\ pc[r.owner] = r.task =>
          /\ r.task = "RunGoldJob" /\ phase = "merged" => Admitted(r.owner) \subseteq metrics'
          /\ phase = "written" => Delivered(r.owner, r.task)'

\* Such a write preserves the invariant.
LEMMA WriteKeeps ==
    ASSUME IInv, TypeOK', NEW r \in runs, NEW phase, Write(r, phase)
    PROVE  IInv'
<1>0. runs \subseteq Run /\ r \in Run /\ TypeOK
  BY DEF IInv, TypeOK
<1> USE DEF Write
<1>1. JobsExclusive' /\ OwnersWait'
  BY AdvanceControl
<1>2. \A e \in Execution : Quarantined(e) => Quarantined(e)'
  BY <1>0 DEF Quarantined, TypeOK
<1>3. ASSUME NEW s \in runs' PROVE RunInv(s)'
  <2>1. PICK o \in runs : /\ s.owner = o.owner /\ s.task = o.task /\ s.view = o.view
                          /\ (s = o /\ o # r) \/ (o = r /\ s.phase = phase)
    BY <1>0, Advanced
  <2>2. RunInv(o) /\ o.owner \in Execution /\ o.task \in Tasks
    BY <1>0 DEF IInv, Run
  <2>3. CASE o = r
    BY <2>1, <2>2, <2>3 DEF RunInv, Admitted
  <2>4. CASE o # r
    <3>1. o.task # r.task /\ JobName[o.task] # JobName[r.task]
      BY <2>4, OneRunPerTask DEF IInv, JobsExclusive
    <3>2. o.task = "RunBronzeQualityGate" => report'["bronze"] = report["bronze"]
      BY <1>0, <3>1, ChainValues DEF Layer, Run, Tasks
    <3>3. o.task = "RunSilverQualityGate" => report'["silver"] = report["silver"]
      BY <1>0, <3>1, ChainValues DEF Layer, Run, Tasks
    <3>4. Delivered(o.owner, o.task) => Delivered(o.owner, o.task)'
      BY <1>2, <2>2, <3>2, <3>3 DEF Delivered, Admitted
    <3>5. o.task = "RunGoldJob" => metrics' = metrics /\ risk' = risk
      BY <3>1
    <3> QED
      BY <2>1, <2>2, <2>4, <3>4, <3>5 DEF RunInv, Admitted
  <2> QED
    BY <2>3, <2>4
<1>4. ASSUME NEW e \in Execution PROVE ExecInv(e)'
  <2>1. ExecInv(e)
    BY DEF IInv
  <2>2. \A s \in runs' : \E o \in runs : s.task = o.task /\ s.view = o.view
    BY <1>0, Advanced
  <2>3. r.task = "RunBronzeQualityGate" /\ pc[e] = "ReadBronzeVerdict" => Admitted(e) \subseteq r.view
    BY <2>1 DEF ExecInv
  <2>4. r.task = "RunSilverQualityGate" /\ pc[e] = "ReadSilverVerdict" => Admitted(e) \subseteq r.view
    BY <2>1 DEF ExecInv
  <2>5. \/ report'["bronze"] = report["bronze"]
        \/ r.task = "RunBronzeQualityGate" /\ report'["bronze"].rows = r.view
    BY <1>0, ChainValues DEF GateLayer, Layer, Run
  <2>6. \/ report'["silver"] = report["silver"]
        \/ r.task = "RunSilverQualityGate" /\ report'["silver"].rows = r.view
    BY <1>0, ChainValues DEF GateLayer, Layer, Run
  <2>7. (pc[e] = "ReadBronzeVerdict" =>
           /\ Admitted(e) \subseteq report["bronze"].rows
           /\ \A s \in runs : s.task = "RunBronzeQualityGate" => Admitted(e) \subseteq s.view)'
    BY <2>1, <2>2, <2>3, <2>5 DEF ExecInv, Admitted
  <2>8. (pc[e] = "ReadSilverVerdict" =>
           /\ Admitted(e) \subseteq report["silver"].rows
           /\ \A s \in runs : s.task = "RunSilverQualityGate" => Admitted(e) \subseteq s.view)'
    BY <2>1, <2>2, <2>4, <2>6 DEF ExecInv, Admitted
  <2>9. /\ (pc[e] \in PastSilverJob => Admitted(e) \subseteq silver)'
        /\ (pc[e] \in PastGoldJob => Admitted(e) \subseteq metrics \cap risk)'
        /\ (pc[e] \in PastModelJob => Admitted(e) \subseteq scores)'
    BY <2>1 DEF ExecInv, Admitted, PastSilverJob, PastGoldJob, PastModelJob
  <2> QED
    BY <1>2, <2>1, <2>7, <2>8, <2>9 DEF ExecInv, Admitted, PastBronzeJob, PastBronzeGate,
       PastSilverGate
<1> QED
  BY <1>0, <1>1, <1>3, <1>4 DEF IInv

\* Every step of a run preserves the invariant.
LEMMA RunKeeps ==
    ASSUME IInv, TypeOK', NEW r \in runs, RunStep(r)
    PROVE  IInv'
<1>0. /\ TypeOK /\ RunInv(r) /\ metrics \cup risk \subseteq silver
      /\ r \in Run /\ r.owner \in Execution
  BY DEF IInv, TypeOK, Run
<1>1. CASE RunSucceeds(r)
  BY <1>1, RunSucceedsKeeps
<1>2. CASE RunFails(r)
  BY <1>2, RunFailsKeeps
<1>3. CASE MergeBronze(r)
  BY <1>3, MergeBronzeKeeps
<1>4. CASE AppendQuarantine(r)
  <2>1. /\ r.task = "RunBronzeJob" /\ Advance(r, "written")
        /\ UNCHANGED <<raw, bronze, silver, metrics, risk, scores, report, pc, scope, own, seen>>
    BY <1>4 DEF AppendQuarantine, At, control, history
  <2>2. \A x \in Row : quarantine[x] <= quarantine'[x]
    BY <1>0, <1>4 DEF AppendQuarantine, TypeOK
  <2>3. \A x \in r.view \cap Malformed : quarantine'[x] > 0
    BY <1>0, <1>4 DEF AppendQuarantine, TypeOK, Run
  <2>4. pc[r.owner] = r.task => Delivered(r.owner, r.task)'
    BY <1>0, <2>1, <2>3 DEF RunInv, Delivered, Quarantined
  <2>9. Write(r, "written")
    BY <1>0, <2>1, <2>2, <2>4 DEF Write, TypeOK
  <2> QED
    BY <2>9, WriteKeeps
<1>5. CASE CreateDimension(r)
  <2>1. /\ r.task = "RunSilverJob"
        /\ UNCHANGED <<raw, bronze, quarantine, silver, metrics, risk, scores, report, pc,
                       scope, own, seen>>
    BY <1>5 DEF CreateDimension, At, control, history
  <2>2. CASE r.view = {}
    <3>1. Advance(r, "written")
      BY <1>5, <2>2 DEF CreateDimension
    <3>2. pc[r.owner] = r.task => Delivered(r.owner, r.task)'
      BY <1>0, <2>1, <2>2 DEF RunInv, Delivered, Admitted
    <3>9. Write(r, "written")
      BY <1>0, <2>1, <3>1, <3>2 DEF Write, TypeOK
    <3> QED
      BY <3>9, WriteKeeps
  <2>3. CASE r.view # {}
    <3>1. Advance(r, "created")
      BY <1>5, <2>3 DEF CreateDimension
    <3>9. Write(r, "created")
      BY <1>0, <2>1, <3>1 DEF Write, TypeOK
    <3> QED
      BY <3>9, WriteKeeps
  <2> QED
    BY <2>2, <2>3
<1>6. CASE MergeDimension(r)
  <2>1. /\ r.task = "RunSilverJob" /\ Advance(r, "merged")
        /\ UNCHANGED <<raw, bronze, quarantine, silver, metrics, risk, scores, report, pc,
                       scope, own, seen>>
    BY <1>6 DEF MergeDimension, At, control, history
  <2>9. Write(r, "merged")
    BY <1>0, <2>1 DEF Write, TypeOK
  <2> QED
    BY <2>9, WriteKeeps
<1>7. CASE MergeSilver(r)
  <2>1. /\ r.task = "RunSilverJob" /\ Advance(r, "written") /\ silver' = silver \cup r.view
        /\ UNCHANGED <<raw, bronze, quarantine, metrics, risk, scores, report, pc, scope,
                       own, seen>>
    BY <1>7 DEF MergeSilver, At, control, history
  <2>2. pc[r.owner] = r.task => Delivered(r.owner, r.task)'
    BY <1>0, <2>1 DEF RunInv, Delivered, Admitted
  <2>9. Write(r, "written")
    BY <1>0, <2>1, <2>2 DEF Write, TypeOK
  <2> QED
    BY <2>9, WriteKeeps
<1>8. CASE OverwriteMetrics(r)
  <2>1. /\ r.task = "RunGoldJob"
        /\ UNCHANGED <<raw, bronze, quarantine, silver, risk, scores, report, pc, scope,
                       own, seen>>
    BY <1>8 DEF OverwriteMetrics, At, control, history
  <2>2. metrics \cup risk \subseteq r.view /\ r.view \subseteq silver
    BY <1>0, <2>1 DEF RunInv
  <2>3. CASE r.view = {}
    <3>1. Advance(r, "written") /\ UNCHANGED metrics
      BY <1>8, <2>3 DEF OverwriteMetrics
    <3>2. pc[r.owner] = r.task => Delivered(r.owner, r.task)'
      BY <1>0, <2>1, <2>3 DEF RunInv, Delivered, Admitted
    <3>9. Write(r, "written")
      BY <1>0, <2>1, <3>1, <3>2 DEF Write, TypeOK
    <3> QED
      BY <3>9, WriteKeeps
  <2>4. CASE r.view # {}
    <3>1. Advance(r, "merged") /\ metrics' = r.view
      BY <1>8, <2>4 DEF OverwriteMetrics
    <3>2. pc[r.owner] = r.task => Admitted(r.owner) \subseteq metrics'
      BY <1>0, <3>1 DEF RunInv
    <3>9. Write(r, "merged")
      BY <1>0, <2>1, <2>2, <3>1, <3>2 DEF Write, TypeOK
    <3> QED
      BY <3>9, WriteKeeps
  <2> QED
    BY <2>3, <2>4
<1>9. CASE OverwriteRisk(r)
  <2>1. /\ r.task = "RunGoldJob" /\ r.phase = "merged" /\ Advance(r, "written")
        /\ risk' = r.view
        /\ UNCHANGED <<raw, bronze, quarantine, silver, metrics, scores, report, pc, scope,
                       own, seen>>
    BY <1>9 DEF OverwriteRisk, At, control, history
  <2>2. metrics \cup risk \subseteq r.view /\ r.view \subseteq silver
    BY <1>0, <2>1 DEF RunInv
  <2>3. pc[r.owner] = r.task => Delivered(r.owner, r.task)'
    BY <1>0, <2>1 DEF RunInv, Delivered, Admitted
  <2>9. Write(r, "written")
    BY <1>0, <2>1, <2>2, <2>3 DEF Write, TypeOK
  <2> QED
    BY <2>9, WriteKeeps
<1>10. CASE MergeScores(r)
  <2>1. /\ r.task = "RunModelJob" /\ Advance(r, "written") /\ scores' = scores \cup r.view
        /\ UNCHANGED <<raw, bronze, quarantine, silver, metrics, risk, report, pc, scope,
                       own, seen>>
    BY <1>10 DEF MergeScores, At, control, history
  <2>2. pc[r.owner] = r.task => Delivered(r.owner, r.task)'
    BY <1>0, <2>1 DEF RunInv, Delivered, Admitted
  <2>9. Write(r, "written")
    BY <1>0, <2>1, <2>2 DEF Write, TypeOK
  <2> QED
    BY <2>9, WriteKeeps
<1>11. CASE EvaluateRules(r)
  <2>1. PICK phase \in {"passing", "failing"} : Advance(r, phase)
    BY <1>11 DEF EvaluateRules
  <2>2. UNCHANGED <<raw, bronze, quarantine, silver, metrics, risk, scores, report, pc, scope,
                    own, seen>>
    BY <1>11 DEF EvaluateRules, tables, control, history
  <2>3. phase # "written" /\ phase # "merged"
    BY <2>1
  <2>9. Write(r, phase)
    BY <1>0, <2>1, <2>2, <2>3 DEF Write, TypeOK
  <2> QED
    BY <2>9, WriteKeeps
<1>12. CASE WriteReport(r)
  <2>1. /\ JobName[r.task] = "quality" /\ Advance(r, "written")
        /\ UNCHANGED <<raw, bronze, quarantine, silver, metrics, risk, scores, pc, scope,
                       own, seen>>
    BY <1>12 DEF WriteReport, tables, control
  <2>2. \A l \in Layer : IF GateLayer(r) = l THEN report'[l].rows = r.view
                                             ELSE report'[l] = report[l]
    BY <1>0, <1>12 DEF WriteReport, TypeOK
  <2>3. r.task \in {"RunBronzeQualityGate", "RunSilverQualityGate"}
    BY <1>0, <2>1, ChainValues DEF Run
  <2>4. pc[r.owner] = r.task => Delivered(r.owner, r.task)'
    BY <1>0, <2>1, <2>2, <2>3 DEF RunInv, Delivered, GateLayer, Admitted, Layer
  <2>9. Write(r, "written")
    BY <1>0, <2>1, <2>2, <2>4 DEF Write, TypeOK
  <2> QED
    BY <2>9, WriteKeeps
<1> QED
  BY <1>1, <1>2, <1>3, <1>4, <1>5, <1>6, <1>7, <1>8, <1>9, <1>10, <1>11, <1>12
     DEF RunStep

-----------------------------------------------------------------------------
(* The theorems.                                                            *)

\* The invariant holds at first.
LEMMA IInvInit == Init => IInv
<1> SUFFICES ASSUME Init PROVE IInv
  OBVIOUS
<1>1. TypeOK
  BY TypeInit
<1>2. runs = {} /\ JobsExclusive /\ OwnersWait /\ \A r \in runs : RunInv(r)
  BY DEF Init, JobsExclusive, OwnersWait
<1>3. ASSUME NEW e \in Execution PROVE ExecInv(e)
  <2>1. pc[e] = "NotStarted" /\ own[e] = {}
    BY DEF Init
  <2> QED
    BY <2>1 DEF ExecInv, Admitted, PastBronzeJob, PastBronzeGate, PastSilverJob,
       PastSilverGate, PastGoldJob, PastModelJob
<1> QED
  BY <1>1, <1>2, <1>3 DEF IInv, Init

\* Data that lands only widens what later runs may read.
LEMMA LandKeeps ==
    ASSUME IInv, TypeOK', NEW x \in Row, Land(x)
    PROVE  IInv'
<1>1. /\ raw \subseteq raw'
      /\ UNCHANGED <<bronze, quarantine, silver, metrics, risk, scores, report, runs, pc,
                     scope, own, seen>>
  BY DEF Land, tables, control, history
<1>2. JobsExclusive' /\ OwnersWait'
  BY <1>1 DEF IInv, JobsExclusive, OwnersWait
<1>3. ASSUME NEW r \in runs' PROVE RunInv(r)'
  BY <1>1 DEF IInv, RunInv, Delivered, Quarantined, Admitted
<1>4. ASSUME NEW e \in Execution PROVE ExecInv(e)'
  <2>1. ExecInv(e)
    BY DEF IInv
  <2> QED
    BY <1>1, <2>1 DEF ExecInv, Quarantined, Admitted
<1> QED
  BY <1>1, <1>2, <1>3, <1>4 DEF IInv

\* A new execution has no runs and has ingested nothing.
LEMMA StartKeeps ==
    ASSUME IInv, TypeOK', NEW e \in Execution, NEW rows, Start(e, rows)
    PROVE  IInv'
<1>0. TypeOK /\ ExecInv(e) /\ pc[e] = "NotStarted"
  BY DEF IInv, Start
<1>1. /\ pc'[e] = "RunBronzeJob" /\ \A o \in Execution \ {e} : pc'[o] = pc[o]
      /\ \A o \in Execution \ {e} : scope'[o] = scope[o]
      /\ UNCHANGED <<raw, tables, report, runs, own, seen>>
  BY <1>0 DEF Start, TypeOK, history
<1>2. \A r \in runs : r.owner \in Execution \ {e}
  BY <1>0 DEF IInv, OwnersWait, TypeOK, Run, Tasks
<1>3. JobsExclusive' /\ OwnersWait'
  BY <1>1, <1>2 DEF IInv, JobsExclusive, OwnersWait
<1>4. ASSUME NEW r \in runs' PROVE RunInv(r)'
  BY <1>1, <1>2 DEF IInv, RunInv, Delivered, Quarantined, Admitted, tables
<1>5. ASSUME NEW o \in Execution PROVE ExecInv(o)'
  <2>1. CASE o = e
    <3>1. own'[e] = {}
      BY <1>0, <1>1 DEF ExecInv
    <3> QED
      BY <1>1, <2>1, <3>1 DEF ExecInv, Admitted, PastBronzeJob, PastBronzeGate,
         PastSilverJob, PastSilverGate, PastGoldJob, PastModelJob
  <2>2. CASE o # e
    <3>1. ExecInv(o)
      BY DEF IInv
    <3> QED
      BY <1>1, <2>2, <3>1 DEF ExecInv, Quarantined, Admitted, tables
  <2> QED
    BY <2>1, <2>2
<1> QED
  BY <1>1, <1>3, <1>4, <1>5 DEF IInv, tables

\* The invariant is inductive.
THEOREM InductiveInvariant == Spec => []IInv
<1>1. IInv /\ TypeOK' /\ [Next]_vars => IInv'
  <2> SUFFICES ASSUME IInv, TypeOK', [Next]_vars PROVE IInv'
    OBVIOUS
  <2>1. CASE \E r \in Row : Land(r)
    BY <2>1, LandKeeps
  <2>2. CASE \E e \in Execution, rows \in Batches \cup {Row} : Start(e, rows)
    BY <2>2, StartKeeps
  <2>3. CASE \E e \in Execution : ExecutionStep(e) \/ TimeOut(e)
    BY <2>3, ExecutionKeeps
  <2>4. CASE \E r \in runs : RunStep(r)
    BY <2>4, RunKeeps
  <2>5. CASE UNCHANGED vars
    BY <2>5, Stay DEF vars, control, history
  <2> QED
    BY <2>1, <2>2, <2>3, <2>4, <2>5 DEF Next
<1> QED
  BY <1>1, IInvInit, TypeCorrect, PTL DEF Spec

\* Whatever executions and abandoned runs share the report of a layer, the verdict an
\* execution was promoted on was computed over every row that execution ingested.
THEOREM VerdictCoverage == Spec => []VerdictCoversOwnRows
<1>1. IInv => VerdictCoversOwnRows
  BY DEF IInv, ExecInv, VerdictCoversOwnRows
<1> QED
  BY <1>1, InductiveInvariant, PTL

\* Once an execution has left its bronze job, every row it read is in bronze or in
\* quarantine, even if attempts died between the two commits.
THEOREM RowsAccounted == Spec => []EveryRowAccounted
<1>1. IInv => EveryRowAccounted
  BY DEF IInv, ExecInv, EveryRowAccounted, Quarantined, Admitted
<1> QED
  BY <1>1, InductiveInvariant, PTL

\* The rows of a succeeded execution are in every downstream table.
THEOREM SuccessServes == Spec => []SucceededIsServed
<1>1. IInv => SucceededIsServed
  BY DEF IInv, ExecInv, SucceededIsServed, PastSilverJob, PastSilverGate, PastGoldJob,
         PastModelJob
<1> QED
  BY <1>1, InductiveInvariant, PTL

\* No gold run replaces an aggregate by one computed from fewer rows.
THEOREM GoldGrows == Spec => NoServedRowLost
<1>1. IInv /\ [Next]_vars => [metrics \subseteq metrics' /\ risk \subseteq risk']_vars
  <2> SUFFICES ASSUME IInv, [Next]_vars
               PROVE  metrics \subseteq metrics' /\ risk \subseteq risk'
    OBVIOUS
  <2>1. CASE \E r \in runs : OverwriteMetrics(r) \/ OverwriteRisk(r)
    <3>1. PICK r \in runs : OverwriteMetrics(r) \/ OverwriteRisk(r)
      BY <2>1
    <3>2. metrics \cup risk \subseteq r.view
      BY <3>1 DEF IInv, RunInv, OverwriteMetrics, OverwriteRisk, At
    <3> QED
      BY <3>1, <3>2 DEF OverwriteMetrics, OverwriteRisk
  <2>2. CASE UNCHANGED <<metrics, risk>>
    BY <2>2
  <2>3. CASE \E r \in Row : Land(r)
    BY <2>2, <2>3 DEF Land, tables
  <2>4. CASE \E e \in Execution, rows \in Batches \cup {Row} : Start(e, rows)
    BY <2>2, <2>4 DEF Start, tables
  <2>5. CASE \E e \in Execution : ExecutionStep(e) \/ TimeOut(e)
    BY <2>2, <2>5 DEF ExecutionStep, StartJobRun, StartRejected, ReadVerdict,
       VerdictUnavailable, RefreshKnowledgeBase, WriteFailureReport, FailureReportError,
       TimeOut, tables
  <2>6. CASE \E r \in runs : RunStep(r)
    BY <2>1, <2>2, <2>6 DEF RunStep, MergeBronze, AppendQuarantine, CreateDimension,
       MergeDimension, MergeSilver, MergeScores, EvaluateRules, WriteReport, RunSucceeds,
       RunFails, tables
  <2>7. CASE UNCHANGED vars
    BY <2>2, <2>7 DEF vars, tables
  <2> QED
    BY <2>3, <2>4, <2>5, <2>6, <2>7 DEF Next
<1> QED
  BY <1>1, InductiveInvariant, PTL DEF Spec, NoServedRowLost

-----------------------------------------------------------------------------
(* What EveryExecutionEnds rests on: retries run out. How far an execution  *)
(* still has to go is a triple of naturals, compared from the left: states  *)
(* ahead, retries left in this one, phases left of the run it waits for.    *)

Ahead == [s \in States |->
    CASE s = "NotStarted"           -> 10
      [] s = "RunBronzeJob"         -> 9
      [] s = "RunBronzeQualityGate" -> 8
      [] s = "ReadBronzeVerdict"    -> 7
      [] s = "RunSilverJob"         -> 6
      [] s = "RunSilverQualityGate" -> 5
      [] s = "ReadSilverVerdict"    -> 4
      [] s = "RunGoldJob"           -> 3
      [] s = "RunModelJob"          -> 2
      [] s \in {"RefreshKnowledgeBase", "WriteFailureReport"} -> 1
      [] OTHER                      -> 0]

Unused(attempts, used) == IF used < attempts THEN attempts - used ELSE 0

RetriesIn(s, used) ==
    CASE s \in Tasks -> Unused(Attempts(s, "busy"), used["busy"])
                          + Unused(Attempts(s, "fault"), used["fault"])
      [] s = "WriteFailureReport" -> Unused(LambdaRetries, used["busy"])
      [] OTHER -> 0

RetriesLeft(e) == RetriesIn(pc[e], tries[e])

PhasesLeft == [p \in Phase |->
    CASE p = "started" -> 3
      [] p = "created" -> 2
      [] p \in {"merged", "passing", "failing"} -> 1
      [] p = "written" -> 0]

\* The run an execution waits for: at most one.
Mine(e) == {r \in runs : r.owner = e /\ r.task = pc[e]}

WorkIn(mine) == IF mine = {} THEN 4 ELSE PhasesLeft[(CHOOSE r \in mine : TRUE).phase]

WorkLeft(e) == WorkIn(Mine(e))

\* A step of the execution, or of the run it waits for.
OwnStep(e) ==
    \/ ExecutionStep(e) \/ TimeOut(e)
    \/ \E r \in runs : r.owner = e /\ r.task = pc[e] /\ RunStep(r)

Closer(e) ==
    \/ Ahead[pc'[e]] < Ahead[pc[e]]
    \/ pc'[e] = pc[e] /\ RetriesLeft(e)' < RetriesLeft(e)
    \/ pc'[e] = pc[e] /\ RetriesLeft(e)' = RetriesLeft(e) /\ WorkLeft(e)' < WorkLeft(e)

AsFar(e) ==
    pc'[e] = pc[e] /\ RetriesLeft(e)' = RetriesLeft(e) /\ WorkLeft(e)' = WorkLeft(e)

Measured(e) == Ahead[pc[e]] \in Nat /\ RetriesLeft(e) \in Nat /\ WorkLeft(e) \in 0 .. 4

\* Every step of an active execution, or of the run it waits for, brings it closer to its
\* end, and no step of anyone else sets it back.
RetriesRunOut ==
    [][\A e \in Execution : pc[e] \in Active =>
           /\ OwnStep(e) => Closer(e)
           /\ AsFar(e) \/ Closer(e)]_vars

\* Each state is behind the ones it leads to.
LEMMA AheadFalls ==
    /\ \A t \in Tasks : Ahead[NextState[t]] < Ahead[t] /\ Ahead["WriteFailureReport"] < Ahead[t]
    /\ \A l \in Layer : /\ Ahead[Promotion[l]] < Ahead[Verdicts[l]]
                        /\ Ahead["WriteFailureReport"] < Ahead[Verdicts[l]]
    /\ \A s \in Active : \A t \in Terminal : Ahead[t] < Ahead[s]
BY DEF Ahead, States, Active, Terminal, Tasks, NextState, Promotion, Verdicts, Layer

LEMMA WorkOfRun ==
    ASSUME NEW r PROVE WorkIn({r}) = PhasesLeft[r.phase] /\ WorkIn({}) = 4
BY DEF WorkIn

\* An execution that moves on has fewer states ahead.
LEMMA MovesCloser ==
    ASSUME TypeOK, NEW e \in Execution, NEW s, pc' = [pc EXCEPT ![e] = s],
           Ahead[s] < Ahead[pc[e]]
    PROVE  Closer(e)
BY DEF TypeOK, Closer

\* A retry is one retry fewer; without one left the execution moves on.
LEMMA RetryCloser ==
    ASSUME TypeOK, NEW e \in Execution, NEW kind \in ErrorKind, pc[e] \in Tasks,
           TaskError(e, kind)
    PROVE  Closer(e)
<1>1. CASE /\ tries[e][kind] < Attempts(pc[e], kind)
           /\ tries' = [tries EXCEPT ![e][kind] = @ + 1]
           /\ UNCHANGED pc
  <2>1. /\ \A k \in ErrorKind : tries[e][k] \in Nat /\ Attempts(pc[e], k) \in Nat
        /\ tries'[e][kind] = tries[e][kind] + 1
        /\ \A k \in ErrorKind \ {kind} : tries'[e][k] = tries[e][k]
    BY <1>1, PipelineAssumption DEF TypeOK, Attempts
  <2>2. /\ Unused(Attempts(pc[e], kind), tries'[e][kind])
             < Unused(Attempts(pc[e], kind), tries[e][kind])
        /\ \A k \in ErrorKind : Unused(Attempts(pc[e], k), tries[e][k]) \in Nat
        /\ \A k \in ErrorKind : Unused(Attempts(pc[e], k), tries'[e][k]) \in Nat
    BY <1>1, <2>1 DEF Unused
  <2>3. RetriesIn(pc[e], tries'[e]) < RetriesIn(pc[e], tries[e])
    <3>1. \A used : RetriesIn(pc[e], used) = Unused(Attempts(pc[e], "busy"), used["busy"])
                                               + Unused(Attempts(pc[e], "fault"), used["fault"])
      BY DEF RetriesIn, Tasks
    <3>2. CASE kind = "busy"
      <4>1. tries'[e]["fault"] = tries[e]["fault"]
        BY <2>1, <3>2 DEF ErrorKind
      <4> QED
        BY <2>2, <3>1, <3>2, <4>1 DEF ErrorKind
    <3>3. CASE kind = "fault"
      <4>1. tries'[e]["busy"] = tries[e]["busy"]
        BY <2>1, <3>3 DEF ErrorKind
      <4> QED
        BY <2>2, <3>1, <3>3, <4>1 DEF ErrorKind
    <3> QED
      BY <3>2, <3>3 DEF ErrorKind
  <2> QED
    BY <1>1, <2>3 DEF Closer, RetriesLeft
<1>2. CASE Enter(e, "WriteFailureReport")
  BY <1>2, AheadFalls, MovesCloser DEF Enter
<1> QED
  BY <1>1, <1>2 DEF TaskError

\* Every step of an execution of its own.
LEMMA ExecutionCloser ==
    ASSUME IInv, NEW e \in Execution, pc[e] \in Active, ExecutionStep(e) \/ TimeOut(e)
    PROVE  Closer(e)
<1>0. TypeOK
  BY DEF IInv
<1>1. CASE StartJobRun(e)
  <2> DEFINE new == [owner |-> e, task |-> pc[e], phase |-> "started",
                     view |-> Source(e, pc[e])]
  <2>1. runs' = runs \cup {new} /\ pc' = pc /\ tries' = tries /\ Mine(e) = {}
    BY <1>1 DEF StartJobRun, control, Waiting, Mine
  <2>2. Mine(e)' = {new}
    <3>1. new.owner = e /\ new.task = pc[e]
      OBVIOUS
    <3> HIDE DEF new
    <3>2. \A r \in runs : ~(r.owner = e /\ r.task = pc[e])
      BY <2>1 DEF Mine
    <3> QED
      BY <2>1, <3>1, <3>2 DEF Mine
  <2>3. WorkLeft(e) = 4 /\ WorkLeft(e)' = PhasesLeft["started"]
    <3>1. new.phase = "started"
      OBVIOUS
    <3> HIDE DEF new
    <3> QED
      BY <2>1, <2>2, <3>1, WorkOfRun DEF WorkLeft
  <2> QED
    BY <2>1, <2>3 DEF Closer, RetriesLeft, PhasesLeft, Phase
<1>2. CASE StartRejected(e)
  BY <1>0, <1>2, RetryCloser DEF StartRejected
<1>3. CASE \E l \in Layer : ReadVerdict(e, l) \/ VerdictUnavailable(e, l)
  BY <1>0, <1>3, AheadFalls, MovesCloser
     DEF ReadVerdict, VerdictUnavailable, Enter, Active, Terminal
<1>4. CASE RefreshKnowledgeBase(e) \/ WriteFailureReport(e)
  BY <1>0, <1>4, AheadFalls, MovesCloser
     DEF RefreshKnowledgeBase, WriteFailureReport, Enter, Active, Terminal
<1>5. CASE FailureReportError(e)
  <2>1. CASE /\ tries[e]["busy"] < LambdaRetries
             /\ tries' = [tries EXCEPT ![e]["busy"] = @ + 1]
             /\ UNCHANGED pc
    <3>1. /\ tries[e]["busy"] \in Nat /\ LambdaRetries \in Nat
          /\ tries'[e]["busy"] = tries[e]["busy"] + 1
      BY <1>0, <2>1, PipelineAssumption DEF TypeOK, ErrorKind
    <3>2. pc[e] = "WriteFailureReport" /\ pc[e] \notin Tasks
      BY <1>5 DEF FailureReportError, Tasks
    <3>3. RetriesIn(pc[e], tries'[e]) < RetriesIn(pc[e], tries[e])
      BY <2>1, <3>1, <3>2 DEF RetriesIn, Unused
    <3> QED
      BY <2>1, <3>3 DEF Closer, RetriesLeft
  <2>2. CASE Enter(e, "PipelineFailed")
    BY <1>0, <2>2, AheadFalls, MovesCloser DEF Enter, Terminal
  <2> QED
    BY <1>5, <2>1, <2>2 DEF FailureReportError
<1>6. CASE TimeOut(e)
  BY <1>0, <1>6, AheadFalls, MovesCloser DEF TimeOut, Terminal
<1> QED
  BY <1>1, <1>2, <1>3, <1>4, <1>5, <1>6 DEF ExecutionStep

\* A run in its next phase has fewer left.
LEMMA AdvanceCloser ==
    ASSUME IInv, NEW r \in runs, r.task = pc[r.owner], NEW phase \in Phase,
           PhasesLeft[phase] < PhasesLeft[r.phase], Advance(r, phase),
           UNCHANGED <<pc, tries>>
    PROVE  Closer(r.owner)
<1>1. r \in Run /\ JobsExclusive
  BY DEF IInv, TypeOK
<1> DEFINE next == [r EXCEPT !.phase = phase]
<1>2. next.owner = r.owner /\ next.task = r.task /\ next.phase = phase
  BY <1>1 DEF Run
<1>3. Mine(r.owner) = {r}
  BY <1>1, OneRunPerTask DEF Mine
<1>4. Mine(r.owner)' = {next}
  BY <1>2, <1>3 DEF Advance, Mine
<1>5. WorkLeft(r.owner) = PhasesLeft[r.phase] /\ WorkLeft(r.owner)' = PhasesLeft[phase]
  BY <1>2, <1>3, <1>4, WorkOfRun DEF WorkLeft
<1> QED
  BY <1>5 DEF Closer, RetriesLeft

\* Every step of the run an execution waits for.
LEMMA RunCloser ==
    ASSUME IInv, NEW r \in runs, r.task = pc[r.owner], RunStep(r)
    PROVE  Closer(r.owner)
<1>0. TypeOK /\ r \in Run /\ r.owner \in Execution /\ r.task \in Tasks
  BY DEF IInv, TypeOK, Run
<1>1. CASE RunSucceeds(r)
  BY <1>0, <1>1, AheadFalls, MovesCloser DEF RunSucceeds, Enter
<1>2. CASE RunFails(r)
  BY <1>0, <1>2, RetryCloser DEF RunFails, ErrorKind
<1>3. ASSUME ~RunSucceeds(r), ~RunFails(r)
      PROVE  \E phase \in Phase : /\ PhasesLeft[phase] < PhasesLeft[r.phase]
                                  /\ Advance(r, phase)
                                  /\ UNCHANGED <<pc, tries>>
  <2>1. /\ PhasesLeft["started"] = 3 /\ PhasesLeft["created"] = 2
        /\ \A p \in {"merged", "passing", "failing"} : p \in Phase /\ PhasesLeft[p] = 1
        /\ PhasesLeft["written"] = 0
        /\ {"created", "written"} \subseteq Phase
    BY DEF PhasesLeft, Phase
  <2>2. CASE EvaluateRules(r) \/ WriteReport(r)
    BY <2>1, <2>2 DEF EvaluateRules, WriteReport, control
  <2>3. CASE MergeBronze(r) \/ AppendQuarantine(r) \/ MergeDimension(r) \/ MergeSilver(r)
                \/ OverwriteRisk(r) \/ MergeScores(r)
    BY <2>1, <2>3 DEF MergeBronze, AppendQuarantine, MergeDimension, MergeSilver,
                      OverwriteRisk, MergeScores, At, control
  <2>4. CASE CreateDimension(r) \/ OverwriteMetrics(r)
    BY <2>1, <2>4 DEF CreateDimension, OverwriteMetrics, At, control
  <2> QED
    BY <1>3, <2>2, <2>3, <2>4 DEF RunStep
<1>4. CASE ~RunSucceeds(r) /\ ~RunFails(r)
  BY <1>3, <1>4, AdvanceCloser
<1> QED
  BY <1>1, <1>2, <1>4

\* An active execution is not set back by the steps of others.
LEMMA OthersLeave ==
    ASSUME IInv, NEW e \in Execution, pc[e] \in Active, Next, ~OwnStep(e)
    PROVE  AsFar(e)
<1>0. TypeOK /\ OwnersWait
  BY DEF IInv
<1>1. ASSUME pc'[e] = pc[e], tries'[e] = tries[e], Mine(e)' = Mine(e)
      PROVE  AsFar(e)
  BY <1>1 DEF AsFar, RetriesLeft, WorkLeft
<1>2. CASE \E r \in Row : Land(r)
  BY <1>1, <1>2 DEF Land, control, Mine
<1>3. CASE \E o \in Execution, rows \in Batches \cup {Row} : Start(o, rows)
  <2>1. PICK o \in Execution : pc[o] = "NotStarted" /\ pc' = [pc EXCEPT ![o] = "RunBronzeJob"]
                                /\ UNCHANGED <<runs, tries>>
    BY <1>3 DEF Start
  <2>2. o # e
    BY <2>1 DEF Active, Tasks
  <2> QED
    BY <1>0, <1>1, <2>1, <2>2 DEF TypeOK, Mine
<1>4. CASE \E o \in Execution : ExecutionStep(o) \/ TimeOut(o)
  <2>1. PICK o \in Execution : ExecutionStep(o) \/ TimeOut(o)
    BY <1>4
  <2>2. o # e
    BY <2>1 DEF OwnStep
  <2>3. pc'[e] = pc[e] /\ tries'[e] = tries[e]
    BY <1>0, <2>1, <2>2 DEF TypeOK, ExecutionStep, StartJobRun, StartRejected, TaskError,
       ReadVerdict, VerdictUnavailable, RefreshKnowledgeBase, WriteFailureReport,
       FailureReportError, TimeOut, Enter, control
  <2>4. {r \in runs' : r.owner = e} = {r \in runs : r.owner = e}
    BY <2>1, <2>2 DEF ExecutionStep, StartJobRun, StartRejected, ReadVerdict,
       VerdictUnavailable, RefreshKnowledgeBase, WriteFailureReport, FailureReportError, TimeOut
  <2> QED
    BY <1>1, <2>3, <2>4 DEF Mine
<1>5. CASE \E r \in runs : RunStep(r)
  <2>1. PICK r \in runs : RunStep(r)
    BY <1>5
  <2>2. r.owner # e /\ r.owner \in Execution /\ r \in Run
    BY <1>0, <2>1 DEF OwnStep, OwnersWait, Active, Tasks, TypeOK, Run
  <2>3. pc'[e] = pc[e] /\ tries'[e] = tries[e]
    BY <1>0, <2>1, <2>2 DEF TypeOK, RunStep, MergeBronze, AppendQuarantine, CreateDimension,
       MergeDimension, MergeSilver, OverwriteMetrics, OverwriteRisk, MergeScores, EvaluateRules,
       WriteReport, RunSucceeds, RunFails, TaskError, Enter, control
  <2>4. runs' = runs \ {r} \/ \E phase : Advance(r, phase)
    BY <2>1 DEF RunStep, MergeBronze, AppendQuarantine, CreateDimension,
       MergeDimension, MergeSilver, OverwriteMetrics, OverwriteRisk, MergeScores, EvaluateRules,
       WriteReport, RunSucceeds, RunFails
  <2>5. {q \in runs' : q.owner = e} = {q \in runs : q.owner = e}
    BY <2>2, <2>4 DEF Advance, Run
  <2> QED
    BY <1>1, <2>3, <2>5 DEF Mine
<1> QED
  BY <1>2, <1>3, <1>4, <1>5 DEF Next

\* What is left is measured in naturals, so it cannot fall for ever.
LEMMA LeftNatural == IInv => \A e \in Execution : Measured(e)
<1> SUFFICES ASSUME IInv, NEW e \in Execution PROVE Measured(e)
  OBVIOUS
<1>0. TypeOK
  BY DEF IInv
<1>1. Ahead[pc[e]] \in Nat
  BY <1>0 DEF TypeOK, Ahead
<1>2. RetriesLeft(e) \in Nat
  <2>1. \A n, m \in Nat : Unused(n, m) \in Nat
    BY DEF Unused
  <2>2. /\ tries[e]["busy"] \in Nat /\ tries[e]["fault"] \in Nat
        /\ Attempts(pc[e], "busy") \in Nat /\ Attempts(pc[e], "fault") \in Nat
        /\ LambdaRetries \in Nat
    BY <1>0, PipelineAssumption DEF TypeOK, ErrorKind, Attempts
  <2> QED
    BY <2>1, <2>2 DEF RetriesLeft, RetriesIn
<1>3. WorkLeft(e) \in 0 .. 4
  <2>1. CASE Mine(e) = {}
    BY <2>1 DEF WorkLeft, WorkIn
  <2>2. CASE Mine(e) # {}
    <3>1. (CHOOSE r \in Mine(e) : TRUE) \in Run
      BY <1>0, <2>2 DEF TypeOK, Mine
    <3> QED
      BY <2>2, <3>1 DEF WorkLeft, WorkIn, Run, Phase, PhasesLeft
  <2> QED
    BY <2>1, <2>2
<1> QED
  BY <1>1, <1>2, <1>3 DEF Measured

\* An execution takes finitely many steps, whatever fails and is retried, whoever else
\* runs, and without the timeout: each of its own lowers a triple of naturals, and no
\* other raises it.
THEOREM StepsRunOut ==
    Spec => [](\A e \in Execution : Measured(e)) /\ RetriesRunOut
<1>1. IInv /\ [Next]_vars =>
        [\A e \in Execution : pc[e] \in Active => /\ OwnStep(e) => Closer(e)
                                                  /\ AsFar(e) \/ Closer(e)]_vars
  <2> SUFFICES ASSUME IInv, Next, NEW e \in Execution, pc[e] \in Active
               PROVE  (OwnStep(e) => Closer(e)) /\ (AsFar(e) \/ Closer(e))
    OBVIOUS
  <2>1. OwnStep(e) => Closer(e)
    BY ExecutionCloser, RunCloser DEF OwnStep
  <2> QED
    BY <2>1, OthersLeave
<1> QED
  BY <1>1, LeftNatural, InductiveInvariant, PTL DEF Spec, RetriesRunOut

-----------------------------------------------------------------------------
(* When executions do not overlap and no Glue run outlives its execution,   *)
(* Pipeline implements GatedLake. Both conditions are needed: with either   *)
(* gone, TLC finds rows in silver that fail a bronze rule.                   *)

Sequential == Overlap = FALSE /\ Orphans = FALSE

-----------------------------------------------------------------------------
(* The inductive invariant: at most one execution is active and it waits    *)
(* for the only run, so that between a gate's snapshot and the promotion it  *)
(* allows, nobody writes the layer the gate judged.                         *)

OneActive ==
    \A e, o \in Execution : pc[e] \in Active /\ pc[o] \in Active => e = o

NoOrphan == \A r \in runs : pc[r.owner] = r.task

RunGated(r) ==
    /\ r.task = "RunBronzeQualityGate" =>
         /\ r.view = bronze
         /\ r.phase = "passing" => r.view \cap Unfit = {}
         /\ r.phase = "written" /\ report["bronze"].passed => bronze \subseteq cleared["bronze"]
    /\ r.task = "RunSilverJob" => r.view \subseteq cleared["bronze"]
    /\ r.task = "RunSilverQualityGate" =>
         /\ r.view = silver
         /\ r.phase = "written" /\ report["silver"].passed => silver \subseteq cleared["silver"]
    /\ r.task = "RunGoldJob" => r.view \subseteq silver \cap cleared["silver"]
    /\ r.task = "RunModelJob" => r.view \subseteq silver

ExecGated(e) ==
    /\ pc[e] = "ReadBronzeVerdict" /\ report["bronze"].passed => bronze \subseteq cleared["bronze"]
    /\ pc[e] = "RunSilverJob" => bronze \subseteq cleared["bronze"]
    /\ pc[e] = "ReadSilverVerdict" /\ report["silver"].passed => silver \subseteq cleared["silver"]
    /\ pc[e] = "RunGoldJob" => silver \subseteq cleared["silver"]

LakeGated ==
    /\ silver \subseteq cleared["bronze"]
    /\ metrics \cup risk \cup scores \subseteq silver
    /\ metrics \cup risk \subseteq cleared["silver"]
    /\ cleared["bronze"] \cap Unfit = {}

SInv ==
    /\ IInv
    /\ OneActive
    /\ NoOrphan
    /\ LakeGated
    /\ \A r \in runs : RunGated(r)
    /\ \A e \in Execution : ExecGated(e)

-----------------------------------------------------------------------------
(* The invariant is preserved.                                              *)

\* With one active execution there is one run, and its owner is that execution.
LEMMA SoleRun ==
    ASSUME SInv
    PROVE  /\ \A r, s \in runs : r = s
           /\ \A r \in runs : \A e \in Execution :
                  pc[e] \in Active => e = r.owner /\ pc[e] = r.task
           /\ \A r \in runs : r.owner \in Execution /\ r.task \in Tasks /\ r \in Run
<1>1. \A r \in runs : r.owner \in Execution /\ r.task \in Tasks /\ r \in Run
  BY DEF SInv, IInv, TypeOK, Run
<1>2. \A r \in runs : pc[r.owner] = r.task /\ pc[r.owner] \in Active
  BY <1>1 DEF SInv, NoOrphan, Active
<1>3. \A r \in runs : \A e \in Execution :
          pc[e] \in Active => e = r.owner /\ pc[e] = r.task
  BY <1>1, <1>2 DEF SInv, OneActive
<1>4. ASSUME NEW r \in runs, NEW s \in runs PROVE r = s
  <2>1. r.task = s.task
    BY <1>1, <1>2, <1>3
  <2> QED
    BY <2>1, OneRunPerTask DEF SInv, IInv
<1> QED
  BY <1>1, <1>3, <1>4

\* An execution that was active and moves on, with none of its runs left in flight,
\* keeps the invariant if it keeps its own part of it.
LEMMA MoveGated ==
    ASSUME SInv, IInv', NEW e \in Execution, pc[e] \in Active, NEW s,
           pc' = [pc EXCEPT ![e] = s],
           runs' \subseteq runs, \A r \in runs' : r.owner # e,
           UNCHANGED <<tables, report, cleared>>, ExecGated(e)'
    PROVE  SInv'
<1>1. pc'[e] = s /\ \A o \in Execution \ {e} : pc'[o] = pc[o]
  BY DEF SInv, IInv, TypeOK
<1>2. OneActive'
  BY <1>1 DEF SInv, OneActive
<1>3. NoOrphan'
  BY <1>1, SoleRun DEF SInv, NoOrphan
<1>4. LakeGated'
  BY DEF SInv, LakeGated, tables
<1>5. \A r \in runs' : RunGated(r)'
  BY DEF SInv, RunGated, tables
<1>6. ASSUME NEW o \in Execution PROVE ExecGated(o)'
  <2>1. CASE o = e
    BY <2>1
  <2>2. CASE o # e
    BY <1>1, <2>2 DEF SInv, ExecGated, tables
  <2> QED
    BY <2>1, <2>2
<1> QED
  BY <1>2, <1>3, <1>4, <1>5, <1>6 DEF SInv

\* A run that ends, or nothing, with every execution where it was.
LEMMA StayGated ==
    ASSUME SInv, IInv', runs' \subseteq runs, UNCHANGED <<tables, report, cleared, pc>>
    PROVE  SInv'
<1>1. OneActive' /\ NoOrphan'
  BY DEF SInv, OneActive, NoOrphan
<1>2. LakeGated'
  BY DEF SInv, LakeGated, tables
<1>3. \A r \in runs' : RunGated(r)'
  BY DEF SInv, RunGated, tables
<1>4. \A e \in Execution : ExecGated(e)'
  BY DEF SInv, ExecGated, tables
<1> QED
  BY <1>1, <1>2, <1>3, <1>4 DEF SInv

\* States from which nothing is promoted.
Settled == {"WriteFailureReport", "RefreshKnowledgeBase", "RunModelJob",
            "RunBronzeQualityGate", "RunSilverQualityGate"} \cup Terminal

\* Entering one of them keeps the invariant.
LEMMA SettleGated ==
    ASSUME SInv, IInv', NEW e \in Execution, pc[e] \in Active, NEW s \in Settled,
           pc' = [pc EXCEPT ![e] = s],
           runs' \subseteq runs, \A r \in runs' : r.owner # e,
           UNCHANGED <<tables, report, cleared>>
    PROVE  SInv'
<1>1. pc'[e] = s
  BY DEF SInv, IInv, TypeOK
<1>2. ExecGated(e)'
  BY <1>1 DEF ExecGated, Settled, Terminal
<1> QED
  BY <1>2, MoveGated

\* A retry or a move to the failure branch.
LEMMA TaskErrorGated ==
    ASSUME SInv, IInv', NEW e \in Execution, NEW kind \in ErrorKind, TaskError(e, kind),
           pc[e] \in Tasks, runs' \subseteq runs, \A r \in runs' : r.owner # e,
           UNCHANGED <<tables, report, cleared>>
    PROVE  SInv'
<1>1. CASE UNCHANGED pc
  BY <1>1, StayGated
<1>2. CASE Enter(e, "WriteFailureReport")
  BY <1>2, SettleGated DEF Enter, Active, Settled
<1> QED
  BY <1>1, <1>2 DEF TaskError

\* The snapshot of a new run is the table as the last gate judged it.
LEMMA StartJobRunGated ==
    ASSUME SInv, IInv', NEW e \in Execution, StartJobRun(e)
    PROVE  SInv'
<1> DEFINE n == [owner |-> e, task |-> pc[e], phase |-> "started",
                 view |-> Source(e, pc[e])]
<1>1. pc[e] \in Tasks /\ ~Waiting(e) /\ runs' = runs \cup {n}
  BY DEF StartJobRun
<1>2. UNCHANGED <<tables, report, cleared, pc>>
  BY DEF StartJobRun, control, history
<1>3. runs = {}
  BY <1>1, SoleRun DEF Waiting, Active
<1>4. NoOrphan' /\ OneActive'
  BY <1>1, <1>2, <1>3 DEF NoOrphan, OneActive, SInv
<1>5. ASSUME NEW r \in runs' PROVE RunGated(r)'
  <2>1. r.owner = e /\ r.task = pc[e] /\ r.phase = "started" /\ r.view = Source(e, pc[e])
    BY <1>1, <1>3
  <2>2. /\ pc[e] \in {"RunBronzeQualityGate", "RunSilverJob"} => r.view = bronze
        /\ pc[e] \in {"RunSilverQualityGate", "RunGoldJob", "RunModelJob"} => r.view = silver
    BY <2>1 DEF Source
  <2> QED
    BY <1>2, <2>1, <2>2 DEF SInv, RunGated, ExecGated, tables
<1>6. \A o \in Execution : ExecGated(o)'
  BY <1>2 DEF SInv, ExecGated, tables
<1>7. LakeGated'
  BY <1>2 DEF SInv, LakeGated, tables
<1> QED
  BY <1>4, <1>5, <1>6, <1>7 DEF SInv

\* A passing verdict promotes a layer that is certified as it stands.
LEMMA ReadVerdictGated ==
    ASSUME SInv, IInv', NEW e \in Execution, NEW l \in Layer, ReadVerdict(e, l)
    PROVE  SInv'
<1>1. pc[e] = Verdicts[l] /\ l \in {"bronze", "silver"}
  BY DEF ReadVerdict, Layer
<1>2. pc[e] \in {"ReadBronzeVerdict", "ReadSilverVerdict"}
  BY <1>1, ChainValues
<1>3. pc[e] \in Active /\ \A r \in runs : r.owner # e
  BY <1>2, SoleRun DEF Active, Tasks
<1>4. UNCHANGED <<tables, report, runs, cleared>>
  BY DEF ReadVerdict
<1>5. CASE Enter(e, "WriteFailureReport")
  BY <1>3, <1>4, <1>5, SettleGated DEF Enter, Settled
<1>6. CASE report[l].passed /\ Enter(e, Promotion[l])
  <2>1. pc' = [pc EXCEPT ![e] = Promotion[l]] /\ pc'[e] = Promotion[l]
    BY <1>6 DEF Enter, SInv, IInv, TypeOK
  <2>2. ExecGated(e)
    BY DEF SInv
  <2>3. ExecGated(e)'
    BY <1>1, <1>4, <1>6, <2>1, <2>2, ChainValues DEF ExecGated, tables
  <2> QED
    BY <1>3, <1>4, <2>1, <2>3, MoveGated
<1> QED
  BY <1>5, <1>6 DEF ReadVerdict

\* The steps of an execution.
LEMMA ExecutionGated ==
    ASSUME Sequential, SInv, IInv', NEW e \in Execution, ExecutionStep(e) \/ TimeOut(e)
    PROVE  SInv'
<1>1. CASE StartJobRun(e)
  BY <1>1, StartJobRunGated
<1>2. CASE StartRejected(e)
  <2>1. \A r \in runs' : r.owner # e
    BY <1>2, SoleRun DEF StartRejected, Waiting, Active
  <2> QED
    BY <1>2, <2>1, TaskErrorGated DEF StartRejected, history
<1>3. CASE \E l \in Layer : ReadVerdict(e, l)
  BY <1>3, ReadVerdictGated
<1>4. CASE \E l \in Layer : VerdictUnavailable(e, l)
  <2>1. pc[e] \in {"ReadBronzeVerdict", "ReadSilverVerdict"}
    BY <1>4, ChainValues DEF VerdictUnavailable, Layer
  <2>2. pc[e] \in Active /\ \A r \in runs' : r.owner # e
    BY <1>4, <2>1, SoleRun DEF VerdictUnavailable, Active, Tasks
  <2> QED
    BY <1>4, <2>2, SettleGated DEF VerdictUnavailable, Enter, history, Settled, Terminal
<1>5. CASE RefreshKnowledgeBase(e)
  <2>1. pc[e] \in Active /\ \A r \in runs' : r.owner # e
    BY <1>5, SoleRun DEF RefreshKnowledgeBase, Active, Tasks
  <2> QED
    BY <1>5, <2>1, SettleGated DEF RefreshKnowledgeBase, Enter, history, Settled, Terminal
<1>6. CASE WriteFailureReport(e)
  <2>1. pc[e] \in Active /\ \A r \in runs' : r.owner # e
    BY <1>6, SoleRun DEF WriteFailureReport, Active, Tasks
  <2> QED
    BY <1>6, <2>1, SettleGated DEF WriteFailureReport, Enter, history, Settled, Terminal
<1>7. CASE FailureReportError(e)
  <2>1. pc[e] \in Active /\ \A r \in runs' : r.owner # e
    BY <1>7, SoleRun DEF FailureReportError, Active, Tasks
  <2>2. UNCHANGED <<tables, report, runs, cleared>>
    BY <1>7 DEF FailureReportError, history
  <2>3. CASE UNCHANGED pc
    BY <2>2, <2>3, StayGated
  <2>4. CASE Enter(e, "PipelineFailed")
    BY <2>1, <2>2, <2>4, SettleGated DEF Enter, Settled, Terminal
  <2> QED
    BY <1>7, <2>3, <2>4 DEF FailureReportError
<1>8. CASE TimeOut(e)
  <2>1. runs' = {r \in runs : r.owner # e}
    BY <1>8 DEF TimeOut, Sequential
  <2> QED
    BY <1>8, <2>1, SettleGated DEF TimeOut, history, Settled, Terminal
<1> QED
  BY <1>1, <1>2, <1>3, <1>4, <1>5, <1>6, <1>7, <1>8 DEF ExecutionStep

\* A finished run of a job promotes nothing; a finished gate leaves the report the
\* verdict Lambda will read.
LEMMA RunSucceedsGated ==
    ASSUME SInv, IInv', NEW r \in runs, RunSucceeds(r)
    PROVE  SInv'
<1> DEFINE e == r.owner
<1>1. /\ e \in Execution /\ r.task \in Tasks /\ pc[e] = r.task /\ r.phase = "written"
      /\ pc[e] \in Active /\ RunGated(r)
  BY SoleRun DEF SInv, NoOrphan, RunSucceeds, Complete, Active
<1>2. runs' = {}
  BY SoleRun DEF RunSucceeds
<1>3. UNCHANGED <<tables, report, cleared>>
  BY DEF RunSucceeds, history
<1>4. pc' = [pc EXCEPT ![e] = NextState[r.task]] /\ pc'[e] = NextState[r.task]
  BY <1>1 DEF RunSucceeds, Enter, SInv, IInv, TypeOK
<1>5. ExecGated(e)'
  BY <1>1, <1>3, <1>4, ChainValues DEF ExecGated, RunGated, Tasks, tables
<1> QED
  BY <1>1, <1>2, <1>3, <1>4, <1>5, MoveGated

\* A dead run is retried or ends its execution.
LEMMA RunFailsGated ==
    ASSUME SInv, IInv', NEW r \in runs, RunFails(r)
    PROVE  SInv'
<1>1. r.owner \in Execution /\ pc[r.owner] = r.task /\ pc[r.owner] \in Tasks
  BY SoleRun DEF SInv, NoOrphan
<1>2. runs' = {}
  BY SoleRun DEF RunFails
<1> QED
  BY <1>1, <1>2, TaskErrorGated DEF RunFails, ErrorKind, history

\* What the writes of a run share: the run stays the only one and its owner waits.
LEMMA WriteGated ==
    ASSUME SInv, IInv', NEW r \in runs, NEW phase \in Phase, Advance(r, phase), UNCHANGED pc,
           LakeGated', RunGated([r EXCEPT !.phase = phase])',
           r.task = "RunSilverJob" => bronze' = bronze /\ cleared["bronze"] \subseteq cleared'["bronze"],
           r.task = "RunGoldJob" => silver' = silver /\ cleared["silver"] \subseteq cleared'["silver"]
    PROVE  SInv'
<1>1. runs' = {[r EXCEPT !.phase = phase]}
  BY SoleRun DEF Advance
<1>2. [r EXCEPT !.phase = phase].owner = r.owner /\ [r EXCEPT !.phase = phase].task = r.task
  BY SoleRun DEF Run
<1>3. OneActive' /\ NoOrphan'
  BY <1>1, <1>2 DEF SInv, OneActive, NoOrphan
<1>4. ASSUME NEW o \in Execution PROVE ExecGated(o)'
  <2>1. pc[o] \in Active => pc[o] = r.task /\ pc[o] \in Tasks
    BY SoleRun
  <2>2. pc[o] \notin {"ReadBronzeVerdict", "ReadSilverVerdict"}
    BY <2>1 DEF Active, Tasks
  <2>3. ExecGated(o)
    BY DEF SInv
  <2> QED
    BY <2>1, <2>2, <2>3 DEF ExecGated, Active, Tasks
<1> QED
  BY <1>1, <1>3, <1>4 DEF SInv

\* The steps of a run.
LEMMA RunGatedKeeps ==
    ASSUME SInv, IInv', NEW r \in runs, RunStep(r)
    PROVE  SInv'
<1>0. /\ r \in Run /\ RunGated(r) /\ LakeGated /\ RunInv(r)
      /\ \A phase : /\ [r EXCEPT !.phase = phase].task = r.task
                    /\ [r EXCEPT !.phase = phase].view = r.view
                    /\ [r EXCEPT !.phase = phase].phase = phase
  BY SoleRun DEF SInv, Run, IInv
<1>1. CASE RunSucceeds(r)
  BY <1>1, RunSucceedsGated
<1>2. CASE RunFails(r)
  BY <1>2, RunFailsGated
<1>3. CASE MergeBronze(r)
  <2>1. /\ r.task = "RunBronzeJob" /\ Advance(r, "merged")
        /\ UNCHANGED <<silver, metrics, risk, scores, pc, cleared>>
    BY <1>3 DEF MergeBronze, At, control
  <2>2. LakeGated' /\ RunGated([r EXCEPT !.phase = "merged"])'
    BY <1>0, <2>1 DEF LakeGated, RunGated
  <2> QED
    BY <2>1, <2>2, WriteGated DEF Phase
<1>4. CASE AppendQuarantine(r)
  <2>1. /\ r.task = "RunBronzeJob" /\ Advance(r, "written")
        /\ UNCHANGED <<silver, metrics, risk, scores, pc, cleared>>
    BY <1>4 DEF AppendQuarantine, At, control, history
  <2>2. LakeGated' /\ RunGated([r EXCEPT !.phase = "written"])'
    BY <1>0, <2>1 DEF LakeGated, RunGated
  <2> QED
    BY <2>1, <2>2, WriteGated DEF Phase
<1>5. CASE CreateDimension(r) \/ MergeDimension(r)
  <2>1. /\ r.task = "RunSilverJob"
        /\ UNCHANGED <<bronze, silver, metrics, risk, scores, pc, cleared>>
    BY <1>5 DEF CreateDimension, MergeDimension, At, control, history
  <2>2. PICK phase \in Phase : Advance(r, phase)
    BY <1>5 DEF CreateDimension, MergeDimension, Phase
  <2>3. LakeGated' /\ RunGated([r EXCEPT !.phase = phase])'
    BY <1>0, <2>1 DEF LakeGated, RunGated
  <2> QED
    BY <2>1, <2>2, <2>3, WriteGated
<1>6. CASE MergeSilver(r)
  <2>1. /\ r.task = "RunSilverJob" /\ Advance(r, "written") /\ silver' = silver \cup r.view
        /\ UNCHANGED <<bronze, metrics, risk, scores, pc, cleared>>
    BY <1>6 DEF MergeSilver, At, control, history
  <2>2. LakeGated' /\ RunGated([r EXCEPT !.phase = "written"])'
    BY <1>0, <2>1 DEF LakeGated, RunGated
  <2> QED
    BY <2>1, <2>2, WriteGated DEF Phase
<1>7. CASE OverwriteMetrics(r) \/ OverwriteRisk(r)
  <2>1. /\ r.task = "RunGoldJob" /\ metrics' \in {metrics, r.view} /\ risk' \in {risk, r.view}
        /\ UNCHANGED <<bronze, silver, scores, pc, cleared>>
    BY <1>7 DEF OverwriteMetrics, OverwriteRisk, At, control, history
  <2>2. PICK phase \in Phase : Advance(r, phase)
    BY <1>7 DEF OverwriteMetrics, OverwriteRisk, Phase
  <2>3. LakeGated' /\ RunGated([r EXCEPT !.phase = phase])'
    BY <1>0, <2>1 DEF LakeGated, RunGated
  <2> QED
    BY <2>1, <2>2, <2>3, WriteGated
<1>8. CASE MergeScores(r)
  <2>1. /\ r.task = "RunModelJob" /\ Advance(r, "written") /\ scores' = scores \cup r.view
        /\ UNCHANGED <<bronze, silver, metrics, risk, pc, cleared>>
    BY <1>8 DEF MergeScores, At, control, history
  <2>2. LakeGated' /\ RunGated([r EXCEPT !.phase = "written"])'
    BY <1>0, <2>1 DEF LakeGated, RunGated
  <2> QED
    BY <2>1, <2>2, WriteGated DEF Phase
<1>9. CASE EvaluateRules(r)
  <2>1. r.task \in {"RunBronzeQualityGate", "RunSilverQualityGate"}
    BY <1>0, <1>9, ChainValues DEF EvaluateRules, Run
  <2>2. UNCHANGED <<bronze, silver, metrics, risk, scores, pc, cleared, report>>
    BY <1>9 DEF EvaluateRules, tables, control, history
  <2>3. PICK phase \in {"passing", "failing"} :
            /\ Advance(r, phase)
            /\ phase = "passing" /\ r.task = "RunBronzeQualityGate" => r.view \cap Unfit = {}
    BY <1>9 DEF EvaluateRules, BronzeRulesHold, GateLayer
  <2>4. LakeGated' /\ RunGated([r EXCEPT !.phase = phase])'
    BY <1>0, <2>1, <2>2, <2>3 DEF LakeGated, RunGated
  <2> QED
    BY <2>1, <2>2, <2>3, <2>4, WriteGated DEF Phase
<1>10. CASE WriteReport(r)
  <2>1. r.task \in {"RunBronzeQualityGate", "RunSilverQualityGate"}
    BY <1>0, <1>10, ChainValues DEF WriteReport, Run
  <2>2. Advance(r, "written") /\ UNCHANGED <<bronze, silver, metrics, risk, scores, pc>>
    BY <1>10 DEF WriteReport, tables, control
  <2>3. \A l \in Layer :
            IF GateLayer(r) = l
            THEN /\ report'[l].passed <=> r.phase = "passing"
                 /\ IF r.phase = "passing" THEN cleared'[l] = cleared[l] \cup r.view
                                           ELSE cleared'[l] = cleared[l]
            ELSE report'[l] = report[l] /\ cleared'[l] = cleared[l]
    <3>1. report \in [Layer -> Report] /\ cleared \in [Layer -> SUBSET Row] /\ GateLayer(r) \in Layer
      BY DEF SInv, IInv, TypeOK, GateLayer, Layer
    <3> QED
      BY <1>10, <3>1 DEF WriteReport
  <2>4. LakeGated'
    BY <1>0, <2>1, <2>2, <2>3 DEF LakeGated, RunGated, GateLayer, Layer
  <2>5. RunGated([r EXCEPT !.phase = "written"])'
    BY <1>0, <2>1, <2>2, <2>3 DEF RunGated, GateLayer, Layer
  <2> QED
    BY <2>1, <2>2, <2>4, <2>5, WriteGated DEF Phase
<1> QED
  BY <1>1, <1>2, <1>3, <1>4, <1>5, <1>6, <1>7, <1>8, <1>9, <1>10 DEF RunStep

\* The invariant of the sequential pipeline.
THEOREM SequentialInvariant ==
    ASSUME Sequential
    PROVE  Spec => []SInv
<1>1. Init /\ IInv => SInv
  BY DEF Init, SInv, OneActive, NoOrphan, LakeGated, ExecGated, Layer, Active, Tasks
<1>2. SInv /\ IInv' /\ [Next]_vars => SInv'
  <2> SUFFICES ASSUME SInv, IInv', [Next]_vars PROVE SInv'
    OBVIOUS
  <2>1. CASE \E r \in Row : Land(r)
    BY <2>1, StayGated DEF Land, control, history
  <2>2. CASE \E e \in Execution, rows \in Batches \cup {Row} : Start(e, rows)
    <3>1. PICK e \in Execution, rows \in Batches \cup {Row} : Start(e, rows)
      BY <2>2
    <3>2. /\ \A o \in Execution : pc[o] \notin Active
          /\ UNCHANGED <<tables, report, runs, cleared>>
          /\ pc'[e] = "RunBronzeJob" /\ \A o \in Execution \ {e} : pc'[o] = pc[o]
      BY <3>1 DEF Start, history, Sequential, SInv, IInv, TypeOK
    <3>3. runs' = {}
      BY <3>2, SoleRun DEF SInv, NoOrphan, Active
    <3>4. OneActive'
      BY <3>2 DEF OneActive
    <3>5. ASSUME NEW o \in Execution PROVE ExecGated(o)'
      BY <3>2 DEF SInv, ExecGated, tables
    <3>6. LakeGated'
      BY <3>2 DEF SInv, LakeGated, tables
    <3> QED
      BY <3>3, <3>4, <3>5, <3>6 DEF SInv, NoOrphan
  <2>3. CASE \E e \in Execution : ExecutionStep(e) \/ TimeOut(e)
    BY <2>3, ExecutionGated
  <2>4. CASE \E r \in runs : RunStep(r)
    BY <2>4, RunGatedKeeps
  <2>5. CASE UNCHANGED vars
    BY <2>5, StayGated DEF vars, control, history
  <2> QED
    BY <2>1, <2>2, <2>3, <2>4, <2>5 DEF Next
<1> QED
  BY <1>1, <1>2, InductiveInvariant, PTL DEF Spec

\* No row that fails a bronze rule is ever in silver, in a gold aggregate or scored.
THEOREM StaleNeverWrong ==
    ASSUME Sequential
    PROVE  Spec => []NeverWrong
<1>1. SInv => NeverWrong
  BY DEF SInv, LakeGated, NeverWrong
<1> QED
  BY <1>1, SequentialInvariant, PTL

-----------------------------------------------------------------------------
(* The refinement: a MERGE into bronze ingests, a passing report certifies,  *)
(* a MERGE into silver promotes, an overwrite of an aggregate summarises,    *)
(* and every other step leaves the lake as it is.                            *)

lakeVars == <<bronze, silver, metrics, risk, cleared>>

\* Steps that leave the lake alone are stutters of GatedLake.
LEMMA OtherStepsStutter ==
    ASSUME UNCHANGED lakeVars
    PROVE  UNCHANGED Lake!lake
BY DEF lakeVars, Lake!lake

\* The initial states map to initial states.
LEMMA LakeInit == Init => Lake!Init
<1> SUFFICES ASSUME Init PROVE Lake!Init
  OBVIOUS
<1>1. bronze = {} /\ silver = {}
  BY DEF Init
<1>2. [a \in {"metrics", "risk"} |-> IF a = "metrics" THEN metrics ELSE risk]
        = [a \in Lake!Aggregate |-> {}]
  BY DEF Init, Lake!Aggregate
<1>3. cleared = [l \in {"bronze", "silver"} |-> {}]
  BY DEF Init, Layer
<1> QED
  BY <1>1, <1>2, <1>3 DEF Lake!Init

\* Each write of a run is an operation of the gated lake, or none of its business.
LEMMA RunStepImplements ==
    ASSUME SInv, TypeOK', NEW r \in runs, RunStep(r)
    PROVE  [Lake!Next]_(Lake!lake)
<1>0. /\ RunGated(r) /\ LakeGated /\ RunInv(r) /\ TypeOK /\ r \in Run
      /\ metrics \cup risk \subseteq silver
  BY SoleRun DEF SInv, IInv
<1>1. CASE MergeBronze(r)
  <2>1. bronze' \in SUBSET Row /\ bronze \subseteq bronze'
    BY <1>1 DEF MergeBronze, TypeOK
  <2>2. Lake!Ingest
    BY <1>1, <2>1 DEF MergeBronze, Lake!Ingest
  <2> QED
    BY <2>2 DEF Lake!Next
<1>2. CASE MergeSilver(r)
  <2>1. silver' \in SUBSET cleared["bronze"] /\ silver \subseteq silver'
    BY <1>0, <1>2 DEF MergeSilver, At, RunGated, LakeGated
  <2>2. Lake!Promote
    BY <1>2, <2>1 DEF MergeSilver, Lake!Promote, history
  <2> QED
    BY <2>2 DEF Lake!Next
<1>3. CASE OverwriteMetrics(r)
  <2>1. /\ metrics' \in SUBSET cleared["silver"] /\ metrics \subseteq metrics'
        /\ UNCHANGED <<bronze, silver, risk, cleared>>
    BY <1>0, <1>3 DEF OverwriteMetrics, At, RunGated, RunInv, LakeGated, history
  <2>2. Lake!Summarise("metrics")
    BY <2>1 DEF Lake!Summarise
  <2> QED
    BY <2>2 DEF Lake!Next, Lake!Aggregate
<1>4. CASE OverwriteRisk(r)
  <2>1. /\ risk' \in SUBSET cleared["silver"] /\ risk \subseteq risk'
        /\ UNCHANGED <<bronze, silver, metrics, cleared>>
    BY <1>0, <1>4 DEF OverwriteRisk, At, RunGated, RunInv, LakeGated, history
  <2>2. Lake!Summarise("risk")
    BY <2>1 DEF Lake!Summarise
  <2> QED
    BY <2>2 DEF Lake!Next, Lake!Aggregate
<1>5. CASE WriteReport(r)
  <2>1. r.task \in {"RunBronzeQualityGate", "RunSilverQualityGate"}
    BY <1>0, <1>5, ChainValues DEF WriteReport, Run
  <2>2. UNCHANGED <<bronze, silver, metrics, risk>>
    BY <1>5 DEF WriteReport, tables
  <2>3. CASE r.phase = "failing"
    BY <1>5, <2>2, <2>3, OtherStepsStutter DEF WriteReport, lakeVars
  <2>4. CASE r.phase = "passing"
    <3>1. \/ cleared' = [cleared EXCEPT !["bronze"] = @ \cup bronze]
          \/ cleared' = [cleared EXCEPT !["silver"] = @ \cup silver]
      BY <1>0, <1>5, <2>1, <2>4 DEF WriteReport, GateLayer, RunGated
    <3>2. Lake!Certify
      BY <2>2, <3>1 DEF Lake!Certify
    <3> QED
      BY <3>2 DEF Lake!Next
  <2> QED
    BY <1>5, <2>3, <2>4 DEF WriteReport
<1>6. CASE AppendQuarantine(r) \/ CreateDimension(r) \/ MergeDimension(r) \/ MergeScores(r)
  BY <1>6, OtherStepsStutter DEF AppendQuarantine, CreateDimension, MergeDimension,
     MergeScores, lakeVars, history
<1>7. CASE EvaluateRules(r) \/ RunSucceeds(r) \/ RunFails(r)
  BY <1>7, OtherStepsStutter DEF EvaluateRules, RunSucceeds, RunFails, lakeVars, tables,
     history
<1> QED
  BY <1>1, <1>2, <1>3, <1>4, <1>5, <1>6, <1>7 DEF RunStep

\* The pipeline implements the gated lake.
THEOREM Refinement ==
    ASSUME Sequential
    PROVE  Spec => GatedLakeImplemented
<1>1. SInv /\ TypeOK' /\ [Next]_vars => [Lake!Next]_(Lake!lake)
  <2> SUFFICES ASSUME SInv, TypeOK', [Next]_vars PROVE [Lake!Next]_(Lake!lake)
    OBVIOUS
  <2>1. CASE \E r \in Row : Land(r)
    BY <2>1, OtherStepsStutter DEF Land, lakeVars, tables, history
  <2>2. CASE \E e \in Execution, rows \in Batches \cup {Row} : Start(e, rows)
    BY <2>2, OtherStepsStutter DEF Start, lakeVars, tables, history
  <2>3. CASE \E e \in Execution : ExecutionStep(e) \/ TimeOut(e)
    BY <2>3, OtherStepsStutter DEF ExecutionStep, StartJobRun, StartRejected, ReadVerdict,
       VerdictUnavailable, RefreshKnowledgeBase, WriteFailureReport, FailureReportError,
       TimeOut, lakeVars, tables, history
  <2>4. CASE \E r \in runs : RunStep(r)
    BY <2>4, RunStepImplements
  <2>5. CASE UNCHANGED vars
    BY <2>5, OtherStepsStutter DEF vars, lakeVars, tables, history
  <2> QED
    BY <2>1, <2>2, <2>3, <2>4, <2>5 DEF Next
<1> QED
  BY <1>1, LakeInit, SequentialInvariant, TypeCorrect, PTL DEF Spec, Lake!Spec, GatedLakeImplemented
=============================================================================
