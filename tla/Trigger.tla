--------------------------------- MODULE Trigger ---------------------------------
(***************************************************************************)
(* What starts an execution of the pipeline: orchestration/lambdas/          *)
(* s3_trigger.py, once or more for every object that lands in the raw zone,   *)
(* and the hourly schedule. An execution is known by the partition it is to   *)
(* read and the bucket of time it was asked for in; Step Functions refuses a  *)
(* name it has had.                                                           *)
(***************************************************************************)
EXTENDS Naturals, FiniteSets

CONSTANTS
    LastTick,         \* bound: the clock, in buckets of BUCKET_MINUTES
    BucketsPerDay,
    MaxTriggered,     \* bound: executions started for objects
    MaxFailures       \* bound: executions that end early

ASSUME TriggerAssumption ==
    /\ {LastTick, MaxTriggered, MaxFailures} \subseteq Nat
    /\ BucketsPerDay \in Nat \ {0}

DayOf(t) == t \div BucketsPerDay
Day == 0 .. DayOf(LastTick)
Ticks == 0 .. LastTick

\* The schedule gives no process_date: its execution reads every partition.
Every == DayOf(LastTick) + 1
Hourly == <<Every, 0>>
Name == (Day \X Ticks) \cup {Hourly}

\* The job an execution runs next.
Steps == {"none", "bronze", "silver", "gold", "done"}

VARIABLES
    clock,
    execution,     \* where the execution of each name is
    failures

triggerVars == <<clock, execution, failures>>

TriggerTypeOK ==
    /\ clock \in Ticks
    /\ execution \in [Name -> Steps]
    /\ failures \in 0 .. MaxFailures

TriggerInit ==
    /\ clock = 0
    /\ execution = [n \in Name |-> "none"]
    /\ failures = 0

today == DayOf(clock)
Active(n) == execution[n] \in {"bronze", "silver", "gold"}
At(n, job) == execution[n] = job
Proceed(n, job) == execution' = [execution EXCEPT ![n] = job]

\* _execution_name: the time is that of the call, not of the object.
ExecutionName(part) == <<part, clock>>

\* ExecutionAlreadyExists is swallowed: another object of the bucket won the race.
StartExecution(part) ==
    LET name == ExecutionName(part) IN
    /\ At(name, "none")
    /\ Cardinality({n \in Name \ {Hourly} : ~At(n, "none")}) < MaxTriggered
    /\ Proceed(name, "bronze")
    /\ UNCHANGED <<clock, failures>>

\* As below, with the date of the day as process_date.
ScheduledScopeToday == {today}

\* What an execution without a process_date reads.
ScheduledScope == Day

\* bronze_job: dt=<process_date>/ or all of it.
Scope(n) == IF n = Hourly THEN ScheduledScope ELSE {n[1]}

\* aws_scheduler_schedule.hourly, while it is enabled; an execution has ended before
\* the next hour.
Schedule ==
    /\ ~Active(Hourly)
    /\ Proceed(Hourly, "bronze")
    /\ UNCHANGED <<clock, failures>>

\* A gate fails, a job's retries are used up, the execution times out.
EndEarly(n) ==
    /\ Active(n)
    /\ failures < MaxFailures
    /\ failures' = failures + 1
    /\ Proceed(n, "done")
    /\ UNCHANGED clock

Tick ==
    /\ clock < LastTick
    /\ clock' = clock + 1
    /\ UNCHANGED <<execution, failures>>
=============================================================================
