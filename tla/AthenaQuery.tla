----------------------------- MODULE AthenaQuery -----------------------------
(***************************************************************************)
(* run_athena_query of agents/tools/sql_tool.py, the one way into Athena of  *)
(* the chat tool, the MCP server and the dashboards.  A gold table is its    *)
(* number of rows, in the order the statements ask for: a result is a prefix *)
(* of the table as it was at some moment while the query ran.                *)
(***************************************************************************)
EXTENDS AgentConfig, FiniteSetsExt

CONSTANTS
    Client,
    Unlimited,   \* the LIMIT of a statement that has none
    MaxGold      \* bound on the commits to the gold table

ASSUME AthenaAssumption ==
    /\ {Unlimited, MaxGold} \subseteq Nat
    /\ MaxGold <= Unlimited
    /\ Cap <= Unlimited

VARIABLES
    gold,        \* rows of the gold table
    run          \* the client's call, with what Athena itself knows of the query

Idle == [phase |-> "idle", state |-> "NONE", age |-> 0, limit |-> 0, seen |-> 0]

AthenaTypeOK ==
    /\ gold \in 0 .. MaxGold
    /\ run \in [Client -> [phase : {"idle", "polling", "stopping", "returned", "raised", "broken"},
                           state : {"NONE", "RUNNING", "SUCCEEDED", "FAILED", "CANCELLED"},
                           age : 0 .. Timeout + 1, limit : 0 .. Unlimited, seen : 0 .. MaxGold]]

AthenaInit == gold = 0 /\ run = [c \in Client |-> Idle]

\* start_query_execution; the deadline is set right after it.
StartQuery(c, limit) ==
    /\ run[c].phase = "idle"
    /\ run' = [run EXCEPT ![c] = [phase |-> "polling", state |-> "RUNNING", age |-> 0,
                                  limit |-> limit, seen |-> gold]]

\* The query ends in its own time: with the rows of some snapshot of its lifetime, or not.
QueryEnds(c) ==
    /\ run[c].state = "RUNNING"
    /\ \/ \E v \in run[c].seen .. gold :
              run' = [run EXCEPT ![c] = [@ EXCEPT !.state = "SUCCEEDED", !.seen = v]]
       \/ run' = [run EXCEPT ![c].state = "FAILED"]
    /\ UNCHANGED gold

\* A poll that finds the query ended fetches its rows, or raises RuntimeError.
PollEnded(c) ==
    /\ run[c].phase = "polling" /\ run[c].state \in {"SUCCEEDED", "FAILED", "CANCELLED"}
    /\ run' = [run EXCEPT ![c].phase = IF run[c].state = "SUCCEEDED" THEN "returned" ELSE "raised"]
    /\ UNCHANGED gold

\* As below, with the deadline set anew by every poll.
PollLateAgain(c) ==
    /\ run[c].phase = "polling" /\ run[c].state = "RUNNING" /\ run[c].age > Timeout
    /\ run' = [run EXCEPT ![c].age = 0]
    /\ UNCHANGED gold

\* A poll that reads RUNNING after the deadline.  The query may still end before the stop.
PollLate(c) ==
    /\ run[c].phase = "polling" /\ run[c].state = "RUNNING" /\ run[c].age > Timeout
    /\ run' = [run EXCEPT ![c].phase = "stopping"]
    /\ UNCHANGED gold

\* As below, with the exception raised and the query left to run.
StopQueryForgotten(c) ==
    /\ run[c].phase = "stopping"
    /\ run' = [run EXCEPT ![c].phase = "raised"]
    /\ UNCHANGED gold

\* stop_query_execution does nothing to a query that has ended.
Stopped(state) == IF state = "RUNNING" THEN "CANCELLED" ELSE state

\* TimeoutError, after the stop.
StopQuery(c) ==
    /\ run[c].phase = "stopping"
    /\ run' = [run EXCEPT ![c] = [@ EXCEPT !.phase = "raised",
                                        !.state = Stopped(run[c].state)]]
    /\ UNCHANGED gold

\* The rows _fetch_results returns: those of the statement, up to the cap.
FetchResults(c) == Min({run[c].seen, run[c].limit, Cap})

\* A call to Athena fails: the ClientError passes through, the query is left alone.
CallFails(c) ==
    /\ run[c].phase \in {"polling", "stopping"}
    /\ run' = [run EXCEPT ![c].phase = "broken"]
    /\ UNCHANGED gold

\* The caller takes the result, or catches the exception.
Take(c) == run' = [run EXCEPT ![c] = Idle]

Commit == gold < MaxGold /\ gold' = gold + 1 /\ UNCHANGED run

AthenaStep(c) == PollEnded(c) \/ PollLate(c) \/ StopQuery(c)
=============================================================================
