------------------------------- MODULE Analytics -------------------------------
(***************************************************************************)
(* The readers of the gold layer in one process, on one clock, while the     *)
(* pipeline commits to the tables they read.                                 *)
(***************************************************************************)
EXTENDS SqlTool, Dashboards

CONSTANT Groups    \* bound: the sets of callers that come, one of them in a behaviour

VARIABLE coming    \* the callers of this behaviour

\* A call of run_athena_query is of one caller.
ASSUME AnalyticsAssumption == Asker \cap Viewer = {}

vars == <<gold, run, schemaVars, ask, prompt, cache, view, past, coming>>

Init == AthenaInit /\ CacheInit /\ ToolInit /\ DashboardInit /\ coming \in Groups

\* Ages saturate where the code stops telling them apart.
Older(age, limit) == IF age < limit THEN age + 1 ELSE age

Tick ==
    /\ past' = [k \in 0 .. TTL - 1 |-> IF k = 0 THEN gold ELSE past[k - 1]]
    /\ fetched' = [i \in Asker |-> Older(fetched[i], SchemaTTL)]
    /\ cache' = [n \in Name |-> [cache[n] EXCEPT !.age = Older(@, TTL)]]
    /\ view' = [v \in Viewer |-> IF view[v].phase = "querying"
                                 THEN [view[v] EXCEPT !.age = Older(@, TTL)] ELSE view[v]]
    /\ run' = [c \in Client |-> IF run[c].phase = "polling"
                                THEN [run[c] EXCEPT !.age = Older(@, Timeout + 1)] ELSE run[c]]
    /\ UNCHANGED <<gold, catalog, shared, mine, tables, holder, scan, ask, prompt, coming>>

\* The steps of each part leave the rest alone.
AthenaPart == UNCHANGED <<schemaVars, ask, prompt, dashboardVars, past, coming>>
ToolPart == UNCHANGED <<dashboardVars, past, coming>>
DashboardPart == UNCHANGED <<schemaVars, ask, prompt, past, coming>>

Next ==
    \/ Tick
    \/ \E c \in Client : (QueryEnds(c) \/ CallFails(c) \/ AthenaStep(c)) /\ AthenaPart
    \/ Commit /\ AthenaPart
    \/ Evolve /\ UNCHANGED <<gold, run, ask, prompt>> /\ ToolPart
    \/ \E r \in Asker : ((r \in coming /\ Ask(r)) \/ ToolStep(r)) /\ ToolPart
    \/ \E v \in Viewer : ((v \in coming /\ Open(v)) \/ ViewStep(v)) /\ DashboardPart

\* Time passes, and every thread of the process keeps running; Athena owes nothing. The
\* locks are not fair: a thread gets one that stays free, and may be overtaken for ever.
Spec ==
    /\ Init /\ [][Next]_vars
    /\ WF_vars(Tick)
    /\ \A c \in Client : WF_vars(AthenaStep(c) /\ AthenaPart)
    /\ \A r \in Asker : WF_vars(ToolStep(r) /\ ToolPart)
    /\ \A v \in Viewer : WF_vars(ViewStep(v) /\ DashboardPart)

-----------------------------------------------------------------------------
TypeOK == AthenaTypeOK /\ CacheTypeOK /\ ToolTypeOK /\ DashboardTypeOK

\* A caller that has its rows, or was told that the query failed or "exceeded ... and was
\* cancelled", leaves no query running and billing, also when the query ends meanwhile.
\* (A ClientError says nothing of the query, and leaves it.)
NoOrphanQuery ==
    \A c \in Client : run[c].phase \in {"returned", "raised"} => run[c].state # "RUNNING"

\* r waits for the lock of its schema cache while another thread refreshes.
Overtaken(r) == ask[r].phase = "schema" /\ holder[mine[r]] \notin {r, Nobody}

\* A question is answered, refused or reported failed, although Athena may never end a
\* query and Glue may fail, unless other questions take the schema lock before it again and
\* again: no thread keeps the lock, so waiting for one of them is not what holds it up.
EveryQuestionEnds ==
    \A r \in Asker :
        \/ []<>(ask[r].phase = "idle")
        \/ []<>Overtaken(r) /\ []<>~Overtaken(r)
=============================================================================
