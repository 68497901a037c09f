------------------------------- MODULE SqlTool -------------------------------
(***************************************************************************)
(* query_lakehouse of agents/tools/sql_tool.py: schema prompt, generation,   *)
(* validation, one repair attempt, execution.  The supervisor's tool call    *)
(* and the MCP server run it on threads of one process, sharing its caches. *)
(***************************************************************************)
EXTENDS AthenaQuery, SqlValidator, SchemaCache

CONSTANTS
    Statements,       \* what the model may answer, parsed
    MaxRepairs        \* max_repair_attempts

ASSUME SqlToolAssumption ==
    /\ Asker \subseteq Client /\ Statements # {}
    /\ \A s \in Statements : s.refs \subseteq Reference
    /\ MaxRepairs \in Nat

VARIABLES
    ask,      \* each asker's call of query_lakehouse
    prompt    \* the schema its SQL prompt shows

Asking == {"idle", "cache", "creating", "binding", "schema", "generate", "validate", "athena"}

\* A call that is over, or has not begun, keeps no statement.
NoStatement == CHOOSE s \in Statements : TRUE
Resting(phase) == [phase |-> phase, attempt |-> 0, sql |-> NoStatement]

ToolTypeOK ==
    /\ ask \in [Asker -> [phase : Asking, attempt : 0 .. MaxRepairs, sql : Statements]]
    /\ prompt \in [Asker -> Schema]

ToolInit ==
    /\ ask = [r \in Asker |-> Resting("idle")]
    /\ prompt = [r \in Asker |-> NoTables]

Ask(r) ==
    /\ ask[r].phase = "idle"
    /\ ask' = [ask EXCEPT ![r] = Resting("cache")]
    /\ UNCHANGED <<gold, run, prompt, schemaVars>>

\* get_schema_cache, at the start of every generate_sql: threads that find no cache create
\* one each, and the last one stays.
FindNoCache(r) ==
    /\ ask[r].phase = "cache" /\ shared = {}
    /\ ask' = [ask EXCEPT ![r].phase = "creating"]
    /\ UNCHANGED <<gold, run, prompt, schemaVars>>

NewCache(r) ==
    /\ ask[r].phase = "creating"
    /\ CreateCache(r)
    /\ ask' = [ask EXCEPT ![r].phase = "binding"]
    /\ UNCHANGED <<gold, run, prompt>>

TakeCache(r) ==
    /\ ask[r].phase \in {"cache", "binding"}
    /\ BindCache(r)
    /\ ask' = [ask EXCEPT ![r].phase = "schema"]
    /\ UNCHANGED <<gold, run, prompt>>

\* schema_prompt: a hit, or a refresh of several calls.
ReadSchema(r) ==
    /\ ask[r].phase = "schema"
    /\ \/ Hit(r) /\ UNCHANGED schemaVars
       \/ Install(r)
    /\ prompt' = [prompt EXCEPT ![r] = tables'[mine[r]]]
    /\ ask' = [ask EXCEPT ![r].phase = "generate"]
    /\ UNCHANGED <<gold, run>>

RefreshSchema(r) ==
    /\ ask[r].phase = "schema"
    /\ Refresh(r) \/ Describe(r)
    /\ UNCHANGED <<gold, run, ask, prompt>>

\* converse raises, and so does the tool; its caller makes that an error result.
ModelFails(r) ==
    /\ ask[r].phase = "generate"
    /\ ask' = [ask EXCEPT ![r] = Resting("idle")]
    /\ prompt' = [prompt EXCEPT ![r] = NoTables]
    /\ UNCHANGED <<gold, run, schemaVars>>

\* converse: the model answers any statement.
Generate(r) ==
    /\ ask[r].phase = "generate"
    /\ \E s \in Statements : ask' = [ask EXCEPT ![r] = [@ EXCEPT !.phase = "validate", !.sql = s]]
    /\ UNCHANGED <<gold, run, prompt, schemaVars>>

\* As below, off by one.
AnotherAttemptTooMany(r) == ask[r].attempt <= MaxRepairs

\* "for attempt in range(max_repair_attempts + 1)"
AnotherAttempt(r) == ask[r].attempt < MaxRepairs

\* A rejection is the hint of one more attempt, and after the last one the answer.
Reject(r) ==
    /\ ask[r].phase = "validate" /\ ~ Accepted(ask[r].sql)
    /\ ask' = [ask EXCEPT ![r] = IF AnotherAttempt(r)
                                 THEN [Resting("cache") EXCEPT !.attempt = ask[r].attempt + 1]
                                 ELSE Resting("idle")]
    /\ prompt' = [prompt EXCEPT ![r] = NoTables]
    /\ UNCHANGED <<gold, run, schemaVars>>

Execute(r) ==
    /\ ask[r].phase = "validate" /\ Accepted(ask[r].sql)
    /\ StartQuery(r, ApplyLimit(ask[r].sql))
    /\ ask' = [ask EXCEPT ![r] = Resting("athena")]
    /\ prompt' = [prompt EXCEPT ![r] = NoTables]
    /\ UNCHANGED <<gold, schemaVars>>

\* Rows with the SQL that ran, or the error; a failed query is not retried.  ClientError
\* is caught by the caller of the tool instead.
Answer(r) ==
    /\ ask[r].phase = "athena" /\ run[r].phase \in {"returned", "raised", "broken"}
    /\ Take(r)
    /\ ask' = [ask EXCEPT ![r] = Resting("idle")]
    /\ UNCHANGED <<gold, prompt, schemaVars>>

ToolStep(r) ==
    \/ FindNoCache(r) \/ NewCache(r) \/ TakeCache(r)
    \/ ReadSchema(r) \/ RefreshSchema(r) \/ Generate(r) \/ ModelFails(r)
    \/ Reject(r) \/ Execute(r) \/ Answer(r)

-----------------------------------------------------------------------------
\* An answer of fewer rows than the table has says so in the SQL it returns: the cap of
\* _fetch_results never cuts a result shorter than the LIMIT in force (the module's
\* "did not silently truncate the result the question needed", sql_tool.py:10-12).
TruncationVisible ==
    \A r \in Asker :
        run[r].phase = "returned" => FetchResults(r) = Min({run[r].seen, run[r].limit})

\* What the system prompt asks of the model, of a statement over the tables it shows.
FollowsPrompt(s, shown) ==
    /\ s.statements = 1 /\ ~ s.forbidden
    /\ s.root \in {"Select", "SetOperation"} /\ s.branches \subseteq {"Select"}
    /\ \E r \in s.refs : r.name \notin s.ctes
    /\ \A r \in s.refs : \/ r.db = "" /\ r.catalog = "" /\ r.name \in s.ctes
                         \/ /\ r.db \in {"", "gold"} /\ r.catalog # "elsewhere"
                            /\ r.name \in GoldTables /\ shown[r.name] # Absent

\* The validator never refuses a statement that keeps the rules of the prompt it was
\* written from, however stale the schema in it: no repair attempt is spent on nothing.
PromptedAccepted ==
    \A r \in Asker :
        ask[r].phase = "validate" /\ FollowsPrompt(ask[r].sql, prompt[r]) => Accepted(ask[r].sql)

\* Whatever the order in which tables appear, calls fail and refreshes follow each
\* other, a cache object that held schemas is never emptied: a thread that uses it does
\* not fall back to "no gold-layer tables are currently available". (The threads that come
\* first may replace an object that holds schemas by an empty one.)
SchemaSurvives == [][\A i \in Asker : tables[i] # NoTables => tables'[i] # NoTables]_tables
=============================================================================
