----------------------------- MODULE AnalyticsProofs -----------------------------
(* Proofs about Analytics, for any callers, tables, statements, dashboards and   *)
(* limits.                                                                      *)
EXTENDS Analytics, FiniteSetTheorems, TLAPS

\* What is assumed of the constants, spelled out.
LEMMA Constants ==
    /\ Cap \in Nat /\ Timeout \in Nat /\ SchemaTTL \in Nat /\ TableOrder \in Seq(GoldTables)
    /\ Unlimited \in Nat /\ MaxGold \in Nat /\ MaxGold <= Unlimited /\ Cap <= Unlimited
    /\ MaxVersion \in Nat /\ Nobody \notin Asker
    /\ Asker \subseteq Client /\ MaxRepairs \in Nat
    /\ Viewer \subseteq Client /\ Parts \in [Viewer -> Seq(Name)]
    /\ TTL \in Nat \ {0}
    /\ Asker \cap Viewer = {}
BY ConfigAssumption, AthenaAssumption, CacheAssumption, SqlToolAssumption, DashboardAssumption,
   AnalyticsAssumption

-----------------------------------------------------------------------------
(* Queries.                                                                 *)

Call == [phase : {"idle", "polling", "stopping", "returned", "raised", "broken"},
         state : {"NONE", "RUNNING", "SUCCEEDED", "FAILED", "CANCELLED"},
         age : 0 .. Timeout + 1, limit : 0 .. Unlimited, seen : 0 .. MaxGold]

\* A call that is over has no query running; one of the chat tool has a limit, and one of
\* a dashboard none.
CallOK(c, x) ==
    /\ x \in Call
    /\ x.phase \in {"returned", "raised"} => x.state # "RUNNING"
    /\ c \in Asker /\ x.phase # "idle" => x.limit <= Cap
    /\ c \in Viewer /\ x.phase # "idle" => x.limit = Unlimited

QueryInv ==
    /\ gold \in 0 .. MaxGold
    /\ run \in [Client -> Call]
    /\ \A c \in Client : CallOK(c, run[c])

LEMMA IdleOK ==
    ASSUME NEW c
    PROVE  CallOK(c, Idle) /\ Idle.phase = "idle"
<1>1. Idle \in Call
  BY Constants DEF Idle, Call
<1> QED
  BY <1>1 DEF CallOK, Idle

\* A change of one call.
LEMMA OneCall ==
    ASSUME QueryInv, NEW c \in Client, NEW x, CallOK(c, x),
           run' = [run EXCEPT ![c] = x], gold' = gold
    PROVE  QueryInv'
BY DEF QueryInv, CallOK

LEMMA ApplyLimitCapped ==
    ASSUME NEW s
    PROVE  ApplyLimit(s) \in 0 .. Cap /\ ApplyLimit(s) \in 0 .. Unlimited
BY Constants DEF ApplyLimit

LEMMA StartInv ==
    ASSUME QueryInv, NEW c \in Client, NEW limit \in 0 .. Unlimited, StartQuery(c, limit),
           c \in Asker => limit <= Cap, c \in Viewer => limit = Unlimited, gold' = gold
    PROVE  QueryInv' /\ run'[c].phase = "polling" /\ run'[c].seen = gold
<1> DEFINE x == [phase |-> "polling", state |-> "RUNNING", age |-> 0, limit |-> limit, seen |-> gold]
<1>1. x \in Call /\ x.phase = "polling" /\ x.limit = limit /\ x.seen = gold
  BY Constants DEF Call, QueryInv
<1>2. run' = [run EXCEPT ![c] = x]
  BY DEF StartQuery
<1> HIDE DEF x
<1>3. CallOK(c, x)
  BY <1>1 DEF CallOK
<1>4. QueryInv'
  BY <1>2, <1>3, OneCall
<1>5. run'[c] = x
  BY <1>2 DEF QueryInv
<1> QED
  BY <1>1, <1>4, <1>5

LEMMA TakeInv ==
    ASSUME QueryInv, NEW c \in Client, Take(c), gold' = gold
    PROVE  QueryInv'
BY IdleOK, OneCall DEF Take

\* What Athena and the polling loop do to a call: it stays a call, and its rows are
\* those of no earlier table.
LEMMA AthenaInv ==
    ASSUME QueryInv, NEW c \in Client, QueryEnds(c) \/ CallFails(c) \/ AthenaStep(c)
    PROVE  /\ QueryInv' /\ gold' = gold
           /\ \A d \in Client : run'[d].seen >= run[d].seen
                                /\ (run[d].phase # "idle" => run'[d].phase # "idle")
<1> USE DEF Call
<1>1. run[c] \in Call /\ CallOK(c, run[c]) /\ gold \in Nat /\ gold <= MaxGold /\ MaxGold \in Nat
  BY Constants DEF QueryInv
<1>2. gold' = gold
  BY DEF QueryEnds, CallFails, AthenaStep, PollEnded, PollLate, StopQuery
<1>3. \E x : /\ run' = [run EXCEPT ![c] = x] /\ CallOK(c, x)
             /\ x.seen >= run[c].seen /\ (run[c].phase # "idle" => x.phase # "idle")
  <2>1. CASE QueryEnds(c)
    <3>1. CASE \E v \in run[c].seen .. gold :
                  run' = [run EXCEPT ![c] = [@ EXCEPT !.state = "SUCCEEDED", !.seen = v]]
      <4>1. PICK v \in run[c].seen .. gold :
                  run' = [run EXCEPT ![c] = [@ EXCEPT !.state = "SUCCEEDED", !.seen = v]]
        BY <3>1
      <4> DEFINE x == [run[c] EXCEPT !.state = "SUCCEEDED", !.seen = v]
      <4>2. run' = [run EXCEPT ![c] = x]
        BY <4>1, Zenon
      <4>3. /\ x.state = "SUCCEEDED" /\ x.seen = v /\ x.phase = run[c].phase
            /\ x.limit = run[c].limit /\ x.age = run[c].age
        BY <1>1
      <4>4. x \in Call
        <5>1. v \in 0 .. MaxGold
          BY <1>1
        <5> QED
          BY <1>1, <5>1
      <4> HIDE DEF x
      <4>5. CallOK(c, x) /\ x.seen >= run[c].seen
        <5>1. CallOK(c, x)
          <6> HIDE DEF Call
          <6> QED
            BY <1>1, <4>3, <4>4 DEF CallOK
        <5>2. run[c].seen \in Int /\ v >= run[c].seen
          BY <1>1
        <5> QED
          BY <4>3, <5>1, <5>2
      <4> QED
        BY <4>2, <4>3, <4>5
    <3>2. CASE run' = [run EXCEPT ![c].state = "FAILED"]
      <4> DEFINE x == [run[c] EXCEPT !.state = "FAILED"]
      <4>1. run' = [run EXCEPT ![c] = x]
        BY <3>2 DEF QueryInv
      <4>2. CallOK(c, x) /\ x.seen >= run[c].seen /\ x.phase = run[c].phase
        BY <1>1 DEF CallOK
      <4> QED
        BY <4>1, <4>2
    <3> QED
      BY <2>1, <3>1, <3>2 DEF QueryEnds
  <2>2. CASE CallFails(c)
    <3> DEFINE x == [run[c] EXCEPT !.phase = "broken"]
    <3>1. run' = [run EXCEPT ![c] = x]
      BY <2>2 DEF CallFails, QueryInv
    <3>2. CallOK(c, x) /\ x.seen >= run[c].seen /\ x.phase # "idle"
      BY <1>1, <2>2 DEF CallOK, CallFails
    <3> QED
      BY <3>1, <3>2
  <2>3. CASE PollEnded(c)
    <3> DEFINE phase == IF run[c].state = "SUCCEEDED" THEN "returned" ELSE "raised"
               x == [run[c] EXCEPT !.phase = phase]
    <3>1. run' = [run EXCEPT ![c] = x]
      BY <2>3 DEF PollEnded
    <3>2. phase \in {"returned", "raised"}
      OBVIOUS
    <3> HIDE DEF phase
    <3>3. CallOK(c, x) /\ x.seen >= run[c].seen /\ x.phase # "idle"
      BY <1>1, <2>3, <3>2 DEF CallOK, PollEnded
    <3> QED
      BY <3>1, <3>3
  <2>4. CASE PollLate(c)
    <3> DEFINE x == [run[c] EXCEPT !.phase = "stopping"]
    <3>1. run' = [run EXCEPT ![c] = x]
      BY <2>4 DEF PollLate, QueryInv
    <3>2. CallOK(c, x) /\ x.seen >= run[c].seen /\ x.phase # "idle"
      BY <1>1, <2>4 DEF CallOK, PollLate
    <3> QED
      BY <3>1, <3>2
  <2>5. CASE StopQuery(c)
    <3> DEFINE state == Stopped(run[c].state)
               x == [run[c] EXCEPT !.phase = "raised", !.state = state]
    <3>1. run' = [run EXCEPT ![c] = x]
      BY <2>5, Zenon DEF StopQuery
    <3>2. /\ state \in {"NONE", "RUNNING", "SUCCEEDED", "FAILED", "CANCELLED"}
          /\ state # "RUNNING"
      BY <1>1 DEF Stopped
    <3>3. run[c].phase = "stopping"
      BY <2>5 DEF StopQuery
    <3> HIDE DEF state
    <3>4. x \in Call
      BY <1>1, <3>2
    <3>5. x.state = state /\ x.phase = "raised" /\ x.seen = run[c].seen /\ x.limit = run[c].limit
      BY <1>1
    <3>6. CallOK(c, x) /\ x.seen >= run[c].seen /\ x.phase # "idle"
      BY <1>1, <3>2, <3>3, <3>4, <3>5 DEF CallOK
    <3> QED
      BY <3>1, <3>6
  <2> QED
    BY <2>1, <2>2, <2>3, <2>4, <2>5 DEF AthenaStep
<1>4. PICK x : /\ run' = [run EXCEPT ![c] = x] /\ CallOK(c, x)
               /\ x.seen >= run[c].seen /\ (run[c].phase # "idle" => x.phase # "idle")
  BY <1>3
<1>5. QueryInv'
  BY <1>2, <1>4, OneCall
<1>6. ASSUME NEW d \in Client
      PROVE  run'[d].seen >= run[d].seen /\ (run[d].phase # "idle" => run'[d].phase # "idle")
  <2>1. CASE d = c
    <3>1. run'[d] = x
      BY <1>4, <2>1 DEF QueryInv
    <3> QED
      BY <1>4, <2>1, <3>1
  <2>2. CASE d # c
    <3>1. run'[d] = run[d] /\ run[d].seen \in Int
      BY <1>4, <2>2 DEF QueryInv
    <3> QED
      BY <3>1
  <2> QED
    BY <2>1, <2>2
<1> QED
  BY <1>2, <1>5, <1>6

\* Rows come to the gold table, and calls grow older.
LEMMA CommitInv ==
    ASSUME QueryInv, Commit
    PROVE  QueryInv' /\ gold' > gold /\ run' = run
BY Constants DEF QueryInv, Commit, CallOK

-----------------------------------------------------------------------------
(* The schema cache.                                                        *)

LEMMA BindInv ==
    ASSUME CacheTypeOK, NEW r \in Asker, CreateCache(r) \/ BindCache(r)
    PROVE  CacheTypeOK'
BY DEF CacheTypeOK, CreateCache, BindCache

LEMMA RefreshInv ==
    ASSUME CacheTypeOK, NEW r \in Asker, Refresh(r)
    PROVE  CacheTypeOK'
BY Constants DEF CacheTypeOK, Refresh, NoScan, NoTables, Absent, Schema

LEMMA DescribeInv ==
    ASSUME CacheTypeOK, NEW r \in Asker, Describe(r)
    PROVE  CacheTypeOK'
<1> DEFINE t == TableOrder[scan[r].next]
           Scan == [next : 1 .. Len(TableOrder) + 1, found : Schema]
<1>1. /\ scan \in [Asker -> Scan] /\ catalog \in Schema
      /\ scan[r].next <= Len(TableOrder) /\ Len(TableOrder) \in Nat
      /\ UNCHANGED <<catalog, shared, mine, tables, fetched, holder>>
  BY Constants DEF CacheTypeOK, Describe
<1>2. scan[r].next \in 1 .. Len(TableOrder) + 1 /\ scan[r].found \in Schema
  BY <1>1
<1>3. t \in GoldTables
  BY <1>1, <1>2, Constants
<1>4. PICK v \in {catalog[t], Absent} :
        scan' = [scan EXCEPT ![r] = [next |-> scan[r].next + 1,
                                     found |-> [scan[r].found EXCEPT ![t] = v]]]
  BY DEF Describe
<1> HIDE DEF t
<1>5. v \in 0 .. MaxVersion
  BY <1>1, <1>3, <1>4, Constants DEF Schema, Absent
<1>6. [scan[r].found EXCEPT ![t] = v] \in Schema
  BY <1>2, <1>5 DEF Schema
<1>7. scan[r].next + 1 \in 1 .. Len(TableOrder) + 1
  BY <1>1, <1>2
<1>8. scan' \in [Asker -> Scan]
  BY <1>1, <1>4, <1>6, <1>7
<1> QED
  BY <1>1, <1>8 DEF CacheTypeOK

LEMMA InstallInv ==
    ASSUME CacheTypeOK, NEW r \in Asker, Install(r)
    PROVE  CacheTypeOK'
<1>1. scan[r].found \in Schema /\ mine[r] \in Asker
  BY DEF CacheTypeOK
<1>2. FoundTables(r) \in Schema
  BY <1>1 DEF FoundTables, CacheTypeOK
<1>3. NoScan \in [next : 1 .. Len(TableOrder) + 1, found : Schema]
  BY Constants DEF NoScan, NoTables, Absent, Schema
<1> QED
  BY <1>1, <1>2, <1>3, Constants DEF CacheTypeOK, Install

LEMMA EvolveInv ==
    ASSUME CacheTypeOK, Evolve
    PROVE  CacheTypeOK'
BY Constants DEF CacheTypeOK, Evolve, Schema

-----------------------------------------------------------------------------
(* The chat tool.                                                           *)

ToolCall == [phase : Asking, attempt : 0 .. MaxRepairs, sql : Statements]

LEMMA RestingOK ==
    ASSUME NEW phase \in Asking
    PROVE  Resting(phase) \in ToolCall
BY Constants, SqlToolAssumption DEF Resting, NoStatement, ToolCall

\* The steps of a question.
LEMMA ToolInv ==
    ASSUME QueryInv, CacheTypeOK, ToolTypeOK, NEW r \in Asker, Ask(r) \/ ToolStep(r)
    PROVE  /\ QueryInv' /\ CacheTypeOK' /\ ToolTypeOK' /\ gold' = gold
           /\ \A v \in Viewer : run'[v] = run[v]
<1>1. /\ ask \in [Asker -> ToolCall] /\ prompt \in [Asker -> Schema] /\ ask[r] \in ToolCall
      /\ NoTables \in Schema /\ mine[r] \in Asker
      /\ r \in Client /\ (\A v \in Viewer : v # r /\ v \in Client)
  BY Constants DEF ToolTypeOK, ToolCall, NoTables, Absent, Schema, CacheTypeOK
<1>2. Resting("idle") \in ToolCall /\ Resting("cache") \in ToolCall /\ Resting("athena") \in ToolCall
  BY RestingOK DEF Asking
<1>3. ASSUME UNCHANGED schemaVars
      PROVE  CacheTypeOK'
  BY <1>3 DEF schemaVars, CacheTypeOK
<1>4. ASSUME UNCHANGED <<gold, run>>
      PROVE  QueryInv' /\ gold' = gold /\ \A v \in Viewer : run'[v] = run[v]
  BY <1>4 DEF QueryInv, CallOK
<1>5. ASSUME NEW x \in ToolCall, ask' = [ask EXCEPT ![r] = x] \/ ask' = ask,
             \/ prompt' = prompt
             \/ prompt' = [prompt EXCEPT ![r] = NoTables]
             \/ \E shown \in Schema : prompt' = [prompt EXCEPT ![r] = shown]
      PROVE  ToolTypeOK'
  BY <1>1, <1>5 DEF ToolTypeOK, ToolCall
<1>6. CASE Ask(r)
  BY <1>2, <1>3, <1>4, <1>5, <1>6 DEF Ask
<1>7. CASE ReadSchema(r)
  <2> DEFINE x == [ask[r] EXCEPT !.phase = "generate"]
  <2>1. x \in ToolCall /\ ask' = [ask EXCEPT ![r] = x]
    BY <1>1, <1>7 DEF ReadSchema, ToolCall, Asking
  <2>2. CacheTypeOK'
    BY <1>3, <1>7, InstallInv DEF ReadSchema
  <2>3. prompt' = [prompt EXCEPT ![r] = tables'[mine[r]]] /\ UNCHANGED <<gold, run>>
    BY <1>7 DEF ReadSchema
  <2>4. tables'[mine[r]] \in Schema
    BY <1>1, <2>2 DEF CacheTypeOK
  <2> HIDE DEF x
  <2> QED
    BY <1>4, <1>5, <2>1, <2>2, <2>3, <2>4
<1>14. CASE FindNoCache(r) \/ NewCache(r) \/ TakeCache(r)
  <2>1. PICK phase \in {"creating", "binding", "schema"} : ask' = [ask EXCEPT ![r].phase = phase]
    BY <1>14 DEF FindNoCache, NewCache, TakeCache
  <2> DEFINE x == [ask[r] EXCEPT !.phase = phase]
  <2>2. x \in ToolCall /\ ask' = [ask EXCEPT ![r] = x]
    BY <1>1, <2>1 DEF ToolCall, Asking
  <2> HIDE DEF x
  <2>3. CacheTypeOK' /\ UNCHANGED <<gold, run, prompt>>
    BY <1>3, <1>14, BindInv DEF FindNoCache, NewCache, TakeCache
  <2> QED
    BY <1>4, <1>5, <2>2, <2>3
<1>8. CASE RefreshSchema(r)
  BY <1>2, <1>4, <1>5, <1>8, RefreshInv, DescribeInv DEF RefreshSchema
<1>9. CASE ModelFails(r)
  BY <1>2, <1>3, <1>4, <1>5, <1>9 DEF ModelFails
<1>10. CASE Generate(r)
  <2>1. PICK s \in Statements : ask' = [ask EXCEPT ![r] = [@ EXCEPT !.phase = "validate", !.sql = s]]
    BY <1>10 DEF Generate
  <2> DEFINE x == [ask[r] EXCEPT !.phase = "validate", !.sql = s]
  <2>2. x \in ToolCall
    BY <1>1 DEF ToolCall, Asking
  <2>3. ask' = [ask EXCEPT ![r] = x]
    BY <2>1
  <2> HIDE DEF x
  <2> QED
    BY <1>3, <1>4, <1>5, <1>10, <2>2, <2>3 DEF Generate
<1>11. CASE Reject(r)
  <2> DEFINE x == IF AnotherAttempt(r)
                  THEN [Resting("cache") EXCEPT !.attempt = ask[r].attempt + 1]
                  ELSE Resting("idle")
  <2>1. ask' = [ask EXCEPT ![r] = x] /\ prompt' = [prompt EXCEPT ![r] = NoTables]
        /\ UNCHANGED <<gold, run>> /\ UNCHANGED schemaVars
    BY <1>11 DEF Reject
  <2>2. x \in ToolCall
    <3>1. CASE AnotherAttempt(r)
      <4>1. ask[r].attempt + 1 \in 0 .. MaxRepairs
        BY <1>1, <3>1, Constants DEF AnotherAttempt, ToolCall
      <4> QED
        BY <1>2, <3>1, <4>1 DEF ToolCall
    <3> QED
      BY <1>2, <3>1
  <2> HIDE DEF x
  <2> QED
    BY <1>3, <1>4, <1>5, <2>1, <2>2
<1>12. CASE Execute(r)
  <2>1. /\ StartQuery(r, ApplyLimit(ask[r].sql)) /\ gold' = gold /\ UNCHANGED schemaVars
        /\ ask' = [ask EXCEPT ![r] = Resting("athena")] /\ prompt' = [prompt EXCEPT ![r] = NoTables]
    BY <1>12 DEF Execute
  <2>2. PICK limit : limit = ApplyLimit(ask[r].sql)
    OBVIOUS
  <2>3. limit \in 0 .. Unlimited /\ limit <= Cap
    BY <2>2, ApplyLimitCapped, Constants
  <2>4. StartQuery(r, limit)
    BY <2>1, <2>2
  <2>5. QueryInv'
    BY <1>1, <2>1, <2>3, <2>4, StartInv
  <2>6. \A v \in Viewer : run'[v] = run[v]
    BY <1>1, <2>4 DEF StartQuery, QueryInv
  <2> QED
    BY <1>2, <1>3, <1>5, <2>1, <2>5, <2>6
<1>13. CASE Answer(r)
  <2>1. Take(r) /\ ask' = [ask EXCEPT ![r] = Resting("idle")] /\ gold' = gold /\ prompt' = prompt
        /\ UNCHANGED schemaVars
    BY <1>13 DEF Answer
  <2>2. QueryInv'
    BY <1>1, <2>1, TakeInv
  <2>3. \A v \in Viewer : run'[v] = run[v]
    BY <1>1, <2>1 DEF Take, QueryInv
  <2> QED
    BY <1>2, <1>3, <1>5, <2>1, <2>2, <2>3
<1> QED
  BY <1>6, <1>7, <1>8, <1>9, <1>10, <1>11, <1>12, <1>13, <1>14 DEF ToolStep

-----------------------------------------------------------------------------
(* The dashboards.                                                          *)

Entry == [age : 0 .. TTL, rows : 0 .. MaxGold]
Page(v) == [phase : {"closed", "lookup", "querying"}, next : 1 .. Len(Parts[v]) + 1,
            age : 0 .. TTL, floor : 0 .. MaxGold, shown : 0 .. MaxGold]

\* The table only grows: what it was longer ago is less.
PastInv ==
    /\ past \in [0 .. TTL - 1 -> 0 .. MaxGold]
    /\ \A i \in 0 .. TTL - 1 : past[i] <= gold
    /\ \A i, j \in 0 .. TTL - 1 : i <= j => past[j] <= past[i]

\* So many rows are what the table had, or as many as are shown.
Enough(rows, n) == rows >= n \/ rows >= Cap

\* Rows that count as k ticks old are no older.
Covers(rows, age) == age < TTL => Enough(rows, past[age])

\* A query of a viewer is under way, with rows that are at least as new as its lookup; and
\* what the viewer has been shown was fresh enough.
PageOK(v) ==
    /\ view[v] \in Page(v)
    /\ view[v].phase = "querying" =>
          /\ view[v].next <= Len(Parts[v])
          /\ run[v].phase # "idle"
          /\ Enough(run[v].seen, view[v].floor)
          /\ Covers(run[v].seen, view[v].age)
    /\ view[v].phase = "lookup" /\ view[v].next > 1 => Enough(view[v].shown, view[v].floor)

DashboardInv ==
    /\ PastInv
    /\ cache \in [Name -> Entry]
    /\ \A n \in Name : Covers(cache[n].rows, cache[n].age)
    /\ DOMAIN view = Viewer
    /\ \A v \in Viewer : PageOK(v)

LEMMA CallFields ==
    ASSUME QueryInv, NEW c \in Client
    PROVE  /\ run[c].seen \in 0 .. MaxGold /\ run[c].seen \in Int /\ run[c].age \in 0 .. Timeout + 1
           /\ gold \in Int /\ gold \in 0 .. MaxGold
BY Constants DEF QueryInv, Call

\* The dashboards stay as they are while queries proceed and the table grows.
LEMMA QueriesProceed ==
    ASSUME QueryInv, QueryInv', DashboardInv, UNCHANGED dashboardVars, past' = past, gold' >= gold,
           \A v \in Viewer : /\ run'[v].seen >= run[v].seen
                             /\ run[v].phase # "idle" => run'[v].phase # "idle"
    PROVE  DashboardInv'
<1>1. cache' = cache /\ view' = view /\ past' = past
  BY DEF dashboardVars
<1>2. gold \in Int /\ gold' \in Int
  BY DEF QueryInv
<1>3. PastInv'
  <2>1. \A i \in 0 .. TTL - 1 : past[i] \in Int
    BY DEF DashboardInv, PastInv
  <2> QED
    BY <1>1, <1>2, <2>1 DEF DashboardInv, PastInv
<1>4. \A n \in Name : Covers(cache[n].rows, cache[n].age)'
  BY <1>1 DEF DashboardInv, Covers
<1>5. ASSUME NEW v \in Viewer
      PROVE  PageOK(v)'
  <2>1. PageOK(v) /\ view[v] \in Page(v)
    BY DEF DashboardInv, PageOK
  <2>2. run[v].seen \in Int /\ run'[v].seen \in Int
    BY Constants DEF QueryInv, Call
  <2>3. view[v].floor \in Int /\ view[v].age \in 0 .. TTL
    BY <2>1 DEF Page
  <2>4. view[v].age < TTL => past[view[v].age] \in Int
    BY <2>3, Constants DEF DashboardInv, PastInv
  <2>5. run'[v].seen >= run[v].seen /\ (run[v].phase # "idle" => run'[v].phase # "idle")
    OBVIOUS
  <2>6. Covers(run[v].seen, view[v].age) => Covers(run[v].seen, view[v].age)'
    <3>1. CASE view[v].age < TTL
      <4>1. Enough(run[v].seen, past[view[v].age]) => Enough(run'[v].seen, past[view[v].age])
        BY <2>2, <2>4, <2>5, <3>1, Constants DEF Enough
      <4> QED
        BY <1>1, <3>1, <4>1 DEF Covers, Enough
    <3>2. CASE ~(view[v].age < TTL)
      BY <1>1, <3>2 DEF Covers
    <3> QED
      BY <3>1, <3>2
  <2>7. Enough(run[v].seen, view[v].floor) => Enough(run'[v].seen, view[v].floor)
    BY <2>2, <2>3, <2>5, Constants DEF Enough
  <2>8. view'[v] \in Page(v)'
    BY <1>1, <2>1 DEF Page
  <2> QED
    BY <1>1, <2>1, <2>5, <2>6, <2>7, <2>8 DEF PageOK
<1> QED
  BY <1>1, <1>3, <1>4, <1>5 DEF DashboardInv

\* A step of one viewer: its page and perhaps its call and an entry change.
LEMMA OneViewer ==
    ASSUME QueryInv, DashboardInv, NEW v \in Viewer, gold' = gold, past' = past,
           \A u \in Viewer \ {v} : run'[u] = run[u],
           NEW x, view' = [view EXCEPT ![v] = x], PageOK(v)',
           cache' \in [Name -> Entry],
           \A n \in Name : Covers(cache'[n].rows, cache'[n].age)
    PROVE  DashboardInv'
<1>1. PastInv'
  BY DEF DashboardInv, PastInv
<1>2. DOMAIN view' = Viewer
  BY DEF DashboardInv
<1>3. ASSUME NEW u \in Viewer
      PROVE  PageOK(u)'
  <2>1. CASE u # v
    <3>1. view'[u] = view[u] /\ run'[u] = run[u] /\ PageOK(u)
      BY <2>1 DEF DashboardInv
    <3>2. view'[u] \in Page(u)' <=> view[u] \in Page(u)
      BY <3>1 DEF Page
    <3> QED
      BY <3>1, <3>2 DEF PageOK, Covers
  <2> QED
    BY <2>1
<1>4. \A n \in Name : Covers(cache[n].rows, cache[n].age)'
  BY DEF Covers
<1> QED
  BY <1>1, <1>2, <1>3, <1>4 DEF DashboardInv

LEMMA ClosedOK ==
    ASSUME NEW v \in Viewer
    PROVE  /\ Closed \in Page(v) /\ Closed.phase = "closed" /\ Closed.next = 1
           /\ [Closed EXCEPT !.phase = "lookup"] \in Page(v)
           /\ [Closed EXCEPT !.phase = "lookup"].phase = "lookup"
           /\ [Closed EXCEPT !.phase = "lookup"].next = 1
<1>1. Len(Parts[v]) \in Nat
  BY Constants
<1>2. TTL \in Nat /\ MaxGold \in Nat
  BY Constants
<1>3. Closed \in Page(v)
  BY <1>1, <1>2 DEF Closed, Page
<1>4. [Closed EXCEPT !.phase = "lookup"] \in Page(v)
  BY <1>1, <1>2 DEF Closed, Page
<1> QED
  BY <1>3, <1>4 DEF Closed

\* The cap leaves a dashboard's rows as many as are shown.
LEMMA FetchedRows ==
    ASSUME QueryInv, NEW v \in Viewer, run[v].phase # "idle"
    PROVE  /\ FetchResults(v) \in 0 .. MaxGold
           /\ \A n : Enough(run[v].seen, n) => Enough(FetchResults(v), n)
<1>1. /\ v \in Client /\ run[v].seen \in 0 .. MaxGold /\ run[v].limit = Unlimited
      /\ MaxGold \in Nat /\ Cap \in Nat /\ Unlimited \in Nat /\ MaxGold <= Unlimited
  BY Constants DEF QueryInv, CallOK, Call
<1>2. FetchResults(v) = IF run[v].seen <= Cap THEN run[v].seen ELSE Cap
  BY <1>1 DEF FetchResults, Min
<1> QED
  BY <1>1, <1>2 DEF Enough

\* What a viewer looks up, starts, stores and shows.
LEMMA ViewerInv ==
    ASSUME QueryInv, DashboardInv, NEW v \in Viewer, Open(v) \/ ViewStep(v), past' = past
    PROVE  QueryInv' /\ DashboardInv' /\ gold' = gold
<1>1. /\ v \in Client /\ view[v] \in Page(v) /\ PageOK(v) /\ Len(Parts[v]) \in Nat
      /\ gold \in 0 .. MaxGold /\ MaxGold \in Nat /\ TTL \in Nat \ {0}
      /\ cache \in [Name -> Entry] /\ (\A u \in Viewer : u \in Client)
      /\ \A n \in Name : Covers(cache[n].rows, cache[n].age)
  BY Constants DEF DashboardInv, PageOK, QueryInv
<1>2. /\ past \in [0 .. TTL - 1 -> 0 .. MaxGold]
      /\ \A i \in 0 .. TTL - 1 : past[i] <= gold
      /\ \A i \in 0 .. TTL - 1 : past[TTL - 1] <= past[i]
      /\ TTL - 1 \in 0 .. TTL - 1 /\ 0 \in 0 .. TTL - 1
      /\ past[TTL - 1] \in 0 .. MaxGold
  BY <1>1 DEF DashboardInv, PastInv
<1>3. \A n \in Name : cache[n].age \in 0 .. TTL /\ cache[n].rows \in 0 .. MaxGold
  BY <1>1 DEF Entry
<1>4. ASSUME cache' = cache
      PROVE  cache' \in [Name -> Entry] /\ \A n \in Name : Covers(cache'[n].rows, cache'[n].age)
  BY <1>1, <1>4
<1>5. ASSUME UNCHANGED <<gold, run>>
      PROVE  QueryInv'
  BY <1>5 DEF QueryInv, CallOK
<1>6. ASSUME NEW x, view' = [view EXCEPT ![v] = x]
      PROVE  view'[v] = x
  BY <1>6 DEF DashboardInv
<1>7. CASE Open(v)
  <2> DEFINE x == [Closed EXCEPT !.phase = "lookup"]
  <2>1. view' = [view EXCEPT ![v] = x] /\ UNCHANGED <<gold, run, cache>>
    BY <1>7 DEF Open
  <2>2. x \in Page(v) /\ x.phase = "lookup" /\ x.next = 1
    BY ClosedOK
  <2> HIDE DEF x
  <2>3. view'[v] = x
    BY <1>6, <2>1
  <2>4. PageOK(v)'
    BY <2>2, <2>3 DEF PageOK, Page
  <2> QED
    BY <1>4, <1>5, <2>1, <2>4, OneViewer
<1>8. CASE Fail(v) \/ Show(v)
  <2>1. view' = [view EXCEPT ![v] = Closed] /\ gold' = gold /\ cache' = cache /\ (Take(v) \/ run' = run)
    BY <1>8 DEF Fail, Show
  <2>2. view'[v] = Closed /\ PageOK(v)'
    BY <1>6, <2>1, ClosedOK DEF PageOK, Page
  <2>3. QueryInv'
    BY <1>1, <1>5, <2>1, TakeInv
  <2>4. \A u \in Viewer \ {v} : run'[u] = run[u]
    BY <1>1, <2>1 DEF Take, QueryInv
  <2> QED
    BY <1>4, <2>1, <2>2, <2>3, <2>4, OneViewer
<1>9. CASE Lookup(v)
  <2> DEFINE n == Current(v)
  <2>1. /\ view[v].phase = "lookup" /\ view[v].next <= Len(Parts[v]) /\ gold' = gold /\ cache' = cache
        /\ view[v].next \in 1 .. Len(Parts[v])
    BY <1>1, <1>9 DEF Lookup, Page
  <2>2. n \in Name
    BY <2>1, Constants DEF Current
  <2> HIDE DEF n
  <2>3. CASE IsFresh(n)
    <3> DEFINE x == [view[v] EXCEPT !.next = view[v].next + 1, !.shown = cache[n].rows, !.floor = past[TTL - 1]]
    <3>1. view' = [view EXCEPT ![v] = x] /\ run' = run
      BY <1>9, <2>3 DEF Lookup, n
    <3>2. Enough(cache[n].rows, past[TTL - 1])
      <4>1. Enough(cache[n].rows, past[cache[n].age]) /\ cache[n].age \in 0 .. TTL - 1
        BY <1>1, <1>3, <2>2, <2>3 DEF Covers, IsFresh
      <4>2. past[TTL - 1] <= past[cache[n].age] /\ past[cache[n].age] \in Int /\ past[TTL - 1] \in Int
            /\ cache[n].rows \in Int
        BY <1>2, <1>3, <2>2, <4>1
      <4> QED
        BY <4>1, <4>2, Constants DEF Enough
    <3>3. x \in Page(v)
      <4>1. view[v].next + 1 \in 1 .. Len(Parts[v]) + 1
        BY <1>1, <2>1
      <4>2. cache[n].rows \in 0 .. MaxGold /\ past[TTL - 1] \in 0 .. MaxGold
        BY <1>2, <1>3, <2>2
      <4> QED
        BY <1>1, <4>1, <4>2 DEF Page
    <3>4. x.phase = "lookup" /\ x.shown = cache[n].rows /\ x.floor = past[TTL - 1]
      BY <1>1, <2>1 DEF Page
    <3> HIDE DEF x
    <3>5. view'[v] = x /\ PageOK(v)'
      BY <1>6, <3>1, <3>2, <3>3, <3>4 DEF PageOK, Page, Enough
    <3>6. \A u \in Viewer \ {v} : run'[u] = run[u]
      BY <3>1
    <3> QED
      BY <1>4, <1>5, <2>1, <3>1, <3>5, <3>6, OneViewer
  <2>4. CASE ~ IsFresh(n)
    <3> DEFINE x == [view[v] EXCEPT !.phase = "querying", !.age = 0, !.floor = past[TTL - 1]]
    <3>1. view' = [view EXCEPT ![v] = x] /\ StartQuery(v, Unlimited)
      BY <1>9, <2>4, Zenon DEF Lookup, n
    <3>2. QueryInv' /\ run'[v].phase = "polling" /\ run'[v].seen = gold
      BY <1>1, <2>1, <3>1, StartInv, Constants
    <3>3. x \in Page(v)
      <4>1. past[TTL - 1] \in 0 .. MaxGold /\ 0 \in 0 .. TTL
        BY <1>1, <1>2
      <4> QED
        BY <1>1, <4>1 DEF Page
    <3>4. /\ x.phase = "querying" /\ x.age = 0 /\ x.floor = past[TTL - 1] /\ x.next = view[v].next
      BY <1>1, <2>1 DEF Page
    <3> HIDE DEF x
    <3>5. view'[v] = x
      BY <1>6, <3>1
    <3>6. gold >= past[TTL - 1] /\ gold >= past[0]
      BY <1>1, <1>2
    <3>7. Covers(run[v].seen, view[v].age)'
      BY <3>2, <3>4, <3>5, <3>6 DEF Covers, Enough
    <3>8. PageOK(v)'
      BY <2>1, <3>2, <3>3, <3>4, <3>5, <3>6, <3>7 DEF PageOK, Page, Enough
    <3>9. \A u \in Viewer \ {v} : run'[u] = run[u]
      BY <1>1, <3>1 DEF StartQuery, QueryInv
    <3> QED
      BY <1>4, <2>1, <3>1, <3>2, <3>8, <3>9, OneViewer
  <2> QED
    BY <2>3, <2>4
<1>10. CASE Store(v)
  <2> DEFINE n == Current(v)
             entry == [age |-> view[v].age, rows |-> FetchResults(v)]
             x == [view[v] EXCEPT !.phase = "lookup", !.next = view[v].next + 1, !.age = 0, !.shown = FetchResults(v)]
  <2>1. /\ view[v].phase = "querying" /\ Take(v) /\ gold' = gold
        /\ cache' = [cache EXCEPT ![n] = entry]
        /\ view' = [view EXCEPT ![v] = x]
    BY <1>10 DEF Store, Stamp
  <2>2. /\ view[v].next <= Len(Parts[v]) /\ Enough(run[v].seen, view[v].floor)
        /\ Covers(run[v].seen, view[v].age) /\ run[v].phase # "idle"
        /\ view[v].next \in 1 .. Len(Parts[v])
    BY <1>1, <2>1 DEF PageOK, Page
  <2>3. n \in Name
    BY <2>2, Constants DEF Current
  <2>4. /\ FetchResults(v) \in 0 .. MaxGold
        /\ Enough(FetchResults(v), view[v].floor) /\ Covers(FetchResults(v), view[v].age)
    BY <2>2, FetchedRows DEF Covers
  <2>5. entry \in Entry /\ entry.rows = FetchResults(v) /\ entry.age = view[v].age
    BY <1>1, <2>4 DEF Entry, Page
  <2>6. x \in Page(v)
    <3>1. view[v].next + 1 \in 1 .. Len(Parts[v]) + 1 /\ 0 \in 0 .. TTL
      BY <1>1, <2>2
    <3> QED
      BY <1>1, <2>4, <3>1 DEF Page
  <2>7. x.phase = "lookup" /\ x.shown = FetchResults(v) /\ x.floor = view[v].floor
    BY <1>1 DEF Page
  <2> HIDE DEF n, entry, x
  <2>8. /\ cache' \in [Name -> Entry]
        /\ \A m \in Name : Covers(cache'[m].rows, cache'[m].age)
    BY <1>1, <2>1, <2>3, <2>4, <2>5
  <2>9. view'[v] = x /\ PageOK(v)'
    BY <1>6, <2>1, <2>4, <2>6, <2>7 DEF PageOK, Page, Enough
  <2>10. QueryInv'
    BY <1>1, <2>1, TakeInv
  <2>11. \A u \in Viewer \ {v} : run'[u] = run[u]
    BY <1>1, <2>1 DEF Take, QueryInv
  <2> QED
    BY <2>1, <2>8, <2>9, <2>10, <2>11, OneViewer
<1> QED
  BY <1>7, <1>8, <1>9, <1>10 DEF ViewStep

-----------------------------------------------------------------------------
(* Time.                                                                    *)

LEMMA Aging ==
    ASSUME NEW limit \in Nat, NEW age \in 0 .. limit
    PROVE  /\ Older(age, limit) \in 0 .. limit
           /\ Older(age, limit) < limit => Older(age, limit) = age + 1 /\ age < limit
BY DEF Older

\* The history moves on by one tick.
LEMMA PastMoves ==
    ASSUME QueryInv, PastInv, Tick
    PROVE  /\ PastInv'
           /\ \A i \in 0 .. TTL - 2 : past'[i + 1] = past[i]
<1>1. /\ past \in [0 .. TTL - 1 -> 0 .. MaxGold] /\ gold \in 0 .. MaxGold /\ gold' = gold
      /\ past' = [k \in 0 .. TTL - 1 |-> IF k = 0 THEN gold ELSE past[k - 1]]
      /\ TTL \in Nat \ {0} /\ MaxGold \in Nat
      /\ \A i \in 0 .. TTL - 1 : past[i] <= gold
      /\ \A i, j \in 0 .. TTL - 1 : i <= j => past[j] <= past[i]
  BY Constants DEF Tick, PastInv, QueryInv
<1>2. ASSUME NEW k \in 0 .. TTL - 1
      PROVE  /\ k = 0 => past'[k] = gold
             /\ k # 0 => k - 1 \in 0 .. TTL - 1 /\ past'[k] = past[k - 1]
             /\ past'[k] \in 0 .. MaxGold /\ past'[k] <= gold
  BY <1>1
<1>3. past' \in [0 .. TTL - 1 -> 0 .. MaxGold]
  BY <1>1, <1>2
<1>4. ASSUME NEW i \in 0 .. TTL - 1, NEW j \in 0 .. TTL - 1, i <= j
      PROVE  past'[j] <= past'[i]
  <2>1. CASE i = 0
    BY <1>2, <2>1
  <2>2. CASE i # 0
    <3>1. j # 0 /\ i - 1 <= j - 1
      BY <1>1, <1>4, <2>2
    <3> QED
      BY <1>1, <1>2, <2>2, <3>1
  <2> QED
    BY <2>1, <2>2
<1>5. ASSUME NEW i \in 0 .. TTL - 2
      PROVE  past'[i + 1] = past[i]
  <2>1. i + 1 \in 0 .. TTL - 1 /\ i + 1 # 0 /\ (i + 1) - 1 = i
    BY <1>1
  <2> QED
    BY <1>2, <2>1
<1> QED
  BY <1>1, <1>2, <1>3, <1>4, <1>5 DEF PastInv

\* Rows that covered an age cover the next one when the tick is past.
LEMMA CoversOn ==
    ASSUME QueryInv, PastInv, Tick, NEW age \in 0 .. TTL, NEW rows, Covers(rows, age)
    PROVE  Older(age, TTL) < TTL => Enough(rows, past'[Older(age, TTL)])
<1>1. SUFFICES ASSUME Older(age, TTL) < TTL
               PROVE  Enough(rows, past'[Older(age, TTL)])
  OBVIOUS
<1>2. Older(age, TTL) = age + 1 /\ age < TTL
  BY <1>1, Aging, Constants
<1>3. age \in 0 .. TTL - 2
  BY <1>1, <1>2, Constants
<1>4. past'[age + 1] = past[age]
  BY <1>3, PastMoves
<1> QED
  BY <1>2, <1>4 DEF Covers

LEMMA TickCalls ==
    ASSUME QueryInv, Tick
    PROVE  /\ QueryInv'
           /\ \A c \in Client : run'[c].seen = run[c].seen /\ run'[c].phase = run[c].phase
<1>1. gold' = gold /\ run \in [Client -> Call]
      /\ run' = [c \in Client |-> IF run[c].phase = "polling"
                                 THEN [run[c] EXCEPT !.age = Older(@, Timeout + 1)] ELSE run[c]]
  BY DEF Tick, QueryInv
<1>2. ASSUME NEW c \in Client
      PROVE  /\ CallOK(c, run'[c]) /\ run'[c] \in Call
             /\ run'[c].seen = run[c].seen /\ run'[c].phase = run[c].phase
  <2>1. CallOK(c, run[c]) /\ run[c] \in Call
    BY DEF QueryInv
  <2>2. CASE run[c].phase = "polling"
    <3> DEFINE age == Older(run[c].age, Timeout + 1)
               x == [run[c] EXCEPT !.age = age]
    <3>1. age \in 0 .. Timeout + 1
      <4>1. PICK limit \in Nat : limit = Timeout + 1
        BY Constants
      <4>2. run[c].age \in 0 .. limit
        BY <4>1, CallFields
      <4>3. Older(run[c].age, limit) \in 0 .. limit
        BY <4>2, Aging
      <4> QED
        BY <4>1, <4>3
    <3>2. run'[c] = x
      BY <1>1, <2>2
    <3> HIDE DEF age
    <3>3. x \in Call
      BY <2>1, <3>1 DEF Call
    <3>4. x.seen = run[c].seen /\ x.phase = run[c].phase /\ x.limit = run[c].limit
      BY <2>1 DEF Call
    <3> HIDE DEF x
    <3> QED
      BY <2>1, <2>2, <3>2, <3>3, <3>4 DEF CallOK
  <2>3. CASE run[c].phase # "polling"
    BY <1>1, <2>1, <2>3
  <2> QED
    BY <2>2, <2>3
<1>3. run' \in [Client -> Call]
  BY <1>1, <1>2
<1> QED
  BY <1>1, <1>2, <1>3 DEF QueryInv

LEMMA TickInv ==
    ASSUME QueryInv, CacheTypeOK, ToolTypeOK, DashboardInv, Tick
    PROVE  QueryInv' /\ CacheTypeOK' /\ ToolTypeOK' /\ DashboardInv'
<1>1. /\ UNCHANGED <<catalog, shared, mine, tables, holder, scan, ask, prompt>>
      /\ fetched' = [i \in Asker |-> Older(fetched[i], SchemaTTL)]
      /\ cache' = [n \in Name |-> [cache[n] EXCEPT !.age = Older(@, TTL)]]
      /\ view' = [v \in Viewer |-> IF view[v].phase = "querying"
                                  THEN [view[v] EXCEPT !.age = Older(@, TTL)] ELSE view[v]]
  BY DEF Tick
<1>2. fetched' \in [Asker -> 0 .. SchemaTTL]
  BY <1>1, Aging, Constants DEF CacheTypeOK
<1>3. CacheTypeOK' /\ ToolTypeOK'
  BY <1>1, <1>2 DEF CacheTypeOK, ToolTypeOK
<1>4. PastInv /\ PastInv'
  BY PastMoves DEF DashboardInv
<1>5. ASSUME NEW n \in Name
      PROVE  cache'[n] \in Entry /\ Covers(cache[n].rows, cache[n].age)'
  <2>1. cache[n] \in Entry /\ Covers(cache[n].rows, cache[n].age)
    BY DEF DashboardInv
  <2>2. cache[n].age \in 0 .. TTL
    BY <2>1 DEF Entry
  <2> DEFINE age == Older(cache[n].age, TTL)
             x == [cache[n] EXCEPT !.age = age]
  <2>3. age \in 0 .. TTL
    BY <2>2, Aging, Constants
  <2>4. age < TTL => Enough(cache[n].rows, past'[age])
    BY <1>4, <2>1, <2>2, CoversOn
  <2>5. cache'[n] = x
    BY <1>1
  <2> HIDE DEF age
  <2>6. x \in Entry /\ x.age = age /\ x.rows = cache[n].rows
    BY <2>1, <2>3 DEF Entry
  <2> HIDE DEF x
  <2> QED
    BY <2>4, <2>5, <2>6 DEF Covers, Enough
<1>6. cache' \in [Name -> Entry]
  BY <1>1, <1>5
<1>7. ASSUME NEW v \in Viewer
      PROVE  PageOK(v)'
  <2>1. PageOK(v) /\ view[v] \in Page(v) /\ v \in Client
    BY Constants DEF DashboardInv, PageOK
  <2>2. view[v].age \in 0 .. TTL
    BY <2>1 DEF Page
  <2>3. run'[v].seen = run[v].seen /\ run'[v].phase = run[v].phase
    BY <2>1, TickCalls
  <2>4. CASE view[v].phase = "querying"
    <3> DEFINE age == Older(view[v].age, TTL)
               x == [view[v] EXCEPT !.age = age]
    <3>1. age \in 0 .. TTL
      BY <2>2, Aging, Constants
    <3>2. age < TTL => Enough(run[v].seen, past'[age])
      BY <1>4, <2>1, <2>2, <2>4, CoversOn DEF PageOK
    <3>3. view'[v] = x
      BY <1>1, <2>4
    <3> HIDE DEF age
    <3>4. x \in Page(v)
      BY <2>1, <3>1 DEF Page
    <3>5. x.age = age /\ x.phase = "querying" /\ x.next = view[v].next /\ x.floor = view[v].floor
      BY <2>1, <2>4 DEF Page
    <3> HIDE DEF x
    <3>6. Covers(run[v].seen, view[v].age)'
      BY <2>3, <3>2, <3>3, <3>5 DEF Covers, Enough
    <3> QED
      BY <2>1, <2>3, <2>4, <3>3, <3>4, <3>5, <3>6 DEF PageOK, Page, Enough
  <2>5. CASE view[v].phase # "querying"
    <3>1. view'[v] = view[v]
      BY <1>1, <2>5
    <3> QED
      BY <2>1, <2>5, <3>1 DEF PageOK, Page, Enough
  <2> QED
    BY <2>4, <2>5
<1>8. DOMAIN view' = Viewer
  BY <1>1
<1>9. DashboardInv'
  BY <1>4, <1>5, <1>6, <1>7, <1>8 DEF DashboardInv
<1> QED
  BY <1>3, <1>9, TickCalls

-----------------------------------------------------------------------------
(* The system.                                                              *)

IInv == QueryInv /\ CacheTypeOK /\ ToolTypeOK /\ DashboardInv

LEMMA InitInv == Init => IInv
<1> SUFFICES ASSUME Init
             PROVE  IInv
  OBVIOUS
<1>1. QueryInv
  BY IdleOK, Constants DEF Init, AthenaInit, QueryInv, CallOK
<1>2. CacheTypeOK
  BY Constants DEF Init, CacheInit, CacheTypeOK, NoTables, NoScan, Absent, Schema
<1>3. ToolTypeOK
  <2>1. Resting("idle") \in ToolCall
    BY RestingOK DEF Asking
  <2> QED
    BY <2>1, Constants DEF Init, ToolInit, ToolTypeOK, ToolCall, NoTables, Absent, Schema
<1>4. PastInv
  BY Constants DEF Init, AthenaInit, DashboardInit, PastInv
<1>5. Missing \in Entry /\ ~(Missing.age < TTL)
  BY Constants DEF Missing, Entry
<1>6. /\ cache = [n \in Name |-> Missing] /\ view = [v \in Viewer |-> Closed]
  BY DEF Init, DashboardInit
<1>7. \A v \in Viewer : PageOK(v)
  BY <1>6, ClosedOK DEF PageOK
<1>8. DashboardInv
  BY <1>4, <1>5, <1>6, <1>7 DEF DashboardInv, Covers
<1> QED
  BY <1>1, <1>2, <1>3, <1>8 DEF IInv

LEMMA NextInv ==
    ASSUME IInv, [Next]_vars
    PROVE  IInv'
<1> USE DEF IInv
<1>1. CASE Tick
  BY <1>1, TickInv
<1>2. ASSUME NEW c \in Client, QueryEnds(c) \/ CallFails(c) \/ AthenaStep(c), AthenaPart
      PROVE  IInv'
  <2>1. /\ QueryInv' /\ gold' = gold
        /\ \A d \in Client : run'[d].seen >= run[d].seen
                             /\ (run[d].phase # "idle" => run'[d].phase # "idle")
    BY <1>2, AthenaInv
  <2>2. CacheTypeOK' /\ ToolTypeOK'
    BY <1>2 DEF AthenaPart, schemaVars, CacheTypeOK, ToolTypeOK
  <2>3. gold \in Int
    BY DEF QueryInv
  <2>4. DashboardInv'
    BY <1>2, <2>1, <2>3, QueriesProceed, Constants DEF AthenaPart
  <2> QED
    BY <2>1, <2>2, <2>4
<1>3. ASSUME Commit, AthenaPart
      PROVE  IInv'
  <2>1. QueryInv' /\ gold' > gold /\ run' = run
    BY <1>3, CommitInv
  <2>2. CacheTypeOK' /\ ToolTypeOK'
    BY <1>3 DEF AthenaPart, schemaVars, CacheTypeOK, ToolTypeOK
  <2>3. gold \in Int /\ gold' \in Int
    BY <2>1 DEF QueryInv
  <2>4. \A v \in Viewer : v \in Client /\ run[v].seen \in Int
    BY Constants, CallFields
  <2>5. DashboardInv'
    BY <1>3, <2>1, <2>3, <2>4, QueriesProceed DEF AthenaPart
  <2> QED
    BY <2>1, <2>2, <2>5
<1>4. ASSUME QueryInv', CacheTypeOK', ToolTypeOK', gold' = gold, ToolPart,
             \A v \in Viewer : run'[v] = run[v]
      PROVE  IInv'
  <2>1. gold \in Int
    BY DEF QueryInv
  <2>2. \A v \in Viewer : v \in Client /\ run[v].seen \in Int
    BY Constants, CallFields
  <2>3. DashboardInv'
    BY <1>4, <2>1, <2>2, QueriesProceed DEF ToolPart
  <2> QED
    BY <1>4, <2>3
<1>5. CASE Evolve /\ UNCHANGED <<gold, run, ask, prompt>> /\ ToolPart
  <2>1. CacheTypeOK'
    BY <1>5, EvolveInv
  <2>2. QueryInv'
    BY <1>5 DEF QueryInv, CallOK
  <2>3. ToolTypeOK'
    BY <1>5 DEF ToolTypeOK
  <2> QED
    BY <1>4, <1>5, <2>1, <2>2, <2>3
<1>6. ASSUME NEW r \in Asker, Ask(r) \/ ToolStep(r), ToolPart
      PROVE  IInv'
  BY <1>4, <1>6, ToolInv
<1>7. ASSUME NEW v \in Viewer, Open(v) \/ ViewStep(v), DashboardPart
      PROVE  IInv'
  <2>1. QueryInv' /\ DashboardInv'
    BY <1>7, ViewerInv DEF DashboardPart
  <2> QED
    BY <1>7, <2>1 DEF DashboardPart, schemaVars, CacheTypeOK, ToolTypeOK
<1>8. CASE UNCHANGED vars
  <2>1. UNCHANGED <<gold, run, ask, prompt, cache, view, past, coming>> /\ UNCHANGED schemaVars
    BY <1>8 DEF vars, schemaVars
  <2>2. QueryInv' /\ CacheTypeOK' /\ ToolTypeOK'
    BY <2>1 DEF QueryInv, CallOK, schemaVars, CacheTypeOK, ToolTypeOK
  <2> QED
    BY <1>4, <2>1, <2>2 DEF ToolPart, dashboardVars
<1> QED
  BY <1>1, <1>2, <1>3, <1>5, <1>6, <1>7, <1>8, Zenon DEF Next

\* Queries, schema cache, chat tool and dashboards stay what they are, and rows are never
\* older than their age says.
THEOREM InductiveInvariant == Spec => []IInv
<1>1. IInv /\ [Next]_vars => IInv'
  BY NextInv
<1> QED
  BY InitInv, <1>1, PTL DEF Spec

\* Whatever the callers, Athena, Glue and the model do, the variables keep their types.
THEOREM TypeCorrect == Spec => []TypeOK
<1>1. IInv => TypeOK
  BY DEF IInv, TypeOK, QueryInv, DashboardInv, PastInv, PageOK, AthenaTypeOK, DashboardTypeOK, Call,
         Entry, Page
<1> QED
  BY InductiveInvariant, <1>1, PTL

\* A call that answered has no query running behind it.
THEOREM NoQueryOrphaned == Spec => []NoOrphanQuery
<1>1. IInv => NoOrphanQuery
  BY DEF IInv, QueryInv, CallOK, NoOrphanQuery
<1> QED
  BY InductiveInvariant, <1>1, PTL

\* Whatever the time to live, the order of the fills and the length of the queries, what a
\* viewer is shown is no older than the time to live.
THEOREM AlwaysFreshEnough == Spec => []FreshEnough
<1>1. IInv => FreshEnough
  <2> SUFFICES ASSUME IInv, NEW v \in Viewer, view[v].phase = "lookup", view[v].next > 1
               PROVE  view[v].shown >= Min({view[v].floor, Cap})
    BY DEF FreshEnough
  <2>1. view[v].shown \in Int /\ view[v].floor \in Int /\ Cap \in Int
        /\ Enough(view[v].shown, view[v].floor)
    BY Constants DEF IInv, DashboardInv, PageOK, Page
  <2>2. Min({view[v].floor, Cap}) = IF view[v].floor <= Cap THEN view[v].floor ELSE Cap
    BY <2>1 DEF Min
  <2> QED
    BY <2>1, <2>2 DEF Enough
<1> QED
  BY InductiveInvariant, <1>1, PTL

\* The rows that are fetched are never fewer than the LIMIT of the statement that ran, or
\* the table, allows.
THEOREM TruncationAlwaysVisible == Spec => []TruncationVisible
<1>1. IInv => TruncationVisible
  <2> SUFFICES ASSUME IInv, NEW r \in Asker, run[r].phase = "returned"
               PROVE  FetchResults(r) = Min({run[r].seen, run[r].limit})
    BY DEF TruncationVisible
  <2>1. run[r].seen \in Int /\ run[r].limit \in Int /\ run[r].limit <= Cap
    BY Constants DEF IInv, QueryInv, CallOK, Call
  <2>2. PICK m \in {run[r].seen, run[r].limit} : \A y \in {run[r].seen, run[r].limit} : m <= y
    BY <2>1
  <2>3. Min({run[r].seen, run[r].limit}) = m
    BY <2>1, <2>2 DEF Min
  <2>4. Min({run[r].seen, run[r].limit, Cap}) = m
    BY <2>1, <2>2, Constants DEF Min
  <2> QED
    BY <2>3, <2>4 DEF FetchResults
<1> QED
  BY InductiveInvariant, <1>1, PTL

\* A statement within the rules of the prompt is accepted, whatever tables the prompt
\* shows.
THEOREM PromptedAlwaysAccepted == Spec => []PromptedAccepted
<1>1. ASSUME NEW s \in Statements, NEW shown, FollowsPrompt(s, shown)
      PROVE  Accepted(s)
  <2>1. s.refs \subseteq Reference
    BY SqlToolAssumption
  <2> DEFINE real == {x \in s.refs : ~(x.db = "" /\ x.name \in s.ctes)}
             named(r) == IF r.db = "" THEN [r EXCEPT !.db = "gold"] ELSE r
  <2>2. ASSUME NEW r \in real
        PROVE  /\ named(r).db = "gold" /\ named(r).catalog # "elsewhere" /\ named(r).name \in GoldTables
    <3>1. /\ r \in Reference /\ r.db \in {"", "gold"} /\ r.catalog # "elsewhere" /\ r.name \in GoldTables
      BY <1>1, <2>1 DEF FollowsPrompt
    <3> QED
      BY <3>1 DEF Reference
  <2>3. Resolved(s) = {named(r) : r \in real}
    BY DEF Resolved
  <2>4. real # {}
    BY <1>1 DEF FollowsPrompt
  <2> HIDE DEF real, named
  <2>5. ~CrossCatalog(s) /\ Disallowed(s) = {} /\ Resolved(s) # {}
    BY <2>2, <2>3, <2>4 DEF CrossCatalog, Disallowed, Allowed
  <2>6. s.statements = 1 /\ ReadOnly(s)
    BY <1>1 DEF FollowsPrompt, ReadOnly
  <2> QED
    BY <2>5, <2>6 DEF Accepted
<1>2. IInv => PromptedAccepted
  <2>1. IInv => \A r \in Asker : ask[r].sql \in Statements
    BY DEF IInv, ToolTypeOK
  <2> QED
    BY <1>1, <2>1 DEF PromptedAccepted
<1> QED
  BY InductiveInvariant, <1>2, PTL

\* No order of refreshes and failing calls empties a cache object.
THEOREM SchemasSurvive == Spec => SchemaSurvives
<1>1. IInv /\ [Next]_vars => [\A i \in Asker : tables[i] # NoTables => tables'[i] # NoTables]_tables
  <2> SUFFICES ASSUME IInv, [Next]_vars, tables' # tables, NEW i \in Asker, tables[i] # NoTables
               PROVE  tables'[i] # NoTables
    OBVIOUS
  <2>1. ASSUME NEW r \in Asker, Install(r)
        PROVE  tables'[i] # NoTables
    BY <2>1 DEF Install, FoundTables, IInv, CacheTypeOK
  <2>2. ASSUME NEW r \in Asker, Ask(r) \/ ToolStep(r)
        PROVE  tables' = tables \/ Install(r)
    BY <2>2 DEF Ask, ToolStep, FindNoCache, NewCache, TakeCache, CreateCache, BindCache, ReadSchema,
                RefreshSchema, Refresh, Describe, Generate, ModelFails, Reject, Execute, Answer,
                schemaVars
  <2>3. \E r \in Asker : Ask(r) \/ ToolStep(r)
    BY DEF Next, vars, Tick, AthenaPart, DashboardPart, Evolve, schemaVars
  <2> QED
    BY <2>1, <2>2, <2>3
<1> QED
  BY <1>1, InductiveInvariant, PTL DEF Spec, SchemaSurvives
-----------------------------------------------------------------------------
(* What EveryQuestionEnds rests on. How far a question still has to go is a   *)
(* triple of naturals, compared from the left: attempts left, phases left of  *)
(* this one, work left in the phase.                                          *)

AttemptsLeft(r) ==
    CASE ask[r].phase = "idle"   -> 0
      [] ask[r].phase = "athena" -> 1
      [] OTHER                   -> 2 + MaxRepairs - ask[r].attempt

PhasesLeft(r) ==
    CASE ask[r].phase = "cache"    -> 6
      [] ask[r].phase = "creating" -> 5
      [] ask[r].phase = "binding"  -> 4
      [] ask[r].phase = "schema"   -> 3
      [] ask[r].phase = "generate" -> 2
      [] ask[r].phase = "validate" -> 1
      [] OTHER                     -> 0

\* A query that runs is given until a tick after the deadline.
QueryLeft(x) ==
    CASE x.phase = "polling" /\ x.state = "RUNNING" -> Timeout + 4 - x.age
      [] x.phase = "polling" /\ x.state # "RUNNING" -> 2
      [] x.phase = "stopping" -> 2
      [] x.phase \in {"returned", "raised", "broken"} -> 1
      [] OTHER -> 0

HasLock(r) == holder[mine[r]] = r

WorkLeft(r) ==
    CASE ask[r].phase = "schema" /\ ~HasLock(r) -> Len(TableOrder) + 2
      [] ask[r].phase = "schema" /\ HasLock(r)  -> Len(TableOrder) + 1 - scan[r].next
      [] ask[r].phase = "athena" -> QueryLeft(run[r])
      [] OTHER -> 0

Closer(r) ==
    \/ AttemptsLeft(r)' < AttemptsLeft(r)
    \/ AttemptsLeft(r)' = AttemptsLeft(r) /\ PhasesLeft(r)' < PhasesLeft(r)
    \/ /\ AttemptsLeft(r)' = AttemptsLeft(r) /\ PhasesLeft(r)' = PhasesLeft(r)
       /\ WorkLeft(r)' < WorkLeft(r)

AsFar(r) ==
    /\ AttemptsLeft(r)' = AttemptsLeft(r)
    /\ PhasesLeft(r)' = PhasesLeft(r)
    /\ WorkLeft(r)' = WorkLeft(r)

\* A step of the thread that asks, of its call to Athena, or of the clock while its query
\* runs within the deadline.
OwnStep(r) ==
    \/ ToolStep(r) /\ ToolPart
    \/ (AthenaStep(r) \/ CallFails(r)) /\ AthenaPart
    \/ Tick /\ run[r].phase = "polling" /\ run[r].state = "RUNNING" /\ run[r].age <= Timeout

\* All of it is measured in naturals.
Measured(r) == AttemptsLeft(r) \in Nat /\ PhasesLeft(r) \in Nat /\ WorkLeft(r) \in Nat

\* A question has a call to Athena only in its last phase.
Paired == \A r \in Asker : ask[r].phase # "athena" => run[r].phase = "idle"

\* Each step of a question brings it closer to its answer, whatever the model answers, Glue
\* and Athena fail and the lock is held by, and no other step sets it back.
QuestionsRunOut ==
    [][\A r \in Asker : ask[r].phase # "idle" =>
           /\ OwnStep(r) => Closer(r)
           /\ AsFar(r) \/ Closer(r)]_vars

\* A step of one asker is none of another's call and question.
LEMMA OneAsker ==
    ASSUME NEW o \in Asker, Ask(o) \/ ToolStep(o), NEW r \in Asker \ {o},
           DOMAIN ask = Asker, DOMAIN run = Client
    PROVE  ask'[r] = ask[r] /\ run'[r] = run[r]
<1>1. r \in Client /\ o \in Client
  BY Constants
<1>2. CASE Ask(o) \/ FindNoCache(o) \/ NewCache(o) \/ TakeCache(o) \/ ReadSchema(o)
  BY <1>1, <1>2 DEF Ask, FindNoCache, NewCache, TakeCache, ReadSchema
<1>3. CASE RefreshSchema(o) \/ ModelFails(o) \/ Generate(o) \/ Reject(o)
  BY <1>1, <1>3 DEF RefreshSchema, ModelFails, Generate, Reject
<1>4. CASE Execute(o) \/ Answer(o)
  BY <1>1, <1>4 DEF Execute, Answer, StartQuery, Take
<1> QED
  BY <1>2, <1>3, <1>4 DEF ToolStep

\* It takes and lets go of its own lock only, and binds itself alone.
LEMMA OneLock ==
    ASSUME CacheTypeOK, NEW o \in Asker, Ask(o) \/ ToolStep(o), NEW r \in Asker \ {o}
    PROVE  /\ mine'[r] = mine[r] /\ scan'[r] = scan[r]
           /\ \A i \in Asker : holder[i] = r <=> holder'[i] = r
<1>1. /\ o # Nobody /\ r # Nobody /\ mine[o] \in Asker /\ DOMAIN mine = Asker
      /\ DOMAIN holder = Asker /\ DOMAIN scan = Asker
  BY Constants DEF CacheTypeOK
<1>2. CASE UNCHANGED <<mine, holder, scan>>
  BY <1>2
<1>3. CASE BindCache(o)
  BY <1>1, <1>3 DEF BindCache
<1>4. CASE Refresh(o)
  BY <1>1, <1>4 DEF Refresh, LockFree
<1>5. CASE Describe(o)
  BY <1>1, <1>5 DEF Describe
<1>6. CASE Install(o)
  BY <1>1, <1>6 DEF Install
<1> QED
  BY <1>2, <1>3, <1>4, <1>5, <1>6 DEF Ask, ToolStep, FindNoCache, NewCache, TakeCache, CreateCache,
     ReadSchema, RefreshSchema, ModelFails, Generate, Reject, Execute, Answer, schemaVars

\* A call begins with Execute and is taken with Answer.
LEMMA PairedStep ==
    ASSUME IInv, Paired, [Next]_vars
    PROVE  Paired'
<1> SUFFICES ASSUME NEW r \in Asker, ask'[r].phase # "athena"
             PROVE  run'[r].phase = "idle"
  BY DEF Paired
<1>1. /\ r \in Client /\ r \notin Viewer
      /\ ask \in [Asker -> ToolCall] /\ run \in [Client -> Call]
      /\ ask[r].phase # "athena" => run[r].phase = "idle"
  BY Constants DEF Paired, IInv, ToolTypeOK, ToolCall, QueryInv
<1>2. CASE ask'[r] = ask[r] /\ (run[r].phase = "idle" => run'[r].phase = "idle")
  BY <1>1, <1>2
<1>3. CASE Tick
  BY <1>1, <1>2, <1>3 DEF Tick
<1>4. CASE \E c \in Client : (QueryEnds(c) \/ CallFails(c) \/ AthenaStep(c)) /\ AthenaPart
  <2>1. PICK c \in Client : (QueryEnds(c) \/ CallFails(c) \/ AthenaStep(c)) /\ AthenaPart
    BY <1>4
  <2>2. run'[r].phase = "idle" \/ run'[r] = run[r] \/ run[r].phase # "idle" \/ c = r
    BY <1>1, <2>1 DEF QueryEnds, CallFails, AthenaStep, PollEnded, PollLate, StopQuery
  <2>3. run[r].phase = "idle" => run'[r].phase = "idle"
    BY <1>1, <2>1, AthenaInv DEF IInv, QueryEnds, CallFails, AthenaStep, PollEnded, PollLate,
       StopQuery, Call
  <2> QED
    BY <1>2, <2>1, <2>3 DEF AthenaPart
<1>5. CASE Commit /\ AthenaPart
  BY <1>2, <1>5 DEF Commit, AthenaPart
<1>6. CASE Evolve /\ UNCHANGED <<gold, run, ask, prompt>> /\ ToolPart
  BY <1>2, <1>6
<1>7. CASE \E o \in Asker : ((o \in coming /\ Ask(o)) \/ ToolStep(o)) /\ ToolPart
  <2>1. PICK o \in Asker : Ask(o) \/ ToolStep(o)
    BY <1>7
  <2>2. CASE o # r
    BY <1>1, <1>2, <2>1, <2>2, OneAsker
  <2>3. CASE o = r /\ ~Execute(r) /\ ~Answer(r)
    <3>1. run' = run /\ ask[r].phase # "athena"
      BY <2>1, <2>3 DEF Ask, ToolStep, FindNoCache, NewCache, TakeCache, ReadSchema, RefreshSchema,
         ModelFails, Generate, Reject
    <3> QED
      BY <1>1, <3>1
  <2>4. CASE Execute(r)
    BY <1>1, <2>4 DEF Execute, Resting
  <2>5. CASE Answer(r)
    BY <1>1, <2>5, IdleOK DEF Answer, Take
  <2> QED
    BY <2>1, <2>2, <2>3, <2>4, <2>5
<1>8. CASE \E v \in Viewer : ((v \in coming /\ Open(v)) \/ ViewStep(v)) /\ DashboardPart
  BY <1>1, <1>2, <1>8, Constants DEF Open, ViewStep, Lookup, Store, Fail, Show, StartQuery, Take,
     DashboardPart
<1>9. CASE UNCHANGED vars
  BY <1>2, <1>9 DEF vars
<1> QED
  BY <1>3, <1>4, <1>5, <1>6, <1>7, <1>8, <1>9, Zenon DEF Next

\* A query's measure is a natural.
LEMMA QueryNatural == \A x \in Call : QueryLeft(x) \in Nat
BY Constants DEF QueryLeft, Call

\* Whoever gets the lock has less left than whoever waits for it.
LEMMA LeftNatural ==
    ASSUME IInv, NEW r \in Asker
    PROVE  /\ Measured(r)
           /\ ask[r].phase = "schema" /\ ~HasLock(r) => WorkLeft(r) = Len(TableOrder) + 2
           /\ ask[r].phase = "schema" /\ HasLock(r) => WorkLeft(r) <= Len(TableOrder)
<1>1. /\ ask[r] \in ToolCall /\ run[r] \in Call
      /\ scan[r].next \in 1 .. Len(TableOrder) + 1 /\ Len(TableOrder) \in Nat
      /\ MaxRepairs \in Nat /\ Timeout \in Nat
  BY Constants DEF IInv, ToolTypeOK, ToolCall, QueryInv, CacheTypeOK
<1>2. QueryLeft(run[r]) \in Nat
  BY <1>1, QueryNatural
<1>3. AttemptsLeft(r) \in Nat
  BY <1>1 DEF AttemptsLeft, ToolCall
<1>4. PhasesLeft(r) \in Nat
  BY DEF PhasesLeft
<1>5. /\ WorkLeft(r) \in Nat
      /\ ask[r].phase = "schema" /\ ~HasLock(r) => WorkLeft(r) = Len(TableOrder) + 2
      /\ ask[r].phase = "schema" /\ HasLock(r) => WorkLeft(r) <= Len(TableOrder)
  BY <1>1, <1>2 DEF WorkLeft
<1> QED
  BY <1>3, <1>4, <1>5 DEF Measured

\* A question left where it is, with its query no further from its end.
LEMMA Unmoved ==
    ASSUME IInv, NEW r \in Asker, ask'[r] = ask[r], run'[r] \in Call,
           HasLock(r) <=> HasLock(r)', HasLock(r) => scan'[r] = scan[r],
           ask[r].phase = "athena" => QueryLeft(run[r])' <= QueryLeft(run[r])
    PROVE  /\ AsFar(r) \/ Closer(r)
           /\ ask[r].phase = "athena" /\ QueryLeft(run[r])' < QueryLeft(run[r]) => Closer(r)
<1>1. AttemptsLeft(r)' = AttemptsLeft(r) /\ PhasesLeft(r)' = PhasesLeft(r)
  BY DEF AttemptsLeft, PhasesLeft
<1>2. CASE ask[r].phase # "athena"
  <2>1. WorkLeft(r)' = WorkLeft(r)
    BY <1>2 DEF WorkLeft
  <2> QED
    BY <1>1, <1>2, <2>1 DEF AsFar
<1>3. CASE ask[r].phase = "athena"
  <2>1. WorkLeft(r) = QueryLeft(run[r]) /\ WorkLeft(r)' = QueryLeft(run[r])'
    BY <1>3 DEF WorkLeft
  <2>2. WorkLeft(r) \in Nat /\ WorkLeft(r)' \in Nat
    BY <2>1, LeftNatural, QueryNatural DEF Measured
  <2> QED
    BY <1>1, <1>3, <2>1, <2>2 DEF AsFar, Closer
<1> QED
  BY <1>2, <1>3

\* Every step of the thread that asks.
LEMMA ToolCloser ==
    ASSUME IInv, NEW r \in Asker, ask[r].phase # "idle", ToolStep(r)
    PROVE  Closer(r)
<1>1. /\ ask \in [Asker -> ToolCall] /\ MaxRepairs \in Nat
      /\ scan[r].next \in 1 .. Len(TableOrder) + 1 /\ Len(TableOrder) \in Nat
      /\ Nobody # r /\ mine[r] \in Asker /\ DOMAIN holder = Asker
      /\ scan \in [Asker -> [next : 1 .. Len(TableOrder) + 1, found : Schema]]
  BY Constants DEF IInv, ToolTypeOK, ToolCall, CacheTypeOK
<1>2. /\ ask[r].attempt \in 0 .. MaxRepairs
      /\ \A phase : Resting(phase).phase = phase /\ Resting(phase).attempt = 0
  BY <1>1 DEF ToolCall, Resting
<1>3. /\ ask[r].phase \in {"cache", "creating", "binding", "schema", "generate", "validate"} =>
             /\ AttemptsLeft(r) = 2 + MaxRepairs - ask[r].attempt
             /\ AttemptsLeft(r) \in Nat /\ AttemptsLeft(r) > 1
      /\ ask[r].phase = "athena" => AttemptsLeft(r) = 1
      /\ ask'[r].phase = "idle" => AttemptsLeft(r)' = 0
      /\ ask'[r].phase = "athena" => AttemptsLeft(r)' = 1
      /\ ask'[r].phase \in {"cache", "creating", "binding", "schema", "generate", "validate"} =>
             AttemptsLeft(r)' = 2 + MaxRepairs - ask'[r].attempt
  BY <1>1, <1>2 DEF AttemptsLeft
<1>4. CASE ReadSchema(r) \/ Generate(r)
  <2>1. /\ ask'[r].attempt = ask[r].attempt
        /\ \/ ask[r].phase = "schema" /\ ask'[r].phase = "generate"
           \/ ask[r].phase = "generate" /\ ask'[r].phase = "validate"
    <3>1. CASE ReadSchema(r)
      <4>1. ask[r].phase = "schema" /\ ask' = [ask EXCEPT ![r].phase = "generate"]
        BY <3>1 DEF ReadSchema
      <4> QED
        BY <1>1, <4>1 DEF ToolCall
    <3>2. CASE Generate(r)
      <4>1. PICK sql \in Statements :
              ask' = [ask EXCEPT ![r] = [ask[r] EXCEPT !.phase = "validate", !.sql = sql]]
        BY <3>2 DEF Generate
      <4>2. ask[r].phase = "generate"
        BY <3>2 DEF Generate
      <4> QED
        BY <1>1, <4>1, <4>2 DEF ToolCall
    <3> QED
      BY <1>4, <3>1, <3>2
  <2>2. AttemptsLeft(r)' = AttemptsLeft(r)
    BY <1>3, <2>1
  <2>3. PhasesLeft(r)' < PhasesLeft(r)
    BY <2>1 DEF PhasesLeft
  <2> QED
    BY <2>2, <2>3 DEF Closer
<1>10. CASE FindNoCache(r) \/ NewCache(r) \/ TakeCache(r)
  <2>1. /\ ask'[r].attempt = ask[r].attempt
        /\ \/ ask[r].phase = "cache" /\ ask'[r].phase = "creating"
           \/ ask[r].phase = "creating" /\ ask'[r].phase = "binding"
           \/ ask[r].phase \in {"cache", "binding"} /\ ask'[r].phase = "schema"
    <3>1. PICK phase \in {"creating", "binding", "schema"} :
            /\ ask' = [ask EXCEPT ![r].phase = phase]
            /\ \/ ask[r].phase = "cache" /\ phase = "creating"
               \/ ask[r].phase = "creating" /\ phase = "binding"
               \/ ask[r].phase \in {"cache", "binding"} /\ phase = "schema"
      BY <1>10 DEF FindNoCache, NewCache, TakeCache
    <3> QED
      BY <1>1, <3>1 DEF ToolCall
  <2>2. AttemptsLeft(r)' = AttemptsLeft(r)
    BY <1>3, <2>1
  <2>3. PhasesLeft(r)' < PhasesLeft(r)
    BY <2>1 DEF PhasesLeft
  <2> QED
    BY <2>2, <2>3 DEF Closer
<1>5. CASE RefreshSchema(r)
  <2>1. ask' = ask /\ ask[r].phase = "schema" /\ HasLock(r)'
    BY <1>1, <1>5 DEF RefreshSchema, Refresh, Describe, HasLock
  <2>2. \/ ~HasLock(r) /\ scan' = scan
        \/ HasLock(r) /\ scan'[r].next = scan[r].next + 1
    <3>1. CASE Refresh(r)
      BY <1>1, <3>1 DEF Refresh, LockFree, HasLock
    <3>2. CASE Describe(r)
      BY <1>1, <3>2 DEF Describe, HasLock
    <3> QED
      BY <1>5, <3>1, <3>2 DEF RefreshSchema
  <2>3. WorkLeft(r)' < WorkLeft(r)
    BY <1>1, <2>1, <2>2 DEF WorkLeft
  <2>4. AttemptsLeft(r)' = AttemptsLeft(r) /\ PhasesLeft(r)' = PhasesLeft(r)
    BY <2>1 DEF AttemptsLeft, PhasesLeft
  <2> QED
    BY <2>3, <2>4 DEF Closer
<1>6. CASE ModelFails(r)
  <2>1. ask[r].phase = "generate" /\ ask'[r].phase = "idle"
    BY <1>1, <1>2, <1>6 DEF ModelFails
  <2> QED
    BY <1>3, <2>1 DEF Closer
<1>7. CASE Reject(r)
  <2>1. CASE ask'[r].phase = "idle"
    BY <1>3, <1>7, <2>1 DEF Reject, Closer
  <2>2. CASE ask'[r].phase = "cache" /\ ask'[r].attempt = ask[r].attempt + 1
    BY <1>1, <1>2, <1>3, <1>7, <2>2 DEF Reject, Closer
  <2> QED
    BY <1>1, <1>2, <1>7, <2>1, <2>2 DEF Reject, Resting
<1>8. CASE Execute(r)
  <2>1. ask[r].phase = "validate" /\ ask'[r].phase = "athena"
    BY <1>1, <1>2, <1>8 DEF Execute
  <2> QED
    BY <1>3, <2>1 DEF Closer
<1>9. CASE Answer(r)
  <2>1. ask[r].phase = "athena" /\ ask'[r].phase = "idle"
    BY <1>1, <1>2, <1>9 DEF Answer
  <2> QED
    BY <1>3, <2>1 DEF Closer
<1> QED
  BY <1>4, <1>5, <1>6, <1>7, <1>8, <1>9, <1>10 DEF ToolStep

\* What its call to Athena and the clock do to a query.
LEMMA QueryCloser ==
    ASSUME IInv, NEW r \in Asker,
           \/ AthenaStep(r) \/ CallFails(r) \/ QueryEnds(r)
           \/ Tick
    PROVE  /\ QueryLeft(run[r])' <= QueryLeft(run[r])
           /\ AthenaStep(r) \/ CallFails(r) => QueryLeft(run[r])' < QueryLeft(run[r])
           /\ Tick /\ run[r].phase = "polling" /\ run[r].state = "RUNNING" /\ run[r].age <= Timeout
                => QueryLeft(run[r])' < QueryLeft(run[r])
           /\ run'[r] \in Call
<1>1. run \in [Client -> Call] /\ r \in Client /\ Timeout \in Nat /\ run[r] \in Call
  BY Constants DEF IInv, QueryInv
<1>2. /\ run[r].age \in 0 .. Timeout + 1
      /\ run[r].state \in {"NONE", "RUNNING", "SUCCEEDED", "FAILED", "CANCELLED"}
      /\ run[r].phase \in {"idle", "polling", "stopping", "returned", "raised", "broken"}
  BY <1>1 DEF Call
<1>3. CASE AthenaStep(r) \/ CallFails(r)
  <2>1. \/ /\ run[r].phase = "polling"
           /\ run'[r].phase \in {"returned", "raised", "broken"}
        \/ /\ run[r].phase = "polling" /\ run[r].state = "RUNNING"
           /\ run'[r].phase = "stopping"
        \/ /\ run[r].phase = "stopping"
           /\ run'[r].phase \in {"raised", "broken"}
    <3>1. CASE PollEnded(r)
      BY <1>1, <3>1 DEF PollEnded, Call
    <3>2. CASE PollLate(r)
      BY <1>1, <3>2 DEF PollLate, Call
    <3>3. CASE StopQuery(r)
      <4>1. /\ run[r].phase = "stopping"
            /\ run'[r] = [run[r] EXCEPT !.phase = "raised", !.state = Stopped(run[r].state)]
        BY <1>1, <3>3 DEF StopQuery
      <4> QED
        BY <1>1, <4>1 DEF Call
    <3>4. CASE CallFails(r)
      BY <1>1, <3>4 DEF CallFails, Call
    <3> QED
      BY <1>3, <3>1, <3>2, <3>3, <3>4 DEF AthenaStep
  <2>2. QueryLeft(run[r])' < QueryLeft(run[r])
    BY <1>1, <1>2, <2>1 DEF QueryLeft
  <2>3. run'[r] \in Call
    BY <1>1, <1>3, AthenaInv DEF IInv, QueryInv
  <2>4. QueryLeft(run[r]) \in Nat /\ QueryLeft(run[r])' \in Nat
    BY <1>1, <2>3, QueryNatural
  <2> QED
    BY <2>2, <2>3, <2>4
<1>4. CASE QueryEnds(r) /\ ~(AthenaStep(r) \/ CallFails(r))
  <2>1. /\ run'[r].phase = run[r].phase
        /\ run[r].state = "RUNNING" /\ run'[r].state \in {"SUCCEEDED", "FAILED"}
    BY <1>1, <1>4 DEF QueryEnds, Call
  <2>2. /\ QueryLeft(run[r])' <= QueryLeft(run[r])
        /\ run[r].phase = "polling" => QueryLeft(run[r])' < QueryLeft(run[r])
    BY <1>1, <1>2, <2>1 DEF QueryLeft
  <2>3. run'[r] \in Call
    BY <1>1, <1>4, AthenaInv DEF IInv, QueryInv
  <2> QED
    BY <1>4, <2>2, <2>3
<1>5. CASE Tick /\ ~(AthenaStep(r) \/ CallFails(r))
  <2>1. /\ run'[r].phase = run[r].phase /\ run'[r].state = run[r].state
        /\ run'[r].age = IF run[r].phase = "polling" THEN Older(run[r].age, Timeout + 1)
                         ELSE run[r].age
        /\ run'[r] \in Call
    <3>1. \/ run[r].phase = "polling" /\ run'[r] = [run[r] EXCEPT !.age = Older(@, Timeout + 1)]
          \/ run[r].phase # "polling" /\ run'[r] = run[r]
      BY <1>1, <1>5 DEF Tick
    <3>2. Older(run[r].age, Timeout + 1) \in 0 .. Timeout + 1
      BY <1>1, <1>2 DEF Older
    <3> QED
      BY <1>1, <3>1, <3>2 DEF Call
  <2>2. /\ QueryLeft(run[r])' <= QueryLeft(run[r])
        /\ run[r].phase = "polling" /\ run[r].state = "RUNNING" /\ run[r].age <= Timeout
                => QueryLeft(run[r])' < QueryLeft(run[r])
    BY <1>1, <1>2, <2>1 DEF QueryLeft, Older
  <2> QED
    BY <1>5, <2>1, <2>2
<1> QED
  BY <1>3, <1>4, <1>5

\* Every step of its own, those of its call and of the deadline included.
LEMMA OwnCloser ==
    ASSUME IInv, Paired, NEW r \in Asker, ask[r].phase # "idle", OwnStep(r)
    PROVE  Closer(r)
<1>1. CASE ToolStep(r)
  BY <1>1, ToolCloser
<1>2. CASE \/ (AthenaStep(r) \/ CallFails(r)) /\ AthenaPart
           \/ Tick /\ run[r].phase = "polling" /\ run[r].state = "RUNNING" /\ run[r].age <= Timeout
  <2>1. /\ UNCHANGED <<ask, mine, holder, scan>> /\ run[r].phase # "idle"
        /\ QueryLeft(run[r])' < QueryLeft(run[r]) /\ QueryLeft(run[r])' <= QueryLeft(run[r])
        /\ run'[r] \in Call
    BY <1>2, QueryCloser DEF AthenaPart, schemaVars, Tick, AthenaStep, PollEnded, PollLate,
       StopQuery, CallFails
  <2>2. ask[r].phase = "athena"
    BY <2>1 DEF Paired
  <2> QED
    BY <2>1, <2>2, Unmoved DEF HasLock
<1> QED
  BY <1>1, <1>2 DEF OwnStep

\* The steps of others: of Athena, the clock, the pipeline, the viewers and other askers,
\* who may hold the lock.
LEMMA OthersLeave ==
    ASSUME IInv, NEW r \in Asker, ask[r].phase # "idle", Next, ~ToolStep(r)
    PROVE  AsFar(r) \/ Closer(r)
<1>1. /\ r \in Client /\ r \notin Viewer /\ Nobody # r
      /\ ask \in [Asker -> ToolCall] /\ run \in [Client -> Call]
      /\ run[r] \in Call /\ QueryLeft(run[r]) \in Nat
      /\ CacheTypeOK /\ mine[r] \in Asker
  BY Constants, QueryNatural DEF IInv, ToolTypeOK, ToolCall, QueryInv, CacheTypeOK
<1>2. ASSUME ask'[r] = ask[r], run'[r] = run[r], HasLock(r) <=> HasLock(r)',
             HasLock(r) => scan'[r] = scan[r]
      PROVE  AsFar(r) \/ Closer(r)
  BY <1>1, <1>2, Unmoved
<1>10. ASSUME ask'[r] = ask[r], run'[r] = run[r], UNCHANGED <<mine, holder, scan>>
       PROVE  AsFar(r) \/ Closer(r)
  BY <1>2, <1>10 DEF HasLock
<1>3. CASE Tick
  BY <1>3, QueryCloser, Unmoved DEF Tick, HasLock
<1>4. CASE \E c \in Client : (QueryEnds(c) \/ CallFails(c) \/ AthenaStep(c)) /\ AthenaPart
  <2>1. PICK c \in Client : (QueryEnds(c) \/ CallFails(c) \/ AthenaStep(c)) /\ AthenaPart
    BY <1>4
  <2>2. UNCHANGED <<ask, mine, holder, scan>>
    BY <2>1 DEF AthenaPart, schemaVars
  <2>3. CASE c = r
    BY <2>1, <2>2, <2>3, QueryCloser, Unmoved DEF HasLock
  <2>4. CASE c # r
    <3>1. run'[r] = run[r]
      BY <1>1, <2>1, <2>4 DEF QueryEnds, CallFails, AthenaStep, PollEnded, PollLate, StopQuery
    <3> QED
      BY <1>10, <2>2, <3>1
  <2> QED
    BY <2>3, <2>4
<1>5. CASE Commit /\ AthenaPart
  BY <1>10, <1>5 DEF Commit, AthenaPart, schemaVars
<1>6. CASE Evolve /\ UNCHANGED <<gold, run, ask, prompt>> /\ ToolPart
  BY <1>10, <1>6 DEF Evolve
<1>7. CASE \E o \in Asker : ((o \in coming /\ Ask(o)) \/ ToolStep(o)) /\ ToolPart
  <2>1. PICK o \in Asker : Ask(o) \/ ToolStep(o)
    BY <1>7
  <2>2. o # r /\ o \in Client
    BY <2>1, Constants DEF Ask
  <2>3. ask'[r] = ask[r] /\ run'[r] = run[r]
    BY <1>1, <2>1, <2>2, OneAsker
  <2>4. /\ mine'[r] = mine[r] /\ scan'[r] = scan[r]
        /\ HasLock(r) <=> HasLock(r)'
    BY <1>1, <2>1, <2>2, OneLock DEF HasLock
  <2> QED
    BY <1>2, <2>3, <2>4
<1>8. CASE \E v \in Viewer : ((v \in coming /\ Open(v)) \/ ViewStep(v)) /\ DashboardPart
  <2>1. run'[r] = run[r]
    BY <1>1, <1>8, Constants DEF Open, ViewStep, Lookup, Store, Fail, Show, StartQuery, Take
  <2> QED
    BY <1>10, <1>8, <2>1 DEF DashboardPart, schemaVars
<1> QED
  BY <1>3, <1>4, <1>5, <1>6, <1>7, <1>8, Zenon DEF Next

\* A question takes finitely many steps, whatever the model answers and however Glue and
\* Athena fail: each of its own, and each tick of its query before the deadline, lowers a
\* triple of naturals, and no step of anyone else raises it.
THEOREM QuestionStepsRunOut ==
    Spec => [](\A r \in Asker : Measured(r)) /\ QuestionsRunOut
<1>1. Init => Paired
  BY Constants DEF Init, AthenaInit, Paired, Idle
<1>2. IInv /\ Paired /\ [Next]_vars => Paired'
  BY PairedStep
<1>3. IInv /\ Paired /\ [Next]_vars =>
        [\A r \in Asker : ask[r].phase # "idle" => /\ OwnStep(r) => Closer(r)
                                                   /\ AsFar(r) \/ Closer(r)]_vars
  <2> SUFFICES ASSUME IInv, Paired, Next, NEW r \in Asker, ask[r].phase # "idle"
               PROVE  (OwnStep(r) => Closer(r)) /\ (AsFar(r) \/ Closer(r))
    OBVIOUS
  <2> QED
    BY OwnCloser, ToolCloser, OthersLeave
<1>4. IInv => \A r \in Asker : Measured(r)
  BY LeftNatural
<1> QED
  BY <1>1, <1>2, <1>3, <1>4, InductiveInvariant, PTL DEF Spec, QuestionsRunOut

\* A thread that has to wait for the lock waits for one that is refreshing, never for one
\* that has gone on, given up or been answered with the lock in its hands; and a question in
\* its last phase has a call to Athena to wait for.
NoneStuck ==
    \A r \in Asker :
        /\ \A i \in Asker : holder[i] = r => ask[r].phase = "schema" /\ mine[r] = i
        /\ ask[r].phase = "binding" => shared # {}
        /\ ask[r].phase = "athena" => run[r].phase # "idle"

\* Only Refresh takes the lock and only Install lets it go, which is also the only way on.
LEMMA NoneStuckStep ==
    ASSUME IInv, NoneStuck, [Next]_vars
    PROVE  NoneStuck'
<1> DEFINE Free(r) ==
        /\ \A i \in Asker : holder[i] = r => ask[r].phase = "schema" /\ mine[r] = i
        /\ ask[r].phase = "binding" => shared # {}
        /\ ask[r].phase = "athena" => run[r].phase # "idle"
<1> SUFFICES ASSUME NEW r \in Asker
             PROVE  Free(r)'
  BY DEF NoneStuck
<1>1. /\ r \in Client /\ r \notin Viewer /\ r # Nobody
      /\ ask \in [Asker -> ToolCall] /\ run \in [Client -> Call]
      /\ CacheTypeOK /\ mine[r] \in Asker
      /\ Free(r)
  BY Constants DEF NoneStuck, IInv, ToolTypeOK, ToolCall, QueryInv, CacheTypeOK
<1>2. ASSUME /\ ask'[r] = ask[r] /\ mine'[r] = mine[r]
             /\ \A i \in Asker : holder'[i] = r => holder[i] = r
             /\ shared # {} => shared' # {}
             /\ run[r].phase # "idle" => run'[r].phase # "idle"
      PROVE  Free(r)'
  BY <1>1, <1>2
<1> HIDE DEF Free
<1>3. CASE Tick
  <2>1. UNCHANGED <<ask, shared, mine, holder>>
    BY <1>3 DEF Tick
  <2>2. run'[r].phase = run[r].phase
    BY <1>1, <1>3 DEF Tick, Call
  <2> QED
    BY <1>2, <2>1, <2>2
<1>4. CASE \E c \in Client : (QueryEnds(c) \/ CallFails(c) \/ AthenaStep(c)) /\ AthenaPart
  <2>1. PICK c \in Client : (QueryEnds(c) \/ CallFails(c) \/ AthenaStep(c)) /\ AthenaPart
    BY <1>4
  <2>2. UNCHANGED <<ask, shared, mine, holder>>
    BY <2>1 DEF AthenaPart, schemaVars
  <2>3. run[r].phase # "idle" => run'[r].phase # "idle"
    BY <1>1, <2>1, AthenaInv DEF IInv
  <2> QED
    BY <1>2, <2>2, <2>3
<1>5. CASE Commit /\ AthenaPart
  BY <1>2, <1>5 DEF Commit, AthenaPart, schemaVars
<1>6. CASE Evolve /\ UNCHANGED <<gold, run, ask, prompt>> /\ ToolPart
  BY <1>2, <1>6 DEF Evolve
<1>7. CASE \E o \in Asker : ((o \in coming /\ Ask(o)) \/ ToolStep(o)) /\ ToolPart
  <2>1. PICK o \in Asker : Ask(o) \/ ToolStep(o)
    BY <1>7
  <2>2. shared # {} => shared' # {}
    BY <2>1 DEF Ask, ToolStep, FindNoCache, NewCache, TakeCache, CreateCache, BindCache, ReadSchema,
       RefreshSchema, Refresh, Describe, Install, ModelFails, Generate, Reject, Execute, Answer,
       schemaVars
  <2>3. CASE o # r
    <3>1. ask'[r] = ask[r] /\ run'[r] = run[r]
      BY <1>1, <2>1, <2>3, OneAsker
    <3>2. mine'[r] = mine[r] /\ \A i \in Asker : holder[i] = r <=> holder'[i] = r
      BY <1>1, <2>1, <2>3, OneLock
    <3> QED
      BY <1>2, <2>2, <3>1, <3>2
  <2>4. CASE FindNoCache(r) \/ NewCache(r) \/ TakeCache(r)
    <3>1. /\ ask[r].phase # "schema" /\ holder' = holder
          /\ ask'[r].phase \in {"creating", "binding", "schema"}
          /\ ask'[r].phase = "binding" => shared' = {r}
      BY <1>1, <2>4 DEF FindNoCache, NewCache, TakeCache, CreateCache, BindCache, schemaVars, ToolCall
    <3> QED
      BY <1>1, <3>1 DEF Free
  <2>5. CASE Ask(r) \/ ModelFails(r) \/ Generate(r) \/ Reject(r)
    <3>1. /\ ask'[r].phase \notin {"athena", "binding"} /\ ask[r].phase # "schema"
          /\ holder' = holder
      <4>1. CASE Ask(r) \/ ModelFails(r)
        BY <1>1, <4>1 DEF Ask, ModelFails, Resting, schemaVars
      <4>2. CASE Generate(r)
        <5>1. PICK sql \in Statements :
                ask' = [ask EXCEPT ![r] = [ask[r] EXCEPT !.phase = "validate", !.sql = sql]]
          BY <4>2 DEF Generate
        <5>2. ask'[r].phase = "validate"
          BY <1>1, <5>1 DEF ToolCall
        <5> QED
          BY <4>2, <5>2 DEF Generate, schemaVars
      <4>3. CASE Reject(r)
        <5>1. /\ Resting("idle").phase = "idle"
              /\ [Resting("cache") EXCEPT !.attempt = ask[r].attempt + 1].phase = "cache"
          BY DEF Resting
        <5> QED
          BY <1>1, <4>3, <5>1 DEF Reject, schemaVars
      <4> QED
        BY <2>5, <4>1, <4>2, <4>3
    <3> QED
      BY <1>1, <3>1 DEF Free
  <2>6. CASE ReadSchema(r)
    <3>1. ask'[r].phase = "generate"
      BY <1>1, <2>6 DEF ReadSchema, ToolCall
    <3>2. \A i \in Asker : holder'[i] # r
      <4>1. CASE Hit(r) /\ UNCHANGED schemaVars
        BY <1>1, <4>1 DEF Hit, LockFree, schemaVars, Free
      <4>2. CASE Install(r)
        BY <1>1, <4>2 DEF Install, Free, CacheTypeOK
      <4> QED
        BY <2>6, <4>1, <4>2 DEF ReadSchema
    <3> QED
      BY <3>1, <3>2 DEF Free
  <2>7. CASE RefreshSchema(r)
    <3>1. UNCHANGED <<ask, mine>> /\ ask[r].phase = "schema"
      BY <2>7 DEF RefreshSchema, Refresh, Describe
    <3>2. \A i \in Asker : holder'[i] = r => holder[i] = r \/ i = mine[r]
      BY <1>1, <2>7 DEF RefreshSchema, Refresh, Describe, CacheTypeOK
    <3> QED
      BY <1>1, <3>1, <3>2 DEF Free
  <2>8. CASE Execute(r)
    <3>1. ask[r].phase = "validate" /\ holder' = holder /\ run'[r].phase = "polling"
          /\ ask'[r].phase = "athena"
      BY <1>1, <2>8 DEF Execute, StartQuery, schemaVars, Resting
    <3> QED
      BY <1>1, <3>1 DEF Free
  <2>9. CASE Answer(r)
    <3>1. ask[r].phase = "athena" /\ ask'[r].phase = "idle" /\ holder' = holder
      BY <1>1, <2>9 DEF Answer, Resting, schemaVars
    <3> QED
      BY <1>1, <3>1 DEF Free
  <2> QED
    BY <2>1, <2>3, <2>4, <2>5, <2>6, <2>7, <2>8, <2>9 DEF ToolStep
<1>8. CASE \E v \in Viewer : ((v \in coming /\ Open(v)) \/ ViewStep(v)) /\ DashboardPart
  <2>1. run'[r] = run[r]
    BY <1>1, <1>8, Constants DEF Open, ViewStep, Lookup, Store, Fail, Show, StartQuery, Take
  <2> QED
    BY <1>2, <1>8, <2>1 DEF DashboardPart, schemaVars
<1>9. CASE UNCHANGED vars
  BY <1>2, <1>9 DEF vars, schemaVars
<1> QED
  BY <1>3, <1>4, <1>5, <1>6, <1>7, <1>8, <1>9, Zenon DEF Next

\* agents/catalog.py holds its lock through a whole refresh: nobody waits for a thread that
\* will not let go of it, however calls to Glue, the model and Athena fail.
THEOREM NobodyStuck == Spec => []NoneStuck
<1>1. Init => NoneStuck
  BY Constants DEF Init, CacheInit, ToolInit, Resting, NoneStuck
<1> QED
  BY <1>1, NoneStuckStep, InductiveInvariant, PTL DEF Spec
=============================================================================
