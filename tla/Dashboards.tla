------------------------------ MODULE Dashboards ------------------------------
(***************************************************************************)
(* api/dashboards.py: the cached queries behind the three dashboards.  The   *)
(* lock covers a lookup and a store, not the query in between.               *)
(***************************************************************************)
EXTENDS AthenaQuery

CONSTANTS
    Viewer,
    Name,        \* the keys of _QUERIES
    Parts,       \* the queries of the dashboard each viewer opens, in their order
    TTL          \* CACHE_TTL_SECONDS, in ticks

ASSUME DashboardAssumption ==
    /\ Viewer \subseteq Client
    /\ Parts \in [Viewer -> Seq(Name)]
    /\ TTL \in Nat \ {0}

VARIABLES
    cache,       \* _cache: each entry with the ticks since its timestamp
    view,        \* each viewer's request
    past         \* history: the table k + 1 tick boundaries ago, for k below TTL

dashboardVars == <<cache, view>>

Missing == [age |-> TTL, rows |-> 0]
Closed == [phase |-> "closed", next |-> 1, age |-> 0, floor |-> 0, shown |-> 0]

DashboardTypeOK ==
    /\ cache \in [Name -> [age : 0 .. TTL, rows : 0 .. MaxGold]]
    /\ past \in [0 .. TTL - 1 -> 0 .. MaxGold]
    /\ \A v \in Viewer :
           view[v] \in [phase : {"closed", "lookup", "querying"}, next : 1 .. Len(Parts[v]) + 1,
                        age : 0 .. TTL, floor : 0 .. MaxGold, shown : 0 .. MaxGold]

DashboardInit ==
    /\ cache = [n \in Name |-> Missing]
    /\ view = [v \in Viewer |-> Closed]
    /\ past = [k \in 0 .. TTL - 1 |-> gold]

Open(v) ==
    /\ view[v].phase = "closed"
    /\ view' = [view EXCEPT ![v] = [Closed EXCEPT !.phase = "lookup"]]
    /\ UNCHANGED <<gold, run, cache>>

Current(v) == Parts[v][view[v].next]

\* "now - hit[0] < CACHE_TTL_SECONDS"
IsFresh(n) == cache[n].age < TTL

\* _query, first critical section: a fresh entry is the result, else the query starts.
Lookup(v) ==
    /\ view[v].phase = "lookup" /\ view[v].next <= Len(Parts[v])
    /\ IF IsFresh(Current(v))
       THEN /\ view' = [view EXCEPT ![v] = [@ EXCEPT !.next = view[v].next + 1,
                                                     !.shown = cache[Current(v)].rows,
                                                     !.floor = past[TTL - 1]]]
            /\ UNCHANGED run
       ELSE /\ StartQuery(v, Unlimited)
            /\ view' = [view EXCEPT ![v] = [@ EXCEPT !.phase = "querying", !.age = 0,
                                                     !.floor = past[TTL - 1]]]
    /\ UNCHANGED <<gold, cache>>

\* As below, with the time of the store in place of the time of the lookup.
StampAtStore(v) == 0

\* The entry carries the "now" read before the query.
Stamp(v) == view[v].age

\* _query, second critical section: whoever ends last is what the cache keeps, which is
\* the oldest rows up to the cap.
Store(v) ==
    /\ view[v].phase = "querying" /\ run[v].phase = "returned"
    /\ Take(v)
    /\ cache' = [cache EXCEPT ![Current(v)] = [age |-> Stamp(v), rows |-> FetchResults(v)]]
    /\ view' = [view EXCEPT ![v] = [@ EXCEPT !.phase = "lookup", !.next = view[v].next + 1,
                                              !.age = 0, !.shown = FetchResults(v)]]
    /\ UNCHANGED gold

\* The query raised: the endpoint answers 502 and nothing is cached.
Fail(v) ==
    /\ view[v].phase = "querying" /\ run[v].phase \in {"raised", "broken"}
    /\ Take(v)
    /\ view' = [view EXCEPT ![v] = Closed]
    /\ UNCHANGED <<gold, cache>>

\* All parts are there: they are shaped and returned.
Show(v) ==
    /\ view[v].phase = "lookup" /\ view[v].next > Len(Parts[v])
    /\ view' = [view EXCEPT ![v] = Closed]
    /\ UNCHANGED <<gold, run, cache>>

ViewStep(v) == Lookup(v) \/ Store(v) \/ Fail(v) \/ Show(v)

-----------------------------------------------------------------------------
\* Every part of a dashboard shows no less than its query would have returned
\* CACHE_TTL_SECONDS before the part was looked up, although two viewers may fill one
\* entry at once, the slower fill replaces the newer one, and a query takes any time. What
\* it would have returned is the table's rows up to the cap: days beyond it never show.
FreshEnough ==
    \A v \in Viewer :
        view[v].phase = "lookup" /\ view[v].next > 1 =>
            view[v].shown >= Min({view[v].floor, Cap})
=============================================================================
