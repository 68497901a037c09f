----------------------------- MODULE SchemaCache -----------------------------
(***************************************************************************)
(* agents/catalog.py: the schemas of the gold tables, kept for a TTL by a    *)
(* cache object that the first threads create without a lock. The object's   *)
(* own lock is held through all the GetTable calls of a refresh; the tables  *)
(* come to exist, and change, while the pipeline runs.                       *)
(***************************************************************************)
EXTENDS AgentConfig, FiniteSets

CONSTANTS
    Asker,
    MaxVersion,     \* bound on the changes of one schema
    Nobody

ASSUME CacheAssumption ==
    /\ MaxVersion \in Nat
    /\ Nobody \notin Asker

Absent == 0

VARIABLES
    catalog,     \* the Glue Data Catalog: the version of each table's schema
    \* A cache object is named after the thread that creates it.
    shared,      \* _cache: at most one object
    mine,        \* the object that get_schema_cache returned to each thread
    tables,      \* _tables of each object
    fetched,     \* ticks since its _fetched_at
    holder,      \* who holds its lock, and is refreshing
    scan         \* what each thread's refresh has described: [next, found]

schemaVars == <<catalog, shared, mine, tables, fetched, holder, scan>>

Schema == [GoldTables -> 0 .. MaxVersion]
NoTables == [t \in GoldTables |-> Absent]
NoScan == [next |-> 1, found |-> NoTables]

CacheTypeOK ==
    /\ catalog \in Schema
    /\ shared \subseteq Asker
    /\ mine \in [Asker -> Asker]
    /\ tables \in [Asker -> Schema]
    /\ fetched \in [Asker -> 0 .. SchemaTTL]
    /\ holder \in [Asker -> Asker \cup {Nobody}]
    /\ scan \in [Asker -> [next : 1 .. Len(TableOrder) + 1, found : Schema]]

CacheInit ==
    /\ catalog = NoTables
    /\ shared = {} /\ mine = [r \in Asker |-> r]
    /\ tables = [i \in Asker |-> NoTables]
    /\ fetched = [i \in Asker |-> SchemaTTL]
    /\ holder = [i \in Asker |-> Nobody]
    /\ scan = [r \in Asker |-> NoScan]

\* get_schema_cache: "if _cache is None", the assignment and the return are steps of
\* their own.
CreateCache(r) ==
    /\ shared' = {r}
    /\ UNCHANGED <<catalog, mine, tables, fetched, holder, scan>>

BindCache(r) ==
    /\ \E i \in shared : mine' = [mine EXCEPT ![r] = i]
    /\ UNCHANGED <<catalog, shared, tables, fetched, holder, scan>>

\* get_tables under the lock: an entry that is not empty and still fresh is the answer.
LockFree(r) == holder[mine[r]] = Nobody
Hit(r) == LockFree(r) /\ tables[mine[r]] # NoTables /\ fetched[mine[r]] < SchemaTTL

Refresh(r) ==
    /\ LockFree(r) /\ ~ Hit(r)
    /\ holder' = [holder EXCEPT ![mine[r]] = r]
    /\ UNCHANGED <<catalog, shared, mine, tables, fetched, scan>>

\* _describe of the next table; a table that is not there, or a call that fails, is left out.
Describe(r) ==
    /\ holder[mine[r]] = r /\ scan[r].next <= Len(TableOrder)
    /\ LET t == TableOrder[scan[r].next]
       IN \E v \in {catalog[t], Absent} :
              scan' = [scan EXCEPT ![r] = [next |-> scan[r].next + 1,
                                           found |-> [scan[r].found EXCEPT ![t] = v]]]
    /\ UNCHANGED <<catalog, shared, mine, tables, fetched, holder>>

\* As below, with a refresh that found nothing kept like any other.
FoundTablesAlways(r) == scan[r].found

\* "if tables": a refresh that described nothing leaves the cache as it was.
FoundTables(r) == IF scan[r].found = NoTables THEN tables[mine[r]] ELSE scan[r].found

\* The end of the refresh: the time is that of now, not of the first call.
Install(r) ==
    /\ holder[mine[r]] = r /\ scan[r].next > Len(TableOrder)
    /\ tables' = [tables EXCEPT ![mine[r]] = FoundTables(r)]
    /\ fetched' = [fetched EXCEPT ![mine[r]] = IF scan[r].found = NoTables THEN @ ELSE 0]
    /\ holder' = [holder EXCEPT ![mine[r]] = Nobody]
    /\ scan' = [scan EXCEPT ![r] = NoScan]
    /\ UNCHANGED <<catalog, shared, mine>>

\* A Glue job creates a table or adds a column to it.
Evolve ==
    /\ \E t \in GoldTables :
           catalog[t] < MaxVersion /\ catalog' = [catalog EXCEPT ![t] = @ + 1]
    /\ UNCHANGED <<shared, mine, tables, fetched, holder, scan>>
=============================================================================
