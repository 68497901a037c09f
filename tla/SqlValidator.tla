----------------------------- MODULE SqlValidator -----------------------------
(***************************************************************************)
(* validate_sql of agents/sql_validator.py over parsed statements.  A parsed *)
(* text is the number of its statements and, of the first one, the kind of   *)
(* its root (of the query inside, for a parenthesised one), the kinds of the  *)
(* branches of a set operation, whether a node of FORBIDDEN_NODES occurs in   *)
(* it, its table references, the names its WITH clauses bind, and its LIMIT.  *)
(***************************************************************************)
EXTENDS AgentConfig, FiniteSets

CONSTANTS
    DefaultTables,   \* DEFAULT_ALLOWED_TABLES
    NoLimit, Expression   \* LIMIT absent, LIMIT that does not begin with a literal

ASSUME ValidatorAssumption ==
    /\ DefaultTables \subseteq GoldTables
    /\ {NoLimit, Expression} \cap Nat = {}

Kind == {"Select", "SetOperation", "Other"}
Reference == [catalog : {"", "awsdatacatalog", "elsewhere"}, db : {"", "gold", "silver"},
              name : STRING]

\* The default argument of validate_sql, which every caller overrides.
DefaultAllowed == DefaultTables

\* What query_lakehouse and sql_check pass.
Allowed == GoldTables

\* A bare name that a WITH clause binds is no table; every other one is qualified.
Resolved(s) ==
    {IF r.db = "" THEN [r EXCEPT !.db = "gold"] ELSE r :
        r \in {x \in s.refs : ~(x.db = "" /\ x.name \in s.ctes)}}

CrossCatalog(s) == \E r \in Resolved(s) : r.catalog = "elsewhere"

Disallowed(s) == {r \in Resolved(s) : ~(r.db = "gold" /\ r.name \in Allowed)}

ReadOnly(s) ==
    /\ ~ s.forbidden
    /\ s.root \in {"Select", "SetOperation"}
    /\ s.root = "SetOperation" => s.branches \subseteq {"Select", "SetOperation"}

\* _referenced_tables, then the allowlist; a statement that reads nothing is refused too.
Accepted(s) ==
    /\ s.statements = 1
    /\ ReadOnly(s)
    /\ ~ CrossCatalog(s)
    /\ Disallowed(s) = {}
    /\ Resolved(s) # {}

\* As below, with the default cap of the validator in place of the caller's.
ApplyLimitDefault(s) == IF s.limit \in Nat THEN s.limit ELSE Cap + 1

\* The callers cap at max_rows_returned: a missing LIMIT, one that is no literal and one
\* above the cap become the cap.
ApplyLimit(s) == IF s.limit \in 0 .. Cap THEN s.limit ELSE Cap
=============================================================================
