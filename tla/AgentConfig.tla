----------------------------- MODULE AgentConfig -----------------------------
(***************************************************************************)
(* The settings of agents/config.py that the tools share, times in ticks.   *)
(***************************************************************************)
EXTENDS Naturals, Sequences

CONSTANTS
    TableOrder,    \* the tuple gold_tables
    Cap,           \* max_rows_returned
    Timeout,       \* athena_timeout_seconds
    SchemaTTL      \* schema_cache_ttl_seconds

\* "set(get_config().gold_tables)"
GoldTables == {TableOrder[i] : i \in DOMAIN TableOrder}

ASSUME ConfigAssumption ==
    /\ {Cap, Timeout, SchemaTTL} \subseteq Nat
    /\ TableOrder \in Seq(GoldTables)
=============================================================================
