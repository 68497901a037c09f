------------------------------- MODULE GatedLake -------------------------------
(***************************************************************************)
(* What the pipeline promises of the lake, without executions, Glue runs or *)
(* reports: rows are promoted to silver, and aggregated into gold, only      *)
(* after a gate certified the layer below, and no promotion is undone.       *)
(***************************************************************************)
CONSTANT Row

VARIABLES
    bronze,     \* rows of the bronze table
    silver,     \* rows of the silver table
    gold,       \* rows each gold aggregate is computed from
    certified   \* rows of each layer that were in a snapshot its gate passed

lake == <<bronze, silver, gold, certified>>

Aggregate == {"metrics", "risk"}

Init ==
    /\ bronze = {} /\ silver = {}
    /\ gold = [a \in Aggregate |-> {}]
    /\ certified = [l \in {"bronze", "silver"} |-> {}]

Ingest ==
    /\ bronze' \in SUBSET Row /\ bronze \subseteq bronze'
    /\ UNCHANGED <<silver, gold, certified>>

Certify ==
    /\ \/ certified' = [certified EXCEPT !["bronze"] = @ \cup bronze]
       \/ certified' = [certified EXCEPT !["silver"] = @ \cup silver]
    /\ UNCHANGED <<bronze, silver, gold>>

Promote ==
    /\ silver' \in SUBSET certified["bronze"] /\ silver \subseteq silver'
    /\ UNCHANGED <<bronze, gold, certified>>

Summarise(a) ==
    /\ \E rows \in SUBSET certified["silver"] :
         /\ gold[a] \subseteq rows
         /\ gold' = [gold EXCEPT ![a] = rows]
    /\ UNCHANGED <<bronze, silver, certified>>

Next == Ingest \/ Certify \/ Promote \/ \E a \in Aggregate : Summarise(a)

Spec == Init /\ [][Next]_lake
=============================================================================
