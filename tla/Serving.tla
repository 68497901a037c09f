-------------------------------- MODULE Serving --------------------------------
(***************************************************************************)
(* The model job and the scoring service around the bucket of model objects. *)
(***************************************************************************)
EXTENDS ModelJob

CONSTANTS Request, NoRequest, TTL, MaxLoad, MaxClock

VARIABLES clock, req, shared, mine, lock, bundle, loading, held, asked, released

service == <<clock, req, shared, mine, lock, bundle, loading, held, asked>>
vars == <<jobVars, service, released>>

Service == INSTANCE ScoringService

ASSUME ServingAssumption == Service!ScoringAssumption

Init == JobInit /\ Service!ServiceInit

JobStep ==
    /\ JobNext
    /\ released' = [n \in Run |-> IF latest' = n /\ latest # n THEN clock ELSE released[n]]
    /\ UNCHANGED service

ServiceStep == Service!ServiceNext /\ UNCHANGED <<jobVars, released>>

Next == JobStep \/ ServiceStep

Spec == Init /\ [][Next]_vars

-----------------------------------------------------------------------------
TypeOK == JobTypeOK /\ Service!ServiceTypeOK
BundleWhole == Service!BundleWhole
FreshEnough == Service!FreshEnough
NoStepBack == Service!NoStepBack

\* The tables explain every model in service: its run has its holdout metrics on record
\* and has priced the ledger, unless a later run already has.
ServedRunRecorded ==
    \A r \in Service!Served :
        /\ held[r].run \in metrics
        /\ \E d \in Day : value[d].run >= held[r].run
=============================================================================
