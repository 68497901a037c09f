------------------------------ MODULE MCAnalytics ------------------------------
(* Instances of Analytics for TLC.                                          *)
EXTENDS Analytics

CONSTANTS a1, a2, v1, v2

Clients == {a1, a2, v1, v2}
Viewers == {v1, v2}
Askers == {a1, a2}

\* Two questions, two viewers, or one of each.
Pairs == {Askers, Viewers, {a1, v1}}

\* Both viewers open the same dashboard.
OneDashboard == [v \in Viewers |-> <<"daily">>]

Ref(db, name) == [catalog |-> "", db |-> db, name |-> name]
Metrics == Ref("gold", "metrics")
Base == [statements |-> 1, forbidden |-> FALSE, root |-> "Select", branches |-> {},
         refs |-> {Metrics}, ctes |-> {}, limit |-> NoLimit]

\* As the prompt asks: with and without LIMIT, qualified or not, through a CTE.
Proper ==
    {Base,
     [Base EXCEPT !.limit = Cap + 1, !.refs = {Ref("", "metrics")}],
     [Base EXCEPT !.refs = {Metrics, Ref("", "d")}, !.ctes = {"d"}, !.limit = Expression]}

\* Against it.
Improper ==
    {[Base EXCEPT !.refs = {Ref("silver", "transactions")}]}

Answers == Proper \cup Improper
OneTable == <<"metrics">>
=============================================================================
