---------------------------- MODULE MCConversation ----------------------------
(* Instances of Conversation for TLC.                                       *)
EXTENDS Conversation, TLC

CONSTANTS t1, t2, t3, t4, t5, c1, c2

\* Two turns of one conversation, two of another, and one without.
FiveTurns == {t1, t2, t3, t4, t5}
TwoConversations ==
    [t \in Turn |-> IF t = t5 THEN Alone ELSE IF t \in {t2, t4} THEN c2 ELSE c1]
FourTurns == FiveTurns \ {t4}

Symmetric == Permutations({t1, t3}) \cup Permutations({t2, t4})
=============================================================================
