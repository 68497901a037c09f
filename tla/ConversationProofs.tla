-------------------------- MODULE ConversationProofs --------------------------
(* Proofs about Conversation, for any turns, conversations, tools and caps.  *)
EXTENDS Conversation, TLAPS

-----------------------------------------------------------------------------
(* Type correctness.                                                        *)

\* What saving channels changes: the turn's own copy, and at most the checkpoint of
\* its conversation in its saver.
LEMMA SaveEffect ==
    ASSUME TypeOK, NEW t \in Turn, NEW state \in Channels, Save(t, state)
    PROVE  /\ local' \in [Turn -> Channels]
           /\ local'[t] = state
           /\ \A u \in Turn \ {t} : local'[u] = local[u]
           /\ saved' \in [Saver -> [Conversations -> Channels]]
           /\ \A s \in Saver, c \in Conversations :
                 saved'[s][c] = IF s = saver[t] /\ c \in Thread(t) THEN state ELSE saved[s][c]
<1>1. saver[t] \in Saver
  BY DEF TypeOK
<1>2. local' \in [Turn -> Channels] /\ local'[t] = state
      /\ \A u \in Turn \ {t} : local'[u] = local[u]
  BY DEF Save, TypeOK
<1> DEFINE checkpoint == [c \in Conversations |-> IF c \in Thread(t) THEN state ELSE saved[saver[t]][c]]
<1>3. saved' = [saved EXCEPT ![saver[t]] = checkpoint]
  BY <1>1 DEF Save, TypeOK
<1>4. saved[saver[t]] \in [Conversations -> Channels]
  BY <1>1 DEF TypeOK
<1>5. checkpoint \in [Conversations -> Channels]
  BY <1>4
<1>6. saved' \in [Saver -> [Conversations -> Channels]]
  <2> HIDE DEF checkpoint
  <2> QED
    BY <1>3, <1>5 DEF TypeOK
<1>7. \A s \in Saver, c \in Conversations :
         saved'[s][c] = IF s = saver[t] /\ c \in Thread(t) THEN state ELSE saved[s][c]
  BY <1>1, <1>3 DEF TypeOK
<1> QED
  BY <1>2, <1>6, <1>7

\* Resetting the count of iterations leaves the other channels as they are.
LEMMA InputType ==
    ASSUME NEW state \in Channels
    PROVE  /\ Input(state) \in Channels
           /\ Input(state).iterations = 0
           /\ Input(state).tool_results = state.tool_results
BY DEF Input, Channels

\* The empty channels are well typed.
LEMMA NoChannelsType == NoChannels \in Channels
BY DEF NoChannels, Channels

\* The channels a node returns are well typed.
LEMMA NodeStateType ==
    ASSUME NEW t \in Turn, NEW state \in Channels, NEW tool \in Tool \cup {"none"}, NEW n \in Nat
    PROVE  /\ [state EXCEPT !.next_tool = "none", !.stopped = t] \in Channels
           /\ [state EXCEPT !.next_tool = tool] \in Channels
           /\ state.next_tool # "none" =>
                [state EXCEPT !.iterations = @ + 1, !.tool_results = @ \cup
                    {[turn |-> t, tool |-> state.next_tool, n |-> n]}] \in Channels
<1>1. [state EXCEPT !.next_tool = "none", !.stopped = t] \in Channels
  BY DEF Channels
<1>2. [state EXCEPT !.next_tool = tool] \in Channels
  BY DEF Channels
<1>3. ASSUME state.next_tool # "none"
      PROVE  [state EXCEPT !.iterations = @ + 1, !.tool_results = @ \cup
                  {[turn |-> t, tool |-> state.next_tool, n |-> n]}] \in Channels
  <2> DEFINE result == [turn |-> t, tool |-> state.next_tool, n |-> n]
  <2>1. result \in Result
    BY <1>3 DEF Channels, Result
  <2>2. state.tool_results \cup {result} \subseteq Result
    BY <2>1 DEF Channels
  <2> HIDE DEF result
  <2>3. [state EXCEPT !.iterations = @ + 1, !.tool_results = @ \cup {result}] \in Channels
    <3> DEFINE results == state.tool_results \cup {result}
    <3>1. results \in SUBSET Result /\ state.iterations + 1 \in Nat
      BY <2>2 DEF Channels
    <3> HIDE DEF results
    <3>2. [state EXCEPT !.iterations = state.iterations + 1, !.tool_results = results] \in Channels
      BY <3>1 DEF Channels
    <3> QED
      BY <3>2 DEF results
  <2> QED
    BY <2>3 DEF result
<1> QED
  BY <1>1, <1>2, <1>3

\* A node that returns moves its turn to the next node, or out of the graph.
LEMMA NodeType ==
    ASSUME TypeOK, NEW t \in Turn, NEW state \in Channels,
           NEW next \in {"route_query", "call_tool", "synthesize", "answered"},
           NodeReturns(t, state, next)
    PROVE  /\ pc' \in [Turn -> {"idle"} \cup Running \cup Ended]
           /\ steps' \in [Turn -> Nat]
           /\ local' \in [Turn -> Channels]
           /\ saved' \in [Saver -> [Conversations -> Channels]]
<1>1. next \in Running \cup Ended /\ "out_of_steps" \in Ended
  BY DEF Running, Ended
<1>2. pc' \in [Turn -> {"idle"} \cup Running \cup Ended]
  BY <1>1 DEF NodeReturns, To, TypeOK
<1>3. steps' \in [Turn -> Nat]
  BY DEF NodeReturns, TypeOK
<1> QED
  BY <1>2, <1>3, SaveEffect DEF NodeReturns

\* A turn with a tool to call names one.
Chosen(t) == pc[t] = "call_tool" => local[t].next_tool # "none"
ToolChosen == \A t \in Turn : Chosen(t)

\* Only a step that names a tool goes to call_tool.
LEMMA ContinueType ==
    ASSUME NEW state
    PROVE  /\ should_continue(state) \in {"call_tool", "synthesize"}
           /\ should_continue(state) = "call_tool" =>
                  state.next_tool # "none" /\ ~CapReached(state.iterations)
BY DEF should_continue

\* Every step keeps the types.
LEMMA TypeStep == TypeOK /\ ToolChosen /\ [Next]_vars => TypeOK'
<1> SUFFICES ASSUME TypeOK, ToolChosen, [Next]_vars PROVE TypeOK'
  OBVIOUS
<1>1. CASE UNCHANGED vars
  BY <1>1 DEF vars, graph, history, TypeOK
<1>2. ASSUME NEW t \in Turn, TurnStep(t) PROVE TypeOK'
  <2>1. CASE Ask(t)
    <3>1. {"invoking", "checking"} \subseteq Running
      BY DEF Running
    <3>2. pc' \in [Turn -> {"idle"} \cup Running \cup Ended]
      BY <2>1, <3>1 DEF Ask, To, TypeOK
    <3>3. before' \in [Turn -> SUBSET Turn]
      BY <2>1 DEF Ask, TypeOK, Companions
    <3> QED
      BY <2>1, <3>2, <3>3 DEF Ask, TypeOK, graph
  <2>2. CASE CheckMemory(t) \/ CreateMemory(t) \/ BindMemory(t)
    <3>1. {"creating", "binding", "invoking"} \subseteq Running
      BY DEF Running
    <3>2. pc' \in [Turn -> {"idle"} \cup Running \cup Ended]
      BY <2>2, <3>1 DEF CheckMemory, CreateMemory, BindMemory, To, TypeOK
    <3>3. memory' \subseteq Saver /\ saver' \in [Turn -> Saver]
      BY <2>2 DEF CheckMemory, CreateMemory, BindMemory, TypeOK, Saver
    <3> QED
      BY <2>2, <3>2, <3>3 DEF CheckMemory, CreateMemory, BindMemory, TypeOK, graph, history
  <2>3. CASE Invoke(t)
    <3>1. PICK state \in Channels : Save(t, state)
      <4>1. CASE \E c \in Thread(t) : Save(t, Input(saved[saver[t]][c]))
        <5>1. PICK c \in Thread(t) : Save(t, Input(saved[saver[t]][c]))
          BY <4>1
        <5>2. saved[saver[t]][c] \in Channels
          BY DEF TypeOK, Thread
        <5> QED
          BY <5>1, <5>2, InputType
      <4>2. CASE Save(t, Input(NoChannels))
        BY <4>2, InputType, NoChannelsType
      <4> QED
        BY <2>3, <4>1, <4>2 DEF Invoke
    <3>2. "route_query" \in Running
      BY DEF Running
    <3>3. pc' \in [Turn -> {"idle"} \cup Running \cup Ended]
      BY <2>3, <3>2 DEF Invoke, To, TypeOK
    <3> QED
      BY <2>3, <3>1, <3>3, SaveEffect DEF Invoke, TypeOK, history
  <2>4. local[t] \in Channels
    BY DEF TypeOK
  <2>5. CASE RouteCapped(t)
    <3> DEFINE state == [local[t] EXCEPT !.next_tool = "none", !.stopped = t]
    <3>1. state \in Channels
      BY <2>4, NodeStateType
    <3>2. NodeReturns(t, state, should_continue(state))
      BY <2>5 DEF RouteCapped
    <3>3. should_continue(state) \in {"route_query", "call_tool", "synthesize", "answered"}
      BY ContinueType
    <3> HIDE DEF state
    <3> QED
      BY <2>5, <3>1, <3>2, <3>3, NodeType DEF RouteCapped, TypeOK
  <2>6. CASE RouteByModel(t)
    <3>1. PICK tool \in Tool \cup {"none"} :
             NodeReturns(t, [local[t] EXCEPT !.next_tool = tool],
                         should_continue([local[t] EXCEPT !.next_tool = tool]))
      BY <2>6 DEF RouteByModel
    <3> DEFINE state == [local[t] EXCEPT !.next_tool = tool]
    <3>2. state \in Channels
      BY <2>4, NodeStateType
    <3>3. should_continue(state) \in {"route_query", "call_tool", "synthesize", "answered"}
      BY ContinueType
    <3>4. routed' \in [Turn -> Nat]
      BY <2>6 DEF RouteByModel, TypeOK
    <3>5. NodeReturns(t, state, should_continue(state))
      BY <3>1
    <3> HIDE DEF state
    <3> QED
      BY <2>6, <3>2, <3>3, <3>4, <3>5, NodeType DEF RouteByModel, TypeOK
  <2>7. CASE CallTool(t)
    <3> DEFINE state == [local[t] EXCEPT !.iterations = @ + 1,
            !.tool_results = @ \cup {[turn |-> t, tool |-> local[t].next_tool, n |-> used'[t]]}]
    <3>1. used' \in [Turn -> Nat]
      BY <2>7 DEF CallTool, TypeOK
    <3>2. state \in Channels
      BY <2>4, <2>7, <3>1, NodeStateType DEF CallTool, ToolChosen, Chosen
    <3>3. NodeReturns(t, state, "route_query")
      BY <2>7 DEF CallTool
    <3> HIDE DEF state
    <3> QED
      BY <2>7, <3>1, <3>2, <3>3, NodeType DEF CallTool, TypeOK
  <2>8. CASE Synthesize(t)
    BY <2>4, <2>8, NodeType DEF Synthesize, TypeOK, history
  <2>9. CASE ModelFails(t)
    <3>1. "failed" \in Ended
      BY DEF Ended
    <3> QED
      BY <2>9, <3>1 DEF ModelFails, To, TypeOK, graph, history
  <2> QED
    BY <1>2, <2>1, <2>2, <2>3, <2>5, <2>6, <2>7, <2>8, <2>9 DEF TurnStep
<1> QED
  BY <1>1, <1>2 DEF Next

-----------------------------------------------------------------------------
(* The iteration cap.                                                       *)

\* What a turn has called and paid for, at each place it can be: iterations counts its
\* own tools, and its steps leave the recursion limit out of reach.
Budget(t) ==
    /\ pc[t] \in {"idle", "checking", "creating", "binding", "invoking"} =>
          used[t] = 0 /\ routed[t] = 0 /\ steps[t] = 0
    /\ pc[t] \in {"route_query", "call_tool"} => local[t].iterations = used[t]
    /\ pc[t] = "route_query" =>
          used[t] <= MaxIterations /\ routed[t] = used[t] /\ steps[t] = 2 * used[t]
    /\ pc[t] = "call_tool" =>
          used[t] < MaxIterations /\ routed[t] = used[t] + 1 /\ steps[t] = 2 * used[t] + 1
    /\ pc[t] \in {"synthesize", "answered", "failed"} =>
          used[t] <= MaxIterations /\ routed[t] <= MaxIterations
    /\ pc[t] # "out_of_steps"

\* A capped turn has used up its budget and never calls a tool again.
Stopped(t) ==
    t \in capped => pc[t] \in {"synthesize", "answered", "failed"} /\ used[t] = MaxIterations

TurnInv(t) == Chosen(t) /\ Budget(t) /\ Stopped(t)

IInv == TypeOK /\ \A t \in Turn : TurnInv(t)

\* A turn's step leaves what TurnInv says of the other turns alone.
LEMMA OtherTurns ==
    ASSUME TypeOK, NEW t \in Turn, TurnStep(t), NEW u \in Turn, u # t
    PROVE  /\ pc'[u] = pc[u] /\ local'[u] = local[u] /\ steps'[u] = steps[u]
           /\ used'[u] = used[u] /\ routed'[u] = routed[u]
           /\ u \in capped' <=> u \in capped
<1>1. pc'[u] = pc[u] /\ steps'[u] = steps[u] /\ used'[u] = used[u] /\ routed'[u] = routed[u]
  BY DEF TypeOK, TurnStep, Ask, CheckMemory, CreateMemory, BindMemory, Invoke, RouteCapped,
         RouteByModel, CallTool, Synthesize, ModelFails, NodeReturns, To, graph, history
<1>2. local'[u] = local[u]
  BY DEF TypeOK, TurnStep, Ask, CheckMemory, CreateMemory, BindMemory, Invoke, RouteCapped,
         RouteByModel, CallTool, Synthesize, ModelFails, NodeReturns, Save, graph, history
<1>3. u \in capped' <=> u \in capped
  BY DEF TurnStep, Ask, CheckMemory, CreateMemory, BindMemory, Invoke, RouteCapped,
         RouteByModel, CallTool, Synthesize, ModelFails, graph, history
<1> QED
  BY <1>1, <1>2, <1>3

\* What a node's return changes for its turn, below the recursion limit.
LEMMA NodeEffect ==
    ASSUME TypeOK, NEW t \in Turn, NEW state \in Channels,
           NEW next \in {"route_query", "call_tool", "synthesize", "answered"},
           NodeReturns(t, state, next),
           next = "answered" \/ steps[t] + 1 < RecursionLimit
    PROVE  pc'[t] = next /\ local'[t] = state /\ steps'[t] = steps[t] + 1
<1>1. steps[t] + 1 \in Nat /\ RecursionLimit \in Nat
  BY ConversationAssumption DEF TypeOK
<1>2. pc'[t] = next
  BY <1>1 DEF NodeReturns, To, TypeOK
<1> QED
  BY <1>2, SaveEffect DEF NodeReturns, TypeOK

\* A turn's own step keeps TurnInv.
LEMMA OwnTurn ==
    ASSUME IInv, NEW t \in Turn, TurnStep(t)
    PROVE  TurnInv(t)'
<1> USE ConversationAssumption DEF IInv
<1>0. /\ TurnInv(t) /\ TypeOK /\ local[t] \in Channels
      /\ used[t] \in Nat /\ routed[t] \in Nat /\ steps[t] \in Nat
      /\ MaxIterations \in Nat /\ RecursionLimit \in Nat /\ RecursionLimit >= 2 * MaxIterations + 2
      /\ local[t].iterations \in Nat
  BY DEF TypeOK, Channels
<1>1. CASE Ask(t) \/ CheckMemory(t) \/ CreateMemory(t) \/ BindMemory(t)
  <2>1. /\ pc[t] \in {"idle", "checking", "creating", "binding"}
        /\ pc'[t] \in {"checking", "creating", "binding", "invoking"}
        /\ used'[t] = used[t] /\ routed'[t] = routed[t] /\ steps'[t] = steps[t]
        /\ capped' = capped
    BY <1>1 DEF Ask, CheckMemory, CreateMemory, BindMemory, To, TypeOK, graph, history
  <2> QED
    BY <1>0, <2>1 DEF TurnInv, Chosen, Budget, Stopped
<1>2. CASE Invoke(t)
  <2>1. local'[t].iterations = 0
    <3>1. CASE \E c \in Thread(t) : Save(t, Input(saved[saver[t]][c]))
      <4>1. PICK c \in Thread(t) : Save(t, Input(saved[saver[t]][c]))
        BY <3>1
      <4>2. saved[saver[t]][c] \in Channels
        BY DEF TypeOK, Thread
      <4> QED
        BY <4>1, <4>2, InputType, SaveEffect
    <3>2. CASE Save(t, Input(NoChannels))
      BY <3>2, NoChannelsType, InputType, SaveEffect
    <3> QED
      BY <1>2, <3>1, <3>2 DEF Invoke
  <2>2. /\ pc[t] = "invoking" /\ pc'[t] = "route_query"
        /\ used'[t] = used[t] /\ routed'[t] = routed[t] /\ steps'[t] = steps[t]
        /\ capped' = capped
    BY <1>2 DEF Invoke, To, TypeOK, history
  <2> QED
    BY <1>0, <2>1, <2>2 DEF TurnInv, Chosen, Budget, Stopped
<1>3. CASE RouteCapped(t)
  <2> DEFINE state == [local[t] EXCEPT !.next_tool = "none", !.stopped = t]
  <2>1. state \in Channels
    BY <1>0, NodeStateType
  <2>2. state.next_tool = "none"
    BY <1>0 DEF Channels
  <2>3. should_continue(state) = "synthesize"
    BY <2>2 DEF should_continue
  <2>4. pc[t] = "route_query" /\ NodeReturns(t, state, "synthesize")
    BY <1>3, <2>3 DEF RouteCapped
  <2>5. steps[t] + 1 < RecursionLimit
    BY <1>0, <2>4 DEF TurnInv, Budget
  <2>6. pc'[t] = "synthesize"
    <3> HIDE DEF state
    <3> QED
      BY <2>1, <2>4, <2>5, NodeEffect
  <2>7. used[t] = MaxIterations /\ routed[t] = MaxIterations
    BY <1>0, <1>3 DEF RouteCapped, CapReached, TurnInv, Budget
  <2>8. used' = used /\ routed' = routed
    BY <1>3 DEF RouteCapped
  <2> QED
    BY <1>0, <2>6, <2>7, <2>8 DEF TurnInv, Chosen, Budget, Stopped
<1>4. CASE RouteByModel(t)
  <2>1. PICK tool \in Tool \cup {"none"} :
           NodeReturns(t, [local[t] EXCEPT !.next_tool = tool],
                       should_continue([local[t] EXCEPT !.next_tool = tool]))
    BY <1>4 DEF RouteByModel
  <2> DEFINE state == [local[t] EXCEPT !.next_tool = tool]
  <2>2. state \in Channels
    BY <1>0, NodeStateType
  <2>3. state.iterations = local[t].iterations
    BY <1>0 DEF Channels
  <2>4. NodeReturns(t, state, should_continue(state))
    BY <2>1
  <2>5. /\ pc[t] = "route_query"
        /\ routed'[t] = routed[t] + 1 /\ used' = used /\ capped' = capped
        /\ ~CapReached(local[t].iterations)
    BY <1>4 DEF RouteByModel, TypeOK
  <2>6. used[t] < MaxIterations /\ routed[t] = used[t] /\ steps[t] = 2 * used[t]
        /\ local[t].iterations = used[t] /\ t \notin capped
    BY <1>0, <2>5 DEF CapReached, TurnInv, Budget, Stopped
  <2>7. steps[t] + 1 < RecursionLimit
    BY <1>0, <2>6
  <2> HIDE DEF state
  <2>8. /\ pc'[t] = should_continue(state) /\ local'[t] = state
        /\ steps'[t] = steps[t] + 1
    BY <2>2, <2>4, <2>7, NodeEffect, ContinueType
  <2>9. /\ should_continue(state) \in {"call_tool", "synthesize"}
        /\ should_continue(state) = "call_tool" => state.next_tool # "none"
    BY ContinueType
  <2>10. Chosen(t)'
    BY <2>8, <2>9 DEF Chosen
  <2>11. Budget(t)'
    BY <1>0, <2>3, <2>5, <2>6, <2>8, <2>9 DEF Budget
  <2>12. Stopped(t)'
    BY <2>5, <2>6 DEF Stopped
  <2> QED
    BY <2>10, <2>11, <2>12 DEF TurnInv
<1>5. CASE CallTool(t)
  <2> DEFINE state == [local[t] EXCEPT !.iterations = @ + 1,
          !.tool_results = @ \cup {[turn |-> t, tool |-> local[t].next_tool, n |-> used'[t]]}]
  <2>1. /\ pc[t] = "call_tool" /\ used'[t] = used[t] + 1 /\ routed' = routed /\ capped' = capped
        /\ NodeReturns(t, state, "route_query")
    BY <1>5 DEF CallTool, TypeOK
  <2>2. used'[t] \in Nat
    BY <1>0, <2>1
  <2>3. state \in Channels
    BY <1>0, <2>1, <2>2, NodeStateType DEF TurnInv, Chosen
  <2>4. state.iterations = local[t].iterations + 1
    BY <1>0 DEF Channels
  <2>5. /\ used[t] < MaxIterations /\ routed[t] = used[t] + 1 /\ steps[t] = 2 * used[t] + 1
        /\ local[t].iterations = used[t] /\ t \notin capped
    BY <1>0, <2>1 DEF TurnInv, Budget, Stopped
  <2>6. steps[t] + 1 < RecursionLimit
    BY <1>0, <2>5
  <2> HIDE DEF state
  <2>7. pc'[t] = "route_query" /\ local'[t] = state /\ steps'[t] = steps[t] + 1
    BY <2>1, <2>3, <2>6, NodeEffect
  <2> QED
    BY <1>0, <2>1, <2>4, <2>5, <2>7 DEF TurnInv, Chosen, Budget, Stopped
<1>6. CASE Synthesize(t)
  <2>1. pc'[t] = "answered"
    BY <1>0, <1>6, NodeEffect DEF Synthesize
  <2> QED
    BY <1>0, <1>6, <2>1 DEF Synthesize, history, TurnInv, Chosen, Budget, Stopped
<1>7. CASE ModelFails(t)
  <2>1. /\ pc[t] \in {"route_query", "synthesize"} /\ pc'[t] = "failed"
        /\ used' = used /\ routed' = routed /\ capped' = capped
    BY <1>7 DEF ModelFails, To, TypeOK, history
  <2> QED
    BY <1>0, <2>1 DEF TurnInv, Chosen, Budget, Stopped
<1> QED
  BY <1>1, <1>2, <1>3, <1>4, <1>5, <1>6, <1>7 DEF TurnStep

\* The invariant holds throughout every behaviour.
THEOREM InductiveInvariant == Spec => []IInv
<1>1. Init => IInv
  <2> SUFFICES ASSUME Init PROVE IInv
    OBVIOUS
  <2>1. TypeOK
    BY NoChannelsType DEF Init, TypeOK, Saver
  <2>2. \A t \in Turn : TurnInv(t)
    BY ConversationAssumption DEF Init, TurnInv, Chosen, Budget, Stopped
  <2> QED
    BY <2>1, <2>2 DEF IInv
<1>2. IInv /\ [Next]_vars => IInv'
  <2> SUFFICES ASSUME IInv, [Next]_vars PROVE IInv'
    OBVIOUS
  <2>1. TypeOK'
    BY TypeStep DEF IInv, ToolChosen, TurnInv
  <2>2. ASSUME NEW u \in Turn PROVE TurnInv(u)'
    <3>1. CASE UNCHANGED vars
      BY <3>1 DEF IInv, vars, graph, history, TurnInv, Chosen, Budget, Stopped
    <3>2. ASSUME NEW t \in Turn, TurnStep(t) PROVE TurnInv(u)'
      <4>1. CASE u = t
        BY <3>2, <4>1, OwnTurn
      <4>2. CASE u # t
        <5>1. TurnInv(u) /\ TypeOK
          BY DEF IInv
        <5> QED
          BY <3>2, <4>2, <5>1, OtherTurns DEF TurnInv, Chosen, Budget, Stopped
      <4> QED
        BY <4>1, <4>2
    <3> QED
      BY <3>1, <3>2 DEF Next
  <2> QED
    BY <2>1, <2>2 DEF IInv
<1> QED
  BY <1>1, <1>2, PTL DEF Spec

\* Every behaviour is well typed.
THEOREM TypeCorrect == Spec => []TypeOK
<1>1. IInv => TypeOK
  BY DEF IInv
<1> QED
  BY <1>1, InductiveInvariant, PTL

\* No turn calls more tools or pays for more routing than the cap, nor runs into the
\* recursion limit, whatever other turns leave in the channels.
THEOREM CapAlwaysHolds == Spec => []CapHolds
<1>1. IInv => CapHolds
  <2> SUFFICES ASSUME IInv, NEW t \in Turn
               PROVE  used[t] <= MaxIterations /\ routed[t] <= MaxIterations
                      /\ pc[t] # "out_of_steps"
    BY DEF CapHolds
  <2>1. /\ Budget(t) /\ pc[t] \in {"idle"} \cup Running \cup Ended
        /\ used[t] \in Nat /\ routed[t] \in Nat /\ MaxIterations \in Nat
    BY ConversationAssumption DEF IInv, TurnInv, TypeOK
  <2> QED
    BY <2>1 DEF Budget, Running, Ended
<1> QED
  BY <1>1, InductiveInvariant, PTL

\* The cap stops a turn only when its own tools have used up the budget.
THEOREM EachTurnOwnBudget == Spec => []BudgetPerTurn
<1>1. IInv => BudgetPerTurn
  BY DEF IInv, TypeOK, TurnInv, Stopped, BudgetPerTurn
<1> QED
  BY <1>1, InductiveInvariant, PTL

-----------------------------------------------------------------------------
(* Conversations do not mix.                                                *)

\* Results of t's own turn or of one of its conversation.
Family(t, results) == \A r \in results : r.turn = t \/ r.turn \in Companions(t)

\* Each checkpoint holds results of its conversation only, in whatever saver it is, and
\* each turn works with such results.
Isolated ==
    /\ \A s \in Saver, c \in Conversations :
          \A r \in saved[s][c].tool_results : ConversationOf[r.turn] = c
    /\ \A t \in Turn : Family(t, local[t].tool_results)

\* Saving a turn's channels keeps the checkpoints apart.
LEMMA SaveIsolates ==
    ASSUME TypeOK, Isolated, NEW t \in Turn, NEW state \in Channels, Save(t, state),
           Family(t, state.tool_results)
    PROVE  Isolated'
<1>1. \A u \in Turn : Family(u, local'[u].tool_results)
  BY SaveEffect DEF Isolated
<1>2. ASSUME NEW s \in Saver, NEW c \in Conversations, NEW r \in saved'[s][c].tool_results
      PROVE  ConversationOf[r.turn] = c
  <2>1. CASE s = saver[t] /\ c \in Thread(t)
    <3>1. r \in state.tool_results
      BY <1>2, <2>1, SaveEffect
    <3>2. ConversationOf[t] = c
      BY <2>1 DEF Thread
    <3> QED
      BY <3>1, <3>2 DEF Family, Companions
  <2>2. CASE ~(s = saver[t] /\ c \in Thread(t))
    <3>1. r \in saved[s][c].tool_results
      BY <1>2, <2>2, SaveEffect
    <3> QED
      BY <3>1 DEF Isolated
  <2> QED
    BY <2>1, <2>2
<1> QED
  BY <1>1, <1>2 DEF Isolated, Family, Companions

\* Every step keeps the conversations apart.
LEMMA IsolatedStep == IInv /\ Isolated /\ [Next]_vars => Isolated'
<1> SUFFICES ASSUME IInv, Isolated, [Next]_vars PROVE Isolated'
  OBVIOUS
<1>0. TypeOK
  BY DEF IInv
<1>1. CASE UNCHANGED <<local, saved>>
  BY <1>1 DEF Isolated, Family, Companions
<1>2. ASSUME NEW t \in Turn, TurnStep(t) PROVE Isolated'
  <2>1. local[t] \in Channels /\ Family(t, local[t].tool_results)
    BY <1>0 DEF TypeOK, Isolated
  <2>2. CASE Ask(t) \/ CheckMemory(t) \/ CreateMemory(t) \/ BindMemory(t) \/ ModelFails(t)
    BY <1>1, <2>2 DEF Ask, CheckMemory, CreateMemory, BindMemory, ModelFails, graph
  <2>3. CASE Invoke(t)
    <3>1. CASE \E c \in Thread(t) : Save(t, Input(saved[saver[t]][c]))
      <4>1. PICK c \in Thread(t) : Save(t, Input(saved[saver[t]][c]))
        BY <3>1
      <4>2. c = ConversationOf[t] /\ c \in Conversations /\ c # Alone /\ saver[t] \in Saver
        BY <1>0, ConversationAssumption DEF Thread, TypeOK
      <4>3. saved[saver[t]][c] \in Channels
        BY <1>0, <4>2 DEF TypeOK
      <4>4. Family(t, saved[saver[t]][c].tool_results)
        <5> SUFFICES ASSUME NEW r \in saved[saver[t]][c].tool_results
                     PROVE  r.turn = t \/ r.turn \in Companions(t)
          BY DEF Family
        <5>1. r.turn \in Turn
          BY <4>3 DEF Channels, Result
        <5>2. ConversationOf[r.turn] = c
          BY <4>2 DEF Isolated
        <5> QED
          BY <4>2, <5>1, <5>2 DEF Companions
      <4> QED
        BY <1>0, <4>1, <4>3, <4>4, InputType, SaveIsolates
    <3>2. CASE Save(t, Input(NoChannels))
      <4>1. Family(t, Input(NoChannels).tool_results)
        BY NoChannelsType, InputType DEF NoChannels, Family
      <4> QED
        BY <1>0, <3>2, <4>1, NoChannelsType, InputType, SaveIsolates
    <3> QED
      BY <2>3, <3>1, <3>2 DEF Invoke
  <2>4. CASE RouteCapped(t)
    <3> DEFINE state == [local[t] EXCEPT !.next_tool = "none", !.stopped = t]
    <3>1. state \in Channels /\ state.tool_results = local[t].tool_results
      BY <2>1, NodeStateType DEF Channels
    <3>2. Save(t, state)
      BY <2>4 DEF RouteCapped, NodeReturns
    <3> HIDE DEF state
    <3> QED
      BY <1>0, <2>1, <3>1, <3>2, SaveIsolates
  <2>5. CASE RouteByModel(t)
    <3>1. PICK tool \in Tool \cup {"none"} : Save(t, [local[t] EXCEPT !.next_tool = tool])
      BY <2>5 DEF RouteByModel, NodeReturns
    <3> DEFINE state == [local[t] EXCEPT !.next_tool = tool]
    <3>2. state \in Channels /\ state.tool_results = local[t].tool_results
      BY <2>1, NodeStateType DEF Channels
    <3>3. Save(t, state)
      BY <3>1
    <3> HIDE DEF state
    <3> QED
      BY <1>0, <2>1, <3>2, <3>3, SaveIsolates
  <2>6. CASE CallTool(t)
    <3> DEFINE result == [turn |-> t, tool |-> local[t].next_tool, n |-> used'[t]]
    <3> DEFINE state == [local[t] EXCEPT !.iterations = @ + 1, !.tool_results = @ \cup {result}]
    <3>1. local[t].next_tool # "none" /\ used'[t] \in Nat
      BY <1>0, <2>6 DEF CallTool, TypeOK, IInv, TurnInv, Chosen
    <3>2. state \in Channels
      BY <2>1, <3>1, NodeStateType
    <3>3. state.tool_results = local[t].tool_results \cup {result} /\ result.turn = t
      BY <2>1 DEF Channels
    <3>4. Save(t, state)
      BY <2>6 DEF CallTool, NodeReturns
    <3> HIDE DEF state, result
    <3>5. Family(t, state.tool_results)
      BY <2>1, <3>3 DEF Family
    <3> QED
      BY <1>0, <3>2, <3>4, <3>5, SaveIsolates
  <2>7. CASE Synthesize(t)
    BY <1>0, <2>1, <2>7, SaveIsolates DEF Synthesize, NodeReturns
  <2> QED
    BY <1>2, <2>2, <2>3, <2>4, <2>5, <2>6, <2>7 DEF TurnStep
<1> QED
  BY <1>1, <1>2 DEF Next, vars, graph

\* No turn ever works with what another conversation gathered.
THEOREM NeverMixed == Spec => []ConversationsIsolated
<1>1. Init => Isolated
  <2> SUFFICES ASSUME Init PROVE Isolated
    OBVIOUS
  <2>1. NoChannels.tool_results = {}
    BY DEF NoChannels
  <2> QED
    BY <2>1 DEF Init, Isolated, Family
<1>2. Isolated => ConversationsIsolated
  BY DEF Isolated, Family, ConversationsIsolated, Gathered
<1> QED
  BY <1>1, <1>2, IsolatedStep, InductiveInvariant, PTL DEF Spec

-----------------------------------------------------------------------------
(* What a conversation has gathered stays with it.                          *)

\* Turns of this turn's conversation do not overlap.
Serial(t) == ConversationOf[t] \in Conversations \ Concurrent

\* The results in the checkpoint of t's conversation.
Held(t) == saved[saver[t]][ConversationOf[t]].tool_results

From(u, results) == \E r \in results : r.turn = u

\* A serial turn runs alone, works with all that its checkpoint holds, and leaves there
\* what it gathers.
Orderly(t) ==
    /\ \A u \in before[t] : u \in Companions(t) /\ pc[u] \in Ended
    /\ Serial(t) =>
         /\ pc[t] \in Running => \A u \in Companions(t) : pc[u] \notin Running
         /\ pc[t] \in {"route_query", "call_tool", "synthesize"} =>
              Held(t) \subseteq local[t].tool_results
         /\ used[t] > 0 => From(t, Held(t))

HistoryInv == HistoryKept /\ \A t \in Turn : Orderly(t)

\* The turn that takes a step has not ended, and only its own history, saver and count
\* change.
LEMMA OneTurnMoves ==
    ASSUME IInv, NEW t \in Turn, TurnStep(t)
    PROVE  /\ pc[t] \notin Ended
           /\ \A u \in Turn \ {t} : /\ pc'[u] = pc[u] /\ local'[u] = local[u]
                                    /\ used'[u] = used[u] /\ saver'[u] = saver[u]
                                    /\ before'[u] = before[u]
<1>1. TypeOK
  BY DEF IInv
<1>2. \A u \in Turn \ {t} : saver'[u] = saver[u] /\ before'[u] = before[u]
  BY <1>1 DEF TypeOK, TurnStep, Ask, CheckMemory, CreateMemory, BindMemory, Invoke, RouteCapped,
              RouteByModel, CallTool, Synthesize, ModelFails, graph, history
<1>3. pc[t] \notin Ended
  BY DEF Ended, TurnStep, Ask, CheckMemory, CreateMemory, BindMemory, Invoke, RouteCapped,
         RouteByModel, CallTool, Synthesize, ModelFails
<1> QED
  BY <1>1, <1>2, <1>3, OtherTurns

\* A companion is a companion of its companions.
LEMMA CompanionsMutual ==
    ASSUME NEW t \in Turn, NEW u \in Companions(t)
    PROVE  /\ u \in Turn \ {t} /\ t \in Companions(u) /\ ConversationOf[u] = ConversationOf[t]
           /\ Serial(t) => Serial(u)
BY DEF Companions, Serial

\* Until its graph runs, a turn only finds out which of its companions have ended.
LEMMA SettingOutKeeps ==
    ASSUME IInv, HistoryInv, NEW t \in Turn,
           Ask(t) \/ CheckMemory(t) \/ CreateMemory(t) \/ BindMemory(t)
    PROVE  HistoryInv'
<1>0. TypeOK /\ Budget(t) /\ TurnStep(t)
  BY DEF IInv, TurnInv, TurnStep
<1>1. /\ pc[t] \in {"idle", "checking", "creating", "binding"}
      /\ pc'[t] \in {"checking", "creating", "binding", "invoking"}
      /\ UNCHANGED <<local, saved, used>>
      /\ pc[t] # "idle" => UNCHANGED before
      /\ pc[t] = "idle" =>
           /\ before'[t] = {u \in Companions(t) : pc[u] \in Ended}
           /\ Serial(t) => \A u \in Companions(t) : pc[u] \notin Running
  <2>1. CASE Ask(t)
    BY <1>0, <2>1, ConversationAssumption DEF Ask, To, TypeOK, graph, Serial
  <2>2. CASE CheckMemory(t) \/ CreateMemory(t) \/ BindMemory(t)
    BY <1>0, <2>2 DEF CheckMemory, CreateMemory, BindMemory, To, TypeOK, graph, history
  <2> QED
    BY <2>1, <2>2
<1>2. /\ used[t] = 0 /\ pc[t] \notin Ended
      /\ pc'[t] \notin InGraph /\ pc'[t] \notin {"route_query", "call_tool", "synthesize"}
  BY <1>0, <1>1 DEF Budget, InGraph, Ended
<1>3. \A u \in Turn \ {t} : /\ pc'[u] = pc[u] /\ local'[u] = local[u]
                            /\ used'[u] = used[u] /\ saver'[u] = saver[u]
                            /\ before'[u] = before[u]
  BY <1>0, OneTurnMoves
<1>4. \A u \in Turn : \A v \in before[u] : v \in Companions(u) /\ v # t /\ pc[v] \in Ended
  BY <1>2 DEF HistoryInv, Orderly
<1>5. \A u \in Turn \ {t} : \A v \in before[u] : pc'[v] \in Ended
  BY <1>3, <1>4, CompanionsMutual
<1>6. \A v \in before'[t] : v \in Companions(t) /\ pc'[v] \in Ended
  <2>1. \A v \in before'[t] : v \in Companions(t) /\ pc[v] \in Ended
    BY <1>1, <1>4
  <2> QED
    BY <1>3, <2>1, CompanionsMutual
<1>7. Serial(t) => \A u \in Companions(t) : pc[u] \notin Running
  BY <1>1 DEF HistoryInv, Orderly, Running
<1>8. ASSUME NEW u \in Turn
      PROVE  Orderly(u)'
  <2>1. CASE u = t
    <3>1. Serial(t) => \A v \in Companions(t) : pc'[v] \notin Running
      BY <1>3, <1>7, CompanionsMutual
    <3> QED
      BY <1>1, <1>2, <1>6, <2>1, <3>1 DEF Orderly, Companions, Serial
  <2>2. CASE u # t
    <3>1. Orderly(u) /\ pc'[u] = pc[u] /\ local'[u] = local[u] /\ used'[u] = used[u]
          /\ saver'[u] = saver[u] /\ before'[u] = before[u]
      BY <1>3, <2>2 DEF HistoryInv
    <3>2. Held(u)' = Held(u)
      BY <1>1, <3>1 DEF Held
    <3>3. Serial(u) /\ pc[u] \in Running => \A v \in Companions(u) : pc'[v] \notin Running
      <4> SUFFICES ASSUME Serial(u), pc[u] \in Running, NEW v \in Companions(u)
                   PROVE  pc'[v] \notin Running
        OBVIOUS
      <4>1. CASE v = t
        BY <1>7, <4>1, CompanionsMutual
      <4>2. CASE v # t
        BY <1>3, <3>1, <4>2, CompanionsMutual DEF Orderly
      <4> QED
        BY <4>1, <4>2
    <3> QED
      BY <1>4, <1>5, <2>2, <3>1, <3>2, <3>3 DEF Orderly, Companions, Serial, From
  <2> QED
    BY <2>1, <2>2
<1>9. HistoryKept'
  <2> SUFFICES ASSUME NEW u \in Turn, pc'[u] \in InGraph, ConversationOf[u] \notin Concurrent,
                      NEW v \in before'[u], used'[v] > 0, saver'[v] = saver'[u]
               PROVE  v \in Gathered(u)'
    BY DEF HistoryKept, InGraph
  <2>1. u # t /\ v \in Turn /\ v # t
    BY <1>2, <1>3, <1>4, CompanionsMutual
  <2>2. /\ pc[u] \in InGraph /\ v \in before[u]
        /\ used[v] > 0 /\ saver[v] = saver[u]
    BY <1>3, <2>1
  <2> QED
    BY <1>1, <2>2 DEF HistoryInv, HistoryKept, Gathered
<1> QED
  BY <1>8, <1>9 DEF HistoryInv

\* A turn that saves channels which hold what its checkpoint held, and its own results,
\* keeps the history of its conversation; other conversations do not notice.
LEMMA SaveKeepsHistory ==
    ASSUME IInv, HistoryInv, NEW t \in Turn, TurnStep(t),
           NEW state \in Channels, Save(t, state),
           pc[t] \in Running, UNCHANGED <<saver, before>>,
           Serial(t) => /\ Held(t) \subseteq state.tool_results
                        /\ used'[t] > 0 => From(t, state.tool_results)
    PROVE  HistoryInv'
<1>0. TypeOK /\ saver[t] \in Saver
  BY DEF IInv, TypeOK
<1>1. /\ pc[t] \notin Ended
      /\ \A u \in Turn \ {t} : /\ pc'[u] = pc[u] /\ local'[u] = local[u] /\ used'[u] = used[u]
  BY OneTurnMoves
<1>2. /\ local'[t] = state
      /\ \A s \in Saver, c \in Conversations :
            saved'[s][c] = IF s = saver[t] /\ c \in Thread(t) THEN state ELSE saved[s][c]
  BY <1>0, SaveEffect
\* No result of a serial conversation is lost.
<1>3. ASSUME NEW u \in Turn, Serial(u)
      PROVE  /\ Held(u) \subseteq Held(u)'
             /\ u = t => Held(u)' = state.tool_results
             /\ u \notin Companions(t) /\ u # t => Held(u)' = Held(u)
  <2>1. saver[u] \in Saver /\ ConversationOf[u] \in Conversations /\ ConversationOf[u] # Alone
    BY <1>0, <1>3, ConversationAssumption DEF TypeOK, Serial
  <2>2. Held(u)' = IF saver[u] = saver[t] /\ ConversationOf[u] \in Thread(t)
                   THEN state.tool_results ELSE Held(u)
    BY <1>2, <2>1 DEF Held
  <2>3. ConversationOf[u] \in Thread(t) => ConversationOf[u] = ConversationOf[t] /\ Serial(t)
    BY <1>3 DEF Thread, Serial
  <2>4. saver[u] = saver[t] /\ ConversationOf[u] \in Thread(t) => Held(u) \subseteq state.tool_results
    BY <2>3 DEF Held
  <2>5. ConversationOf[t] \in Thread(t) \/ u # t
    BY <2>1 DEF Thread
  <2>6. u \notin Companions(t) /\ u # t => ConversationOf[u] \notin Thread(t)
    BY <2>1, <2>3 DEF Companions
  <2> QED
    BY <2>2, <2>4, <2>5, <2>6
<1>4. \A u \in Turn : \A v \in before[u] : v \in Companions(u) /\ v \in Turn \ {t} /\ pc'[v] \in Ended
  BY <1>1, CompanionsMutual DEF HistoryInv, Orderly
<1>5. ASSUME NEW u \in Turn
      PROVE  Orderly(u)'
  <2>0. Orderly(u) /\ Orderly(t)
    BY DEF HistoryInv
  <2>1. ASSUME Serial(u), pc'[u] \in Running, NEW v \in Companions(u)
        PROVE  pc'[v] \notin Running
    <3>1. CASE u = t
      BY <1>1, <2>0, <2>1, <3>1, CompanionsMutual DEF Orderly
    <3>2. CASE u # t
      BY <1>1, <2>0, <2>1, <3>2, CompanionsMutual DEF Orderly
    <3> QED
      BY <3>1, <3>2
  <2>2. ASSUME Serial(u), pc'[u] \in {"route_query", "call_tool", "synthesize"}
        PROVE  Held(u)' \subseteq local'[u].tool_results
    <3>1. CASE u = t
      BY <1>2, <1>3, <2>2, <3>1
    <3>2. CASE u # t
      <4>1. pc[u] = pc'[u] /\ pc[u] \in Running /\ local'[u] = local[u]
        BY <1>1, <2>2, <3>2 DEF Running
      <4>2. u \notin Companions(t)
        BY <2>0, <2>2, <4>1, CompanionsMutual DEF Orderly
      <4>3. Held(u)' = Held(u)
        BY <1>3, <2>2, <3>2, <4>2
      <4> QED
        BY <2>0, <2>2, <4>1, <4>3 DEF Orderly
    <3> QED
      BY <3>1, <3>2
  <2>3. ASSUME Serial(u), used'[u] > 0
        PROVE  From(u, Held(u)')
    <3>1. CASE u = t
      BY <1>3, <2>3, <3>1
    <3>2. CASE u # t
      <4>1. From(u, Held(u))
        BY <1>1, <2>0, <2>3, <3>2 DEF Orderly
      <4> QED
        BY <1>3, <2>3, <4>1 DEF From
    <3> QED
      BY <3>1, <3>2
  <2> QED
    BY <1>4, <2>1, <2>2, <2>3 DEF Orderly, Companions, Serial, From
<1>6. HistoryKept'
  <2> SUFFICES ASSUME NEW u \in Turn, pc'[u] \in InGraph, ConversationOf[u] \notin Concurrent,
                      NEW v \in before[u], used'[v] > 0, saver[v] = saver[u]
               PROVE  \E r \in local'[u].tool_results : r.turn = v
    BY DEF HistoryKept, InGraph, Gathered
  <2>1. v \in Companions(u) /\ v \in Turn /\ v # t /\ used[v] > 0
    BY <1>1, <1>4
  <2>2. CASE u = t
    <3>1. Serial(u) /\ Serial(v) /\ ConversationOf[v] = ConversationOf[u]
      BY <2>1, ConversationAssumption DEF Companions, Serial
    <3>2. From(v, Held(v)) /\ Held(v) = Held(u)
      BY <2>1, <3>1 DEF HistoryInv, Orderly, Held
    <3> QED
      BY <1>2, <2>2, <3>1, <3>2 DEF From
  <2>3. CASE u # t
    BY <1>1, <2>1, <2>3 DEF HistoryInv, HistoryKept, Gathered
  <2> QED
    BY <2>2, <2>3
<1> QED
  BY <1>5, <1>6 DEF HistoryInv

\* Every step keeps the history of every serial conversation.
LEMMA HistoryStep == IInv /\ HistoryInv /\ [Next]_vars => HistoryInv'
<1> SUFFICES ASSUME IInv, HistoryInv, [Next]_vars
             PROVE  HistoryInv'
  OBVIOUS
<1>0. TypeOK
  BY DEF IInv
<1>1. CASE UNCHANGED vars
  BY <1>1 DEF vars, graph, history, HistoryInv, HistoryKept, Gathered, Orderly, Held, From, Serial,
              Companions
<1>2. ASSUME NEW t \in Turn, TurnStep(t)
      PROVE  HistoryInv'
  <2>1. /\ local[t] \in Channels /\ Budget(t) /\ Chosen(t) /\ Orderly(t)
        /\ used[t] \in Nat
    BY <1>0 DEF IInv, TurnInv, TypeOK, HistoryInv
  \* What a node may rely on: its channels hold the checkpoint's results.
  <2>2. pc[t] \in {"route_query", "call_tool", "synthesize"} /\ Serial(t) =>
           /\ Held(t) \subseteq local[t].tool_results
           /\ used[t] > 0 => From(t, local[t].tool_results)
    BY <2>1 DEF Orderly, From
  <2>3. CASE Ask(t) \/ CheckMemory(t) \/ CreateMemory(t) \/ BindMemory(t)
    BY <2>3, SettingOutKeeps
  <2>4. CASE Invoke(t)
    <3>1. /\ pc[t] \in Running /\ used[t] = 0 /\ UNCHANGED <<saver, before, used>>
          /\ saver[t] \in Saver
      BY <1>0, <2>1, <2>4 DEF Invoke, Running, Budget, history, TypeOK
    <3>2. CASE \E c \in Thread(t) : Save(t, Input(saved[saver[t]][c]))
      <4>1. PICK c \in Thread(t) : Save(t, Input(saved[saver[t]][c]))
        BY <3>2
      <4>2. c \in Conversations /\ c = ConversationOf[t]
        BY DEF Thread
      <4>3. saved[saver[t]][c] \in Channels
        BY <1>0, <3>1, <4>2 DEF TypeOK
      <4> DEFINE state == Input(saved[saver[t]][c])
      <4>4. state \in Channels /\ state.tool_results = Held(t)
        BY <4>2, <4>3, InputType DEF Held
      <4>5. Save(t, state)
        BY <4>1
      <4> HIDE DEF state
      <4> QED
        BY <1>2, <3>1, <4>4, <4>5, SaveKeepsHistory
    <3>3. CASE Thread(t) = {} /\ Save(t, Input(NoChannels))
      <4>1. ~Serial(t)
        BY <3>3 DEF Thread, Serial
      <4>2. Input(NoChannels) \in Channels
        BY NoChannelsType, InputType
      <4> QED
        BY <1>2, <3>1, <3>3, <4>1, <4>2, SaveKeepsHistory
    <3> QED
      BY <2>4, <3>2, <3>3 DEF Invoke
  <2>5. CASE RouteCapped(t)
    <3> DEFINE state == [local[t] EXCEPT !.next_tool = "none", !.stopped = t]
    <3>1. state \in Channels /\ state.tool_results = local[t].tool_results
      BY <2>1, NodeStateType DEF Channels
    <3>2. Save(t, state) /\ pc[t] = "route_query" /\ UNCHANGED <<saver, before, used>>
      BY <2>5 DEF RouteCapped, NodeReturns
    <3> HIDE DEF state
    <3> QED
      BY <1>2, <2>2, <3>1, <3>2, SaveKeepsHistory DEF Running
  <2>6. CASE RouteByModel(t)
    <3>1. PICK tool \in Tool \cup {"none"} : Save(t, [local[t] EXCEPT !.next_tool = tool])
      BY <2>6 DEF RouteByModel, NodeReturns
    <3> DEFINE state == [local[t] EXCEPT !.next_tool = tool]
    <3>2. state \in Channels /\ state.tool_results = local[t].tool_results
      BY <2>1, NodeStateType DEF Channels
    <3>3. Save(t, state) /\ pc[t] = "route_query" /\ UNCHANGED <<saver, before, used>>
      BY <2>6, <3>1 DEF RouteByModel
    <3> HIDE DEF state
    <3> QED
      BY <1>2, <2>2, <3>2, <3>3, SaveKeepsHistory DEF Running
  <2>7. CASE CallTool(t)
    <3> DEFINE result == [turn |-> t, tool |-> local[t].next_tool, n |-> used'[t]]
               state == [local[t] EXCEPT !.iterations = @ + 1, !.tool_results = @ \cup {result}]
    <3>1. /\ pc[t] = "call_tool" /\ used'[t] \in Nat /\ local[t].next_tool # "none"
          /\ UNCHANGED <<saver, before>>
      BY <1>0, <2>1, <2>7 DEF CallTool, TypeOK, Chosen
    <3>2. state \in Channels
      BY <2>1, <3>1, NodeStateType
    <3>3. state.tool_results = local[t].tool_results \cup {result} /\ result.turn = t
      BY <2>1 DEF Channels
    <3>4. Save(t, state)
      BY <2>7 DEF CallTool, NodeReturns
    <3> HIDE DEF state, result
    <3>5. From(t, state.tool_results)
      BY <3>3 DEF From
    <3> QED
      BY <1>2, <2>2, <3>1, <3>2, <3>3, <3>4, <3>5, SaveKeepsHistory DEF Running
  <2>8. CASE Synthesize(t)
    <3>1. Save(t, local[t]) /\ pc[t] = "synthesize" /\ UNCHANGED <<saver, before, used>>
      BY <2>8 DEF Synthesize, NodeReturns, history
    <3> QED
      BY <1>2, <2>1, <2>2, <3>1, SaveKeepsHistory DEF Running
  <2>9. CASE ModelFails(t)
    <3>1. /\ pc[t] \in Running /\ pc'[t] = "failed"
          /\ UNCHANGED <<saver, local, saved, before, used>>
      BY <1>0, <2>9 DEF ModelFails, To, TypeOK, Running, graph, history
    <3>2. \A u \in Turn \ {t} : pc'[u] = pc[u]
      BY <1>2, OneTurnMoves
    <3>3. pc'[t] \notin Running /\ pc'[t] \notin InGraph /\ pc'[t] \in Ended
          /\ pc'[t] \notin {"route_query", "call_tool", "synthesize"}
      BY <3>1 DEF Running, InGraph, Ended
    <3>4. \A u \in Turn : pc'[u] \in Running => pc[u] \in Running
      BY <3>2, <3>3
    <3>5. \A u \in Turn : pc[u] \in Ended => pc'[u] \in Ended
      BY <3>2, <3>3
    <3>6. ASSUME NEW u \in Turn
          PROVE  Orderly(u)'
      <4>1. Orderly(u) /\ Held(u)' = Held(u)
        BY <3>1 DEF HistoryInv, Held
      <4>2. \A v \in before[u] : v \in Companions(u) /\ pc'[v] \in Ended
        BY <3>5, <4>1, CompanionsMutual DEF Orderly
      <4>3. Serial(u) /\ pc'[u] \in Running => \A v \in Companions(u) : pc'[v] \notin Running
        BY <3>4, <4>1, CompanionsMutual DEF Orderly
      <4>4. pc'[u] \in {"route_query", "call_tool", "synthesize"} => pc'[u] = pc[u]
        BY <3>2, <3>3
      <4> QED
        BY <3>1, <4>1, <4>2, <4>3, <4>4 DEF Orderly, Companions, Serial, From
    <3>7. \A u \in Turn : pc'[u] \in InGraph => pc[u] \in InGraph
      BY <3>2, <3>3
    <3>8. HistoryKept'
      BY <3>1, <3>7 DEF HistoryInv, HistoryKept, Gathered, InGraph
    <3> QED
      BY <3>6, <3>8 DEF HistoryInv
  <2> QED
    BY <1>2, <2>3, <2>4, <2>5, <2>6, <2>7, <2>8, <2>9 DEF TurnStep
<1> QED
  BY <1>1, <1>2 DEF Next

\* A turn of a conversation whose turns do not overlap works with all that its earlier
\* turns had gathered, also when they failed, if it got the same MemorySaver.
THEOREM HistoryStays == Spec => []HistoryKept
<1>1. Init => HistoryInv
  <2> SUFFICES ASSUME Init
               PROVE  HistoryInv
    OBVIOUS
  <2>1. \A t \in Turn : pc[t] = "idle" /\ before[t] = {} /\ used[t] = 0
    BY DEF Init
  <2> QED
    BY <2>1 DEF HistoryInv, HistoryKept, InGraph, Orderly, Running
<1>2. HistoryInv => HistoryKept
  BY DEF HistoryInv
<1> QED
  BY <1>1, <1>2, HistoryStep, InductiveInvariant, PTL DEF Spec
=============================================================================
