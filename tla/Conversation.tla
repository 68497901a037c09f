------------------------------ MODULE Conversation ------------------------------
(***************************************************************************)
(* The supervisor graph of agents/supervisor.py serving the turns of         *)
(* conversations: route_query, call_tool and synthesize over the channels of *)
(* SupervisorState, which LangGraph's MemorySaver keeps per conversation.    *)
(* Turns run in the API's thread pool and may overlap. LangGraph is external: *)
(* it loads a thread's latest checkpoint when a turn starts, saves one after *)
(* every step, and gives a turn up after recursion_limit steps.              *)
(***************************************************************************)
EXTENDS Naturals, FiniteSets

CONSTANTS
    Turn,            \* requests to ask
    NoTurn,
    Conversations,
    Alone,           \* stands for a missing conversation_id
    ConversationOf,  \* the conversation of each turn, or Alone
    Tool,
    MaxIterations,
    RecursionLimit,
    Concurrent       \* conversations whose turns may overlap

ASSUME ConversationAssumption ==
    /\ NoTurn \notin Turn
    /\ Alone \notin Conversations
    /\ ConversationOf \in [Turn -> Conversations \cup {Alone}]
    /\ "none" \notin Tool
    /\ {MaxIterations, RecursionLimit} \subseteq Nat
    /\ RecursionLimit >= 2 * MaxIterations + 2
    /\ Concurrent \subseteq Conversations

Result == [turn : Turn, tool : Tool, n : Nat]

\* The channels. stopped is the turn that set stopped_reason, which no turn clears.
Channels == [iterations : Nat, next_tool : Tool \cup {"none"},
             tool_results : SUBSET Result, stopped : Turn \cup {NoTurn}]

NoChannels == [iterations |-> 0, next_tool |-> "none", tool_results |-> {}, stopped |-> NoTurn]

\* A MemorySaver is named by the turn that made it; NoTurn stands for none.
Saver == Turn \cup {NoTurn}

VARIABLES
    pc,      \* where each turn is
    memory,  \* _MEMORY: at most one saver
    saver,   \* the saver each turn's graph was compiled with
    saved,   \* the latest checkpoint of each conversation, in each saver
    local,   \* the channels each turn works on
    steps,   \* graph steps each turn has made
    \* history, for the properties only
    routed,  \* router calls each turn has paid for
    used,    \* tools each turn has called
    capped,  \* turns stopped by the iteration cap
    before   \* turns of the same conversation that had ended when this one began

graph == <<local, steps, saved>>
history == <<routed, used, capped, before>>
vars == <<pc, memory, saver, graph, history>>

Ended == {"answered", "failed", "out_of_steps"}
Running == {"checking", "creating", "binding", "invoking", "route_query", "call_tool", "synthesize"}

Init ==
    /\ pc = [t \in Turn |-> "idle"]
    /\ memory = {}
    /\ saver = [t \in Turn |-> NoTurn]
    /\ saved = [s \in Saver |-> [c \in Conversations |-> NoChannels]]
    /\ local = [t \in Turn |-> NoChannels]
    /\ steps = [t \in Turn |-> 0]
    /\ routed = [t \in Turn |-> 0]
    /\ used = [t \in Turn |-> 0]
    /\ capped = {}
    /\ before = [t \in Turn |-> {}]

Companions(t) ==
    {u \in Turn \ {t} : ConversationOf[u] = ConversationOf[t] /\ ConversationOf[u] # Alone}

To(t, s) == pc' = [pc EXCEPT ![t] = s]

-----------------------------------------------------------------------------
(* ask and _conversational_graph.                                           *)

Ask(t) ==
    /\ pc[t] = "idle"
    /\ \/ ConversationOf[t] \in Concurrent \cup {Alone}
       \/ \A u \in Companions(t) : pc[u] \notin Running
    /\ before' = [before EXCEPT ![t] = {u \in Companions(t) : pc[u] \in Ended}]
    /\ To(t, IF ConversationOf[t] = Alone THEN "invoking" ELSE "checking")
    /\ UNCHANGED <<memory, saver, graph, routed, used, capped>>

\* The check of _MEMORY, its assignment and its use are three steps of a thread.
CheckMemory(t) ==
    /\ pc[t] = "checking"
    /\ To(t, IF memory = {} THEN "creating" ELSE "binding")
    /\ UNCHANGED <<memory, saver, graph, history>>

CreateMemory(t) ==
    /\ pc[t] = "creating"
    /\ memory' = {t}
    /\ To(t, "binding")
    /\ UNCHANGED <<saver, graph, history>>

BindMemory(t) ==
    /\ pc[t] = "binding"
    /\ \E s \in memory : saver' = [saver EXCEPT ![t] = s]
    /\ To(t, "invoking")
    /\ UNCHANGED <<memory, graph, history>>

\* As below, with one thread_id for all conversations.
ThreadShared(t) == IF ConversationOf[t] = Alone THEN {} ELSE {CHOOSE c \in Conversations : TRUE}

\* The thread_id a turn's checkpoints are kept under, if any.
Thread(t) == {ConversationOf[t]} \cap Conversations

\* Channels of t become state, and its checkpoint.
Save(t, state) ==
    /\ local' = [local EXCEPT ![t] = state]
    /\ saved' = [saved EXCEPT ![saver[t]] =
                    [c \in Conversations |-> IF c \in Thread(t) THEN state ELSE @[c]]]

\* As below, without the reset of iterations.
InputKeepsCount(state) == state

\* As below, with every channel reset.
InputResets(state) == NoChannels

\* {"question": question, "iterations": 0}
Input(state) == [state EXCEPT !.iterations = 0]

Invoke(t) ==
    /\ pc[t] = "invoking"
    /\ \/ \E c \in Thread(t) : Save(t, Input(saved[saver[t]][c]))
       \/ Thread(t) = {} /\ Save(t, Input(NoChannels))
    /\ To(t, "route_query")
    /\ UNCHANGED <<memory, saver, steps, history>>

-----------------------------------------------------------------------------
(* The graph's nodes.                                                       *)

\* A node of t writes its channels and the graph goes on to next, unless it is out
\* of steps.
NodeReturns(t, state, next) ==
    /\ Save(t, state)
    /\ steps' = [steps EXCEPT ![t] = @ + 1]
    /\ To(t, IF next # "answered" /\ steps[t] + 1 >= RecursionLimit THEN "out_of_steps" ELSE next)

\* As below, one too late.
CapReachedLate(n) == n > MaxIterations

CapReached(n) == n >= MaxIterations

\* As below, without the test for "none".
should_continue_capped(state) ==
    IF CapReached(state.iterations) THEN "synthesize" ELSE "call_tool"

should_continue(state) ==
    IF state.next_tool = "none" \/ CapReached(state.iterations) THEN "synthesize" ELSE "call_tool"

RouteCapped(t) ==
    /\ pc[t] = "route_query"
    /\ CapReached(local[t].iterations)
    /\ LET state == [local[t] EXCEPT !.next_tool = "none", !.stopped = t]
       IN  NodeReturns(t, state, should_continue(state))
    /\ capped' = capped \cup {t}
    /\ UNCHANGED <<memory, saver, routed, used, before>>

\* The model names any tool, or none, or something _parse_route reads as none.
RouteByModel(t) ==
    /\ pc[t] = "route_query"
    /\ ~CapReached(local[t].iterations)
    /\ \E tool \in Tool \cup {"none"} :
         LET state == [local[t] EXCEPT !.next_tool = tool]
         IN  NodeReturns(t, state, should_continue(state))
    /\ routed' = [routed EXCEPT ![t] = @ + 1]
    /\ UNCHANGED <<memory, saver, used, capped, before>>

\* The tool's result or, just as good for the graph, its error.
CallTool(t) ==
    /\ pc[t] = "call_tool"
    /\ used' = [used EXCEPT ![t] = @ + 1]
    /\ NodeReturns(t, [local[t] EXCEPT
            !.iterations = @ + 1,
            !.tool_results = @ \cup {[turn |-> t, tool |-> local[t].next_tool, n |-> used'[t]]}],
         "route_query")
    /\ UNCHANGED <<memory, saver, routed, capped, before>>

Synthesize(t) ==
    /\ pc[t] = "synthesize"
    /\ NodeReturns(t, local[t], "answered")
    /\ UNCHANGED <<memory, saver, history>>

\* Bedrock raises: the turn ends with the checkpoint of its last complete step. With
\* no results synthesize does not call the model.
ModelFails(t) ==
    /\ \/ pc[t] = "route_query" /\ ~CapReached(local[t].iterations)
       \/ pc[t] = "synthesize" /\ local[t].tool_results # {}
    /\ To(t, "failed")
    /\ UNCHANGED <<memory, saver, graph, history>>

TurnStep(t) ==
    \/ Ask(t)
    \/ CheckMemory(t) \/ CreateMemory(t) \/ BindMemory(t)
    \/ Invoke(t)
    \/ RouteCapped(t) \/ RouteByModel(t)
    \/ CallTool(t)
    \/ Synthesize(t)
    \/ ModelFails(t)

Next == \E t \in Turn : TurnStep(t)

Spec == Init /\ [][Next]_vars

-----------------------------------------------------------------------------
TypeOK ==
    /\ pc \in [Turn -> {"idle"} \cup Running \cup Ended]
    /\ memory \subseteq Saver
    /\ saver \in [Turn -> Saver]
    /\ saved \in [Saver -> [Conversations -> Channels]]
    /\ local \in [Turn -> Channels]
    /\ steps \in [Turn -> Nat]
    /\ routed \in [Turn -> Nat] /\ used \in [Turn -> Nat]
    /\ capped \subseteq Turn
    /\ before \in [Turn -> SUBSET Turn]

\* "THE hard stop": however often the router asks for one more tool, and whatever an
\* earlier or a concurrent turn left in the channels, no turn calls more tools than the
\* cap or pays for more routing, and none runs into the recursion limit instead.
CapHolds ==
    \A t \in Turn :
        /\ used[t] <= MaxIterations
        /\ routed[t] <= MaxIterations
        /\ pc[t] # "out_of_steps"

\* The cap stops only turns that have used up a budget of their own: a follow-up does
\* not pay for the tools of the turns before it.
BudgetPerTurn == \A t \in capped : used[t] = MaxIterations

Gathered(t) == {r.turn : r \in local[t].tool_results}

InGraph == {"route_query", "call_tool", "synthesize", "answered"}

\* A turn of a conversation whose turns do not overlap works with all that its earlier
\* turns had gathered, also when they failed, if it got the same MemorySaver.
HistoryKept ==
    \A t \in Turn : pc[t] \in InGraph /\ ConversationOf[t] \notin Concurrent =>
        \A u \in before[t] : used[u] > 0 /\ saver[u] = saver[t] => u \in Gathered(t)

\* "A process-lifetime checkpointer so follow-up questions carry prior tool results as
\* context": all turns of a conversation get the same MemorySaver.
OneMemory ==
    \A t \in Turn : pc[t] \in InGraph =>
        \A u \in before[t] : saver[u] = saver[t]

\* No turn ever works with what another conversation gathered.
ConversationsIsolated ==
    \A t \in Turn : \A u \in Gathered(t) : u = t \/ u \in Companions(t)

\* "Set when the loop hit MAX_ITERATIONS instead of finishing naturally."
StoppedReasonHonest ==
    \A t \in Turn : pc[t] = "answered" /\ local[t].stopped # NoTurn => t \in capped
=============================================================================
