------------------------------- MODULE LLMAgent ------------------------------
(***************************************************************************)
(* LLMAgent.run of src/multiagent/core/agent.py: the agents of one process *)
(* answer messages with the conversation a checkpointer keeps for them,    *)
(* with tools, a router and a ledger of costs.                             *)
(*                                                                         *)
(* The graph runs in supersteps.  Its state is a working copy; after each  *)
(* superstep a background writer brings the checkpoint up to date, and an  *)
(* invocation returns or raises when the writer has caught up.             *)
(*                                                                         *)
(*   free      the agent's runner has no invocation under way              *)
(*   connect   an MCP client is opened; fd 2 is redirected                 *)
(*   input     the HumanMessage is about to be added                       *)
(*   llm       call_llm awaits the model                                   *)
(*   record    call_llm awaits the cost ledger                             *)
(*   costed    call_llm is about to return what the model said             *)
(*   tools     the tools node runs                                         *)
(*   route     the route node runs                                         *)
(*   finish    the graph is over                                           *)
(*   answered  run has returned; the runner is about to act on the result  *)
(***************************************************************************)
EXTENDS Naturals, Sequences, FiniteSets

CONSTANTS
    Agent,          \* the agents of the process
    Thread,         \* thread_id values
    Message,        \* message ids: an interval of numbers, in inbox order
    For,            \* For[m]: the agent message m is addressed to
    On,             \* On[m]: its thread
    Tooled,         \* the agents with tools
    Routes,         \* Routes[a]: what a's router may return, when it has one
    None,           \* no next_agent
    MaxBegun,       \* bound: invocations, all agents together
    MaxCalls,       \* bound: tool calls in one invocation
    Faults          \* the faults that may occur

ASSUME AgentAssumption ==
    /\ Message \subseteq Nat
    /\ For \in [Message -> Agent]
    /\ On \in [Message -> Thread]
    /\ Tooled \subseteq Agent
    /\ \A a \in Agent : None \notin Routes[a]
    /\ None \notin {"console", "log"}
    /\ MaxBegun \in Nat
    /\ MaxCalls \in Nat
    /\ Faults \subseteq {"llm", "empty", "ledger", "crash", "reconfigure"}

VARIABLES
    checkpoint,     \* what the checkpointer has on disk, by key
    work,           \* the working copy of an agent's invocation
    pc,             \* where the agent is
    msg,            \* the message it works on
    calls,          \* the tool calls made in the invocation
    result,         \* RunResult: the kind of response, and next_agent
    decided,        \* what the router decided in this invocation
    routed,         \* the agents that have a router now
    processed,      \* messages the runner has acknowledged
    begun,          \* invocations begun
    recorded,       \* rows of the cost ledger, by agent
    warned,         \* warnings that a row could not be written, by agent
    fd2,            \* where file descriptor 2 of the process points
    saved           \* original_fd of an agent's redirection

graphVars == <<checkpoint, work>>
fdVars == <<fd2, saved>>
costVars == <<recorded, warned>>
agentVars == <<graphVars, pc, msg, calls, result, decided, routed, processed,
               begun, costVars, fdVars>>

Kinds == {"human", "ai", "empty", "call", "tool"}
Entry == [kind : Kinds, of : Message]

\* AgentState: messages accumulate, next_agent is overwritten.  Both persist.
State == [messages : Seq(Entry), next : (UNION {Routes[a] : a \in Agent}) \cup {None}]
NoState == [messages |-> << >>, next |-> None]

\* Defective variant: threads are not namespaced by agent.
SharedKey(a, t) == <<CHOOSE b \in Agent : TRUE, t>>

\* f"{self.name}:{thread_id}"
Key(a, t) == <<a, t>>

KeyOf(a) == Key(a, On[msg[a]])

PC == {"free", "connect", "input", "llm", "record", "costed", "tools", "route",
       "finish", "answered"}

TypeOK ==
    /\ checkpoint \in [Agent \X Thread -> State]
    /\ work \in [Agent -> State]
    /\ pc \in [Agent -> PC]
    /\ \A a \in Agent : pc[a] # "free" => msg[a] \in Message /\ For[msg[a]] = a
    /\ routed \subseteq Agent
    /\ processed \subseteq Message
    /\ fd2 \in {"console", "log"}
    /\ saved \in [Agent -> {"console", "log", None}]

Init ==
    /\ checkpoint = [k \in Agent \X Thread |-> NoState]
    /\ work = [a \in Agent |-> NoState]
    /\ pc = [a \in Agent |-> "free"]
    /\ msg = [a \in Agent |-> None]
    /\ calls = [a \in Agent |-> 0]
    /\ result = [a \in Agent |-> None]
    /\ decided = [a \in Agent |-> None]
    /\ routed = {a \in Agent : Routes[a] # {}}
    /\ processed = {}
    /\ begun = 0
    /\ recorded = [a \in Agent |-> 0]
    /\ warned = [a \in Agent |-> 0]
    /\ fd2 = "console"
    /\ saved = [a \in Agent |-> None]

Goto(a, label) == pc' = [pc EXCEPT ![a] = label]

\* The locals of the invocation are gone.
Release(a) ==
    /\ Goto(a, "free")
    /\ msg' = [msg EXCEPT ![a] = None]
    /\ calls' = [calls EXCEPT ![a] = 0]
    /\ result' = [result EXCEPT ![a] = None]
    /\ decided' = [decided EXCEPT ![a] = None]
    /\ work' = [work EXCEPT ![a] = NoState]

Add(a, kind) ==
    work' = [work EXCEPT ![a].messages = Append(@, [kind |-> kind, of |-> msg[a]])]

-----------------------------------------------------------------------------
\* The runner hands over the oldest message that is not processed; after a
\* failure, an empty answer or a restart that is the same one again.
Begin(a) ==
    \E m \in Message \ processed :
        /\ pc[a] = "free"
        /\ For[m] = a
        /\ \A n \in Message \ processed : For[n] = a => m <= n
        /\ begun < MaxBegun
        /\ begun' = begun + 1
        /\ msg' = [msg EXCEPT ![a] = m]
        /\ IF a \in Tooled
           THEN /\ saved' = [saved EXCEPT ![a] = fd2]       \* os.dup(2)
                /\ fd2' = "log"                             \* os.dup2(log_fd, 2)
                /\ Goto(a, "connect")
           ELSE /\ Goto(a, "input")
                /\ UNCHANGED fdVars
        /\ UNCHANGED <<graphVars, calls, result, decided, routed, processed, costVars>>

Connected(a) ==
    /\ pc[a] = "connect"
    /\ Goto(a, "input")
    /\ UNCHANGED <<graphVars, msg, calls, result, decided, routed, processed,
                   begun, costVars, fdVars>>

\* graph.ainvoke: the checkpoint is loaded and the input added to it.
Input(a) ==
    /\ pc[a] = "input"
    /\ work' = [work EXCEPT ![a] =
                    [checkpoint[KeyOf(a)] EXCEPT !.messages =
                        Append(@, [kind |-> "human", of |-> msg[a]])]]
    /\ Goto(a, "llm")
    /\ UNCHANGED <<checkpoint, msg, calls, result, decided, routed, processed,
                   begun, costVars, fdVars>>

\* The writer has caught up.
Written(a) == checkpoint[KeyOf(a)] = work[a]

\* The writer; supersteps that end before it runs are written at once.
Write(a) ==
    /\ pc[a] \in {"llm", "record", "costed", "tools", "route", "finish"}
    /\ ~Written(a)
    /\ checkpoint' = [checkpoint EXCEPT ![KeyOf(a)] = work[a]]
    /\ UNCHANGED <<work, pc, msg, calls, result, decided, routed, processed,
                   begun, costVars, fdVars>>

-----------------------------------------------------------------------------
\* The llm node: the model answers, the cost is recorded, the node returns.

Answers(a) ==
    {"ai"} \cup (IF "empty" \in Faults THEN {"empty"} ELSE {})
           \cup (IF a \in Tooled /\ calls[a] < MaxCalls THEN {"call"} ELSE {})

ModelAnswers(a) ==
    /\ pc[a] = "llm"
    /\ \E k \in Answers(a) : result' = [result EXCEPT ![a] = [kind |-> k, next |-> None]]
    /\ Goto(a, "record")
    /\ UNCHANGED <<graphVars, msg, calls, decided, routed, processed, begun,
                   costVars, fdVars>>

\* should_continue, and the edges of the graph without tools.
AfterLLM(a, kind) ==
    CASE kind = "call" -> "tools"
      [] kind # "call" /\ a \in routed -> "route"
      [] OTHER -> "finish"

\* CostLedger.record writes its row, or fails and leaves a warning.
RecordCost(a) ==
    /\ pc[a] = "record"
    /\ \/ /\ recorded' = [recorded EXCEPT ![a] = @ + 1]
          /\ UNCHANGED warned
       \/ /\ "ledger" \in Faults
          /\ warned' = [warned EXCEPT ![a] = @ + 1]
          /\ UNCHANGED recorded
    /\ Goto(a, "costed")
    /\ UNCHANGED <<graphVars, msg, calls, result, decided, routed, processed,
                   begun, fdVars>>

\* Defective variant: the record is not awaited.
ReturnUnrecorded(a) ==
    /\ pc[a] \in {"record", "costed"}
    /\ Add(a, result[a].kind)
    /\ Goto(a, AfterLLM(a, result[a].kind))
    /\ UNCHANGED <<checkpoint, msg, calls, result, decided, routed, processed,
                   begun, costVars, fdVars>>

\* call_llm returns, and what the model said is added.
NodeReturns(a) ==
    /\ pc[a] = "costed"
    /\ Add(a, result[a].kind)
    /\ Goto(a, AfterLLM(a, result[a].kind))
    /\ UNCHANGED <<checkpoint, msg, calls, result, decided, routed, processed,
                   begun, costVars, fdVars>>

RunTools(a) ==
    /\ pc[a] = "tools"
    /\ Add(a, "tool")
    /\ calls' = [calls EXCEPT ![a] = @ + 1]
    /\ Goto(a, "llm")
    /\ UNCHANGED <<checkpoint, msg, result, decided, routed, processed, begun,
                   costVars, fdVars>>

\* Defective variant: the first decision on a thread is kept.
RouteOnce(a) ==
    /\ pc[a] = "route"
    /\ \E d \in Routes[a] :
          /\ decided' = [decided EXCEPT ![a] = d]
          /\ work' = [work EXCEPT ![a].next = IF @ = None THEN d ELSE @]
    /\ Goto(a, "finish")
    /\ UNCHANGED <<checkpoint, msg, calls, result, routed, processed, begun,
                   costVars, fdVars>>

\* Defective variant: an unrecognised key of the model is taken for a route.
RouteUnchecked(a) ==
    /\ pc[a] = "route"
    /\ \E d \in Routes[a] \cup {"unrecognised"} :
          /\ decided' = [decided EXCEPT ![a] = d]
          /\ work' = [work EXCEPT ![a].next = d]
    /\ Goto(a, "finish")
    /\ UNCHANGED <<checkpoint, msg, calls, result, routed, processed, begun,
                   costVars, fdVars>>

\* A trigger found in the answer, the key the router's model returns if it is
\* one, or the default.
Route(a) ==
    /\ pc[a] = "route"
    /\ \E d \in Routes[a] :
          /\ decided' = [decided EXCEPT ![a] = d]
          /\ work' = [work EXCEPT ![a].next = d]
    /\ Goto(a, "finish")
    /\ UNCHANGED <<checkpoint, msg, calls, result, routed, processed, begun,
                   costVars, fdVars>>

-----------------------------------------------------------------------------
\* Defective variant: the descriptor is closed but not put back.
RestoreForgotten(a) ==
    IF a \in Tooled
    THEN /\ saved' = [saved EXCEPT ![a] = None]
         /\ UNCHANGED fd2
    ELSE UNCHANGED fdVars

\* The finally block of _run_with_tools.
Restore(a) ==
    IF a \in Tooled
    THEN /\ fd2' = saved[a]
         /\ saved' = [saved EXCEPT ![a] = None]
    ELSE UNCHANGED fdVars

\* Defective variant: the result is returned before it is written.
ReturnEarly(a) ==
    /\ pc[a] = "finish"
    /\ result' = [result EXCEPT ![a].next = work[a].next]
    /\ Restore(a)
    /\ Goto(a, "answered")
    /\ UNCHANGED <<graphVars, msg, calls, decided, routed, processed, begun,
                   costVars>>

\* _invoke_graph takes the last message and next_agent out of the state.
Return(a) ==
    /\ pc[a] = "finish"
    /\ Written(a)
    /\ result' = [result EXCEPT ![a].next = work[a].next]
    /\ Restore(a)
    /\ Goto(a, "answered")
    /\ UNCHANGED <<graphVars, msg, calls, decided, routed, processed, begun,
                   costVars>>

\* The model, the MCP client, a tool or the router's model raises.
Raise(a) ==
    /\ "llm" \in Faults
    /\ pc[a] \in {"connect", "llm", "tools", "route"}
    /\ pc[a] # "connect" => Written(a)
    /\ Restore(a)
    /\ Release(a)
    /\ UNCHANGED <<checkpoint, routed, processed, begun, costVars>>

\* The runner acknowledges a nonempty answer and leaves an empty one.
Act(a) ==
    /\ pc[a] = "answered"
    /\ processed' = IF result[a].kind = "ai" THEN processed \cup {msg[a]}
                                             ELSE processed
    /\ Release(a)
    /\ UNCHANGED <<checkpoint, routed, begun, costVars, fdVars>>

\* The process is killed, perhaps before the writer has caught up, and started
\* again, perhaps with routers removed from or added to agents.toml.
Restart ==
    /\ "crash" \in Faults
    /\ \E a \in Agent : pc[a] # "free"
    /\ pc' = [a \in Agent |-> "free"]
    /\ msg' = [a \in Agent |-> None]
    /\ calls' = [a \in Agent |-> 0]
    /\ result' = [a \in Agent |-> None]
    /\ decided' = [a \in Agent |-> None]
    /\ work' = [a \in Agent |-> NoState]
    /\ routed' \in IF "reconfigure" \in Faults
                   THEN SUBSET {a \in Agent : Routes[a] # {}}
                   ELSE {routed}
    /\ fd2' = "console"
    /\ saved' = [a \in Agent |-> None]
    /\ UNCHANGED <<checkpoint, processed, begun, costVars>>

Next ==
    \/ \E a \in Agent :
          \/ Begin(a) \/ Connected(a) \/ Input(a) \/ Write(a)
          \/ ModelAnswers(a) \/ RecordCost(a) \/ NodeReturns(a)
          \/ RunTools(a) \/ Route(a) \/ Return(a) \/ Raise(a) \/ Act(a)
    \/ Restart

Spec == Init /\ [][Next]_agentVars

-----------------------------------------------------------------------------
(***************************************************************************)
(* Properties.                                                             *)
(***************************************************************************)

History(a, t) == checkpoint[Key(a, t)].messages

\* An acknowledged message is in its agent's conversation, and an answer to
\* it after it: what run_once acknowledges, later answers can refer to, over
\* crashes before the checkpoint was written (_invoke_graph before ack).
AnswerRemembered ==
    \A m \in processed :
        LET h == History(For[m], On[m])
        IN  \E i, j \in DOMAIN h :
                /\ i < j
                /\ h[i] = [kind |-> "human", of |-> m]
                /\ h[j] = [kind |-> "ai", of |-> m]

\* In every conversation an answer, a tool call and a tool's result follow
\* the question they are about, with no other question in between: agents
\* that share a thread and attempts that failed do not mix (the namespaced
\* thread of _invoke_graph).
ConversationInOrder ==
    \A k \in DOMAIN checkpoint :
        LET h == checkpoint[k].messages
        IN  \A i \in DOMAIN h :
                /\ h[1].kind = "human"
                /\ (i > 1 /\ h[i].kind # "human") => h[i].of = h[i - 1].of
                /\ For[h[i].of] = k[1]

\* The next_agent an agent with a router returns was decided in this
\* invocation, although the checkpoint carries the one of the last invocation
\* into it, over crashes and over routers that come and go (route_node
\* overwrites next_agent).
RouteIsFresh ==
    \A a \in routed : pc[a] = "answered" =>
        /\ decided[a] # None
        /\ result[a].next = decided[a]

ModelAt(h) == {i \in DOMAIN h : h[i].kind \in {"ai", "empty", "call"}}

\* The places in a's conversations that hold something the model said.
ModelEntries(a) == UNION {{t} \X ModelAt(History(a, t)) : t \in Thread}

\* Everything the model said in an agent's conversations has a row in the
\* ledger or a warning that the row could not be written, although a kill can
\* come between the paid call, the row and the checkpoint: call_llm awaits the
\* ledger before it returns, so none of them is in the conversation first.
EveryAnswerCosted ==
    \A a \in Agent : Cardinality(ModelEntries(a)) <= recorded[a] + warned[a]

\* When no invocation uses tools, file descriptor 2 is the console again:
\* only "MCP subprocess stderr" goes to the log file (_run_with_tools).
StderrRestored ==
    (\A a \in Agent : saved[a] = None) => fd2 = "console"

=============================================================================
