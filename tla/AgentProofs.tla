------------------------------ MODULE AgentProofs ------------------------------
(***************************************************************************)
(* Theorems about LLMAgent, for every number of agents, threads, messages, *)
(* tool calls, faults and restarts.                                        *)
(***************************************************************************)
EXTENDS LLMAgent, SequenceTheorems, FiniteSetTheorems, TLAPS

NextAgent == (UNION {Routes[a] : a \in Agent}) \cup {None}

\* The graph is running: the working copy holds the input.
InGraph(a) == pc[a] \in {"llm", "record", "costed", "tools", "route", "finish"}

\* A conversation of agent a in which nothing is out of order.
Ordered(h, a) ==
    /\ DOMAIN h # {} => h[1].kind = "human"
    /\ \A i \in DOMAIN h : /\ (i > 1 /\ h[i].kind # "human") => h[i].of = h[i - 1].of
                           /\ For[h[i].of] = a

\* A question and, after it, an answer to it.
Recalls(h, m) ==
    \E i, j \in DOMAIN h : /\ i < j
                           /\ h[i] = [kind |-> "human", of |-> m]
                           /\ h[j] = [kind |-> "ai", of |-> m]

\* The working copy continues the checkpoint: with the question and then with
\* what was said to it.
WorkOK(a) ==
    InGraph(a) =>
        LET h == work[a].messages
            c == checkpoint[KeyOf(a)].messages
        IN  /\ Len(c) <= Len(h) /\ \A i \in DOMAIN c : h[i] = c[i]
            /\ Len(h) > 0 /\ h[Len(h)].of = msg[a]
            /\ \E i \in DOMAIN h : h[i] = [kind |-> "human", of |-> msg[a]]
            /\ Ordered(h, a)
            /\ pc[a] \in {"route", "finish"} /\ result[a].kind = "ai"
                  => Recalls(h, msg[a])

\* What is about to be acknowledged is in the checkpoint.
AnsweredOK(a) ==
    pc[a] = "answered" /\ result[a].kind = "ai"
        => Recalls(checkpoint[KeyOf(a)].messages, msg[a])

ResultOK(a) ==
    pc[a] \in {"record", "costed", "tools", "route", "finish", "answered"} =>
        result[a] \in [kind : {"ai", "empty", "call"}, next : NextAgent]

AgentOK(a) ==
    /\ WorkOK(a) /\ AnsweredOK(a) /\ ResultOK(a)
    /\ \A t \in Thread : Ordered(checkpoint[Key(a, t)].messages, a)

\* TypeOK leaves out what no property looks at.
LocalsOK ==
    /\ msg = [a \in Agent |-> msg[a]]
    /\ result = [a \in Agent |-> result[a]]
    /\ decided = [a \in Agent |-> decided[a]]

\* The inductive invariant on the conversations.
AgentInv == TypeOK /\ LocalsOK /\ AnswerRemembered /\ \A a \in Agent : AgentOK(a)

\* Nothing of agent b changes.
SameAgent(b) ==
    /\ pc'[b] = pc[b] /\ work'[b] = work[b] /\ msg'[b] = msg[b]
    /\ result'[b] = result[b]
    /\ \A t \in Thread : checkpoint'[Key(b, t)] = checkpoint[Key(b, t)]

-----------------------------------------------------------------------------
LEMMA StateLemma ==
    /\ State = [messages : Seq(Entry), next : NextAgent]
    /\ None \in NextAgent
  BY DEF State, NextAgent

LEMMA AgentInvInit == Init => AgentInv
  <1> SUFFICES ASSUME Init PROVE AgentInv
    OBVIOUS
  <1>1. << >> \in Seq(Entry) /\ DOMAIN << >> = {}
    BY EmptySeq
  <1>2. NoState \in State /\ NoState.messages = << >>
    BY <1>1, StateLemma DEF NoState
  <1>3. TypeOK /\ LocalsOK
    BY <1>2 DEF Init, TypeOK, LocalsOK, PC
  <1>4. AnswerRemembered
    BY DEF Init, AnswerRemembered
  <1>5. ASSUME NEW a \in Agent PROVE AgentOK(a)
    BY <1>1, <1>2
       DEF Init, AgentOK, WorkOK, InGraph, AnsweredOK, ResultOK, Ordered, Key
  <1> QED
    BY <1>3, <1>4, <1>5 DEF AgentInv

LEMMA KeyLemma ==
    ASSUME TypeOK, NEW a \in Agent, pc[a] # "free"
    PROVE  /\ msg[a] \in Message /\ For[msg[a]] = a /\ On[msg[a]] \in Thread
           /\ KeyOf(a) = Key(a, On[msg[a]]) /\ KeyOf(a) \in Agent \X Thread
           /\ checkpoint[KeyOf(a)] \in State
           /\ checkpoint[KeyOf(a)].messages \in Seq(Entry)
           /\ checkpoint[KeyOf(a)].next \in NextAgent
  <1>1. /\ msg[a] \in Message /\ For[msg[a]] = a /\ On[msg[a]] \in Thread
        /\ KeyOf(a) = <<a, On[msg[a]]>>
    BY AgentAssumption DEF TypeOK, KeyOf, Key
  <1>2. checkpoint[KeyOf(a)] \in State
    BY <1>1 DEF TypeOK
  <1> QED
    BY <1>1, <1>2, StateLemma DEF Key

LEMMA WorkType ==
    ASSUME TypeOK, NEW a \in Agent
    PROVE  /\ work[a] \in State /\ work[a].messages \in Seq(Entry)
           /\ work[a].next \in NextAgent
           /\ Len(work[a].messages) \in Nat
           /\ DOMAIN work[a].messages = 1 .. Len(work[a].messages)
  <1>1. work[a] \in State
    BY DEF TypeOK
  <1> QED
    BY <1>1, LenProperties, StateLemma

\* An entry is added to a conversation.
LEMMA AddLemma ==
    ASSUME NEW h \in Seq(Entry), NEW e \in Entry
    PROVE  LET g == Append(h, e)
           IN  /\ g \in Seq(Entry) /\ Len(h) \in Nat /\ Len(g) = Len(h) + 1
               /\ DOMAIN h = 1 .. Len(h) /\ DOMAIN g = 1 .. (Len(h) + 1)
               /\ g[Len(h) + 1] = e /\ \A i \in DOMAIN h : g[i] = h[i]
  BY AppendProperties, LenProperties

LEMMA OrderedLemma ==
    ASSUME NEW h \in Seq(Entry), NEW e \in Entry, NEW a, Ordered(h, a), For[e.of] = a,
           e.kind = "human" \/ (Len(h) > 0 /\ h[Len(h)].of = e.of)
    PROVE  Ordered(Append(h, e), a)
  <1> DEFINE g == Append(h, e)
  <1>1. /\ Len(h) \in Nat /\ DOMAIN h = 1 .. Len(h) /\ DOMAIN g = 1 .. (Len(h) + 1)
        /\ g[Len(h) + 1] = e /\ \A i \in DOMAIN h : g[i] = h[i]
    BY AddLemma
  <1> HIDE DEF g
  <1>2. g[1].kind = "human"
    <2>1. CASE Len(h) = 0
      BY <1>1, <2>1
    <2>2. CASE Len(h) > 0
      BY <1>1, <2>2 DEF Ordered
    <2> QED
      BY <1>1, <2>1, <2>2
  <1>3. ASSUME NEW i \in DOMAIN g
        PROVE  /\ (i > 1 /\ g[i].kind # "human") => g[i].of = g[i - 1].of
               /\ For[g[i].of] = a
    <2>1. CASE i = Len(h) + 1
      <3>1. Len(h) > 0 => g[i - 1] = h[Len(h)]
        BY <1>1, <2>1
      <3> QED
        BY <1>1, <2>1, <3>1
    <2>2. CASE i \in DOMAIN h
      <3>1. i > 1 => i - 1 \in DOMAIN h
        BY <1>1, <2>2
      <3> QED
        BY <1>1, <2>2, <3>1 DEF Ordered
    <2> QED
      BY <1>1, <2>1, <2>2
  <1>4. Ordered(g, a)
    BY <1>2, <1>3 DEF Ordered
  <1> QED
    BY <1>4 DEF g

\* A conversation that continues another recalls what that one does.
LEMMA RecallsLemma ==
    ASSUME NEW c \in Seq(Entry), NEW h \in Seq(Entry), NEW m, Recalls(c, m),
           Len(c) <= Len(h), \A i \in DOMAIN c : h[i] = c[i]
    PROVE  Recalls(h, m)
  <1>1. DOMAIN c \subseteq DOMAIN h
    BY LenProperties
  <1> QED
    BY <1>1 DEF Recalls

\* An agent that does nothing.
LEMMA AgentKept ==
    ASSUME TypeOK, NEW b \in Agent, AgentOK(b), SameAgent(b)
    PROVE  AgentOK(b)'
  <1>1. InGraph(b)' = InGraph(b) /\ Key(b, On[msg[b]])' = Key(b, On[msg[b]])
    BY DEF SameAgent, InGraph, Key
  <1>2. pc[b] # "free" => /\ KeyOf(b)' = KeyOf(b)
                          /\ checkpoint'[KeyOf(b)] = checkpoint[KeyOf(b)]
    BY <1>1, KeyLemma DEF SameAgent, KeyOf
  <1>3. WorkOK(b)'
    BY <1>1, <1>2 DEF AgentOK, WorkOK, SameAgent, InGraph
  <1>4. AnsweredOK(b)' /\ ResultOK(b)'
    BY <1>1, <1>2 DEF AgentOK, AnsweredOK, ResultOK, SameAgent
  <1>5. \A t \in Thread : Ordered(checkpoint'[Key(b, t)].messages, b)
    BY DEF AgentOK, SameAgent
  <1> QED
    BY <1>3, <1>4, <1>5 DEF AgentOK, Key

\* A step of one agent that writes no checkpoint and acknowledges nothing.
LEMMA AgentStepKeeps ==
    ASSUME AgentInv, NEW a \in Agent, UNCHANGED <<checkpoint, processed>>,
           \A b \in Agent \ {a} : SameAgent(b), TypeOK', LocalsOK',
           WorkOK(a)', AnsweredOK(a)', ResultOK(a)'
    PROVE  AgentInv'
  <1>1. AnswerRemembered'
    BY DEF AgentInv, AnswerRemembered, History, Key
  <1>2. AgentOK(a)'
    BY DEF AgentInv, AgentOK, Key
  <1> QED
    BY <1>1, <1>2, AgentKept DEF AgentInv

-----------------------------------------------------------------------------
\* What the steps do to the variables that no conversation is about.
FdTypeOK == fd2 \in {"console", "log"} /\ saved \in [Agent -> {"console", "log", None}]

LEMMA RestoreLemma ==
    ASSUME FdTypeOK, NEW a \in Agent, Restore(a),
           a \in Tooled => saved[a] # None
    PROVE  FdTypeOK'
  BY DEF Restore, FdTypeOK, fdVars

\* Between opening the MCP clients and the finally block the saved descriptor
\* is there.
InRun(a) == pc[a] = "connect" \/ pc[a] = "input" \/ InGraph(a)
SavedOK == \A a \in Tooled : InRun(a) => saved[a] # None

LEMMA SavedInit == Init => SavedOK
  BY AgentAssumption DEF Init, SavedOK, InRun, InGraph

LEMMA SavedNext == TypeOK /\ SavedOK /\ [Next]_agentVars => SavedOK'
  <1> SUFFICES ASSUME TypeOK, SavedOK, [Next]_agentVars, NEW b \in Tooled, InRun(b)'
               PROVE  saved'[b] # None
    BY DEF SavedOK
  <1>1. b \in Agent /\ pc \in [Agent -> PC]
        /\ saved \in [Agent -> {"console", "log", None}] /\ fd2 \in {"console", "log"}
    BY AgentAssumption DEF TypeOK
  <1>2. InRun(b) => saved[b] # None
    BY DEF SavedOK
  <1>3. ASSUME NEW a \in Agent, Begin(a) PROVE saved'[b] # None
    <2>1. CASE a = b
      BY <1>1, <1>3, <2>1, AgentAssumption DEF Begin
    <2>2. CASE a # b
      BY <1>1, <1>2, <1>3, <2>2 DEF Begin, Goto, InRun, InGraph, fdVars
    <2> QED
      BY <2>1, <2>2
  <1>4. ASSUME NEW a \in Agent, Return(a) \/ Raise(a) PROVE saved'[b] # None
    <2>1. a # b
      BY <1>1, <1>4 DEF Return, Raise, Release, Goto, InRun, InGraph
    <2> QED
      BY <1>1, <1>2, <1>4, <2>1
         DEF Return, Raise, Release, Restore, Goto, InRun, InGraph, fdVars
  <1>5. ASSUME NEW a \in Agent,
               Connected(a) \/ Input(a) \/ Write(a) \/ ModelAnswers(a) \/ RecordCost(a)
                 \/ NodeReturns(a) \/ RunTools(a) \/ Route(a) \/ Act(a)
        PROVE  saved'[b] # None
    <2>1. UNCHANGED saved
      BY <1>5 DEF Connected, Input, Write, ModelAnswers, RecordCost, NodeReturns,
             RunTools, Route, Act, fdVars
    <2>2. InRun(b)
      BY <1>1, <1>5 DEF Connected, Input, Write, ModelAnswers, RecordCost, NodeReturns,
             RunTools, Route, Act, Release, Goto, InRun, InGraph
    <2> QED
      BY <1>2, <2>1, <2>2
  <1>6. ~Restart
    BY <1>1 DEF Restart, InRun, InGraph
  <1>7. CASE UNCHANGED agentVars
    BY <1>2, <1>7 DEF agentVars, fdVars, InRun, InGraph
  <1> QED
    BY <1>3, <1>4, <1>5, <1>6, <1>7 DEF Next

-----------------------------------------------------------------------------
\* Steps outside the graph.
LEMMA OutsideGraph ==
    ASSUME AgentInv, SavedOK, NEW a \in Agent,
           Begin(a) \/ Connected(a) \/ Raise(a)
    PROVE  AgentInv'
  <1> USE DEF AgentInv, graphVars, fdVars
  <1>1. UNCHANGED <<checkpoint, processed, routed>>
    BY DEF Begin, Connected, Raise
  <1>2. /\ \A b \in Agent \ {a} : SameAgent(b)
        /\ pc'[a] \in {"free", "connect", "input"} /\ pc' \in [Agent -> PC] /\ LocalsOK'
        /\ \A b \in Agent \ {a} : msg'[b] = msg[b] /\ pc'[b] = pc[b]
    BY DEF Begin, Connected, Raise, Release, Goto, SameAgent, TypeOK, PC, LocalsOK
  <1>3. pc'[a] # "free" => msg'[a] \in Message /\ For[msg'[a]] = a
    BY DEF Begin, Connected, Raise, Release, Goto, TypeOK, LocalsOK
  <1>4. work' \in [Agent -> State]
    <2>1. NoState \in State
      BY EmptySeq, StateLemma DEF NoState
    <2> QED
      BY <2>1 DEF Begin, Connected, Raise, Release, TypeOK
  <1>5. FdTypeOK'
    <2>1. CASE Raise(a)
      BY <2>1, RestoreLemma DEF Raise, SavedOK, InRun, InGraph, TypeOK, FdTypeOK
    <2>2. CASE Begin(a) \/ Connected(a)
      BY <2>2 DEF Begin, Connected, TypeOK, FdTypeOK
    <2> QED
      BY <2>1, <2>2
  <1>6. TypeOK'
    BY <1>1, <1>2, <1>3, <1>4, <1>5 DEF TypeOK, FdTypeOK
  <1>7. WorkOK(a)' /\ AnsweredOK(a)' /\ ResultOK(a)'
    BY <1>2 DEF WorkOK, AnsweredOK, ResultOK, InGraph
  <1> QED
    BY <1>1, <1>2, <1>6, <1>7, AgentStepKeeps

\* The question is added to what the checkpoint holds.
LEMMA InputKeeps ==
    ASSUME AgentInv, NEW a \in Agent, Input(a)
    PROVE  AgentInv'
  <1> USE DEF AgentInv
  <1>1. /\ UNCHANGED <<checkpoint, msg, calls, result, decided, routed, processed,
                       begun, fd2, saved>>
        /\ pc[a] = "input" /\ pc' = [pc EXCEPT ![a] = "llm"]
    BY DEF Input, Goto, fdVars
  <1> DEFINE cp == checkpoint[KeyOf(a)]
             c == cp.messages
             e == [kind |-> "human", of |-> msg[a]]
             h == Append(c, e)
  <1>2. /\ msg[a] \in Message /\ For[msg[a]] = a /\ c \in Seq(Entry)
        /\ cp \in State /\ KeyOf(a) = Key(a, On[msg[a]]) /\ On[msg[a]] \in Thread
    BY <1>1, KeyLemma
  <1>3. e \in Entry
    BY <1>2 DEF Entry, Kinds
  <1>4. work' = [work EXCEPT ![a] = [cp EXCEPT !.messages = h]]
    BY DEF Input
  <1>5. [cp EXCEPT !.messages = h] \in State
        /\ [cp EXCEPT !.messages = h].messages = h
    BY <1>2, <1>3, AddLemma, StateLemma
  <1>6. work' \in [Agent -> State] /\ work'[a].messages = h
        /\ \A b \in Agent \ {a} : work'[b] = work[b]
    BY <1>4, <1>5 DEF TypeOK
  <1>7. TypeOK' /\ LocalsOK' /\ pc'[a] = "llm"
    BY <1>1, <1>6 DEF TypeOK, LocalsOK, PC
  <1>8. \A b \in Agent \ {a} : SameAgent(b)
    BY <1>1, <1>6 DEF SameAgent, TypeOK
  <1>9. Ordered(h, a)
    BY <1>2, <1>3, OrderedLemma DEF AgentOK
  <1>10. /\ Len(c) <= Len(h) /\ \A i \in DOMAIN c : h[i] = c[i]
         /\ Len(h) > 0 /\ h[Len(h)] = e /\ Len(h) \in DOMAIN h
    BY <1>2, <1>3, AddLemma
  <1> HIDE DEF h
  <1>11. KeyOf(a)' = KeyOf(a)
    BY <1>1 DEF KeyOf, Key
  <1>12. WorkOK(a)'
    BY <1>1, <1>6, <1>7, <1>9, <1>10, <1>11 DEF WorkOK
  <1>13. AnsweredOK(a)' /\ ResultOK(a)'
    BY <1>7 DEF AnsweredOK, ResultOK
  <1> QED
    BY <1>1, <1>7, <1>8, <1>12, <1>13, AgentStepKeeps

\* The model answers: its result is there, and not yet in the conversation.
LEMMA ModelKeeps ==
    ASSUME AgentInv, NEW a \in Agent, ModelAnswers(a)
    PROVE  AgentInv'
  <1> USE DEF AgentInv
  <1>1. /\ UNCHANGED <<checkpoint, work, msg, calls, decided, routed, processed,
                       begun, fd2, saved>>
        /\ pc[a] = "llm" /\ pc' = [pc EXCEPT ![a] = "record"]
    BY DEF ModelAnswers, Goto, graphVars, fdVars
  <1>2. PICK k \in {"ai", "empty", "call"} :
          result' = [result EXCEPT ![a] = [kind |-> k, next |-> None]]
    BY DEF ModelAnswers, Answers
  <1>3. TypeOK' /\ LocalsOK' /\ pc'[a] = "record" /\ \A b \in Agent \ {a} : SameAgent(b)
    BY <1>1, <1>2 DEF TypeOK, LocalsOK, PC, SameAgent
  <1>4. ResultOK(a)'
    <2>1. result'[a] = [kind |-> k, next |-> None]
      BY <1>2 DEF LocalsOK
    <2> QED
      BY <2>1, StateLemma DEF ResultOK
  <1>5. WorkOK(a)' /\ AnsweredOK(a)'
    BY <1>1, <1>3 DEF AgentOK, WorkOK, AnsweredOK, InGraph, KeyOf, Key
  <1> QED
    BY <1>1, <1>3, <1>4, <1>5, AgentStepKeeps

\* A node of the graph adds an entry about the message.
LEMMA NodeKeeps ==
    ASSUME AgentInv, NEW a \in Agent, InGraph(a), NEW kind \in Kinds, Add(a, kind),
           UNCHANGED <<checkpoint, msg, result, decided, routed, processed, fd2, saved>>,
           NEW label \in {"llm", "tools", "route", "finish"},
           pc' = [pc EXCEPT ![a] = label],
           label \in {"route", "finish"} /\ result[a].kind = "ai" => kind = "ai",
           label # "llm" => pc[a] = "costed"
    PROVE  AgentInv'
  <1> USE DEF AgentInv
  <1> DEFINE c == checkpoint[KeyOf(a)].messages
             h == work[a].messages
             e == [kind |-> kind, of |-> msg[a]]
             g == Append(h, e)
  <1>1. /\ msg[a] \in Message /\ For[msg[a]] = a /\ c \in Seq(Entry) /\ h \in Seq(Entry)
        /\ Len(c) \in Nat /\ DOMAIN c = 1 .. Len(c)
    BY KeyLemma, WorkType, LenProperties DEF InGraph
  <1>2. e \in Entry
    BY <1>1 DEF Entry
  <1>3. /\ Len(c) <= Len(h) /\ \A i \in DOMAIN c : h[i] = c[i]
        /\ Len(h) > 0 /\ h[Len(h)].of = msg[a] /\ Ordered(h, a)
        /\ \E i \in DOMAIN h : h[i] = [kind |-> "human", of |-> msg[a]]
    BY DEF AgentOK, WorkOK
  <1>4. /\ g \in Seq(Entry) /\ Len(h) \in Nat /\ Len(g) = Len(h) + 1
        /\ DOMAIN h = 1 .. Len(h) /\ DOMAIN g = 1 .. (Len(h) + 1)
        /\ g[Len(h) + 1] = e /\ \A i \in DOMAIN h : g[i] = h[i]
    BY <1>1, <1>2, AddLemma
  <1>5. Ordered(g, a)
    BY <1>1, <1>2, <1>3, OrderedLemma
  <1>6. work' = [work EXCEPT ![a] = [work[a] EXCEPT !.messages = g]]
    BY DEF Add
  <1>7. work' \in [Agent -> State] /\ work'[a].messages = g
        /\ \A b \in Agent \ {a} : work'[b] = work[b]
    <2>1. [work[a] EXCEPT !.messages = g] \in State
          /\ [work[a] EXCEPT !.messages = g].messages = g
      BY <1>4, WorkType, StateLemma
    <2> QED
      BY <1>6, <2>1 DEF TypeOK
  <1> HIDE DEF g
  <1>8. TypeOK' /\ LocalsOK' /\ pc'[a] = label
    BY <1>1, <1>7 DEF TypeOK, LocalsOK, PC
  <1>9. \A b \in Agent \ {a} : SameAgent(b)
    BY <1>7 DEF SameAgent, TypeOK
  <1>10. \E i \in DOMAIN g : g[i] = [kind |-> "human", of |-> msg[a]]
    BY <1>3, <1>4
  <1>11. kind = "ai" => Recalls(g, msg[a])
    <2>1. PICK i \in DOMAIN h : h[i] = [kind |-> "human", of |-> msg[a]]
      BY <1>3
    <2>2. /\ i < Len(h) + 1 /\ i \in DOMAIN g /\ Len(h) + 1 \in DOMAIN g
          /\ g[i] = [kind |-> "human", of |-> msg[a]]
      BY <1>4, <2>1
    <2> QED
      BY <1>4, <2>2 DEF Recalls
  <1>12. WorkOK(a)'
    <2>1. checkpoint'[KeyOf(a)'].messages = c
      BY DEF KeyOf, Key
    <2>2. /\ Len(c) <= Len(g) /\ \A i \in DOMAIN c : g[i] = c[i]
          /\ Len(g) > 0 /\ g[Len(g)].of = msg[a]
      BY <1>1, <1>3, <1>4
    <2> HIDE DEF c
    <2>3. label \in {"route", "finish"} /\ result[a].kind = "ai" => Recalls(g, msg[a])
      BY <1>11
    <2> QED
      BY <1>5, <1>7, <1>8, <1>10, <2>1, <2>2, <2>3 DEF WorkOK
  <1>13. AnsweredOK(a)'
    BY <1>8 DEF AnsweredOK
  <1>14. ResultOK(a)'
    BY <1>8 DEF AgentOK, ResultOK
  <1> QED
    BY <1>8, <1>9, <1>12, <1>13, <1>14, AgentStepKeeps

\* The ledger is another file: nothing of the conversation changes.
LEMMA CostKeeps ==
    ASSUME AgentInv, NEW a \in Agent, RecordCost(a)
    PROVE  AgentInv'
  <1> USE DEF AgentInv
  <1>1. /\ UNCHANGED <<checkpoint, work, msg, calls, result, decided, routed,
                       processed, begun, fd2, saved>>
        /\ pc[a] = "record" /\ pc' = [pc EXCEPT ![a] = "costed"]
    BY DEF RecordCost, Goto, graphVars, fdVars
  <1>2. TypeOK' /\ LocalsOK' /\ pc'[a] = "costed" /\ \A b \in Agent \ {a} : SameAgent(b)
    BY <1>1 DEF TypeOK, LocalsOK, PC, SameAgent
  <1>3. WorkOK(a)' /\ AnsweredOK(a)' /\ ResultOK(a)'
    BY <1>1, <1>2 DEF AgentOK, WorkOK, AnsweredOK, ResultOK, InGraph, KeyOf, Key
  <1> QED
    BY <1>1, <1>2, <1>3, AgentStepKeeps

LEMMA NodesKeep ==
    ASSUME AgentInv, NEW a \in Agent, NodeReturns(a) \/ RunTools(a)
    PROVE  AgentInv'
  <1>1. CASE NodeReturns(a)
    <2>1. pc[a] = "costed" /\ result[a].kind \in {"ai", "empty", "call"}
      BY <1>1 DEF NodeReturns, AgentInv, AgentOK, ResultOK
    <2>2. PICK label \in {"tools", "route", "finish"} : label = AfterLLM(a, result[a].kind)
      BY <2>1 DEF AfterLLM
    <2>3. Add(a, result[a].kind) /\ pc' = [pc EXCEPT ![a] = label]
          /\ UNCHANGED <<checkpoint, msg, result, decided, routed, processed, fd2, saved>>
      BY <1>1, <2>2 DEF NodeReturns, Goto, fdVars
    <2> QED
      BY <2>1, <2>3, NodeKeeps DEF InGraph, Kinds
  <1>2. CASE RunTools(a)
    <2>1. /\ pc[a] = "tools" /\ Add(a, "tool") /\ pc' = [pc EXCEPT ![a] = "llm"]
          /\ UNCHANGED <<checkpoint, msg, result, decided, routed, processed, fd2, saved>>
      BY <1>2 DEF RunTools, Goto, fdVars
    <2> QED
      BY <2>1, NodeKeeps DEF InGraph, Kinds
  <1> QED
    BY <1>1, <1>2

LEMMA RouteKeeps ==
    ASSUME AgentInv, NEW a \in Agent, Route(a)
    PROVE  AgentInv'
  <1> USE DEF AgentInv
  <1>1. PICK d \in Routes[a] :
          /\ decided' = [decided EXCEPT ![a] = d]
          /\ work' = [work EXCEPT ![a] = [work[a] EXCEPT !.next = d]]
    BY DEF Route
  <1>2. /\ UNCHANGED <<checkpoint, msg, calls, result, routed, processed, begun, fd2,
                       saved>>
        /\ pc[a] = "route" /\ pc' = [pc EXCEPT ![a] = "finish"]
    BY DEF Route, Goto, fdVars
  <1>3. [work[a] EXCEPT !.next = d] \in State
        /\ [work[a] EXCEPT !.next = d].messages = work[a].messages
    <2>1. d \in NextAgent
      BY DEF NextAgent
    <2> QED
      BY <2>1, WorkType, StateLemma
  <1>4. work' \in [Agent -> State] /\ work'[a].messages = work[a].messages
        /\ \A b \in Agent \ {a} : work'[b] = work[b]
    BY <1>1, <1>3 DEF TypeOK
  <1>5. TypeOK' /\ LocalsOK' /\ pc'[a] = "finish"
    BY <1>1, <1>2, <1>4 DEF TypeOK, LocalsOK, PC
  <1>6. \A b \in Agent \ {a} : SameAgent(b)
    BY <1>2, <1>4 DEF SameAgent, TypeOK
  <1>7. KeyOf(a)' = KeyOf(a)
    BY <1>2 DEF KeyOf, Key
  <1>8. WorkOK(a)' /\ AnsweredOK(a)' /\ ResultOK(a)'
    BY <1>2, <1>4, <1>5, <1>7 DEF AgentOK, WorkOK, AnsweredOK, ResultOK, InGraph
  <1> QED
    BY <1>2, <1>5, <1>6, <1>8, AgentStepKeeps

\* run returns what is in the checkpoint.
LEMMA ReturnKeeps ==
    ASSUME AgentInv, SavedOK, NEW a \in Agent, Return(a)
    PROVE  AgentInv'
  <1> USE DEF AgentInv
  <1>1. /\ UNCHANGED <<checkpoint, work, msg, calls, decided, routed, processed, begun>>
        /\ pc[a] = "finish" /\ pc' = [pc EXCEPT ![a] = "answered"]
        /\ result' = [result EXCEPT ![a] = [result[a] EXCEPT !.next = work[a].next]]
        /\ Restore(a) /\ checkpoint[KeyOf(a)] = work[a]
    BY DEF Return, Goto, graphVars, Written
  <1>2. FdTypeOK'
    BY <1>1, RestoreLemma DEF SavedOK, InRun, InGraph, TypeOK, FdTypeOK
  <1>3. TypeOK' /\ LocalsOK' /\ pc'[a] = "answered"
    BY <1>1, <1>2 DEF TypeOK, LocalsOK, PC, FdTypeOK
  <1>4. \A b \in Agent \ {a} : SameAgent(b)
    BY <1>1 DEF SameAgent, TypeOK, LocalsOK
  <1>5. /\ result'[a] \in [kind : {"ai", "empty", "call"}, next : NextAgent]
        /\ result'[a].kind = result[a].kind
    <2>1. /\ result[a] \in [kind : {"ai", "empty", "call"}, next : NextAgent]
          /\ result'[a] = [result[a] EXCEPT !.next = work[a].next]
      BY <1>1 DEF AgentOK, ResultOK, LocalsOK
    <2> QED
      BY <2>1, WorkType
  <1>6. KeyOf(a)' = KeyOf(a)
    BY <1>1 DEF KeyOf, Key
  <1>7. AnsweredOK(a)'
    BY <1>1, <1>5, <1>6 DEF AgentOK, WorkOK, InGraph, AnsweredOK
  <1>8. WorkOK(a)' /\ ResultOK(a)'
    BY <1>3, <1>5 DEF WorkOK, InGraph, ResultOK
  <1> QED
    BY <1>1, <1>3, <1>4, <1>7, <1>8, AgentStepKeeps

\* The writer brings a checkpoint up to date: nothing in it is forgotten.
LEMMA WriteKeeps ==
    ASSUME AgentInv, NEW a \in Agent, Write(a)
    PROVE  AgentInv'
  <1> USE DEF AgentInv
  <1>1. /\ UNCHANGED <<work, pc, msg, calls, result, decided, routed, processed, begun,
                       fd2, saved>>
        /\ checkpoint' = [checkpoint EXCEPT ![KeyOf(a)] = work[a]] /\ InGraph(a)
    BY DEF Write, fdVars, InGraph
  <1>2. /\ msg[a] \in Message /\ For[msg[a]] = a
        /\ KeyOf(a) = Key(a, On[msg[a]]) /\ KeyOf(a) \in Agent \X Thread
        /\ checkpoint[KeyOf(a)].messages \in Seq(Entry)
        /\ work[a] \in State /\ work[a].messages \in Seq(Entry)
    BY <1>1, KeyLemma, WorkType DEF InGraph
  <1>3. checkpoint'[KeyOf(a)] = work[a]
        /\ \A k \in Agent \X Thread : k # KeyOf(a) => checkpoint'[k] = checkpoint[k]
    BY <1>1, <1>2 DEF TypeOK
  <1>4. TypeOK' /\ LocalsOK'
    BY <1>1, <1>2 DEF TypeOK, LocalsOK
  <1>5. ASSUME NEW b \in Agent \ {a} PROVE SameAgent(b)
    <2>1. \A t \in Thread : Key(b, t) \in Agent \X Thread /\ Key(b, t) # KeyOf(a)
      BY <1>2 DEF Key
    <2> QED
      BY <1>1, <1>3, <2>1 DEF SameAgent
  <1> DEFINE c == checkpoint[KeyOf(a)].messages
             h == work[a].messages
  <1>6. /\ Len(c) <= Len(h) /\ \A i \in DOMAIN c : h[i] = c[i]
        /\ Ordered(h, a)
    BY <1>1 DEF AgentOK, WorkOK
  <1>7. AnswerRemembered'
    <2> SUFFICES ASSUME NEW m \in processed
                 PROVE  Recalls(checkpoint'[Key(For[m], On[m])].messages, m)
      BY <1>1 DEF AnswerRemembered, Recalls, History, Key
    <2>1. Recalls(checkpoint[Key(For[m], On[m])].messages, m)
      BY DEF AnswerRemembered, Recalls, History
    <2>2. CASE Key(For[m], On[m]) = KeyOf(a)
      BY <1>2, <1>3, <1>6, <2>1, <2>2, RecallsLemma
    <2>3. CASE Key(For[m], On[m]) # KeyOf(a)
      <3>1. m \in Message /\ Key(For[m], On[m]) \in Agent \X Thread
        BY AgentAssumption DEF TypeOK, Key
      <3> QED
        BY <1>3, <2>1, <2>3, <3>1
    <2> QED
      BY <2>2, <2>3
  <1>8. AgentOK(a)'
    <2>1. KeyOf(a)' = KeyOf(a)
      BY <1>1 DEF KeyOf, Key
    <2>2. WorkOK(a)'
      <3>1. /\ checkpoint'[KeyOf(a)].messages = h /\ Len(h) <= Len(h)
        BY <1>2, <1>3, LenProperties
      <3> QED
        BY <1>1, <2>1, <3>1 DEF AgentOK, WorkOK, InGraph
    <2>3. AnsweredOK(a)' /\ ResultOK(a)'
      BY <1>1 DEF AgentOK, AnsweredOK, ResultOK, InGraph
    <2>4. ASSUME NEW t \in Thread PROVE Ordered(checkpoint'[Key(a, t)].messages, a)
      <3>1. CASE Key(a, t) = KeyOf(a)
        BY <1>3, <1>6, <3>1
      <3>2. CASE Key(a, t) # KeyOf(a)
        BY <1>3, <3>2 DEF AgentOK, Key
      <3> QED
        BY <3>1, <3>2
    <2> QED
      BY <2>2, <2>3, <2>4 DEF AgentOK, Key
  <1> QED
    BY <1>4, <1>5, <1>7, <1>8, AgentKept

\* A message is acknowledged with its answer in the checkpoint.
LEMMA ActKeeps ==
    ASSUME AgentInv, NEW a \in Agent, Act(a)
    PROVE  AgentInv'
  <1> USE DEF AgentInv
  <1>1. /\ UNCHANGED <<checkpoint, routed, fd2, saved>> /\ pc[a] = "answered"
        /\ Release(a)
        /\ processed' = IF result[a].kind = "ai" THEN processed \cup {msg[a]}
                                                 ELSE processed
    BY DEF Act, fdVars
  <1>2. /\ pc' = [pc EXCEPT ![a] = "free"] /\ msg' = [msg EXCEPT ![a] = None]
        /\ result' = [result EXCEPT ![a] = None] /\ decided' = [decided EXCEPT ![a] = None]
        /\ work' = [work EXCEPT ![a] = NoState]
    BY <1>1 DEF Release, Goto
  <1>3. /\ msg[a] \in Message /\ For[msg[a]] = a /\ KeyOf(a) = Key(a, On[msg[a]])
    BY <1>1, KeyLemma
  <1>4. NoState \in State
    BY EmptySeq, StateLemma DEF NoState
  <1>5. TypeOK' /\ LocalsOK'
    BY <1>1, <1>2, <1>3, <1>4 DEF TypeOK, LocalsOK, PC
  <1>6. \A b \in Agent \ {a} : SameAgent(b)
    BY <1>1, <1>2 DEF SameAgent, TypeOK, LocalsOK
  <1>7. AnswerRemembered'
    <2> SUFFICES ASSUME NEW m \in processed'
                 PROVE  Recalls(checkpoint[Key(For[m], On[m])].messages, m)
      BY <1>1 DEF AnswerRemembered, Recalls, History, Key
    <2>1. CASE m \in processed
      BY <2>1 DEF AnswerRemembered, Recalls, History
    <2>2. CASE m = msg[a] /\ result[a].kind = "ai"
      BY <1>1, <1>3, <2>2 DEF AgentOK, AnsweredOK
    <2> QED
      BY <1>1, <2>1, <2>2
  <1>8. AgentOK(a)'
    <2>1. pc'[a] = "free"
      BY <1>2 DEF TypeOK
    <2> QED
      BY <1>1, <2>1 DEF AgentOK, WorkOK, AnsweredOK, ResultOK, InGraph, Key
  <1> QED
    BY <1>5, <1>6, <1>7, <1>8, AgentKept

\* A crash loses every working copy and no checkpoint.
LEMMA RestartKeeps ==
    ASSUME AgentInv, Restart
    PROVE  AgentInv'
  <1> USE DEF AgentInv
  <1>1. /\ UNCHANGED <<checkpoint, processed>> /\ pc' = [a \in Agent |-> "free"]
        /\ msg' = [a \in Agent |-> None] /\ result' = [a \in Agent |-> None]
        /\ decided' = [a \in Agent |-> None] /\ work' = [a \in Agent |-> NoState]
        /\ fd2' = "console" /\ saved' = [a \in Agent |-> None]
    BY DEF Restart
  <1>2. routed' \subseteq Agent
    BY DEF Restart, TypeOK
  <1>3. NoState \in State
    BY EmptySeq, StateLemma DEF NoState
  <1>4. TypeOK' /\ LocalsOK'
    BY <1>1, <1>2, <1>3 DEF TypeOK, LocalsOK, PC
  <1>5. AnswerRemembered'
    BY <1>1 DEF AnswerRemembered, History, Key
  <1>6. \A a \in Agent : AgentOK(a)'
    BY <1>1 DEF AgentOK, WorkOK, AnsweredOK, ResultOK, InGraph, Key
  <1> QED
    BY <1>4, <1>5, <1>6

-----------------------------------------------------------------------------
LEMMA AgentInvNext == AgentInv /\ SavedOK /\ [Next]_agentVars => AgentInv'
  <1> SUFFICES ASSUME AgentInv, SavedOK, [Next]_agentVars PROVE AgentInv'
    OBVIOUS
  <1>1. CASE UNCHANGED agentVars
    <2>1. UNCHANGED <<checkpoint, work, pc, msg, result, decided, routed, processed,
                      fd2, saved>>
      BY <1>1 DEF agentVars, graphVars, fdVars
    <2>2. \A b \in Agent : SameAgent(b)
      BY <2>1 DEF SameAgent
    <2>3. TypeOK'
      BY <2>1 DEF AgentInv, TypeOK
    <2>4. LocalsOK'
      BY <2>1 DEF AgentInv, LocalsOK
    <2>5. AnswerRemembered'
      BY <2>1 DEF AgentInv, AnswerRemembered, History, Key
    <2> QED
      BY <2>2, <2>3, <2>4, <2>5, AgentKept DEF AgentInv
  <1>2. ASSUME NEW a \in Agent, NodeReturns(a) \/ RunTools(a) PROVE AgentInv'
    BY <1>2, NodesKeep
  <1>3. ASSUME NEW a \in Agent, Begin(a) \/ Connected(a) \/ Raise(a) PROVE AgentInv'
    BY <1>3, OutsideGraph
  <1> QED
    BY <1>1, <1>2, <1>3, InputKeeps, ModelKeeps, CostKeeps, RouteKeeps, ReturnKeeps,
       WriteKeeps,
       ActKeeps, RestartKeeps DEF Next

LEMMA AgentInvAlways == Spec => [](AgentInv /\ SavedOK)
  <1>1. AgentInv => TypeOK
    BY DEF AgentInv
  <1> QED
    BY <1>1, AgentInvInit, AgentInvNext, SavedInit, SavedNext, PTL DEF Spec

\* An agent that works holds a message addressed to it, and what it has saved
\* of file descriptor 2 is there when it restores it.
THEOREM AgentTypeCorrect == Spec => []TypeOK
  <1>1. AgentInv => TypeOK
    BY DEF AgentInv
  <1> QED
    BY <1>1, AgentInvAlways, PTL

\* What the runner has acknowledged is in the agent's conversation on disk,
\* question and answer, whatever fails or is killed and whenever the
\* checkpointer's writer runs: run returns when the writer has caught up.
THEOREM AnswerRememberedCorrect == Spec => []AnswerRemembered
  <1>1. AgentInv => AnswerRemembered
    BY DEF AgentInv
  <1> QED
    BY <1>1, AgentInvAlways, PTL

\* Every conversation on disk is a sequence of questions, each with what was
\* said to it: attempts that failed and other agents on the same thread leave
\* nothing in between.
THEOREM ConversationInOrderCorrect == Spec => []ConversationInOrder
  <1>1. AgentInv => ConversationInOrder
    <2> SUFFICES ASSUME AgentInv, NEW k \in DOMAIN checkpoint,
                        NEW i \in DOMAIN checkpoint[k].messages
                 PROVE  LET h == checkpoint[k].messages
                        IN  /\ h[1].kind = "human"
                            /\ (i > 1 /\ h[i].kind # "human") => h[i].of = h[i - 1].of
                            /\ For[h[i].of] = k[1]
      BY DEF ConversationInOrder
    <2>1. k \in Agent \X Thread
      BY DEF AgentInv, TypeOK
    <2>2. k[1] \in Agent /\ k[2] \in Thread /\ k = Key(k[1], k[2])
      BY <2>1 DEF Key
    <2>3. Ordered(checkpoint[k].messages, k[1])
      BY <2>2 DEF AgentInv, AgentOK
    <2> QED
      BY <2>3 DEF Ordered
  <1> QED
    BY <1>1, AgentInvAlways, PTL

-----------------------------------------------------------------------------
\* What a router decided is what the working copy and then the result hold:
\* the route node is passed in every invocation of an agent that has a router,
\* and overwrites what the checkpoint has brought along.
RouteInv ==
    \A a \in routed :
        /\ pc[a] = "finish" => decided[a] # None /\ decided[a] = work[a].next
        /\ pc[a] = "answered" => decided[a] # None /\ decided[a] = result[a].next

LEMMA RouteInvInit == Init => RouteInv
  BY DEF Init, RouteInv

LEMMA RouteInvNext ==
    ASSUME AgentInv, RouteInv, [Next]_agentVars
    PROVE  RouteInv'
  <1> USE DEF AgentInv, graphVars, fdVars
  <1>1. /\ pc \in [Agent -> PC] /\ work \in [Agent -> State] /\ routed \subseteq Agent
        /\ decided = [a \in Agent |-> decided[a]] /\ result = [a \in Agent |-> result[a]]
    BY DEF TypeOK, LocalsOK
  <1> DEFINE Decided(b) ==
                /\ pc[b] = "finish" => decided[b] # None /\ decided[b] = work[b].next
                /\ pc[b] = "answered" => decided[b] # None /\ decided[b] = result[b].next
  <1>2. ASSUME NEW b \in routed, b \in Agent, routed' = routed PROVE Decided(b)'
    <2>1. Decided(b)
      BY <1>2 DEF RouteInv
    <2>2. CASE \E a \in Agent \ {b} :
                  \/ Begin(a) \/ Connected(a) \/ Input(a) \/ Write(a)
                  \/ ModelAnswers(a) \/ RecordCost(a) \/ NodeReturns(a) \/ RunTools(a)
                  \/ Route(a) \/ Return(a) \/ Raise(a) \/ Act(a)
      <3>1. /\ pc'[b] = pc[b] /\ work'[b] = work[b] /\ decided'[b] = decided[b]
            /\ result'[b] = result[b]
        BY <1>1, <1>2, <2>2 DEF Begin, Connected, Input, Write, ModelAnswers, RecordCost,
               NodeReturns, RunTools, Route, Return, Raise, Act, Release, Add, Goto
      <3> QED
        BY <2>1, <3>1
    <2>3. CASE \/ Begin(b) \/ Connected(b) \/ Input(b) \/ ModelAnswers(b) \/ RecordCost(b)
               \/ RunTools(b) \/ Raise(b) \/ Act(b) \/ Restart
      <3>1. pc'[b] \notin {"finish", "answered"}
        BY <1>1, <1>2, <2>3 DEF Begin, Connected, Input, ModelAnswers, RecordCost, RunTools,
               Raise, Act, Restart, Release, Goto
      <3> QED
        BY <3>1
    <2>4. CASE Write(b)
      BY <2>1, <2>4 DEF Write
    <2>5. CASE NodeReturns(b)
      <3>1. result[b].kind \in {"ai", "empty", "call"}
        BY <1>2, <2>5 DEF NodeReturns, AgentOK, ResultOK
      <3>2. pc'[b] \in {"tools", "route"}
        BY <1>1, <1>2, <2>5, <3>1 DEF NodeReturns, Goto, AfterLLM
      <3> QED
        BY <3>2
    <2>6. CASE Route(b)
      <3>1. PICK d \in Routes[b] :
              /\ decided' = [decided EXCEPT ![b] = d]
              /\ work' = [work EXCEPT ![b] = [work[b] EXCEPT !.next = d]]
        BY <2>6 DEF Route
      <3>2. pc'[b] = "finish" /\ decided'[b] = d /\ work'[b].next = d
        BY <1>1, <1>2, <2>6, <3>1, WorkType, StateLemma DEF Route, Goto
      <3>3. d # None
        BY <1>2, AgentAssumption
      <3> QED
        BY <3>2, <3>3
    <2>7. CASE Return(b)
      <3>1. /\ pc[b] = "finish" /\ pc'[b] = "answered"
            /\ UNCHANGED <<work, decided>>
            /\ result' = [result EXCEPT ![b] = [result[b] EXCEPT !.next = work[b].next]]
        BY <1>1, <1>2, <2>7 DEF Return, Goto
      <3>2. result'[b].next = work[b].next
        BY <1>1, <1>2, <3>1 DEF AgentOK, ResultOK
      <3> QED
        BY <2>1, <3>1, <3>2
    <2>8. CASE UNCHANGED agentVars
      BY <2>1, <2>8 DEF agentVars
    <2> QED
      BY <2>2, <2>3, <2>4, <2>5, <2>6, <2>7, <2>8 DEF Next
  <1>3. CASE Restart
    BY <1>3 DEF Restart, RouteInv, TypeOK
  <1>4. CASE ~Restart
    <2>1. routed' = routed
      BY <1>4 DEF Next, Begin, Connected, Input, Write, ModelAnswers, RecordCost,
             NodeReturns, RunTools, Route, Return, Raise, Act, agentVars
    <2> QED
      BY <1>1, <1>2, <2>1 DEF RouteInv
  <1> QED
    BY <1>3, <1>4

\* What an agent with a router returns was decided in the same invocation,
\* however many invocations, crashed ones too, share the checkpoint, and even
\* when routers are taken out of agents.toml and put back.  (Of an agent
\* without a router it does not hold: run returns what an earlier router left
\* in the checkpoint.)
THEOREM RouteIsFreshCorrect == Spec => []RouteIsFresh
  <1>1. RouteInv => RouteIsFresh
    BY DEF RouteInv, RouteIsFresh
  <1> QED
    BY <1>1, RouteInvInit, RouteInvNext, AgentInvAlways, PTL DEF Spec

-----------------------------------------------------------------------------
(***************************************************************************)
(* The answers of the model are counted where they are or are about to be: *)
(* in the checkpoints and in the working copy, which the writer copies     *)
(* from one to the other at any time.                                      *)
(***************************************************************************)
InWork(a) == IF InGraph(a) THEN {On[msg[a]]} \X ModelAt(work[a].messages) ELSE {}
Said(a) == ModelEntries(a) \cup InWork(a)

\* Between the ledger and the return of call_llm one answer is paid for that
\* is not counted yet.
Due(a) == IF pc[a] = "costed" THEN 1 ELSE 0

Costed(a) ==
    /\ IsFiniteSet(Said(a))
    /\ Cardinality(Said(a)) + Due(a) <= recorded[a] + warned[a]

CostTypeOK == recorded \in [Agent -> Nat] /\ warned \in [Agent -> Nat]

CostInv == CostTypeOK /\ \A a \in Agent : Costed(a)

LEMMA CostInvInit == Init => CostInv
  <1> SUFFICES ASSUME Init, NEW a \in Agent
               PROVE  Costed(a)
    BY DEF CostInv, CostTypeOK, Init
  <1>1. DOMAIN << >> = {}
    BY EmptySeq
  <1>2. \A t \in Thread : ModelAt(History(a, t)) = {}
    BY <1>1 DEF Init, History, Key, NoState, ModelAt
  <1>3. Said(a) = {}
    BY <1>2 DEF Said, InWork, InGraph, Init, ModelEntries
  <1> QED
    BY <1>3, FS_EmptySet DEF Init, Costed, Due

\* Nothing new is said, and nothing is paid for.
LEMMA SaidKept ==
    ASSUME CostInv, NEW b \in Agent, Said(b)' \subseteq Said(b),
           recorded'[b] = recorded[b], warned'[b] = warned[b],
           pc'[b] = "costed" => pc[b] = "costed"
    PROVE  Costed(b)'
  <1>1. /\ IsFiniteSet(Said(b)) /\ Cardinality(Said(b)) + Due(b) <= recorded[b] + warned[b]
        /\ recorded[b] \in Nat /\ warned[b] \in Nat
    BY DEF CostInv, CostTypeOK, Costed
  <1>2. /\ IsFiniteSet(Said(b)') /\ Cardinality(Said(b)') <= Cardinality(Said(b))
        /\ Cardinality(Said(b)) \in Nat /\ Cardinality(Said(b)') \in Nat
    BY <1>1, FS_Subset, FS_CardinalityType
  <1>3. Due(b) \in Nat /\ Due(b)' \in Nat /\ Due(b)' <= Due(b)
    BY DEF Due
  <1> QED
    BY <1>1, <1>2, <1>3 DEF Costed

\* What another agent does is not counted here.
LEMMA SaidOther ==
    ASSUME TypeOK, NEW b \in Agent, SameAgent(b)
    PROVE  Said(b)' = Said(b)
  <1>1. InGraph(b)' = InGraph(b) /\ ModelEntries(b)' = ModelEntries(b)
    BY DEF SameAgent, InGraph, ModelEntries, ModelAt, History
  <1>2. InWork(b)' = InWork(b)
    BY <1>1 DEF SameAgent, InWork, ModelAt
  <1> QED
    BY <1>1, <1>2 DEF Said

\* An entry that is no answer of the model adds nothing to what was said, and
\* one that is adds its own place.
LEMMA SaidAppend ==
    ASSUME NEW h \in Seq(Entry), NEW e \in Entry
    PROVE  /\ ModelAt(Append(h, e)) \subseteq ModelAt(h) \cup {Len(h) + 1}
           /\ e.kind \notin {"ai", "empty", "call"} =>
                  ModelAt(Append(h, e)) \subseteq ModelAt(h)
  BY AddLemma DEF ModelAt

\* A step of one agent is none of another's.
LEMMA OthersRest ==
    ASSUME AgentInv, CostInv, NEW a \in Agent, NEW b \in Agent \ {a},
           \/ Begin(a) \/ Connected(a) \/ Input(a) \/ Write(a) \/ ModelAnswers(a)
           \/ RecordCost(a) \/ NodeReturns(a) \/ RunTools(a) \/ Route(a) \/ Return(a)
           \/ Raise(a) \/ Act(a)
    PROVE  SameAgent(b) /\ recorded'[b] = recorded[b] /\ warned'[b] = warned[b]
  <1> USE DEF AgentInv, TypeOK, LocalsOK, CostInv, CostTypeOK
  <1>1. recorded'[b] = recorded[b] /\ warned'[b] = warned[b]
    BY DEF Begin, Connected, Input, Write, ModelAnswers, RecordCost, NodeReturns, RunTools,
           Route, Return, Raise, Act, costVars
  <1>2. pc'[b] = pc[b] /\ msg'[b] = msg[b] /\ result'[b] = result[b]
    BY DEF Begin, Connected, Input, Write, ModelAnswers, RecordCost, NodeReturns, RunTools,
           Route,           Return, Raise, Act, Release, Goto
  <1>3. work'[b] = work[b]
    BY DEF Begin, Connected, Input, Write, ModelAnswers, RecordCost, NodeReturns, RunTools,
           Route,           Return, Raise, Act, Release, Add, graphVars
  <1>4. \A t \in Thread : checkpoint'[Key(b, t)] = checkpoint[Key(b, t)]
    BY DEF Begin, Connected, Input, Write, ModelAnswers, RecordCost, NodeReturns, RunTools,
           Route,           Return, Raise, Act, graphVars, Key, KeyOf
  <1> QED
    BY <1>1, <1>2, <1>3, <1>4 DEF SameAgent

\* Steps that leave the graph, or are not in it.
LEMMA CostOutside ==
    ASSUME CostInv, NEW a \in Agent, UNCHANGED checkpoint, ~InGraph(a)',
           recorded'[a] = recorded[a], warned'[a] = warned[a]
    PROVE  Costed(a)'
  <1>1. ModelEntries(a)' = ModelEntries(a)
    BY DEF ModelEntries, ModelAt, History, Key
  <1>2. InWork(a)' = {}
    BY DEF InWork
  <1> QED
    BY <1>1, <1>2, SaidKept DEF Said, InGraph

\* The input continues the checkpoint with a question.
LEMMA CostInput ==
    ASSUME AgentInv, CostInv, NEW a \in Agent, Input(a)
    PROVE  Costed(a)'
  <1> DEFINE c == checkpoint[KeyOf(a)].messages
             e == [kind |-> "human", of |-> msg[a]]
             t == On[msg[a]]
  <1>1. /\ c \in Seq(Entry) /\ e \in Entry /\ KeyOf(a) = Key(a, t) /\ t \in Thread
        /\ checkpoint[KeyOf(a)] \in State
    BY KeyLemma DEF Input, AgentInv, Entry, Kinds
  <1>2. work'[a].messages = Append(c, e) /\ UNCHANGED <<checkpoint, msg, recorded, warned>>
        /\ pc'[a] = "llm"
    BY <1>1, StateLemma DEF Input, Goto, costVars, AgentInv, TypeOK
  <1>3. ModelAt(Append(c, e)) \subseteq ModelAt(c)
    BY <1>1, SaidAppend
  <1> HIDE DEF e
  <1>4. InWork(a)' \subseteq {t} \X ModelAt(c)
    <2>1. ModelAt(work[a].messages)' = ModelAt(Append(c, e))
      BY <1>2 DEF ModelAt
    <2> QED
      BY <1>2, <1>3, <2>1 DEF InWork
  <1>5. {t} \X ModelAt(c) \subseteq ModelEntries(a)
    BY <1>1 DEF ModelEntries, History
  <1>6. ModelEntries(a)' = ModelEntries(a)
    BY <1>2 DEF ModelEntries, ModelAt, History, Key
  <1> QED
    BY <1>2, <1>4, <1>5, <1>6, SaidKept DEF Said

\* The writer moves what was said, it adds nothing to it.
LEMMA CostWrite ==
    ASSUME AgentInv, CostInv, NEW a \in Agent, Write(a)
    PROVE  Costed(a)'
  <1> DEFINE t == On[msg[a]]
  <1>1. /\ UNCHANGED <<work, pc, msg, recorded, warned>> /\ InGraph(a)
        /\ checkpoint' = [checkpoint EXCEPT ![KeyOf(a)] = work[a]]
    BY DEF Write, InGraph, costVars
  <1>2. KeyOf(a) = Key(a, t) /\ t \in Thread /\ KeyOf(a) \in Agent \X Thread
    BY <1>1, KeyLemma DEF InGraph, AgentInv
  <1>3. InWork(a)' = InWork(a) /\ InWork(a) = {t} \X ModelAt(work[a].messages)
    BY <1>1 DEF InWork, InGraph, ModelAt
  <1>4. \A u \in Thread : {u} \X ModelAt(History(a, u))' \subseteq ModelEntries(a)
                            \cup InWork(a)
    <2> SUFFICES ASSUME NEW u \in Thread
                 PROVE  {u} \X ModelAt(History(a, u))' \subseteq ModelEntries(a)
                          \cup InWork(a)
      OBVIOUS
    <2>1. CASE u = t
      <3>1. History(a, u)' = work[a].messages
        BY <1>1, <1>2, <2>1 DEF History, Key, AgentInv, TypeOK
      <3>2. ModelAt(History(a, u))' = ModelAt(work[a].messages)
        BY <3>1 DEF ModelAt
      <3> QED
        BY <1>3, <2>1, <3>2
    <2>2. CASE u # t
      <3>1. History(a, u)' = History(a, u)
        BY <1>1, <1>2, <2>2 DEF History, Key, AgentInv, TypeOK
      <3>2. ModelAt(History(a, u))' = ModelAt(History(a, u))
        BY <3>1 DEF ModelAt
      <3> QED
        BY <3>2 DEF ModelEntries
    <2> QED
      BY <2>1, <2>2
  <1>5. ModelEntries(a)' \subseteq ModelEntries(a) \cup InWork(a)
    BY <1>4 DEF ModelEntries
  <1> QED
    BY <1>1, <1>3, <1>5, SaidKept DEF Said

\* The model was paid for before its answer is in the working copy.
LEMMA CostReturns ==
    ASSUME AgentInv, CostInv, NEW a \in Agent, NodeReturns(a)
    PROVE  Costed(a)'
  <1> DEFINE t == On[msg[a]]
             h == work[a].messages
             e == [kind |-> result[a].kind, of |-> msg[a]]
             p == <<t, Len(h) + 1>>
  <1>1. /\ UNCHANGED <<checkpoint, msg, recorded, warned>> /\ pc[a] = "costed" /\ InGraph(a)
        /\ work' = [work EXCEPT ![a] = [work[a] EXCEPT !.messages = Append(h, e)]]
    BY DEF NodeReturns, Add, InGraph, costVars
  <1>2. h \in Seq(Entry) /\ e \in Entry
    BY <1>1, WorkType, KeyLemma DEF AgentInv, AgentOK, ResultOK, Entry, Kinds
  <1>3. work'[a].messages = Append(h, e)
    BY <1>1, WorkType, StateLemma DEF AgentInv, TypeOK
  <1>4. InWork(a)' \subseteq InWork(a) \cup {p}
    <2>1. ModelAt(work[a].messages)' = ModelAt(Append(h, e))
      BY <1>3 DEF ModelAt
    <2>2. ModelAt(Append(h, e)) \subseteq ModelAt(h) \cup {Len(h) + 1}
      BY <1>2, SaidAppend
    <2> HIDE DEF e
    <2>3. InWork(a)' \subseteq {t} \X ModelAt(Append(h, e))
      BY <1>1, <2>1 DEF InWork
    <2>4. InWork(a) = {t} \X ModelAt(h)
      BY <1>1 DEF InWork
    <2> QED
      BY <2>2, <2>3, <2>4
  <1>5. ModelEntries(a)' = ModelEntries(a)
    BY <1>1 DEF ModelEntries, ModelAt, History, Key
  <1>6. Said(a)' \subseteq Said(a) \cup {p}
    BY <1>4, <1>5 DEF Said
  <1>7. /\ IsFiniteSet(Said(a)) /\ Cardinality(Said(a)) \in Nat
        /\ recorded[a] \in Nat /\ warned[a] \in Nat
        /\ Cardinality(Said(a)) + 1 <= recorded[a] + warned[a]
    BY <1>1, FS_CardinalityType DEF CostInv, CostTypeOK, Costed, Due
  <1> HIDE DEF p
  <1>8. /\ IsFiniteSet(Said(a) \cup {p}) /\ Cardinality(Said(a) \cup {p}) \in Nat
        /\ Cardinality(Said(a) \cup {p}) <= Cardinality(Said(a)) + 1
    <2>1. ASSUME NEW S, IsFiniteSet(S)
          PROVE  /\ IsFiniteSet(S \cup {p}) /\ Cardinality(S \cup {p}) \in Nat
                 /\ Cardinality(S \cup {p}) <= Cardinality(S) + 1
      <3>1. Cardinality(S) \in Nat
        BY <2>1, FS_CardinalityType
      <3>2. /\ IsFiniteSet(S \cup {p})
            /\ Cardinality(S \cup {p}) = IF p \in S THEN Cardinality(S)
                                                     ELSE Cardinality(S) + 1
        BY <2>1, FS_AddElement, Zenon
      <3> QED
        BY <3>1, <3>2
    <2> QED
      BY <1>7, <2>1
  <1>9. /\ IsFiniteSet(Said(a)') /\ Cardinality(Said(a)') \in Nat
        /\ Cardinality(Said(a)') <= Cardinality(Said(a) \cup {p})
    BY <1>6, <1>8, FS_Subset, FS_CardinalityType
  <1>10. result[a].kind \in {"ai", "empty", "call"} /\ pc \in [Agent -> PC]
    BY <1>1 DEF AgentInv, TypeOK, AgentOK, ResultOK
  <1>11. Due(a)' = 0
    BY <1>10 DEF NodeReturns, Goto, AfterLLM, Due
  <1> QED
    BY <1>1, <1>7, <1>8, <1>9, <1>11 DEF Costed

\* The ledger has a row or a warning for what the model said.
LEMMA CostRecord ==
    ASSUME AgentInv, CostInv, NEW a \in Agent, RecordCost(a)
    PROVE  Costed(a)'
  <1>1. /\ UNCHANGED <<checkpoint, work, msg>> /\ pc[a] = "record"
        /\ InGraph(a) /\ InGraph(a)' /\ pc'[a] = "costed"
    BY DEF RecordCost, Goto, graphVars, InGraph, AgentInv, TypeOK
  <1>2. Said(a)' = Said(a)
    BY <1>1 DEF Said, InWork, ModelEntries, ModelAt, History, Key
  <1>3. /\ IsFiniteSet(Said(a)) /\ Cardinality(Said(a)) \in Nat
        /\ recorded[a] \in Nat /\ warned[a] \in Nat
        /\ Cardinality(Said(a)) <= recorded[a] + warned[a]
    BY <1>1, FS_CardinalityType DEF CostInv, CostTypeOK, Costed, Due
  <1>4. \/ recorded'[a] = recorded[a] + 1 /\ warned'[a] = warned[a]
        \/ recorded'[a] = recorded[a] /\ warned'[a] = warned[a] + 1
    BY DEF RecordCost, CostInv, CostTypeOK
  <1>5. Due(a)' = 1
    BY <1>1 DEF Due
  <1> QED
    BY <1>2, <1>3, <1>4, <1>5 DEF Costed

\* The other nodes say nothing.
LEMMA CostNodes ==
    ASSUME AgentInv, CostInv, NEW a \in Agent, ModelAnswers(a) \/ Route(a) \/ RunTools(a)
    PROVE  Costed(a)'
  <1> DEFINE h == work[a].messages
             e == [kind |-> "tool", of |-> msg[a]]
  <1>1. UNCHANGED <<checkpoint, msg, recorded, warned>> /\ InGraph(a) /\ pc'[a] # "costed"
    BY DEF ModelAnswers, Route, RunTools, InGraph, graphVars, costVars, Goto, AgentInv,
           TypeOK
  <1>2. h \in Seq(Entry) /\ e \in Entry
    BY <1>1, WorkType, KeyLemma DEF AgentInv, InGraph, Entry, Kinds
  <1>3. ModelAt(work[a].messages)' \subseteq ModelAt(h)
    <2>1. CASE RunTools(a)
      <3>1. work'[a].messages = Append(h, e)
        BY <2>1, WorkType, StateLemma DEF RunTools, Add, AgentInv, TypeOK
      <3>2. ModelAt(work[a].messages)' = ModelAt(Append(h, e))
        BY <3>1 DEF ModelAt
      <3> QED
        BY <1>2, <3>2, SaidAppend
    <2>2. CASE ModelAnswers(a) \/ Route(a)
      <3>1. work'[a].messages = h
        BY <2>2, WorkType, StateLemma DEF ModelAnswers, Route, graphVars, AgentInv, TypeOK
      <3> QED
        BY <3>1 DEF ModelAt
    <2> QED
      BY <2>1, <2>2
  <1>4. InWork(a)' \subseteq InWork(a)
    BY <1>1, <1>3 DEF InWork
  <1>5. ModelEntries(a)' = ModelEntries(a)
    BY <1>1 DEF ModelEntries, ModelAt, History, Key
  <1> QED
    BY <1>1, <1>4, <1>5, SaidKept DEF Said

LEMMA CostInvNext == AgentInv /\ CostInv /\ [Next]_agentVars => CostInv'
  <1> SUFFICES ASSUME AgentInv, CostInv, [Next]_agentVars PROVE CostInv'
    OBVIOUS
  <1>1. CostTypeOK'
    <2>1. CASE \E a \in Agent : RecordCost(a)
      BY <2>1 DEF CostInv, CostTypeOK, RecordCost
    <2>2. CASE ~\E a \in Agent : RecordCost(a)
      <3>1. UNCHANGED costVars
        BY <2>2 DEF Next, Begin, Connected, Input, Write, ModelAnswers, NodeReturns,
                    RunTools,
               Route, Return, Raise, Act, Restart, agentVars
      <3> QED
        BY <3>1 DEF CostInv, CostTypeOK, costVars
    <2> QED
      BY <2>1, <2>2
  <1> SUFFICES ASSUME NEW b \in Agent
               PROVE  Costed(b)'
    BY <1>1 DEF CostInv
  <1>2. ASSUME NEW a \in Agent, a # b,
               \/ Begin(a) \/ Connected(a) \/ Input(a) \/ Write(a) \/ ModelAnswers(a)
               \/ RecordCost(a) \/ NodeReturns(a) \/ RunTools(a) \/ Route(a) \/ Return(a)
           \/ Raise(a) \/ Act(a)
        PROVE  Costed(b)'
    <2>1. SameAgent(b) /\ recorded'[b] = recorded[b] /\ warned'[b] = warned[b]
      BY <1>2, OthersRest
    <2> QED
      BY <2>1, SaidOther, SaidKept DEF AgentInv, SameAgent
  <1>3. CASE Begin(b) \/ Connected(b) \/ Return(b) \/ Raise(b) \/ Act(b)
    <2>1. UNCHANGED <<checkpoint, recorded, warned>>
      BY <1>3 DEF Begin, Connected, Return, Raise, Act, graphVars, costVars
    <2>2. ~InGraph(b)'
      BY <1>3 DEF Begin, Connected, Return, Raise, Act, Release, Goto, InGraph, AgentInv,
                  TypeOK
    <2> QED
      BY <2>1, <2>2, CostOutside
  <1>4. CASE Restart
    BY <1>4, CostOutside DEF Restart, InGraph, costVars
  <1>5. CASE UNCHANGED agentVars
    <2>1. SameAgent(b) /\ recorded'[b] = recorded[b] /\ warned'[b] = warned[b]
      BY <1>5 DEF agentVars, graphVars, costVars, SameAgent
    <2> QED
      BY <2>1, SaidOther, SaidKept DEF AgentInv, SameAgent
  <1> QED
    BY <1>2, <1>3, <1>4, <1>5, CostInput, CostWrite, CostRecord, CostReturns,
       CostNodes DEF Next

\* Whatever the model said in an agent's conversations was recorded, or the
\* ledger's failure was logged, before it got there: for any tool rounds,
\* retries, failed writes and kills (call_llm awaits the ledger).
THEOREM EveryAnswerCostedCorrect == Spec => []EveryAnswerCosted
  <1>1. AgentInv /\ CostInv => EveryAnswerCosted
    <2> SUFFICES ASSUME CostInv, NEW a \in Agent
                 PROVE  Cardinality(ModelEntries(a)) <= recorded[a] + warned[a]
      BY DEF EveryAnswerCosted
    <2>1. /\ IsFiniteSet(Said(a))
          /\ Cardinality(Said(a)) + Due(a) <= recorded[a] + warned[a]
          /\ recorded[a] \in Nat /\ warned[a] \in Nat /\ Due(a) \in Nat
      BY DEF CostInv, CostTypeOK, Costed, Due
    <2>2. /\ IsFiniteSet(ModelEntries(a)) /\ Cardinality(ModelEntries(a)) \in Nat
          /\ Cardinality(Said(a)) \in Nat
          /\ Cardinality(ModelEntries(a)) <= Cardinality(Said(a))
      BY <2>1, FS_Subset, FS_CardinalityType DEF Said
    <2> QED
      BY <2>1, <2>2
  <1> QED
    BY <1>1, AgentInvAlways, CostInvInit, CostInvNext, PTL DEF Spec

=============================================================================
