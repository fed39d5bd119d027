---------------------------- MODULE ConsoleProofs ----------------------------
(***************************************************************************)
(* Theorems about HumanConsole, for every number of chats, listeners,      *)
(* agents, threads, questions and sessions.                                *)
(***************************************************************************)
EXTENDS HumanConsole, SequenceTheorems, TLAPS

\* The ids of rows are positive numbers.
LEMMA RowIds ==
    ASSUME TransportTypeOK
    PROVE  /\ DOMAIN msgs \subseteq Nat \ {0}
           /\ \A i \in DOMAIN msgs : msgs[i] \in Envelope
  BY LenProperties, ElementOfSeq DEF TransportTypeOK

\* TypeOK leaves out the locals that no property looks at.
LocalsOK ==
    /\ row \in [Console -> Nat]
    /\ question \in [Chat -> Nat]
    /\ again \in [Chat -> BOOLEAN]
    /\ pending \in [Chat -> SUBSET DOMAIN msgs]

\* What a listener works through is addressed to the human, and the row it
\* is about to mark has been on its screen.
ListenerOK ==
    \A l \in Listener :
        /\ \A r \in batch[l] : msgs[r].to = human
        /\ pc[l] = "marking" => row[l] \in seen

\* A question comes from the human and is never addressed to the human.
QuestionOK ==
    \A c \in Chat : pc[c] = "send" =>
        msgs[question[c]].to \in Agent /\ msgs[question[c]].from = human

\* The draft of an agent is the last message it has constructed, and goes back
\* to the same question on the same thread as the row it answers.
DraftOK ==
    \A n \in Agent : at[n] = "sending" =>
        /\ msgs[draft[n]].from = n
        /\ \A i \in DOMAIN msgs : msgs[i].from = n => i <= draft[n]
        /\ msgs[draft[n]].thread = msgs[held[n]].thread
        /\ about[draft[n]] = about[held[n]]

\* From the query to the panel: every older row of the same sender on the
\* thread is read.
OldestHeld ==
    \A c \in Chat : pc[c] \in {"marking", "show"} =>
        \A i \in OnThread(ThreadOf[c]) :
            (msgs[i].to = human /\ msgs[i].from = msgs[row[c]].from /\ i < row[c])
                => i \in processed

\* What a session of listen has shown is processed, but for the row in hand,
\* so the next query does not find it; and it does not come up again in what
\* is left of this one.
ShownRead ==
    \A l \in Listener : \A i \in DOMAIN shown[l] :
        /\ shown[l][i] \notin batch[l]
        /\ shown[l][i] \in processed \/ (pc[l] = "marking" /\ shown[l][i] = row[l])

\* The inductive invariant.
ConsoleInv ==
    /\ TypeOK
    /\ LocalsOK
    /\ ListenerOK
    /\ QuestionOK
    /\ DraftOK
    /\ NothingUnseen
    /\ OldestHeld
    /\ ShownRead
    /\ ShownOnce

-----------------------------------------------------------------------------
LEMMA ConsoleInvInit == Init => ConsoleInv
  <1> SUFFICES ASSUME Init PROVE ConsoleInv
    OBVIOUS
  <1> USE ConsoleAssumption DEF Init, TransportInit
  <1>1. TypeOK
    BY EmptySeq DEF TypeOK, TransportTypeOK, AgentTypeOK, Labels, Console
  <1>2. LocalsOK
    BY DEF LocalsOK
  <1>3. ListenerOK /\ QuestionOK /\ DraftOK /\ OldestHeld
    BY DEF ListenerOK, QuestionOK, DraftOK, OldestHeld, Console
  <1>4. NothingUnseen /\ ShownRead /\ ShownOnce
    BY DEF NothingUnseen, ShownRead, ShownOnce
  <1> QED
    BY <1>1, <1>2, <1>3, <1>4 DEF ConsoleInv

\* A chat is no listener.
LEMMA ConsolesDiffer ==
    /\ Chat \subseteq Console /\ Listener \subseteq Console
    /\ \A c \in Chat, l \in Listener : c # l
  BY ConsoleAssumption DEF Console

\* The human is no agent, and both are names.
LEMMA NamesDiffer ==
    /\ human \in Name /\ Agent \subseteq Name /\ human \notin Agent
    /\ \A c \in Chat : AgentOf[c] \in Agent /\ ThreadOf[c] \in Thread
  BY ConsoleAssumption

\* The consoles do not disturb the work of the agents: they add rows of the
\* human and mark rows for the human.
LEMMA AgentsKept ==
    ASSUME ConsoleInv, UNCHANGED agentVars,
           DOMAIN msgs \subseteq DOMAIN msgs',
           \A i \in DOMAIN msgs : msgs'[i] = msgs[i] /\ about'[i] = about[i],
           \A i \in DOMAIN msgs' \ DOMAIN msgs : msgs'[i].from = human,
           stored \subseteq stored', processed \subseteq processed',
           \A i \in stored' \ stored : i \in DOMAIN msgs /\ msgs[i].from = human,
           \A i \in processed' \ processed : msgs[i].to = human
    PROVE  AgentTypeOK' /\ DraftOK'
  <1> USE NamesDiffer DEF agentVars
  <1>1. AgentTypeOK /\ DraftOK /\ stored \subseteq DOMAIN msgs /\ processed \subseteq stored
    BY DEF ConsoleInv, TypeOK, TransportTypeOK
  <1>2. AgentTypeOK'
    <2> SUFFICES ASSUME NEW n \in Agent
                 PROVE  /\ at[n] = "working" => held[n] \in Inbox(n)'
                        /\ at[n] \in {"acked", "sending"} => held[n] \in processed'
                        /\ at[n] = "sending" => draft[n] \in DOMAIN msgs' \ stored'
      BY <1>1 DEF AgentTypeOK
    <2>1. ASSUME at[n] = "working" PROVE held[n] \in Inbox(n)'
      <3>1. held[n] \in Inbox(n)
        BY <1>1, <2>1 DEF AgentTypeOK
      <3> QED
        BY <1>1, <3>1 DEF Inbox
    <2>2. ASSUME at[n] = "sending" PROVE draft[n] \in DOMAIN msgs' \ stored'
      BY <1>1, <2>2 DEF AgentTypeOK, DraftOK
    <2> QED
      BY <1>1, <2>1, <2>2 DEF AgentTypeOK
  <1>3. DraftOK'
    <2> SUFFICES ASSUME NEW n \in Agent, at[n] = "sending"
                 PROVE  /\ msgs'[draft[n]].from = n
                        /\ \A i \in DOMAIN msgs' : msgs'[i].from = n => i <= draft[n]
                        /\ msgs'[draft[n]].thread = msgs'[held[n]].thread
                        /\ about'[draft[n]] = about'[held[n]]
      BY DEF DraftOK
    <2>1. draft[n] \in DOMAIN msgs /\ held[n] \in DOMAIN msgs
      BY <1>1 DEF AgentTypeOK
    <2> QED
      BY <1>1, <2>1 DEF DraftOK
  <1> QED
    BY <1>2, <1>3

\* A chat goes to a place where it holds nothing, and changes nothing but its
\* own locals.
LEMMA QuietStep ==
    ASSUME ConsoleInv, NEW c \in Chat,
           UNCHANGED <<rowVars, batch, screenVars>>,
           LocalsOK', opens' \in 0 .. MaxOpens,
           NEW label \in Labels \ {"send", "marking", "show"}, Goto(c, label),
           pc[c] # "show",
           \A d \in Console \ {c} : row'[d] = row[d],
           \A d \in Chat \ {c} : question'[d] = question[d],
           label \in {"poll", "sleep", "offer"} => question'[c] \in DOMAIN msgs
    PROVE  ConsoleInv'
  <1> USE ConsolesDiffer DEF ConsoleInv, rowVars, transportVars, screenVars
  <1>1. /\ pc' \in [Console -> Labels] /\ pc'[c] = label
        /\ \A d \in Console \ {c} : pc'[d] = pc[d]
    BY DEF Goto, TypeOK
  <1>2. TypeOK' /\ DraftOK'
    <2>1. AgentTypeOK' /\ DraftOK'
      BY AgentsKept
    <2> QED
      BY <1>1, <2>1 DEF TypeOK, TransportTypeOK, LocalsOK
  <1>3. ListenerOK' /\ QuestionOK'
    BY <1>1 DEF ListenerOK, QuestionOK
  <1>4. NothingUnseen' /\ OldestHeld'
    BY <1>1 DEF NothingUnseen, OldestHeld, OnThread
  <1>5. ShownRead' /\ ShownOnce'
    BY <1>1 DEF ShownRead, ShownOnce
  <1> QED
    BY <1>2, <1>3, <1>4, <1>5

\* A chat goes back to its prompt.
LEMMA PromptLemma ==
    ASSUME LocalsOK, NEW c \in Chat, Prompt(c)
    PROVE  /\ Goto(c, "prompt") /\ "prompt" \in Labels
           /\ row' \in [Console -> Nat] /\ question' \in [Chat -> Nat]
           /\ again' \in [Chat -> BOOLEAN] /\ pending' \in [Chat -> SUBSET DOMAIN msgs]
           /\ \A d \in Console \ {c} : row'[d] = row[d]
           /\ \A d \in Chat \ {c} : question'[d] = question[d]
  BY DEF LocalsOK, Prompt, Forget, Labels, Console

LEMMA ConsoleInvQuiet ==
    ASSUME ConsoleInv, NEW c \in Chat,
           \/ OpenChat(c) \/ PollAgain(c) \/ TimeOut(c) \/ WaitOn(c) \/ GiveUp(c)
           \/ PollReply(c) /\ Goto(c, "sleep") /\ UNCHANGED row
    PROVE  ConsoleInv'
  <1> USE DEF ConsoleInv, sessionVars
  <1>1. CASE OpenChat(c)
    <2>1. opens' \in 0 .. MaxOpens
      BY <1>1, ConsoleAssumption DEF OpenChat, TypeOK
    <2>2. LocalsOK'
      BY <1>1, PromptLemma DEF OpenChat, LocalsOK, rowVars, transportVars
    <2> QED
      BY <1>1, <2>1, <2>2, PromptLemma, QuietStep DEF OpenChat, Labels
  <1>2. CASE PollAgain(c)
    <2>1. question[c] \in DOMAIN msgs
      BY <1>2 DEF PollAgain, TypeOK
    <2> QED
      BY <1>2, <2>1, QuietStep
         DEF PollAgain, Labels, LocalsOK, TypeOK, rowVars, transportVars
  <1>3. CASE TimeOut(c)
    <2>1. CASE again[c]
      <3>1. LocalsOK'
        BY <1>3, <2>1, PromptLemma DEF TimeOut, LocalsOK, rowVars, transportVars
      <3> QED
        BY <1>3, <2>1, <3>1, PromptLemma, QuietStep DEF TimeOut, Labels, TypeOK
    <2>2. CASE ~again[c]
      <3>1. question[c] \in DOMAIN msgs
        BY <1>3 DEF TimeOut, TypeOK
      <3> QED
        BY <1>3, <2>2, <3>1, QuietStep
         DEF TimeOut, Labels, LocalsOK, TypeOK, rowVars, transportVars
    <2> QED
      BY <2>1, <2>2
  <1>4. CASE WaitOn(c)
    <2>1. question[c] \in DOMAIN msgs
      BY <1>4 DEF WaitOn, TypeOK
    <2> QED
      BY <1>4, <2>1, QuietStep
         DEF WaitOn, Labels, LocalsOK, TypeOK, rowVars, transportVars
  <1>5. CASE GiveUp(c)
    <2>1. LocalsOK'
      BY <1>5, PromptLemma DEF GiveUp, LocalsOK, rowVars, transportVars
    <2> QED
      BY <1>5, <2>1, PromptLemma, QuietStep DEF GiveUp, Labels, TypeOK
  <1>6. CASE PollReply(c) /\ Goto(c, "sleep") /\ UNCHANGED row
    <2>1. question[c] \in DOMAIN msgs /\ pc[c] = "poll"
      BY <1>6 DEF PollReply, TypeOK
    <2> QED
      BY <1>6, <2>1, QuietStep
         DEF PollReply, Labels, LocalsOK, TypeOK, rowVars, transportVars
  <1> QED
    BY <1>1, <1>2, <1>3, <1>4, <1>5, <1>6

\* A row that is added to the log disturbs nothing that is known of others.
LEMMA LogGrows ==
    ASSUME TransportTypeOK, NEW env \in Envelope, Compose(env)
    PROVE  /\ msgs' \in Seq(Envelope)
           /\ Len(msgs') = Len(msgs) + 1 /\ Len(msgs') \in Nat
           /\ Len(msgs') \notin DOMAIN msgs
           /\ DOMAIN msgs' = DOMAIN msgs \cup {Len(msgs')}
           /\ msgs'[Len(msgs')] = env
           /\ \A i \in DOMAIN msgs : msgs'[i] = msgs[i] /\ i < Len(msgs')
  <1>1. msgs \in Seq(Envelope) /\ Len(msgs) \in Nat /\ DOMAIN msgs = 1 .. Len(msgs)
    BY LenProperties DEF TransportTypeOK
  <1>2. /\ msgs' \in Seq(Envelope)
        /\ Len(msgs') = Len(msgs) + 1
        /\ \A i \in 1 .. Len(msgs) : msgs'[i] = msgs[i]
        /\ msgs'[Len(msgs) + 1] = env
    BY <1>1, AppendProperties DEF Compose
  <1>3. DOMAIN msgs' = 1 .. Len(msgs')
    BY <1>2, LenProperties
  <1> QED
    BY <1>1, <1>2, <1>3

\* The history gets the question of the new row and keeps those of the others.
LEMMA AboutGrows ==
    ASSUME TypeOK, NEW env \in Envelope, Compose(env),
           NEW v \in DOMAIN msgs \cup {Len(msgs')}, about' = Append(about, v)
    PROVE  /\ about' \in [DOMAIN msgs' -> DOMAIN msgs']
           /\ about'[Len(msgs')] = v
           /\ \A i \in DOMAIN msgs : about'[i] = about[i]
  <1>1. /\ msgs \in Seq(Envelope) /\ Len(msgs) \in Nat
        /\ DOMAIN msgs = 1 .. Len(msgs)
    BY DEF TypeOK, TransportTypeOK
  <1>2. about \in [1 .. Len(msgs) -> Nat]
    BY <1>1 DEF TypeOK
  <1>3. about \in Seq(Nat) /\ Len(about) = Len(msgs)
    BY <1>1, <1>2, SeqDef, LenProperties
  <1>4. Len(msgs') = Len(msgs) + 1 /\ DOMAIN msgs' = DOMAIN msgs \cup {Len(msgs')}
    BY LogGrows DEF TypeOK
  <1>5. v \in Nat
    BY <1>1, <1>4
  <1>6. /\ about' \in Seq(Nat) /\ Len(about') = Len(msgs')
        /\ \A i \in 1 .. Len(msgs) : about'[i] = about[i]
        /\ about'[Len(msgs')] = v
    BY <1>1, <1>3, <1>4, <1>5, AppendProperties
  <1>7. about' \in [1 .. Len(msgs') -> Nat]
    BY <1>6, LenProperties
  <1>8. DOMAIN msgs' = 1 .. Len(msgs')
    BY <1>1, <1>4
  <1>9. \A i \in DOMAIN msgs' : about'[i] \in DOMAIN msgs'
    <2> SUFFICES ASSUME NEW i \in DOMAIN msgs' PROVE about'[i] \in DOMAIN msgs'
      OBVIOUS
    <2>1. CASE i \in DOMAIN msgs
      <3>1. about[i] \in DOMAIN msgs
        BY <2>1 DEF TypeOK
      <3> QED
        BY <1>1, <1>4, <1>6, <2>1, <3>1
    <2>2. CASE i = Len(msgs')
      BY <1>4, <1>6, <2>2
    <2> QED
      BY <1>4, <2>1, <2>2
  <1>10. about' \in [DOMAIN msgs' -> DOMAIN msgs']
    BY <1>7, <1>8, <1>9
  <1> QED
    BY <1>1, <1>6, <1>10

LEMMA ConsoleInvAsk ==
    ASSUME ConsoleInv, NEW c \in Chat, Ask(c)
    PROVE  ConsoleInv'
  <1> DEFINE env == [from |-> human, to |-> AgentOf[c], thread |-> ThreadOf[c],
                     parent |-> NoParent]
  <1> USE ConsolesDiffer, NamesDiffer DEF ConsoleInv, screenVars
  <1>1. /\ TransportTypeOK /\ env \in Envelope /\ Compose(env)
        /\ UNCHANGED <<stored, received, processed, agentVars, row, again, batch,
                       opens, shown, seen, dropped>>
        /\ question' = [question EXCEPT ![c] = Len(msgs')] /\ Goto(c, "send")
        /\ pending' = [pending EXCEPT ![c] = Unanswered(ThreadOf[c])]
        /\ about' = Append(about, Len(msgs'))
    BY DEF Ask, TypeOK, Envelope, NoParent
  <1> HIDE DEF env
  <1>2. /\ pc' \in [Console -> Labels] /\ pc'[c] = "send"
        /\ \A d \in Console \ {c} : pc'[d] = pc[d]
    BY <1>1 DEF Goto, TypeOK, Labels
  <1>3. /\ msgs' \in Seq(Envelope)
        /\ Len(msgs') \in Nat
        /\ DOMAIN msgs' = DOMAIN msgs \cup {Len(msgs')}
        /\ msgs'[Len(msgs')] = env
        /\ \A i \in DOMAIN msgs : msgs'[i] = msgs[i]
    BY <1>1, LogGrows
  <1>4. env.to \in Agent /\ env.from = human
    BY DEF env
  <1>5. stored \subseteq DOMAIN msgs /\ processed \subseteq stored
    BY <1>1 DEF TransportTypeOK
  <1>6. /\ question' \in [Chat -> Nat]
        /\ question'[c] = Len(msgs')
        /\ \A d \in Chat \ {c} : question'[d] = question[d]
    BY <1>1, <1>3 DEF LocalsOK
  <1>7. TypeOK' /\ DraftOK' /\ pending' \in [Chat -> SUBSET DOMAIN msgs']
    <2>1. about' \in [DOMAIN msgs' -> DOMAIN msgs']
      BY <1>1, AboutGrows
    <2>2. TransportTypeOK'
      BY <1>1, <1>3, <1>5 DEF TransportTypeOK
    <2>3. \A d \in Console : pc'[d] \in {"marking", "show"} =>
             row'[d] \in stored' /\ msgs'[row'[d]].to = human
      BY <1>1, <1>2, <1>3, <1>5 DEF TypeOK
    <2>4. \A d \in Chat :
             pc'[d] \in {"send", "poll", "sleep", "offer", "marking", "show"} =>
                question'[d] \in DOMAIN msgs'
      BY <1>2, <1>3, <1>6 DEF TypeOK
    <2>5. AgentTypeOK' /\ DraftOK'
      <3>1. \A i \in DOMAIN msgs : about'[i] = about[i]
        BY <1>1, AboutGrows
      <3> QED
        BY <1>1, <1>3, <1>4, <3>1, AgentsKept
    <2>6. pending' \in [Chat -> SUBSET DOMAIN msgs']
      <3>1. Unanswered(ThreadOf[c]) \subseteq DOMAIN msgs
        BY <1>5 DEF Unanswered, Open, OnThread, TypeOK
      <3> QED
        BY <1>1, <1>3, <3>1 DEF TypeOK
    <2>7. \A i \in received : msgs'[i].to \in Agent
      BY <1>1, <1>3, <1>5 DEF TypeOK, TransportTypeOK
    <2> QED
      BY <1>1, <1>2, <2>1, <2>2, <2>3, <2>4, <2>5, <2>6, <2>7 DEF TypeOK
  <1>8. LocalsOK'
    BY <1>1, <1>6, <1>7 DEF LocalsOK
  <1>9. ListenerOK' /\ QuestionOK'
    <2>1. \A l \in Listener : batch[l] \subseteq DOMAIN msgs
      BY <1>5 DEF TypeOK
    <2>2. \A d \in Chat : pc[d] = "send" => question[d] \in DOMAIN msgs
      BY DEF TypeOK
    <2>3. ListenerOK'
      BY <1>1, <1>2, <1>3, <2>1 DEF ListenerOK
    <2>4. QuestionOK'
      <3> SUFFICES ASSUME NEW d \in Chat, pc'[d] = "send"
                   PROVE  /\ msgs'[question'[d]].to \in Agent
                          /\ msgs'[question'[d]].from = human
        BY DEF QuestionOK
      <3>1. CASE d = c
        BY <1>3, <1>4, <1>6, <3>1
      <3>2. CASE d # c
        BY <1>2, <1>3, <1>6, <2>2, <3>2 DEF QuestionOK
      <3> QED
        BY <3>1, <3>2
    <2> QED
      BY <2>3, <2>4
  <1>10. NothingUnseen' /\ OldestHeld'
    <2>1. pc[c] = "prompt"
      BY DEF Ask
    <2>2. NothingUnseen'
      <3> SUFFICES ASSUME NEW r \in processed, msgs'[r].to = human,
                          r \notin seen \cup dropped
                   PROVE  \E d \in Chat : pc'[d] = "show" /\ row[d] = r
        BY <1>1 DEF NothingUnseen
      <3>1. PICK d \in Chat : pc[d] = "show" /\ row[d] = r
        BY <1>3, <1>5 DEF NothingUnseen
      <3> QED
        BY <1>2, <2>1, <3>1
    <2>3. \A t : OnThread(t)' = OnThread(t)
      BY <1>1, <1>3, <1>5 DEF OnThread
    <2>4. OldestHeld'
      <3> SUFFICES ASSUME NEW d \in Chat, pc[d] \in {"marking", "show"},
                          NEW i \in OnThread(ThreadOf[d]),
                          msgs'[i].to = human, msgs'[i].from = msgs'[row[d]].from,
                          i < row[d]
                   PROVE  i \in processed
        BY <1>1, <1>2, <2>3 DEF OldestHeld
      <3>1. i \in stored /\ row[d] \in stored
        BY DEF OnThread, TypeOK
      <3> QED
        BY <1>3, <1>5, <3>1 DEF OldestHeld
    <2> QED
      BY <2>2, <2>4
  <1>11. ShownRead' /\ ShownOnce'
    BY <1>1, <1>2 DEF ShownRead, ShownOnce
  <1> QED
    BY <1>7, <1>8, <1>9, <1>10, <1>11

\* INSERT of a question: it is nothing the consoles look for.
LEMMA ConsoleInvStore ==
    ASSUME ConsoleInv, NEW c \in Chat, pc[c] = "send", Store(question[c]),
           UNCHANGED <<msgs, about, received, processed, agentVars, batch, screenVars>>,
           LocalsOK', opens' \in 0 .. MaxOpens,
           NEW label \in {"poll", "closed"}, Goto(c, label),
           \A d \in Console \ {c} : row'[d] = row[d],
           \A d \in Chat \ {c} : question'[d] = question[d],
           label = "poll" => question'[c] = question[c]
    PROVE  ConsoleInv'
  <1> USE ConsolesDiffer, NamesDiffer DEF ConsoleInv, screenVars
  <1>1. /\ pc' \in [Console -> Labels] /\ pc'[c] = label
        /\ \A d \in Console \ {c} : pc'[d] = pc[d]
    BY DEF Goto, TypeOK, Labels
  <1>2. /\ stored' = stored \cup {question[c]} /\ stored' \subseteq DOMAIN msgs
        /\ msgs[question[c]].to # human /\ msgs[question[c]].from = human
        /\ question[c] \in DOMAIN msgs
    BY DEF Store, TypeOK, TransportTypeOK, QuestionOK
  <1>3. shown' \in [Listener -> Seq(stored')]
    <2>1. \A l \in Listener : shown[l] \in Seq(stored')
      <3> SUFFICES ASSUME NEW l \in Listener PROVE shown[l] \in Seq(stored')
        OBVIOUS
      <3>1. shown[l] \in Seq(stored)
        BY DEF TypeOK
      <3>2. \A i \in 1 .. Len(shown[l]) : shown[l][i] \in stored'
        BY <1>2, <3>1, ElementOfSeq
      <3> QED
        BY <3>1, <3>2, SeqDef, LenProperties
    <2> QED
      BY <2>1 DEF TypeOK
  <1>4. TypeOK' /\ DraftOK'
    <2>1. AgentTypeOK' /\ DraftOK'
      BY <1>2, AgentsKept
    <2> QED
      BY <1>1, <1>2, <1>3, <2>1 DEF TypeOK, TransportTypeOK, LocalsOK
  <1>5. ListenerOK' /\ QuestionOK'
    BY <1>1 DEF ListenerOK, QuestionOK
  <1>6. NothingUnseen' /\ OldestHeld'
    BY <1>1, <1>2 DEF NothingUnseen, OldestHeld, OnThread
  <1>7. ShownRead' /\ ShownOnce'
    BY <1>1 DEF ShownRead, ShownOnce
  <1> QED
    BY <1>4, <1>5, <1>6, <1>7

\* The query finds the oldest reply of the thread.
LEMMA ConsoleInvFound ==
    ASSUME ConsoleInv, NEW c \in Chat, PollReply(c), NEW r \in stored,
           OldestReply(ThreadOf[c], r), row' = [row EXCEPT ![c] = r],
           Goto(c, "marking")
    PROVE  ConsoleInv'
  <1> USE ConsolesDiffer, NamesDiffer DEF ConsoleInv, rowVars, transportVars, screenVars
  <1>1. /\ pc' \in [Console -> Labels] /\ pc'[c] = "marking" /\ pc[c] = "poll"
        /\ \A d \in Console \ {c} : pc'[d] = pc[d]
    BY DEF Goto, TypeOK, Labels, PollReply
  <1>2. UNCHANGED <<msgs, about, stored, received, processed, agentVars, question, again,
                    batch, opens, pending, shown, seen, dropped>>
    BY DEF PollReply
  <1>3. /\ r \in Nat /\ msgs[r].to = human
        /\ \A i \in OnThread(ThreadOf[c]) :
              (msgs[i].to = human /\ msgs[i].from = msgs[r].from /\ i < r)
                  => i \in processed
    <2>1. stored \subseteq Nat
      BY RowIds DEF TypeOK, TransportTypeOK
    <2> QED
      BY <2>1 DEF OldestReply, Replies, Inbox, OnThread
  <1>4. /\ row' \in [Console -> Nat] /\ row'[c] = r
        /\ \A d \in Console \ {c} : row'[d] = row[d]
    BY <1>3 DEF LocalsOK
  <1>5. TypeOK' /\ DraftOK'
    <2>1. AgentTypeOK' /\ DraftOK'
      BY <1>2, AgentsKept
    <2> QED
      BY <1>1, <1>2, <1>3, <1>4, <2>1 DEF TypeOK, TransportTypeOK
  <1>6. LocalsOK' /\ ListenerOK' /\ QuestionOK'
    BY <1>1, <1>2, <1>4 DEF LocalsOK, ListenerOK, QuestionOK
  <1>7. NothingUnseen'
    BY <1>1, <1>2, <1>4 DEF NothingUnseen
  <1>8. OldestHeld'
    BY <1>1, <1>2, <1>3, <1>4 DEF OldestHeld, OnThread
  <1>9. ShownRead' /\ ShownOnce'
    BY <1>1, <1>2, <1>4 DEF ShownRead, ShownOnce
  <1> QED
    BY <1>5, <1>6, <1>7, <1>8, <1>9

LEMMA ConsoleInvMarkReply ==
    ASSUME ConsoleInv, NEW c \in Chat, MarkReply(c)
    PROVE  ConsoleInv'
  <1> USE ConsolesDiffer DEF ConsoleInv, sessionVars, screenVars
  <1>1. /\ pc' \in [Console -> Labels] /\ pc'[c] = "show" /\ pc[c] = "marking"
        /\ \A d \in Console \ {c} : pc'[d] = pc[d]
    BY DEF Goto, TypeOK, Labels, MarkReply
  <1>2. /\ UNCHANGED <<msgs, about, stored, received, agentVars, row, question, again,
                       batch, opens, pending, shown, seen, dropped>>
        /\ processed' = processed \cup {row[c]} /\ row[c] \in stored
        /\ msgs[row[c]].to = human
    BY <1>1 DEF MarkReply, Ack, TypeOK
  <1>3. TypeOK' /\ DraftOK'
    <2>1. AgentTypeOK' /\ DraftOK'
      BY <1>2, AgentsKept
    <2> QED
      BY <1>1, <1>2, <2>1 DEF TypeOK, TransportTypeOK
  <1>4. LocalsOK' /\ ListenerOK' /\ QuestionOK'
    BY <1>1, <1>2 DEF LocalsOK, ListenerOK, QuestionOK
  <1>5. NothingUnseen' /\ OldestHeld'
    BY <1>1, <1>2 DEF NothingUnseen, OldestHeld, OnThread
  <1>6. ShownRead' /\ ShownOnce'
    BY <1>1, <1>2 DEF ShownRead, ShownOnce
  <1> QED
    BY <1>3, <1>4, <1>5, <1>6

\* A chat that held a reply lets it go: it was seen or it is dropped now.
LEMMA LetGo ==
    ASSUME ConsoleInv, NEW c \in Chat, NEW label \in {"prompt", "closed"},
           Goto(c, label), UNCHANGED <<msgs, about, stored, received, agentVars, batch,
                                       shown>>,
           processed \subseteq processed',
           processed' \subseteq processed \cup {row[c]},
           processed' # processed => pc[c] = "marking",
           processed' # processed \/ pc[c] = "show" => row[c] \in seen' \cup dropped',
           seen \subseteq seen', dropped \subseteq dropped',
           seen' \cup dropped' \subseteq stored,
           LocalsOK', opens' = opens,
           \A d \in Console \ {c} : row'[d] = row[d],
           \A d \in Chat \ {c} : question'[d] = question[d]
    PROVE  ConsoleInv'
  <1> USE ConsolesDiffer DEF ConsoleInv
  <1>1. /\ pc' \in [Console -> Labels] /\ pc'[c] = label
        /\ \A d \in Console \ {c} : pc'[d] = pc[d]
    BY DEF Goto, TypeOK, Labels
  <1>2. processed' \subseteq stored
    BY DEF TypeOK, TransportTypeOK
  <1>3. TypeOK' /\ DraftOK'
    <2>1. \A i \in processed' \ processed : msgs[i].to = human
      BY DEF TypeOK
    <2>2. AgentTypeOK' /\ DraftOK'
      BY <2>1, AgentsKept
    <2> QED
      BY <1>1, <1>2, <2>2 DEF TypeOK, TransportTypeOK, LocalsOK
  <1>4. ListenerOK' /\ QuestionOK'
    BY <1>1 DEF ListenerOK, QuestionOK
  <1>5. NothingUnseen'
    <2> SUFFICES ASSUME NEW r \in processed', msgs[r].to = human,
                        r \notin seen' \cup dropped'
                 PROVE  \E d \in Chat : pc'[d] = "show" /\ row'[d] = r
      BY DEF NothingUnseen
    <2>1. r \in processed
      OBVIOUS
    <2>2. PICK d \in Chat : pc[d] = "show" /\ row[d] = r
      BY <2>1 DEF NothingUnseen
    <2> QED
      BY <1>1, <2>2
  <1>6. OldestHeld'
    BY <1>1 DEF OldestHeld, OnThread
  <1>7. ShownRead' /\ ShownOnce'
    BY <1>1 DEF ShownRead, ShownOnce
  <1> QED
    BY <1>3, <1>4, <1>5, <1>6, <1>7

\* What EndChat leaves of the locals.
LEMMA EndChatLemma ==
    ASSUME LocalsOK, NEW c \in Chat, EndChat(c)
    PROVE  /\ LocalsOK' /\ Goto(c, "closed")
           /\ \A d \in Console \ {c} : row'[d] = row[d]
           /\ \A d \in Chat \ {c} : question'[d] = question[d]
           /\ UNCHANGED <<msgs, about, received, agentVars, batch, opens, shown, seen>>
  BY DEF LocalsOK, EndChat, Forget, Console

LEMMA ConsoleInvLetGo ==
    ASSUME ConsoleInv, NEW c \in Chat,
           ShowReply(c) \/ CloseChat(c) \/ CloseChatLate(c)
    PROVE  ConsoleInv'
  <1> USE ConsolesDiffer DEF ConsoleInv
  <1>1. pc[c] \in {"marking", "show"} => row[c] \in stored
    BY DEF TypeOK
  <1>2. seen \cup dropped \subseteq stored /\ opens \in 0 .. MaxOpens
    BY DEF TypeOK
  <1>3. CASE ShowReply(c)
    <2>1. LocalsOK'
      BY <1>3, PromptLemma DEF ShowReply, LocalsOK, rowVars, transportVars
    <2>2. /\ pc[c] = "show" /\ seen' = seen \cup {row[c]}
          /\ UNCHANGED <<msgs, about, stored, received, processed, agentVars, batch,
                         opens, shown, dropped>>
      BY <1>3 DEF ShowReply, rowVars, transportVars
    <2>3. /\ Goto(c, "prompt")
          /\ \A d \in Console \ {c} : row'[d] = row[d]
          /\ \A d \in Chat \ {c} : question'[d] = question[d]
      BY <1>3, PromptLemma DEF ShowReply
    <2> QED
      BY <1>1, <1>2, <2>1, <2>2, <2>3, LetGo
  <1>4. CASE CloseChat(c)
    <2>1. /\ EndChat(c) /\ UNCHANGED <<stored, processed>>
          /\ dropped' = IF pc[c] = "show" THEN dropped \cup {row[c]} ELSE dropped
      BY <1>4 DEF CloseChat
    <2> QED
      BY <1>1, <1>2, <2>1, EndChatLemma, LetGo
  <1>5. CASE CloseChatLate(c)
    <2>1. CASE /\ pc[c] = "send" /\ Store(question[c])
               /\ UNCHANGED <<processed, dropped>>
      BY <1>2, <1>5, <2>1, EndChatLemma, ConsoleInvStore
         DEF CloseChatLate, screenVars
    <2>2. CASE /\ pc[c] = "marking" /\ Ack(row[c])
               /\ dropped' = dropped \cup {row[c]} /\ UNCHANGED stored
      BY <1>1, <1>2, <1>5, <2>2, EndChatLemma, LetGo DEF CloseChatLate, Ack
    <2> QED
      BY <1>5, <2>1, <2>2 DEF CloseChatLate
  <1> QED
    BY <1>3, <1>4, <1>5

LEMMA ConsoleInvSend ==
    ASSUME ConsoleInv, NEW c \in Chat, SendQuestion(c)
    PROVE  ConsoleInv'
  <1>1. LocalsOK' /\ opens' \in 0 .. MaxOpens
    BY DEF ConsoleInv, LocalsOK, TypeOK, SendQuestion, sessionVars
  <1> QED
    BY <1>1, ConsoleInvStore DEF SendQuestion, sessionVars

\* A listener goes to a place where it holds no row: what its session has
\* shown is processed and not in what it works through next.
LEMMA ListenerMoves ==
    ASSUME ConsoleInv, NEW l \in Listener,
           NEW label \in {"closed", "fetch", "display"}, Goto(l, label),
           UNCHANGED <<msgs, about, stored, received, agentVars, question, again, pending,
                       seen, dropped>>,
           opens' \in 0 .. MaxOpens, LocalsOK',
           processed' = processed \/ (pc[l] = "marking" /\ Ack(row[l])),
           \A d \in Console \ {l} : row'[d] = row[d],
           \/ batch' = batch
           \/ \E b \in SUBSET Pending(l) : batch' = [batch EXCEPT ![l] = b],
           \/ shown' = [shown EXCEPT ![l] = << >>]
           \/ /\ shown' = shown
              /\ \A i \in DOMAIN shown[l] :
                    shown[l][i] \in processed' /\ shown[l][i] \notin batch'[l]
    PROVE  ConsoleInv'
  <1> USE ConsolesDiffer DEF ConsoleInv
  <1>1. /\ pc' \in [Console -> Labels] /\ pc'[l] = label
        /\ \A d \in Console \ {l} : pc'[d] = pc[d]
    BY DEF Goto, TypeOK, Labels
  <1>2. /\ processed \subseteq processed' /\ processed' \subseteq stored
        /\ \A r \in processed' \ processed : r \in seen /\ msgs[r].to = human
    BY DEF TypeOK, TransportTypeOK, Ack, ListenerOK
  <1>3. /\ batch' \in [Listener -> SUBSET stored]
        /\ \A r \in batch'[l] : msgs[r].to = human
        /\ \A m \in Listener \ {l} : batch'[m] = batch[m]
    BY DEF TypeOK, ListenerOK, Pending, Inbox
  <1>4. /\ shown' \in [Listener -> Seq(stored)]
        /\ \A m \in Listener \ {l} : shown'[m] = shown[m]
        /\ DOMAIN shown'[l] = {} \/ shown'[l] = shown[l]
    <2>1. << >> \in Seq(stored) /\ DOMAIN << >> = {}
      BY EmptySeq
    <2> QED
      BY <2>1 DEF TypeOK
  <1>5. TypeOK' /\ DraftOK'
    <2>1. AgentTypeOK' /\ DraftOK'
      BY <1>2, AgentsKept
    <2> QED
      BY <1>1, <1>2, <1>3, <1>4, <2>1 DEF TypeOK, TransportTypeOK
  <1>6. ListenerOK' /\ QuestionOK'
    BY <1>1, <1>3 DEF ListenerOK, QuestionOK
  <1>7. NothingUnseen'
    <2> SUFFICES ASSUME NEW r \in processed', msgs[r].to = human,
                        r \notin seen \cup dropped
                 PROVE  \E d \in Chat : pc'[d] = "show" /\ row'[d] = r
      BY DEF NothingUnseen
    <2>1. PICK d \in Chat : pc[d] = "show" /\ row[d] = r
      BY <1>2 DEF NothingUnseen
    <2> QED
      BY <1>1, <2>1
  <1>8. OldestHeld'
    BY <1>1, <1>2 DEF OldestHeld, OnThread
  <1>9. ShownRead' /\ ShownOnce'
    <2>1. ShownRead'
      <3> SUFFICES ASSUME NEW m \in Listener, NEW i \in DOMAIN shown'[m]
                   PROVE  /\ shown'[m][i] \notin batch'[m]
                          /\ \/ shown'[m][i] \in processed'
                             \/ pc'[m] = "marking" /\ shown'[m][i] = row'[m]
        BY DEF ShownRead
      <3>1. CASE m = l
        <4>1. CASE shown' = [shown EXCEPT ![l] = << >>]
          <5>1. shown'[l] = << >> /\ DOMAIN << >> = {}
            BY <4>1, EmptySeq DEF TypeOK
          <5> QED
            BY <3>1, <5>1
        <4>2. CASE shown' # [shown EXCEPT ![l] = << >>]
          BY <3>1, <4>2
        <4> QED
          BY <4>1, <4>2
      <3>2. CASE m # l
        BY <1>1, <1>2, <1>3, <1>4, <3>2 DEF ShownRead
      <3> QED
        BY <3>1, <3>2
    <2>2. ShownOnce'
      BY <1>4 DEF ShownOnce
    <2> QED
      BY <2>1, <2>2
  <1> QED
    BY <1>5, <1>6, <1>7, <1>8, <1>9

LEMMA ConsoleInvListener ==
    ASSUME ConsoleInv, NEW l \in Listener,
           OpenListener(l) \/ Fetch(l) \/ MarkDisplayed(l) \/ CloseListener(l)
    PROVE  ConsoleInv'
  <1> USE ConsolesDiffer DEF ConsoleInv
  <1>1. pc[l] # "marking" => \A i \in DOMAIN shown[l] : shown[l][i] \in processed
    BY DEF ShownRead
  <1>2. \A i \in DOMAIN shown[l] : shown[l][i] \notin batch[l]
    BY DEF ShownRead
  <1>3. CASE OpenListener(l)
    <2>1. opens' \in 0 .. MaxOpens /\ LocalsOK'
      BY <1>3, ConsoleAssumption
         DEF OpenListener, TypeOK, LocalsOK, rowVars, transportVars
    <2> QED
      BY <1>1, <1>2, <1>3, <2>1, ListenerMoves
         DEF OpenListener, rowVars, transportVars, screenVars
  <1>4. CASE Fetch(l)
    <2>1. opens' \in 0 .. MaxOpens /\ LocalsOK' /\ pc[l] = "fetch"
      BY <1>4 DEF Fetch, TypeOK, LocalsOK, rowVars, transportVars
    <2>2. batch'[l] = Pending(l) /\ batch' = [batch EXCEPT ![l] = Pending(l)]
      BY <1>4 DEF Fetch, TypeOK
    <2>3. \A i \in DOMAIN shown[l] : shown[l][i] \notin Pending(l)
      BY <1>1, <2>1 DEF Pending, Inbox
    <2>4. \A i \in DOMAIN shown[l] :
             shown[l][i] \in processed' /\ shown[l][i] \notin batch'[l]
      BY <1>1, <1>4, <2>1, <2>2, <2>3 DEF Fetch, rowVars, transportVars
    <2> QED
      BY <1>4, <2>1, <2>2, <2>4, ListenerMoves
         DEF Fetch, rowVars, transportVars, screenVars
  <1>5. CASE MarkDisplayed(l)
    <2>1. opens' \in 0 .. MaxOpens /\ LocalsOK' /\ pc[l] = "marking"
      BY <1>5 DEF MarkDisplayed, TypeOK, LocalsOK
    <2>2. \A i \in DOMAIN shown[l] :
             shown[l][i] \in processed' /\ shown[l][i] \notin batch'[l]
      BY <1>2, <1>5 DEF MarkDisplayed, Ack, ShownRead
    <2>3. \A d \in Console \ {l} : row'[d] = row[d]
      BY <1>5 DEF MarkDisplayed, LocalsOK
    <2>4. PICK label \in {"fetch", "display"} : Goto(l, label)
      BY <1>5 DEF MarkDisplayed
    <2> QED
      BY <1>5, <2>1, <2>2, <2>3, <2>4, ListenerMoves DEF MarkDisplayed, screenVars
  <1>6. CASE CloseListener(l)
    <2>1. opens' \in 0 .. MaxOpens /\ LocalsOK'
      BY <1>6 DEF CloseListener, TypeOK, LocalsOK
    <2>2. \A d \in Console \ {l} : row'[d] = row[d]
      BY <1>6 DEF CloseListener, LocalsOK
    <2>3. {} \in SUBSET Pending(l)
      OBVIOUS
    <2> QED
      BY <1>6, <2>1, <2>2, <2>3, ListenerMoves DEF CloseListener
  <1> QED
    BY <1>3, <1>4, <1>5, <1>6

\* A row is printed: it was fetched and has not been on this screen.
LEMMA ConsoleInvDisplay ==
    ASSUME ConsoleInv, NEW l \in Listener, Display(l)
    PROVE  ConsoleInv'
  <1> USE ConsolesDiffer DEF ConsoleInv
  <1>1. PICK r \in batch[l] :
          /\ row' = [row EXCEPT ![l] = r]
          /\ batch' = [batch EXCEPT ![l] = @ \ {r}]
          /\ shown' = [shown EXCEPT ![l] = Append(@, r)]
          /\ seen' = seen \cup {r}
    BY DEF Display
  <1>2. UNCHANGED <<msgs, about, stored, received, processed, agentVars, question, again,
                    opens, pending, dropped>>
    BY DEF Display, rowVars, transportVars
  <1>3. /\ pc' \in [Console -> Labels] /\ pc'[l] = "marking" /\ pc[l] = "display"
        /\ \A d \in Console \ {l} : pc'[d] = pc[d]
    BY DEF Goto, TypeOK, Labels, Display
  <1>4. r \in stored /\ r \in Nat /\ msgs[r].to = human
    BY RowIds DEF TypeOK, TransportTypeOK, ListenerOK
  <1>5. /\ row' \in [Console -> Nat] /\ row'[l] = r
        /\ \A d \in Console \ {l} : row'[d] = row[d]
    BY <1>1, <1>4 DEF LocalsOK
  <1>6. /\ batch' \in [Listener -> SUBSET stored] /\ batch'[l] = batch[l] \ {r}
        /\ \A m \in Listener \ {l} : batch'[m] = batch[m]
    BY <1>1 DEF TypeOK
  <1>7. /\ shown' \in [Listener -> Seq(stored)]
        /\ \A m \in Listener \ {l} : shown'[m] = shown[m]
        /\ Len(shown[l]) \in Nat /\ DOMAIN shown[l] = 1 .. Len(shown[l])
        /\ DOMAIN shown'[l] = 1 .. (Len(shown[l]) + 1)
        /\ shown'[l][Len(shown[l]) + 1] = r
        /\ \A i \in DOMAIN shown[l] : shown'[l][i] = shown[l][i]
    <2>1. shown[l] \in Seq(stored) /\ shown'[l] = Append(shown[l], r)
      BY <1>1 DEF TypeOK
    <2>2. Append(shown[l], r) \in Seq(stored)
      BY <1>4, <2>1, AppendProperties
    <2>3. shown' \in [Listener -> Seq(stored)]
      BY <1>1, <2>1, <2>2 DEF TypeOK
    <2> QED
      BY <1>1, <1>4, <2>1, <2>2, <2>3, AppendProperties, LenProperties DEF TypeOK
  <1>8. TypeOK' /\ DraftOK'
    <2>1. AgentTypeOK' /\ DraftOK'
      BY <1>2, AgentsKept
    <2> QED
      BY <1>1, <1>2, <1>3, <1>4, <1>5, <1>6, <1>7, <2>1 DEF TypeOK, TransportTypeOK
  <1>9. LocalsOK' /\ ListenerOK' /\ QuestionOK'
    <2>1. LocalsOK'
      BY <1>2, <1>5 DEF LocalsOK
    <2>2. ListenerOK'
      <3> SUFFICES ASSUME NEW m \in Listener
                   PROVE  /\ \A j \in batch'[m] : msgs'[j].to = human
                          /\ pc'[m] = "marking" => row'[m] \in seen'
        BY DEF ListenerOK
      <3>1. CASE m = l
        BY <1>1, <1>2, <1>5, <1>6, <3>1 DEF ListenerOK
      <3>2. CASE m # l
        BY <1>1, <1>2, <1>3, <1>5, <1>6, <3>2 DEF ListenerOK
      <3> QED
        BY <3>1, <3>2
    <2>3. QuestionOK'
      BY <1>2, <1>3 DEF QuestionOK
    <2> QED
      BY <2>1, <2>2, <2>3
  <1>10. NothingUnseen' /\ OldestHeld'
    BY <1>1, <1>2, <1>3, <1>5 DEF NothingUnseen, OldestHeld, OnThread
  <1>11. \A i \in DOMAIN shown[l] : shown[l][i] # r
    BY DEF ShownRead
  <1>12. ShownRead'
    <2> SUFFICES ASSUME NEW m \in Listener, NEW i \in DOMAIN shown'[m]
                 PROVE  /\ shown'[m][i] \notin batch'[m]
                        /\ \/ shown'[m][i] \in processed'
                           \/ pc'[m] = "marking" /\ shown'[m][i] = row'[m]
      BY DEF ShownRead
    <2>1. CASE m # l
      <3>1. /\ shown'[m] = shown[m] /\ batch'[m] = batch[m]
            /\ pc'[m] = pc[m] /\ row'[m] = row[m] /\ i \in DOMAIN shown[m]
        BY <1>3, <1>5, <1>6, <1>7, <2>1
      <3> QED
        BY <1>2, <3>1 DEF ShownRead
    <2>2. CASE m = l /\ i = Len(shown[l]) + 1
      BY <1>3, <1>5, <1>6, <1>7, <2>2
    <2>3. CASE m = l /\ i # Len(shown[l]) + 1
      <3>1. i \in DOMAIN shown[l]
        BY <1>7, <2>3
      <3> QED
        BY <1>2, <1>3, <1>6, <1>7, <2>3, <3>1 DEF ShownRead
    <2> QED
      BY <2>1, <2>2, <2>3
  <1>13. ShownOnce'
    <2> SUFFICES ASSUME NEW m \in Listener,
                        NEW i \in DOMAIN shown'[m], NEW j \in DOMAIN shown'[m],
                        shown'[m][i] = shown'[m][j]
                 PROVE  i = j
      BY DEF ShownOnce
    <2>1. CASE m # l
      BY <1>7, <2>1 DEF ShownOnce
    <2>2. CASE m = l
      <3>1. /\ i \in 1 .. (Len(shown[l]) + 1) /\ j \in 1 .. (Len(shown[l]) + 1)
            /\ shown'[l][i] = shown'[l][j]
        BY <1>7, <2>2
      <3>2. /\ i \in DOMAIN shown[l] \/ i = Len(shown[l]) + 1
            /\ j \in DOMAIN shown[l] \/ j = Len(shown[l]) + 1
        BY <1>7, <3>1
      <3> QED
        BY <1>7, <1>11, <3>1, <3>2 DEF ShownOnce
    <2> QED
      BY <2>1, <2>2
  <1> QED
    BY <1>8, <1>9, <1>10, <1>12, <1>13

\* receive, ack, or the end of run_once without a reply: no row is added.
LEMMA ConsoleInvWork ==
    ASSUME ConsoleInv, NEW n \in Agent,
           AgentReceives(n) \/ AgentAcks(n) \/ AgentGivesUp(n)
    PROVE  ConsoleInv'
  <1> USE ConsolesDiffer, NamesDiffer DEF ConsoleInv
  <1>1. /\ UNCHANGED <<msgs, stored, about, pc, row, question, again, batch, opens,
                       pending, shown, seen, dropped>>
        /\ processed \subseteq processed' /\ processed' \subseteq stored
        /\ \A i \in processed' \ processed : msgs[i].to # human /\ msgs[i].to = n
        /\ received \subseteq received' /\ received' \subseteq stored
        /\ \A i \in received' \ received : msgs[i].to \in Agent
        /\ at' \in [Agent -> {"idle", "working", "acked", "sending"}]
        /\ held' \in [Agent -> Nat] /\ draft' \in [Agent -> Nat]
        /\ \A m \in Agent \ {n} : /\ at'[m] = at[m] /\ held'[m] = held[m]
                                  /\ draft'[m] = draft[m]
    <2>1. AgentTypeOK /\ TransportTypeOK /\ stored \subseteq Nat
      BY RowIds DEF TypeOK, TransportTypeOK
    <2>2. CASE AgentReceives(n)
      BY <2>1, <2>2 DEF AgentReceives, OldestInInbox, Inbox, MarkReceived, AgentTypeOK,
         TransportTypeOK, sessionVars, screenVars
    <2>3. CASE AgentAcks(n)
      BY <2>1, <2>3 DEF AgentAcks, Ack, Inbox, AgentTypeOK, TransportTypeOK,
         sessionVars, screenVars
    <2>4. CASE AgentGivesUp(n)
      BY <2>1, <2>4 DEF AgentGivesUp, AgentLeaves, AgentTypeOK, TransportTypeOK,
         sessionVars, screenVars
    <2> QED
      BY <2>2, <2>3, <2>4
  <1>2. /\ at'[n] = "working" => held'[n] \in Inbox(n)'
        /\ at'[n] = "acked" => held'[n] \in processed'
        /\ at'[n] # "sending"
    <2>1. AgentTypeOK
      BY DEF TypeOK
    <2>2. CASE AgentReceives(n)
      <3>1. PICK i \in stored : OldestInInbox(n, i) /\ held' = [held EXCEPT ![n] = i]
        BY <2>2 DEF AgentReceives
      <3>2. i \in Inbox(n) /\ held'[n] = i /\ at'[n] = "working"
        BY <2>1, <2>2, <3>1 DEF AgentReceives, OldestInInbox, AgentTypeOK
      <3>3. Inbox(n)' = Inbox(n)
        BY <2>2 DEF AgentReceives, Inbox
      <3> QED
        BY <3>2, <3>3
    <2>3. CASE AgentAcks(n)
      BY <2>1, <2>3 DEF AgentAcks, Ack, AgentTypeOK
    <2>4. CASE AgentGivesUp(n)
      BY <2>1, <2>4 DEF AgentGivesUp, AgentLeaves, AgentTypeOK
    <2> QED
      BY <2>2, <2>3, <2>4
  <1>3. AgentTypeOK'
    <2> SUFFICES ASSUME NEW m \in Agent
                 PROVE  /\ at'[m] = "working" => held'[m] \in Inbox(m)'
                        /\ at'[m] \in {"acked", "sending"} => held'[m] \in processed'
                        /\ at'[m] = "sending" => draft'[m] \in DOMAIN msgs \ stored
      BY <1>1 DEF AgentTypeOK
    <2>1. CASE m = n
      BY <1>2, <2>1
    <2>2. CASE m # n
      BY <1>1, <2>2 DEF TypeOK, AgentTypeOK, Inbox
    <2> QED
      BY <2>1, <2>2
  <1>4. TypeOK'
    BY <1>1, <1>3 DEF TypeOK, TransportTypeOK
  <1>5. LocalsOK' /\ ListenerOK' /\ QuestionOK'
    BY <1>1 DEF LocalsOK, ListenerOK, QuestionOK
  <1>6. DraftOK'
    <2> SUFFICES ASSUME NEW m \in Agent, at'[m] = "sending", m # n
                 PROVE  /\ msgs[draft'[m]].from = m
                        /\ \A i \in DOMAIN msgs : msgs[i].from = m => i <= draft'[m]
                        /\ msgs[draft'[m]].thread = msgs[held'[m]].thread
                        /\ about[draft'[m]] = about[held'[m]]
      BY <1>1, <1>2 DEF DraftOK
    <2> QED
      BY <1>1 DEF DraftOK
  <1>7. NothingUnseen' /\ OldestHeld'
    BY <1>1 DEF NothingUnseen, OldestHeld, OnThread
  <1>8. ShownRead' /\ ShownOnce'
    BY <1>1 DEF ShownRead, ShownOnce
  <1> QED
    BY <1>4, <1>5, <1>6, <1>7, <1>8

\* What an agent writes: a message of its own on the thread of the row it
\* answers, not yet a row.
LEMMA ComposedReply ==
    ASSUME ConsoleInv, NEW n \in Agent, AgentComposes(n)
    PROVE  \E env \in Envelope :
              /\ env.from = n /\ env.thread = msgs[held[n]].thread
              /\ Compose(env) /\ msgs'[Len(msgs')] = env
              /\ held[n] \in processed /\ held[n] \in DOMAIN msgs
              /\ about' \in [DOMAIN msgs' -> DOMAIN msgs']
              /\ about'[Len(msgs')] = about[held[n]]
              /\ \A i \in DOMAIN msgs : about'[i] = about[i]
  <1> USE NamesDiffer DEF ConsoleInv
  <1>1. /\ at[n] = "acked" /\ held[n] \in processed /\ held[n] \in DOMAIN msgs
        /\ TransportTypeOK
    BY DEF AgentComposes, TypeOK, AgentTypeOK, TransportTypeOK
  <1>2. PICK to \in NextOf[n] :
           Compose([from |-> n, to |-> to, thread |-> msgs[held[n]].thread,
                    parent |-> held[n]])
    BY DEF AgentComposes
  <1> DEFINE env == [from |-> n, to |-> to, thread |-> msgs[held[n]].thread,
                     parent |-> held[n]]
  <1>3. env \in Envelope
    BY <1>1, RowIds, ConsoleAssumption DEF Envelope
  <1>4. about[held[n]] \in DOMAIN msgs /\ about' = Append(about, about[held[n]])
    BY <1>1 DEF TypeOK, AgentComposes
  <1>5. msgs'[Len(msgs')] = env
    BY <1>1, <1>2, <1>3, LogGrows
  <1>6. env.from = n /\ env.thread = msgs[held[n]].thread /\ Compose(env)
    BY <1>2
  <1> HIDE DEF env
  <1>7. /\ about' \in [DOMAIN msgs' -> DOMAIN msgs']
        /\ about'[Len(msgs')] = about[held[n]]
        /\ \A i \in DOMAIN msgs : about'[i] = about[i]
    BY <1>3, <1>4, <1>6, AboutGrows
  <1> QED
    BY <1>1, <1>3, <1>5, <1>6, <1>7

LEMMA ConsoleInvCompose ==
    ASSUME ConsoleInv, NEW n \in Agent, AgentComposes(n)
    PROVE  ConsoleInv'
  <1> USE ConsolesDiffer, NamesDiffer DEF ConsoleInv
  <1>1. PICK env \in Envelope :
              /\ env.from = n /\ env.thread = msgs[held[n]].thread
              /\ Compose(env) /\ msgs'[Len(msgs')] = env
              /\ held[n] \in processed /\ held[n] \in DOMAIN msgs
              /\ about' \in [DOMAIN msgs' -> DOMAIN msgs']
              /\ about'[Len(msgs')] = about[held[n]]
              /\ \A i \in DOMAIN msgs : about'[i] = about[i]
    BY ComposedReply
  <1>2. PICK k : /\ k = Len(msgs') /\ k \in Nat /\ k \notin DOMAIN msgs
                 /\ msgs' \in Seq(Envelope)
                 /\ DOMAIN msgs' = DOMAIN msgs \cup {k} /\ msgs'[k] = env
                 /\ \A i \in DOMAIN msgs : msgs'[i] = msgs[i] /\ i < k
    BY <1>1, LogGrows DEF TypeOK
  <1>3. /\ UNCHANGED <<stored, received, processed, held, pc, row, question, again,
                       batch, opens, pending, shown, seen, dropped>>
        /\ draft' = [draft EXCEPT ![n] = k] /\ at' = [at EXCEPT ![n] = "sending"]
    BY <1>2 DEF AgentComposes, sessionVars, screenVars
  <1>4. TransportTypeOK /\ AgentTypeOK /\ stored \subseteq DOMAIN msgs
        /\ processed \subseteq stored /\ received \subseteq stored
    BY DEF TypeOK, TransportTypeOK
  <1>5. \A i \in stored : msgs'[i] = msgs[i]
    BY <1>2, <1>4
  <1>6. /\ at' \in [Agent -> {"idle", "working", "acked", "sending"}]
        /\ at'[n] = "sending"
        /\ draft' \in [Agent -> Nat]
        /\ \A m \in Agent \ {n} : at'[m] = at[m] /\ draft'[m] = draft[m]
    BY <1>2, <1>3, <1>4 DEF AgentTypeOK
  <1>7. at'[n] = "sending" /\ draft'[n] = k
    BY <1>3, <1>4 DEF AgentTypeOK
  <1>8. AgentTypeOK'
    <2> SUFFICES ASSUME NEW m \in Agent
                 PROVE  /\ at'[m] = "working" => held[m] \in Inbox(m)'
                        /\ at'[m] \in {"acked", "sending"} => held[m] \in processed
                        /\ at'[m] = "sending" => draft'[m] \in DOMAIN msgs' \ stored
      BY <1>3, <1>4, <1>6 DEF AgentTypeOK
    <2>1. CASE m = n
      BY <1>1, <1>2, <1>4, <1>7, <2>1
    <2>2. CASE m # n
      <3>1. Inbox(m)' = Inbox(m)
        BY <1>3, <1>5 DEF Inbox
      <3> QED
        BY <1>2, <1>4, <1>6, <2>2, <3>1 DEF AgentTypeOK
    <2> QED
      BY <2>1, <2>2
  <1>9. TypeOK'
    <2>1. TransportTypeOK'
      BY <1>2, <1>3, <1>4 DEF TransportTypeOK
    <2>2. pending \in [Chat -> SUBSET DOMAIN msgs']
      BY <1>2 DEF TypeOK
    <2>3. \A c \in Console : pc[c] \in {"marking", "show"} =>
             row[c] \in stored /\ msgs'[row[c]].to = human
      BY <1>5 DEF TypeOK
    <2> QED
      BY <1>1, <1>2, <1>3, <1>4, <1>5, <1>8, <2>1, <2>2, <2>3 DEF TypeOK
  <1>10. LocalsOK' /\ ListenerOK' /\ QuestionOK'
    <2>1. LocalsOK'
      BY <1>2, <1>3, <1>6 DEF LocalsOK
    <2>2. ListenerOK'
      BY <1>3, <1>5 DEF ListenerOK, TypeOK
    <2>3. QuestionOK'
      BY <1>2, <1>3 DEF QuestionOK, TypeOK
    <2> QED
      BY <2>1, <2>2, <2>3
  <1>11. DraftOK'
    <2> SUFFICES ASSUME NEW m \in Agent, at'[m] = "sending"
                 PROVE  /\ msgs'[draft'[m]].from = m
                        /\ \A i \in DOMAIN msgs' : msgs'[i].from = m => i <= draft'[m]
                        /\ msgs'[draft'[m]].thread = msgs'[held[m]].thread
                        /\ about'[draft'[m]] = about'[held[m]]
      BY <1>3 DEF DraftOK
    <2>1. CASE m = n
      <3>1. \A i \in DOMAIN msgs' : i <= k
        BY <1>2, RowIds, <1>4
      <3> QED
        BY <1>1, <1>2, <1>7, <2>1, <3>1
    <2>2. CASE m # n
      <3>1. /\ at[m] = "sending" /\ draft'[m] = draft[m]
            /\ draft[m] \in DOMAIN msgs /\ held[m] \in DOMAIN msgs
        BY <1>4, <1>6, <2>2 DEF AgentTypeOK
      <3>2. \A i \in DOMAIN msgs' : msgs'[i].from = m => i <= draft[m]
        BY <1>1, <1>2, <2>2, <3>1 DEF DraftOK
      <3> QED
        BY <1>1, <1>2, <3>1, <3>2 DEF DraftOK
    <2> QED
      BY <2>1, <2>2
  <1>12. NothingUnseen' /\ OldestHeld'
    <2>1. NothingUnseen'
      BY <1>3, <1>4, <1>5 DEF NothingUnseen
    <2>2. \A t : OnThread(t)' = OnThread(t)
      BY <1>3, <1>5 DEF OnThread
    <2>3. OldestHeld'
      <3> SUFFICES ASSUME NEW c \in Chat, pc[c] \in {"marking", "show"},
                          NEW i \in OnThread(ThreadOf[c]),
                          msgs'[i].to = human, msgs'[i].from = msgs'[row[c]].from,
                          i < row[c]
                   PROVE  i \in processed
        BY <1>3, <2>2 DEF OldestHeld
      <3>1. i \in stored /\ row[c] \in stored
        BY DEF OnThread, TypeOK
      <3> QED
        BY <1>5, <3>1 DEF OldestHeld
    <2> QED
      BY <2>1, <2>3
  <1>13. ShownRead' /\ ShownOnce'
    BY <1>3 DEF ShownRead, ShownOnce
  <1> QED
    BY <1>9, <1>10, <1>11, <1>12, <1>13

\* COMMIT of a reply: it is younger than what the same agent has sent, so than
\* any row of it that a chat holds.
LEMMA ConsoleInvReply ==
    ASSUME ConsoleInv, NEW n \in Agent, AgentSends(n)
    PROVE  ConsoleInv'
  <1> USE ConsolesDiffer, NamesDiffer DEF ConsoleInv
  <1>1. /\ UNCHANGED <<msgs, received, processed, about, pc, row, question, again,
                       batch, opens, pending, shown, seen, dropped>>
        /\ stored' = stored \cup {draft[n]} /\ at[n] = "sending"
        /\ at' = [at EXCEPT ![n] = "idle"] /\ held' = [held EXCEPT ![n] = 0]
        /\ draft' = [draft EXCEPT ![n] = 0]
    BY DEF AgentSends, AgentLeaves, Store, sessionVars, screenVars
  <1>2. /\ TransportTypeOK /\ AgentTypeOK /\ stored \subseteq DOMAIN msgs
        /\ draft[n] \in DOMAIN msgs \ stored /\ draft[n] \in Nat
        /\ msgs[draft[n]].from = n
        /\ \A i \in DOMAIN msgs : msgs[i].from = n => i <= draft[n]
    BY <1>1, RowIds DEF TypeOK, AgentTypeOK, TransportTypeOK, DraftOK
  <1>3. /\ at' \in [Agent -> {"idle", "working", "acked", "sending"}]
        /\ at'[n] = "idle" /\ held' \in [Agent -> Nat] /\ draft' \in [Agent -> Nat]
        /\ \A m \in Agent \ {n} : /\ at'[m] = at[m] /\ held'[m] = held[m]
                                  /\ draft'[m] = draft[m]
    BY <1>1, <1>2 DEF AgentTypeOK
  <1>4. shown \in [Listener -> Seq(stored')]
    <2>1. \A l \in Listener : shown[l] \in Seq(stored')
      <3> SUFFICES ASSUME NEW l \in Listener PROVE shown[l] \in Seq(stored')
        OBVIOUS
      <3>1. shown[l] \in Seq(stored)
        BY DEF TypeOK
      <3>2. \A j \in 1 .. Len(shown[l]) : shown[l][j] \in stored'
        BY <1>1, <3>1, ElementOfSeq
      <3> QED
        BY <3>1, <3>2, SeqDef, LenProperties
    <2> QED
      BY <2>1 DEF TypeOK
  <1>5. AgentTypeOK' /\ DraftOK'
    <2>1. \A m \in Agent \ {n} : at[m] = "sending" => draft[m] # draft[n]
      BY <1>2 DEF DraftOK
    <2>2. AgentTypeOK'
      <3> SUFFICES ASSUME NEW m \in Agent \ {n}
                   PROVE  /\ at[m] = "working" => held[m] \in Inbox(m)'
                          /\ at[m] \in {"acked", "sending"} => held[m] \in processed
                          /\ at[m] = "sending" => draft[m] \in DOMAIN msgs \ stored'
        BY <1>1, <1>3 DEF AgentTypeOK
      <3>1. at[m] = "working" => held[m] \in Inbox(m)'
        BY <1>1, <1>2 DEF AgentTypeOK, Inbox
      <3> QED
        BY <1>1, <1>2, <2>1, <3>1 DEF AgentTypeOK
    <2>3. DraftOK'
      <3> SUFFICES ASSUME NEW m \in Agent \ {n}, at[m] = "sending"
                   PROVE  /\ msgs[draft[m]].from = m
                          /\ \A i \in DOMAIN msgs : msgs[i].from = m => i <= draft[m]
                          /\ msgs[draft[m]].thread = msgs[held[m]].thread
                          /\ about[draft[m]] = about[held[m]]
        BY <1>1, <1>3 DEF DraftOK
      <3> QED
        BY DEF DraftOK
    <2> QED
      BY <2>2, <2>3
  <1>6. TypeOK'
    BY <1>1, <1>2, <1>4, <1>5 DEF TypeOK, TransportTypeOK
  <1>7. LocalsOK' /\ ListenerOK' /\ QuestionOK'
    BY <1>1 DEF LocalsOK, ListenerOK, QuestionOK
  <1>8. NothingUnseen' /\ ShownRead' /\ ShownOnce'
    BY <1>1 DEF NothingUnseen, ShownRead, ShownOnce
  <1>9. OldestHeld'
    <2> SUFFICES ASSUME NEW c \in Chat, pc[c] \in {"marking", "show"},
                        NEW i \in OnThread(ThreadOf[c])', msgs[i].to = human,
                        msgs[i].from = msgs[row[c]].from, i < row[c]
                 PROVE  i \in processed
      BY <1>1 DEF OldestHeld
    <2>1. row[c] \in DOMAIN msgs /\ row[c] \in Nat
      BY <1>2 DEF TypeOK, LocalsOK
    <2>2. i # draft[n]
      BY <1>2, <2>1
    <2>3. i \in OnThread(ThreadOf[c])
      BY <1>1, <2>2 DEF OnThread
    <2> QED
      BY <2>3 DEF OldestHeld
  <1> QED
    BY <1>5, <1>6, <1>7, <1>8, <1>9

-----------------------------------------------------------------------------
LEMMA ConsoleInvNext == ConsoleInv /\ [Next]_consoleVars => ConsoleInv'
  <1> SUFFICES ASSUME ConsoleInv, [Next]_consoleVars PROVE ConsoleInv'
    OBVIOUS
  <1>1. ASSUME NEW c \in Chat,
               OpenChat(c) \/ ChatStep(c) \/ CloseChat(c) \/ CloseChatLate(c)
        PROVE  ConsoleInv'
    <2>1. CASE PollReply(c)
      <3>1. CASE \E r \in stored : /\ OldestReply(ThreadOf[c], r)
                                   /\ row' = [row EXCEPT ![c] = r]
                                   /\ Goto(c, "marking")
        BY <2>1, <3>1, ConsoleInvFound
      <3>2. CASE Goto(c, "sleep") /\ UNCHANGED row
        BY <2>1, <3>2, ConsoleInvQuiet
      <3> QED
        BY <2>1, <3>1, <3>2 DEF PollReply
    <2>2. CASE \/ OpenChat(c) \/ PollAgain(c) \/ TimeOut(c) \/ WaitOn(c)
               \/ GiveUp(c)
      BY <2>2, ConsoleInvQuiet
    <2>3. CASE ShowReply(c) \/ CloseChat(c) \/ CloseChatLate(c)
      BY <2>3, ConsoleInvLetGo
    <2>4. CASE Ask(c)
      BY <2>4, ConsoleInvAsk
    <2>5. CASE SendQuestion(c)
      BY <2>5, ConsoleInvSend
    <2>6. CASE MarkReply(c)
      BY <2>6, ConsoleInvMarkReply
    <2> QED
      BY <1>1, <2>1, <2>2, <2>3, <2>4, <2>5, <2>6 DEF ChatStep
  <1>2. ASSUME NEW l \in Listener,
               OpenListener(l) \/ ListenStep(l) \/ CloseListener(l)
        PROVE  ConsoleInv'
    BY <1>2, ConsoleInvListener, ConsoleInvDisplay DEF ListenStep
  <1>3. CASE \E n \in Agent : AgentStep(n)
    BY <1>3, ConsoleInvWork, ConsoleInvCompose, ConsoleInvReply DEF AgentStep
  <1>4. CASE UNCHANGED consoleVars
    BY <1>4 DEF consoleVars, sessionVars, screenVars, rowVars, transportVars, agentVars,
                ConsoleInv, TypeOK, TransportTypeOK, AgentTypeOK, Inbox, LocalsOK,
                ListenerOK, QuestionOK,
                DraftOK, NothingUnseen, OldestHeld, OnThread, ShownRead, ShownOnce
  <1> QED
    BY <1>1, <1>2, <1>3, <1>4 DEF Next

LEMMA ConsoleInvAlways == Spec => []ConsoleInv
  <1>1. Init => ConsoleInv
    BY ConsoleInvInit
  <1>2. ConsoleInv /\ [Next]_consoleVars => ConsoleInv'
    BY ConsoleInvNext
  <1> QED
    BY <1>1, <1>2, PTL DEF Spec

\* The row a console holds is one of its table and addressed to the human, a
\* chat that waits has sent something, no row of the human is ever given a
\* received_at (chat.py and listen.py only set processed_at), and no console
\* takes a row from under an agent.
THEOREM ConsoleTypeCorrect == Spec => []TypeOK
  <1>1. ConsoleInv => TypeOK
    BY DEF ConsoleInv
  <1> QED
    BY <1>1, ConsoleInvAlways, PTL

\* However many chats and listeners read the table together, and whenever
\* they are interrupted, no reply disappears unseen but in the hands of a
\* chat that was stopped between _poll_reply and the panel.
THEOREM NothingUnseenCorrect == Spec => []NothingUnseen
  <1>1. ConsoleInv => NothingUnseen
    BY DEF ConsoleInv
  <1> QED
    BY <1>1, ConsoleInvAlways, PTL

\* One session of listen shows a row once: what _listen has shown it has
\* marked before its next query, or is about to.
THEOREM ShownOnceCorrect == Spec => []ShownOnce
  <1>1. ConsoleInv => ShownOnce
    BY DEF ConsoleInv
  <1> QED
    BY <1>1, ConsoleInvAlways, PTL

\* A chat shows no reply of an agent while an older one of that agent on its
\* thread is unread: between _REPLY_QUERY and the panel an agent can only commit
\* what it has constructed after all it sent.  Of two agents nothing is claimed:
\* either may commit before the other what it constructed after it.
THEOREM RepliesInOrderCorrect == Spec => []RepliesInOrder
  <1>1. ConsoleInv => RepliesInOrder
    BY DEF ConsoleInv, OldestHeld, RepliesInOrder
  <1> QED
    BY <1>1, ConsoleInvAlways, PTL

-----------------------------------------------------------------------------
(***************************************************************************)
(* The reply a chat shows goes back to the question just asked or to one   *)
(* that was unanswered then: the invariant on what is still to come on the *)
(* thread of a chat, and the theorem.                                      *)
(***************************************************************************)

Asking(c) == pc[c] \in {"send", "poll", "sleep", "offer", "marking", "show"}

\* The questions a reply may be about.
Accepted(c) == pending[c] \cup {question[c]}

Status(c) ==
    /\ pc[c] = "send" => /\ msgs[question[c]].thread = ThreadOf[c]
                         /\ about[question[c]] = question[c]
    /\ Alone(c) /\ Asking(c) => Unanswered(ThreadOf[c]) \subseteq Accepted(c)
    /\ Alone(c) /\ pc[c] \in {"marking", "show"} => about[row[c]] \in Accepted(c)

AnswerInv == \A c \in Chat : Status(c)

-----------------------------------------------------------------------------
LEMMA AnswerInvInit == Init => AnswerInv
  BY ConsolesDiffer DEF Init, AnswerInv, Status, Asking

\* Open, without the set of agents.
LEMMA OpenRows ==
    ASSUME ConsoleInv, NEW t
    PROVE  /\ Open(t) \subseteq stored
           /\ \A i \in stored :
                 i \in Open(t) <=>
                    /\ msgs[i].thread = t
                    /\ \/ i \notin processed
                       \/ \E n \in Agent : at[n] \in {"acked", "sending"} /\ held[n] = i
  BY DEF Open, OnThread

\* After a step in which c does nothing.
LEMMA StatusKept ==
    ASSUME ConsoleInv, NEW c \in Chat, Status(c),
           pc'[c] = pc[c], row'[c] = row[c], question'[c] = question[c],
           pending'[c] = pending[c],
           \A i \in DOMAIN msgs : msgs'[i] = msgs[i] /\ about'[i] = about[i],
           Alone(c) => Unanswered(ThreadOf[c])' \subseteq Unanswered(ThreadOf[c])
    PROVE  Status(c)'
  <1>1. /\ pc[c] = "send" => question[c] \in DOMAIN msgs
        /\ pc[c] \in {"marking", "show"} => row[c] \in DOMAIN msgs
    BY ConsolesDiffer DEF ConsoleInv, TypeOK, TransportTypeOK
  <1> QED
    BY <1>1 DEF Status, Asking, Accepted, Alone

\* Fewer rows are open on t than before.
LEMMA FewerOpen ==
    ASSUME ConsoleInv, NEW t, Open(t)' \subseteq Open(t),
           \A i \in DOMAIN msgs : about'[i] = about[i]
    PROVE  Unanswered(t)' \subseteq Unanswered(t)
  <1>1. Open(t) \subseteq DOMAIN msgs
    BY OpenRows DEF ConsoleInv, TypeOK, TransportTypeOK
  <1> QED
    BY <1>1 DEF Unanswered

\* The consoles: what they add to the table is a question, and what they mark
\* is no longer open.
LEMMA ConsolesOpen ==
    ASSUME ConsoleInv, NEW t, UNCHANGED agentVars,
           \A i \in DOMAIN msgs : msgs'[i] = msgs[i],
           processed \subseteq processed',
           \A i \in processed' \ processed : msgs[i].to = human,
           stored' \subseteq DOMAIN msgs
    PROVE  Open(t)' \subseteq
              Open(t) \cup {i \in stored' \ stored : msgs[i].thread = t}
  <1>1. stored \subseteq DOMAIN msgs
    BY DEF ConsoleInv, TypeOK, TransportTypeOK
  <1> QED
    BY <1>1 DEF Open, OnThread, agentVars

\* The work of an agent: the row it has answered stands for the reply until
\* that is committed.
LEMMA AgentsOpen ==
    ASSUME ConsoleInv, NEW n \in Agent, AgentStep(n), NEW t
    PROVE  Unanswered(t)' \subseteq Unanswered(t)
  <1> USE NamesDiffer
  <1>1. /\ TransportTypeOK /\ AgentTypeOK /\ DraftOK
        /\ stored \subseteq DOMAIN msgs /\ processed \subseteq stored
    BY DEF ConsoleInv, TypeOK, TransportTypeOK
  <1>2. CASE AgentReceives(n)
    <2>1. /\ UNCHANGED <<msgs, stored, processed, about>> /\ at[n] = "idle"
          /\ at'[n] = "working"
          /\ \A m \in Agent \ {n} : at'[m] = at[m] /\ held'[m] = held[m]
      BY <1>1, <1>2 DEF AgentReceives, AgentTypeOK
    <2>2. Open(t)' \subseteq Open(t)
      BY <2>1 DEF Open, OnThread
    <2> QED
      BY <2>1, <2>2, FewerOpen
  <1>3. CASE AgentAcks(n)
    <2>1. /\ UNCHANGED <<msgs, stored, about, held>>
          /\ processed' = processed \cup {held[n]}
          /\ held[n] \in stored \ processed
          /\ \A m \in Agent \ {n} : at'[m] = at[m]
      BY <1>1, <1>3 DEF AgentAcks, Ack, AgentTypeOK, Inbox
    <2>2. Open(t)' \subseteq Open(t)
      BY <2>1 DEF Open, OnThread
    <2> QED
      BY <2>1, <2>2, FewerOpen
  <1>4. CASE AgentComposes(n)
    <2>1. /\ UNCHANGED <<stored, processed, held>> /\ at[n] = "acked"
          /\ \A m \in Agent \ {n} : at'[m] = at[m]
      BY <1>1, <1>4 DEF AgentComposes, AgentTypeOK
    <2>2. PICK env \in Envelope :
             /\ Compose(env) /\ \A i \in DOMAIN msgs : about'[i] = about[i]
      BY <1>4, ComposedReply
    <2>3. \A i \in DOMAIN msgs : msgs'[i] = msgs[i]
      BY <1>1, <2>2, LogGrows
    <2>4. Open(t)' \subseteq Open(t)
      BY <1>1, <2>1, <2>3 DEF Open, OnThread
    <2> QED
      BY <2>2, <2>4, FewerOpen
  <1>5. CASE AgentSends(n)
    <2>1. /\ UNCHANGED <<msgs, processed, about>> /\ at[n] = "sending"
          /\ stored' = stored \cup {draft[n]} /\ at'[n] = "idle"
          /\ \A m \in Agent \ {n} : at'[m] = at[m] /\ held'[m] = held[m]
      BY <1>1, <1>5 DEF AgentSends, AgentLeaves, Store, AgentTypeOK
    <2>2. /\ held[n] \in stored /\ msgs[draft[n]].thread = msgs[held[n]].thread
          /\ about[draft[n]] = about[held[n]]
      BY <1>1, <2>1 DEF DraftOK, AgentTypeOK
    <2>3. Open(t)' \subseteq Open(t) \cup {draft[n]}
      BY <2>1 DEF Open, OnThread
    <2>4. draft[n] \in Open(t)' => held[n] \in Open(t)
      BY <2>1, <2>2 DEF Open, OnThread
    <2> QED
      BY <2>1, <2>2, <2>3, <2>4 DEF Unanswered
  <1>6. CASE AgentGivesUp(n)
    <2>1. /\ UNCHANGED <<msgs, stored, processed, about>> /\ at'[n] = "idle"
          /\ \A m \in Agent \ {n} : at'[m] = at[m] /\ held'[m] = held[m]
      BY <1>1, <1>6 DEF AgentGivesUp, AgentLeaves, AgentTypeOK
    <2>2. Open(t)' \subseteq Open(t)
      BY <2>1 DEF Open, OnThread
    <2> QED
      BY <2>1, <2>2, FewerOpen
  <1> QED
    BY <1>2, <1>3, <1>4, <1>5, <1>6 DEF AgentStep

\* An agent leaves the chats and what is in the log alone.
LEMMA AgentsStep ==
    ASSUME ConsoleInv, AnswerInv, NEW c \in Chat, NEW n \in Agent, AgentStep(n)
    PROVE  Status(c)'
  <1>1. UNCHANGED <<pc, row, question, pending>>
    BY DEF AgentStep, AgentReceives, AgentAcks, AgentComposes, AgentSends,
           AgentGivesUp, AgentLeaves, sessionVars
  <1>2. \A i \in DOMAIN msgs : msgs'[i] = msgs[i] /\ about'[i] = about[i]
    <2>1. CASE AgentComposes(n)
      <3>1. PICK env \in Envelope :
               /\ Compose(env) /\ \A i \in DOMAIN msgs : about'[i] = about[i]
        BY <2>1, ComposedReply
      <3> QED
        BY <3>1, LogGrows DEF ConsoleInv, TypeOK
    <2>2. CASE ~AgentComposes(n)
      BY <2>2 DEF AgentStep, AgentReceives, AgentAcks, AgentSends, AgentGivesUp,
                  AgentLeaves
    <2> QED
      BY <2>1, <2>2
  <1> QED
    BY <1>1, <1>2, AgentsOpen, StatusKept DEF AnswerInv

\* A listener only marks rows for the human.
LEMMA ListenersStep ==
    ASSUME ConsoleInv, AnswerInv, NEW c \in Chat, NEW l \in Listener,
           OpenListener(l) \/ ListenStep(l) \/ CloseListener(l)
    PROVE  Status(c)'
  <1> USE ConsolesDiffer
  <1>1. /\ pc'[c] = pc[c] /\ row'[c] = row[c]
        /\ UNCHANGED <<question, pending, msgs, about, stored, agentVars>>
        /\ \/ processed' = processed
           \/ pc[l] = "marking" /\ processed' = processed \cup {row[l]}
    BY DEF ConsoleInv, TypeOK, LocalsOK, OpenListener, ListenStep, Fetch, Display,
           MarkDisplayed, CloseListener, Goto, Ack, rowVars, transportVars
  <1>2. pc[l] = "marking" => msgs[row[l]].to = human
    BY DEF ConsoleInv, TypeOK
  <1>3. Open(ThreadOf[c])' \subseteq Open(ThreadOf[c])
    <2>1. stored' \subseteq DOMAIN msgs /\ stored' \ stored = {}
      BY <1>1 DEF ConsoleInv, TypeOK, TransportTypeOK
    <2> QED
      BY <1>1, <1>2, <2>1, ConsolesOpen
  <1>4. Unanswered(ThreadOf[c])' \subseteq Unanswered(ThreadOf[c])
    BY <1>1, <1>3, FewerOpen
  <1> QED
    BY <1>1, <1>4, StatusKept DEF AnswerInv

\* What a step of a chat does to the table.
LEMMA ChatWrites ==
    ASSUME ConsoleInv, NEW d \in Chat,
           OpenChat(d) \/ ChatStep(d) \/ CloseChat(d) \/ CloseChatLate(d)
    PROVE  /\ UNCHANGED agentVars
           /\ \A i \in DOMAIN msgs : msgs'[i] = msgs[i] /\ about'[i] = about[i]
           /\ stored' = stored \/ (pc[d] = "send" /\ stored' = stored \cup {question[d]})
           /\ \/ processed' = processed
              \/ pc[d] = "marking" /\ processed' = processed \cup {row[d]}
  <1>1. CASE Ask(d)
    <2> DEFINE env == [from |-> human, to |-> AgentOf[d],
                       thread |-> ThreadOf[d], parent |-> NoParent]
    <2>1. TransportTypeOK /\ env \in Envelope /\ Compose(env)
      BY <1>1, NamesDiffer DEF Ask, ConsoleInv, TypeOK, Envelope, NoParent
    <2>2. \A i \in DOMAIN msgs : msgs'[i] = msgs[i]
      BY <2>1, LogGrows
    <2>3. \A i \in DOMAIN msgs : about'[i] = about[i]
      BY <1>1, <2>1, AboutGrows DEF Ask, ConsoleInv
    <2> QED
      BY <1>1, <2>2, <2>3 DEF Ask
  <1>2. CASE ~Ask(d)
    BY <1>2 DEF OpenChat, ChatStep, SendQuestion, PollReply, PollAgain, TimeOut,
           WaitOn, GiveUp, MarkReply, ShowReply, CloseChat, CloseChatLate,
           EndChat, Store, Ack, rowVars, transportVars
  <1> QED
    BY <1>1, <1>2

\* What is open after a step of chat d.
LEMMA ChatOpen ==
    ASSUME ConsoleInv, NEW d \in Chat, NEW t,
           OpenChat(d) \/ ChatStep(d) \/ CloseChat(d) \/ CloseChatLate(d)
    PROVE  \/ Unanswered(t)' \subseteq Unanswered(t)
           \/ /\ pc[d] = "send" /\ msgs[question[d]].thread = t
              /\ stored' = stored \cup {question[d]}
              /\ Unanswered(t)' \subseteq Unanswered(t) \cup {about[question[d]]}
  <1> USE ConsolesDiffer
  <1>1. /\ UNCHANGED agentVars
        /\ \A i \in DOMAIN msgs : msgs'[i] = msgs[i] /\ about'[i] = about[i]
        /\ stored' = stored \/ (pc[d] = "send" /\ stored' = stored \cup {question[d]})
        /\ \/ processed' = processed
           \/ pc[d] = "marking" /\ processed' = processed \cup {row[d]}
    BY ChatWrites
  <1>2. \A i \in processed' \ processed : msgs[i].to = human
    BY <1>1 DEF ConsoleInv, TypeOK
  <1>3. Open(t) \subseteq DOMAIN msgs
    BY OpenRows DEF ConsoleInv, TypeOK, TransportTypeOK
  <1>4. CASE stored' = stored
    <2>1. stored' \subseteq DOMAIN msgs /\ stored' \ stored = {}
      BY <1>4 DEF ConsoleInv, TypeOK, TransportTypeOK
    <2>2. Open(t)' \subseteq Open(t)
      BY <1>1, <1>2, <2>1, ConsolesOpen
    <2> QED
      BY <1>1, <2>2, FewerOpen
  <1>5. CASE pc[d] = "send" /\ stored' = stored \cup {question[d]}
    <2>1. question[d] \in DOMAIN msgs
      BY <1>5 DEF ConsoleInv, TypeOK
    <2>2. stored' \subseteq DOMAIN msgs /\ stored' \ stored \subseteq {question[d]}
      BY <1>5, <2>1 DEF ConsoleInv, TypeOK, TransportTypeOK
    <2>3. Open(t)' \subseteq Open(t) \cup {i \in {question[d]} : msgs[i].thread = t}
      BY <1>1, <1>2, <2>2, ConsolesOpen
    <2> QED
      BY <1>1, <1>3, <1>5, <2>1, <2>3 DEF Unanswered
  <1> QED
    BY <1>1, <1>4, <1>5

\* The step of another chat: its questions are on a thread of their own.
LEMMA OthersStep ==
    ASSUME ConsoleInv, AnswerInv, NEW c \in Chat, NEW d \in Chat \ {c},
           OpenChat(d) \/ ChatStep(d) \/ CloseChat(d) \/ CloseChatLate(d)
    PROVE  Status(c)'
  <1> USE ConsolesDiffer
  <1>1. /\ pc'[c] = pc[c] /\ row'[c] = row[c] /\ question'[c] = question[c]
        /\ pending'[c] = pending[c]
    BY DEF ConsoleInv, TypeOK, LocalsOK, OpenChat, ChatStep, Ask, SendQuestion,
           PollReply, PollAgain, TimeOut, WaitOn, GiveUp, MarkReply, ShowReply,
           CloseChat, CloseChatLate, EndChat, Prompt, Forget, Goto, sessionVars
  <1>2. pc[d] = "send" => msgs[question[d]].thread = ThreadOf[d]
    BY DEF AnswerInv, Status
  <1>3. Alone(c) => Unanswered(ThreadOf[c])' \subseteq Unanswered(ThreadOf[c])
    BY <1>2, ChatOpen DEF Alone
  <1> QED
    BY <1>1, <1>3, ChatWrites, StatusKept DEF AnswerInv

\* The chat itself.
LEMMA OwnStep ==
    ASSUME ConsoleInv, AnswerInv, NEW c \in Chat,
           OpenChat(c) \/ ChatStep(c) \/ CloseChat(c) \/ CloseChatLate(c)
    PROVE  Status(c)'
  <1> USE ConsolesDiffer
  <1>1. /\ pc \in [Console -> Labels] /\ row \in [Console -> Nat]
        /\ question \in [Chat -> Nat] /\ pending \in [Chat -> SUBSET DOMAIN msgs]
        /\ Status(c) /\ Alone(c)' = Alone(c)
    BY DEF ConsoleInv, TypeOK, LocalsOK, AnswerInv, Alone
  <1>2. CASE ~Asking(c)'
    BY <1>2 DEF Status, Asking
  <1>3. CASE Ask(c)
    <2> DEFINE env == [from |-> human, to |-> AgentOf[c], thread |-> ThreadOf[c],
                       parent |-> NoParent]
    <2>1. TransportTypeOK /\ env \in Envelope /\ Compose(env) /\ env.thread = ThreadOf[c]
      BY <1>3, NamesDiffer DEF Ask, ConsoleInv, TypeOK, Envelope, NoParent
    <2> HIDE DEF env
    <2>2. /\ Len(msgs') \in Nat /\ msgs'[Len(msgs')] = env
      BY <2>1, LogGrows
    <2>3. /\ pc'[c] = "send" /\ question'[c] = Len(msgs')
          /\ pending'[c] = Unanswered(ThreadOf[c])
      BY <1>1, <1>3, <2>2 DEF Ask, Goto
    <2>4. about'[Len(msgs')] = Len(msgs')
      BY <1>3, <2>1, AboutGrows DEF Ask, ConsoleInv
    <2>5. Unanswered(ThreadOf[c])' \subseteq Unanswered(ThreadOf[c])
      <3>1. pc[c] # "send"
        BY <1>3 DEF Ask
      <3> QED
        BY <1>3, <3>1, ChatOpen DEF ChatStep
    <2> QED
      BY <2>1, <2>2, <2>3, <2>4, <2>5 DEF Status, Asking, Accepted
  <1>4. CASE Asking(c)' /\ ~Ask(c)
    <2>1. /\ question'[c] = question[c] /\ pending'[c] = pending[c] /\ Asking(c)
          /\ pc'[c] # "send"
          /\ UNCHANGED <<msgs, about>>
          /\ \/ SendQuestion(c) \/ PollReply(c) \/ PollAgain(c) \/ TimeOut(c) \/ WaitOn(c)
             \/ MarkReply(c)
      BY <1>1, <1>4 DEF OpenChat, ChatStep, SendQuestion, PollReply, PollAgain, TimeOut,
           WaitOn, GiveUp, MarkReply, ShowReply, CloseChat, CloseChatLate,
           EndChat, Prompt, Forget, Goto, Asking, rowVars, transportVars, sessionVars
    <2>2. Alone(c) => Unanswered(ThreadOf[c])' \subseteq Accepted(c)'
      <3>1. Alone(c) => Unanswered(ThreadOf[c]) \subseteq Accepted(c)
        BY <1>1, <2>1 DEF Status
      <3>2. pc[c] = "send" => about[question[c]] = question[c]
        BY <1>1 DEF Status
      <3> QED
        BY <2>1, <3>1, <3>2, ChatOpen DEF Accepted
    <2>3. Alone(c) /\ pc'[c] \in {"marking", "show"} => about[row'[c]] \in Accepted(c)'
      <3>1. CASE PollReply(c)
        <4> SUFFICES ASSUME Alone(c), pc'[c] \in {"marking", "show"}
                     PROVE  about[row'[c]] \in Accepted(c)'
          OBVIOUS
        <4>1. PICK r \in stored :
                    OldestReply(ThreadOf[c], r) /\ row' = [row EXCEPT ![c] = r]
          BY <1>1, <3>1 DEF PollReply, Goto
        <4>2. row'[c] = r /\ r \in Open(ThreadOf[c])
          BY <1>1, <4>1 DEF OldestReply, Replies, Inbox, Open, OnThread
        <4>3. about[r] \in Unanswered(ThreadOf[c])
          BY <4>2 DEF Unanswered
        <4> QED
          BY <1>1, <2>1, <4>2, <4>3 DEF Status, Accepted
      <3>2. CASE MarkReply(c)
        BY <1>1, <2>1, <3>2 DEF MarkReply, sessionVars, Status, Accepted
      <3>3. CASE SendQuestion(c) \/ PollAgain(c) \/ TimeOut(c) \/ WaitOn(c)
        BY <1>1, <3>3 DEF SendQuestion, PollAgain, TimeOut, WaitOn, Prompt, Goto
      <3> QED
        BY <2>1, <3>1, <3>2, <3>3
    <2> QED
      BY <1>1, <2>1, <2>2, <2>3 DEF Status
  <1> QED
    BY <1>2, <1>3, <1>4

LEMMA AnswerInvNext ==
    ConsoleInv /\ AnswerInv /\ [Next]_consoleVars => AnswerInv'
  <1> SUFFICES ASSUME ConsoleInv, AnswerInv, [Next]_consoleVars, NEW c \in Chat
               PROVE  Status(c)'
    BY DEF AnswerInv
  <1>1. ASSUME NEW d \in Chat,
               OpenChat(d) \/ ChatStep(d) \/ CloseChat(d) \/ CloseChatLate(d)
        PROVE  Status(c)'
    BY <1>1, OwnStep, OthersStep
  <1>2. CASE \E l \in Listener : OpenListener(l) \/ ListenStep(l) \/ CloseListener(l)
    BY <1>2, ListenersStep
  <1>3. CASE \E n \in Agent : AgentStep(n)
    BY <1>3, AgentsStep
  <1>4. CASE UNCHANGED consoleVars
    <2>1. UNCHANGED <<msgs, stored, processed, about, at, held, pc, row, question, pending>>
      BY <1>4 DEF consoleVars, rowVars, transportVars, agentVars, sessionVars
    <2>2. Unanswered(ThreadOf[c])' = Unanswered(ThreadOf[c])
      BY <2>1 DEF Unanswered, Open, OnThread
    <2> QED
      BY <2>1, <2>2, StatusKept DEF AnswerInv
  <1> QED
    BY <1>1, <1>2, <1>3, <1>4 DEF Next

\* In a chat that is alone on its thread, a shown reply goes back to the
\* question just asked or to one that was unanswered when this one was asked,
\* whatever was interrupted, given up or still on its way between ack and
\* COMMIT (runner.py:113-136) when the session was opened: _REPLY_QUERY asks
\* for the oldest row of the thread, and nothing that was answered comes back.
THEOREM AnswersTheQuestionCorrect == Spec => []AnswersTheQuestion
  <1>1. Init => AnswerInv
    BY AnswerInvInit
  <1>2. ConsoleInv /\ AnswerInv /\ [Next]_consoleVars => AnswerInv'
    BY AnswerInvNext
  <1>3. AnswerInv => AnswersTheQuestion
    BY DEF AnswerInv, Status, Accepted, AnswersTheQuestion
  <1> QED
    BY <1>1, <1>2, <1>3, ConsoleInvAlways, PTL DEF Spec

=============================================================================
