---------------------------- MODULE ClusterProofs ----------------------------
(***************************************************************************)
(* Theorems about Cluster, for every number of agents, runners, processes, *)
(* messages, retries and thresholds, with every fault.                     *)
(***************************************************************************)
EXTENDS Cluster, SequenceTheorems, FiniteSetTheorems, TLAPS

\* Constructing a message adds one row at the end of the log and changes no
\* other.
LEMMA ComposeLemma ==
    ASSUME NEW env \in Envelope, msgs \in Seq(Envelope), Compose(env)
    PROVE  /\ msgs' \in Seq(Envelope)
           /\ DOMAIN msgs = 1 .. Len(msgs)
           /\ Len(msgs) \in Nat
           /\ DOMAIN msgs' = DOMAIN msgs \cup {Len(msgs) + 1}
           /\ \A i \in DOMAIN msgs : msgs'[i] = msgs[i]
           /\ msgs'[Len(msgs) + 1] = env
  <1>1. Len(msgs) \in Nat /\ DOMAIN msgs = 1 .. Len(msgs)
    BY LenProperties
  <1>2. /\ msgs' \in Seq(Envelope)
        /\ Len(msgs') = Len(msgs) + 1
        /\ \A i \in 1 .. Len(msgs) : msgs'[i] = msgs[i]
        /\ msgs'[Len(msgs) + 1] = env
    BY AppendProperties DEF Compose
  <1>3. DOMAIN msgs' = 1 .. Len(msgs')
    BY <1>2, LenProperties
  <1> QED
    BY <1>1, <1>2, <1>3

\* The ids of rows are positive numbers.
LEMMA RowIds ==
    ASSUME TransportTypeOK
    PROVE  /\ DOMAIN msgs \subseteq Nat \ {0}
           /\ \A i \in DOMAIN msgs : msgs[i] \in Envelope
  BY LenProperties, ElementOfSeq DEF TransportTypeOK

\* Where a runner works on a row, and where it has acknowledged it.
Before == {"mark", "llm", "backoff", "ack"}
After == {"loopcheck", "maxcheck", "send", "store"}

\* The row a runner works on is committed and addressed to its agent.
CurOK ==
    \A r \in Runner : pc[r] \in Before \cup After =>
        cur[r] \in stored /\ msgs[cur[r]].to = AgentOf[r]

\* Past ack the row is processed and the reply has a destination.
AckedOK ==
    \A r \in Runner : pc[r] \in After =>
        cur[r] \in processed /\ dest[r] \in Name

\* A runner that backs off has an attempt left.
AttemptOK == \A r \in Runner : pc[r] = "backoff" => attempt[r] <= MaxRetries

\* At store the draft is a row, and it answers the current one.
DraftOK ==
    \A r \in Runner : pc[r] = "store" =>
        draft[r] \in DOMAIN msgs /\ msgs[draft[r]].parent = cur[r]

\* The inductive invariant behind TypeOK: none of TypeOK's subset relations
\* is inductive without knowing what a runner holds at each step.
TypeInv == TypeOK /\ CurOK /\ AckedOK /\ AttemptOK /\ DraftOK

-----------------------------------------------------------------------------
\* What an agent is configured to answer to is a name or NoAgent.
LEMMA DestinationsType ==
    ASSUME NEW a \in Agent
    PROVE  Destinations(a) \subseteq Name \cup {NoAgent}
  BY RunnerAssumption DEF ValidWiring, Destinations

-----------------------------------------------------------------------------
LEMMA TypeInvInit == Init => TypeInv
  <1> SUFFICES ASSUME Init PROVE TypeInv
    OBVIOUS
  <1> USE DEF Init, TransportInit, MonitorInit, RunnerInit
  <1>1. TransportTypeOK
    BY EmptySeq DEF TransportTypeOK
  <1>2. MonitorTypeOK
    BY DEF MonitorTypeOK
  <1>3. RunnerTypeOK
    BY RunnerAssumption DEF RunnerTypeOK, PC, NoParent
  <1>4. CurOK /\ AckedOK /\ AttemptOK /\ DraftOK
    BY DEF CurOK, AckedOK, AttemptOK, DraftOK, Before, After
  <1> QED
    BY <1>1, <1>2, <1>3, <1>4 DEF TypeInv, TypeOK

-----------------------------------------------------------------------------
\* A jump moves one runner.
LEMMA GotoLemma ==
    ASSUME pc \in [Runner -> PC], NEW r \in Runner, NEW label \in PC,
           Goto(r, label)
    PROVE  /\ pc' \in [Runner -> PC]
           /\ pc'[r] = label
           /\ \A s \in Runner \ {r} : pc'[s] = pc[s]
  BY DEF Goto

\* Leaving run_once resets the locals of one runner.
LEMMA LeaveLemma ==
    ASSUME RunnerTypeOK, NEW r \in Runner, NEW label \in PC, Leave(r, label)
    PROVE  /\ pc' \in [Runner -> PC]
           /\ pc'[r] = label
           /\ \A s \in Runner \ {r} : pc'[s] = pc[s]
           /\ cur' \in [Runner -> Nat]
           /\ \A s \in Runner \ {r} : cur'[s] = cur[s]
           /\ attempt' \in [Runner -> 1 .. MaxRetries + 1]
           /\ \A s \in Runner \ {r} : attempt'[s] = attempt[s]
           /\ dest' \in [Runner -> Name \cup {NoAgent}]
           /\ \A s \in Runner \ {r} : dest'[s] = dest[s]
           /\ draft' \in [Runner -> Nat]
           /\ \A s \in Runner \ {r} : draft'[s] = draft[s]
  <1>1. /\ pc' \in [Runner -> PC]
        /\ pc'[r] = label
        /\ \A s \in Runner \ {r} : pc'[s] = pc[s]
    BY GotoLemma DEF Leave, RunnerTypeOK
  <1>2. 1 \in 1 .. MaxRetries + 1
    BY RunnerAssumption
  <1> QED
    BY <1>1, <1>2 DEF Leave, RunnerTypeOK, NoParent

\* Once a runner has left, what it held is nobody's concern.
LEMMA LeaveKeepsTypeInv ==
    ASSUME TypeInv, NEW r \in Runner, NEW label \in PC \ (Before \cup After),
           Leave(r, label), msgs' = msgs, TransportTypeOK',
           stored \subseteq stored', processed \subseteq processed',
           halted' \subseteq processed', MonitorTypeOK'
    PROVE  /\ TransportTypeOK' /\ MonitorTypeOK' /\ RunnerTypeOK'
           /\ CurOK' /\ AckedOK' /\ AttemptOK' /\ DraftOK'
  <1> USE DEF TypeInv, TypeOK
  <1>1. RunnerTypeOK'
    BY LeaveLemma DEF RunnerTypeOK
  <1>2. CurOK' /\ AckedOK'
    BY LeaveLemma DEF CurOK, AckedOK, Before, After
  <1>3. AttemptOK' /\ DraftOK'
    BY LeaveLemma DEF AttemptOK, DraftOK, Before, After
  <1> QED
    BY <1>1, <1>2, <1>3

\* One step of a runner that nothing disturbs.
LEMMA TypeInvRun ==
    ASSUME TypeInv, NEW r \in Runner, RunnerStep(r)
    PROVE  /\ TransportTypeOK' /\ MonitorTypeOK' /\ RunnerTypeOK'
           /\ CurOK' /\ AckedOK' /\ AttemptOK' /\ DraftOK'
  <1> USE DEF TypeInv, TypeOK
  <1>r. /\ DOMAIN msgs \subseteq Nat \ {0}
        /\ \A i \in DOMAIN msgs : msgs[i] \in Envelope
    BY RowIds
  <1>g. \A label \in PC : Goto(r, label) =>
            /\ pc' \in [Runner -> PC]
            /\ pc'[r] = label
            /\ \A s \in Runner \ {r} : pc'[s] = pc[s]
    BY GotoLemma DEF RunnerTypeOK
  <1>l. {"top", "idle"} \subseteq PC \ (Before \cup After)
    BY DEF PC, Before, After
  <1>s. PC = {"top", "idle", "ended", "select"} \cup Before \cup After
    BY DEF PC, Before, After
  <1>1. CASE StopSeen(r)
    BY <1>1, <1>g, <1>s DEF StopSeen, transportVars, TransportTypeOK,
        MonitorTypeOK, RunnerTypeOK, CurOK, AckedOK, AttemptOK, DraftOK,
        Before, After
  <1>2. CASE Poll(r)
    BY <1>2, <1>g, <1>s DEF Poll, transportVars, TransportTypeOK,
        MonitorTypeOK, RunnerTypeOK, CurOK, AckedOK, AttemptOK, DraftOK,
        Before, After
  <1>3. CASE Wake(r)
    BY <1>3, <1>g, <1>s DEF Wake, transportVars, TransportTypeOK,
        MonitorTypeOK, RunnerTypeOK, CurOK, AckedOK, AttemptOK, DraftOK,
        Before, After
  <1>4. CASE InboxEmpty(r)
    BY <1>4, <1>g, <1>s DEF InboxEmpty, transportVars, TransportTypeOK,
        MonitorTypeOK, RunnerTypeOK, CurOK, AckedOK, AttemptOK, DraftOK,
        Before, After
  <1>5. CASE LLMError(r)
    BY <1>5, <1>g, <1>s DEF LLMError, transportVars, TransportTypeOK,
        MonitorTypeOK, RunnerTypeOK, CurOK, AckedOK, AttemptOK, DraftOK,
        Before, After
  <1>6. CASE Retry(r)
    <2>1. attempt' \in [Runner -> 1 .. MaxRetries + 1]
      BY <1>6, RunnerAssumption DEF Retry, AttemptOK, RunnerTypeOK
    <2> QED
      BY <1>6, <1>g, <1>s, <2>1 DEF Retry, transportVars, TransportTypeOK,
          MonitorTypeOK, RunnerTypeOK, CurOK, AckedOK, AttemptOK, DraftOK,
        Before, After
  <1>7. CASE EmptyAnswer(r)
    BY <1>7, <1>l, LeaveKeepsTypeInv DEF EmptyAnswer, transportVars,
        TransportTypeOK, MonitorTypeOK, RunnerTypeOK
  <1>8. CASE Select(r)
    <2>1. PICK i \in Inbox(AgentOf[r]) : cur' = [cur EXCEPT ![r] = i]
      BY <1>8 DEF Select
    <2>2. i \in stored /\ i \in Nat /\ msgs[i].to = AgentOf[r]
      BY <2>1, <1>r DEF Inbox, TransportTypeOK
    <2>3. cur' \in [Runner -> Nat] /\ cur'[r] = i
      BY <2>1, <2>2 DEF RunnerTypeOK
    <2>4. \A s \in Runner \ {r} : cur'[s] = cur[s]
      BY <2>1 DEF RunnerTypeOK
    <2> QED
      BY <1>8, <1>g, <1>s, <2>2, <2>3, <2>4 DEF Select, transportVars,
          TransportTypeOK, MonitorTypeOK, RunnerTypeOK, CurOK, AckedOK, AttemptOK, DraftOK,
        Before, After
  <1>9. CASE Mark(r)
    <2>1. TransportTypeOK'
      BY <1>9 DEF Mark, MarkReceived, TransportTypeOK, CurOK, Before
    <2> QED
      BY <1>9, <1>g, <1>s, <2>1 DEF Mark, MonitorTypeOK, RunnerTypeOK,
          CurOK, AckedOK, AttemptOK, DraftOK,
        Before, After
  <1>10. CASE Answer(r)
    <2>1. PICK d \in Destinations(AgentOf[r]) : dest' = [dest EXCEPT ![r] = d]
      BY <1>10 DEF Answer
    <2>2. d \in Name \cup {NoAgent}
      BY <2>1, DestinationsType, RunnerAssumption
    <2>3. /\ dest' \in [Runner -> Name \cup {NoAgent}]
          /\ \A s \in Runner \ {r} : dest'[s] = dest[s]
      BY <2>1, <2>2 DEF RunnerTypeOK
    <2> QED
      BY <1>10, <1>g, <1>s, <2>3 DEF Answer, transportVars,
          TransportTypeOK, MonitorTypeOK, RunnerTypeOK, CurOK, AckedOK, AttemptOK, DraftOK,
        Before, After
  <1>11. CASE AckCurrent(r)
    <2>1. TransportTypeOK' /\ processed \subseteq processed' /\ cur[r] \in processed'
      BY <1>11 DEF AckCurrent, Ack, TransportTypeOK, CurOK, Before
    <2>2. MonitorTypeOK' /\ halted' \subseteq processed'
      BY <1>11, <2>1 DEF AckCurrent, MonitorTypeOK, RunnerTypeOK
    <2>3. CASE dest[r] = NoAgent
      BY <1>11, <1>l, <2>1, <2>2, <2>3, LeaveKeepsTypeInv DEF AckCurrent
    <2>4. CASE dest[r] # NoAgent
      <3>1. AfterAck(r) \in After
        BY DEF AfterAck, AfterLoopCheck, After
      <3>2. AfterAck(r) # "store"
        BY DEF AfterAck, AfterLoopCheck
      <3>3. dest[r] \in Name
        BY <2>4 DEF RunnerTypeOK
      <3> QED
        BY <1>11, <1>g, <1>s, <2>1, <2>2, <2>4, <3>1, <3>2, <3>3
           DEF AckCurrent, RunnerTypeOK, CurOK, AckedOK, AttemptOK, DraftOK,
        Before, After
    <2> QED
      BY <2>3, <2>4
  <1>12. CASE LoopCheck(r)
    <2>1. CASE LoopDetected(AgentOf[r], msgs[cur[r]].thread)
      <3>1. halted' \subseteq processed
        BY <1>12, <2>1 DEF LoopCheck, Halt, RunnerTypeOK, AckedOK, After
      <3> QED
        BY <1>12, <1>l, <2>1, <3>1, LeaveKeepsTypeInv DEF LoopCheck, Halt,
            transportVars, TransportTypeOK, MonitorTypeOK
    <2>2. CASE ~LoopDetected(AgentOf[r], msgs[cur[r]].thread)
      <3>1. AfterLoopCheck \in After \ {"store"}
        BY DEF AfterLoopCheck, After
      <3> QED
        BY <1>12, <1>g, <1>s, <2>2, <3>1 DEF LoopCheck, transportVars,
            TransportTypeOK, MonitorTypeOK, RunnerTypeOK, CurOK, AckedOK, AttemptOK,
            DraftOK,
        Before, After
    <2> QED
      BY <2>1, <2>2
  <1>13. CASE MaxCheck(r)
    <2>1. CASE MaxReached(msgs[cur[r]].thread)
      <3>1. halted' \subseteq processed
        BY <1>13, <2>1 DEF MaxCheck, Halt, RunnerTypeOK, AckedOK, After
      <3> QED
        BY <1>13, <1>l, <2>1, <3>1, LeaveKeepsTypeInv DEF MaxCheck, Halt,
            transportVars, TransportTypeOK, MonitorTypeOK
    <2>2. CASE ~MaxReached(msgs[cur[r]].thread)
      BY <1>13, <1>g, <1>s, <2>2 DEF MaxCheck, transportVars,
          TransportTypeOK, MonitorTypeOK, RunnerTypeOK, CurOK, AckedOK, AttemptOK, DraftOK,
          Before, After
    <2> QED
      BY <2>1, <2>2
  <1>14. CASE ComposeReply(r)
    <2>1. cur[r] \in DOMAIN msgs /\ dest[r] \in Name
      BY <1>14 DEF ComposeReply, TransportTypeOK, CurOK, AckedOK, Before, After
    <2>2. Reply(r) \in Envelope
      BY <1>r, <2>1, RunnerAssumption DEF Reply, Envelope
    <2>3. /\ msgs' \in Seq(Envelope)
          /\ Len(msgs) \in Nat
          /\ DOMAIN msgs' = DOMAIN msgs \cup {Len(msgs) + 1}
          /\ \A i \in DOMAIN msgs : msgs'[i] = msgs[i]
          /\ msgs'[Len(msgs) + 1] = Reply(r)
      BY <1>14, <2>2, ComposeLemma DEF ComposeReply, TransportTypeOK
    <2>4. TransportTypeOK'
      BY <1>14, <2>3 DEF ComposeReply, TransportTypeOK
    <2>5. /\ draft' \in [Runner -> Nat]
          /\ draft'[r] = Len(msgs) + 1
          /\ \A s \in Runner \ {r} : draft'[s] = draft[s]
      BY <1>14, <2>3 DEF ComposeReply, RunnerTypeOK
    <2>6. RunnerTypeOK' /\ MonitorTypeOK'
      BY <1>14, <1>g, <1>s, <2>5 DEF ComposeReply, RunnerTypeOK, MonitorTypeOK,
          After
    <2>7. /\ UNCHANGED <<cur, dest, attempt, stored, processed>>
          /\ pc[r] = "send" /\ pc'[r] = "store"
          /\ \A s \in Runner \ {r} : pc'[s] = pc[s]
      BY <1>14, <1>g, <1>s DEF ComposeReply, After
    <2>9. CurOK'
      <3> SUFFICES ASSUME NEW s \in Runner, pc'[s] \in Before \cup After
                   PROVE  cur[s] \in stored /\ msgs'[cur[s]].to = AgentOf[s]
        BY <2>7 DEF CurOK
      <3>1. pc[s] \in Before \cup After
        BY <2>7 DEF After
      <3>2. cur[s] \in stored /\ msgs[cur[s]].to = AgentOf[s]
        BY <3>1 DEF CurOK
      <3> QED
        BY <2>3, <3>2 DEF TransportTypeOK
    <2>10. AckedOK'
      BY <2>7 DEF AckedOK, After
    <2>11. AttemptOK'
      BY <2>7 DEF AttemptOK
    <2>8. DraftOK'
      <3>1. Reply(r).parent = cur[r]
        BY DEF Reply
      <3> QED
        BY <1>14, <1>g, <1>s, <2>3, <2>5, <3>1 DEF ComposeReply, DraftOK, After
    <2> QED
      BY <2>4, <2>6, <2>8, <2>9, <2>10, <2>11
  <1>15. CASE StoreReply(r)
    <2>1. TransportTypeOK' /\ stored \subseteq stored'
      BY <1>15 DEF StoreReply, Store, TransportTypeOK, DraftOK
    <2> QED
      BY <1>15, <1>l, <2>1, LeaveKeepsTypeInv DEF StoreReply, MonitorTypeOK,
          RunnerTypeOK
  <1> QED
    BY <1>1, <1>2, <1>3, <1>4, <1>5, <1>6, <1>7, <1>8,
       <1>9, <1>10, <1>11, <1>12, <1>13, <1>14, <1>15 DEF RunnerStep

\* A runner that is torn down, whatever statement was in flight.
LEMMA TypeInvUnwind ==
    ASSUME TypeInv, NEW r \in Runner, Unwind(r)
    PROVE  /\ TransportTypeOK' /\ MonitorTypeOK' /\ RunnerTypeOK'
           /\ CurOK' /\ AckedOK' /\ AttemptOK' /\ DraftOK'
  <1> USE DEF TypeInv, TypeOK
  <1>1. "ended" \in PC \ (Before \cup After)
    BY DEF PC, Before, After
  <1>2. pc[r] \in {"mark", "ack"} => cur[r] \in stored
    BY DEF CurOK, Before
  <1>3. pc[r] = "store" => draft[r] \in DOMAIN msgs
    BY DEF DraftOK
  <1>4. /\ TransportTypeOK'
        /\ stored \subseteq stored'
        /\ processed \subseteq processed'
    BY <1>2, <1>3 DEF Unwind, MarkReceived, Ack, Store, TransportTypeOK
  <1>5. MonitorTypeOK' /\ halted' \subseteq processed'
    BY <1>4 DEF Unwind, MonitorTypeOK, RunnerTypeOK
  <1> QED
    BY <1>1, <1>4, <1>5, LeaveKeepsTypeInv DEF Unwind

\* The human constructs a row that no runner holds.
LEMMA TypeInvHumanCompose ==
    ASSUME TypeInv, NEW a \in Entry, NEW t \in Thread, HumanCompose(a, t)
    PROVE  TypeInv'
  <1> DEFINE env == [from |-> Human, to |-> a, thread |-> t,
                     parent |-> NoParent]
  <1>1. env \in Envelope
    BY RunnerAssumption, ClusterAssumption DEF Envelope, NoParent
  <1>2. Compose(env)
    BY DEF HumanCompose
  <1>3. /\ msgs' \in Seq(Envelope)
        /\ DOMAIN msgs' = DOMAIN msgs \cup {Len(msgs) + 1}
        /\ \A i \in DOMAIN msgs : msgs'[i] = msgs[i]
    <2> HIDE DEF env
    <2> QED
      BY <1>1, <1>2, ComposeLemma DEF TypeInv, TypeOK, TransportTypeOK
  <1>4. TypeOK'
    BY <1>3 DEF HumanCompose, runnerVars, TypeInv, TypeOK, TransportTypeOK,
        MonitorTypeOK, RunnerTypeOK
  <1>5. CurOK' /\ AckedOK' /\ AttemptOK' /\ DraftOK'
    BY <1>3 DEF HumanCompose, runnerVars, TypeInv, TypeOK, TransportTypeOK,
        CurOK, AckedOK, AttemptOK, DraftOK, Before, After
  <1> QED
    BY <1>4, <1>5 DEF TypeInv

LEMMA TypeInvNext == TypeInv /\ [Next]_vars => TypeInv'
  <1> SUFFICES ASSUME TypeInv, [Next]_vars PROVE TypeInv'
    OBVIOUS
  <1>1. ASSUME NEW r \in Runner, Run(r) PROVE TypeInv'
    BY <1>1, TypeInvRun DEF Run, TypeInv, TypeOK
  <1>2. ASSUME NEW r \in Runner, Fail(r) PROVE TypeInv'
    <2>1. proc' \in [Proc -> {"down", "up", "aborting"}]
      BY <1>2 DEF Fail, TypeInv, TypeOK
    <2> QED
      BY <1>2, <2>1, TypeInvUnwind DEF Fail, TypeInv, TypeOK
  <1>3. ASSUME NEW r \in Runner, Cancel(r) PROVE TypeInv'
    BY <1>3, TypeInvUnwind DEF Cancel, TypeInv, TypeOK
  <1>4. ASSUME NEW p \in Proc, LaunchStart(p) \/ LaunchRun(p) PROVE TypeInv'
    <2>1. MonitorTypeOK'
      BY <1>4 DEF LaunchStart, LaunchRun, ClearAll, ClearOne, MonitorTypeOK,
          TypeInv, TypeOK
    <2>2. Launched(p)
      BY <1>4 DEF LaunchStart, LaunchRun
    <2>3. TypeOK'
      BY <2>1, <2>2 DEF Launched, transportVars, TypeInv, TypeOK,
          TransportTypeOK, RunnerTypeOK, PC
    <2>4. CurOK' /\ AckedOK' /\ AttemptOK' /\ DraftOK'
      BY <2>2 DEF Launched, transportVars, TypeInv, CurOK, AckedOK, AttemptOK,
          DraftOK, Before, After
    <2> QED
      BY <2>3, <2>4 DEF TypeInv
  <1>5. ASSUME NEW p \in Proc, Interrupt(p) PROVE TypeInv'
    BY <1>5 DEF Interrupt, systemVars, transportVars, runnerVars, TypeInv,
        TypeOK, TransportTypeOK, MonitorTypeOK, RunnerTypeOK, CurOK, AckedOK,
        AttemptOK, DraftOK
  <1>6. ASSUME NEW p \in Proc, ExitStart(p) \/ ExitRun(p) PROVE TypeInv'
    <2>1. MonitorTypeOK'
      BY <1>6 DEF ExitStart, ExitRun, ClearAll, ClearOne, MonitorTypeOK,
          TypeInv, TypeOK
    <2>2. Exited(p)
      BY <1>6 DEF ExitStart, ExitRun
    <2> QED
      BY <2>1, <2>2 DEF Exited, transportVars, runnerVars, TypeInv, TypeOK,
          TransportTypeOK, RunnerTypeOK, CurOK, AckedOK, AttemptOK, DraftOK
  <1>7. ASSUME NEW p \in Proc, Crash(p) PROVE TypeInv'
    <2>1. 1 \in 1 .. MaxRetries + 1
      BY RunnerAssumption
    <2>2. RunnerTypeOK'
      BY <1>7, <2>1 DEF Crash, transportVars, TypeInv, TypeOK, RunnerTypeOK,
          PC, NoParent
    <2>3. TransportTypeOK' /\ MonitorTypeOK'
      BY <1>7 DEF Crash, transportVars, TypeInv, TypeOK, TransportTypeOK,
          MonitorTypeOK
    <2>4. proc' \in [Proc -> {"down", "up", "aborting"}]
      BY <1>7 DEF Crash, TypeInv, TypeOK
    <2>5. CurOK' /\ AckedOK' /\ AttemptOK' /\ DraftOK'
      BY <1>7 DEF Crash, transportVars, TypeInv, CurOK, AckedOK, AttemptOK,
          DraftOK, Before, After
    <2> QED
      BY <2>2, <2>3, <2>4, <2>5 DEF TypeInv, TypeOK
  <1>8. ASSUME NEW a \in Entry, NEW t \in Thread, HumanCompose(a, t)
        PROVE  TypeInv'
    BY <1>8, TypeInvHumanCompose
  <1>9. ASSUME NEW i \in HumanRows, HumanStore(i) PROVE TypeInv'
    BY <1>9 DEF HumanStore, HumanRows, Store, runnerVars, TypeInv, TypeOK,
        TransportTypeOK, MonitorTypeOK, RunnerTypeOK, CurOK, AckedOK,
        AttemptOK, DraftOK
  <1>10. ASSUME NEW c \in StopTargets, StopCommand(c) PROVE TypeInv'
    BY <1>10, ClusterAssumption DEF StopCommand, RequestStop, transportVars,
        runnerVars, TypeInv, TypeOK, TransportTypeOK, MonitorTypeOK,
        RunnerTypeOK, CurOK, AckedOK, AttemptOK, DraftOK
  <1>11. CASE UNCHANGED vars
    BY <1>11 DEF vars, systemVars, transportVars, runnerVars, TypeInv, TypeOK,
        TransportTypeOK, MonitorTypeOK, RunnerTypeOK, CurOK, AckedOK,
        AttemptOK, DraftOK
  <1> QED
    BY <1>1, <1>2, <1>3, <1>4, <1>5, <1>6, <1>7, <1>8, <1>9, <1>10, <1>11
       DEF Next

\* In every deployment, the columns only mark rows that exist, a runner only
\* holds a committed row of its own inbox, and every suppressed reply is one
\* of an acknowledged row: the statements of run_once, in the order they are
\* executed, keep the table and the runners' locals consistent.
THEOREM TypeCorrect == Spec => []TypeOK
  <1>1. Init => TypeInv
    BY TypeInvInit
  <1>2. TypeInv /\ [Next]_vars => TypeInv'
    BY TypeInvNext
  <1>3. TypeInv => TypeOK
    BY DEF TypeInv
  <1> QED
    BY <1>1, <1>2, <1>3, PTL DEF Spec

-----------------------------------------------------------------------------
(***************************************************************************)
(* Answered at most once, when every agent has one runner.  The property   *)
(* is not inductive: it needs that a runner between ack and send works on  *)
(* a row without a reply, which holds because its row was open when it was *)
(* acknowledged and only processed rows have replies.                      *)
(***************************************************************************)

\* Where a runner has acknowledged its row and not constructed the reply.
Unsent == {"loopcheck", "maxcheck", "send"}

ParentsProcessed ==
    \A i \in DOMAIN msgs :
        msgs[i].parent # NoParent => msgs[i].parent \in processed

UnsentHasNoReply ==
    \A r \in Runner : pc[r] \in Unsent =>
        \A i \in DOMAIN msgs : msgs[i].parent # cur[r]

\* Nobody but its runner acknowledges the row a runner has taken up.
HeldRowsAreOpen ==
    \A r \in Runner :
        pc[r] \in {"mark", "llm", "backoff", "ack"} => cur[r] \notin processed

ReplyInv ==
    /\ HeldRowsAreOpen
    /\ ParentsProcessed
    /\ UnsentHasNoReply
    /\ AnsweredAtMostOnce

\* Two runners never hold the same row: it is in one inbox.
LEMMA HeldRowsDistinct ==
    ASSUME OneRunnerPerAgent, TypeInv, NEW r \in Runner, NEW s \in Runner,
           r # s, pc[r] \in Before \cup After, pc[s] \in Before \cup After
    PROVE  cur[r] # cur[s]
  BY DEF OneRunnerPerAgent, TypeInv, CurOK

\* A step that leaves the rows and processed_at alone preserves ReplyInv if
\* it lets no runner take a row up again.
LEMMA ReplyInvFrame ==
    ASSUME ReplyInv, msgs' = msgs, processed' = processed,
           \A s \in Runner : pc'[s] \in Before =>
               \/ pc[s] \in Before /\ cur'[s] = cur[s]
               \/ cur'[s] \notin processed,
           \A s \in Runner : pc'[s] \in Unsent =>
               pc[s] \in Unsent /\ cur'[s] = cur[s]
    PROVE  ReplyInv'
  <1>1. HeldRowsAreOpen'
    BY DEF ReplyInv, HeldRowsAreOpen, Before
  <1>2. ParentsProcessed' /\ AnsweredAtMostOnce'
    BY DEF ReplyInv, ParentsProcessed, AnsweredAtMostOnce
  <1>3. UnsentHasNoReply'
    BY DEF ReplyInv, UnsentHasNoReply
  <1> QED
    BY <1>1, <1>2, <1>3 DEF ReplyInv

\* The ack of runner r: the row had no reply, so r may send the first one.
LEMMA ReplyInvAck ==
    ASSUME OneRunnerPerAgent, TypeInv, ReplyInv, NEW r \in Runner,
           pc[r] = "ack", msgs' = msgs, Ack(cur[r]), pc'[r] \notin Before,
           pc'[r] \in Unsent => cur'[r] = cur[r],
           \A s \in Runner \ {r} : pc'[s] = pc[s] /\ cur'[s] = cur[s]
    PROVE  ReplyInv'
  <1>1. cur[r] \notin processed /\ processed' = processed \cup {cur[r]}
    BY DEF ReplyInv, HeldRowsAreOpen, Ack
  <1>2. HeldRowsAreOpen'
    <2> SUFFICES ASSUME NEW s \in Runner, pc'[s] \in Before
                 PROVE  cur'[s] \notin processed'
      BY DEF HeldRowsAreOpen, Before
    <2>1. s # r /\ pc[s] \in Before /\ cur'[s] = cur[s]
      OBVIOUS
    <2>2. cur[s] \notin processed
      BY <2>1 DEF ReplyInv, HeldRowsAreOpen, Before
    <2>3. cur[s] # cur[r]
      BY <2>1, HeldRowsDistinct DEF Before
    <2> QED
      BY <1>1, <2>1, <2>2, <2>3
  <1>3. ParentsProcessed' /\ AnsweredAtMostOnce'
    BY <1>1 DEF ReplyInv, ParentsProcessed, AnsweredAtMostOnce
  <1>4. cur[r] # NoParent
    BY RowIds DEF TypeInv, TypeOK, TransportTypeOK, CurOK, Before, NoParent
  <1>5. UnsentHasNoReply'
    <2> SUFFICES ASSUME NEW s \in Runner, pc'[s] \in Unsent,
                        NEW i \in DOMAIN msgs, msgs[i].parent = cur'[s]
                 PROVE  FALSE
      BY DEF UnsentHasNoReply
    <2>1. CASE s = r
      BY <1>1, <1>4, <2>1 DEF ReplyInv, ParentsProcessed
    <2>2. CASE s # r
      BY <2>2 DEF ReplyInv, UnsentHasNoReply
    <2> QED
      BY <2>1, <2>2
  <1> QED
    BY <1>2, <1>3, <1>5 DEF ReplyInv

\* Constructing the reply of runner r: it is the first to r's row.
LEMMA ReplyInvCompose ==
    ASSUME OneRunnerPerAgent, TypeInv, ReplyInv, NEW r \in Runner,
           ComposeReply(r)
    PROVE  ReplyInv'
  <1> USE DEF TypeInv, TypeOK
  <1>1. /\ DOMAIN msgs \subseteq Nat \ {0}
        /\ \A i \in DOMAIN msgs : msgs[i] \in Envelope
    BY RowIds
  <1>2. cur[r] \in DOMAIN msgs /\ dest[r] \in Name /\ cur[r] \in processed
    BY DEF ComposeReply, TransportTypeOK, CurOK, AckedOK, Before, After
  <1>3. Reply(r) \in Envelope /\ Reply(r).parent = cur[r]
    BY <1>1, <1>2, RunnerAssumption DEF Reply, Envelope
  <1>4. /\ DOMAIN msgs' = DOMAIN msgs \cup {Len(msgs) + 1}
        /\ \A i \in DOMAIN msgs : msgs'[i] = msgs[i]
        /\ msgs'[Len(msgs) + 1] = Reply(r)
    BY <1>3, ComposeLemma DEF ComposeReply, TransportTypeOK
  <1>5. \A i \in DOMAIN msgs : msgs[i].parent # cur[r]
    BY DEF ComposeReply, ReplyInv, UnsentHasNoReply, Unsent
  <1>6. /\ pc'[r] = "store"
        /\ \A s \in Runner \ {r} : pc'[s] = pc[s]
        /\ cur' = cur
        /\ processed' = processed
    BY GotoLemma DEF ComposeReply, RunnerTypeOK, PC
  <1>7. HeldRowsAreOpen'
    BY <1>6 DEF ReplyInv, HeldRowsAreOpen
  <1>8. ParentsProcessed'
    BY <1>2, <1>3, <1>4, <1>6 DEF ReplyInv, ParentsProcessed
  <1>9. UnsentHasNoReply'
    <2> SUFFICES ASSUME NEW s \in Runner, pc'[s] \in Unsent,
                        NEW i \in DOMAIN msgs', msgs'[i].parent = cur[s]
                 PROVE  FALSE
      BY <1>6 DEF UnsentHasNoReply
    <2>1. s # r /\ pc[s] \in Unsent
      BY <1>6 DEF Unsent
    <2>2. cur[s] # cur[r]
      BY <2>1, HeldRowsDistinct DEF ComposeReply, Unsent, After
    <2>3. CASE i \in DOMAIN msgs
      BY <1>4, <2>1, <2>3 DEF ReplyInv, UnsentHasNoReply
    <2>4. CASE i = Len(msgs) + 1
      BY <1>3, <1>4, <2>2, <2>4
    <2> QED
      BY <1>4, <2>3, <2>4
  <1>10. AnsweredAtMostOnce'
    <2> SUFFICES ASSUME NEW i \in DOMAIN msgs', NEW j \in DOMAIN msgs', i # j,
                        msgs'[i].parent # NoParent
                 PROVE  msgs'[i].parent # msgs'[j].parent
      BY DEF AnsweredAtMostOnce
    <2>1. CASE i \in DOMAIN msgs /\ j \in DOMAIN msgs
      BY <1>4, <2>1 DEF ReplyInv, AnsweredAtMostOnce
    <2>2. CASE i = Len(msgs) + 1
      BY <1>3, <1>4, <1>5, <2>2
    <2>3. CASE j = Len(msgs) + 1
      BY <1>3, <1>4, <1>5, <2>3
    <2> QED
      BY <1>4, <2>1, <2>2, <2>3
  <1> QED
    BY <1>7, <1>8, <1>9, <1>10 DEF ReplyInv

\* The reply the human does not wait for: a row without a parent.
LEMMA ReplyInvHumanCompose ==
    ASSUME TypeInv, ReplyInv, NEW a \in Entry, NEW t \in Thread,
           HumanCompose(a, t)
    PROVE  ReplyInv'
  <1> USE DEF TypeInv, TypeOK
  <1> DEFINE env == [from |-> Human, to |-> a, thread |-> t,
                     parent |-> NoParent]
  <1>1. env \in Envelope /\ env.parent = NoParent
    BY RunnerAssumption, ClusterAssumption DEF Envelope, NoParent
  <1>2. Compose(env)
    BY DEF HumanCompose
  <1>3. /\ DOMAIN msgs' = DOMAIN msgs \cup {Len(msgs) + 1}
        /\ \A i \in DOMAIN msgs : msgs'[i] = msgs[i]
        /\ msgs'[Len(msgs) + 1].parent = NoParent
    <2> HIDE DEF env
    <2> QED
      BY <1>1, <1>2, ComposeLemma DEF TransportTypeOK
  <1>4. UNCHANGED <<processed, pc, cur>>
    BY DEF HumanCompose, runnerVars
  <1>5. \A r \in Runner : pc[r] \in Unsent => cur[r] # NoParent
    BY RowIds DEF TransportTypeOK, CurOK, Unsent, After, NoParent
  <1>6. HeldRowsAreOpen' /\ ParentsProcessed' /\ AnsweredAtMostOnce'
    BY <1>3, <1>4 DEF ReplyInv, HeldRowsAreOpen, ParentsProcessed,
        AnsweredAtMostOnce
  <1>7. UnsentHasNoReply'
    BY <1>3, <1>4, <1>5 DEF ReplyInv, UnsentHasNoReply
  <1> QED
    BY <1>6, <1>7 DEF ReplyInv

\* One step of a runner that nothing disturbs.
LEMMA ReplyInvRun ==
    ASSUME OneRunnerPerAgent, TypeInv, ReplyInv, NEW r \in Runner,
           RunnerStep(r)
    PROVE  ReplyInv'
  <1> USE DEF TypeInv, TypeOK
  <1>g. \A label \in PC : Goto(r, label) =>
            /\ pc'[r] = label
            /\ \A s \in Runner \ {r} : pc'[s] = pc[s]
    BY GotoLemma DEF RunnerTypeOK
  <1>l. \A label \in PC : Leave(r, label) =>
            /\ pc'[r] = label
            /\ \A s \in Runner \ {r} : pc'[s] = pc[s] /\ cur'[s] = cur[s]
    BY LeaveLemma
  <1>s. PC = {"top", "idle", "ended", "select", "store"} \cup Before \cup Unsent
    BY DEF PC, Before, Unsent
  <1>1. CASE StopSeen(r)
    BY <1>1, <1>g, <1>s, ReplyInvFrame DEF StopSeen, transportVars, Before, Unsent
  <1>2. CASE Poll(r)
    BY <1>2, <1>g, <1>s, ReplyInvFrame DEF Poll, transportVars, Before, Unsent
  <1>3. CASE Wake(r)
    BY <1>3, <1>g, <1>s, ReplyInvFrame DEF Wake, transportVars, Before, Unsent
  <1>4. CASE InboxEmpty(r)
    BY <1>4, <1>g, <1>s, ReplyInvFrame DEF InboxEmpty, transportVars, Before, Unsent
  <1>5. CASE Mark(r)
    BY <1>5, <1>g, <1>s, ReplyInvFrame DEF Mark, transportVars, Before, Unsent
  <1>6. CASE Answer(r)
    BY <1>6, <1>g, <1>s, ReplyInvFrame DEF Answer, transportVars, Before, Unsent
  <1>7. CASE LLMError(r)
    BY <1>7, <1>g, <1>s, ReplyInvFrame DEF LLMError, transportVars, Before, Unsent
  <1>8. CASE Retry(r)
    BY <1>8, <1>g, <1>s, ReplyInvFrame DEF Retry, transportVars, Before, Unsent
  <1>9. CASE EmptyAnswer(r)
    BY <1>9, <1>l, <1>s, ReplyInvFrame DEF EmptyAnswer, transportVars, Before, Unsent
  <1>10. CASE Select(r)
    <2>1. PICK i \in Inbox(AgentOf[r]) : cur' = [cur EXCEPT ![r] = i]
      BY <1>10 DEF Select
    <2>2. cur'[r] \notin processed /\ \A s \in Runner \ {r} : cur'[s] = cur[s]
      BY <2>1 DEF Inbox, RunnerTypeOK
    <2> QED
      BY <1>10, <1>g, <1>s, <2>2, ReplyInvFrame DEF Select, transportVars,
          Before, Unsent
  <1>11. CASE AckCurrent(r)
    <2>1. CASE dest[r] = NoAgent
      BY <1>11, <1>l, <1>s, <2>1, ReplyInvAck DEF AckCurrent, Before, Unsent
    <2>2. CASE dest[r] # NoAgent
      <3>1. AfterAck(r) \in Unsent
        BY DEF AfterAck, AfterLoopCheck, Unsent
      <3> QED
        BY <1>11, <1>g, <1>s, <2>2, <3>1, ReplyInvAck DEF AckCurrent, Before,
            Unsent
    <2> QED
      BY <2>1, <2>2
  <1>12. CASE LoopCheck(r)
    <2>1. AfterLoopCheck \in Unsent
      BY DEF AfterLoopCheck, Unsent
    <2>2. \/ Leave(r, "top")
          \/ Goto(r, AfterLoopCheck) /\ cur' = cur
      BY <1>12 DEF LoopCheck, Halt
    <2>3. pc[r] \in Unsent /\ UNCHANGED <<msgs, processed>>
      BY <1>12 DEF LoopCheck, transportVars, Unsent
    <2> QED
      BY <1>g, <1>l, <1>s, <2>1, <2>2, <2>3, ReplyInvFrame DEF Before, Unsent
  <1>13. CASE MaxCheck(r)
    <2>1. \/ Leave(r, "top")
          \/ Goto(r, "send") /\ cur' = cur
      BY <1>13 DEF MaxCheck, Halt
    <2>2. pc[r] \in Unsent /\ UNCHANGED <<msgs, processed>>
      BY <1>13 DEF MaxCheck, transportVars, Unsent
    <2> QED
      BY <1>g, <1>l, <1>s, <2>1, <2>2, ReplyInvFrame DEF Before, Unsent
  <1>14. CASE ComposeReply(r)
    BY <1>14, ReplyInvCompose
  <1>15. CASE StoreReply(r)
    BY <1>15, <1>l, <1>s, ReplyInvFrame DEF StoreReply, Before, Unsent
  <1> QED
    BY <1>1, <1>2, <1>3, <1>4, <1>5, <1>6, <1>7, <1>8,
       <1>9, <1>10, <1>11, <1>12, <1>13, <1>14, <1>15 DEF RunnerStep

\* A runner that is torn down, its ack executed or not.
LEMMA ReplyInvUnwind ==
    ASSUME OneRunnerPerAgent, TypeInv, ReplyInv, NEW r \in Runner, Unwind(r)
    PROVE  ReplyInv'
  <1>1. /\ pc'[r] = "ended"
        /\ \A s \in Runner \ {r} : pc'[s] = pc[s] /\ cur'[s] = cur[s]
    BY LeaveLemma DEF Unwind, TypeInv, TypeOK, PC
  <1>2. CASE processed' = processed
    BY <1>1, <1>2, ReplyInvFrame DEF Unwind, Before, Unsent
  <1>3. CASE pc[r] = "ack" /\ Ack(cur[r])
    BY <1>1, <1>3, ReplyInvAck DEF Unwind, Before, Unsent
  <1> QED
    BY <1>2, <1>3 DEF Unwind

LEMMA ReplyInvNext ==
    ASSUME OneRunnerPerAgent, TypeInv, ReplyInv, [Next]_vars
    PROVE  ReplyInv'
  <1>1. ASSUME NEW r \in Runner, Run(r) \/ Fail(r) \/ Cancel(r)
        PROVE  ReplyInv'
    BY <1>1, ReplyInvRun, ReplyInvUnwind DEF Run, Fail, Cancel
  <1>2. ASSUME NEW p \in Proc,
               \/ Launched(p) \/ Exited(p) \/ Interrupt(p) \/ Crash(p)
        PROVE  ReplyInv'
    <2>1. UNCHANGED <<msgs, processed>>
      BY <1>2 DEF Launched, Exited, Interrupt, Crash, systemVars, transportVars
    <2>2. \A s \in Runner :
              \/ pc'[s] = pc[s] /\ cur'[s] = cur[s]
              \/ pc'[s] \in {"top", "ended"}
      BY <1>2 DEF Launched, Exited, Interrupt, Crash, systemVars, runnerVars
    <2> QED
      BY <2>1, <2>2, ReplyInvFrame DEF Before, Unsent
  <1>3. ASSUME NEW a \in Entry, NEW t \in Thread, HumanCompose(a, t)
        PROVE  ReplyInv'
    BY <1>3, ReplyInvHumanCompose
  <1>4. ASSUME NEW i \in HumanRows, HumanStore(i)
        PROVE  ReplyInv'
    BY <1>4, ReplyInvFrame DEF HumanStore, runnerVars
  <1>5. ASSUME NEW c \in StopTargets, StopCommand(c)
        PROVE  ReplyInv'
    BY <1>5, ReplyInvFrame DEF StopCommand, transportVars, runnerVars
  <1>6. CASE UNCHANGED vars
    BY <1>6, ReplyInvFrame DEF vars, systemVars, transportVars, runnerVars
  <1> QED
    BY <1>1, <1>2, <1>3, <1>4, <1>5, <1>6
       DEF Next, LaunchStart, LaunchRun, ExitStart, ExitRun

LEMMA ReplyInvariant ==
    ASSUME OneRunnerPerAgent
    PROVE  Spec => [](TypeInv /\ ReplyInv)
  <1>1. Init => TypeInv /\ ReplyInv
    <2>1. ASSUME Init PROVE ReplyInv
      BY <2>1 DEF Init, TransportInit, RunnerInit, ReplyInv, HeldRowsAreOpen,
          ParentsProcessed, UnsentHasNoReply, AnsweredAtMostOnce, Unsent
    <2> QED
      BY <2>1, TypeInvInit
  <1>2. TypeInv /\ ReplyInv /\ [Next]_vars => (TypeInv /\ ReplyInv)'
    BY TypeInvNext, ReplyInvNext
  <1> QED
    BY <1>1, <1>2, PTL DEF Spec

\* When every agent has one runner, no message is answered twice, however
\* often processes fail, are interrupted or killed, and are launched again:
\* run_once acknowledges a row before it sends the reply.
THEOREM AnsweredAtMostOnceCorrect ==
    ASSUME OneRunnerPerAgent
    PROVE  Spec => []AnsweredAtMostOnce
  <1>1. ReplyInv => AnsweredAtMostOnce
    BY DEF ReplyInv
  <1> QED
    BY <1>1, ReplyInvariant, PTL

-----------------------------------------------------------------------------
(***************************************************************************)
(* Several runners of one agent, in whatever processes.  receive claims    *)
(* nothing, so each of them may take up the same row.  The bound on its    *)
(* replies is not inductive: the runners that hold the row and have not    *)
(* composed their reply yet have to be counted with the replies there are, *)
(* and the count can only begin when there is no reply, because a row with *)
(* a reply is processed and the fetch skips it.                            *)
(***************************************************************************)

RunnersFor(i) == {r \in Runner : AgentOf[r] = msgs[i].to}

\* The runners that may still reply to row i.
Pending(i) == {r \in Runner : pc[r] \in Before \cup Unsent /\ cur[r] = i}

ShareInv ==
    /\ ParentsProcessed
    /\ \A i \in DOMAIN msgs :
          Cardinality(Children(i)) + Cardinality(Pending(i))
              <= Cardinality(RunnersFor(i))

\* What is counted is finite.
LEMMA ShareFinite ==
    ASSUME IsFiniteSet(Runner), msgs \in Seq(Envelope), NEW i
    PROVE  /\ IsFiniteSet(Children(i)) /\ Cardinality(Children(i)) \in Nat
           /\ IsFiniteSet(Pending(i)) /\ Cardinality(Pending(i)) \in Nat
           /\ IsFiniteSet(RunnersFor(i)) /\ Cardinality(RunnersFor(i)) \in Nat
  <1>1. IsFiniteSet(DOMAIN msgs)
    BY LenProperties, FS_Interval
  <1>2. /\ Children(i) \subseteq DOMAIN msgs
        /\ Pending(i) \subseteq Runner
        /\ RunnersFor(i) \subseteq Runner
    BY DEF Children, Pending, RunnersFor
  <1> QED
    BY <1>1, <1>2, FS_Subset, FS_CardinalityType

\* A step that adds no message lets a runner take up no row but an open one.
LEMMA ShareFrame ==
    ASSUME IsFiniteSet(Runner), TypeInv, TypeInv', ShareInv, msgs' = msgs,
           processed \subseteq processed',
           \A s \in Runner : pc'[s] \in Before \cup Unsent =>
               \/ pc[s] \in Before \cup Unsent /\ cur'[s] = cur[s]
               \/ cur'[s] \notin processed
    PROVE  ShareInv'
  <1>1. ParentsProcessed'
    BY DEF ShareInv, ParentsProcessed
  <1>2. ASSUME NEW i \in DOMAIN msgs
        PROVE  Cardinality(Children(i))' + Cardinality(Pending(i))'
                   <= Cardinality(RunnersFor(i))'
    <2>1. /\ Children(i)' = Children(i)
          /\ RunnersFor(i)' = RunnersFor(i)
      BY DEF Children, RunnersFor
    <2>2. /\ IsFiniteSet(Children(i)) /\ Cardinality(Children(i)) \in Nat
          /\ IsFiniteSet(Pending(i)) /\ Cardinality(Pending(i)) \in Nat
          /\ IsFiniteSet(RunnersFor(i)) /\ Cardinality(RunnersFor(i)) \in Nat
      BY ShareFinite DEF TypeInv, TypeOK, TransportTypeOK
    <2>3. CASE Pending(i)' \subseteq Pending(i)
      <3>1. /\ Cardinality(Pending(i)') \in Nat
            /\ Cardinality(Pending(i)') <= Cardinality(Pending(i))
        BY <2>2, <2>3, FS_Subset, FS_CardinalityType
      <3>2. Cardinality(Children(i)) + Cardinality(Pending(i))
                <= Cardinality(RunnersFor(i))
        BY DEF ShareInv
      <3> QED
        BY <2>1, <2>2, <3>1, <3>2
    <2>4. CASE ~(Pending(i)' \subseteq Pending(i))
      <3>1. PICK s \in Pending(i)' : s \notin Pending(i)
        BY <2>4
      <3>2. i \notin processed
        BY <3>1 DEF Pending
      <3>3. i # NoParent
        BY RowIds DEF TypeInv, TypeOK, NoParent
      <3>4. Children(i) = {}
        BY <3>2, <3>3 DEF ShareInv, ParentsProcessed, Children
      <3>5. Pending(i)' \subseteq RunnersFor(i)
        BY DEF Pending, RunnersFor, TypeInv, CurOK, Unsent, After
      <3>6. /\ Cardinality(Pending(i)') \in Nat
            /\ Cardinality(Pending(i)') <= Cardinality(RunnersFor(i))
        BY <2>2, <3>5, FS_Subset, FS_CardinalityType
      <3> QED
        BY <2>1, <2>2, <3>4, <3>6, FS_EmptySet
    <2> QED
      BY <2>3, <2>4
  <1> QED
    BY <1>1, <1>2 DEF ShareInv

\* A message nobody can have replied to or taken up is composed, and at most
\* one row gets a reply, from a runner that was counted until then.
LEMMA ShareGrows ==
    ASSUME IsFiniteSet(Runner), TypeInv, ShareInv, NEW env \in Envelope,
           Compose(env), processed' = processed, cur' = cur,
           env.parent = NoParent \/ env.parent \in processed,
           \A s \in Runner : pc'[s] \in Before \cup Unsent =>
               pc[s] \in Before \cup Unsent,
           env.parent # NoParent =>
               \E r \in Runner : /\ pc[r] \in Before \cup Unsent
                                 /\ cur[r] = env.parent
                                 /\ pc'[r] \notin Before \cup Unsent
    PROVE  ShareInv'
  <1>0. PICK n \in Nat : n = Len(msgs) + 1
    BY LenProperties DEF TypeInv, TypeOK, TransportTypeOK
  <1>1. /\ msgs' \in Seq(Envelope)
        /\ DOMAIN msgs = 1 .. Len(msgs)
        /\ Len(msgs) \in Nat
        /\ DOMAIN msgs' = DOMAIN msgs \cup {n}
        /\ \A i \in DOMAIN msgs : msgs'[i] = msgs[i]
        /\ msgs'[n] = env
    BY <1>0, ComposeLemma DEF TypeInv, TypeOK, TransportTypeOK
  <1>2. n \notin DOMAIN msgs /\ n # NoParent
    BY <1>0, <1>1 DEF NoParent
  <1>3. processed \subseteq DOMAIN msgs
    BY DEF TypeInv, TypeOK, TransportTypeOK
  <1>4. ParentsProcessed'
    BY <1>1 DEF ShareInv, ParentsProcessed
  <1>5. ASSUME NEW i \in DOMAIN msgs
        PROVE  Cardinality(Children(i))' + Cardinality(Pending(i))'
                   <= Cardinality(RunnersFor(i))'
    <2>1. RunnersFor(i)' = RunnersFor(i)
      BY <1>1 DEF RunnersFor
    <2>2. /\ IsFiniteSet(Children(i)) /\ Cardinality(Children(i)) \in Nat
          /\ IsFiniteSet(Pending(i)) /\ Cardinality(Pending(i)) \in Nat
          /\ IsFiniteSet(RunnersFor(i)) /\ Cardinality(RunnersFor(i)) \in Nat
      BY ShareFinite DEF TypeInv, TypeOK, TransportTypeOK
    <2>3. Pending(i)' \subseteq Pending(i)
      BY DEF Pending
    <2>4. Cardinality(Children(i)) + Cardinality(Pending(i))
              <= Cardinality(RunnersFor(i))
      BY DEF ShareInv
    <2>5. CASE env.parent # i
      <3>1. Children(i)' = Children(i)
        BY <1>1, <1>2, <2>5 DEF Children
      <3>2. /\ Cardinality(Pending(i)') \in Nat
            /\ Cardinality(Pending(i)') <= Cardinality(Pending(i))
        BY <2>2, <2>3, FS_Subset, FS_CardinalityType
      <3> QED
        BY <2>1, <2>2, <2>4, <3>1, <3>2
    <2>6. CASE env.parent = i
      <3>1. Children(i)' = Children(i) \cup {n} /\ n \notin Children(i)
        BY <1>1, <1>2, <2>6 DEF Children
      <3>2. Cardinality(Children(i)') = Cardinality(Children(i)) + 1
        BY <2>2, <3>1, FS_AddElement
      <3>3. i # NoParent
        BY <1>1, RowIds DEF TypeInv, TypeOK, NoParent
      <3>4. PICK r \in Runner : r \in Pending(i) /\ r \notin Pending(i)'
        BY <2>6, <3>3 DEF Pending
      <3>5. Pending(i)' \subseteq Pending(i) \ {r}
        BY <2>3, <3>4
      <3>6. /\ IsFiniteSet(Pending(i) \ {r})
            /\ Cardinality(Pending(i) \ {r}) = Cardinality(Pending(i)) - 1
        BY <2>2, <3>4, FS_RemoveElement
      <3>7. /\ Cardinality(Pending(i)') \in Nat
            /\ Cardinality(Pending(i)') <= Cardinality(Pending(i)) - 1
        BY <3>5, <3>6, FS_Subset, FS_CardinalityType
      <3> QED
        BY <2>1, <2>2, <2>4, <3>2, <3>7
    <2> QED
      BY <2>5, <2>6
  <1>6. Cardinality(Children(n))' + Cardinality(Pending(n))'
            <= Cardinality(RunnersFor(n))'
    <2>1. Children(n)' = {}
      <3>1. ASSUME NEW j \in DOMAIN msgs PROVE msgs[j].parent # n
        BY <1>2, <1>3 DEF ShareInv, ParentsProcessed
      <3>2. env.parent # n
        BY <1>2, <1>3
      <3>3. \A j \in DOMAIN msgs' : msgs'[j].parent # n
        BY <1>1, <3>1, <3>2
      <3> QED
        BY <3>3 DEF Children
    <2>2. Pending(n)' = {}
      <3>1. ASSUME NEW s \in Runner, pc[s] \in Before \cup Unsent
            PROVE  cur[s] # n
        <4>1. cur[s] \in stored
          BY <3>1 DEF TypeInv, CurOK, Unsent, After
        <4> QED
          BY <1>2, <4>1 DEF TypeInv, TypeOK, TransportTypeOK
      <3> QED
        BY <3>1 DEF Pending
    <2>3. Cardinality(RunnersFor(n)') \in Nat
      <3>1. RunnersFor(n)' \subseteq Runner
        BY DEF RunnersFor
      <3> QED
        BY <3>1, FS_Subset, FS_CardinalityType
    <2> QED
      BY <2>1, <2>2, <2>3, FS_EmptySet
  <1>7. ASSUME NEW i \in DOMAIN msgs'
        PROVE  (Cardinality(Children(i)) + Cardinality(Pending(i))
                    <= Cardinality(RunnersFor(i)))'
    <2>1. i \in DOMAIN msgs \/ i = n
      BY <1>1
    <2>2. CASE i \in DOMAIN msgs
      BY <1>5, <2>2
    <2>3. CASE i = n
      BY <1>6, <2>3 DEF Children, Pending, RunnersFor
    <2> QED
      BY <2>1, <2>2, <2>3
  <1> QED
    BY <1>4, <1>7 DEF ShareInv

\* One step of a runner that nothing disturbs.
LEMMA ShareRun ==
    ASSUME IsFiniteSet(Runner), TypeInv, TypeInv', ShareInv, NEW r \in Runner,
           RunnerStep(r)
    PROVE  ShareInv'
  <1>g. \A label \in PC : Goto(r, label) =>
            /\ pc'[r] = label
            /\ \A s \in Runner \ {r} : pc'[s] = pc[s]
    BY GotoLemma DEF TypeInv, TypeOK, RunnerTypeOK
  <1>l. \A label \in PC : Leave(r, label) =>
            /\ pc'[r] = label
            /\ \A s \in Runner \ {r} : pc'[s] = pc[s] /\ cur'[s] = cur[s]
    BY LeaveLemma DEF TypeInv, TypeOK
  <1>s. PC = {"top", "idle", "ended", "select", "store"} \cup Before \cup Unsent
    BY DEF PC, Before, Unsent
  <1>1. CASE StopSeen(r) \/ Poll(r) \/ Wake(r) \/ InboxEmpty(r)
    BY <1>1, <1>g, <1>s, ShareFrame DEF StopSeen, Poll, Wake, InboxEmpty,
        transportVars, Before, Unsent
  <1>2. CASE Mark(r) \/ Answer(r) \/ LLMError(r) \/ Retry(r)
    BY <1>2, <1>g, <1>s, ShareFrame DEF Mark, Answer, LLMError, Retry,
        transportVars, Before
  <1>3. CASE EmptyAnswer(r) \/ StoreReply(r)
    BY <1>3, <1>l, <1>s, ShareFrame DEF EmptyAnswer, StoreReply, transportVars,
        Before, Unsent
  <1>4. CASE Select(r)
    <2>1. PICK i \in Inbox(AgentOf[r]) : cur' = [cur EXCEPT ![r] = i]
      BY <1>4 DEF Select
    <2>2. cur'[r] \notin processed /\ \A s \in Runner \ {r} : cur'[s] = cur[s]
      BY <2>1 DEF Inbox, TypeInv, TypeOK, RunnerTypeOK
    <2> QED
      BY <1>4, <1>g, <1>s, <2>2, ShareFrame DEF Select, transportVars, Before,
          Unsent
  <1>5. CASE AckCurrent(r)
    <2>1. msgs' = msgs /\ processed \subseteq processed' /\ pc[r] \in Before
      BY <1>5 DEF AckCurrent, Ack, Before
    <2>2. AfterAck(r) \in Unsent
      BY DEF AfterAck, AfterLoopCheck, Unsent
    <2>3. \/ Leave(r, "top")
          \/ Goto(r, AfterAck(r)) /\ cur' = cur
      BY <1>5 DEF AckCurrent
    <2> QED
      BY <1>g, <1>l, <1>s, <2>1, <2>2, <2>3, ShareFrame DEF Before, Unsent
  <1>6. CASE LoopCheck(r)
    <2>1. AfterLoopCheck \in Unsent
      BY DEF AfterLoopCheck, Unsent
    <2>2. \/ Leave(r, "top")
          \/ Goto(r, AfterLoopCheck) /\ cur' = cur
      BY <1>6 DEF LoopCheck, Halt
    <2>3. pc[r] \in Unsent /\ UNCHANGED <<msgs, processed>>
      BY <1>6 DEF LoopCheck, transportVars, Unsent
    <2> QED
      BY <1>g, <1>l, <1>s, <2>1, <2>2, <2>3, ShareFrame DEF Before, Unsent
  <1>7. CASE MaxCheck(r)
    <2>1. \/ Leave(r, "top")
          \/ Goto(r, "send") /\ cur' = cur
      BY <1>7 DEF MaxCheck, Halt
    <2>2. pc[r] \in Unsent /\ UNCHANGED <<msgs, processed>>
      BY <1>7 DEF MaxCheck, transportVars, Unsent
    <2> QED
      BY <1>g, <1>l, <1>s, <2>1, <2>2, ShareFrame DEF Before, Unsent
  <1>8. CASE ComposeReply(r)
    <2>1. /\ cur[r] \in DOMAIN msgs /\ cur[r] \in processed
          /\ dest[r] \in Name
          /\ msgs[cur[r]] \in Envelope /\ cur[r] \in Nat
      BY <1>8, RowIds DEF ComposeReply, TypeInv, TypeOK, TransportTypeOK, CurOK,
          AckedOK, Before, After
    <2>2. Reply(r) \in Envelope /\ Reply(r).parent = cur[r]
      BY <2>1, RunnerAssumption DEF Reply, Envelope
    <2>3. /\ pc[r] \in Unsent
          /\ pc'[r] = "store"
          /\ \A s \in Runner \ {r} : pc'[s] = pc[s]
          /\ UNCHANGED <<processed, cur>>
      BY <1>8, <1>g, <1>s DEF ComposeReply, Unsent
    <2>4. "store" \notin Before \cup Unsent
      BY DEF Before, Unsent
    <2>5. Compose(Reply(r))
      BY <1>8 DEF ComposeReply
    <2> QED
      BY <2>1, <2>2, <2>3, <2>4, <2>5, ShareGrows
  <1> QED
    BY <1>1, <1>2, <1>3, <1>4, <1>5, <1>6, <1>7, <1>8 DEF RunnerStep

\* No message gets more replies than its agent has runners, although receive
\* claims nothing: two runners that hold one row may both answer it (run_once
\* never looks whether its ack was the first), but a runner that has answered
\* does not get the row again, over any failures and relaunches.
THEOREM OneReplyPerRunnerCorrect ==
    ASSUME IsFiniteSet(Runner)
    PROVE  Spec => []OneReplyPerRunner
  <1>1. Init => TypeInv /\ ShareInv
    <2>1. ASSUME Init PROVE ShareInv
      BY <2>1 DEF Init, TransportInit, ShareInv, ParentsProcessed
    <2> QED
      BY <2>1, TypeInvInit
  <1>2. ASSUME TypeInv, ShareInv, [Next]_vars PROVE TypeInv' /\ ShareInv'
    <2> USE <1>2
    <2>t. TypeInv'
      BY TypeInvNext
    <2>1. ASSUME NEW r \in Runner, Run(r) PROVE ShareInv'
      BY <2>t, <2>1, ShareRun DEF Run
    <2>2. ASSUME NEW r \in Runner, Unwind(r) PROVE ShareInv'
      <3>1. /\ pc'[r] = "ended"
            /\ \A s \in Runner \ {r} : pc'[s] = pc[s] /\ cur'[s] = cur[s]
        BY <2>2, LeaveLemma DEF Unwind, TypeInv, TypeOK, PC
      <3>2. msgs' = msgs /\ processed \subseteq processed'
        BY <2>2 DEF Unwind, Ack
      <3> QED
        BY <2>t, <3>1, <3>2, ShareFrame DEF Before, Unsent
    <2>3. ASSUME NEW p \in Proc,
                 Launched(p) \/ Exited(p) \/ Interrupt(p) \/ Crash(p)
          PROVE  ShareInv'
      <3>1. UNCHANGED <<msgs, processed>>
        BY <2>3 DEF Launched, Exited, Interrupt, Crash, systemVars, transportVars
      <3>2. \A s \in Runner :
                \/ pc'[s] = pc[s] /\ cur'[s] = cur[s]
                \/ pc'[s] \in {"top", "ended"}
        BY <2>3 DEF Launched, Exited, Interrupt, Crash, systemVars, runnerVars
      <3> QED
        BY <2>t, <3>1, <3>2, ShareFrame DEF Before, Unsent
    <2>4. ASSUME NEW a \in Entry, NEW t \in Thread, HumanCompose(a, t)
          PROVE  ShareInv'
      <3> DEFINE env == [from |-> Human, to |-> a, thread |-> t,
                         parent |-> NoParent]
      <3>1. env \in Envelope /\ env.parent = NoParent
        BY RunnerAssumption, ClusterAssumption DEF Envelope, NoParent
      <3>2. Compose(env) /\ UNCHANGED <<processed, cur, pc>>
        BY <2>4 DEF HumanCompose, runnerVars
      <3> HIDE DEF env
      <3> QED
        BY <3>1, <3>2, ShareGrows
    <2>5. ASSUME NEW i \in HumanRows, HumanStore(i) PROVE ShareInv'
      BY <2>t, <2>5, ShareFrame DEF HumanStore, runnerVars
    <2>6. ASSUME NEW c \in StopTargets, StopCommand(c) PROVE ShareInv'
      BY <2>t, <2>6, ShareFrame DEF StopCommand, transportVars, runnerVars
    <2>7. CASE UNCHANGED vars
      BY <2>t, <2>7, ShareFrame DEF vars, systemVars, transportVars, runnerVars
    <2> QED
      BY <2>t, <2>1, <2>2, <2>3, <2>4, <2>5, <2>6, <2>7
         DEF Next, Fail, Cancel, LaunchStart, LaunchRun, ExitStart, ExitRun
  <1>3. ASSUME TypeInv, ShareInv PROVE OneReplyPerRunner
    <2> SUFFICES ASSUME NEW i \in DOMAIN msgs
                 PROVE  Cardinality(Children(i)) <= Cardinality(RunnersFor(i))
      BY DEF OneReplyPerRunner, RunnersFor
    <2>1. /\ Cardinality(Children(i)) \in Nat
          /\ Cardinality(Pending(i)) \in Nat
          /\ Cardinality(RunnersFor(i)) \in Nat
      BY <1>3, ShareFinite DEF TypeInv, TypeOK, TransportTypeOK
    <2>2. Cardinality(Children(i)) + Cardinality(Pending(i))
              <= Cardinality(RunnersFor(i))
      BY <1>3 DEF ShareInv
    <2> QED
      BY <2>1, <2>2
  <1> QED
    BY <1>1, <1>2, <1>3, PTL DEF Spec

-----------------------------------------------------------------------------
(***************************************************************************)
(* Order, when every agent has one runner.  What an agent has constructed  *)
(* before its present draft is older than the draft, so rows of one sender *)
(* are committed in the order of created_at, and a row that was the oldest *)
(* in its inbox stays the oldest of its sender until it is acknowledged.   *)
(***************************************************************************)

DraftNewest ==
    \A r \in Runner : pc[r] = "store" =>
        /\ msgs[draft[r]].from = AgentOf[r]
        /\ draft[r] \notin stored
        /\ \A i \in DOMAIN msgs : msgs[i].from = AgentOf[r] => i <= draft[r]

SameSender(i, j) ==
    /\ msgs[i].from \in Agent
    /\ msgs[i].from = msgs[j].from
    /\ msgs[i].to = msgs[j].to

HeldIsOldest ==
    \A r \in Runner : pc[r] \in Before =>
        \A i \in stored :
            (i < cur[r] /\ SameSender(i, cur[r])) => i \in processed

OrderInv == DraftNewest /\ HeldIsOldest /\ PerSenderOrder

\* A step that leaves the table alone may let a runner take the oldest row up.
LEMMA OrderFrame ==
    ASSUME TypeInv, OrderInv,
           UNCHANGED <<msgs, stored, processed>>,
           \A s \in Runner : pc'[s] = "store" =>
               pc[s] = "store" /\ draft'[s] = draft[s],
           \A s \in Runner : pc'[s] \in Before =>
               \/ pc[s] \in Before /\ cur'[s] = cur[s]
               \/ OldestInInbox(AgentOf[s], cur'[s])
    PROVE  OrderInv'
  <1>1. DraftNewest' /\ PerSenderOrder'
    BY DEF OrderInv, DraftNewest, PerSenderOrder
  <1>2. HeldIsOldest'
    <2> SUFFICES ASSUME NEW s \in Runner, pc'[s] \in Before, NEW i \in stored,
                        i < cur'[s], SameSender(i, cur'[s])
                 PROVE  i \in processed
      BY DEF HeldIsOldest, SameSender
    <2>1. CASE pc[s] \in Before /\ cur'[s] = cur[s]
      BY <2>1 DEF OrderInv, HeldIsOldest
    <2>2. CASE OldestInInbox(AgentOf[s], cur'[s])
      <3>1. DOMAIN msgs \subseteq Nat /\ stored \subseteq DOMAIN msgs
        BY RowIds DEF TypeInv, TypeOK, TransportTypeOK
      <3>2. cur'[s] \in stored /\ msgs[i].to = AgentOf[s]
        BY <2>2 DEF OldestInInbox, Inbox, SameSender
      <3>3. i \in Inbox(AgentOf[s]) => cur'[s] <= i
        BY <2>2 DEF OldestInInbox
      <3>4. i \in Nat /\ cur'[s] \in Nat
        BY <3>1, <3>2
      <3> QED
        BY <3>2, <3>3, <3>4 DEF Inbox
    <2> QED
      BY <2>1, <2>2
  <1> QED
    BY <1>1, <1>2 DEF OrderInv

\* Runner r acknowledges the oldest row of its sender.
LEMMA OrderAck ==
    ASSUME TypeInv, OrderInv, NEW r \in Runner, pc[r] = "ack", Ack(cur[r]),
           UNCHANGED <<msgs, stored>>, pc'[r] \notin Before \cup {"store"},
           \A s \in Runner \ {r} :
               pc'[s] = pc[s] /\ cur'[s] = cur[s] /\ draft'[s] = draft[s]
    PROVE  OrderInv'
  <1>1. processed' = processed \cup {cur[r]}
    BY DEF Ack
  <1>2. DraftNewest' /\ HeldIsOldest'
    BY <1>1 DEF OrderInv, DraftNewest, HeldIsOldest, SameSender
  <1>3. PerSenderOrder'
    <2> SUFFICES ASSUME NEW i \in stored, NEW j \in stored, i < j,
                        SameSender(i, j), j \in processed'
                 PROVE  i \in processed'
      BY DEF PerSenderOrder, SameSender
    <2>1. CASE j \in processed
      BY <1>1, <2>1 DEF OrderInv, PerSenderOrder, SameSender
    <2>2. CASE j = cur[r]
      BY <1>1, <2>2 DEF OrderInv, HeldIsOldest, Before
    <2> QED
      BY <1>1, <2>1, <2>2
  <1> QED
    BY <1>2, <1>3 DEF OrderInv

\* A row is committed that has no younger one of its sender.
LEMMA OrderStore ==
    ASSUME TypeInv, OrderInv, NEW j \in DOMAIN msgs \ stored, Store(j),
           UNCHANGED <<msgs, processed>>,
           \A i \in DOMAIN msgs :
               (msgs[i].from \in Agent /\ msgs[i].from = msgs[j].from) => i <= j,
           \A s \in Runner : pc'[s] = "store" =>
               pc[s] = "store" /\ draft'[s] = draft[s] /\ draft[s] # j,
           \A s \in Runner : pc'[s] \in Before =>
               pc[s] \in Before /\ cur'[s] = cur[s]
    PROVE  OrderInv'
  <1>1. stored' = stored \cup {j}
    BY DEF Store
  <1>2. DOMAIN msgs \subseteq Nat /\ stored \subseteq DOMAIN msgs
        /\ processed \subseteq stored
    BY RowIds DEF TypeInv, TypeOK, TransportTypeOK
  <1>3. DraftNewest'
    BY <1>1 DEF OrderInv, DraftNewest
  <1>4. HeldIsOldest'
    <2> SUFFICES ASSUME NEW s \in Runner, pc[s] \in Before, NEW i \in stored',
                        i < cur[s], SameSender(i, cur[s])
                 PROVE  i \in processed
      BY DEF HeldIsOldest, SameSender
    <2>1. cur[s] \in DOMAIN msgs
      BY <1>2 DEF TypeInv, CurOK
    <2>2. i # j
      BY <1>2, <2>1 DEF SameSender
    <2> QED
      BY <1>1, <2>2 DEF OrderInv, HeldIsOldest
  <1>5. PerSenderOrder'
    <2> SUFFICES ASSUME NEW i \in stored', NEW k \in processed, i < k,
                        SameSender(i, k)
                 PROVE  i \in processed
      BY <1>2 DEF PerSenderOrder, SameSender
    <2>1. k \in DOMAIN msgs
      BY <1>2
    <2>2. i # j
      BY <1>2, <2>1 DEF SameSender
    <2> QED
      BY <1>1, <1>2, <2>2 DEF OrderInv, PerSenderOrder, SameSender
  <1> QED
    BY <1>3, <1>4, <1>5 DEF OrderInv

\* The drafts of two runners are of two agents.
LEMMA DraftsDistinct ==
    ASSUME OneRunnerPerAgent, DraftNewest, NEW r \in Runner, NEW s \in Runner,
           r # s, pc[r] = "store", pc[s] = "store"
    PROVE  draft[r] # draft[s]
  BY DEF OneRunnerPerAgent, DraftNewest

\* A message is constructed, by the runner of its agent or by the human: it
\* is the newest of its sender and not a row yet.
LEMMA OrderCompose ==
    ASSUME TypeInv, OrderInv, NEW env \in Envelope, Compose(env),
           UNCHANGED <<stored, processed, cur>>,
           \A s \in Runner : pc'[s] \in Before => pc[s] \in Before,
           \A s \in Runner : pc'[s] = "store" =>
               \/ /\ pc[s] = "store"
                  /\ draft'[s] = draft[s]
                  /\ env.from # AgentOf[s]
               \/ draft'[s] = Len(msgs) + 1 /\ env.from = AgentOf[s]
    PROVE  OrderInv'
  <1>1. /\ DOMAIN msgs = 1 .. Len(msgs)
        /\ Len(msgs) \in Nat
        /\ DOMAIN msgs' = DOMAIN msgs \cup {Len(msgs) + 1}
        /\ \A i \in DOMAIN msgs : msgs'[i] = msgs[i]
        /\ msgs'[Len(msgs) + 1] = env
        /\ stored \subseteq DOMAIN msgs
    BY ComposeLemma DEF TypeInv, TypeOK, TransportTypeOK
  <1>2. DraftNewest'
    <2> SUFFICES ASSUME NEW s \in Runner, pc'[s] = "store"
                 PROVE  /\ msgs'[draft'[s]].from = AgentOf[s]
                        /\ draft'[s] \notin stored
                        /\ \A i \in DOMAIN msgs' :
                              msgs'[i].from = AgentOf[s] => i <= draft'[s]
      BY DEF DraftNewest
    <2>1. CASE pc[s] = "store" /\ draft'[s] = draft[s] /\ env.from # AgentOf[s]
      <3>1. draft[s] \in DOMAIN msgs
        BY <2>1 DEF TypeInv, DraftOK
      <3> QED
        BY <1>1, <2>1, <3>1 DEF OrderInv, DraftNewest
    <2>2. CASE draft'[s] = Len(msgs) + 1 /\ env.from = AgentOf[s]
      BY <1>1, <2>2
    <2> QED
      BY <2>1, <2>2
  <1>3. HeldIsOldest'
    <2> SUFFICES ASSUME NEW s \in Runner, pc[s] \in Before, NEW i \in stored,
                        i < cur[s], SameSender(i, cur[s])'
                 PROVE  i \in processed
      BY DEF HeldIsOldest
    <2>1. cur[s] \in DOMAIN msgs /\ i \in DOMAIN msgs
      BY <1>1 DEF TypeInv, CurOK
    <2>2. SameSender(i, cur[s])
      BY <1>1, <2>1 DEF SameSender
    <2> QED
      BY <2>2 DEF OrderInv, HeldIsOldest
  <1>4. PerSenderOrder'
    BY <1>1 DEF OrderInv, PerSenderOrder
  <1> QED
    BY <1>2, <1>3, <1>4 DEF OrderInv

\* One step of a runner that nothing disturbs.
LEMMA OrderRun ==
    ASSUME OneRunnerPerAgent, TypeInv, OrderInv, NEW r \in Runner,
           RunnerStep(r)
    PROVE  OrderInv'
  <1> USE DEF TypeInv, TypeOK
  <1>g. \A label \in PC : Goto(r, label) =>
            /\ pc'[r] = label
            /\ \A s \in Runner \ {r} : pc'[s] = pc[s]
    BY GotoLemma DEF RunnerTypeOK
  <1>l. \A label \in PC : Leave(r, label) =>
            /\ pc'[r] = label
            /\ \A s \in Runner \ {r} :
                  pc'[s] = pc[s] /\ cur'[s] = cur[s] /\ draft'[s] = draft[s]
    BY LeaveLemma
  <1>s. PC = {"top", "idle", "ended", "select", "store"} \cup Before \cup Unsent
    BY DEF PC, Before, Unsent
  <1>1. CASE StopSeen(r) \/ Poll(r) \/ Wake(r) \/ InboxEmpty(r)
    BY <1>1, <1>g, <1>s, OrderFrame DEF StopSeen, Poll, Wake, InboxEmpty,
        transportVars, Before
  <1>2. CASE Mark(r) \/ Answer(r) \/ LLMError(r) \/ Retry(r)
    BY <1>2, <1>g, <1>s, OrderFrame DEF Mark, Answer, LLMError, Retry,
        transportVars, Before
  <1>3. CASE EmptyAnswer(r)
    BY <1>3, <1>l, <1>s, OrderFrame DEF EmptyAnswer, transportVars, Before
  <1>4. CASE Select(r)
    <2>1. PICK i \in Inbox(AgentOf[r]) :
              OldestInInbox(AgentOf[r], i) /\ cur' = [cur EXCEPT ![r] = i]
      BY <1>4 DEF Select
    <2>2. cur'[r] = i /\ \A s \in Runner \ {r} : cur'[s] = cur[s]
      BY <2>1 DEF RunnerTypeOK
    <2> QED
      BY <1>4, <1>g, <1>s, <2>1, <2>2, OrderFrame DEF Select, transportVars,
          Before
  <1>5. CASE AckCurrent(r)
    <2>1. CASE dest[r] = NoAgent
      BY <1>5, <1>l, <1>s, <2>1, OrderAck DEF AckCurrent, Before
    <2>2. CASE dest[r] # NoAgent
      <3>1. AfterAck(r) \in Unsent
        BY DEF AfterAck, AfterLoopCheck, Unsent
      <3> QED
        BY <1>5, <1>g, <1>s, <2>2, <3>1, OrderAck DEF AckCurrent, Before,
            Unsent
    <2> QED
      BY <2>1, <2>2
  <1>6. CASE LoopCheck(r) \/ MaxCheck(r)
    <2>1. AfterLoopCheck \in Unsent
      BY DEF AfterLoopCheck, Unsent
    <2>2. \/ Leave(r, "top")
          \/ /\ Goto(r, AfterLoopCheck) \/ Goto(r, "send")
             /\ UNCHANGED <<cur, draft>>
      BY <1>6 DEF LoopCheck, MaxCheck, Halt
    <2>3. UNCHANGED <<msgs, stored, processed>>
      BY <1>6 DEF LoopCheck, MaxCheck, transportVars
    <2> QED
      BY <1>g, <1>l, <1>s, <2>1, <2>2, <2>3, OrderFrame DEF Before, Unsent
  <1>7. CASE ComposeReply(r)
    <2>1. cur[r] \in DOMAIN msgs /\ dest[r] \in Name
      BY <1>7 DEF ComposeReply, TransportTypeOK, CurOK, AckedOK, Before, After
    <2>2. Reply(r) \in Envelope /\ Reply(r).from = AgentOf[r]
      BY <2>1, RowIds, RunnerAssumption DEF Reply, Envelope
    <2>3. /\ draft'[r] = Len(msgs) + 1
          /\ \A s \in Runner \ {r} : draft'[s] = draft[s]
      BY <1>7 DEF ComposeReply, RunnerTypeOK
    <2>4. \A s \in Runner \ {r} : AgentOf[s] # AgentOf[r]
      BY DEF OneRunnerPerAgent
    <2> QED
      BY <1>7, <1>g, <1>s, <2>2, <2>3, <2>4, OrderCompose DEF ComposeReply,
          Before
  <1>8. CASE StoreReply(r)
    <2>1. /\ draft[r] \in DOMAIN msgs \ stored
          /\ \A i \in DOMAIN msgs :
                msgs[i].from = msgs[draft[r]].from => i <= draft[r]
      BY <1>8 DEF StoreReply, DraftOK, OrderInv, DraftNewest
    <2>2. \A s \in Runner \ {r} : pc[s] = "store" => draft[s] # draft[r]
      BY <1>8, DraftsDistinct DEF StoreReply, OrderInv
    <2> QED
      BY <1>8, <1>l, <1>s, <2>1, <2>2, OrderStore DEF StoreReply, Before
  <1> QED
    BY <1>1, <1>2, <1>3, <1>4, <1>5, <1>6, <1>7, <1>8 DEF RunnerStep

\* A runner that is torn down, whatever statement was in flight.
LEMMA OrderUnwind ==
    ASSUME OneRunnerPerAgent, TypeInv, OrderInv, NEW r \in Runner, Unwind(r)
    PROVE  OrderInv'
  <1>1. /\ pc'[r] = "ended"
        /\ \A s \in Runner \ {r} :
              pc'[s] = pc[s] /\ cur'[s] = cur[s] /\ draft'[s] = draft[s]
    BY LeaveLemma DEF Unwind, TypeInv, TypeOK, PC
  <1>2. CASE UNCHANGED <<stored, processed>>
    BY <1>1, <1>2, OrderFrame DEF Unwind, Before
  <1>3. CASE pc[r] = "ack" /\ Ack(cur[r]) /\ UNCHANGED stored
    BY <1>1, <1>3, OrderAck DEF Unwind, Before
  <1>4. CASE pc[r] = "store" /\ Store(draft[r]) /\ UNCHANGED processed
    <2>1. /\ draft[r] \in DOMAIN msgs \ stored
          /\ \A i \in DOMAIN msgs :
                msgs[i].from = msgs[draft[r]].from => i <= draft[r]
      BY <1>4 DEF TypeInv, DraftOK, OrderInv, DraftNewest
    <2>2. \A s \in Runner \ {r} : pc[s] = "store" => draft[s] # draft[r]
      BY <1>4, DraftsDistinct DEF OrderInv
    <2> QED
      BY <1>1, <1>4, <2>1, <2>2, OrderStore DEF Unwind, Before
  <1> QED
    BY <1>2, <1>3, <1>4 DEF Unwind

\* The human is no agent: its rows are in nobody's way.
LEMMA OrderHumanCompose ==
    ASSUME TypeInv, OrderInv, NEW a \in Entry, NEW t \in Thread,
           HumanCompose(a, t)
    PROVE  OrderInv'
  <1> DEFINE env == [from |-> Human, to |-> a, thread |-> t,
                     parent |-> NoParent]
  <1>1. env \in Envelope /\ env.from \notin Agent
    BY RunnerAssumption, ClusterAssumption DEF Envelope, NoParent
  <1>2. Compose(env) /\ UNCHANGED <<stored, processed, cur, pc, draft>>
    BY DEF HumanCompose, runnerVars
  <1>3. \A s \in Runner : env.from # AgentOf[s]
    BY <1>1, RunnerAssumption
  <1> HIDE DEF env
  <1> QED
    BY <1>1, <1>2, <1>3, OrderCompose

LEMMA OrderHumanStore ==
    ASSUME TypeInv, OrderInv, NEW j \in HumanRows, HumanStore(j)
    PROVE  OrderInv'
  <1>1. /\ j \in DOMAIN msgs \ stored
        /\ Store(j)
        /\ UNCHANGED <<msgs, processed, pc, cur, draft>>
    BY DEF HumanStore, HumanRows, runnerVars
  <1>2. msgs[j].from \notin Agent
    BY ClusterAssumption DEF HumanRows
  <1>3. \A s \in Runner : pc[s] = "store" => draft[s] # j
    BY <1>2, RunnerAssumption DEF OrderInv, DraftNewest
  <1> QED
    BY <1>1, <1>2, <1>3, OrderStore

LEMMA OrderNext ==
    ASSUME OneRunnerPerAgent, TypeInv, OrderInv, [Next]_vars
    PROVE  OrderInv'
  <1>1. ASSUME NEW r \in Runner, Run(r) \/ Fail(r) \/ Cancel(r)
        PROVE  OrderInv'
    BY <1>1, OrderRun, OrderUnwind DEF Run, Fail, Cancel
  <1>2. ASSUME NEW p \in Proc,
               \/ Launched(p) \/ Exited(p) \/ Interrupt(p) \/ Crash(p)
        PROVE  OrderInv'
    <2>1. UNCHANGED <<msgs, stored, processed>>
      BY <1>2 DEF Launched, Exited, Interrupt, Crash, systemVars, transportVars
    <2>2. \A s \in Runner :
              \/ pc'[s] = pc[s] /\ cur'[s] = cur[s] /\ draft'[s] = draft[s]
              \/ pc'[s] \in {"top", "ended"}
      BY <1>2 DEF Launched, Exited, Interrupt, Crash, systemVars, runnerVars
    <2> QED
      BY <2>1, <2>2, OrderFrame DEF Before
  <1>3. ASSUME NEW a \in Entry, NEW t \in Thread, HumanCompose(a, t)
        PROVE  OrderInv'
    BY <1>3, OrderHumanCompose
  <1>4. ASSUME NEW i \in HumanRows, HumanStore(i)
        PROVE  OrderInv'
    BY <1>4, OrderHumanStore
  <1>5. CASE UNCHANGED vars \/ \E c \in StopTargets : StopCommand(c)
    BY <1>5, OrderFrame DEF StopCommand, vars, systemVars, transportVars,
        runnerVars
  <1> QED
    BY <1>1, <1>2, <1>3, <1>4, <1>5
       DEF Next, LaunchStart, LaunchRun, ExitStart, ExitRun

\* When every agent has one runner, what it sends to a recipient is processed
\* in the order it was sent, over crashes, relaunches and cancelled
\* statements: receive orders by created_at, which is taken before the commit.
THEOREM PerSenderOrderCorrect ==
    ASSUME OneRunnerPerAgent
    PROVE  Spec => []PerSenderOrder
  <1>1. Init => TypeInv /\ OrderInv
    <2>1. ASSUME Init PROVE OrderInv
      BY <2>1 DEF Init, TransportInit, RunnerInit, OrderInv, DraftNewest,
          HeldIsOldest, PerSenderOrder, Before
    <2> QED
      BY <2>1, TypeInvInit
  <1>2. TypeInv /\ OrderInv /\ [Next]_vars => (TypeInv /\ OrderInv)'
    BY TypeInvNext, OrderNext
  <1>3. OrderInv => PerSenderOrder
    BY DEF OrderInv
  <1> QED
    BY <1>1, <1>2, <1>3, PTL DEF Spec

-----------------------------------------------------------------------------
(***************************************************************************)
(* No reply is lost while runners end by themselves only: at a sentinel, or *)
(* when the model has failed for the last time, which happens before ack.  *)
(***************************************************************************)

\* Nothing interrupts or kills a process and no statement raises; a runner
\* whose model fails has no siblings that would be cancelled with it.
Undisturbed ==
    /\ Faults \subseteq {"llm", "empty"}
    /\ "llm" \in Faults =>
          \A r, s \in Runner : ProcOf[r] = ProcOf[s] => r = s

\* The destination is one of the agent's until the reply is sent.
DestOK ==
    \A r \in Runner : pc[r] \in {"ack"} \cup After =>
        dest[r] \in Destinations(AgentOf[r])

\* Only a process that is up has tasks.
DownIsIdle == \A r \in Runner : proc[ProcOf[r]] # "up" => pc[r] = "ended"

NoLossInv == DestOK /\ DownIsIdle /\ NoLostReply

\* A step that acknowledges nothing keeps every reply under way if each
\* runner stays on its row, halts it, or was not past ack.
LEMMA NoLossFrame ==
    ASSUME NoLossInv, UNCHANGED processed,
           \A i \in stored : i \in stored' /\ msgs'[i] = msgs[i],
           processed \subseteq stored, stored \subseteq DOMAIN msgs,
           DOMAIN msgs \subseteq DOMAIN msgs', halted \subseteq halted',
           \A s \in Runner : pc[s] \in After =>
               \/ pc'[s] \in After /\ cur'[s] = cur[s]
               \/ cur[s] \in halted'
               \/ \E j \in stored' : j \in DOMAIN msgs' /\ msgs'[j].parent = cur[s]
    PROVE  NoLostReply'
  <1> SUFFICES ASSUME NEW i \in processed, msgs[i].to \in Agent,
                      HasDestination(msgs[i].to)
               PROVE  \/ i \in halted'
                      \/ InFlight(i)'
                      \/ Children(i)' \cap stored' # {}
    BY DEF NoLostReply, HasDestination, Destinations
  <1>1. \/ i \in halted
        \/ InFlight(i)
        \/ Children(i) \cap stored # {}
    BY DEF NoLossInv, NoLostReply
  <1>2. CASE i \in halted
    BY <1>2
  <1>3. CASE InFlight(i)
    BY <1>3 DEF InFlight, After, Children
  <1>4. CASE Children(i) \cap stored # {}
    BY <1>4 DEF Children
  <1> QED
    BY <1>1, <1>2, <1>3, <1>4

\* One step of a runner in a process that is up.
LEMMA NoLossRun ==
    ASSUME TypeInv, NoLossInv, NEW r \in Runner, Run(r)
    PROVE  NoLossInv'
  <1> USE DEF TypeInv, TypeOK, Run
  <1>g. \A label \in PC : Goto(r, label) =>
            /\ pc'[r] = label
            /\ \A s \in Runner \ {r} : pc'[s] = pc[s]
    BY GotoLemma DEF RunnerTypeOK
  <1>l. \A label \in PC : Leave(r, label) =>
            /\ pc'[r] = label
            /\ \A s \in Runner \ {r} :
                  pc'[s] = pc[s] /\ cur'[s] = cur[s] /\ dest'[s] = dest[s]
    BY LeaveLemma
  <1>s. PC = {"top", "idle", "ended", "select", "mark", "llm", "backoff", "ack"}
                 \cup After
    BY DEF PC, After
  <1>t. processed \subseteq stored /\ stored \subseteq DOMAIN msgs
    BY DEF TransportTypeOK
  <1>d. DownIsIdle'
    <2>1. pc[r] # "ended" /\ \A s \in Runner \ {r} : pc'[s] = pc[s]
      BY <1>g, <1>l, <1>s DEF RunnerStep, StopSeen, Poll, Wake, InboxEmpty, Select,
          Mark, Answer, EmptyAnswer, LLMError, Retry, AckCurrent, LoopCheck,
          MaxCheck, ComposeReply, StoreReply, Halt, AfterAck, AfterLoopCheck,
          After
    <2> QED
      BY <2>1 DEF NoLossInv, DownIsIdle
  \* Outside ack to send nothing is owed.
  <1>q. ASSUME pc[r] \notin After, UNCHANGED <<msgs, stored, processed, halted>>,
               \A s \in Runner \ {r} : pc'[s] = pc[s] /\ cur'[s] = cur[s]
        PROVE  NoLostReply'
    BY <1>q, <1>t, NoLossFrame
  <1>1. CASE StopSeen(r) \/ Poll(r) \/ Wake(r) \/ InboxEmpty(r)
    <2>1. DestOK'
      BY <1>1, <1>g, <1>s DEF StopSeen, Poll, Wake, InboxEmpty, NoLossInv,
          DestOK, After
    <2> QED
      BY <1>1, <1>d, <1>g, <1>q, <1>s, <2>1 DEF StopSeen, Poll, Wake,
          InboxEmpty, transportVars, After, NoLossInv
  <1>2. CASE Mark(r) \/ LLMError(r) \/ Retry(r)
    <2>1. DestOK'
      BY <1>2, <1>g, <1>s DEF Mark, LLMError, Retry, NoLossInv, DestOK, After
    <2> QED
      BY <1>2, <1>d, <1>g, <1>q, <1>s, <2>1 DEF Mark, LLMError, Retry,
          transportVars, After, NoLossInv
  <1>3. CASE EmptyAnswer(r)
    <2>1. DestOK'
      BY <1>3, <1>l, <1>s DEF EmptyAnswer, NoLossInv, DestOK, After
    <2> QED
      BY <1>3, <1>d, <1>l, <1>q, <1>s, <2>1 DEF EmptyAnswer, transportVars,
          After, NoLossInv
  <1>4. CASE Select(r)
    <2>1. \A s \in Runner \ {r} : cur'[s] = cur[s]
      BY <1>4 DEF Select, RunnerTypeOK
    <2>2. DestOK'
      BY <1>4, <1>g, <1>s DEF Select, NoLossInv, DestOK, After
    <2> QED
      BY <1>4, <1>d, <1>g, <1>q, <1>s, <2>1, <2>2 DEF Select, transportVars,
          After, NoLossInv
  <1>5. CASE Answer(r)
    <2>1. PICK d \in Destinations(AgentOf[r]) : dest' = [dest EXCEPT ![r] = d]
      BY <1>5 DEF Answer
    <2>2. dest'[r] = d /\ \A s \in Runner \ {r} : dest'[s] = dest[s]
      BY <2>1 DEF RunnerTypeOK
    <2>3. DestOK'
      BY <1>5, <1>g, <1>s, <2>2 DEF Answer, NoLossInv, DestOK
    <2> QED
      BY <1>5, <1>d, <1>g, <1>q, <1>s, <2>3 DEF Answer, transportVars, After,
          NoLossInv
  <1>6. CASE AckCurrent(r)
    <2>0. /\ processed' = processed \cup {cur[r]}
          /\ cur[r] \in stored /\ msgs[cur[r]].to = AgentOf[r]
          /\ dest[r] \in Destinations(AgentOf[r])
          /\ UNCHANGED <<msgs, stored, halted>>
          /\ pc[r] = "ack"
      BY <1>6 DEF AckCurrent, Ack, CurOK, Before, NoLossInv, DestOK
    <2>1. /\ \A s \in Runner \ {r} :
                pc'[s] = pc[s] /\ cur'[s] = cur[s] /\ dest'[s] = dest[s]
          /\ \/ dest[r] = NoAgent /\ pc'[r] = "top"
             \/ pc'[r] \in After /\ UNCHANGED <<cur, dest>>
      <3>1. AfterAck(r) \in After
        BY DEF AfterAck, AfterLoopCheck, After
      <3> QED
        BY <1>6, <1>g, <1>l, <1>s, <3>1 DEF AckCurrent
    <2>2. DestOK'
      BY <2>0, <2>1 DEF NoLossInv, DestOK, After
    <2>3. NoLostReply'
      <3> SUFFICES ASSUME NEW i \in processed', msgs[i].to \in Agent,
                          HasDestination(msgs[i].to)
                   PROVE  \/ i \in halted
                          \/ InFlight(i)'
                          \/ Children(i) \cap stored # {}
        BY <2>0 DEF NoLostReply, HasDestination, Destinations, Children
      <3>1. CASE i = cur[r]
        BY <2>0, <2>1, <3>1 DEF HasDestination, InFlight, After
      <3>2. CASE i \in processed
        <4>1. \/ i \in halted
              \/ InFlight(i)
              \/ Children(i) \cap stored # {}
          BY <3>2 DEF NoLossInv, NoLostReply
        <4>2. ASSUME InFlight(i) PROVE InFlight(i)'
          BY <2>0, <2>1, <4>2 DEF InFlight, After
        <4> QED
          BY <4>1, <4>2
      <3> QED
        BY <2>0, <3>1, <3>2
    <2> QED
      BY <1>d, <2>2, <2>3 DEF NoLossInv
  <1>7. CASE LoopCheck(r) \/ MaxCheck(r)
    <2>1. /\ pc[r] \in After
          /\ UNCHANGED <<msgs, stored, processed>>
          /\ \/ Halt(r)
             \/ /\ Goto(r, AfterLoopCheck) \/ Goto(r, "send")
                /\ UNCHANGED <<cur, dest, halted>>
      BY <1>7 DEF LoopCheck, MaxCheck, transportVars, After
    <2>2. AfterLoopCheck \in After
      BY DEF AfterLoopCheck, After
    <2>3. /\ \A s \in Runner \ {r} :
                pc'[s] = pc[s] /\ cur'[s] = cur[s] /\ dest'[s] = dest[s]
          /\ halted \subseteq halted'
          /\ \/ pc'[r] = "top" /\ cur[r] \in halted'
             \/ pc'[r] \in After /\ UNCHANGED <<cur, dest>>
      BY <1>g, <1>l, <1>s, <2>1, <2>2 DEF Halt, After
    <2>4. DestOK'
      BY <2>1, <2>3 DEF NoLossInv, DestOK, After
    <2>5. NoLostReply'
      BY <1>t, <2>1, <2>3, NoLossFrame
    <2> QED
      BY <1>d, <2>4, <2>5 DEF NoLossInv
  <1>8. CASE ComposeReply(r)
    <2>1. cur[r] \in DOMAIN msgs /\ dest[r] \in Name
      BY <1>8 DEF ComposeReply, TransportTypeOK, CurOK, AckedOK, Before, After
    <2>2. Reply(r) \in Envelope
      BY <2>1, RowIds, RunnerAssumption DEF Reply, Envelope
    <2>3. /\ DOMAIN msgs \subseteq DOMAIN msgs'
          /\ \A i \in DOMAIN msgs : msgs'[i] = msgs[i]
      BY <1>8, <2>2, ComposeLemma DEF ComposeReply, TransportTypeOK
    <2>4. /\ UNCHANGED <<stored, processed, cur, dest, halted>>
          /\ pc[r] = "send" /\ pc'[r] = "store"
          /\ \A s \in Runner \ {r} : pc'[s] = pc[s]
      BY <1>8, <1>g, <1>s DEF ComposeReply, After
    <2>5. DestOK'
      BY <2>4 DEF NoLossInv, DestOK, After
    <2>6. NoLostReply'
      BY <1>t, <2>3, <2>4, NoLossFrame DEF After
    <2> QED
      BY <1>d, <2>5, <2>6 DEF NoLossInv
  <1>9. CASE StoreReply(r)
    <2>1. draft[r] \in DOMAIN msgs /\ msgs[draft[r]].parent = cur[r]
      BY <1>9 DEF StoreReply, DraftOK
    <2>2. /\ stored' = stored \cup {draft[r]}
          /\ UNCHANGED <<msgs, processed, halted>>
          /\ \A s \in Runner \ {r} :
                pc'[s] = pc[s] /\ cur'[s] = cur[s] /\ dest'[s] = dest[s]
          /\ pc'[r] = "top"
      BY <1>9, <1>l, <1>s DEF StoreReply, Store
    <2>3. DestOK'
      BY <2>2 DEF NoLossInv, DestOK, After
    <2>4. NoLostReply'
      BY <1>t, <2>1, <2>2, NoLossFrame
    <2> QED
      BY <1>d, <2>3, <2>4 DEF NoLossInv
  <1> QED
    BY <1>1, <1>2, <1>3, <1>4, <1>5, <1>6, <1>7, <1>8, <1>9 DEF RunnerStep

\* Processes begin and end, the human writes and stops: no row under way is
\* touched.
LEMMA NoLossOthers ==
    ASSUME TypeInv, NoLossInv, DestOK', DownIsIdle', UNCHANGED <<processed, halted>>,
           \A i \in stored : i \in stored' /\ msgs'[i] = msgs[i],
           DOMAIN msgs \subseteq DOMAIN msgs',
           \A s \in Runner : pc[s] \in After =>
               pc'[s] = pc[s] /\ cur'[s] = cur[s]
    PROVE  NoLossInv'
  <1>1. processed \subseteq stored /\ stored \subseteq DOMAIN msgs
    BY DEF TypeInv, TypeOK, TransportTypeOK
  <1> QED
    BY <1>1, NoLossFrame DEF NoLossInv

LEMMA NoLossNext ==
    ASSUME Undisturbed, TypeInv, NoLossInv, [Next]_vars
    PROVE  NoLossInv'
  <1>1. ASSUME NEW r \in Runner, Run(r)
        PROVE  NoLossInv'
    BY <1>1, NoLossRun
  <1>2. ASSUME NEW r \in Runner, Fail(r)
        PROVE  NoLossInv'
    <2>1. /\ "llm" \in Faults
          /\ pc[r] = "llm"
          /\ Unwind(r)
          /\ proc[ProcOf[r]] = "up"
          /\ proc' = [proc EXCEPT ![ProcOf[r]] = "aborting"]
      BY <1>2 DEF Fail, Raises, Undisturbed
    <2>2. /\ pc'[r] = "ended"
          /\ \A s \in Runner \ {r} :
                pc'[s] = pc[s] /\ cur'[s] = cur[s] /\ dest'[s] = dest[s]
      BY <2>1, LeaveLemma DEF Unwind, TypeInv, TypeOK, PC
    <2>3. UNCHANGED <<msgs, stored, processed, halted>>
      BY <2>1 DEF Unwind
    <2>4. DestOK'
      BY <2>2 DEF NoLossInv, DestOK, After
    <2>5. DownIsIdle'
      BY <2>1, <2>2 DEF NoLossInv, DownIsIdle, Undisturbed, TypeInv, TypeOK
    <2> QED
      BY <2>1, <2>2, <2>3, <2>4, <2>5, NoLossOthers DEF After
  <1>3. ASSUME NEW r \in Runner, Cancel(r)
        PROVE  FALSE
    BY <1>3 DEF Cancel, Unwind, NoLossInv, DownIsIdle
  <1>4. ASSUME NEW p \in Proc, Launched(p)
        PROVE  NoLossInv'
    <2>1. /\ UNCHANGED <<msgs, stored, processed, cur, dest, halted>>
          /\ \A s \in Runner :
                \/ pc'[s] = pc[s]
                \/ ProcOf[s] = p /\ pc[s] = "ended" /\ pc'[s] = "top"
      BY <1>4 DEF Launched, transportVars, NoLossInv, DownIsIdle
    <2>2. DestOK'
      BY <2>1 DEF NoLossInv, DestOK, After
    <2>3. DownIsIdle'
      BY <1>4, ClusterAssumption DEF Launched, NoLossInv, DownIsIdle, TypeInv, TypeOK
    <2> QED
      BY <2>1, <2>2, <2>3, NoLossOthers DEF After
  <1>5. ASSUME NEW p \in Proc, Exited(p)
        PROVE  NoLossInv'
    <2>1. UNCHANGED <<msgs, stored, processed, pc, cur, dest, halted>>
      BY <1>5 DEF Exited, transportVars, runnerVars
    <2>2. DestOK'
      BY <2>1 DEF NoLossInv, DestOK
    <2>3. DownIsIdle'
      BY <1>5, <2>1 DEF Exited, RunnersOf, NoLossInv, DownIsIdle, TypeInv,
          TypeOK
    <2> QED
      BY <2>1, <2>2, <2>3, NoLossOthers
  <1>6. ASSUME NEW p \in Proc, Interrupt(p) \/ Crash(p)
        PROVE  FALSE
    BY <1>6 DEF Interrupt, Crash, Undisturbed
  <1>7. ASSUME NEW a \in Entry, NEW t \in Thread, HumanCompose(a, t)
        PROVE  NoLossInv'
    <2> DEFINE env == [from |-> Human, to |-> a, thread |-> t,
                       parent |-> NoParent]
    <2>1. env \in Envelope
      BY RunnerAssumption, ClusterAssumption DEF Envelope, NoParent
    <2>2. /\ Compose(env)
          /\ UNCHANGED <<stored, processed, pc, cur, dest, halted, proc>>
      BY <1>7 DEF HumanCompose, runnerVars
    <2>3. /\ DOMAIN msgs \subseteq DOMAIN msgs'
          /\ \A i \in DOMAIN msgs : msgs'[i] = msgs[i]
      <3> HIDE DEF env
      <3> QED
        BY <2>1, <2>2, ComposeLemma DEF TypeInv, TypeOK, TransportTypeOK
    <2>4. DestOK' /\ DownIsIdle' /\ stored \subseteq DOMAIN msgs
      BY <2>2 DEF NoLossInv, DestOK, DownIsIdle, TypeInv, TypeOK,
          TransportTypeOK
    <2> QED
      BY <2>2, <2>3, <2>4, NoLossOthers
  <1>8. ASSUME NEW i \in HumanRows, HumanStore(i)
        PROVE  NoLossInv'
    <2>1. /\ stored' = stored \cup {i}
          /\ UNCHANGED <<msgs, processed, pc, cur, dest, halted, proc>>
      BY <1>8 DEF HumanStore, Store, runnerVars
    <2>2. DestOK' /\ DownIsIdle'
      BY <2>1 DEF NoLossInv, DestOK, DownIsIdle
    <2> QED
      BY <2>1, <2>2, NoLossOthers
  <1>9. CASE UNCHANGED vars \/ \E c \in StopTargets : StopCommand(c)
    <2>1. UNCHANGED <<msgs, stored, processed, pc, cur, dest, halted, proc>>
      BY <1>9 DEF StopCommand, vars, systemVars, transportVars, runnerVars
    <2>2. DestOK' /\ DownIsIdle'
      BY <2>1 DEF NoLossInv, DestOK, DownIsIdle
    <2> QED
      BY <2>1, <2>2, NoLossOthers
  <1> QED
    BY <1>1, <1>2, <1>3, <1>4, <1>5, <1>6, <1>7, <1>8, <1>9
       DEF Next, LaunchStart, LaunchRun, ExitStart, ExitRun

\* While runners end by sentinels, checks or the last failure of the model
\* only, every row an agent has acknowledged gets its reply or was halted by a
\* check, although run_once acknowledges first and the reply is not durable
\* in between; with siblings in the process even the model must not fail.
THEOREM NoLostReplyCorrect ==
    ASSUME Undisturbed
    PROVE  Spec => []NoLostReply
  <1>1. Init => TypeInv /\ NoLossInv
    <2>1. ASSUME Init PROVE NoLossInv
      BY <2>1 DEF Init, TransportInit, RunnerInit, NoLossInv, DestOK, After,
          DownIsIdle, NoLostReply
    <2> QED
      BY <2>1, TypeInvInit
  <1>2. TypeInv /\ NoLossInv /\ [Next]_vars => (TypeInv /\ NoLossInv)'
    BY TypeInvNext, NoLossNext
  <1>3. NoLossInv => NoLostReply
    BY DEF NoLossInv
  <1> QED
    BY <1>1, <1>2, <1>3, PTL DEF Spec

-----------------------------------------------------------------------------
(***************************************************************************)
(* The ceiling, when every agent has one runner.  A row of a thread is     *)
(* spent when an agent has replied to it or a runner that passed the check *)
(* is about to: sending moves a row from the one to the other, so only the *)
(* check itself lets the spent rows grow, and it counts more than them.    *)
(* Each of the agents' rows spends another row.                            *)
(***************************************************************************)

Passed == {"send", "store"}

Spent(t) ==
    {p \in OnThread(t) :
        \/ \E i \in AgentRows(t) : msgs[i].parent = p
        \/ \E r \in Runner : pc[r] \in Passed /\ cur[r] = p}

\* A reply stays on the thread of its parent.
RepliesOnThread ==
    \A i \in DOMAIN msgs : msgs[i].from \in Agent =>
        /\ msgs[i].parent # NoParent
        /\ \A p \in DOMAIN msgs :
              msgs[i].parent = p => msgs[p].thread = msgs[i].thread

CeilingInv ==
    /\ RepliesOnThread
    /\ MaxMessages > 0 =>
          \A t \in Thread :
              Spent(t) # {} => Cardinality(Spent(t)) < MaxMessages

LEMMA FiniteThread ==
    ASSUME TypeInv, NEW t \in Thread
    PROVE  /\ IsFiniteSet(OnThread(t))
           /\ IsFiniteSet(Spent(t))
           /\ Cardinality(Spent(t)) \in Nat
           /\ Cardinality(OnThread(t)) \in Nat
           /\ Cardinality(Spent(t)) <= Cardinality(OnThread(t))
  <1>1. Len(msgs) \in Nat /\ DOMAIN msgs = 1 .. Len(msgs)
    BY LenProperties DEF TypeInv, TypeOK, TransportTypeOK
  <1>2. IsFiniteSet(DOMAIN msgs)
    BY <1>1, FS_Interval
  <1>3. OnThread(t) \subseteq DOMAIN msgs /\ Spent(t) \subseteq OnThread(t)
    BY DEF OnThread, Spent, TypeInv, TypeOK, TransportTypeOK
  <1>4. IsFiniteSet(OnThread(t))
    BY <1>2, <1>3, FS_Subset
  <1> QED
    BY <1>3, <1>4, FS_Subset, FS_CardinalityType

\* A step after which no thread has spent more keeps the ceiling.
LEMMA CeilingFrame ==
    ASSUME TypeInv, CeilingInv, RepliesOnThread',
           \A t \in Thread : Spent(t)' \subseteq Spent(t)
    PROVE  CeilingInv'
  <1> SUFFICES ASSUME MaxMessages > 0, NEW t \in Thread, Spent(t)' # {}
               PROVE  Cardinality(Spent(t)') < MaxMessages
    BY DEF CeilingInv
  <1>1. Spent(t) # {} /\ IsFiniteSet(Spent(t)) /\ Cardinality(Spent(t)) \in Nat
    BY FiniteThread
  <1>2. /\ IsFiniteSet(Spent(t)')
        /\ Cardinality(Spent(t)') <= Cardinality(Spent(t))
        /\ Cardinality(Spent(t)') \in Nat
    BY <1>1, FS_Subset, FS_CardinalityType
  <1>3. Cardinality(Spent(t)) < MaxMessages
    BY <1>1 DEF CeilingInv
  <1> QED
    BY <1>1, <1>2, <1>3, RunnerAssumption

\* The table is as it was and no runner has passed the check.
LEMMA CeilingQuiet ==
    ASSUME TypeInv, CeilingInv, UNCHANGED <<msgs, stored>>,
           \A s \in Runner : pc'[s] \in Passed =>
               pc[s] \in Passed /\ cur'[s] = cur[s]
    PROVE  CeilingInv'
  <1>1. RepliesOnThread'
    BY DEF CeilingInv, RepliesOnThread
  <1>2. \A t \in Thread : Spent(t)' \subseteq Spent(t)
    BY DEF Spent, OnThread, AgentRows
  <1> QED
    BY <1>1, <1>2, CeilingFrame

\* A message is constructed, by an agent on the thread of its parent or by
\* the human.
LEMMA CeilingCompose ==
    ASSUME TypeInv, CeilingInv, NEW env \in Envelope, Compose(env),
           UNCHANGED <<stored, cur>>,
           env.from \in Agent =>
               /\ env.parent \in DOMAIN msgs
               /\ msgs[env.parent].thread = env.thread,
           \A s \in Runner : pc'[s] \in Passed => pc[s] \in Passed,
           \A i \in DOMAIN msgs : msgs[i].from \in Agent =>
               msgs[i].parent \in DOMAIN msgs
    PROVE  CeilingInv'
  <1>1. /\ DOMAIN msgs = 1 .. Len(msgs)
        /\ Len(msgs) \in Nat
        /\ DOMAIN msgs' = DOMAIN msgs \cup {Len(msgs) + 1}
        /\ \A i \in DOMAIN msgs : msgs'[i] = msgs[i]
        /\ msgs'[Len(msgs) + 1] = env
        /\ stored \subseteq DOMAIN msgs
    BY ComposeLemma DEF TypeInv, TypeOK, TransportTypeOK
  <1>2. RepliesOnThread'
    <2> SUFFICES ASSUME NEW i \in DOMAIN msgs', msgs'[i].from \in Agent
                 PROVE  /\ msgs'[i].parent # NoParent
                        /\ \A p \in DOMAIN msgs' : msgs'[i].parent = p =>
                              msgs'[p].thread = msgs'[i].thread
      BY DEF RepliesOnThread
    <2>1. CASE i \in DOMAIN msgs
      BY <1>1, <2>1 DEF CeilingInv, RepliesOnThread
    <2>2. CASE i = Len(msgs) + 1
      BY <1>1, <2>2, RowIds DEF NoParent, TypeInv, TypeOK
    <2> QED
      BY <1>1, <2>1, <2>2
  <1>3. \A t \in Thread : Spent(t)' \subseteq Spent(t)
    BY <1>1 DEF Spent, OnThread, AgentRows
  <1> QED
    BY <1>2, <1>3, CeilingFrame

\* A row is committed: the human's, or the reply of a runner that has passed.
LEMMA CeilingStore ==
    ASSUME TypeInv, CeilingInv, NEW j \in DOMAIN msgs, Store(j),
           UNCHANGED msgs,
           msgs[j].from \in Agent =>
               \E r \in Runner : pc[r] = "store" /\ msgs[j].parent = cur[r],
           \A i \in DOMAIN msgs : msgs[i].from \in Agent =>
               msgs[i].parent \in stored,
           \A s \in Runner : pc'[s] \in Passed =>
               pc[s] \in Passed /\ cur'[s] = cur[s]
    PROVE  CeilingInv'
  <1>1. stored' = stored \cup {j} /\ stored \subseteq DOMAIN msgs
    BY DEF Store, TypeInv, TypeOK, TransportTypeOK
  <1>2. RepliesOnThread'
    BY DEF CeilingInv, RepliesOnThread
  <1>3. ASSUME NEW t \in Thread, NEW p \in Spent(t)'
        PROVE  p \in Spent(t)
    <2>1. \/ \E i \in AgentRows(t)' : msgs[i].parent = p
          \/ \E r \in Runner : pc[r] \in Passed /\ cur[r] = p
      BY <1>3 DEF Spent
    <2>2. p \in DOMAIN msgs /\ msgs[p].thread = t
      BY <1>1, <1>3 DEF Spent, OnThread
    <2>3. p \in stored
      BY <1>1, <2>1 DEF AgentRows, OnThread, TypeInv, CurOK, Passed, After
    <2>4. p \in OnThread(t)
      BY <2>2, <2>3 DEF OnThread
    <2>5. CASE \E r \in Runner : pc[r] \in Passed /\ cur[r] = p
      BY <2>4, <2>5 DEF Spent
    <2>6. ASSUME NEW i \in AgentRows(t)', msgs[i].parent = p
          PROVE  p \in Spent(t)
      <3>1. CASE i = j
        BY <2>4, <2>6, <3>1 DEF AgentRows, OnThread, Spent, Passed
      <3>2. CASE i # j
        BY <1>1, <2>4, <2>6, <3>2 DEF AgentRows, OnThread, Spent
      <3> QED
        BY <3>1, <3>2
    <2> QED
      BY <2>1, <2>5, <2>6
  <1> QED
    BY <1>2, <1>3, CeilingFrame

\* Runner r passes the check: it has counted more rows than are spent, its
\* own among them.
LEMMA CeilingPass ==
    ASSUME TypeInv, CeilingInv, NEW r \in Runner, pc[r] = "maxcheck",
           ~MaxReached(msgs[cur[r]].thread),
           UNCHANGED <<msgs, stored, cur>>,
           \A s \in Runner \ {r} : pc'[s] = pc[s]
    PROVE  CeilingInv'
  <1>1. RepliesOnThread'
    BY DEF CeilingInv, RepliesOnThread
  <1> SUFFICES ASSUME MaxMessages > 0, NEW t \in Thread, Spent(t)' # {}
               PROVE  Cardinality(Spent(t)') < MaxMessages
    BY <1>1 DEF CeilingInv
  <1>2. CASE t = msgs[cur[r]].thread
    <2>1. Spent(t)' \subseteq OnThread(t)
      BY DEF Spent, OnThread
    <2>2. IsFiniteSet(OnThread(t)) /\ Cardinality(OnThread(t)) \in Nat
      BY FiniteThread
    <2>3. /\ Cardinality(Spent(t)') <= Cardinality(OnThread(t))
          /\ Cardinality(Spent(t)') \in Nat
      BY <2>1, <2>2, FS_Subset, FS_CardinalityType
    <2>4. Cardinality(OnThread(t)) < MaxMessages
      BY <1>2, <2>2, RunnerAssumption DEF MaxReached, ThreadCount
    <2> QED
      BY <2>2, <2>3, <2>4, RunnerAssumption
  <1>3. CASE t # msgs[cur[r]].thread
    <2>1. Spent(t)' \subseteq Spent(t)
      BY <1>3 DEF Spent, OnThread, AgentRows
    <2>2. IsFiniteSet(Spent(t)) /\ Cardinality(Spent(t)) \in Nat /\ Spent(t) # {}
      BY <2>1, FiniteThread
    <2>3. /\ Cardinality(Spent(t)') <= Cardinality(Spent(t))
          /\ Cardinality(Spent(t)') \in Nat
      BY <2>1, <2>2, FS_Subset, FS_CardinalityType
    <2>4. Cardinality(Spent(t)) < MaxMessages
      BY <2>2 DEF CeilingInv
    <2> QED
      BY <2>2, <2>3, <2>4, RunnerAssumption
  <1> QED
    BY <1>2, <1>3

\* The agents' rows are no more than the rows that are spent.
LEMMA CeilingHolds ==
    ASSUME TypeInv, ReplyInv, CeilingInv
    PROVE  CeilingBound
  <1> SUFFICES ASSUME MaxMessages > 0, NEW t \in Thread, AgentRows(t) # {}
               PROVE  Cardinality(AgentRows(t)) < MaxMessages
    BY DEF CeilingBound
  <1> DEFINE f == [i \in AgentRows(t) |-> msgs[i].parent]
  <1>1. \A i \in AgentRows(t) :
            /\ i \in DOMAIN msgs
            /\ msgs[i].parent # NoParent
            /\ msgs[i].parent \in Spent(t)
    <2> SUFFICES ASSUME NEW i \in AgentRows(t)
                 PROVE  /\ i \in DOMAIN msgs
                        /\ msgs[i].parent # NoParent
                        /\ msgs[i].parent \in Spent(t)
      OBVIOUS
    <2>1. i \in DOMAIN msgs /\ msgs[i].from \in Agent /\ msgs[i].thread = t
      BY DEF AgentRows, OnThread, TypeInv, TypeOK, TransportTypeOK
    <2>2. msgs[i].parent # NoParent
      BY <2>1 DEF CeilingInv, RepliesOnThread
    <2>3. msgs[i].parent \in stored /\ msgs[i].parent \in DOMAIN msgs
      BY <2>1, <2>2 DEF ReplyInv, ParentsProcessed, TypeInv, TypeOK,
          TransportTypeOK
    <2>4. msgs[msgs[i].parent].thread = t
      BY <2>1, <2>3 DEF CeilingInv, RepliesOnThread
    <2> QED
      BY <2>1, <2>2, <2>3, <2>4 DEF Spent, OnThread
  <1>2. \A i, j \in AgentRows(t) : f[i] = f[j] => i = j
    BY <1>1 DEF ReplyInv, AnsweredAtMostOnce
  <1>3. f \in Injection(AgentRows(t), Spent(t))
    BY <1>1, <1>2 DEF Injection, IsInjective
  <1>4. IsFiniteSet(Spent(t)) /\ Cardinality(Spent(t)) \in Nat
    BY FiniteThread
  <1>5. /\ IsFiniteSet(AgentRows(t))
        /\ Cardinality(AgentRows(t)) <= Cardinality(Spent(t))
    <2> HIDE DEF f
    <2> QED
      BY <1>3, <1>4, FS_Injection
  <1>6. Cardinality(Spent(t)) < MaxMessages
    BY <1>1 DEF CeilingInv
  <1>7. Cardinality(AgentRows(t)) \in Nat
    BY <1>5, FS_CardinalityType
  <1> QED
    BY <1>4, <1>5, <1>6, <1>7, RunnerAssumption

\* One step of a runner that nothing disturbs.
LEMMA CeilingRun ==
    ASSUME TypeInv, ReplyInv, CeilingInv, NEW r \in Runner, RunnerStep(r)
    PROVE  CeilingInv'
  <1> USE DEF TypeInv, TypeOK
  <1>g. \A label \in PC : Goto(r, label) =>
            /\ pc'[r] = label
            /\ \A s \in Runner \ {r} : pc'[s] = pc[s]
    BY GotoLemma DEF RunnerTypeOK
  <1>l. \A label \in PC : Leave(r, label) =>
            /\ pc'[r] = label
            /\ \A s \in Runner \ {r} : pc'[s] = pc[s] /\ cur'[s] = cur[s]
    BY LeaveLemma
  <1>s. PC = {"top", "idle", "ended", "select", "mark", "llm", "backoff", "ack",
              "loopcheck", "maxcheck"} \cup Passed
    BY DEF PC, Passed
  <1>p. /\ DOMAIN msgs \subseteq Nat \ {0}
        /\ \A i \in DOMAIN msgs : msgs[i] \in Envelope
        /\ stored \subseteq DOMAIN msgs
        /\ \A i \in DOMAIN msgs : msgs[i].from \in Agent =>
              msgs[i].parent \in stored
    BY RowIds DEF TransportTypeOK, CeilingInv, RepliesOnThread, ReplyInv,
        ParentsProcessed
  \* Without a ceiling there is nothing to count.
  <1>0. ASSUME MaxMessages = 0, UNCHANGED msgs PROVE CeilingInv'
    BY <1>0 DEF CeilingInv, RepliesOnThread
  <1>1. CASE StopSeen(r) \/ Poll(r) \/ Wake(r) \/ InboxEmpty(r)
    BY <1>1, <1>g, <1>s, CeilingQuiet DEF StopSeen, Poll, Wake, InboxEmpty,
        transportVars, Passed
  <1>2. CASE Mark(r) \/ Answer(r) \/ LLMError(r) \/ Retry(r)
    BY <1>2, <1>g, <1>s, CeilingQuiet DEF Mark, Answer, LLMError, Retry,
        transportVars, Passed
  <1>3. CASE EmptyAnswer(r)
    BY <1>3, <1>l, <1>s, CeilingQuiet DEF EmptyAnswer, transportVars, Passed
  <1>4. CASE Select(r)
    <2>1. \A s \in Runner \ {r} : cur'[s] = cur[s]
      BY <1>4 DEF Select, RunnerTypeOK
    <2> QED
      BY <1>4, <1>g, <1>s, <2>1, CeilingQuiet DEF Select, transportVars,
          Passed
  <1>5. CASE AckCurrent(r)
    <2>1. CASE dest[r] = NoAgent
      BY <1>5, <1>l, <1>s, <2>1, CeilingQuiet DEF AckCurrent, Passed
    <2>2. CASE dest[r] # NoAgent /\ MaxMessages # 0
      <3>1. AfterAck(r) \in {"loopcheck", "maxcheck"}
        BY <2>2 DEF AfterAck, AfterLoopCheck
      <3> QED
        BY <1>5, <1>g, <1>s, <2>2, <3>1, CeilingQuiet DEF AckCurrent, Passed
    <2>3. CASE MaxMessages = 0
      BY <1>5, <1>0, <2>3 DEF AckCurrent
    <2> QED
      BY <2>1, <2>2, <2>3
  <1>6. CASE LoopCheck(r)
    <2>1. CASE MaxMessages # 0
      <3>1. \/ Leave(r, "top")
            \/ Goto(r, "maxcheck") /\ UNCHANGED cur
        BY <1>6, <2>1 DEF LoopCheck, Halt, AfterLoopCheck
      <3>2. UNCHANGED <<msgs, stored>>
        BY <1>6 DEF LoopCheck, transportVars
      <3> QED
        BY <1>g, <1>l, <1>s, <3>1, <3>2, CeilingQuiet DEF Passed
    <2> QED
      BY <1>6, <1>0, <2>1 DEF LoopCheck, transportVars
  <1>7. CASE MaxCheck(r)
    <2>1. CASE MaxReached(msgs[cur[r]].thread)
      BY <1>7, <1>l, <1>s, <2>1, CeilingQuiet DEF MaxCheck, Halt,
          transportVars, Passed
    <2>2. CASE ~MaxReached(msgs[cur[r]].thread)
      BY <1>7, <1>g, <1>s, <2>2, CeilingPass DEF MaxCheck, transportVars, Passed
    <2> QED
      BY <2>1, <2>2
  <1>8. CASE ComposeReply(r)
    <2>1. cur[r] \in DOMAIN msgs /\ dest[r] \in Name
      BY <1>8 DEF ComposeReply, TransportTypeOK, CurOK, AckedOK, Before, After
    <2>2. /\ Reply(r) \in Envelope
          /\ Reply(r).parent \in DOMAIN msgs
          /\ msgs[Reply(r).parent].thread = Reply(r).thread
      BY <1>p, <2>1, RunnerAssumption DEF Reply, Envelope
    <2>3. /\ Compose(Reply(r))
          /\ UNCHANGED <<stored, cur>>
          /\ \A s \in Runner : pc'[s] \in Passed => pc[s] \in Passed
      BY <1>8, <1>g, <1>s DEF ComposeReply, Passed
    <2>4. \A i \in DOMAIN msgs : msgs[i].from \in Agent =>
              msgs[i].parent \in DOMAIN msgs
      BY <1>p
    <2> HIDE DEF TypeInv, TypeOK
    <2> QED
      BY <2>2, <2>3, <2>4, CeilingCompose
  <1>9. CASE StoreReply(r)
    <2>1. draft[r] \in DOMAIN msgs /\ msgs[draft[r]].parent = cur[r]
      BY <1>9 DEF StoreReply, DraftOK
    <2> QED
      BY <1>9, <1>l, <1>s, <1>p, <2>1, CeilingStore DEF StoreReply, Passed
  <1> QED
    BY <1>1, <1>2, <1>3, <1>4, <1>5, <1>6, <1>7, <1>8, <1>9 DEF RunnerStep

\* A runner that is torn down: a reply that is committed all the same was the
\* one it had passed the check for.
LEMMA CeilingUnwind ==
    ASSUME TypeInv, ReplyInv, CeilingInv, NEW r \in Runner, Unwind(r)
    PROVE  CeilingInv'
  <1>1. /\ pc'[r] = "ended"
        /\ \A s \in Runner \ {r} : pc'[s] = pc[s] /\ cur'[s] = cur[s]
    BY LeaveLemma DEF Unwind, TypeInv, TypeOK, PC
  <1>2. CASE stored' = stored
    BY <1>1, <1>2, CeilingQuiet DEF Unwind, Passed
  <1>3. CASE pc[r] = "store" /\ Store(draft[r])
    <2>1. draft[r] \in DOMAIN msgs /\ msgs[draft[r]].parent = cur[r]
      BY <1>3 DEF TypeInv, DraftOK
    <2>2. \A i \in DOMAIN msgs : msgs[i].from \in Agent =>
              msgs[i].parent \in stored
      BY DEF TypeInv, TypeOK, TransportTypeOK, CeilingInv, RepliesOnThread,
          ReplyInv, ParentsProcessed
    <2> QED
      BY <1>1, <1>3, <2>1, <2>2, CeilingStore DEF Unwind, Passed
  <1> QED
    BY <1>2, <1>3 DEF Unwind

LEMMA CeilingNext ==
    ASSUME TypeInv, ReplyInv, CeilingInv, [Next]_vars
    PROVE  CeilingInv'
  <1>p. \A i \in DOMAIN msgs : msgs[i].from \in Agent =>
            msgs[i].parent \in stored /\ msgs[i].parent \in DOMAIN msgs
    BY DEF TypeInv, TypeOK, TransportTypeOK, CeilingInv, RepliesOnThread,
        ReplyInv, ParentsProcessed
  <1>1. ASSUME NEW r \in Runner, Run(r) \/ Fail(r) \/ Cancel(r)
        PROVE  CeilingInv'
    BY <1>1, CeilingRun, CeilingUnwind DEF Run, Fail, Cancel
  <1>2. ASSUME NEW p \in Proc,
               \/ Launched(p) \/ Exited(p) \/ Interrupt(p) \/ Crash(p)
        PROVE  CeilingInv'
    <2>1. UNCHANGED <<msgs, stored>>
      BY <1>2 DEF Launched, Exited, Interrupt, Crash, systemVars, transportVars
    <2>2. \A s \in Runner :
              \/ pc'[s] = pc[s] /\ cur'[s] = cur[s]
              \/ pc'[s] \in {"top", "ended"}
      BY <1>2 DEF Launched, Exited, Interrupt, Crash, systemVars, runnerVars
    <2> QED
      BY <2>1, <2>2, CeilingQuiet DEF Passed
  <1>3. ASSUME NEW a \in Entry, NEW t \in Thread, HumanCompose(a, t)
        PROVE  CeilingInv'
    <2> DEFINE env == [from |-> Human, to |-> a, thread |-> t,
                       parent |-> NoParent]
    <2>1. env \in Envelope /\ env.from \notin Agent
      BY RunnerAssumption, ClusterAssumption DEF Envelope, NoParent
    <2>2. Compose(env) /\ UNCHANGED <<stored, cur, pc>>
      BY <1>3 DEF HumanCompose, runnerVars
    <2> HIDE DEF env
    <2> QED
      BY <1>p, <2>1, <2>2, CeilingCompose
  <1>4. ASSUME NEW i \in HumanRows, HumanStore(i)
        PROVE  CeilingInv'
    BY <1>4, <1>p, CeilingStore, ClusterAssumption
       DEF HumanStore, HumanRows, runnerVars
  <1>5. CASE UNCHANGED vars \/ \E c \in StopTargets : StopCommand(c)
    BY <1>5, CeilingQuiet DEF StopCommand, vars, systemVars, transportVars,
        runnerVars
  <1> QED
    BY <1>1, <1>2, <1>3, <1>4, <1>5
       DEF Next, LaunchStart, LaunchRun, ExitStart, ExitRun

\* When every agent has one runner, the agents write fewer rows on a thread
\* than agent_max_messages_per_thread, for every wiring and number of agents:
\* the count is read before the send, but runners that pass the check at the
\* same time stand at the ends of different chains, whose beginnings count.
THEOREM CeilingBoundCorrect ==
    ASSUME OneRunnerPerAgent
    PROVE  Spec => []CeilingBound
  <1>1. Init => TypeInv /\ ReplyInv /\ CeilingInv
    <2>1. ASSUME Init PROVE ReplyInv
      BY <2>1 DEF Init, TransportInit, RunnerInit, ReplyInv, HeldRowsAreOpen,
          ParentsProcessed, UnsentHasNoReply, AnsweredAtMostOnce, Unsent
    <2>2. ASSUME Init PROVE CeilingInv
      <3>1. RepliesOnThread
        BY <2>2 DEF Init, TransportInit, RepliesOnThread
      <3>2. \A t \in Thread : Spent(t) = {}
        BY <2>2 DEF Init, TransportInit, Spent, OnThread
      <3> QED
        BY <3>1, <3>2 DEF CeilingInv
    <2> QED
      BY <2>1, <2>2, TypeInvInit
  <1>2. TypeInv /\ ReplyInv /\ CeilingInv /\ [Next]_vars
            => (TypeInv /\ ReplyInv /\ CeilingInv)'
    BY TypeInvNext, ReplyInvNext, CeilingNext
  <1>3. TypeInv /\ ReplyInv /\ CeilingInv => CeilingBound
    BY CeilingHolds
  <1> QED
    BY <1>1, <1>2, <1>3, PTL DEF Spec

-----------------------------------------------------------------------------
(***************************************************************************)
(* Loops, when every agent has one runner.  The check sees the tail of the *)
(* thread; until the reply is committed, the rows that arrive are not its  *)
(* agent's, and a row of another sender ends a run of self-routed rows      *)
(* wherever it falls.                                                      *)
(***************************************************************************)

\* The n newest rows of S.
TailOf(S, n) == {i \in S : Cardinality({j \in S : j > i}) < n}

SelfRow(a, i) == msgs[i].from = a /\ msgs[i].to = a

\* The n newest rows of S are all agent a's to itself.
Looped(a, S, n) ==
    /\ Cardinality(TailOf(S, n)) >= n
    /\ \A i \in TailOf(S, n) : SelfRow(a, i)

UpTo(t, n) == {i \in OnThread(t) : i <= n}
Below(t, n) == {i \in OnThread(t) : i < n}

\* A runner that has passed the check may still send to itself.
Cleared ==
    \A r \in Runner :
        (pc[r] \in {"maxcheck", "send"} /\ dest[r] = AgentOf[r]) =>
            ~Looped(AgentOf[r], OnThread(msgs[cur[r]].thread), LoopThreshold)

DraftCleared ==
    \A r \in Runner :
        (pc[r] = "store" /\ msgs[draft[r]].to = AgentOf[r]) =>
            ~Looped(AgentOf[r], Below(msgs[draft[r]].thread, draft[r]),
                    LoopThreshold)

NoLoop ==
    \A t \in Thread, a \in Agent, n \in Nat :
        ~Looped(a, UpTo(t, n), LoopThreshold + 1)

LoopInv == LoopThreshold > 0 => Cleared /\ DraftCleared /\ NoLoop

\* A row that is not among the n newest leaves them as they were.
LEMMA TailInsert ==
    ASSUME NEW S \in SUBSET Nat, IsFiniteSet(S), NEW x \in Nat \ S, NEW n \in Nat,
           x \notin TailOf(S \cup {x}, n)
    PROVE  TailOf(S \cup {x}, n) = TailOf(S, n)
  <1> DEFINE Above(i) == {j \in S : j > i}
             AboveX(i) == {j \in S \cup {x} : j > i}
  <1>0. IsFiniteSet(S \cup {x}) /\ \A i \in S : i \in Nat
    BY FS_AddElement
  <1>1. AboveX(x) = Above(x)
    OBVIOUS
  <1>2. \A i \in S : IsFiniteSet(Above(i)) /\ Cardinality(Above(i)) \in Nat
    BY FS_Subset, FS_CardinalityType
  <1>3. IsFiniteSet(Above(x)) /\ Cardinality(Above(x)) \in Nat
    BY FS_Subset, FS_CardinalityType
  <1>4. \A i \in S : IsFiniteSet(AboveX(i)) /\ Cardinality(AboveX(i)) \in Nat
    <2> SUFFICES ASSUME NEW i \in S
                 PROVE  IsFiniteSet(AboveX(i)) /\ Cardinality(AboveX(i)) \in Nat
      OBVIOUS
    <2>1. AboveX(i) \subseteq S \cup {x}
      OBVIOUS
    <2> QED
      BY <1>0, <2>1, FS_Subset, FS_CardinalityType
  <1>5. Cardinality(Above(x)) >= n
    BY <1>1, <1>3 DEF TailOf
  <1>6. ASSUME NEW i \in S PROVE i \in TailOf(S \cup {x}, n) <=> i \in TailOf(S, n)
    <2>1. CASE i > x
      <3>1. AboveX(i) = Above(i)
        BY <2>1
      <3> QED
        BY <3>1 DEF TailOf
    <2>2. CASE i < x
      <3>1. Above(x) \subseteq Above(i) /\ Above(x) \subseteq AboveX(i)
        <4>1. \A j \in S : j > x => j > i
          BY <1>0, <2>2
        <4> QED
          BY <4>1
      <3>2. Cardinality(Above(x)) <= Cardinality(Above(i))
        BY <1>2, <3>1, FS_Subset
      <3>3. Cardinality(Above(x)) <= Cardinality(AboveX(i))
        BY <1>4, <3>1, FS_Subset
      <3>4. ~(Cardinality(Above(i)) < n) /\ ~(Cardinality(AboveX(i)) < n)
        BY <1>2, <1>3, <1>4, <1>5, <3>2, <3>3
      <3> QED
        BY <3>4 DEF TailOf
    <2> QED
      BY <2>1, <2>2
  <1> QED
    BY <1>6 DEF TailOf

\* A row newer than all others makes the tail one longer.
LEMMA TailTop ==
    ASSUME NEW S \in SUBSET Nat, IsFiniteSet(S), NEW x \in Nat, NEW n \in Nat,
           \A i \in S : i < x
    PROVE  /\ TailOf(S \cup {x}, n + 1) = TailOf(S, n) \cup {x}
           /\ IsFiniteSet(TailOf(S, n))
           /\ Cardinality(TailOf(S, n)) \in Nat
           /\ Cardinality(TailOf(S \cup {x}, n + 1))
                  = Cardinality(TailOf(S, n)) + 1
  <1> DEFINE Above(i) == {j \in S : j > i}
             AboveX(i) == {j \in S \cup {x} : j > i}
  <1>1. ASSUME NEW i \in S
        PROVE  i \in TailOf(S \cup {x}, n + 1) <=> i \in TailOf(S, n)
    <2>1. AboveX(i) = Above(i) \cup {x} /\ x \notin Above(i)
      OBVIOUS
    <2>2. IsFiniteSet(Above(i)) /\ Cardinality(Above(i)) \in Nat
      BY FS_Subset, FS_CardinalityType
    <2>3. Cardinality(AboveX(i)) = Cardinality(Above(i)) + 1
      BY <2>1, <2>2, FS_AddElement
    <2> QED
      BY <2>2, <2>3 DEF TailOf
  <1>2. x \in TailOf(S \cup {x}, n + 1)
    <2>1. \A j \in S \cup {x} : ~(j > x)
      OBVIOUS
    <2>3. AboveX(x) = {}
      BY <2>1
    <2>2. Cardinality(AboveX(x)) = 0
      BY <2>3, FS_EmptySet
    <2> QED
      BY <2>2 DEF TailOf
  <1>3. TailOf(S \cup {x}, n + 1) = TailOf(S, n) \cup {x}
    BY <1>1, <1>2 DEF TailOf
  <1>4. IsFiniteSet(TailOf(S, n)) /\ Cardinality(TailOf(S, n)) \in Nat
    BY FS_Subset, FS_CardinalityType DEF TailOf
  <1>5. x \notin TailOf(S, n)
    BY DEF TailOf
  <1> QED
    BY <1>3, <1>4, <1>5, FS_AddElement

\* A row that is not a's to itself makes no loop of a.
LEMMA LoopInsertOther ==
    ASSUME NEW S \in SUBSET Nat, IsFiniteSet(S), NEW x \in Nat \ S, NEW n \in Nat,
           NEW a \in Agent, ~SelfRow(a, x), ~Looped(a, S, n)
    PROVE  ~Looped(a, S \cup {x}, n)
  <1>1. CASE x \in TailOf(S \cup {x}, n)
    BY <1>1 DEF Looped
  <1>2. CASE x \notin TailOf(S \cup {x}, n)
    BY <1>2, TailInsert DEF Looped
  <1> QED
    BY <1>1, <1>2

\* A row of a to itself, newer than a's other rows, makes none if the rows
\* below it were no loop.
LEMMA LoopInsertSelf ==
    ASSUME NEW S \in SUBSET Nat, IsFiniteSet(S), NEW x \in Nat \ S, NEW n \in Nat,
           NEW a \in Agent, \A i \in S : SelfRow(a, i) => i < x,
           ~Looped(a, S, n + 1), ~Looped(a, {i \in S : i < x}, n)
    PROVE  ~Looped(a, S \cup {x}, n + 1)
  <1> SUFFICES ASSUME Looped(a, S \cup {x}, n + 1) PROVE FALSE
    OBVIOUS
  <1>1. x \in TailOf(S \cup {x}, n + 1)
    BY TailInsert DEF Looped
  <1>2. \A y \in S : y < x
    <2> SUFFICES ASSUME NEW y \in S, y > x PROVE FALSE
      OBVIOUS
    <2> DEFINE AboveX(i) == {j \in S \cup {x} : j > i}
    <2>0. \A j \in S \cup {x} : j > y => j > x
      OBVIOUS
    <2>1. AboveX(y) \subseteq AboveX(x)
      BY <2>0
    <2>2. IsFiniteSet(AboveX(x))
      BY FS_Subset, FS_AddElement
    <2>3. /\ Cardinality(AboveX(y)) <= Cardinality(AboveX(x))
          /\ Cardinality(AboveX(y)) \in Nat
          /\ Cardinality(AboveX(x)) \in Nat
      BY <2>1, <2>2, FS_Subset, FS_CardinalityType
    <2>4. y \in TailOf(S \cup {x}, n + 1)
      BY <1>1, <2>3 DEF TailOf
    <2> QED
      BY <2>4 DEF Looped
  <1>3. {i \in S : i < x} = S
    BY <1>2
  <1>4. /\ Cardinality(TailOf(S, n)) >= n
        /\ \A i \in TailOf(S, n) : SelfRow(a, i)
    <2>1. /\ TailOf(S \cup {x}, n + 1) = TailOf(S, n) \cup {x}
          /\ Cardinality(TailOf(S, n)) \in Nat
          /\ Cardinality(TailOf(S \cup {x}, n + 1)) = Cardinality(TailOf(S, n)) + 1
      BY <1>2, TailTop
    <2> QED
      BY <2>1 DEF Looped
  <1> QED
    BY <1>3, <1>4 DEF Looped

LEMMA FiniteRows ==
    ASSUME TypeInv, NEW t \in Thread, NEW n \in Nat
    PROVE  /\ stored \subseteq DOMAIN msgs
           /\ DOMAIN msgs \subseteq Nat
           /\ OnThread(t) \in SUBSET Nat /\ IsFiniteSet(OnThread(t))
           /\ UpTo(t, n) \in SUBSET Nat /\ IsFiniteSet(UpTo(t, n))
           /\ Below(t, n) \in SUBSET Nat /\ IsFiniteSet(Below(t, n))
  <1>1. Len(msgs) \in Nat /\ DOMAIN msgs = 1 .. Len(msgs)
    BY LenProperties DEF TypeInv, TypeOK, TransportTypeOK
  <1>2. IsFiniteSet(DOMAIN msgs) /\ DOMAIN msgs \subseteq Nat
    BY <1>1, FS_Interval
  <1>3. stored \subseteq DOMAIN msgs
    BY DEF TypeInv, TypeOK, TransportTypeOK
  <1>4. /\ OnThread(t) \subseteq DOMAIN msgs
        /\ UpTo(t, n) \subseteq DOMAIN msgs
        /\ Below(t, n) \subseteq DOMAIN msgs
    BY <1>3 DEF OnThread, UpTo, Below
  <1> QED
    BY <1>2, <1>3, <1>4, FS_Subset

\* The property speaks of the newest rows up to one of them.
LEMMA NoLoopSuffices ==
    ASSUME TypeInv, LoopInv
    PROVE  LoopBound
  <1> DEFINE W(t, i) == {j \in OnThread(t) :
                            /\ j <= i
                            /\ Cardinality({k \in OnThread(t) : j < k /\ k <= i})
                                   <= LoopThreshold}
  <1> SUFFICES ASSUME LoopThreshold > 0, NEW t \in Thread, NEW a \in Agent,
                      NEW i \in stored,
                      \A j \in W(t, i) : msgs[j].from = a /\ msgs[j].to = a
               PROVE  Cardinality(W(t, i)) <= LoopThreshold
    BY DEF LoopBound
  <1>0. W(t, i) = TailOf(UpTo(t, i), LoopThreshold + 1)
    <2>1. i \in Nat /\ IsFiniteSet(OnThread(t)) /\ OnThread(t) \subseteq Nat
      BY FiniteRows DEF TypeInv
    <2>2. ASSUME NEW j \in OnThread(t), j <= i
          PROVE  /\ {k \in OnThread(t) : j < k /\ k <= i}
                        = {k \in UpTo(t, i) : k > j}
                 /\ Cardinality({k \in UpTo(t, i) : k > j}) \in Nat
      <3>1. {k \in OnThread(t) : j < k /\ k <= i} = {k \in UpTo(t, i) : k > j}
        BY <2>1 DEF UpTo
      <3>2. {k \in UpTo(t, i) : k > j} \subseteq OnThread(t)
        BY DEF UpTo
      <3> QED
        BY <2>1, <3>1, <3>2, FS_Subset, FS_CardinalityType
    <2>3. \A j \in OnThread(t) : j <= i =>
              (Cardinality({k \in OnThread(t) : j < k /\ k <= i}) <= LoopThreshold
                <=> Cardinality({k \in UpTo(t, i) : k > j}) < LoopThreshold + 1)
      <3> SUFFICES ASSUME NEW j \in OnThread(t), j <= i
                   PROVE  Cardinality({k \in OnThread(t) : j < k /\ k <= i})
                              <= LoopThreshold
                            <=> Cardinality({k \in UpTo(t, i) : k > j})
                                    < LoopThreshold + 1
        OBVIOUS
      <3> DEFINE n == Cardinality({k \in UpTo(t, i) : k > j})
      <3>1. n \in Nat /\ Cardinality({k \in OnThread(t) : j < k /\ k <= i}) = n
        BY <2>2
      <3>2. n <= LoopThreshold <=> n < LoopThreshold + 1
        <4> HIDE DEF n
        <4> QED
          BY <3>1, RunnerAssumption
      <3> QED
        BY <3>1, <3>2
    <2> QED
      BY <2>3 DEF TailOf, UpTo
  <1>1. i \in Nat
    BY FiniteRows
  <1>2. ~Looped(a, UpTo(t, i), LoopThreshold + 1)
    BY <1>1 DEF LoopInv, NoLoop
  <1>3. IsFiniteSet(UpTo(t, i))
    BY <1>1, FiniteRows
  <1>4. Cardinality(TailOf(UpTo(t, i), LoopThreshold + 1)) \in Nat
    BY <1>3, FS_Subset, FS_CardinalityType DEF TailOf
  <1>5. \A j \in TailOf(UpTo(t, i), LoopThreshold + 1) : SelfRow(a, j)
    BY <1>0 DEF SelfRow
  <1>6. ~(Cardinality(TailOf(UpTo(t, i), LoopThreshold + 1)) >= LoopThreshold + 1)
    BY <1>2, <1>5 DEF Looped
  <1>7. LoopThreshold \in Nat
    BY RunnerAssumption
  <1> HIDE DEF W
  <1> QED
    BY <1>0, <1>4, <1>6, <1>7

\* The rows that are committed are as they were.
LEMMA LoopFrame ==
    ASSUME TypeInv, LoopInv, UNCHANGED stored, DOMAIN msgs \subseteq DOMAIN msgs',
           \A i \in DOMAIN msgs : msgs'[i] = msgs[i],
           \A s \in Runner :
               pc'[s] \in {"maxcheck", "send"} /\ dest'[s] = AgentOf[s] =>
                   /\ cur'[s] \in stored
                   /\ LoopThreshold > 0 =>
                        ~Looped(AgentOf[s], OnThread(msgs[cur'[s]].thread),
                                LoopThreshold),
           \A s \in Runner :
               pc'[s] = "store" /\ msgs'[draft'[s]].to = AgentOf[s] =>
                   /\ draft'[s] \in DOMAIN msgs'
                   /\ LoopThreshold > 0 =>
                        ~Looped(AgentOf[s],
                                Below(msgs'[draft'[s]].thread, draft'[s]),
                                LoopThreshold)
    PROVE  LoopInv'
  <1> SUFFICES ASSUME LoopThreshold > 0
               PROVE  Cleared' /\ DraftCleared' /\ NoLoop'
    BY DEF LoopInv
  <1>1. stored \subseteq DOMAIN msgs
    BY DEF TypeInv, TypeOK, TransportTypeOK
  <1>2. \A t : OnThread(t)' = OnThread(t)
    BY <1>1 DEF OnThread
  <1>3. \A t, n : UpTo(t, n)' = UpTo(t, n) /\ Below(t, n)' = Below(t, n)
    BY <1>2 DEF UpTo, Below
  <1>4. \A t, n : UpTo(t, n) \subseteq DOMAIN msgs /\ Below(t, n) \subseteq DOMAIN msgs
                  /\ OnThread(t) \subseteq DOMAIN msgs
    BY <1>1 DEF UpTo, Below, OnThread
  <1>5. \A a : \A i \in DOMAIN msgs : SelfRow(a, i)' <=> SelfRow(a, i)
    BY DEF SelfRow
  <1>6. \A S, n : TailOf(S, n) \subseteq S
    BY DEF TailOf
  <1>7. Cleared'
    <2> SUFFICES ASSUME NEW s \in Runner, pc'[s] \in {"maxcheck", "send"},
                        dest'[s] = AgentOf[s]
                 PROVE  ~Looped(AgentOf[s], OnThread(msgs[cur[s]].thread),
                                LoopThreshold)'
      BY DEF Cleared
    <2>1. msgs'[cur'[s]] = msgs[cur'[s]]
      BY <1>1
    <2> QED
      BY <1>2, <1>4, <1>5, <1>6, <2>1 DEF Looped
  <1>8. DraftCleared'
    <2> SUFFICES ASSUME NEW s \in Runner, pc'[s] = "store",
                        msgs'[draft'[s]].to = AgentOf[s]
                 PROVE  ~Looped(AgentOf[s],
                                Below(msgs[draft[s]].thread, draft[s]),
                                LoopThreshold)'
      BY DEF DraftCleared
    <2> QED
      BY <1>3, <1>4, <1>5, <1>6 DEF Looped
  <1>9. NoLoop'
    <2> SUFFICES ASSUME NEW t \in Thread, NEW a \in Agent, NEW n \in Nat
                 PROVE  ~Looped(a, UpTo(t, n), LoopThreshold + 1)'
      BY DEF NoLoop
    <2>1. ~Looped(a, UpTo(t, n), LoopThreshold + 1)
      BY DEF LoopInv, NoLoop
    <2> QED
      BY <1>3, <1>4, <1>5, <1>6, <2>1 DEF Looped
  <1> QED
    BY <1>7, <1>8, <1>9

\* Row j becomes visible: the human's, or the draft of the runner of its
\* agent, which leaves run_once with it.
LEMMA LoopStore ==
    ASSUME TypeInv, LoopInv, NEW j \in DOMAIN msgs \ stored, Store(j),
           UNCHANGED msgs,
           \A i \in DOMAIN msgs :
               (msgs[i].from \in Agent /\ msgs[i].from = msgs[j].from) => i <= j,
           \A a \in Agent : SelfRow(a, j) =>
               \E r \in Runner : /\ pc[r] = "store"
                                 /\ draft[r] = j
                                 /\ AgentOf[r] = a,
           \A s \in Runner :
               pc'[s] \in {"maxcheck", "send", "store"} =>
                   /\ pc[s] = pc'[s]
                   /\ UNCHANGED <<cur[s], dest[s], draft[s]>>
                   /\ AgentOf[s] # msgs[j].from
    PROVE  LoopInv'
  <1> SUFFICES ASSUME LoopThreshold > 0
               PROVE  Cleared' /\ DraftCleared' /\ NoLoop'
    BY DEF LoopInv
  <1>0. j \in Nat /\ stored \subseteq DOMAIN msgs /\ DOMAIN msgs \subseteq Nat
        /\ msgs[j].thread \in Thread
    BY RowIds DEF TypeInv, TypeOK, TransportTypeOK, Envelope
  <1>t. LoopThreshold \in Nat
    BY RunnerAssumption
  <1>1. stored' = stored \cup {j}
    BY DEF Store
  <1>2. ASSUME NEW t PROVE
            /\ OnThread(t)' = IF msgs[j].thread = t THEN OnThread(t) \cup {j}
                                                    ELSE OnThread(t)
            /\ j \notin OnThread(t)
    BY <1>1 DEF OnThread
  <1>3. ASSUME NEW t, NEW n \in Nat PROVE
            /\ UpTo(t, n)' = IF msgs[j].thread = t /\ j <= n
                             THEN UpTo(t, n) \cup {j} ELSE UpTo(t, n)
            /\ Below(t, n)' = IF msgs[j].thread = t /\ j < n
                              THEN Below(t, n) \cup {j} ELSE Below(t, n)
            /\ j \notin UpTo(t, n)
            /\ j \notin Below(t, n)
    BY <1>2 DEF UpTo, Below
  \* Sets of rows that j does not join, or joins as another's row.
  <1>4. ASSUME NEW S \in SUBSET Nat, IsFiniteSet(S), j \notin S,
               NEW n \in Nat, NEW a \in Agent, ~SelfRow(a, j), ~Looped(a, S, n)
        PROVE  ~Looped(a, S, n) /\ ~Looped(a, S \cup {j}, n)
    BY <1>0, <1>4, LoopInsertOther
  <1>5. Cleared'
    <2> SUFFICES ASSUME NEW s \in Runner, pc'[s] \in {"maxcheck", "send"},
                        dest'[s] = AgentOf[s]
                 PROVE  ~Looped(AgentOf[s], OnThread(msgs[cur[s]].thread),
                                LoopThreshold)'
      BY DEF Cleared
    <2> DEFINE t == msgs[cur[s]].thread
    <2>1. /\ pc[s] \in {"maxcheck", "send"} /\ cur'[s] = cur[s]
          /\ dest[s] = AgentOf[s] /\ AgentOf[s] # msgs[j].from
          /\ AgentOf[s] \in Agent
      BY RunnerAssumption
    <2>2. ~Looped(AgentOf[s], OnThread(t), LoopThreshold)
      BY <2>1 DEF LoopInv, Cleared
    <2>3. cur[s] \in DOMAIN msgs /\ t \in Thread
      BY <1>0, <2>1, RowIds DEF TypeInv, TypeOK, CurOK, Before, After, Envelope
    <2>4. OnThread(t) \in SUBSET Nat /\ IsFiniteSet(OnThread(t))
      BY <1>0, <2>3, FiniteRows
    <2>5. ~Looped(AgentOf[s], OnThread(t)', LoopThreshold)
      BY <1>2, <1>4, <1>t, <2>1, <2>2, <2>4 DEF SelfRow
    <2> QED
      BY <2>1, <2>5 DEF Looped, SelfRow
  <1>6. DraftCleared'
    <2> SUFFICES ASSUME NEW s \in Runner, pc'[s] = "store",
                        msgs[draft[s]].to = AgentOf[s]
                 PROVE  ~Looped(AgentOf[s],
                                Below(msgs[draft[s]].thread, draft[s]),
                                LoopThreshold)'
      BY DEF DraftCleared
    <2> DEFINE t == msgs[draft[s]].thread
    <2>1. /\ pc[s] = "store" /\ draft'[s] = draft[s]
          /\ AgentOf[s] # msgs[j].from /\ AgentOf[s] \in Agent
      BY RunnerAssumption
    <2>2. ~Looped(AgentOf[s], Below(t, draft[s]), LoopThreshold)
      BY <2>1 DEF LoopInv, DraftCleared
    <2>3. draft[s] \in DOMAIN msgs /\ t \in Thread /\ draft[s] \in Nat
      BY <1>0, <2>1, RowIds DEF TypeInv, TypeOK, DraftOK, Envelope
    <2>4. Below(t, draft[s]) \in SUBSET Nat /\ IsFiniteSet(Below(t, draft[s]))
      BY <1>0, <2>3, FiniteRows
    <2>5. ~Looped(AgentOf[s], Below(t, draft[s])', LoopThreshold)
      BY <1>3, <1>4, <1>t, <2>1, <2>2, <2>3, <2>4 DEF SelfRow
    <2> QED
      BY <2>1, <2>5 DEF Looped, SelfRow
  <1>7. NoLoop'
    <2> SUFFICES ASSUME NEW t \in Thread, NEW a \in Agent, NEW n \in Nat
                 PROVE  ~Looped(a, UpTo(t, n), LoopThreshold + 1)'
      BY DEF NoLoop
    <2>1. ~Looped(a, UpTo(t, n), LoopThreshold + 1)
      BY DEF LoopInv, NoLoop
    <2>2. UpTo(t, n) \in SUBSET Nat /\ IsFiniteSet(UpTo(t, n))
      BY FiniteRows
    <2>3. ~Looped(a, UpTo(t, n)', LoopThreshold + 1)
      <3>1. CASE ~(msgs[j].thread = t /\ j <= n)
        BY <1>3, <2>1, <3>1
      <3>2. CASE msgs[j].thread = t /\ j <= n /\ ~SelfRow(a, j)
        <4>1. LoopThreshold + 1 \in Nat
          BY <1>t
        <4> QED
          BY <1>3, <1>4, <2>1, <2>2, <3>2, <4>1
      <3>3. CASE msgs[j].thread = t /\ j <= n /\ SelfRow(a, j)
        <4>1. \A i \in UpTo(t, n) : SelfRow(a, i) => i < j
          <5> SUFFICES ASSUME NEW i \in UpTo(t, n), SelfRow(a, i)
                       PROVE  i < j
            OBVIOUS
          <5>1. i \in DOMAIN msgs /\ i \in Nat
            BY <1>0 DEF UpTo, OnThread
          <5>2. i <= j
            BY <3>3, <5>1 DEF SelfRow
          <5> QED
            BY <1>0, <1>3, <5>1, <5>2
        <4>2. {i \in UpTo(t, n) : i < j} = Below(t, j)
          <5>1. OnThread(t) \subseteq Nat
            BY FiniteRows
          <5>2. \A i \in OnThread(t) : i < j => i <= n
            BY <1>0, <3>3, <5>1
          <5> QED
            BY <5>2 DEF UpTo, Below
        <4>3. ~Looped(a, Below(t, j), LoopThreshold)
          <5>1. PICK r \in Runner : pc[r] = "store" /\ draft[r] = j /\ AgentOf[r] = a
            BY <3>3
          <5> QED
            BY <3>3, <5>1 DEF LoopInv, DraftCleared, SelfRow
        <4>4. j \notin UpTo(t, n) /\ UpTo(t, n)' = UpTo(t, n) \cup {j}
          BY <1>3, <3>3
        <4> QED
          BY <1>0, <1>t, <2>1, <2>2, <4>1, <4>2, <4>3, <4>4, LoopInsertSelf
      <3> QED
        BY <3>1, <3>2, <3>3
    <2> QED
      BY <2>3 DEF Looped, SelfRow
  <1> QED
    BY <1>5, <1>6, <1>7

\* Nothing moves but the runners, and none comes past the check or to a draft.
LEMMA LoopQuiet ==
    ASSUME TypeInv, LoopInv, UNCHANGED <<msgs, stored>>,
           \A s \in Runner :
               (pc'[s] \in {"maxcheck", "send"} /\ dest'[s] = AgentOf[s]) =>
                   \/ LoopThreshold = 0
                   \/ /\ pc[s] \in {"maxcheck", "send"}
                      /\ UNCHANGED <<cur[s], dest[s]>>,
           \A s \in Runner : pc'[s] = "store" =>
               pc[s] = "store" /\ draft'[s] = draft[s]
    PROVE  LoopInv'
  <1>1. CASE LoopThreshold = 0
    BY <1>1 DEF LoopInv
  <1>2. CASE LoopThreshold > 0
    <2>1. Cleared /\ DraftCleared /\ NoLoop
      BY <1>2 DEF LoopInv
    <2>2. \A s \in Runner : (pc'[s] \in {"maxcheck", "send"} /\ dest'[s] = AgentOf[s]) =>
              /\ cur'[s] \in stored
              /\ ~Looped(AgentOf[s], OnThread(msgs[cur'[s]].thread), LoopThreshold)
      BY <1>2, <2>1 DEF Cleared, TypeInv, CurOK, Before, After
    <2>3. \A s \in Runner :
              (pc'[s] = "store" /\ msgs'[draft'[s]].to = AgentOf[s]) =>
                  /\ draft'[s] \in DOMAIN msgs'
                  /\ ~Looped(AgentOf[s], Below(msgs'[draft'[s]].thread, draft'[s]),
                             LoopThreshold)
      BY <2>1 DEF DraftCleared, TypeInv, DraftOK
    <2> QED
      BY <2>2, <2>3, LoopFrame
  <1> QED
    BY <1>1, <1>2, RunnerAssumption

\* The draft of runner r is newer than every row the check has seen.
LEMMA LoopCompose ==
    ASSUME TypeInv, LoopInv, NEW r \in Runner, ComposeReply(r)
    PROVE  LoopInv'
  <1> SUFFICES ASSUME LoopThreshold > 0 PROVE LoopInv'
    BY DEF LoopInv
  <1>0. Cleared /\ DraftCleared
    BY DEF LoopInv
  <1>1. cur[r] \in stored /\ cur[r] \in DOMAIN msgs /\ dest[r] \in Name
    BY DEF ComposeReply, TypeInv, TypeOK, TransportTypeOK, CurOK, AckedOK,
        Before, After
  <1>2. /\ DOMAIN msgs \subseteq Nat \ {0}
        /\ \A i \in DOMAIN msgs : msgs[i] \in Envelope
    BY RowIds DEF TypeInv, TypeOK
  <1>3. Reply(r) \in Envelope
    BY <1>1, <1>2, RunnerAssumption DEF Reply, Envelope
  <1>4. /\ DOMAIN msgs = 1 .. Len(msgs)
        /\ Len(msgs) \in Nat
        /\ DOMAIN msgs' = DOMAIN msgs \cup {Len(msgs) + 1}
        /\ \A i \in DOMAIN msgs : msgs'[i] = msgs[i]
        /\ msgs'[Len(msgs) + 1] = Reply(r)
    BY <1>3, ComposeLemma DEF ComposeReply, TypeInv, TypeOK, TransportTypeOK
  <1>5. /\ UNCHANGED <<stored, cur, dest>>
        /\ pc[r] = "send" /\ pc'[r] = "store"
        /\ \A s \in Runner \ {r} : pc'[s] = pc[s]
        /\ draft'[r] = Len(msgs) + 1
        /\ \A s \in Runner \ {r} : draft'[s] = draft[s]
    BY GotoLemma DEF ComposeReply, TypeInv, TypeOK, RunnerTypeOK, PC
  <1>6. \A s \in Runner :
            (pc'[s] \in {"maxcheck", "send"} /\ dest'[s] = AgentOf[s]) =>
                /\ cur'[s] \in stored
                /\ ~Looped(AgentOf[s], OnThread(msgs[cur'[s]].thread),
                           LoopThreshold)
    BY <1>0, <1>5 DEF Cleared, TypeInv, CurOK, Before, After
  <1>7. ASSUME NEW s \in Runner, pc'[s] = "store",
               msgs'[draft'[s]].to = AgentOf[s]
        PROVE  /\ draft'[s] \in DOMAIN msgs'
               /\ ~Looped(AgentOf[s], Below(msgs'[draft'[s]].thread, draft'[s]),
                          LoopThreshold)
    <2>1. CASE s # r
      <3>1. draft[s] \in DOMAIN msgs
        BY <1>5, <1>7, <2>1 DEF TypeInv, DraftOK
      <3> QED
        BY <1>0, <1>4, <1>5, <1>7, <2>1, <3>1 DEF DraftCleared
    <2>2. CASE s = r
      <3> DEFINE t == msgs[cur[r]].thread
      <3>1. Reply(r).to = dest[r] /\ Reply(r).thread = t
        BY DEF Reply
      <3>2. Below(t, Len(msgs) + 1) = OnThread(t)
        BY <1>4 DEF Below, OnThread, TypeInv, TypeOK, TransportTypeOK
      <3>3. ~Looped(AgentOf[r], OnThread(t), LoopThreshold)
        BY <1>0, <1>4, <1>5, <1>7, <2>2, <3>1 DEF Cleared
      <3> QED
        BY <1>4, <1>5, <2>2, <3>1, <3>2, <3>3
    <2> QED
      BY <2>1, <2>2
  <1>8. DOMAIN msgs \subseteq DOMAIN msgs'
    BY <1>4
  <1> QED
    BY <1>4, <1>5, <1>6, <1>7, <1>8, LoopFrame

\* One step of a runner that nothing disturbs.
LEMMA LoopRun ==
    ASSUME OneRunnerPerAgent, TypeInv, OrderInv, LoopInv, NEW r \in Runner,
           RunnerStep(r)
    PROVE  LoopInv'
  <1>g. \A label \in PC : Goto(r, label) =>
            /\ pc'[r] = label
            /\ \A s \in Runner \ {r} : pc'[s] = pc[s]
    BY GotoLemma DEF TypeInv, TypeOK, RunnerTypeOK
  <1>l. \A label \in PC : Leave(r, label) =>
            /\ pc'[r] = label
            /\ \A s \in Runner \ {r} :
                  /\ pc'[s] = pc[s] /\ cur'[s] = cur[s]
                  /\ dest'[s] = dest[s] /\ draft'[s] = draft[s]
    BY LeaveLemma DEF TypeInv, TypeOK
  <1>s. PC = {"top", "idle", "ended", "select", "mark", "llm", "backoff", "ack",
              "loopcheck", "maxcheck", "send", "store"}
    BY DEF PC
  <1>1. CASE StopSeen(r) \/ Poll(r) \/ Wake(r) \/ InboxEmpty(r)
    BY <1>1, <1>g, <1>s, LoopQuiet DEF StopSeen, Poll, Wake, InboxEmpty,
        transportVars
  <1>2. CASE Mark(r) \/ LLMError(r) \/ Retry(r)
    BY <1>2, <1>g, <1>s, LoopQuiet DEF Mark, LLMError, Retry, transportVars
  <1>3. CASE EmptyAnswer(r)
    BY <1>3, <1>l, <1>s, LoopQuiet DEF EmptyAnswer, transportVars
  <1>4. CASE Select(r)
    <2>1. \A s \in Runner \ {r} : cur'[s] = cur[s]
      BY <1>4 DEF Select, TypeInv, TypeOK, RunnerTypeOK
    <2> QED
      BY <1>4, <1>g, <1>s, <2>1, LoopQuiet DEF Select, transportVars
  <1>5. CASE Answer(r)
    <2>1. \A s \in Runner \ {r} : dest'[s] = dest[s]
      BY <1>5 DEF Answer, TypeInv, TypeOK, RunnerTypeOK
    <2> QED
      BY <1>5, <1>g, <1>s, <2>1, LoopQuiet DEF Answer, transportVars
  <1>6. CASE AckCurrent(r)
    <2>1. /\ UNCHANGED <<msgs, stored>>
          /\ \/ Leave(r, "top")
             \/ Goto(r, AfterAck(r)) /\ UNCHANGED <<cur, dest, draft>>
      BY <1>6 DEF AckCurrent
    <2>2. /\ AfterAck(r) \in {"loopcheck", "maxcheck", "send"}
          /\ AfterAck(r) # "loopcheck" =>
                dest[r] # AgentOf[r] \/ LoopThreshold = 0
      BY RunnerAssumption DEF AfterAck, AfterLoopCheck
    <2> QED
      BY <1>g, <1>l, <1>s, <2>1, <2>2, LoopQuiet
  <1>7. CASE LoopCheck(r)
    <2>1. CASE LoopDetected(AgentOf[r], msgs[cur[r]].thread)
      BY <1>7, <1>l, <1>s, <2>1, LoopQuiet DEF LoopCheck, Halt, transportVars
    <2>2. CASE ~LoopDetected(AgentOf[r], msgs[cur[r]].thread)
      <3>1. ~Looped(AgentOf[r], OnThread(msgs[cur[r]].thread), LoopThreshold)
        BY <2>2 DEF LoopDetected, ThreadTail, Looped, TailOf, SelfRow
      <3>2. /\ UNCHANGED <<msgs, stored, cur, dest, draft>>
            /\ pc'[r] \in {"maxcheck", "send"}
            /\ \A s \in Runner \ {r} : pc'[s] = pc[s]
            /\ pc[r] = "loopcheck"
        BY <1>7, <1>g, <1>s, <2>2 DEF LoopCheck, AfterLoopCheck, transportVars
      <3>3. ASSUME LoopThreshold > 0
            PROVE  Cleared /\ DraftCleared
        BY <3>3 DEF LoopInv
      <3>4. \A s \in Runner :
                (pc'[s] \in {"maxcheck", "send"} /\ dest'[s] = AgentOf[s]) =>
                    /\ cur'[s] \in stored
                    /\ LoopThreshold > 0 =>
                          ~Looped(AgentOf[s], OnThread(msgs[cur'[s]].thread),
                                  LoopThreshold)
        BY <3>1, <3>2, <3>3 DEF Cleared, TypeInv, CurOK, Before, After
      <3>5. \A s \in Runner :
                (pc'[s] = "store" /\ msgs'[draft'[s]].to = AgentOf[s]) =>
                    /\ draft'[s] \in DOMAIN msgs'
                    /\ LoopThreshold > 0 =>
                          ~Looped(AgentOf[s],
                                  Below(msgs'[draft'[s]].thread, draft'[s]),
                                  LoopThreshold)
        BY <3>2, <3>3 DEF DraftCleared, TypeInv, DraftOK
      <3> QED
        BY <3>2, <3>4, <3>5, LoopFrame
    <2> QED
      BY <2>1, <2>2
  <1>8. CASE MaxCheck(r)
    <2>1. /\ UNCHANGED <<msgs, stored>> /\ pc[r] = "maxcheck"
          /\ \/ Leave(r, "top")
             \/ Goto(r, "send") /\ UNCHANGED <<cur, dest, draft>>
      BY <1>8 DEF MaxCheck, Halt, transportVars
    <2> QED
      BY <1>g, <1>l, <1>s, <2>1, LoopQuiet
  <1>9. CASE ComposeReply(r)
    BY <1>9, LoopCompose
  <1>10. CASE StoreReply(r)
    <2>1. /\ draft[r] \in DOMAIN msgs \ stored
          /\ msgs[draft[r]].from = AgentOf[r]
          /\ \A i \in DOMAIN msgs :
                msgs[i].from = msgs[draft[r]].from => i <= draft[r]
      BY <1>10 DEF StoreReply, TypeInv, DraftOK, OrderInv, DraftNewest
    <2>2. \A s \in Runner \ {r} : AgentOf[s] # AgentOf[r]
      BY DEF OneRunnerPerAgent
    <2>3. \A a \in Agent : SelfRow(a, draft[r]) => AgentOf[r] = a
      BY <2>1 DEF SelfRow
    <2> QED
      BY <1>10, <1>l, <1>s, <2>1, <2>2, <2>3, LoopStore DEF StoreReply
  <1> QED
    BY <1>1, <1>2, <1>3, <1>4, <1>5, <1>6, <1>7, <1>8, <1>9, <1>10
       DEF RunnerStep

\* A runner that is torn down, whatever statement was in flight.
LEMMA LoopUnwind ==
    ASSUME OneRunnerPerAgent, TypeInv, OrderInv, LoopInv, NEW r \in Runner,
           Unwind(r)
    PROVE  LoopInv'
  <1>1. /\ pc'[r] = "ended"
        /\ \A s \in Runner \ {r} :
              /\ pc'[s] = pc[s] /\ cur'[s] = cur[s]
              /\ dest'[s] = dest[s] /\ draft'[s] = draft[s]
    BY LeaveLemma DEF Unwind, TypeInv, TypeOK, PC
  <1>2. CASE stored' = stored
    BY <1>1, <1>2, LoopQuiet DEF Unwind
  <1>3. CASE pc[r] = "store" /\ Store(draft[r])
    <2>1. /\ draft[r] \in DOMAIN msgs \ stored
          /\ msgs[draft[r]].from = AgentOf[r]
          /\ \A i \in DOMAIN msgs :
                msgs[i].from = msgs[draft[r]].from => i <= draft[r]
      BY <1>3 DEF TypeInv, DraftOK, OrderInv, DraftNewest
    <2>2. \A s \in Runner \ {r} : AgentOf[s] # AgentOf[r]
      BY DEF OneRunnerPerAgent
    <2>3. \A a \in Agent : SelfRow(a, draft[r]) => AgentOf[r] = a
      BY <2>1 DEF SelfRow
    <2> QED
      BY <1>1, <1>3, <2>1, <2>2, <2>3, LoopStore DEF Unwind
  <1> QED
    BY <1>2, <1>3 DEF Unwind

LEMMA LoopNext ==
    ASSUME OneRunnerPerAgent, TypeInv, OrderInv, LoopInv, [Next]_vars
    PROVE  LoopInv'
  <1>1. ASSUME NEW r \in Runner, Run(r) \/ Fail(r) \/ Cancel(r)
        PROVE  LoopInv'
    BY <1>1, LoopRun, LoopUnwind DEF Run, Fail, Cancel
  <1>2. ASSUME NEW p \in Proc,
               \/ Launched(p) \/ Exited(p) \/ Interrupt(p) \/ Crash(p)
        PROVE  LoopInv'
    <2>1. UNCHANGED <<msgs, stored>>
      BY <1>2 DEF Launched, Exited, Interrupt, Crash, systemVars, transportVars
    <2>2. \A s \in Runner :
              \/ /\ pc'[s] = pc[s] /\ cur'[s] = cur[s]
                 /\ dest'[s] = dest[s] /\ draft'[s] = draft[s]
              \/ pc'[s] \in {"top", "ended"}
      BY <1>2 DEF Launched, Exited, Interrupt, Crash, systemVars, runnerVars
    <2> QED
      BY <2>1, <2>2, LoopQuiet
  <1>3. ASSUME NEW a \in Entry, NEW t \in Thread, HumanCompose(a, t)
        PROVE  LoopInv'
    <2> DEFINE env == [from |-> Human, to |-> a, thread |-> t,
                       parent |-> NoParent]
    <2>1. env \in Envelope
      BY RunnerAssumption, ClusterAssumption DEF Envelope, NoParent
    <2>2. Compose(env) /\ UNCHANGED <<stored, pc, cur, dest, draft>>
      BY <1>3 DEF HumanCompose, runnerVars
    <2>3. /\ DOMAIN msgs \subseteq DOMAIN msgs'
          /\ \A i \in DOMAIN msgs : msgs'[i] = msgs[i]
      <3> HIDE DEF env
      <3> QED
        BY <2>1, <2>2, ComposeLemma DEF TypeInv, TypeOK, TransportTypeOK
    <2>4. LoopThreshold > 0 => Cleared /\ DraftCleared
      BY DEF LoopInv
    <2>5. \A s \in Runner :
              (pc[s] \in {"maxcheck", "send"} /\ dest[s] = AgentOf[s]) =>
                  /\ cur[s] \in stored
                  /\ LoopThreshold > 0 =>
                        ~Looped(AgentOf[s], OnThread(msgs[cur[s]].thread),
                                LoopThreshold)
      BY <2>4 DEF Cleared, TypeInv, CurOK, Before, After
    <2>6. \A s \in Runner :
              (pc[s] = "store" /\ msgs'[draft[s]].to = AgentOf[s]) =>
                  /\ draft[s] \in DOMAIN msgs'
                  /\ LoopThreshold > 0 =>
                        ~Looped(AgentOf[s],
                                Below(msgs'[draft[s]].thread, draft[s]),
                                LoopThreshold)
      BY <2>3, <2>4 DEF DraftCleared, TypeInv, DraftOK
    <2> HIDE DEF env
    <2> QED
      BY <2>2, <2>3, <2>5, <2>6, LoopFrame
  <1>4. ASSUME NEW j \in HumanRows, HumanStore(j)
        PROVE  LoopInv'
    <2>1. /\ j \in DOMAIN msgs \ stored
          /\ Store(j)
          /\ UNCHANGED <<msgs, pc, cur, dest, draft>>
      BY <1>4 DEF HumanStore, HumanRows, runnerVars
    <2>2. msgs[j].from \notin Agent
      BY ClusterAssumption DEF HumanRows
    <2>3. \A s \in Runner : AgentOf[s] # msgs[j].from
      BY <2>2, RunnerAssumption
    <2>4. \A a \in Agent : ~SelfRow(a, j)
      BY <2>2 DEF SelfRow
    <2> QED
      BY <2>1, <2>2, <2>3, <2>4, LoopStore
  <1>5. CASE UNCHANGED vars \/ \E c \in StopTargets : StopCommand(c)
    BY <1>5, LoopQuiet DEF StopCommand, vars, systemVars, transportVars,
        runnerVars
  <1> QED
    BY <1>1, <1>2, <1>3, <1>4, <1>5
       DEF Next, LaunchStart, LaunchRun, ExitStart, ExitRun

\* When every agent has one runner, no agent talks to itself for more than
\* agent_loop_detection_threshold rows in a row on a thread, whatever others
\* write in between: between the check and the COMMIT only rows of others
\* arrive, and they end the run.
THEOREM LoopBoundCorrect ==
    ASSUME OneRunnerPerAgent
    PROVE  Spec => []LoopBound
  <1>1. Init => TypeInv /\ OrderInv /\ LoopInv
    <2> SUFFICES ASSUME Init PROVE OrderInv /\ LoopInv
      BY TypeInvInit
    <2>1. OrderInv
      BY DEF Init, TransportInit, RunnerInit, OrderInv, DraftNewest,
          HeldIsOldest, PerSenderOrder, Before
    <2>2. Cleared /\ DraftCleared
      BY DEF Init, RunnerInit, Cleared, DraftCleared
    <2>3. ASSUME LoopThreshold > 0 PROVE NoLoop
      <3> SUFFICES ASSUME NEW t \in Thread, NEW a \in Agent, NEW n \in Nat
                   PROVE  ~Looped(a, UpTo(t, n), LoopThreshold + 1)
        BY DEF NoLoop
      <3>1. TailOf(UpTo(t, n), LoopThreshold + 1) = {}
        BY DEF Init, TransportInit, TailOf, UpTo, OnThread
      <3>2. Cardinality(TailOf(UpTo(t, n), LoopThreshold + 1)) = 0
        BY <3>1, FS_EmptySet
      <3> QED
        BY <2>3, <3>2, RunnerAssumption DEF Looped
    <2> QED
      BY <2>1, <2>2, <2>3 DEF LoopInv
  <1>2. TypeInv /\ OrderInv /\ LoopInv /\ [Next]_vars
            => (TypeInv /\ OrderInv /\ LoopInv)'
    BY TypeInvNext, OrderNext, LoopNext
  <1>3. TypeInv /\ LoopInv => LoopBound
    BY NoLoopSuffices
  <1> QED
    BY <1>1, <1>2, <1>3, PTL DEF Spec

=============================================================================
