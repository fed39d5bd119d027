---------------------------- MODULE DeliveryProofs ---------------------------
(***************************************************************************)
(* The cluster implements Delivery, for every deployment in which an agent *)
(* has one runner.                                                         *)
(***************************************************************************)
EXTENDS DeliveryRefinement, ClusterProofs

\* The human's rows reply to nothing.
HumanRowsAreRoots == \A i \in HumanRows : msgs[i].parent = NoParent

\* The draft of a runner is its agent's and not committed yet.
DraftIsFresh ==
    \A r \in Runner : pc[r] = "store" =>
        draft[r] \notin stored /\ msgs[draft[r]].from = AgentOf[r]

DraftInv == HumanRowsAreRoots /\ DraftIsFresh

FullInv == TypeInv /\ ReplyInv /\ DraftInv

-----------------------------------------------------------------------------
\* A step that constructs and commits no row preserves DraftInv if it lets no
\* runner reach store.
LEMMA DraftInvFrame ==
    ASSUME DraftInv, msgs' = msgs, stored' = stored,
           \A s \in Runner : pc'[s] = "store" =>
               pc[s] = "store" /\ draft'[s] = draft[s]
    PROVE  DraftInv'
  BY DEF DraftInv, HumanRowsAreRoots, HumanRows, DraftIsFresh

\* A commit of runner r's draft leaves the drafts of the others uncommitted:
\* they are other rows, for they answer other rows.
LEMMA DraftInvStore ==
    ASSUME OneRunnerPerAgent, TypeInv, DraftInv, NEW r \in Runner,
           pc[r] = "store", Store(draft[r]), msgs' = msgs, pc'[r] # "store",
           \A s \in Runner \ {r} : pc'[s] = pc[s] /\ draft'[s] = draft[s]
    PROVE  DraftInv'
  <1>1. HumanRowsAreRoots'
    BY DEF DraftInv, HumanRowsAreRoots, HumanRows
  <1>2. DraftIsFresh'
    <2> SUFFICES ASSUME NEW s \in Runner, pc'[s] = "store"
                 PROVE  draft[s] \notin stored' /\ msgs[draft[s]].from = AgentOf[s]
      BY DEF DraftIsFresh
    <2>1. s # r /\ pc[s] = "store"
      OBVIOUS
    <2>2. draft[s] # draft[r]
      BY <2>1, HeldRowsDistinct DEF TypeInv, DraftOK, After
    <2> QED
      BY <2>1, <2>2 DEF DraftInv, DraftIsFresh, Store
  <1> QED
    BY <1>1, <1>2 DEF DraftInv

\* Constructing a message, by whomever: r is the runner it belongs to, if any.
LEMMA DraftInvCompose ==
    ASSUME TypeInv, DraftInv, NEW env \in Envelope, Compose(env),
           stored' = stored, env.from = Human => env.parent = NoParent,
           \A s \in Runner : pc'[s] = "store" =>
               \/ pc[s] = "store" /\ draft'[s] = draft[s]
               \/ draft'[s] = Len(msgs) + 1 /\ env.from = AgentOf[s]
    PROVE  DraftInv'
  <1> USE DEF TypeInv, TypeOK, TransportTypeOK
  <1>1. /\ Len(msgs) \in Nat
        /\ DOMAIN msgs = 1 .. Len(msgs)
        /\ DOMAIN msgs' = DOMAIN msgs \cup {Len(msgs) + 1}
        /\ \A i \in DOMAIN msgs : msgs'[i] = msgs[i]
        /\ msgs'[Len(msgs) + 1] = env
    BY ComposeLemma
  <1>2. HumanRowsAreRoots'
    BY <1>1 DEF DraftInv, HumanRowsAreRoots, HumanRows
  <1>3. Len(msgs) + 1 \notin stored
    BY <1>1
  <1>4. DraftIsFresh'
    BY <1>1, <1>3 DEF DraftInv, DraftIsFresh, DraftOK
  <1> QED
    BY <1>2, <1>4 DEF DraftInv

\* One step of a runner that nothing disturbs.
LEMMA DraftInvRun ==
    ASSUME OneRunnerPerAgent, TypeInv, DraftInv, NEW r \in Runner,
           RunnerStep(r)
    PROVE  DraftInv'
  <1> USE DEF TypeInv, TypeOK
  <1>g. \A label \in PC : Goto(r, label) =>
            /\ pc'[r] = label
            /\ \A s \in Runner \ {r} : pc'[s] = pc[s]
    BY GotoLemma DEF RunnerTypeOK
  <1>l. \A label \in PC : Leave(r, label) =>
            /\ pc'[r] = label
            /\ \A s \in Runner \ {r} : pc'[s] = pc[s] /\ draft'[s] = draft[s]
    BY LeaveLemma
  <1>1. CASE \/ StopSeen(r) \/ Poll(r) \/ Wake(r) \/ InboxEmpty(r) \/ Select(r)
             \/ Mark(r) \/ Answer(r) \/ LLMError(r) \/ Retry(r)
    BY <1>1, <1>g, DraftInvFrame DEF PC, StopSeen, Poll, Wake, InboxEmpty,
        Select, Mark, Answer, LLMError, Retry, transportVars
  <1>2. CASE EmptyAnswer(r)
    BY <1>2, <1>l, DraftInvFrame DEF PC, EmptyAnswer, transportVars
  <1>3. CASE AckCurrent(r) \/ LoopCheck(r) \/ MaxCheck(r)
    <2>1. \/ Leave(r, "top")
          \/ /\ \E label \in {"loopcheck", "maxcheck", "send"} : Goto(r, label)
             /\ draft' = draft
      BY <1>3 DEF AckCurrent, LoopCheck, MaxCheck, Halt, AfterAck, AfterLoopCheck
    <2>2. msgs' = msgs /\ stored' = stored
      BY <1>3 DEF AckCurrent, LoopCheck, MaxCheck, transportVars
    <2> QED
      BY <1>g, <1>l, <2>1, <2>2, DraftInvFrame DEF PC
  <1>4. CASE ComposeReply(r)
    <2>1. /\ DOMAIN msgs \subseteq Nat \ {0}
          /\ \A i \in DOMAIN msgs : msgs[i] \in Envelope
      BY RowIds
    <2>2. cur[r] \in DOMAIN msgs /\ dest[r] \in Name
      BY <1>4 DEF ComposeReply, TransportTypeOK, CurOK, AckedOK, Before, After
    <2>3. Reply(r) \in Envelope /\ Reply(r).from = AgentOf[r]
      BY <2>1, <2>2, RunnerAssumption DEF Reply, Envelope
    <2>4. AgentOf[r] # Human
      BY RunnerAssumption, ClusterAssumption
    <2>5. \A s \in Runner : pc'[s] = "store" =>
              \/ pc[s] = "store" /\ draft'[s] = draft[s]
              \/ draft'[s] = Len(msgs) + 1 /\ Reply(r).from = AgentOf[s]
      BY <1>4, <1>g, <2>3 DEF PC, ComposeReply, RunnerTypeOK
    <2> QED
      BY <1>4, <2>3, <2>4, <2>5, DraftInvCompose DEF ComposeReply
  <1>5. CASE StoreReply(r)
    BY <1>5, <1>l, DraftInvStore DEF PC, StoreReply
  <1> QED
    BY <1>1, <1>2, <1>3, <1>4, <1>5 DEF RunnerStep

\* A runner that is torn down, its commit executed or not.
LEMMA DraftInvUnwind ==
    ASSUME OneRunnerPerAgent, TypeInv, DraftInv, NEW r \in Runner, Unwind(r)
    PROVE  DraftInv'
  <1>1. /\ pc'[r] = "ended"
        /\ \A s \in Runner \ {r} : pc'[s] = pc[s] /\ draft'[s] = draft[s]
    BY LeaveLemma DEF Unwind, TypeInv, TypeOK, PC
  <1>2. CASE stored' = stored
    BY <1>1, <1>2, DraftInvFrame DEF Unwind
  <1>3. CASE pc[r] = "store" /\ Store(draft[r])
    BY <1>1, <1>3, DraftInvStore DEF Unwind
  <1> QED
    BY <1>2, <1>3 DEF Unwind

LEMMA DraftInvNext ==
    ASSUME OneRunnerPerAgent, TypeInv, DraftInv, [Next]_vars
    PROVE  DraftInv'
  <1>1. ASSUME NEW r \in Runner, Run(r) \/ Fail(r) \/ Cancel(r)
        PROVE  DraftInv'
    BY <1>1, DraftInvRun, DraftInvUnwind DEF Run, Fail, Cancel
  <1>2. ASSUME NEW p \in Proc,
               \/ Launched(p) \/ Exited(p) \/ Interrupt(p) \/ Crash(p)
        PROVE  DraftInv'
    <2>1. UNCHANGED <<msgs, stored>>
      BY <1>2 DEF Launched, Exited, Interrupt, Crash, systemVars, transportVars
    <2>2. \A s \in Runner :
              \/ pc'[s] = pc[s] /\ draft'[s] = draft[s]
              \/ pc'[s] \in {"top", "ended"}
      BY <1>2 DEF Launched, Exited, Interrupt, Crash, systemVars, runnerVars
    <2> QED
      BY <2>1, <2>2, DraftInvFrame
  <1>3. ASSUME NEW a \in Entry, NEW t \in Thread, HumanCompose(a, t)
        PROVE  DraftInv'
    <2> DEFINE env == [from |-> Human, to |-> a, thread |-> t,
                       parent |-> NoParent]
    <2>1. env \in Envelope /\ env.parent = NoParent
      BY RunnerAssumption, ClusterAssumption DEF Envelope, NoParent
    <2>2. Compose(env) /\ stored' = stored /\ pc' = pc /\ draft' = draft
      BY <1>3 DEF HumanCompose, runnerVars
    <2> HIDE DEF env
    <2> QED
      BY <2>1, <2>2, DraftInvCompose
  <1>4. ASSUME NEW i \in HumanRows, HumanStore(i)
        PROVE  DraftInv'
    <2>1. HumanRowsAreRoots'
      BY <1>4 DEF HumanStore, DraftInv, HumanRowsAreRoots, HumanRows
    <2>2. \A s \in Runner : AgentOf[s] # Human
      BY RunnerAssumption, ClusterAssumption
    <2>3. DraftIsFresh'
      BY <1>4, <2>2 DEF HumanStore, Store, runnerVars, DraftInv, DraftIsFresh,
          HumanRows
    <2> QED
      BY <2>1, <2>3 DEF DraftInv
  <1>5. ASSUME NEW c \in StopTargets, StopCommand(c)
        PROVE  DraftInv'
    BY <1>5, DraftInvFrame DEF StopCommand, transportVars, runnerVars
  <1>6. CASE UNCHANGED vars
    BY <1>6, DraftInvFrame DEF vars, systemVars, transportVars, runnerVars
  <1> QED
    BY <1>1, <1>2, <1>3, <1>4, <1>5, <1>6
       DEF Next, LaunchStart, LaunchRun, ExitStart, ExitRun

LEMMA FullInvariant ==
    ASSUME OneRunnerPerAgent
    PROVE  Spec => []FullInv
  <1>1. Init => DraftInv
    BY DEF Init, TransportInit, RunnerInit, DraftInv, HumanRowsAreRoots,
        HumanRows, DraftIsFresh
  <1>2. TypeInv /\ DraftInv /\ [Next]_vars => DraftInv'
    BY DraftInvNext
  <1> QED
    BY <1>1, <1>2, ReplyInvariant, PTL DEF Spec, FullInv

-----------------------------------------------------------------------------
(***************************************************************************)
(* The step correspondence.  A step of Cluster changes the mapped state by *)
(* one commit at most, so it is one step of Delivery or none.              *)
(***************************************************************************)

\* Where a runner owes the reply to its row.
LEMMA OwedRowsDef == OwedRows = {cur[r] : r \in {s \in Runner : pc[s] \in After}}
  BY DEF OwedRows, After

\* Row ids are the positive numbers; no bound is set.
RowIdsUnbounded == RowId = Nat \ {0}

\* The replies that are visible do not change with the uncommitted rows.
LEMMA AnsweredFrame ==
    ASSUME stored \subseteq DOMAIN msgs, stored' = stored,
           \A i \in DOMAIN msgs : msgs'[i] = msgs[i]
    PROVE  AnsweredRows' = AnsweredRows
  BY DEF AnsweredRows

\* Nothing is committed, and owed replies are only given up: a Forget or a
\* stutter.
LEMMA GivenUp ==
    ASSUME stored \subseteq DOMAIN msgs, stored' = stored,
           processed' = processed, \A i \in DOMAIN msgs : msgs'[i] = msgs[i],
           OwedRows' \subseteq OwedRows
    PROVE  [D!DNext]_(D!deliveryVars)
  <1>1. AnsweredRows' = AnsweredRows
    BY AnsweredFrame
  <1>2. CASE OwedRows' = OwedRows
    BY <1>1, <1>2 DEF D!deliveryVars
  <1>3. CASE OwedRows' # OwedRows
    <2> DEFINE S == OwedRows \ OwedRows'
    <2>1. S # {} /\ S \subseteq OwedRows /\ OwedRows' = OwedRows \ S
      BY <1>3
    <2>2. D!Forget(S)
      BY <1>1, <2>1 DEF D!Forget
    <2> QED
      BY <2>1, <2>2 DEF D!DNext
  <1> QED
    BY <1>2, <1>3

\* Runners only leave the places where a reply is owed.
LEMMA OwedShrinks ==
    ASSUME \A s \in Runner : pc'[s] \in After =>
               pc[s] \in After /\ cur'[s] = cur[s]
    PROVE  OwedRows' \subseteq OwedRows
  BY DEF OwedRows, After

\* The ack of runner r is a Consume.
LEMMA AckIsConsume ==
    ASSUME OneRunnerPerAgent, RowIdsUnbounded, TypeInv, ReplyInv,
           NEW r \in Runner, pc[r] = "ack", Ack(cur[r]),
           msgs' = msgs, stored' = stored,
           pc'[r] \in After => cur'[r] = cur[r],
           \A s \in Runner \ {r} : pc'[s] = pc[s] /\ cur'[s] = cur[s]
    PROVE  D!DNext
  <1>1. cur[r] \in stored \ processed /\ cur[r] \in RowId
    BY RowIds DEF TypeInv, TypeOK, TransportTypeOK, CurOK, Before, ReplyInv,
        HeldRowsAreOpen, RowIdsUnbounded
  <1>2. AnsweredRows' = AnsweredRows
    BY DEF AnsweredRows
  <1>3. OwedRows' \in {OwedRows, OwedRows \cup {cur[r]}}
    <2>1. CASE pc'[r] \in After
      <3>1. OwedRows' = OwedRows \cup {cur[r]}
        BY <2>1 DEF OwedRows, After
      <3> QED
        BY <3>1
    <2>2. CASE pc'[r] \notin After
      <3>1. OwedRows' = OwedRows
        BY <2>2 DEF OwedRows, After
      <3> QED
        BY <3>1
    <2> QED
      BY <2>1, <2>2
  <1>4. D!Consume(cur[r])
    BY <1>1, <1>2, <1>3 DEF D!Consume, Ack
  <1> QED
    BY <1>1, <1>4 DEF D!DNext

\* The commit of runner r's reply is a Respond.
LEMMA StoreIsRespond ==
    ASSUME OneRunnerPerAgent, RowIdsUnbounded, TypeInv, ReplyInv, DraftInv,
           NEW r \in Runner, pc[r] = "store", Store(draft[r]),
           msgs' = msgs, processed' = processed, pc'[r] \notin After,
           \A s \in Runner \ {r} : pc'[s] = pc[s] /\ cur'[s] = cur[s]
    PROVE  D!DNext
  <1>1. /\ draft[r] \in DOMAIN msgs \ stored
        /\ msgs[draft[r]].parent = cur[r]
        /\ draft[r] \in RowId
    BY RowIds DEF TypeInv, TypeOK, DraftOK, DraftInv, DraftIsFresh,
        RowIdsUnbounded
  <1>2. cur[r] \in OwedRows /\ cur[r] \in RowId /\ cur[r] # NoParent
    BY RowIds DEF TypeInv, TypeOK, TransportTypeOK, CurOK, OwedRows, After,
        RowIdsUnbounded, NoParent
  <1>3. AnsweredRows' = AnsweredRows \cup {cur[r]}
    BY <1>1, <1>2 DEF AnsweredRows, Store
  <1>4. OwedRows' = OwedRows \ {cur[r]}
    <2>1. \A s \in Runner \ {r} : pc[s] \in After => cur[s] # cur[r]
      BY HeldRowsDistinct DEF After
    <2> QED
      BY <2>1 DEF OwedRows, After
  <1>5. D!Respond(cur[r], draft[r])
    BY <1>1, <1>2, <1>3, <1>4 DEF D!Respond, Store
  <1> QED
    BY <1>1, <1>2, <1>5 DEF D!DNext

\* A commit of the human's is a Post.
LEMMA HumanStoreIsPost ==
    ASSUME RowIdsUnbounded, TypeInv, DraftInv,
           NEW i \in HumanRows, HumanStore(i)
    PROVE  D!DNext
  <1>1. i \in RowId \ stored
    BY RowIds DEF HumanStore, HumanRows, TypeInv, TypeOK, RowIdsUnbounded
  <1>2. AnsweredRows' = AnsweredRows
    BY DEF HumanStore, Store, AnsweredRows, DraftInv, HumanRowsAreRoots
  <1>3. OwedRows' = OwedRows
    BY DEF HumanStore, runnerVars, OwedRows
  <1>4. D!Post(i)
    BY <1>1, <1>2, <1>3 DEF D!Post, HumanStore, Store
  <1> QED
    BY <1>1, <1>4 DEF D!DNext

\* A step of a runner that nothing disturbs.
LEMMA RunStep ==
    ASSUME OneRunnerPerAgent, RowIdsUnbounded, TypeInv, ReplyInv, DraftInv,
           NEW r \in Runner, RunnerStep(r)
    PROVE  [D!DNext]_(D!deliveryVars)
  <1>g. \A label \in PC : Goto(r, label) =>
            /\ pc'[r] = label
            /\ \A s \in Runner \ {r} : pc'[s] = pc[s]
    BY GotoLemma DEF TypeInv, TypeOK, RunnerTypeOK
  <1>l. \A label \in PC : Leave(r, label) =>
            /\ pc'[r] = label
            /\ \A s \in Runner \ {r} : pc'[s] = pc[s] /\ cur'[s] = cur[s]
    BY LeaveLemma DEF TypeInv, TypeOK
  <1>t. stored \subseteq DOMAIN msgs
    BY DEF TypeInv, TypeOK, TransportTypeOK
  <1>1. CASE \/ StopSeen(r) \/ Poll(r) \/ Wake(r) \/ InboxEmpty(r)
             \/ Mark(r) \/ Answer(r) \/ LLMError(r) \/ Retry(r)
    <2>1. pc'[r] \notin After /\ \A s \in Runner \ {r} : pc'[s] = pc[s]
      BY <1>1, <1>g DEF PC, After, StopSeen, Poll, Wake, InboxEmpty, Mark,
          Answer, LLMError, Retry
    <2>2. UNCHANGED <<msgs, stored, processed, cur>>
      BY <1>1 DEF StopSeen, Poll, Wake, InboxEmpty, Mark, Answer, LLMError,
          Retry, transportVars
    <2> QED
      BY <1>t, <2>1, <2>2, OwedShrinks, GivenUp
  <1>2. CASE Select(r)
    <2>1. pc'[r] \notin After /\ \A s \in Runner \ {r} : pc'[s] = pc[s]
      BY <1>2, <1>g DEF PC, After, Select
    <2>2. \A s \in Runner \ {r} : cur'[s] = cur[s]
      BY <1>2 DEF Select, TypeInv, TypeOK, RunnerTypeOK
    <2>3. UNCHANGED <<msgs, stored, processed>>
      BY <1>2 DEF Select, transportVars
    <2> QED
      BY <1>t, <2>1, <2>2, <2>3, OwedShrinks, GivenUp
  <1>3. CASE EmptyAnswer(r)
    <2>1. /\ pc'[r] \notin After
          /\ \A s \in Runner \ {r} : pc'[s] = pc[s] /\ cur'[s] = cur[s]
      BY <1>3, <1>l DEF PC, After, EmptyAnswer
    <2>2. UNCHANGED <<msgs, stored, processed>>
      BY <1>3 DEF EmptyAnswer, transportVars
    <2> QED
      BY <1>t, <2>1, <2>2, OwedShrinks, GivenUp
  <1>4. CASE AckCurrent(r)
    <2>1. \/ Leave(r, "top")
          \/ /\ \E label \in {"loopcheck", "maxcheck", "send"} : Goto(r, label)
             /\ cur' = cur
      BY <1>4 DEF AckCurrent, AfterAck, AfterLoopCheck
    <2>2. /\ pc'[r] \in After => cur'[r] = cur[r]
          /\ \A s \in Runner \ {r} : pc'[s] = pc[s] /\ cur'[s] = cur[s]
      BY <1>g, <1>l, <2>1 DEF PC, After
    <2> QED
      BY <1>4, <2>2, AckIsConsume DEF AckCurrent
  <1>5. CASE LoopCheck(r) \/ MaxCheck(r)
    <2>1. \/ Leave(r, "top")
          \/ /\ \E label \in {"maxcheck", "send"} : Goto(r, label)
             /\ cur' = cur
      BY <1>5 DEF LoopCheck, MaxCheck, Halt, AfterLoopCheck
    <2>2. pc[r] \in After /\ UNCHANGED <<msgs, stored, processed>>
      BY <1>5 DEF LoopCheck, MaxCheck, transportVars, After
    <2>3. \A s \in Runner : pc'[s] \in After =>
              pc[s] \in After /\ cur'[s] = cur[s]
      BY <1>g, <1>l, <2>1, <2>2 DEF PC, After
    <2> QED
      BY <1>t, <2>2, <2>3, OwedShrinks, GivenUp
  <1>6. CASE ComposeReply(r)
    <2>1. /\ DOMAIN msgs \subseteq Nat \ {0}
          /\ \A i \in DOMAIN msgs : msgs[i] \in Envelope
      BY RowIds DEF TypeInv, TypeOK
    <2>2. cur[r] \in DOMAIN msgs /\ dest[r] \in Name
      BY <1>6 DEF ComposeReply, TypeInv, TypeOK, TransportTypeOK, CurOK,
          AckedOK, Before, After
    <2>3. Reply(r) \in Envelope
      BY <2>1, <2>2, RunnerAssumption DEF Reply, Envelope
    <2>4. \A i \in DOMAIN msgs : msgs'[i] = msgs[i]
      BY <1>6, <2>3, ComposeLemma DEF ComposeReply, TypeInv, TypeOK,
          TransportTypeOK
    <2>5. \A s \in Runner : pc'[s] \in After =>
              pc[s] \in After /\ cur'[s] = cur[s]
      BY <1>6, <1>g DEF ComposeReply, PC, After
    <2> QED
      BY <1>6, <1>t, <2>4, <2>5, OwedShrinks, GivenUp DEF ComposeReply
  <1>7. CASE StoreReply(r)
    BY <1>7, <1>l, StoreIsRespond DEF StoreReply, PC, After
  <1> QED
    BY <1>1, <1>2, <1>3, <1>4, <1>5, <1>6, <1>7 DEF RunnerStep

\* A runner that is torn down gives up what it owes, unless the statement in
\* flight was executed.
LEMMA UnwindStep ==
    ASSUME OneRunnerPerAgent, RowIdsUnbounded, TypeInv, ReplyInv, DraftInv,
           NEW r \in Runner, Unwind(r)
    PROVE  [D!DNext]_(D!deliveryVars)
  <1>1. /\ pc'[r] \notin After
        /\ \A s \in Runner \ {r} : pc'[s] = pc[s] /\ cur'[s] = cur[s]
    BY LeaveLemma DEF Unwind, TypeInv, TypeOK, PC, After
  <1>2. CASE UNCHANGED <<stored, processed>>
    BY <1>1, <1>2, OwedShrinks, GivenUp DEF Unwind, TypeInv, TypeOK,
        TransportTypeOK
  <1>3. CASE pc[r] = "ack" /\ Ack(cur[r]) /\ stored' = stored
    BY <1>1, <1>3, AckIsConsume DEF Unwind
  <1>4. CASE pc[r] = "store" /\ Store(draft[r]) /\ processed' = processed
    BY <1>1, <1>4, StoreIsRespond DEF Unwind
  <1> QED
    BY <1>2, <1>3, <1>4 DEF Unwind

LEMMA StepImplementsDelivery ==
    ASSUME OneRunnerPerAgent, RowIdsUnbounded, FullInv, [Next]_vars
    PROVE  [D!DNext]_(D!deliveryVars)
  <1> USE DEF FullInv
  <1>t. stored \subseteq DOMAIN msgs
    BY DEF TypeInv, TypeOK, TransportTypeOK
  <1>1. ASSUME NEW r \in Runner, Run(r) \/ Fail(r) \/ Cancel(r)
        PROVE  [D!DNext]_(D!deliveryVars)
    BY <1>1, RunStep, UnwindStep DEF Run, Fail, Cancel
  <1>2. ASSUME NEW p \in Proc,
               \/ Launched(p) \/ Exited(p) \/ Interrupt(p) \/ Crash(p)
        PROVE  [D!DNext]_(D!deliveryVars)
    <2>1. UNCHANGED <<msgs, stored, processed>>
      BY <1>2 DEF Launched, Exited, Interrupt, Crash, systemVars, transportVars
    <2>2. \A s \in Runner :
              \/ pc'[s] = pc[s] /\ cur'[s] = cur[s]
              \/ pc'[s] \in {"top", "ended"}
      BY <1>2 DEF Launched, Exited, Interrupt, Crash, systemVars, runnerVars
    <2> QED
      BY <1>t, <2>1, <2>2, OwedShrinks, GivenUp DEF After
  <1>3. ASSUME NEW a \in Entry, NEW t \in Thread, HumanCompose(a, t)
        PROVE  [D!DNext]_(D!deliveryVars)
    <2> DEFINE env == [from |-> Human, to |-> a, thread |-> t,
                       parent |-> NoParent]
    <2>1. env \in Envelope
      BY RunnerAssumption, ClusterAssumption DEF Envelope, NoParent
    <2>2. Compose(env) /\ UNCHANGED <<stored, processed, pc, cur>>
      BY <1>3 DEF HumanCompose, runnerVars
    <2> HIDE DEF env
    <2>3. \A i \in DOMAIN msgs : msgs'[i] = msgs[i]
      BY <2>1, <2>2, ComposeLemma DEF TypeInv, TypeOK, TransportTypeOK
    <2> QED
      BY <1>t, <2>2, <2>3, OwedShrinks, GivenUp
  <1>4. ASSUME NEW i \in HumanRows, HumanStore(i)
        PROVE  [D!DNext]_(D!deliveryVars)
    BY <1>4, HumanStoreIsPost
  <1>5. ASSUME NEW c \in StopTargets, StopCommand(c)
        PROVE  [D!DNext]_(D!deliveryVars)
    BY <1>5, <1>t, OwedShrinks, GivenUp DEF StopCommand, transportVars,
        runnerVars
  <1>6. CASE UNCHANGED vars
    BY <1>6, <1>t, OwedShrinks, GivenUp DEF vars, systemVars, transportVars,
        runnerVars
  <1> QED
    BY <1>1, <1>2, <1>3, <1>4, <1>5, <1>6
       DEF Next, LaunchStart, LaunchRun, ExitStart, ExitRun

\* Every behaviour of the processes is one Delivery allows, when every agent
\* has one runner and nothing bounds the row ids.
THEOREM ClusterImplementsDelivery ==
    ASSUME OneRunnerPerAgent, RowIdsUnbounded
    PROVE  Spec => ImplementsDelivery
  <1>1. Init => D!DInit
    BY DEF Init, TransportInit, RunnerInit, D!DInit, OwedRows, AnsweredRows
  <1>2. FullInv /\ [Next]_vars => [D!DNext]_(D!deliveryVars)
    BY StepImplementsDelivery
  <1> QED
    BY <1>1, <1>2, FullInvariant, PTL DEF Spec, ImplementsDelivery, D!DSpec

\* Between ack and send a runner works on a reply that nobody has sent.
THEOREM OwedOnceCorrect ==
    ASSUME OneRunnerPerAgent
    PROVE  Spec => []OwedOnce
  <1>1. FullInv => OwedOnce
    <2> SUFFICES ASSUME FullInv PROVE OwedOnce
      OBVIOUS
    <2> USE DEF FullInv
    <2>1. OwedRows \subseteq processed
      BY DEF OwedRows, After, TypeInv, AckedOK
    <2>2. AnsweredRows \subseteq processed
      BY DEF AnsweredRows, ReplyInv, ParentsProcessed, TypeInv, TypeOK,
          TransportTypeOK
    <2>3. processed \subseteq stored
      BY DEF TypeInv, TypeOK, TransportTypeOK
    <2>4. OwedRows \cap AnsweredRows = {}
      <3> SUFFICES ASSUME NEW r \in Runner, pc[r] \in After, NEW i \in stored,
                          msgs[i].parent = cur[r]
                   PROVE  FALSE
        BY DEF OwedRows, After, AnsweredRows
      <3>1. i \in DOMAIN msgs
        BY DEF TypeInv, TypeOK, TransportTypeOK
      <3>2. pc[r] = "store"
        BY <3>1 DEF ReplyInv, UnsentHasNoReply, Unsent, After
      <3>3. i # draft[r]
        BY <3>2 DEF DraftInv, DraftIsFresh
      <3>4. draft[r] \in DOMAIN msgs /\ msgs[draft[r]].parent = cur[r]
        BY <3>2 DEF TypeInv, DraftOK
      <3>5. cur[r] # NoParent
        BY RowIds DEF TypeInv, TypeOK, TransportTypeOK, CurOK, NoParent
      <3> QED
        BY <3>1, <3>3, <3>4, <3>5 DEF ReplyInv, AnsweredAtMostOnce
    <2> QED
      BY <2>1, <2>2, <2>3, <2>4 DEF OwedOnce, D!OwedOnce
  <1> QED
    BY <1>1, FullInvariant, PTL

=============================================================================
