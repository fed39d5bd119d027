------------------------------- MODULE Cluster -------------------------------
(***************************************************************************)
(* The processes of a deployment around one message table and one data     *)
(* directory: `multiagent start` runs every agent in one TaskGroup,        *)
(* `multiagent run` one agent, `send` injects messages of the human and    *)
(* `stop` creates sentinel files.  Processes are interrupted, crash, fail  *)
(* with one of their tasks, and are launched again.                        *)
(***************************************************************************)
EXTENDS AgentRunner

CONSTANTS
    Proc,           \* processes that run agents
    Kind,           \* Kind[p]: "start" or "run"
    ProcOf,         \* ProcOf[r]: the process in which runner r is a task
    Human,          \* the name "human"
    Entry,          \* the agents the human writes to
    HumanBudget,    \* bound: how many messages the human writes
    StopTargets     \* the sentinels the stop command is used for

RunnersOf(p) == {r \in Runner : ProcOf[r] = p}

ASSUME ClusterAssumption ==
    /\ Human \in Name \ Agent
    /\ Kind \in [Proc -> {"start", "run"}]
    /\ ProcOf \in [Runner -> Proc]
    /\ \A p \in Proc : Kind[p] = "run" => \E r \in Runner : RunnersOf(p) = {r}
    /\ Entry \subseteq Agent
    /\ HumanBudget \in Nat
    /\ StopTargets \subseteq Sentinel

VARIABLE proc       \* proc[p]: "down", "up", or "aborting" (tasks cancelled)

vars == <<systemVars, proc>>

TypeOK ==
    /\ TransportTypeOK
    /\ MonitorTypeOK
    /\ RunnerTypeOK
    /\ proc \in [Proc -> {"down", "up", "aborting"}]

Init ==
    /\ TransportInit
    /\ MonitorInit
    /\ RunnerInit
    /\ proc = [p \in Proc |-> "down"]

-----------------------------------------------------------------------------
\* A process from its launch to its exit.

Launched(p) ==
    /\ proc[p] = "down"
    /\ proc' = [proc EXCEPT ![p] = "up"]
    /\ pc' = [r \in Runner |-> IF ProcOf[r] = p THEN "top" ELSE pc[r]]
    /\ UNCHANGED <<transportVars, cur, attempt, dest, draft, halted>>

\* `start` clears every sentinel, then creates the tasks.
LaunchStart(p) ==
    /\ Kind[p] = "start"
    /\ ClearAll
    /\ Launched(p)

\* `run` clears its agent's sentinel only.
LaunchRun(p) ==
    /\ Kind[p] = "run"
    /\ \E r \in RunnersOf(p) : ClearOne(AgentOf[r])
    /\ Launched(p)

Run(r) ==
    /\ proc[ProcOf[r]] = "up"
    /\ RunnerStep(r)
    /\ UNCHANGED proc

Answered(r) ==
    /\ proc[ProcOf[r]] = "up"
    /\ Answer(r)
    /\ UNCHANGED proc

\* An exception leaves run_loop.  A TaskGroup then cancels the other tasks.
Fail(r) ==
    /\ proc[ProcOf[r]] = "up"
    /\ Raises(r)
    /\ Unwind(r)
    /\ proc' = [proc EXCEPT ![ProcOf[r]] = "aborting"]

\* Ctrl-C: the main task is cancelled, and with it every runner.
Interrupt(p) ==
    /\ "interrupt" \in Faults
    /\ proc[p] = "up"
    /\ proc' = [proc EXCEPT ![p] = "aborting"]
    /\ UNCHANGED systemVars

\* A cancelled task is resumed with CancelledError, whatever it awaits.
Cancel(r) ==
    /\ proc[ProcOf[r]] = "aborting"
    /\ Unwind(r)
    /\ UNCHANGED proc

Exited(p) ==
    /\ proc[p] # "down"
    /\ \A r \in RunnersOf(p) : pc[r] = "ended"
    /\ proc' = [proc EXCEPT ![p] = "down"]
    /\ UNCHANGED <<transportVars, runnerVars>>

\* Every task is finished: the finally block clears and closes.
ExitStart(p) ==
    /\ Kind[p] = "start"
    /\ ClearAll
    /\ Exited(p)

ExitRun(p) ==
    /\ Kind[p] = "run"
    /\ \E r \in RunnersOf(p) : ClearOne(AgentOf[r])
    /\ Exited(p)

\* Killed: no finally block runs, and what was not committed is gone.
Crash(p) ==
    /\ "crash" \in Faults
    /\ proc[p] # "down"
    /\ proc' = [proc EXCEPT ![p] = "down"]
    /\ pc' = [r \in Runner |-> IF ProcOf[r] = p THEN "ended" ELSE pc[r]]
    /\ cur' = [r \in Runner |-> IF ProcOf[r] = p THEN NoParent ELSE cur[r]]
    /\ attempt' = [r \in Runner |-> IF ProcOf[r] = p THEN 1 ELSE attempt[r]]
    /\ dest' = [r \in Runner |-> IF ProcOf[r] = p THEN NoAgent ELSE dest[r]]
    /\ draft' = [r \in Runner |-> IF ProcOf[r] = p THEN NoParent ELSE draft[r]]
    /\ UNCHANGED <<transportVars, sentinels, halted>>

-----------------------------------------------------------------------------
\* The commands of the human, each a process of its own.

HumanRows == {i \in DOMAIN msgs : msgs[i].from = Human}

HumanCompose(a, t) ==
    /\ Cardinality(HumanRows) < HumanBudget
    /\ Compose([from |-> Human, to |-> a, thread |-> t, parent |-> NoParent])
    /\ UNCHANGED <<stored, received, processed, sentinels, runnerVars, proc>>

HumanStore(i) ==
    /\ i \in HumanRows \ stored
    /\ Store(i)
    /\ UNCHANGED <<msgs, received, processed, sentinels, runnerVars, proc>>

StopCommand(s) ==
    /\ s \in StopTargets
    /\ RequestStop(s)
    /\ UNCHANGED <<transportVars, runnerVars, proc>>

-----------------------------------------------------------------------------
Next ==
    \/ \E r \in Runner : Run(r) \/ Fail(r) \/ Cancel(r)
    \/ \E p \in Proc : LaunchStart(p) \/ LaunchRun(p) \/ ExitStart(p) \/ ExitRun(p)
    \/ \E p \in Proc : Interrupt(p) \/ Crash(p)
    \/ \E a \in Entry, t \in Thread : HumanCompose(a, t)
    \/ \E i \in HumanRows : HumanStore(i)
    \/ \E s \in StopTargets : StopCommand(s)

Spec == Init /\ [][Next]_vars

\* The event loop resumes every task that can go on, cancellations are
\* delivered and a process whose tasks are over exits.
SchedulingFairness ==
    /\ \A r \in Runner : WF_vars(Run(r)) /\ WF_vars(Fail(r)) /\ WF_vars(Cancel(r))
    /\ \A p \in Proc : WF_vars(ExitStart(p)) /\ WF_vars(ExitRun(p))

FairSpec == Spec /\ SchedulingFairness

\* In addition: a call of the model that is repeated for ever gives a
\* nonempty answer at last, and the operator starts again what has ended.
AnswerFairness == \A r \in Runner : SF_vars(Answered(r))
OperatorFairness ==
    \A p \in Proc : WF_vars(LaunchStart(p)) /\ WF_vars(LaunchRun(p))

ServiceSpec == FairSpec /\ AnswerFairness /\ OperatorFairness

-----------------------------------------------------------------------------
(***************************************************************************)
(* Properties.                                                             *)
(***************************************************************************)

\* The deployment the documentation describes: an agent is driven by one
\* runner, in one process.
OneRunnerPerAgent == \A r, s \in Runner : AgentOf[r] = AgentOf[s] => r = s

Children(i) == {j \in DOMAIN msgs : msgs[j].parent = i}

\* A message is answered at most once: whatever is interrupted, killed,
\* retried or run again, no row gets a second reply, because run_once
\* acknowledges before it sends.
AnsweredAtMostOnce ==
    \A i, j \in DOMAIN msgs :
        (i # j /\ msgs[i].parent # NoParent) => msgs[i].parent # msgs[j].parent

\* What an agent sends to a recipient is processed in the order it was sent,
\* although created_at is taken before the commit and an empty answer leaves
\* its row at the head of the inbox (receive's ORDER BY created_at).
PerSenderOrder ==
    \A i, j \in stored :
        ( /\ i < j
          /\ msgs[i].from \in Agent
          /\ msgs[i].from = msgs[j].from
          /\ msgs[i].to = msgs[j].to
          /\ j \in processed ) => i \in processed

\* The reply to row i is still owed: its runner is between ack and COMMIT.
InFlight(i) ==
    \E r \in Runner :
        /\ cur[r] = i
        /\ pc[r] \in {"loopcheck", "maxcheck", "send", "store"}

HasDestination(a) == NoAgent \notin Destinations(a)

\* No reply is lost: a row an agent has acknowledged has its reply in the
\* table, unless a termination check suppressed it or its runner is still
\* on the way from ack to send (run_once acknowledges before it sends).
NoLostReply ==
    \A i \in processed :
        (msgs[i].to \in Agent /\ HasDestination(msgs[i].to)) =>
            \/ i \in halted
            \/ InFlight(i)
            \/ Children(i) \cap stored # {}

\* A self-routing agent is cut off: no LoopThreshold + 1 rows that follow
\* each other on a thread are all from one agent to itself
\* (_check_loop_detected, with rows of others arriving in between).
LoopBound ==
    LoopThreshold > 0 =>
        \A t \in Thread, a \in Agent, i \in stored :
            LET window == {j \in OnThread(t) :
                              /\ j <= i
                              /\ Cardinality({k \in OnThread(t) : j < k /\ k <= i})
                                     <= LoopThreshold}
            IN  (\A j \in window : msgs[j].from = a /\ msgs[j].to = a)
                    => Cardinality(window) <= LoopThreshold

AgentRows(t) == {i \in OnThread(t) : msgs[i].from \in Agent}

\* Agents write fewer rows on a thread than the ceiling, although the count
\* is read before the send: runners that pass the check together work on
\* chains begun by different messages of the human, which are counted too
\* (_check_max_messages).
CeilingBound ==
    MaxMessages > 0 =>
        \A t \in Thread :
            AgentRows(t) # {} => Cardinality(AgentRows(t)) < MaxMessages

\* A message gets no more replies than its agent has runners, in whatever
\* processes, over retries, exits and relaunches: receive claims nothing, so
\* each of them may answer the row once, but none comes back to it when one of
\* them has acknowledged it.
OneReplyPerRunner ==
    \A i \in DOMAIN msgs :
        Cardinality(Children(i)) <= Cardinality({r \in Runner : AgentOf[r] = msgs[i].to})

\* Every row addressed to an agent is processed in the end, over empty
\* answers, exhausted retries and relaunches (the unacknowledged row is
\* received again).
EventuallyProcessedUpTo(n) ==
    \A i \in 1 .. n :
        (i \in stored /\ msgs[i].to \in Agent) ~> (i \in processed)

\* A stop request ends the runners it is for: each one gets to the check at
\* the head of its loop while the sentinel is still there.
StopHonoured ==
    \A r \in Runner :
        (ShouldStop(AgentOf[r]) /\ pc[r] # "ended") ~> (pc[r] = "ended")

=============================================================================
