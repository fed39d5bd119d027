----------------------------- MODULE AgentRunner -----------------------------
(***************************************************************************)
(* AgentRunner.run_loop and run_once of src/multiagent/core/runner.py, as  *)
(* steps between the awaits at which another runner, another process or a  *)
(* cancellation can get in.  pc[r] names what runner r does next:          *)
(*                                                                         *)
(*   top        the shutdown check at the head of the loop                 *)
(*   select     receive, first statement: SELECT the oldest row            *)
(*   mark       receive, second statement: UPDATE received_at              *)
(*   llm        agent.run is awaited                                       *)
(*   backoff    sleeping before the next attempt                           *)
(*   ack        transport.ack                                              *)
(*   loopcheck  _check_loop_detected has its query in flight               *)
(*   maxcheck   _check_max_messages has its query in flight                *)
(*   send       the reply is about to be constructed                       *)
(*   store      transport.send has its INSERT and COMMIT in flight         *)
(*   idle       sleeping for the poll interval                             *)
(*   ended      the task is finished, or not started                       *)
(***************************************************************************)
EXTENDS SQLiteTransport, ShutdownMonitor

CONSTANTS
    Runner,         \* AgentRunner instances
    AgentOf,        \* AgentOf[r]: the agent that runner r drives
    NoAgent,        \* None, where an agent name may stand
    NextAgent,      \* NextAgent[a]: next_agent of agent a in agents.toml
    Routes,         \* Routes[a]: what a's router can return; {} without router
    MaxRetries,     \* _max_retries
    LoopThreshold,  \* agent_loop_detection_threshold; 0 disables the check
    MaxMessages,    \* agent_max_messages_per_thread; 0 disables the check
    Faults          \* the faults that may occur

\* load_agents_config refuses an agent that has both a next_agent and a router.
\* It does not look whether the agents they name exist.
ValidWiring ==
    /\ NextAgent \in [Agent -> Name \cup {NoAgent}]
    /\ Routes \in [Agent -> SUBSET Name]
    /\ \A a \in Agent : Routes[a] = {} \/ NextAgent[a] = NoAgent

FaultKinds == {"llm", "empty", "transport", "interrupt", "crash"}

ASSUME RunnerAssumption ==
    /\ Agent \subseteq Name
    /\ AgentOf \in [Runner -> Agent]
    /\ NoAgent \notin Name
    /\ ValidWiring
    /\ MaxRetries \in Nat
    /\ LoopThreshold \in Nat
    /\ MaxMessages \in Nat
    /\ Faults \subseteq FaultKinds

VARIABLES
    pc,         \* where runner r is
    cur,        \* msg: the row being processed, NoParent for None
    attempt,    \* the attempt under way, from 1
    dest,       \* effective_next
    draft,      \* the row of the reply under construction, NoParent for None
    halted      \* rows whose reply a termination check suppressed (the warnings)

runnerVars == <<pc, cur, attempt, dest, draft, halted>>
systemVars == <<transportVars, sentinels, runnerVars>>

PC == {"top", "select", "mark", "llm", "backoff", "ack", "loopcheck",
       "maxcheck", "send", "store", "idle", "ended"}

RunnerTypeOK ==
    /\ pc \in [Runner -> PC]
    /\ cur \in [Runner -> Nat]
    /\ attempt \in [Runner -> 1 .. MaxRetries + 1]
    /\ dest \in [Runner -> Name \cup {NoAgent}]
    /\ draft \in [Runner -> Nat]
    /\ halted \subseteq processed

RunnerInit ==
    /\ pc = [r \in Runner |-> "ended"]
    /\ cur = [r \in Runner |-> NoParent]
    /\ attempt = [r \in Runner |-> 1]
    /\ dest = [r \in Runner |-> NoAgent]
    /\ draft = [r \in Runner |-> NoParent]
    /\ halted = {}

\* run_result.next_agent or self._next_agent.  The configuration gives an
\* agent a router or a next_agent, never both.
Destinations(a) == IF Routes[a] # {} THEN Routes[a] ELSE {NextAgent[a]}

Goto(r, label) == pc' = [pc EXCEPT ![r] = label]

\* Control leaves run_once: its locals are gone.
Leave(r, label) ==
    /\ Goto(r, label)
    /\ cur' = [cur EXCEPT ![r] = NoParent]
    /\ attempt' = [attempt EXCEPT ![r] = 1]
    /\ dest' = [dest EXCEPT ![r] = NoAgent]
    /\ draft' = [draft EXCEPT ![r] = NoParent]

-----------------------------------------------------------------------------
\* The polling loop.

StopSeen(r) ==
    /\ pc[r] = "top"
    /\ ShouldStop(AgentOf[r])
    /\ Goto(r, "ended")
    /\ UNCHANGED <<transportVars, sentinels, cur, attempt, dest, draft, halted>>

Poll(r) ==
    /\ pc[r] = "top"
    /\ ~ShouldStop(AgentOf[r])
    /\ Goto(r, "select")
    /\ UNCHANGED <<transportVars, sentinels, cur, attempt, dest, draft, halted>>

\* Defective variant: the loop polls again without the check.
WakeUnchecked(r) ==
    /\ pc[r] = "idle"
    /\ Goto(r, "select")
    /\ UNCHANGED <<transportVars, sentinels, cur, attempt, dest, draft, halted>>

Wake(r) ==
    /\ pc[r] = "idle"
    /\ Goto(r, "top")
    /\ UNCHANGED <<transportVars, sentinels, cur, attempt, dest, draft, halted>>

-----------------------------------------------------------------------------
\* receive

InboxEmpty(r) ==
    /\ pc[r] = "select"
    /\ Inbox(AgentOf[r]) = {}
    /\ Goto(r, "idle")
    /\ UNCHANGED <<transportVars, sentinels, cur, attempt, dest, draft, halted>>

Select(r) ==
    /\ pc[r] = "select"
    /\ \E i \in Inbox(AgentOf[r]) :
          /\ OldestInInbox(AgentOf[r], i)
          /\ cur' = [cur EXCEPT ![r] = i]
    /\ Goto(r, "mark")
    /\ UNCHANGED <<transportVars, sentinels, attempt, dest, draft, halted>>

Mark(r) ==
    /\ pc[r] = "mark"
    /\ MarkReceived(cur[r])
    /\ Goto(r, "llm")
    /\ UNCHANGED <<msgs, stored, processed, sentinels, cur, attempt, dest,
                   draft, halted>>

-----------------------------------------------------------------------------
\* agent.run with its retries

Answer(r) ==
    /\ pc[r] = "llm"
    /\ \E d \in Destinations(AgentOf[r]) : dest' = [dest EXCEPT ![r] = d]
    /\ Goto(r, "ack")
    /\ UNCHANGED <<transportVars, sentinels, cur, attempt, draft, halted>>

\* No ack, no reply: the row stays at the head of the inbox for the next poll.
EmptyAnswer(r) ==
    /\ "empty" \in Faults
    /\ pc[r] = "llm"
    /\ Leave(r, "idle")
    /\ UNCHANGED <<transportVars, sentinels, halted>>

LLMError(r) ==
    /\ "llm" \in Faults
    /\ pc[r] = "llm"
    /\ attempt[r] <= MaxRetries
    /\ Goto(r, "backoff")
    /\ UNCHANGED <<transportVars, sentinels, cur, attempt, dest, draft, halted>>

Retry(r) ==
    /\ pc[r] = "backoff"
    /\ attempt' = [attempt EXCEPT ![r] = @ + 1]
    /\ Goto(r, "llm")
    /\ UNCHANGED <<transportVars, sentinels, cur, dest, draft, halted>>

-----------------------------------------------------------------------------
\* ack, then the termination checks, then send

AfterLoopCheck == IF MaxMessages = 0 THEN "send" ELSE "maxcheck"

AfterAck(r) ==
    IF dest[r] = AgentOf[r] /\ LoopThreshold > 0 THEN "loopcheck"
                                                 ELSE AfterLoopCheck

AckCurrent(r) ==
    /\ pc[r] = "ack"
    /\ Ack(cur[r])
    /\ IF dest[r] = NoAgent
       THEN Leave(r, "top")
       ELSE /\ Goto(r, AfterAck(r))
            /\ UNCHANGED <<cur, attempt, dest, draft>>
    /\ UNCHANGED <<msgs, stored, received, sentinels, halted>>

\* Fewer than LoopThreshold rows are no loop; otherwise all must be a's to a.
LoopDetected(a, t) ==
    LET tail == ThreadTail(t, LoopThreshold)
    IN  /\ Cardinality(tail) >= LoopThreshold
        /\ \A i \in tail : msgs[i].from = a /\ msgs[i].to = a

\* Defective variant: one row too many.
MaxExceeded(t) == ThreadCount(t) > MaxMessages

MaxReached(t) == ThreadCount(t) >= MaxMessages

Halt(r) ==
    /\ halted' = halted \cup {cur[r]}
    /\ Leave(r, "top")

LoopCheck(r) ==
    /\ pc[r] = "loopcheck"
    /\ IF LoopDetected(AgentOf[r], msgs[cur[r]].thread)
       THEN Halt(r)
       ELSE /\ Goto(r, AfterLoopCheck)
            /\ UNCHANGED <<cur, attempt, dest, draft, halted>>
    /\ UNCHANGED <<transportVars, sentinels>>

MaxCheck(r) ==
    /\ pc[r] = "maxcheck"
    /\ IF MaxReached(msgs[cur[r]].thread)
       THEN Halt(r)
       ELSE /\ Goto(r, "send")
            /\ UNCHANGED <<cur, attempt, dest, draft, halted>>
    /\ UNCHANGED <<transportVars, sentinels>>

Reply(r) == [from |-> AgentOf[r], to |-> dest[r],
             thread |-> msgs[cur[r]].thread, parent |-> cur[r]]

ComposeReply(r) ==
    /\ pc[r] = "send"
    /\ Compose(Reply(r))
    /\ draft' = [draft EXCEPT ![r] = Len(msgs) + 1]
    /\ Goto(r, "store")
    /\ UNCHANGED <<stored, received, processed, sentinels, cur, attempt, dest,
                   halted>>

StoreReply(r) ==
    /\ pc[r] = "store"
    /\ Store(draft[r])
    /\ Leave(r, "top")
    /\ UNCHANGED <<msgs, received, processed, sentinels, halted>>

-----------------------------------------------------------------------------
\* The steps of a runner that nothing disturbs.
RunnerStep(r) ==
    \/ StopSeen(r) \/ Poll(r) \/ Wake(r)
    \/ InboxEmpty(r) \/ Select(r) \/ Mark(r)
    \/ Answer(r) \/ EmptyAnswer(r) \/ LLMError(r) \/ Retry(r)
    \/ AckCurrent(r) \/ LoopCheck(r) \/ MaxCheck(r)
    \/ ComposeReply(r) \/ StoreReply(r)

\* Defective variant: the row is acknowledged although the last attempt failed.
UnwindAcked(r) ==
    /\ pc[r] # "ended"
    /\ Leave(r, "ended")
    /\ processed' = processed \cup ({cur[r]} \cap received)
    /\ UNCHANGED <<msgs, stored, received, sentinels, halted>>

\* The task ends by an exception or a cancellation raised at the await it is
\* in.  A statement in flight may have been executed all the same: the
\* connection's thread runs what was queued, and on a shared connection the
\* commit of another task commits it.
Unwind(r) ==
    /\ pc[r] # "ended"
    /\ Leave(r, "ended")
    /\ UNCHANGED <<msgs, sentinels, halted>>
    /\ \/ UNCHANGED <<stored, received, processed>>
       \/ /\ pc[r] = "mark"
          /\ MarkReceived(cur[r])
          /\ UNCHANGED <<stored, processed>>
       \/ /\ pc[r] = "ack"
          /\ Ack(cur[r])
          /\ UNCHANGED <<stored, received>>
       \/ /\ pc[r] = "store"
          /\ Store(draft[r])
          /\ UNCHANGED <<received, processed>>

\* The exceptions run_once lets through: the last attempt failed, or a
\* transport call raised.
Raises(r) ==
    \/ /\ "llm" \in Faults
       /\ pc[r] = "llm"
       /\ attempt[r] = MaxRetries + 1
    \/ /\ "transport" \in Faults
       /\ pc[r] \in {"select", "mark", "ack", "loopcheck", "maxcheck", "store"}

=============================================================================
