----------------------------- MODULE HumanConsole ----------------------------
(***************************************************************************)
(* The consoles of the human: `chat` (src/multiagent/cli/chat.py) and      *)
(* `listen` (src/multiagent/cli/listen.py).  Both read the message table   *)
(* past the transport and set processed_at with a statement of their own.  *)
(*                                                                         *)
(* A chat asks, polls its thread for a reply, marks the row and then shows *)
(* it; a listener fetches every row for the human, shows each one and then *)
(* marks it.  They run in processes of their own over one table.           *)
(*                                                                         *)
(*   closed   no session                                                   *)
(*   prompt   chat: input("You: ")         fetch   listen: the query       *)
(*   send     chat: transport.send         display listen: the next row    *)
(*   poll     chat: the query              marking either: the UPDATE      *)
(*   sleep    chat: between two queries                                    *)
(*   offer    chat: "Continue waiting?"                                    *)
(*   show     chat: the panel                                              *)
(*                                                                         *)
(* The agents are runners of which no more is kept than the consoles can   *)
(* tell: they acknowledge, construct and commit in steps of their own.     *)
(*                                                                         *)
(*   idle     between two rows             acked   the reply is to come    *)
(*   working  agent.run is awaited         sending it is constructed       *)
(***************************************************************************)
EXTENDS SQLiteTransport

CONSTANTS
    Chat,           \* chat consoles
    Listener,       \* listen consoles
    human,
    Agent,          \* names of agents
    NextOf,         \* NextOf[n]: the names agent n sends its answers to
    ThreadOf,       \* ThreadOf[c]: the thread of chat c
    AgentOf,        \* AgentOf[c]: the agent chat c is with
    Wanted,         \* Wanted[l]: every thread, or the one of --thread-id
    MaxQuestions,   \* bound: questions asked in all chats together
    MaxOpens        \* bound: sessions of all consoles

ASSUME ConsoleAssumption ==
    /\ Name = Agent \cup {human}
    /\ human \notin Agent
    /\ Chat \cap Listener = {}
    /\ ThreadOf \in [Chat -> Thread]
    /\ AgentOf \in [Chat -> Agent]
    /\ NextOf \in [Agent -> SUBSET Name]
    /\ Wanted \in [Listener -> SUBSET Thread]
    /\ MaxQuestions \in Nat
    /\ MaxOpens \in Nat

VARIABLES
    pc,             \* where a console is
    row,            \* the row in its hands, or 0
    question,       \* the last message a chat has constructed in this session
    again,          \* a chat has accepted to wait a second time
    batch,          \* the rows a listener has fetched and not yet shown
    opens,          \* sessions opened
    pending,        \* the questions that were unanswered when a chat asked its last
    shown,          \* the rows a listener has shown in this session, in order
    seen,           \* rows that have been on some screen
    dropped,        \* rows marked by a chat that was interrupted before it showed them
    at,             \* where the runner of an agent is
    held,           \* the row it works on, or 0
    draft,          \* the reply it has constructed, or 0
    about           \* about[i]: the question that led to row i

Console == Chat \cup Listener

sessionVars == <<row, question, again, batch, opens, pending>>
screenVars == <<shown, seen, dropped>>
agentVars == <<at, held, draft>>
rowVars == <<transportVars, about, agentVars>>
consoleVars == <<rowVars, pc, sessionVars, screenVars>>

Labels == {"closed", "prompt", "send", "poll", "sleep", "offer", "marking", "show",
           "fetch", "display"}

AgentTypeOK ==
    /\ at \in [Agent -> {"idle", "working", "acked", "sending"}]
    /\ held \in [Agent -> Nat]
    /\ draft \in [Agent -> Nat]
    /\ \A n \in Agent :
          /\ at[n] = "working" => held[n] \in Inbox(n)
          /\ at[n] \in {"acked", "sending"} => held[n] \in processed
          /\ at[n] = "sending" => draft[n] \in DOMAIN msgs \ stored

TypeOK ==
    /\ TransportTypeOK
    /\ \A i \in received : msgs[i].to \in Agent
    /\ pc \in [Console -> Labels]
    /\ \A c \in Console : pc[c] \in {"marking", "show"} =>
            row[c] \in stored /\ msgs[row[c]].to = human
    /\ \A c \in Chat : pc[c] \in {"send", "poll", "sleep", "offer", "marking", "show"} =>
            question[c] \in DOMAIN msgs
    /\ batch \in [Listener -> SUBSET stored]
    /\ opens \in 0 .. MaxOpens
    /\ shown \in [Listener -> Seq(stored)]
    /\ seen \cup dropped \subseteq stored
    /\ AgentTypeOK
    /\ pending \in [Chat -> SUBSET DOMAIN msgs]
    /\ about \in [DOMAIN msgs -> DOMAIN msgs]

Init ==
    /\ TransportInit
    /\ pc = [c \in Console |-> "closed"]
    /\ row = [c \in Console |-> 0]
    /\ question = [c \in Chat |-> 0]
    /\ again = [c \in Chat |-> FALSE]
    /\ batch = [l \in Listener |-> {}]
    /\ opens = 0
    /\ pending = [c \in Chat |-> {}]
    /\ shown = [l \in Listener |-> << >>]
    /\ seen = {}
    /\ dropped = {}
    /\ at = [n \in Agent |-> "idle"]
    /\ held = [n \in Agent |-> 0]
    /\ draft = [n \in Agent |-> 0]
    /\ about = << >>

Goto(c, label) == pc' = [pc EXCEPT ![c] = label]

\* The locals of a turn of the loop are gone.
Forget(c) ==
    /\ row' = [row EXCEPT ![c] = 0]
    /\ question' = [question EXCEPT ![c] = 0]
    /\ again' = [again EXCEPT ![c] = FALSE]
    /\ pending' = [pending EXCEPT ![c] = {}]

\* The loop of a chat begins again.
Prompt(c) == Goto(c, "prompt") /\ Forget(c)

-----------------------------------------------------------------------------
\* Defective variants.

RepliesOfAll(t) == Inbox(human)
RepliesToAnyone(t) == {i \in stored \ processed : msgs[i].thread = t}
PendingReceived(l) == Inbox(human) \cap received
NewestReply(t, i) ==
    /\ i \in {k \in Inbox(human) : msgs[k].thread = t}
    /\ \A j \in Inbox(human) : msgs[j].thread = t => i >= j

\* _REPLY_QUERY: to_agent = 'human' AND thread_id = t AND processed_at IS NULL
Replies(t) == {i \in Inbox(human) : msgs[i].thread = t}

\* ORDER BY created_at ASC, and fetchone.
OldestReply(t, i) ==
    /\ i \in Replies(t)
    /\ \A j \in Replies(t) : i <= j

\* _POLL_QUERY and _POLL_QUERY_THREAD, which order nothing.
Pending(l) == {i \in Inbox(human) : msgs[i].thread \in Wanted[l]}

-----------------------------------------------------------------------------
\* The rows of which something is still to come: those nobody has processed
\* and those an agent has acknowledged and not yet answered.
Open(t) ==
    LET inWork == {held[n] : n \in {m \in Agent : at[m] \in {"acked", "sending"}}}
    IN  (OnThread(t) \ processed) \cup (OnThread(t) \cap inWork)

\* The questions they go back to.
Unanswered(t) == {about[i] : i \in Open(t)}

-----------------------------------------------------------------------------
\* Chat.

\* `chat -t <thread>`: a new session on the thread.
OpenChat(c) ==
    /\ pc[c] = "closed"
    /\ opens < MaxOpens
    /\ opens' = opens + 1
    /\ Prompt(c)
    /\ UNCHANGED <<rowVars, batch, screenVars>>

\* A line of input; the Message is constructed.
Ask(c) ==
    /\ pc[c] = "prompt"
    /\ Cardinality({i \in DOMAIN msgs : msgs[i].from = human}) < MaxQuestions
    /\ Compose([from |-> human, to |-> AgentOf[c], thread |-> ThreadOf[c],
                parent |-> NoParent])
    /\ question' = [question EXCEPT ![c] = Len(msgs')]
    /\ about' = Append(about, Len(msgs'))
    /\ pending' = [pending EXCEPT ![c] = Unanswered(ThreadOf[c])]
    /\ Goto(c, "send")
    /\ UNCHANGED <<stored, received, processed, agentVars, row, again, batch,
                   opens, screenVars>>

SendQuestion(c) ==
    /\ pc[c] = "send"
    /\ Store(question[c])
    /\ Goto(c, "poll")
    /\ UNCHANGED <<msgs, about, received, processed, agentVars, sessionVars,
                   screenVars>>

\* The query finds the oldest reply on the thread, or the chat sleeps.
PollReply(c) ==
    /\ pc[c] = "poll"
    /\ \/ \E r \in stored :
            /\ OldestReply(ThreadOf[c], r)
            /\ row' = [row EXCEPT ![c] = r]
            /\ Goto(c, "marking")
       \/ /\ \A r \in stored : ~OldestReply(ThreadOf[c], r)
          /\ Goto(c, "sleep")
          /\ UNCHANGED row
    /\ UNCHANGED <<rowVars, question, again, batch, opens, pending, screenVars>>

\* The sleep is over; reply_timeout has not elapsed.
PollAgain(c) ==
    /\ pc[c] = "sleep"
    /\ Goto(c, "poll")
    /\ UNCHANGED <<rowVars, sessionVars, screenVars>>

\* The sleep is over and so is reply_timeout: the query is not tried again.
TimeOut(c) ==
    /\ pc[c] = "sleep"
    /\ IF again[c]
       THEN Prompt(c)
       ELSE /\ Goto(c, "offer")
            /\ UNCHANGED <<row, question, again, pending>>
    /\ UNCHANGED <<rowVars, batch, opens, screenVars>>

\* "Continue waiting? (y/n)"
WaitOn(c) ==
    /\ pc[c] = "offer"
    /\ again' = [again EXCEPT ![c] = TRUE]
    /\ Goto(c, "poll")
    /\ UNCHANGED <<rowVars, row, question, batch, opens, pending, screenVars>>

GiveUp(c) ==
    /\ pc[c] = "offer"
    /\ Prompt(c)
    /\ UNCHANGED <<rowVars, batch, opens, screenVars>>

\* Defective variant: the UPDATE has the thread in its WHERE, not the id.
MarkThread(c) ==
    /\ pc[c] = "marking"
    /\ processed' = processed \cup Replies(ThreadOf[c])
    /\ Goto(c, "show")
    /\ UNCHANGED <<msgs, about, stored, received, agentVars, sessionVars, screenVars>>

\* UPDATE ... SET processed_at WHERE id, whether another console was faster.
MarkReply(c) ==
    /\ pc[c] = "marking"
    /\ Ack(row[c])
    /\ Goto(c, "show")
    /\ UNCHANGED <<msgs, about, stored, received, agentVars, sessionVars, screenVars>>

ShowReply(c) ==
    /\ pc[c] = "show"
    /\ seen' = seen \cup {row[c]}
    /\ Prompt(c)
    /\ UNCHANGED <<rowVars, batch, opens, shown, dropped>>

\* The session's locals are gone.
EndChat(c) ==
    /\ Goto(c, "closed")
    /\ Forget(c)
    /\ UNCHANGED <<msgs, about, received, agentVars, batch, opens, shown, seen>>

\* An empty line, end of file, or Ctrl-C at any await.
CloseChat(c) ==
    /\ pc[c] # "closed"
    /\ dropped' = IF pc[c] = "show" THEN dropped \cup {row[c]} ELSE dropped
    /\ EndChat(c)
    /\ UNCHANGED <<stored, processed>>

\* Ctrl-C at the await of a statement that is executed all the same.
CloseChatLate(c) ==
    /\ \/ /\ pc[c] = "send"
          /\ Store(question[c])
          /\ UNCHANGED <<processed, dropped>>
       \/ /\ pc[c] = "marking"
          /\ Ack(row[c])
          /\ dropped' = dropped \cup {row[c]}
          /\ UNCHANGED stored
    /\ EndChat(c)

-----------------------------------------------------------------------------
\* Listen.

OpenListener(l) ==
    /\ pc[l] = "closed"
    /\ opens < MaxOpens
    /\ opens' = opens + 1
    /\ Goto(l, "fetch")
    /\ UNCHANGED <<rowVars, row, question, again, batch, pending, screenVars>>

\* fetchall; with no rows the listener sleeps and asks again.
Fetch(l) ==
    /\ pc[l] = "fetch"
    /\ Pending(l) # {}
    /\ batch' = [batch EXCEPT ![l] = Pending(l)]
    /\ Goto(l, "display")
    /\ UNCHANGED <<rowVars, row, question, again, opens, pending, screenVars>>

Display(l) ==
    /\ pc[l] = "display"
    /\ \E r \in batch[l] :
          /\ row' = [row EXCEPT ![l] = r]
          /\ batch' = [batch EXCEPT ![l] = @ \ {r}]
          /\ shown' = [shown EXCEPT ![l] = Append(@, r)]
          /\ seen' = seen \cup {r}
    /\ Goto(l, "marking")
    /\ UNCHANGED <<rowVars, question, again, opens, pending, dropped>>

\* Defective variant: the update is not committed.
MarkUncommitted(l) ==
    /\ pc[l] = "marking"
    /\ row' = [row EXCEPT ![l] = 0]
    /\ Goto(l, IF batch[l] = {} THEN "fetch" ELSE "display")
    /\ UNCHANGED <<rowVars, question, again, batch, opens, pending, screenVars>>

MarkDisplayed(l) ==
    /\ pc[l] = "marking"
    /\ Ack(row[l])
    /\ row' = [row EXCEPT ![l] = 0]
    /\ Goto(l, IF batch[l] = {} THEN "fetch" ELSE "display")
    /\ UNCHANGED <<msgs, about, stored, received, agentVars, question, again, batch,
                   opens, pending, screenVars>>

\* Ctrl-C; an UPDATE under way may be executed all the same.
CloseListener(l) ==
    /\ pc[l] # "closed"
    /\ \/ UNCHANGED processed
       \/ pc[l] = "marking" /\ Ack(row[l])
    /\ batch' = [batch EXCEPT ![l] = {}]
    /\ row' = [row EXCEPT ![l] = 0]
    /\ shown' = [shown EXCEPT ![l] = << >>]
    /\ Goto(l, "closed")
    /\ UNCHANGED <<msgs, about, stored, received, agentVars, question, again, opens,
                   pending, seen, dropped>>

-----------------------------------------------------------------------------
\* The runner of an agent (one for each; AgentRunner has its whole course).

\* receive returns the oldest row, and agent.run is awaited.
AgentReceives(n) ==
    /\ at[n] = "idle"
    /\ \E i \in stored :
          /\ OldestInInbox(n, i)
          /\ MarkReceived(i)
          /\ held' = [held EXCEPT ![n] = i]
    /\ at' = [at EXCEPT ![n] = "working"]
    /\ UNCHANGED <<msgs, stored, processed, about, draft, pc, sessionVars, screenVars>>

AgentAcks(n) ==
    /\ at[n] = "working"
    /\ Ack(held[n])
    /\ at' = [at EXCEPT ![n] = "acked"]
    /\ UNCHANGED <<msgs, stored, received, about, held, draft, pc, sessionVars,
                   screenVars>>

\* The checks are passed; the reply goes to the human or to another agent.
AgentComposes(n) ==
    /\ at[n] = "acked"
    /\ \E to \in NextOf[n] :
          Compose([from |-> n, to |-> to, thread |-> msgs[held[n]].thread,
                   parent |-> held[n]])
    /\ about' = Append(about, about[held[n]])
    /\ draft' = [draft EXCEPT ![n] = Len(msgs')]
    /\ at' = [at EXCEPT ![n] = "sending"]
    /\ UNCHANGED <<stored, received, processed, held, pc, sessionVars, screenVars>>

AgentLeaves(n) ==
    /\ at' = [at EXCEPT ![n] = "idle"]
    /\ held' = [held EXCEPT ![n] = 0]
    /\ draft' = [draft EXCEPT ![n] = 0]
    /\ UNCHANGED <<msgs, received, processed, about, pc, sessionVars, screenVars>>

AgentSends(n) ==
    /\ at[n] = "sending"
    /\ Store(draft[n])
    /\ AgentLeaves(n)

\* An empty answer, exhausted retries, a termination check, no destination, a
\* cancellation or a kill: run_once ends here and does not send.
AgentGivesUp(n) ==
    /\ at[n] # "idle"
    /\ AgentLeaves(n)
    /\ UNCHANGED stored

AgentStep(n) ==
    \/ AgentReceives(n) \/ AgentAcks(n) \/ AgentComposes(n) \/ AgentSends(n)
    \/ AgentGivesUp(n)

ChatStep(c) ==
    \/ Ask(c) \/ SendQuestion(c) \/ PollReply(c) \/ PollAgain(c) \/ TimeOut(c)
    \/ WaitOn(c) \/ GiveUp(c) \/ MarkReply(c) \/ ShowReply(c)

ListenStep(l) == Fetch(l) \/ Display(l) \/ MarkDisplayed(l)

Next ==
    \/ \E c \in Chat : OpenChat(c) \/ ChatStep(c) \/ CloseChat(c) \/ CloseChatLate(c)
    \/ \E l \in Listener : OpenListener(l) \/ ListenStep(l) \/ CloseListener(l)
    \/ \E n \in Agent : AgentStep(n)

Spec == Init /\ [][Next]_consoleVars

-----------------------------------------------------------------------------
(***************************************************************************)
(* Fairness.  A chat and a listener take their own steps (the human types  *)
(* when it pleases, so Ask has none), and the human starts a listener.     *)
(***************************************************************************)
ConsoleFairness ==
    /\ \A c \in Chat : WF_consoleVars(MarkReply(c) \/ ShowReply(c))
    /\ \A l \in Listener : WF_consoleVars(ListenStep(l)) /\ WF_consoleVars(OpenListener(l))

FairSpec == Spec /\ ConsoleFairness

-----------------------------------------------------------------------------
(***************************************************************************)
(* Properties.                                                             *)
(***************************************************************************)

\* No reply disappears unseen: a row for the human that is processed has been
\* on a screen, is on its way to one, or was in the hands of a chat that was
\* interrupted (_poll_reply marks before _chat_loop shows; _listen the other
\* way round).
NothingUnseen ==
    \A r \in processed :
        msgs[r].to = human =>
            \/ r \in seen \cup dropped
            \/ \E c \in Chat : pc[c] = "show" /\ row[c] = r

\* No other chat is on the thread of c.
Alone(c) == \A d \in Chat \ {c} : ThreadOf[d] # ThreadOf[c]

\* What a chat shows for a reply goes back to the question just asked, or to
\* one that was still unanswered when this one was asked: only a late reply
\* can take the place of the answer, also one that was on its way between ack
\* and COMMIT while the thread looked read, or that was asked for in an earlier
\* session (_poll_reply looks for the oldest row of the thread and for
\* nothing else).
AnswersTheQuestion ==
    \A c \in Chat :
        pc[c] = "show" /\ Alone(c) => about[row[c]] \in pending[c] \cup {question[c]}

\* A chat shows no reply of an agent while an older one of that agent on its
\* thread is unread, although created_at is taken before the commit, the
\* replies of several agents are committed in any order and a listener eats
\* into the backlog (_REPLY_QUERY's ORDER BY).
RepliesInOrder ==
    \A c \in Chat : pc[c] = "show" =>
        \A i \in OnThread(ThreadOf[c]) :
            (msgs[i].to = human /\ msgs[i].from = msgs[row[c]].from /\ i < row[c])
                => i \in processed

\* One session of listen shows a row once, whatever the chats mark meanwhile
\* (_listen marks every row it fetched before it fetches again).
ShownOnce ==
    \A l \in Listener : \A i, j \in DOMAIN shown[l] :
        shown[l][i] = shown[l][j] => i = j

\* While a listener stays on its thread, every reply is seen at last, or was
\* dropped by an interrupted chat.
RepliesSeenUpTo(n) ==
    \A r \in 1 .. n :
        (r \in stored /\ msgs[r].to = human) ~>
            \/ r \in seen \cup dropped
            \/ /\ r \in stored
               /\ \A l \in Listener : msgs[r].thread \in Wanted[l] => pc[l] = "closed"

=============================================================================
