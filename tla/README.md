# Formal model of multiagent

TLA+ modules, TLC configurations and TLAPS proofs for the `multiagent` package
(`src/multiagent/` in the repository) and for the script that builds its
document index (`scripts/ingest_docs.py`). LLM agents exchange messages
through one SQLite table. Line references are to the package unless they name
`scripts/` or `docs/`; `PROJECT.json` prefixes paths with the directory `src/`
that holds the repository.

## 1. The system

An agent is a name, a prompt, an optional router and optional tools. An
`AgentRunner` drives it: it polls the agent's inbox, lets the agent answer,
acknowledges the message and sends the answer to the next agent. `multiagent
start` runs one runner per agent of a cluster as tasks of one `TaskGroup`;
`multiagent run` runs one. The human writes with `send` or `chat`, reads with
`chat` or `listen`, watches and writes with `monitor`, and ends everything with
`stop`. The processes share nothing but files: the message database, the
checkpoint database, the cost database and the sentinel files of `stop`.

### Inventory

| Component | State it keeps | Operations | Model |
|---|---|---|---|
| Message (`models.py`) | from, to, thread, parent, `created_at` taken by the constructor | constructor | `SQLiteTransport` (`Envelope`, `Compose`) |
| SQLite transport (`transport/sqlite.py`) | the table `messages`: immutable columns, `received_at`, `processed_at`; the cached connection | `receive`, `send`, `ack`, `thread_messages_tail`, `thread_message_count`; `known_agents`, fan-out, lazy opening, `close` | `SQLiteTransport` (the table), `SharedConnection` (the connection) |
| Terminal transport (`transport/terminal.py`) | none | `receive` from stdin, `send` to stdout, `ack` | not modelled |
| Agent runner (`core/runner.py`) | locals of `run_once` | `run_loop`, `run_once`, `_check_loop_detected`, `_check_max_messages` | `AgentRunner` |
| Shutdown monitor (`core/shutdown.py`) | sentinel files `.stop`, `.stop.<agent>` | `should_stop`, `request_stop`, `clear` | `ShutdownMonitor` |
| `start`, `run`, `stop`, `send` (`cli/`) | processes and their tasks | validation and construction; launch, failure and cancellation of a `TaskGroup`, Ctrl-C, exit | `Startup`, then `Cluster` |
| Settings, `agents.toml`, MCP files (`config/`) | none | load, validate, merge | `Startup` |
| LLM agent (`core/agent.py`) | the conversation per `<agent>:<thread>` in the checkpointer; fd 2 while tools are in use | `run`: graph of llm, tools, route nodes | `LLMAgent` |
| Routing (`core/routing.py`) | none | `build_router`; keyword and LLM routers | `Startup`; a choice in `LLMAgent` and `AgentRunner` |
| Cost ledger (`core/costs.py`) | table `cost_ledger` | `record` | its rows and warnings in `LLMAgent`, the threads of a cluster in `Monitor` |
| `chat`, `listen` (`cli/`) | the session; they read and write the message table directly | ask, poll, time out, show, mark | `HumanConsole` |
| Monitor TUI (`cli/monitor.py`) | list, highlight, panel, form, `_refreshing` | timer, keys, highlight events, loads, prefill, send | `Monitor` |
| Document index (`scripts/ingest_docs.py`) | the chroma collection | chunk, upsert, wipe | `DocumentIndex` |
| Logging, version, exceptions, other scripts | none the rest reads | formatting, read-only queries | not modelled |

### Interactions

* runner → transport: every call is an `await`; each statement is executed by
  the connection's thread. Between two awaits of one runner any other task or
  process can act, and the tasks of one process share a connection and with it
  a transaction.
* runner → LLM agent: one awaited call, with retries around it. It ends in an
  answer, an empty answer or an exception.
* processes ↔ files: `stop` creates sentinels, runners look at them at the head
  of their loop, `start` and `run` clear them when they begin and end.
* consoles ↔ table: `chat` and `listen` bypass the transport and set
  `processed_at` with an UPDATE of their own.
* monitor: two asyncio tasks (the application's events and its timer) run the
  same coroutines over one set of widgets.

### What is hard, and what would make it correct

| Where | Behaviour | Property |
|---|---|---|
| `core/runner.py:113` | the ack is committed before the reply: exceptions, Ctrl-C, kills in between | `AnsweredAtMostOnce`, `NoLostReply`, `OwedOnce`, `ImplementsDelivery` |
| `transport/sqlite.py:119` | `receive` is two statements and claims nothing: two runners of one agent take up one row | `OneReplyPerRunner` |
| `transport/sqlite.py:123` | ordered by construction time, visible by commit time | `PerSenderOrder` |
| `core/runner.py:97`, `:105` | exhausted retries and empty answers keep a row at the head | `EventuallyProcessed` |
| `core/runner.py:129`, `:186` | checks that read, and a send later on | `CeilingBound`, `LoopBound` |
| `cli/start.py:125`, `cli/run.py:81` | who clears which sentinel, and when | `StopHonoured` |
| `transport/sqlite.py:68`, `:169`, `:189` | tasks open, replace and share a connection; fan-outs and commits interleave on it | `ReturnedIsStored`, `NoOrphanTransaction`, `CallsReturn`, `OneConnection` |
| `core/agent.py:292` | supersteps, a lazy writer, kills, retries, shared threads | `AnswerRemembered`, `ConversationInOrder` |
| `core/agent.py:304` | `next_agent` persists in the checkpoint | `RouteIsFresh` |
| `core/agent.py:229` | the cost row of an answer of the model: failed writes, kills between call, row and checkpoint | `EveryAnswerCosted` |
| `core/agent.py:364` | fd 2 is redirected around awaits | `StderrRestored` |
| `cli/chat.py:129`, `:75`; `cli/listen.py:50` | late replies, replies between ack and COMMIT, marks before and after the display | `AnswersTheQuestion`, `RepliesInOrder`, `NothingUnseen`, `ShownOnce`, `RepliesSeen` |
| `cli/monitor.py:134`, `:621`, `:644`, `:652` | refreshes, loads and highlight events of two tasks overlap | `SelectionKept`, `PanelCatchesUp`, `FormAddressesThread` |
| `cli/start.py:84`, `cli/run.py:61`, `config/mcp.py:55` | an error while tasks are being created; two copies of the checks; merged secrets | `AllOrNothing`, `SameVerdict`, `SecretsStay` |
| `scripts/ingest_docs.py:121`, `:48` | an interrupted run, leftovers of removed files, the ends of chunks | `UpToDate`, `NothingElse`, `PhrasesWhole` |

`PROJECT.json` lists these hazards and the ones no property covers.

## 2. The modules

```
 SQLiteTransport   ShutdownMonitor -------- Startup
       |      \      /
       |     AgentRunner
       |          |
       |       Cluster ------------------ ClusterProofs
       |          |                             |
       |   DeliveryRefinement ----------- DeliveryProofs
       |     |          \ INSTANCE
       |  MCCluster      Delivery
  HumanConsole - ConsoleProofs            LLMAgent         - AgentProofs
  Monitor      - MonitorProofs            SharedConnection - ConnectionProofs
  DocumentIndex - IndexProofs             Startup          - StartupProofs
```

Every module with runs has an `MC` module that gives its function constants
values.

**SQLiteTransport.** `msgs` is the log of all messages ever constructed, in the
order of `created_at`; the index stands for the id. `stored`, `received` and
`processed` are the rows that are committed and the rows whose timestamp column
is set. `Compose` and `Store` are separate: the constructor stamps the message
and `send` commits it later, so rows can become visible in another order. For
the tasks of one process this allows more than the code does (nothing is
awaited between the constructor and the INSERT); for the processes of `run` and
`send` it is what happens. `Store` makes a row visible to every connection at
its commit.

**SharedConnection** is the level below: the same calls, one label per await,
on connections that carry an open transaction. At `start` every task finds
`_conn` unset, so each opens a connection and the last assignment stays. The
schema is three steps: `EnsureSchema` takes the connection that is cached when
it is called, `ExecuteScript` commits what is open on that one, whoever did it,
and `SchemaApplied` returns what is cached by then. Calls that got an earlier
connection finish on it. Statements of several tasks on
one connection are one transaction, which the next commit of any of them ends;
a connection that has written holds the lock of the database and others wait.
Tasks send to lists (fan-out) and to everybody (`broadcast`, after
`known_agents`), are cancelled together (`Abort`), and `close` rolls back what
is open; another process sends in between. PRAGMAs and `received_at` are left
out. `RowOf` names the row of each recipient.

**ShutdownMonitor.** The set of sentinel files and the four ways to change it.

**AgentRunner.** A program counter per runner with one label per await of
`run_once`, and its locals. `Answer`, `EmptyAnswer` and `LLMError` are the
outcomes of `agent.run`; `Retry` is the next attempt. `AckCurrent` is `ack` and
the decision which check follows; `LoopCheck` and `MaxCheck` halt (the warning
and `return`) or go on; `ComposeReply` and `StoreReply` are the reply. `Unwind`
is a task that ends by an exception or a cancellation; since the connection's
thread runs what was queued, a statement in flight may or may not take effect.
`Raises` says which exceptions `run_once` lets through. The three LLM-failure
labels stand for the loop over `range(max_retries + 1)`.

**Cluster.** Processes around the table: launch (with the clearing that `start`
and `run` do), the steps of the runners, a failing task that makes the
`TaskGroup` cancel its siblings, Ctrl-C, the exit with its `finally` block, a
kill, and the commands `send` and `stop`.

**Startup** is what comes before: `files` holds everything a cluster's
configuration can be, good or broken, and commands (`start`, and `run` of each
agent) go through their checks in the order of their code, load and merge the
servers, clear sentinels, open the databases, construct the agents one by one,
and run. `start` and `run` have the same checks at different places: routers
and prompts of `start` are looked at while the tasks are being created.

**Delivery** is the abstract specification: a message becomes visible, is
consumed once, may then be owed a reply, which is sent once or forgotten for
good. **DeliveryRefinement** maps it on the rows: visible is `stored`, consumed
is `processed`, owed are the rows whose runner is between ack and COMMIT, and
answered are the parents of stored rows.

**LLMAgent.** The graph of `core/agent.py` as one label per await. In the llm node the
model answers (`ModelAnswers`), the ledger writes its row or fails and leaves a
warning (`RecordCost`), and the answer is added (`NodeReturns`): a failure or a
kill may come between any two. `recorded` and `warned` count rows and warnings
of an agent. `Restart` may remove routers from `agents.toml` or add them
(`routed`). The working copy of an invocation is `work`; the checkpointer's writer (`Write`) brings
`checkpoint` up to date in the background and an invocation returns or raises
only when it has caught up, while a kill may come before. LangGraph and the MCP
client are external and are modelled by what the code relies on. `decided` is
a history variable: what the router said in this invocation. `Act` and `Begin`
are the runner around it: it acknowledges a nonempty answer and otherwise hands
over the same message again.

**HumanConsole.** Chats and listeners over the table of `SQLiteTransport`. A
chat asks, polls, times out, waits on or gives up, marks and shows; a listener
fetches a batch, of every thread or of the one of `--thread-id` (`Wanted`), shows
and marks row by row. Of the agents' runners no more is kept than a console can
tell, but that in the steps of `run_once`: `AgentReceives`, `AgentAcks`,
`AgentComposes` (which answers the human or passes on to another agent,
`NextOf`) and `AgentSends`, with `AgentGivesUp` at every await. So a row may be
processed while its reply is still to come, and the replies of two agents may be
committed in another order than they were constructed. Ctrl-C at the await of a
statement may come too late to prevent it (`CloseChatLate`). `seen`, `dropped`,
`about`, which says what question a row goes back to, and `pending`, the
questions that were unanswered when a chat asked its last one, are history
variables.

**Monitor.** Two tasks, `app` and `timer`, each with a label per await of
`_refresh_all`, `_load_selected_thread`, `_prefill_send_panel` and the send.
The highlight moves at once, the event that it moved is handled later
(`events`); one connection serves the loads in the order in which they were
asked for (`loads`). Rows and cost entries arrive at any time. A query of a refresh may
fail: the one for the threads and the one of the load under it end the refresh
(`RefreshFails`, `LoadFails`), the one for the costs leaves the list unfiltered;
one that raises in an event handler ends the application and is left out.
`Kept` is the loop that filters the list by cluster; `Ascending` keeps the
order of the rows. The agents panel, expanded messages and rendering are left out.

**DocumentIndex.** Runs of the script over files that change: chunk, upsert
file by file, skip what cannot be read, be interrupted, start again with or
without `--reset`. A document is an interval of a text, and `todo` the places in
`Files` that the loop has not come to (`At` is the first of them).

Each module with runs contains, next to an operator, *defective variants* of it
(named so in a comment): the mistakes that the properties are there to catch.
No specification uses them.

## 3. What the runs check

| Run | Instance | Properties | States |
|---|---|---|---|
| `pipeline` | `start`, alfa → beta → human, two messages of the human, one retry, a stop command, every fault, Ctrl-C, kill, relaunch | `TypeOK`, `AnsweredAtMostOnce`, `PerSenderOrder`, `OwedOnce`, `ImplementsDelivery` | 58,010 |
| `halting` | one `start`; alfa's router sends to alfa or beta, beta answers alfa; loop threshold 2, ceiling 4; sentinels for all and for alfa; empty answers | `LoopBound`, `CeilingBound`, `StopHonoured` | 256,818 |
| `service` | `run alfa` in two terminals and `run beta`; exhausted retries, empty answers, relaunches | `NoLostReply`, `OneReplyPerRunner`, `EventuallyProcessed` | 4,423 |
| `agent` | alfa with tools, beta with a router, one thread; failing models, empty answers, failing ledger, kills, routers that come and go | `TypeOK`, `AnswerRemembered`, `ConversationInOrder`, `RouteIsFresh`, `EveryAnswerCosted`, `StderrRestored` | 918,816 |
| `console` | two chats on two threads, one with an agent that answers itself or through the other's; a listener on one thread; three sessions, two questions | `TypeOK`, `NothingUnseen`, `AnswersTheQuestion`, `RepliesInOrder`, `ShownOnce`, `RepliesSeen` | 251,154 |
| `connection` | two tasks, a send each to nobody or to both, broadcasts, a sender outside, cancellation | `TypeOK`, `ReturnedIsStored`, `NoOrphanTransaction`, `CallsReturn`, `OneConnection` | 249,529 |
| `monitor` | a cluster with two threads, one more row, an edited form, a query that fails | `TypeOK`, `FormAddressesThread`, `SelectionKept`, `PanelCatchesUp` | 127,245 |
| `startup` | two clusters, two agents, two servers, one router; every combination of good and broken files | `AllOrNothing`, `SecretsStay`, `SameVerdict` | 1,032,120 |
| `ingest` | two files, five texts, two edits, chunks of 5 with an overlap of 2 | `TypeOK`, `UpToDate`, `NothingElse`, `PhrasesWhole` | 43,330 |

Three runs are expected to find a violation; each shows a place where the code
does not do what the repository says of it:

| Run | What the code does | What is said |
|---|---|---|
| `v_interrupt` | Ctrl-C between ack and send loses the reply (`NoLostReply`) | "the current message completes before the runner exits. Shutdown is always clean." (`docs/implementation-guide.md:513`) |
| `v_stderr` | overlapping invocations with tools leave fd 2 on the log (`StderrRestored`) | "Redirect MCP subprocess stderr to a dedicated log file." (`core/agent.py:358`) |
| `v_stop` | `run alfa` removes the stop request that was meant for alfa's runner in a `start` on the same data directory, which then polls for ever (`StopHonoured`) | "Creates a sentinel file that running agents detect within one poll interval." (`cli/stop.py:19`) |

All three hold in the runs above under the conditions those name: `NoLostReply`
when runners end by exhausted retries, `StderrRestored` with one agent with
tools, `StopHonoured` with one process.

### Bounds, and why they are enough

* Two runners, tasks or consoles of a kind: every race in the code is between
  two of them. Two agents give chains, loops between agents and, with a router,
  self-loops.
* `HumanBudget = 2`: two messages make an inbox with an order, and two chains
  on one thread. In the pipeline they make at most six rows (`RowId`);
  in `halting`, where chains do not end by themselves, the ceiling of four is
  reached first. In `service` one message is enough for two runners to take it
  up: with both their replies, and beta's answers to those, it makes five rows
  (`EventuallyProcessedUpTo(5)`).
* `MaxRetries = 1` has an attempt that is repeated and one that is the last.
* `LoopThreshold = 2` and `MaxMessages = 4`: a self-loop is cut off before the
  ceiling, and the ceiling is reached with both runners at work. `CeilingBound`
  counts the rows of agents: two chains that pass the check together were begun
  by two messages of the human, which the code's count includes.
* `agent`: three messages (two for one agent on one thread), three invocations
  in all, so that each message is answered once, or one is tried again or twice
  more when others wait; one round of tools. A route decided in one invocation
  is in the checkpoint of the next.
* `console`: `MaxQuestions = 2` in all gives a chat a backlog or two chats a
  question each; `MaxOpens = 3` lets a chat, the
  listener and one more run together, or one be reopened after an interrupt: a
  chat can ask, be interrupted while its agent is between ack and COMMIT, and
  ask again.
* `connection`: `MaxSends = 1` of each task. A list to both agents is a
  transaction of two INSERTs that the other task can get between; the empty
  list commits nothing of its own. The race for the connection is over after
  each task's first call.
* `monitor`: with two threads a list can be reordered, filtered by cluster and
  emptied; `MaxRows = 3` lets one row arrive on either thread, which brings it
  to the top; `MaxEvents = 1` bounds the highlights of the human, not those a
  refresh posts; one failing query leaves a refresh half done.
* `ingest`: texts of no, one, exactly one and three chunks, and two of the same
  length; two edits change a file and change it back, or remove one of them.
* `startup` is bounded by its file contents: each check can fail and succeed,
  alone and with others.

Deadlock is not checked in `agent`, `v_stderr`, `console`, `connection` and
`startup`: there the models stop, with the bounds used up, every task cancelled or every
command done. In the others it is, with a bound that lets the processes go round.

### Fairness

`SchedulingFairness` of `Cluster` (weak, per runner and process) is the event
loop: a task whose await is over is resumed, a cancelled one gets its
`CancelledError`, a process without tasks exits. It is all that `StopHonoured`
assumes. `AnswerFairness` (strong, on an answer of the model) says that a model
called again and again gives a nonempty answer at last; without it no message
need ever be processed, since an empty answer blocks the inbox.
`OperatorFairness` says that what has ended is launched again: the code has no
supervisor, and exhausted retries end a process. Only `service` uses these two.

`ConsoleFairness` lets a chat show what it has marked and a listener go on, and
has the human open a listener; `RepliesSeen` excuses the time when none is
open on the thread of the reply. Typing has no fairness.

`SharedConnection` has weak fairness on `TaskStep`, the continuation of a call
that has begun: the event loop again. Beginning a call has none. That a writer
gets the lock in the end follows from the other's steps; SQLite's busy timeout
(an exception, which the model has as `Abort`) is longer than the statements.

`Monitor` has weak fairness on the application's task, on the timer and on its
tick. `PanelCatchesUp` assumes in its own premise that the selection comes to
rest; queries fail finitely often.

## 4. What is proved

All modules named `…Proofs` are checked by TLAPS. The theorems hold for every
set of agents, runners, processes, tasks, threads, names, files and texts, every
routing, every chunk size and overlap, every bound and every set of faults that
the last column does not exclude.

| Theorem | Statement | Needs |
|---|---|---|
| `TypeCorrect` | `Cluster!TypeOK` | – |
| `AnsweredAtMostOnceCorrect` | no row gets a second reply | `OneRunnerPerAgent` |
| `OneReplyPerRunnerCorrect` | a row gets no more replies than its agent has runners | finitely many runners |
| `PerSenderOrderCorrect` | rows of one sender are processed in their order | `OneRunnerPerAgent` |
| `NoLostReplyCorrect` | no acknowledged row loses its reply | `Undisturbed` |
| `CeilingBoundCorrect` | a thread has fewer rows of agents than the ceiling | `OneRunnerPerAgent` |
| `LoopBoundCorrect` | a self-loop is cut off at the threshold | `OneRunnerPerAgent` |
| `ClusterImplementsDelivery` | the deployment implements `Delivery` | `OneRunnerPerAgent`, `RowIdsUnbounded` |
| `OwedOnceCorrect` | a reply being prepared has not been sent | `OneRunnerPerAgent` |
| `AgentTypeCorrect`, `AnswerRememberedCorrect`, `ConversationInOrderCorrect`, `EveryAnswerCostedCorrect` | the invariants of `LLMAgent` | – |
| `RouteIsFreshCorrect` | what an agent with a router returns was decided in this invocation | – |
| `ConsoleTypeCorrect`, `NothingUnseenCorrect`, `ShownOnceCorrect`, `RepliesInOrderCorrect`, `AnswersTheQuestionCorrect` | the invariants of `HumanConsole` | – |
| `ConnectionTypeCorrect`, `ReturnedIsStoredCorrect`, `NoOrphanTransactionCorrect` | the invariants of `SharedConnection` | – |
| `NoDeadlockCorrect` | who waits for the write lock waits for a task that can go on | – |
| `AllOrNothingCorrect`, `SecretsStayCorrect`, `SameVerdictCorrect` | the invariants of `Startup` | – |
| `MonitorTypeCorrect`, `FormAddressesThreadCorrect`, `SelectionKeptCorrect` | the invariants of `Monitor`, and its action property | – |
| `FlagFollowsRefreshesCorrect` | `_refreshing` is up only while a refresh is under way | – |
| `IndexTypeCorrect`, `UpToDateCorrect`, `NothingElseCorrect`, `PhrasesWholeCorrect` | the invariants of `DocumentIndex` | – |
| `IndicesAreTheLoop` | `Indices(n)` satisfies the start and the loop condition of `chunk_text` | – |

`OneRunnerPerAgent` is the documented deployment; with two runners of one agent
both may answer a row, since `receive` claims nothing, and
`OneReplyPerRunner` is what is left. `RowIdsUnbounded` makes
`RowId` the positive numbers. `Undisturbed` leaves only failing models and
empty answers, and with failing models one runner in each process, since a
failure cancels the siblings at any await: these are the conditions under which
the claim that `v_interrupt` refutes is true.

### The arguments

*Replies.* `TypeOK` of `Cluster` is not inductive: `TypeInv` adds that the row
in a runner's hands is committed and addressed to its agent, and that a draft is
a message that exists. `ReplyInv` adds what orders ack and send: before its ack
a runner's row is unprocessed and has no child; from ack to COMMIT it is
processed; before `ComposeReply` it still has no child; parents are processed
rows addressed to the agent that replied. Since a row's agent has one runner,
nobody else can process it or reply to it, so a second child cannot come to be.
The refinement adds `DraftInv`, which relates a draft to its parent, and maps
every step: `AckCurrent` to `Consume`, the commit to `Respond`, halts, unwinding
and kills to `Forget`, the human's commit to `Post`, the rest to a stutter.

*Several runners.* `OneReplyPerRunner` is not inductive. `ShareInv` counts the
replies to a row together with the runners that hold it and have not composed
theirs (`Pending`): the sum is at most the number of the agent's runners. A
reply moves a runner from the one to the other; only the fetch adds one, and a
row that can be fetched has no reply yet (`ParentsProcessed`).

*Order.* `OrderInv`: the draft of a runner is younger than everything else its
agent has constructed (`DraftNewest`), so rows of one sender are committed in
the order of `created_at`, and the row in a runner's hands stays the oldest
unprocessed one of its sender (`HeldIsOldest`) whatever is committed meanwhile.

*Loss.* `NoLossInv`: only a process that is up has runners at work
(`DownIsIdle`), and an acknowledged row in hand has a destination of the agent's
own (`DestOK`). Then a runner past the ack gets off its row by a halt or by the
commit, and by nothing else.

*Ceiling.* A row is *spent* when an agent has replied to it or a runner that
passed the check is about to. Sending moves a row from the one to the other, so
only the check lets the spent rows of a thread grow, and at that moment it has
counted more than them. By `AnsweredAtMostOnce` each row of an agent spends
another row, so there are no more of the former (`CeilingInv`).

*Loop.* `LoopInv`: a runner that passed the check and sends to itself has a row
of somebody else, or too few rows, in the tail it looked at (`Cleared`,
`DraftCleared`); rows that arrive before its commit are not its agent's, and
wherever they fall they end a run of self-routed rows rather than lengthen one.
With it no window of `LoopThreshold + 1` rows is all self-routed (`NoLoop`).

*Conversations.* `AgentInv`: the working copy continues the checkpoint, holds
the question, is in order, and, past the llm node with a nonempty answer, recalls
it. So whatever prefix the writer has written when a kill comes is in order, and
what is acknowledged was written whole. `RouteInv`: an agent that has
a router passes the route node in every invocation, and that overwrites what
the checkpoint has brought along; routers change only with all agents at rest.

*Costs.* What the model said is in the checkpoint, in the working copy or in
both, and a kill takes it back from the latter. `CostInv` counts the places of
both as one set (`Said`), so that the writer changes nothing, and adds the
answer whose record is made and which is not in the conversation yet (`Due`):
`Cardinality(Said(a)) + Due(a) <= recorded[a] + warned[a]`. The ledger's step
makes both sides grow, `NodeReturns` moves one from `Due` to `Said`, and a kill
or a failure only makes the left side smaller.

*Consoles.* `ConsoleInv`: the row a chat has in hand is older than every unread
one of the same agent on its thread (`OldestHeld`), which a commit keeps true
because the draft of an agent is the newest row it has (`DraftOK`); a listener
shows what it fetched and has marked what it has shown (`ListenerOK`,
`ShownRead`). `AnswerInv`: `Open` are the rows of a thread from which something
may still come, those that are unprocessed and those between ack and COMMIT.
While a lone chat waits, they all go back to its question or to one that was
open when it asked, since agents hand on the question their row is about and
nobody else asks on the thread; so does the row it takes up.

*Connection.* `ConnInv`: the rows of a send under way are in the table or on the
connection its call has got, and so is the row a task has received, which may be
another's; from the commit on they are in the table. A connection is never
without a task that will commit what is open on it. `LockInv` adds that one
connection at a time has the write lock and that the tasks of a process end
together; so whoever holds the lock can go on, and nobody waits in a circle
(`NoDeadlock`), which is the safety under `CallsReturn`.

*Startup.* `StartupInv` relates `pc` to what the command has read and checked,
says of every constructed agent that all its parts are there, and reduces a
verdict to the files alone: a command that ran had a valid cluster and one that
was refused had none, whatever order its checks came in.

*Monitor.* `MonitorInv`: the queue of the connection holds every task that loads
once (`LoadsOnce`); the timer starts when the first refresh is over (`Labels`);
an answer to `_prefill_send_panel` names a writer of the thread it was asked
for, which stays true while the table grows and the selection moves
(`ProposalTrue`), so the form may take it over at any time. `Coming(k)` counts
the events that task k's refresh is still going to post: with it the number of
waiting events has a bound (`EventsBounded`), although each refresh posts one
whatever is in the queue. `SelectionKept` needs no invariant: only
`update_threads` changes the list, and it finds the thread again in the new one.
`FlagFollowsRefreshes` is inductive: overlapping refreshes reset each other's
flag, a failed query resets it too, and so the last to end leaves it down.

*Document index.* `IndexInv` says of a run what its end says of all files, of
those it has come to: their chunks are there (`UpToDateSoFar`), after `--reset`
nothing else is, and nothing at all of the others (`NothingElseSoFar`); and the
text in hand is what the file holds unless somebody edited it (`TextIsCurrent`).
`PhrasesWhole` is arithmetic: the last chunk that starts before a phrase holds
it, since the next starts `Step` later and `Step + Overlap = Size`; if the loop
ended earlier, the chunk that reached the end does. `IndicesAreTheLoop` says
that the set `Indices` the model has in place of the loop is the loop's.

*Numbers.* `LeastNumber` (a set of numbers that is not empty has a least
member, from the well-foundedness of `<`) takes the place of induction, as the
library's induction theorems cannot be instantiated: `SortedEnumeration` (a
finite set can be listed in order) supposes a smallest set that cannot. It says
that the `CHOOSE` of `ByActivity` and `Ascending` picks what it describes.

### Left to TLC

Liveness (`EventuallyProcessed`, `StopHonoured`, `RepliesSeen`, `CallsReturn`,
`OneConnection`, `PanelCatchesUp`): the prover has neither fairness nor
`ENABLED`. `NoDeadlock` and `FlagFollowsRefreshes`, which `CallsReturn` and
`PanelCatchesUp` rest on, are proved. `StderrRestored` is an invariant only
with one agent with tools, and is left to its run. Every other invariant and
action property of the passing runs, and the refinement, is a theorem.

## 5. Done and left

Done: the SQLite transport with its connection, the runner, the
cluster's life from its files to its exit, the abstract delivery specification
and its refinement, the LLM agent, the consoles, the monitor, the document
index.

Left: the keyword router's first match and the LLM router's default on answers
that are more than a kind.

## 6. Limits of the code, seen while modelling

These hold of the code, and no document promises otherwise or none of the runs
is about them.

* The count is read before the send, so rows may be added when the ceiling has
  been reached (`config/settings.py:153`, `core/runner.py:129`); `CeilingBound`
  is what holds.
* The exit of one `start` removes stop requests meant for another's runners
  (`cli/start.py:125`), and a `run` those for its agent wherever it runs
  (`cli/run.py:81`, the run `v_stop`); `StopHonoured` is checked with one
  `start`. A `start` that is refused has removed them too (`:70`).
* `run` does not remove `.stop`, so a `run` launched after `stop` without a name
  ends at once (`cli/run.py:81`), and so does the next one, for every schedule,
  while `clear` removes sentinels "to allow clean restarts"
  (`core/shutdown.py:47`).
* Two runners of one agent may both answer a row (`transport/sqlite.py:119`).
* An agent whose router was removed returns the checkpointed decision of earlier
  days, and the runner prefers it to `next_agent` (`core/agent.py:304`); the
  docstring of `RunResult` says "None if no router is configured or routing did
  not run" (`core/agent.py:54`). `RouteIsFresh` speaks of agents that have a
  router.
* "Every LLM call writes a row" (`tasks/009-cost-tracking.md:17`) is not so for
  writes that fail, for a kill between the paid call and its row and for the
  calls of the LLM router (`core/routing.py:122`). `EveryAnswerCosted` is what
  holds: an answer in a conversation has a row or a warning. A row whose COMMIT
  failed may be committed with the next one.
* A kill while tools run leaves a call without a result at the end of the
  conversation (`core/agent.py:256`), and each attempt adds its question again
  (`:293`).
* A destination that nobody serves is not refused; its rows are never read.
* Monitor: a highlight of the human that is handled during a refresh is taken
  for the refresh's own (`cli/monitor.py:644`), so the form keeps naming the
  earlier thread until another highlight; To is prefilled with "human" when only
  the human has written; a prefill overwrites what was typed; overlapping
  refreshes reset each other's flag; the list is unfiltered while the cost query
  fails.
* A chat on a thread that looks read may show the answer to an earlier question:
  a runner may be between ack and COMMIT (`core/runner.py:113`).
  `AnswersTheQuestion` and `pending` count such questions as unanswered. Of the
  replies of two agents the one that was constructed later may be shown first.
* Terminal backend: the first line that is answered ends the runner with an
  `AssertionError`, since its messages have no id (`core/runner.py:112`); an
  empty answer loses its line, and `stop` is not seen while stdin is awaited.
* Document index: without `--reset`, chunks of files that were shortened or
  removed stay (`scripts/ingest_docs.py:121`), and an empty file ends the
  run.
* SQLite: `CallsReturn` relies on the bounded transactions of this code; a task
  whose SELECT is still open may instead get "database is locked".

## 7. Not modelled

Logging, the version command, exceptions and the inspection scripts keep no
state that the rest reads. The terminal transport is one process that reads a
line, answers it and prints, with nothing beside it; section 6 says what comes of
it. Prompts, the text of answers, TOML and JSON syntax,
the schema migration of the ledger and its sums, command lines and the rendering
of the monitor are data or layout that no property tells apart. LangGraph,
LangChain, MCP servers, aiosqlite, textual and chromadb are external: they are
modelled by what the code relies on.

## 8. Running it

| Module | Configurations |
|---|---|
| `MCCluster` | `pipeline`, `halting`, `service`, `v_interrupt`, `v_stop` |
| `MCLLMAgent` | `agent`, `v_stderr` |
| `MCHumanConsole` | `console` |
| `MCSharedConnection` | `connection` |
| `MCMonitor` | `monitor` |
| `MCStartup` | `startup` |
| `MCDocumentIndex` | `ingest` |

```
tlc -config pipeline.cfg MCCluster.tla
tlapm ClusterProofs.tla
```

Each proof module is checked the same way.
