-------------------------------- MODULE Startup --------------------------------
(***************************************************************************)
(* How `multiagent start` and `multiagent run` turn a cluster's files into *)
(* running agents (src/multiagent/cli/start.py, cli/run.py, config/).      *)
(*                                                                         *)
(* The files do not change; commands read them one after another.  The two *)
(* commands check the same things in a different order and at different    *)
(* places: pc is the place of the command that is executing.               *)
(*                                                                         *)
(*   agents   agents.toml is read         clear    sentinels are removed   *)
(*   servers  MCP files are read          open     checkpoints and ledger  *)
(*   tools    tools are looked up         build    agents are constructed  *)
(*   router   (run) its router            running  the tasks run           *)
(***************************************************************************)
EXTENDS ShutdownMonitor, Naturals, Sequences, FiniteSets

CONSTANTS
    Order,          \* the agents of agents.toml, in the order of its tables
    Tool,           \* names of MCP servers
    Router,         \* names of routers
    Var,            \* environment variables of the servers
    Cluster,        \* directories below clusters/
    Default,        \* the default cluster
    Section,        \* agent tables to try: next_agent set?, router, tools
    ServerFile,     \* contents of agents.mcp.json to try
    SecretsFile,    \* contents of a cluster's agents.mcp.secrets.json to try
    PromptFiles,    \* sets of agents whose prompt file exists, to try
    None, Missing, Malformed

\* load_agents_config refuses a file without agents before anything else.
ASSUME StartupAssumption ==
    /\ Agent # {}
    /\ Order \in Seq(Agent)
    /\ \A a \in Agent : \E n \in DOMAIN Order : Order[n] = a
    /\ \A m, n \in DOMAIN Order : Order[m] = Order[n] => m = n
    /\ Default \in Cluster
    /\ \A s \in Section : s.router \in Router \cup {None} /\ s.tools \subseteq Tool
    /\ PromptFiles \subseteq SUBSET Agent
    /\ None \notin Router \cup Agent \cup {"start"}

Start == "start"
Command == {Start} \cup Agent     \* `run a` is named after its agent

\* type of a [routers.*] table; any type but these two is unknown.
RouterType == {"absent", "untyped", "keyword", "llm", "unknown"}

VARIABLES
    files,      \* what is in the configuration files; never changes
    command,    \* the command that is executing, or None
    pc,
    mcp,        \* the servers it has loaded, with their environments
    built,      \* built[a]: the servers of a's LLMAgent, or None
    tasks,      \* agents whose run_loop was started as a task
    acted,      \* agents whose run_loop has taken a step
    verdict     \* verdict[c]: what became of command c

vars == <<sentinels, files, command, pc, mcp, built, tasks, acted, verdict>>

Files ==
    [cluster : Cluster, section : [Agent -> Section],
     router : [Router -> RouterType], prompts : PromptFiles,
     servers : ServerFile, secrets : [Cluster -> SecretsFile]]

PC == {"agents", "servers", "tools", "router", "clear", "open", "build",
       "running", "idle"}

-----------------------------------------------------------------------------
\* Reading the files.

\* load_agents_config refuses the whole file for one bad table.
AgentsFileValid ==
    /\ \A a \in Agent :
          ~(files.section[a].next /\ files.section[a].router # None)
    /\ \A r \in Router : files.router[r] # "untyped"

\* mcp_secrets_path: the cluster's own secrets, or else the default cluster's.
SecretsCluster ==
    IF files.secrets[files.cluster] # Missing THEN files.cluster ELSE Default

\* A secrets file that is malformed holds nothing, and that is not an error.
SecretVars(s) ==
    LET content == files.secrets[SecretsCluster]
    IN  IF content \in {Missing, Malformed} THEN {}
        ELSE IF s \in DOMAIN content THEN content[s] ELSE {}

\* Defective variant: the secrets of all servers in one environment.
LoadedShared(s) ==
    LET secret == UNION {SecretVars(t) : t \in Tool}
    IN  [v \in files.servers[s].env \cup secret |->
            IF v \in secret THEN SecretsCluster ELSE "base"]

\* _parse_server: the environment of server s.  Of a variable's value the model
\* keeps where it comes from: "base", or the cluster whose secrets file has it.
Loaded(s) ==
    [v \in files.servers[s].env \cup SecretVars(s) |->
        IF v \in SecretVars(s) THEN SecretsCluster ELSE "base"]

\* load_mcp_config: servers without a command are left out.
LoadedServers ==
    IF files.servers = Missing THEN << >>
    ELSE [s \in {t \in DOMAIN files.servers : files.servers[t].command} |-> Loaded(s)]

-----------------------------------------------------------------------------
\* The agents a command is for.
Scope(c) == IF c = Start THEN Agent ELSE {c}

Init ==
    /\ files \in Files
    /\ sentinels \in {{}, Sentinel}
    /\ command = None
    /\ pc = "idle"
    /\ mcp = << >>
    /\ built = [a \in Agent |-> None]
    /\ tasks = {}
    /\ acted = {}
    /\ verdict = [c \in Command |-> "none"]

Execute(c) ==
    /\ command = None
    /\ verdict[c] = "none"
    /\ command' = c
    /\ pc' = "agents"
    /\ UNCHANGED <<sentinels, files, mcp, built, tasks, acted, verdict>>

\* The process of the command ends.
Finish(v) ==
    /\ command' = None
    /\ pc' = "idle"
    /\ mcp' = << >>
    /\ built' = [a \in Agent |-> None]
    /\ tasks' = {}
    /\ acted' = {}
    /\ verdict' = [verdict EXCEPT ![command] = v]
    /\ UNCHANGED files

Proceed(place) ==
    /\ pc' = place
    /\ UNCHANGED <<files, command, built, tasks, acted, verdict>>

\* A check at one place of the command: it goes on, or is refused there.
Check(place, holds, next) ==
    /\ pc = place
    /\ IF holds THEN Proceed(next) /\ UNCHANGED mcp ELSE Finish("refused")
    /\ UNCHANGED sentinels

ReadAgents == Check("agents", AgentsFileValid, "servers")

ReadServers ==
    /\ pc = "servers"
    /\ IF files.servers = Malformed
       THEN Finish("refused")
       ELSE Proceed("tools") /\ mcp' = LoadedServers
    /\ UNCHANGED sentinels

CheckTools ==
    Check("tools",
          \A a \in Scope(command) : files.section[a].tools \subseteq DOMAIN mcp,
          IF command = Start THEN "clear" ELSE "router")

\* The router of agent a is defined and build_router knows its type.
RouterResolved(a) ==
    LET r == files.section[a].router
    IN  r # None => files.router[r] \in {"keyword", "llm"}

\* `run` has its router before it touches anything.
CheckRouter == Check("router", RouterResolved(command), "clear")

\* clear() of the command: `run` removes its own sentinel only.
Clear == IF command = Start THEN ClearAll ELSE ClearOne(command)

ClearSentinels ==
    /\ pc = "clear"
    /\ Clear
    /\ Proceed("open")
    /\ UNCHANGED mcp

\* The checkpointer and the ledger are opened, which may fail: nothing is
\* cleaned up then, and the operator may try again.
OpenStores ==
    /\ pc = "open"
    /\ \/ Proceed("build") /\ UNCHANGED mcp
       \/ Finish("none")
    /\ UNCHANGED sentinels

-----------------------------------------------------------------------------
\* Constructing the agents.

\* The agents come in the order of the file.
Pending(a) ==
    /\ a \in Scope(command)
    /\ built[a] = None
    /\ \A m, n \in DOMAIN Order :
          (m < n /\ Order[n] = a /\ Order[m] \in Scope(command))
              => built[Order[m]] # None

\* Defective variant: `start` takes any router.
CanBuildUnrouted(a) == a \in files.prompts

\* LLMAgent needs its prompt file; `start` looks for the router here.
CanBuild(a) == RouterResolved(a) /\ a \in files.prompts

Build(a) ==
    /\ pc = "build"
    /\ Pending(a)
    /\ CanBuild(a)
    /\ built' = [built EXCEPT ![a] = [s \in files.section[a].tools |-> mcp[s]]]
    /\ tasks' = tasks \cup {a}
    /\ UNCHANGED <<sentinels, files, command, pc, mcp, acted, verdict>>

\* In `start` the exception leaves the TaskGroup: the tasks created so far are
\* cancelled before their first step, and the finally block clears.
BuildFails(a) ==
    /\ pc = "build"
    /\ Pending(a)
    /\ ~CanBuild(a)
    /\ Finish("refused")
    /\ IF command = Start THEN Clear ELSE UNCHANGED sentinels

\* The TaskGroup's body ends, and its tasks get their turn.
Join ==
    /\ pc = "build"
    /\ \A a \in Scope(command) : built[a] # None
    /\ Proceed("running")
    /\ UNCHANGED <<sentinels, mcp>>

\* Defective variant: there is an await between the constructions.
ActEarly(a) ==
    /\ pc \in {"build", "running"}
    /\ a \in tasks
    /\ acted' = acted \cup {a}
    /\ UNCHANGED <<sentinels, files, command, pc, mcp, built, tasks, verdict>>

\* A step of a run_loop.  The body of the TaskGroup has no await: no task
\* gets a turn before it has ended.
Act(a) ==
    /\ pc = "running"
    /\ a \in tasks
    /\ acted' = acted \cup {a}
    /\ UNCHANGED <<sentinels, files, command, pc, mcp, built, tasks, verdict>>

\* The tasks have ended; the finally block clears.
End ==
    /\ pc = "running"
    /\ Clear
    /\ Finish("ran")

Next ==
    \/ \E c \in Command : Execute(c)
    \/ ReadAgents
    \/ ReadServers
    \/ CheckTools
    \/ CheckRouter
    \/ ClearSentinels
    \/ OpenStores
    \/ \E a \in Agent : Build(a) \/ BuildFails(a) \/ Act(a)
    \/ Join
    \/ End

Spec == Init /\ [][Next]_vars

-----------------------------------------------------------------------------
(***************************************************************************)
(* Properties.                                                             *)
(***************************************************************************)

\* Nothing runs in a cluster that is not complete: when the first agent takes
\* a step (it may receive a message, and pay for an answer), every agent of
\* the command has been constructed, with each of its tools and its router.
\* _start creates the tasks one by one and may raise in between.
AllOrNothing ==
    acted # {} =>
        \A a \in Scope(command) :
            /\ built[a] # None
            /\ DOMAIN built[a] = files.section[a].tools
            /\ \A s \in DOMAIN built[a] : files.servers[s].command
            /\ files.section[a].router # None
                  => files.router[files.section[a].router] \in {"keyword", "llm"}

\* The servers an agent starts get the environment written for them: a
\* variable comes from their own entry of the secrets if that has it and from
\* agents.mcp.json otherwise, and a cluster that has a secrets file, readable
\* or not, gets nothing of the default cluster's (mcp_secrets_path).
SecretsStay ==
    \A a \in tasks : \A s \in DOMAIN built[a], v \in Var :
        LET own == files.secrets[files.cluster]
            other == files.secrets[Default]
            Has(content) == /\ content \notin {Missing, Malformed}
                            /\ s \in DOMAIN content /\ v \in content[s]
        IN  /\ v \in DOMAIN built[a][s] <=>
                  \/ v \in files.servers[s].env
                  \/ Has(own)
                  \/ own = Missing /\ Has(other)
            /\ v \in DOMAIN built[a][s] =>
                  built[a][s][v] =
                      IF Has(own) THEN files.cluster
                      ELSE IF own = Missing /\ Has(other) THEN Default
                      ELSE "base"

\* `start` and the `run`s of its agents agree on what a valid cluster is,
\* though each has its own copy of the checks: if `start` runs the cluster, so
\* does `run` every agent; if `start` refuses it, so does `run` one of them.
SameVerdict ==
    /\ verdict[Start] = "ran" => \A a \in Agent : verdict[a] # "refused"
    /\ (verdict[Start] = "refused" /\ \A a \in Agent : verdict[a] # "none")
          => \E a \in Agent : verdict[a] = "refused"

=============================================================================
