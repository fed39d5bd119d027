----------------------------- MODULE StartupProofs -----------------------------
(***************************************************************************)
(* Theorems about Startup, for every set of agents, servers, routers and   *)
(* clusters and all contents of their files.                               *)
(***************************************************************************)
EXTENDS Startup, TLAPS

\* What a valid cluster is, for `start` and for the `run` of one agent.
Complete(a) ==
    /\ files.section[a].tools \subseteq DOMAIN LoadedServers
    /\ RouterResolved(a)
    /\ a \in files.prompts

Valid(c) ==
    /\ AgentsFileValid
    /\ files.servers # Malformed
    /\ \A a \in Scope(c) : Complete(a)

\* An LLMAgent, or one whose constructor is in `tasks` already.
BuiltRight(a) ==
    /\ Complete(a)
    /\ built[a] = [s \in files.section[a].tools |-> Loaded(s)]

\* pc and the process belong together: no agent is there before "build", and
\* none acts before all are.
PlaceOK ==
    /\ pc \in PC
    /\ command \in Command \cup {None}
    /\ pc = "idle" <=> command = None
    /\ built = [a \in Agent |-> built[a]]
    /\ pc \notin {"build", "running"} =>
          tasks = {} /\ \A a \in Agent : built[a] = None
    /\ pc = "router" => command # Start
    /\ pc # "running" => acted = {}
    /\ pc = "running" => \A a \in Scope(command) : built[a] # None

\* What a command has read and looked at when it is past it.
CheckedOK ==
    /\ pc \notin {"idle", "agents"} => AgentsFileValid
    /\ pc \notin {"idle", "agents", "servers"} =>
          files.servers # Malformed /\ mcp = LoadedServers
    /\ pc \in {"router", "clear", "open", "build", "running"} =>
          \A a \in Scope(command) : files.section[a].tools \subseteq DOMAIN mcp

BuiltOK == \A a \in Agent : (a \in tasks \/ built[a] # None) => BuiltRight(a)

\* A verdict is a matter of the files alone.
VerdictOK ==
    /\ verdict \in [Command -> {"none", "ran", "refused"}]
    /\ \A c \in Command : /\ verdict[c] = "ran" => Valid(c)
                          /\ verdict[c] = "refused" => ~Valid(c)

\* The inductive invariant.
StartupInv == tasks \subseteq Agent /\ PlaceOK /\ CheckedOK /\ BuiltOK /\ VerdictOK

-----------------------------------------------------------------------------
LEMMA StartupInvInit == Init => StartupInv
  BY StartupAssumption
     DEF Init, StartupInv, PlaceOK, CheckedOK, BuiltOK, VerdictOK, PC, Command, Start

\* What the files say does not change.
LEMMA FilesKept ==
    ASSUME UNCHANGED files
    PROVE  /\ AgentsFileValid' = AgentsFileValid /\ LoadedServers' = LoadedServers
           /\ \A s : Loaded(s)' = Loaded(s)
           /\ \A a : Complete(a)' = Complete(a) /\ RouterResolved(a)' = RouterResolved(a)
           /\ \A c : Valid(c)' = Valid(c)
  BY DEF AgentsFileValid, LoadedServers, Loaded, SecretVars, SecretsCluster, Complete,
         RouterResolved, Valid

\* A process ends, refused or not.
LEMMA FinishKeeps ==
    ASSUME StartupInv, command # None, NEW v \in {"none", "ran", "refused"}, Finish(v),
           v = "ran" => Valid(command), v = "refused" => ~Valid(command)
    PROVE  StartupInv'
  <1> USE DEF StartupInv
  <1>1. UNCHANGED files /\ command \in Command
    BY DEF Finish, PlaceOK
  <1>2. /\ verdict' \in [Command -> {"none", "ran", "refused"}]
        /\ verdict'[command] = v
        /\ \A c \in Command \ {command} : verdict'[c] = verdict[c]
    BY <1>1 DEF Finish, VerdictOK
  <1>3. VerdictOK'
    BY <1>1, <1>2, FilesKept DEF VerdictOK
  <1>4. PlaceOK' /\ CheckedOK' /\ BuiltOK' /\ tasks' \subseteq Agent
    BY DEF Finish, PlaceOK, CheckedOK, BuiltOK, PC
  <1> QED
    BY <1>3, <1>4

\* A command goes on, with what it has checked.
LEMMA ProceedKeeps ==
    ASSUME StartupInv, command # None, NEW place \in PC \ {"idle", "running"},
           pc \notin {"build", "running"}, Proceed(place), CheckedOK',
           place = "router" => command # Start
    PROVE  StartupInv'
  <1> USE DEF StartupInv
  <1>1. UNCHANGED <<files, command, built, tasks, acted, verdict>> /\ pc' = place
    BY DEF Proceed
  <1>2. PlaceOK'
    BY <1>1 DEF PlaceOK
  <1>3. BuiltOK' /\ VerdictOK'
    BY <1>1, FilesKept DEF BuiltOK, BuiltRight, VerdictOK
  <1> QED
    BY <1>1, <1>2, <1>3

\* The agent a command refuses or is about is one it is for.
LEMMA ScopeLemma ==
    ASSUME command \in Command
    PROVE  /\ Scope(command) \subseteq Agent
           /\ command # Start => Scope(command) = {command}
  BY DEF Scope, Command, Start

LEMMA StartupInvCheck ==
    ASSUME StartupInv,
           ReadAgents \/ ReadServers \/ CheckTools \/ CheckRouter \/ ClearSentinels
             \/ OpenStores
    PROVE  StartupInv'
  <1> USE DEF StartupInv
  <1>1. /\ command # None /\ command \in Command
        /\ pc \in {"agents", "servers", "tools", "router", "clear", "open"}
    BY DEF PlaceOK, ReadAgents, ReadServers, CheckTools, CheckRouter, ClearSentinels,
           OpenStores, Check
  <1>2. CASE ReadAgents
    <2>1. CASE Finish("refused") /\ ~AgentsFileValid
      BY <1>1, <2>1, FinishKeeps DEF Valid
    <2>2. CASE Proceed("servers") /\ AgentsFileValid
      <3>1. CheckedOK'
        BY <2>2, FilesKept DEF Proceed, CheckedOK
      <3> QED
        BY <1>1, <2>2, <3>1, ProceedKeeps DEF PC
    <2> QED
      BY <1>2, <2>1, <2>2 DEF ReadAgents, Check
  <1>3. CASE ReadServers
    <2>1. CASE Finish("refused") /\ files.servers = Malformed
      BY <1>1, <2>1, FinishKeeps DEF Valid
    <2>2. CASE Proceed("tools") /\ mcp' = LoadedServers /\ files.servers # Malformed
      <3>1. CheckedOK'
        BY <1>3, <2>2, FilesKept DEF Proceed, CheckedOK, ReadServers
      <3> QED
        BY <1>1, <2>2, <3>1, ProceedKeeps DEF PC
    <2> QED
      BY <1>3, <2>1, <2>2 DEF ReadServers
  <1>4. CASE CheckTools
    <2> DEFINE holds == \A a \in Scope(command) :
                           files.section[a].tools \subseteq DOMAIN mcp
               next == IF command = Start THEN "clear" ELSE "router"
    <2>1. mcp = LoadedServers /\ AgentsFileValid /\ files.servers # Malformed
          /\ pc = "tools"
      BY <1>4 DEF CheckedOK, CheckTools, Check
    <2>2. CASE Finish("refused") /\ ~holds
      BY <1>1, <2>1, <2>2, FinishKeeps DEF Valid, Complete
    <2>3. CASE Proceed(next) /\ UNCHANGED mcp /\ holds
      <3>1. CheckedOK'
        BY <2>1, <2>3, FilesKept DEF Proceed, CheckedOK
      <3> QED
        BY <1>1, <2>1, <2>3, <3>1, ProceedKeeps DEF PC
    <2> QED
      BY <1>4, <2>2, <2>3 DEF CheckTools, Check
  <1>5. CASE CheckRouter
    <2>1. CASE Finish("refused") /\ ~RouterResolved(command)
      <3>1. command \in Scope(command)
        BY <1>1, <1>5, ScopeLemma DEF PlaceOK, CheckRouter, Check
      <3> QED
        BY <1>1, <2>1, <3>1, FinishKeeps DEF Valid, Complete
    <2>2. CASE Proceed("clear") /\ UNCHANGED mcp
      <3>1. CheckedOK'
        BY <1>5, <2>2, FilesKept DEF Proceed, CheckedOK, CheckRouter, Check
      <3> QED
        BY <1>1, <2>2, <3>1, ProceedKeeps DEF PC
    <2> QED
      BY <1>5, <2>1, <2>2 DEF CheckRouter, Check
  <1>6. CASE ClearSentinels
    <2>1. Proceed("open") /\ UNCHANGED mcp /\ pc = "clear"
      BY <1>6 DEF ClearSentinels
    <2>2. CheckedOK'
      BY <2>1, FilesKept DEF Proceed, CheckedOK
    <2> QED
      BY <1>1, <2>1, <2>2, ProceedKeeps DEF PC
  <1>7. CASE OpenStores
    <2>1. CASE Finish("none")
      BY <1>1, <2>1, FinishKeeps
    <2>2. CASE Proceed("build") /\ UNCHANGED mcp
      <3>1. CheckedOK'
        BY <1>7, <2>2, FilesKept DEF Proceed, CheckedOK, OpenStores
      <3> QED
        BY <1>1, <2>2, <3>1, ProceedKeeps DEF PC
    <2> QED
      BY <1>7, <2>1, <2>2 DEF OpenStores
  <1> QED
    BY <1>2, <1>3, <1>4, <1>5, <1>6, <1>7

\* An agent is constructed, with what the files give it.
LEMMA StartupInvBuild ==
    ASSUME StartupInv, NEW a \in Agent, Build(a)
    PROVE  StartupInv'
  <1> USE DEF StartupInv
  <1>1. /\ UNCHANGED <<files, command, pc, mcp, acted, verdict>>
        /\ pc = "build" /\ tasks' = tasks \cup {a} /\ CanBuild(a)
        /\ built' = [built EXCEPT ![a] = [s \in files.section[a].tools |-> mcp[s]]]
        /\ a \in Scope(command)
    BY DEF Build, Pending
  <1>2. files.section[a].tools \subseteq DOMAIN LoadedServers /\ mcp = LoadedServers
    BY <1>1 DEF CheckedOK
  <1>3. Complete(a)
    BY <1>1, <1>2 DEF CanBuild, Complete
  <1>4. \A s \in DOMAIN LoadedServers : LoadedServers[s] = Loaded(s)
    BY DEF LoadedServers
  <1>5. /\ built'[a] = [s \in files.section[a].tools |-> Loaded(s)]
        /\ \A b \in Agent \ {a} : built'[b] = built[b]
        /\ built' = [b \in Agent |-> built'[b]]
    <2>1. built = [b \in Agent |-> built[b]]
      BY DEF PlaceOK
    <2> QED
      BY <1>1, <1>2, <1>4, <2>1
  <1>6. BuiltOK'
    BY <1>1, <1>3, <1>5, FilesKept DEF BuiltOK, BuiltRight
  <1>7. PlaceOK'
    BY <1>1, <1>5 DEF PlaceOK
  <1>8. CheckedOK' /\ VerdictOK'
    BY <1>1, FilesKept DEF CheckedOK, VerdictOK, Scope
  <1> QED
    BY <1>1, <1>6, <1>7, <1>8

LEMMA StartupInvRest ==
    ASSUME StartupInv,
           \/ \E c \in Command : Execute(c)
           \/ \E a \in Agent : BuildFails(a) \/ Act(a)
           \/ Join \/ End \/ UNCHANGED vars
    PROVE  StartupInv'
  <1> USE DEF StartupInv
  <1>1. CASE \E c \in Command : Execute(c)
    <2>1. PICK c \in Command : Execute(c)
      BY <1>1
    <2>2. UNCHANGED <<files, mcp, built, tasks, acted, verdict>>
          /\ command = None /\ command' = c /\ pc' = "agents"
      BY <2>1 DEF Execute
    <2>3. c # None
      BY StartupAssumption DEF Command, Start
    <2>4. PlaceOK' /\ CheckedOK'
      BY <2>2, <2>3, FilesKept DEF PlaceOK, CheckedOK, PC
    <2>5. BuiltOK' /\ VerdictOK'
      BY <2>2, FilesKept DEF BuiltOK, BuiltRight, VerdictOK
    <2> QED
      BY <2>2, <2>4, <2>5
  <1>2. CASE \E a \in Agent : BuildFails(a)
    <2>1. PICK a \in Agent : BuildFails(a)
      BY <1>2
    <2>2. a \in Scope(command) /\ ~CanBuild(a) /\ Finish("refused") /\ pc = "build"
      BY <2>1 DEF BuildFails, Pending
    <2>3. ~Valid(command) /\ command # None
      BY <2>2 DEF CanBuild, Valid, Complete, PlaceOK
    <2> QED
      BY <2>2, <2>3, FinishKeeps
  <1>3. CASE \E a \in Agent : Act(a)
    <2>1. /\ UNCHANGED <<files, command, pc, mcp, built, tasks, verdict>>
          /\ pc = "running"
      BY <1>3 DEF Act
    <2>2. PlaceOK' /\ CheckedOK'
      BY <2>1, FilesKept DEF PlaceOK, CheckedOK, Scope
    <2>3. BuiltOK' /\ VerdictOK'
      BY <2>1, FilesKept DEF BuiltOK, BuiltRight, VerdictOK
    <2> QED
      BY <2>1, <2>2, <2>3
  <1>4. CASE Join
    <2>1. /\ UNCHANGED <<files, command, mcp, built, tasks, acted, verdict>>
          /\ pc = "build" /\ pc' = "running"
          /\ \A a \in Scope(command) : built[a] # None
      BY <1>4 DEF Join, Proceed
    <2>2. PlaceOK' /\ CheckedOK'
      BY <2>1, FilesKept DEF PlaceOK, CheckedOK, PC, Scope
    <2>3. BuiltOK' /\ VerdictOK'
      BY <2>1, FilesKept DEF BuiltOK, BuiltRight, VerdictOK
    <2> QED
      BY <2>1, <2>2, <2>3
  <1>5. CASE End
    <2>1. pc = "running" /\ Finish("ran")
      BY <1>5 DEF End
    <2>2. command \in Command /\ command # None
      BY <2>1 DEF PlaceOK
    <2>3. \A a \in Scope(command) : Complete(a)
      BY <2>1, <2>2, ScopeLemma DEF PlaceOK, BuiltOK, BuiltRight
    <2>4. Valid(command)
      BY <2>1, <2>3 DEF Valid, CheckedOK
    <2> QED
      BY <2>1, <2>2, <2>4, FinishKeeps
  <1>6. CASE UNCHANGED vars
    <2>1. UNCHANGED <<files, command, pc, mcp, built, tasks, acted, verdict>>
      BY <1>6 DEF vars
    <2>2. PlaceOK' /\ CheckedOK'
      BY <2>1, FilesKept DEF PlaceOK, CheckedOK, Scope
    <2>3. BuiltOK' /\ VerdictOK'
      BY <2>1, FilesKept DEF BuiltOK, BuiltRight, VerdictOK
    <2> QED
      BY <2>1, <2>2, <2>3
  <1> QED
    BY <1>1, <1>2, <1>3, <1>4, <1>5, <1>6

LEMMA StartupInvAlways == Spec => []StartupInv
  <1>1. StartupInv /\ [Next]_vars => StartupInv'
    <2> SUFFICES ASSUME StartupInv, [Next]_vars PROVE StartupInv'
      OBVIOUS
    <2> QED
      BY StartupInvCheck, StartupInvBuild, StartupInvRest DEF Next
  <1> QED
    BY <1>1, StartupInvInit, PTL DEF Spec

-----------------------------------------------------------------------------
\* No agent of `start` or `run` acts in a cluster that is not complete,
\* wherever the broken part is and in whatever order the agents are built:
\* the TaskGroup's body has no await.
THEOREM AllOrNothingCorrect == Spec => []AllOrNothing
  <1>1. StartupInv => AllOrNothing
    <2> SUFFICES ASSUME StartupInv, acted # {}, NEW a \in Scope(command)
                 PROVE  /\ built[a] # None
                        /\ DOMAIN built[a] = files.section[a].tools
                        /\ \A s \in DOMAIN built[a] : files.servers[s].command
                        /\ files.section[a].router # None
                              => files.router[files.section[a].router]
                                    \in {"keyword", "llm"}
      BY DEF AllOrNothing
    <2>1. pc = "running" /\ built[a] # None /\ a \in Agent
      BY ScopeLemma DEF StartupInv, PlaceOK
    <2>2. BuiltRight(a)
      BY <2>1 DEF StartupInv, BuiltOK
    <2>3. \A s \in DOMAIN LoadedServers : files.servers[s].command
      BY DEF LoadedServers
    <2> QED
      BY <2>1, <2>2, <2>3 DEF BuiltRight, Complete, RouterResolved
  <1> QED
    BY <1>1, StartupInvAlways, PTL

\* The environment of every server of every agent is the one written for it,
\* and a cluster with a secrets file gets nothing of the default cluster's:
\* mcp_secrets_path chooses one file, and _parse_server lets it win.
THEOREM SecretsStayCorrect == Spec => []SecretsStay
  <1>1. StartupInv => SecretsStay
    <2> SUFFICES ASSUME StartupInv, NEW a \in tasks, NEW s \in DOMAIN built[a],
                        NEW v \in Var
                 PROVE  LET own == files.secrets[files.cluster]
                            other == files.secrets[Default]
                            Has(content) ==
                                /\ content \notin {Missing, Malformed}
                                /\ s \in DOMAIN content /\ v \in content[s]
                        IN  /\ v \in DOMAIN built[a][s] <=>
                                  \/ v \in files.servers[s].env
                                  \/ Has(own)
                                  \/ own = Missing /\ Has(other)
                            /\ v \in DOMAIN built[a][s] =>
                                  built[a][s][v] =
                                      IF Has(own) THEN files.cluster
                                      ELSE IF own = Missing /\ Has(other)
                                           THEN Default
                                           ELSE "base"
      BY DEF SecretsStay
    <2>1. built[a][s] = Loaded(s)
      BY DEF StartupInv, BuiltOK, BuiltRight
    <2>2. v \in SecretVars(s) <=>
             LET content == files.secrets[SecretsCluster]
             IN  /\ content \notin {Missing, Malformed}
                 /\ s \in DOMAIN content /\ v \in content[s]
      BY DEF SecretVars
    <2>3. CASE files.secrets[files.cluster] # Missing
      BY <2>1, <2>2, <2>3 DEF Loaded, SecretsCluster
    <2>4. CASE files.secrets[files.cluster] = Missing
      BY <2>1, <2>2, <2>4 DEF Loaded, SecretsCluster
    <2> QED
      BY <2>3, <2>4
  <1> QED
    BY <1>1, StartupInvAlways, PTL

\* The two copies of the checks, in start.py and in run.py, agree on every
\* cluster: what `start` runs, `run` does not refuse, and what `start`
\* refuses, `run` refuses for some agent.
THEOREM SameVerdictCorrect == Spec => []SameVerdict
  <1>1. StartupInv => SameVerdict
    <2> SUFFICES ASSUME StartupInv PROVE SameVerdict
      OBVIOUS
    <2>1. Start \in Command /\ Agent \subseteq Command
      BY DEF Command
    <2>2. Scope(Start) = Agent /\ \A a \in Agent : a \in Scope(a)
      BY DEF Scope
    <2>3. \A c \in Command : Scope(c) \subseteq Agent
      BY DEF Scope, Command, Start
    <2>4. Valid(Start) => \A a \in Agent : Valid(a)
      BY <2>1, <2>2, <2>3 DEF Valid
    <2>5. (\A a \in Agent : Valid(a)) => Valid(Start)
      BY <2>2, StartupAssumption DEF Valid
    <2> QED
      BY <2>1, <2>4, <2>5 DEF StartupInv, VerdictOK, SameVerdict
  <1> QED
    BY <1>1, StartupInvAlways, PTL

=============================================================================
