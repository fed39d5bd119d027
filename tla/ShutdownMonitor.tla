--------------------------- MODULE ShutdownMonitor ---------------------------
(***************************************************************************)
(* The sentinel files of src/multiagent/core/shutdown.py: .stop asks every *)
(* agent to stop, .stop.<agent> one of them.  The files live in the data   *)
(* directory, shared by every process and by the stop command.             *)
(***************************************************************************)
CONSTANTS
    Agent,      \* agent names
    Everyone    \* stands for the global sentinel .stop

ASSUME EveryoneAssumption == Everyone \notin Agent

VARIABLE sentinels      \* the sentinel files that exist

Sentinel == Agent \cup {Everyone}

MonitorTypeOK == sentinels \subseteq Sentinel

MonitorInit == sentinels = {}

ShouldStop(a) == Everyone \in sentinels \/ a \in sentinels

RequestStop(s) == sentinels' = sentinels \cup {s}

\* clear(agent_name): only that agent's file; the global one stays.
ClearOne(a) == sentinels' = sentinels \ {a}

\* clear(): the global file and every per-agent file.
ClearAll == sentinels' = {}

=============================================================================
