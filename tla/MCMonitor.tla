------------------------------ MODULE MCMonitor ------------------------------
(***************************************************************************)
(* A monitor of a cluster with two threads, for TLC.                       *)
(***************************************************************************)
EXTENDS Monitor

CONSTANTS x, y, alfa, beta

\* alfa writes to the human on one thread, beta to alfa on the other.
TwoAgents == {[thread |-> x, from |-> alfa, to |-> Human],
              [thread |-> y, from |-> beta, to |-> alfa]}

\* Both threads are there; y is the second in the list.
BothThreads == <<[thread |-> y, from |-> beta, to |-> alfa],
                 [thread |-> x, from |-> alfa, to |-> Human]>>

\* The human readdresses the form.
ToBeta == {[to |-> beta, thread |-> y]}

=============================================================================
