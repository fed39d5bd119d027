------------------------------ MODULE MCCluster ------------------------------
(***************************************************************************)
(* Deployments for TLC: the values of the function constants of Cluster.   *)
(***************************************************************************)
EXTENDS DeliveryRefinement, TLC

CONSTANTS alfa, beta, r1, r2, r3, p1, p2, p3

Agents == {alfa, beta}
Names == Agents \cup {Human}

\* One runner for each agent.
PairAgentOf == r1 :> alfa @@ r2 :> beta

\* `start` with both agents in one TaskGroup.
Together == r1 :> p1 @@ r2 :> p1
StartKind == p1 :> "start"

\* `run alfa` in two terminals, and `run beta`.
TwinAgentOf == r1 :> alfa @@ r2 :> alfa @@ r3 :> beta
Apart == r1 :> p1 @@ r2 :> p2 @@ r3 :> p3
RunKind == p1 :> "run" @@ p2 :> "run" @@ p3 :> "run"

\* `run alfa`, and `start` with both agents beside it.
Beside == r1 :> p1 @@ r2 :> p2 @@ r3 :> p2
MixedKind == p1 :> "run" @@ p2 :> "start"

\* agents.toml: alfa -> beta -> human, and an alfa whose router sends to itself
\* or to beta, which answers to alfa.
Pipeline == alfa :> beta @@ beta :> Human
RouterToo == alfa :> NoAgent @@ beta :> alfa
NoRouter == alfa :> {} @@ beta :> {}
SelfRouter == alfa :> {alfa, beta} @@ beta :> {}

\* Two messages of the human and their replies are at most six rows.
SixRows == 1 .. 6

\* A message of the human, the replies of two runners to it and one to each.
EventuallyProcessed == EventuallyProcessedUpTo(5)

=============================================================================
