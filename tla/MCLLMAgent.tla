----------------------------- MODULE MCLLMAgent ------------------------------
(***************************************************************************)
(* Agents for TLC: alfa has tools and beta a router (or tools too), both   *)
(* on one thread.                                                          *)
(***************************************************************************)
EXTENDS LLMAgent, TLC

CONSTANTS alfa, beta, t1

ThreeMessages == 1 .. 3
ForOf == 1 :> alfa @@ 2 :> beta @@ 3 :> beta
OnOf == 1 :> t1 @@ 2 :> t1 @@ 3 :> t1
BetaRoutes == alfa :> {} @@ beta :> {"gamma", "human"}

=============================================================================
