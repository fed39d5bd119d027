--------------------------- MODULE MCHumanConsole ----------------------------
(***************************************************************************)
(* Two chats, on a thread each, and a listener on the first of them, for   *)
(* TLC.  alfa answers itself or through beta.                              *)
(***************************************************************************)
EXTENDS HumanConsole, TLC

CONSTANTS c1, c2, l1, t1, t2, alfa, beta

ThreadsOf == c1 :> t1 @@ c2 :> t2
AgentsOf == c1 :> alfa @@ c2 :> beta
Answering == alfa :> {beta, human} @@ beta :> {human}
Filters == l1 :> {t1}

\* The questions, and what alfa and beta write on them.
RepliesSeen == RepliesSeenUpTo(3 * MaxQuestions)

=============================================================================
