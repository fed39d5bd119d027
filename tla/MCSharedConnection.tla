------------------------- MODULE MCSharedConnection -------------------------
(***************************************************************************)
(* The transport of a `start` with two agents, for TLC.                    *)
(***************************************************************************)
EXTENDS SharedConnection, TLC

CONSTANTS t1, t2, alfa, beta

InboxOf == t1 :> alfa @@ t2 :> beta

\* A message to a list, and one to nobody.
BothOrNobody == {<< >>, <<alfa, beta>>}

=============================================================================
