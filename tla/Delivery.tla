------------------------------- MODULE Delivery ------------------------------
(***************************************************************************)
(* What the message system promises, without transport, runners or         *)
(* processes.  A message becomes visible; the agent it is for consumes it  *)
(* once; a consumed message may be owed a reply, which is then sent once   *)
(* or forgotten, and a forgotten one is never sent.                        *)
(***************************************************************************)
EXTENDS Naturals

CONSTANT Message        \* message identifiers

VARIABLES
    visible,    \* messages in the table
    consumed,   \* messages that have been acknowledged
    owed,       \* consumed messages whose reply is still to be sent
    answered    \* messages whose reply is visible

deliveryVars == <<visible, consumed, owed, answered>>

DInit ==
    /\ visible = {}
    /\ consumed = {}
    /\ owed = {}
    /\ answered = {}

\* A message that replies to nothing.
Post(m) ==
    /\ m \in Message \ visible
    /\ visible' = visible \cup {m}
    /\ UNCHANGED <<consumed, owed, answered>>

\* Consumed exactly once, with or without a reply to follow.
Consume(m) ==
    /\ m \in visible \ consumed
    /\ consumed' = consumed \cup {m}
    /\ owed' \in {owed, owed \cup {m}}
    /\ UNCHANGED <<visible, answered>>

\* The reply c to m appears: m was owed one and is no longer.
Respond(m, c) ==
    /\ m \in owed
    /\ c \in Message \ visible
    /\ visible' = visible \cup {c}
    /\ answered' = answered \cup {m}
    /\ owed' = owed \ {m}
    /\ UNCHANGED consumed

\* Suppressed by a termination check, or lost with the process.
Forget(S) ==
    /\ S # {}
    /\ S \subseteq owed
    /\ owed' = owed \ S
    /\ UNCHANGED <<visible, consumed, answered>>

DNext ==
    \/ \E m \in Message : Post(m) \/ Consume(m)
    \/ \E m, c \in Message : Respond(m, c)
    \/ \E S \in SUBSET owed : Forget(S)

DSpec == DInit /\ [][DNext]_deliveryVars

\* Nothing is owed a reply it already has: between ack and send a runner
\* works for a reply nobody else has sent.
OwedOnce ==
    /\ owed \subseteq consumed \ answered
    /\ answered \subseteq consumed
    /\ consumed \subseteq visible

=============================================================================
