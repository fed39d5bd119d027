--------------------------- MODULE SQLiteTransport ---------------------------
(***************************************************************************)
(* The message table of src/multiagent/transport/sqlite.py.                *)
(*                                                                         *)
(* A row is written once and only its two timestamp columns change, so the *)
(* immutable part of every Message ever constructed is kept in the log     *)
(* msgs, in the order of created_at, and each column is the set of rows    *)
(* where it is set.  A Message is stamped with created_at when it is       *)
(* constructed and becomes a row when send commits, which for writers in   *)
(* several processes is another order: a row in msgs and not in stored is  *)
(* constructed but not (or never) committed.                               *)
(***************************************************************************)
EXTENDS Naturals, Sequences, FiniteSets

CONSTANTS
    Name,       \* every value of to_agent and from_agent
    Thread      \* thread_id values

VARIABLES
    msgs,       \* envelopes in the order of created_at; the index stands for id
    stored,     \* rows committed by send
    received,   \* rows with received_at set
    processed   \* rows with processed_at set

transportVars == <<msgs, stored, received, processed>>

NoParent == 0   \* parent_id IS NULL

Envelope == [from : Name, to : Name, thread : Thread, parent : Nat]

TransportTypeOK ==
    /\ msgs \in Seq(Envelope)
    /\ stored \subseteq DOMAIN msgs
    /\ received \subseteq stored
    /\ processed \subseteq stored

TransportInit ==
    /\ msgs = << >>
    /\ stored = {}
    /\ received = {}
    /\ processed = {}

-----------------------------------------------------------------------------
\* Defective variants of the queries and statements below.  No specification
\* uses them: a property that a variant does not violate would say nothing.

InboxUncommitted(n) == {i \in DOMAIN msgs \ processed : msgs[i].to = n}
InboxWithProcessed(n) == {i \in stored : msgs[i].to = n}
InboxNeverReceived(n) == {i \in stored \ (processed \cup received) : msgs[i].to = n}
NewestInInbox(n, i) ==
    /\ i \in {k \in stored \ processed : msgs[k].to = n}
    /\ \A j \in stored \ processed : msgs[j].to = n => i >= j
ThreadTailLonger(t, k) ==
    {i \in stored : /\ msgs[i].thread = t
                    /\ Cardinality({j \in stored : msgs[j].thread = t /\ j > i}) <= k}
AckNotCommitted(i) == processed' = processed \ {i}

-----------------------------------------------------------------------------
\* The queries.

\* WHERE to_agent = n AND processed_at IS NULL
Inbox(n) == {i \in stored \ processed : msgs[i].to = n}

\* ORDER BY created_at ASC LIMIT 1
OldestInInbox(n, i) ==
    /\ i \in Inbox(n)
    /\ \A j \in Inbox(n) : i <= j

OnThread(t) == {i \in stored : msgs[i].thread = t}

\* thread_messages_tail: ORDER BY created_at DESC LIMIT k
ThreadTail(t, k) ==
    {i \in OnThread(t) : Cardinality({j \in OnThread(t) : j > i}) < k}

ThreadCount(t) == Cardinality(OnThread(t))

-----------------------------------------------------------------------------
\* The statements.

\* Message(...): the constructor stamps created_at.
Compose(env) == msgs' = Append(msgs, env)

\* send, one recipient: INSERT and COMMIT.
Store(i) == stored' = stored \cup {i}

\* receive, second statement: UPDATE ... SET received_at.  It claims nothing.
MarkReceived(i) == received' = received \cup {i}

\* ack: UPDATE ... SET processed_at, whatever its value was.
Ack(i) == processed' = processed \cup {i}

=============================================================================
