--------------------------- MODULE SharedConnection ---------------------------
(***************************************************************************)
(* One SQLiteTransport and the tasks of `multiagent start` that share it   *)
(* (src/multiagent/transport/sqlite.py), as steps between its awaits.      *)
(*                                                                         *)
(* The tasks begin together: each one finds _conn unset before the first   *)
(* connection is there, so each opens one, and the last assignment wins.   *)
(* A statement works on the connection its call has got; statements of     *)
(* different tasks on one connection are one transaction, which the next   *)
(* commit of any of them ends.  pc[t] names what task t does next:         *)
(*                                                                         *)
(*   connecting  aiosqlite.connect is awaited                              *)
(*   schema      the connection is cached, its PRAGMAs are executed        *)
(*   script      the schema script is in flight on a connection            *)
(*   applied     the script is done, the task is about to go on            *)
(*   out         the task is between two calls                             *)
(*   get         a call looks for the cached connection                    *)
(*   known       known_agents has its query in flight                      *)
(*   select      receive, first statement                                  *)
(*   insert      send has INSERTs to do                                    *)
(*   update      the UPDATE of receive or ack                              *)
(*   commit      the COMMIT of the call                                    *)
(*   gone        the task was cancelled                                    *)
(***************************************************************************)
EXTENDS Naturals, Sequences, FiniteSets

CONSTANTS
    Task,       \* the runner tasks of one process
    Name,       \* agent names
    NameOf,     \* NameOf[t]: the inbox task t receives from
    Lists,      \* the recipients a message can have, as sequences
    Outside,    \* another process, which writes to the same table
    None,       \* no connection, or no row
    MaxSends    \* bound: sends of one task

ASSUME ConnectionAssumption ==
    /\ NameOf \in [Task -> Name]
    /\ \A t, u \in Task : NameOf[t] = NameOf[u] => t = u
    /\ IsFiniteSet(Name)
    /\ Lists \subseteq Seq(Name)
    /\ Outside \notin Task
    /\ MaxSends \in Nat

Conn == Task    \* a connection is named after the task that opened it

\* The pos-th row of the no-th send of task or process by.
Row == [by : Task \cup {Outside}, no : Nat, pos : Nat, to : Name]

Call == {"receive", "send", "broadcast", "ack"}

ASSUME NoneAssumption == None \notin Task /\ None \notin Row /\ None \notin Call

VARIABLES
    cached,     \* self._conn
    table,      \* committed rows
    processed,  \* committed rows with processed_at set
    open,       \* open[c]: what the transaction of connection c has changed
    pc,         \* where task t is
    call,       \* call[t]: the operation task t is in
    conn,       \* the local variable conn of the call
    list,       \* list[t]: the recipients of the last send of task t
    sends,      \* sends[t]: how many sends task t has begun
    done,       \* done[t]: how many rows of the send are inserted
    held,       \* held[t]: the row task t has received and not acknowledged
    acked       \* rows whose ack has returned

dbVars == <<table, processed, open>>
taskVars == <<pc, call, conn, list, sends, done, held, acked>>
vars == <<cached, dbVars, taskVars>>

PC == {"connecting", "schema", "script", "applied", "out", "get", "known",
       "select", "insert", "update", "commit", "gone"}

\* Where a statement is in flight, on a connection.
Executing == {"script", "known", "select", "insert", "update", "commit"}

\* An UPDATE of receive changes nothing that is modelled, but it is a write:
\* touched[c] holds the rows it is for.
Transaction == [rows : SUBSET Row, touched : SUBSET Row, acks : SUBSET Row]
Nothing == [rows |-> {}, touched |-> {}, acks |-> {}]

TypeOK ==
    /\ cached \in Conn \cup {None}
    /\ table \subseteq Row
    /\ processed \subseteq table
    /\ open \in [Conn -> Transaction]
    /\ pc \in [Task -> PC]
    /\ call \in [Task -> Call \cup {None}]
    /\ conn \in [Task -> Conn \cup {None}]
    /\ \A t \in Task : pc[t] \in Executing => conn[t] # None
    /\ list \in [Task -> Seq(Name)]
    /\ sends \in [Task -> Nat]
    /\ done \in [Task -> Nat]
    /\ held \in [Task -> Row \cup {None}]
    /\ acked \subseteq Row

\* Every task is in the _get_connection of its first receive.
Init ==
    /\ cached = None
    /\ table = {}
    /\ processed = {}
    /\ open = [c \in Conn |-> Nothing]
    /\ pc = [t \in Task |-> "connecting"]
    /\ call = [t \in Task |-> "receive"]
    /\ conn = [t \in Task |-> None]
    /\ list = [t \in Task |-> << >>]
    /\ sends = [t \in Task |-> 0]
    /\ done = [t \in Task |-> 0]
    /\ held = [t \in Task |-> None]
    /\ acked = {}

Goto(t, label) == pc' = [pc EXCEPT ![t] = label]

\* A call returns: its locals are gone.
Return(t) ==
    /\ Goto(t, "out")
    /\ call' = [call EXCEPT ![t] = None]
    /\ conn' = [conn EXCEPT ![t] = None]
    /\ done' = [done EXCEPT ![t] = 0]
    /\ IF call[t] = "ack"
       THEN /\ acked' = acked \cup {held[t]}
            /\ held' = [held EXCEPT ![t] = None]
       ELSE UNCHANGED <<acked, held>>

-----------------------------------------------------------------------------
\* What a connection does.

\* A statement sees the transaction of its own connection.
Visible(c) == table \cup open[c].rows
VisiblyProcessed(c) == processed \cup open[c].acks

\* One writer at a time: the write lock is another connection's.
CanWrite(c) == \A d \in Conn \ {c} : open[d] = Nothing

\* Commit everything that is uncommitted on c, whoever did it.
CommitOn(c) ==
    /\ table' = table \cup open[c].rows
    /\ processed' = processed \cup open[c].acks
    /\ open' = [open EXCEPT ![c] = Nothing]

-----------------------------------------------------------------------------
\* _get_connection

\* Where a call goes on once it has a connection.
FirstStatement(o) ==
    CASE o = "receive" -> "select"
      [] o = "broadcast" -> "known"
      [] o = "send" -> "insert"
      [] o = "ack" -> "update"

\* Defective variant: the connection is opened and not cached.
ConnectedUncached(t) ==
    /\ pc[t] = "connecting"
    /\ Goto(t, "schema")
    /\ UNCHANGED <<cached, dbVars, call, conn, list, sends, done, held, acked>>

Connected(t) ==
    /\ pc[t] = "connecting"
    /\ cached' = t
    /\ Goto(t, "schema")
    /\ UNCHANGED <<dbVars, call, conn, list, sends, done, held, acked>>

\* _ensure_schema takes the connection that is cached when it is called, ...
EnsureSchema(t) ==
    /\ pc[t] = "schema"
    /\ conn' = [conn EXCEPT ![t] = cached]
    /\ Goto(t, "script")
    /\ UNCHANGED <<cached, dbVars, call, list, sends, done, held, acked>>

\* ... executescript commits what is open on it, whoever did that, ...
ExecuteScript(t) ==
    /\ pc[t] = "script"
    /\ CommitOn(conn[t])
    /\ Goto(t, "applied")
    /\ UNCHANGED <<cached, call, conn, list, sends, done, held, acked>>

\* ... and `return self._conn` reads the attribute again.
SchemaApplied(t) ==
    /\ pc[t] = "applied"
    /\ conn' = [conn EXCEPT ![t] = cached]
    /\ Goto(t, FirstStatement(call[t]))
    /\ UNCHANGED <<cached, dbVars, call, list, sends, done, held, acked>>

\* Defective variant: every task goes on with the connection it opened.
UseOwn(t) ==
    /\ pc[t] = "get"
    /\ conn' = [conn EXCEPT ![t] = t]
    /\ Goto(t, FirstStatement(call[t]))
    /\ UNCHANGED <<cached, dbVars, call, list, sends, done, held, acked>>

UseCached(t) ==
    /\ pc[t] = "get"
    /\ conn' = [conn EXCEPT ![t] = cached]
    /\ Goto(t, FirstStatement(call[t]))
    /\ UNCHANGED <<cached, dbVars, call, list, sends, done, held, acked>>

-----------------------------------------------------------------------------
\* The calls of a runner task.

\* receive, unless a message is held; the runner processes one at a time.
CallReceive(t) ==
    /\ pc[t] = "out"
    /\ held[t] = None
    /\ call' = [call EXCEPT ![t] = "receive"]
    /\ Goto(t, "get")
    /\ UNCHANGED <<cached, dbVars, conn, list, sends, done, held, acked>>

CallAck(t) ==
    /\ pc[t] = "out"
    /\ held[t] # None
    /\ call' = [call EXCEPT ![t] = "ack"]
    /\ Goto(t, "get")
    /\ UNCHANGED <<cached, dbVars, conn, list, sends, done, held, acked>>

BeginSend(t, o, recipients) ==
    /\ pc[t] = "out"
    /\ sends[t] < MaxSends
    /\ call' = [call EXCEPT ![t] = o]
    /\ list' = [list EXCEPT ![t] = recipients]
    /\ sends' = [sends EXCEPT ![t] = @ + 1]
    /\ done' = [done EXCEPT ![t] = 0]
    /\ Goto(t, "get")
    /\ UNCHANGED <<cached, dbVars, conn, held, acked>>

CallSend(t) == \E recipients \in Lists : BeginSend(t, "send", recipients)

CallBroadcast(t) == BeginSend(t, "broadcast", << >>)

-----------------------------------------------------------------------------
\* receive

Inbox(t) == {r \in Visible(conn[t]) \ VisiblyProcessed(conn[t]) : r.to = NameOf[t]}

\* Which of the rows is the oldest is not modelled: any of them may be.
Select(t) ==
    /\ pc[t] = "select"
    /\ IF Inbox(t) = {}
       THEN Return(t)
       ELSE /\ Goto(t, "update")
            /\ \E r \in Inbox(t) : held' = [held EXCEPT ![t] = r]
            /\ UNCHANGED <<call, conn, done, acked>>
    /\ UNCHANGED <<cached, dbVars, list, sends>>

\* UPDATE received_at, or UPDATE processed_at.
Update(t) ==
    /\ pc[t] = "update"
    /\ CanWrite(conn[t])
    /\ open' = IF call[t] = "ack"
               THEN [open EXCEPT ![conn[t]].acks = @ \cup {held[t]}]
               ELSE [open EXCEPT ![conn[t]].touched = @ \cup {held[t]}]
    /\ Goto(t, "commit")
    /\ UNCHANGED <<cached, table, processed, call, conn, list, sends, done,
                   held, acked>>

-----------------------------------------------------------------------------
\* send

\* known_agents, for "*".  Its recipients are the names in the to_agent column
\* as this connection sees it, in some order; send then gets a connection again.
KnownNames(c) == {r.to : r \in Visible(c)}

KnownAgents(t) ==
    /\ pc[t] = "known"
    /\ LET names == KnownNames(conn[t])
       IN  \/ /\ names = {}
              /\ Return(t)
              /\ UNCHANGED list
           \/ \E recipients \in [1 .. Cardinality(names) -> names] :
                 /\ names # {}
                 /\ \A n \in names : \E k \in DOMAIN recipients : recipients[k] = n
                 /\ list' = [list EXCEPT ![t] = recipients]
                 /\ call' = [call EXCEPT ![t] = "send"]
                 /\ Goto(t, "get")
                 /\ UNCHANGED <<conn, done, held, acked>>
    /\ UNCHANGED <<cached, dbVars, sends>>

\* The row of recipient k of the send task t is in, or was in last.
RowOf(t, k) == [by |-> t, no |-> sends[t], pos |-> k, to |-> list[t][k]]

\* INSERT for the next recipient.
Insert(t) ==
    /\ pc[t] = "insert"
    /\ done[t] < Len(list[t])
    /\ CanWrite(conn[t])
    /\ open' = [open EXCEPT ![conn[t]].rows = @ \cup {RowOf(t, done[t] + 1)}]
    /\ done' = [done EXCEPT ![t] = @ + 1]
    /\ UNCHANGED <<cached, table, processed, pc, call, conn, list, sends, held,
                   acked>>

AllInserted(t) ==
    /\ pc[t] = "insert"
    /\ done[t] = Len(list[t])
    /\ Goto(t, "commit")
    /\ UNCHANGED <<cached, dbVars, call, conn, list, sends, done, held, acked>>

-----------------------------------------------------------------------------
\* The end of a call.

\* Defective variants of Commit: on the connection cached by now, and left
\* to whoever commits next.
CommitCached(t) ==
    /\ pc[t] = "commit"
    /\ CommitOn(cached)
    /\ Return(t)
    /\ UNCHANGED <<cached, list, sends>>

CommitSendsOnly(t) ==
    /\ pc[t] = "commit"
    /\ IF call[t] = "send" THEN CommitOn(conn[t]) ELSE UNCHANGED dbVars
    /\ Return(t)
    /\ UNCHANGED <<cached, list, sends>>

Commit(t) ==
    /\ pc[t] = "commit"
    /\ CommitOn(conn[t])
    /\ Return(t)
    /\ UNCHANGED <<cached, list, sends>>

-----------------------------------------------------------------------------
\* The end of the process.

\* A task failed or Ctrl-C came in: the TaskGroup cancels every task, where
\* it is, and no task does anything more.
Abort ==
    /\ pc' = [t \in Task |-> "gone"]
    /\ call' = [t \in Task |-> None]
    /\ conn' = [t \in Task |-> None]
    /\ done' = [t \in Task |-> 0]
    /\ UNCHANGED <<cached, dbVars, list, sends, held, acked>>

\* The finally block of `start`: what is open on the connection is rolled back.
Close ==
    /\ \A t \in Task : pc[t] = "gone"
    /\ cached # None
    /\ cached' = None
    /\ open' = [open EXCEPT ![cached] = Nothing]
    /\ UNCHANGED <<table, processed, taskVars>>

\* Another process sends one message, in a transaction of its own.
OutsideRow(n) == [by |-> Outside, no |-> 1, pos |-> 1, to |-> n]

OutsideSend(n) ==
    /\ \A c \in Conn : open[c] = Nothing
    /\ \A r \in table : r.by # Outside
    /\ table' = table \cup {OutsideRow(n)}
    /\ UNCHANGED <<cached, processed, open, taskVars>>

-----------------------------------------------------------------------------
TaskStep(t) ==
    \/ Connected(t) \/ EnsureSchema(t) \/ ExecuteScript(t) \/ SchemaApplied(t)
    \/ UseCached(t)
    \/ Select(t) \/ Update(t) \/ KnownAgents(t)
    \/ Insert(t) \/ AllInserted(t) \/ Commit(t)

TaskCall(t) ==
    \/ CallReceive(t)
    \/ CallAck(t)
    \/ CallSend(t)
    \/ CallBroadcast(t)

Next ==
    \/ \E t \in Task : TaskStep(t) \/ TaskCall(t)
    \/ Abort
    \/ Close
    \/ \E n \in Name : OutsideSend(n)

Spec == Init /\ [][Next]_vars

\* The event loop resumes a task whose statement is done.
FairSpec == Spec /\ \A t \in Task : WF_vars(TaskStep(t))

-----------------------------------------------------------------------------
(***************************************************************************)
(* Properties.                                                             *)
(***************************************************************************)

\* When a call has returned, everything it did is committed: one row for
\* each recipient of a send, the row that receive handed out (which may have
\* been another task's uncommitted row when it was selected), and every ack.
\* _get_connection may have replaced the connection in the middle of a call.
ReturnedIsStored ==
    /\ \A t \in Task : pc[t] = "out" =>
          /\ \A k \in DOMAIN list[t] : RowOf(t, k) \in table
          /\ held[t] # None => held[t] \in table
    /\ acked \subseteq processed

\* A transaction that is open belongs to a call that is going to commit it:
\* nothing is left for a later commit to publish or a crash to undo, and no
\* call returns with the write lock.
NoOrphanTransaction ==
    \A c \in Conn :
        open[c] # Nothing =>
            \E t \in Task : \/ conn[t] = c /\ pc[t] \in {"insert", "commit"}
                            \/ pc[t] = "gone"

\* Every call comes to its end, although a task may have to wait for the
\* transaction another one has open on an earlier connection.
CallsReturn ==
    \A t \in Task : (pc[t] = "get") ~> (pc[t] \in {"out", "gone"})

\* The tasks end up on one connection, whichever was assigned last.
OneConnection ==
    <>[](\A t, u \in Task :
             {pc[t], pc[u]} \subseteq {"select", "known", "insert", "update", "commit"}
                 => conn[t] = conn[u])

=============================================================================
