--------------------------- MODULE ConnectionProofs ---------------------------
(***************************************************************************)
(* Theorems about SharedConnection, for every set of tasks, agents and     *)
(* recipient lists and any number of sends.                                *)
(***************************************************************************)
EXTENDS SharedConnection, SequenceTheorems, FiniteSetTheorems, TLAPS

\* A row that the connection of t sees.
Stored(t, r) == r \in table \cup open[conn[t]].rows

\* Which call is where, and from where on it has a connection.
PlaceOK(t) ==
    /\ pc[t] # "connecting" => cached # None
    /\ pc[t] \in Executing => conn[t] \in Conn
    /\ pc[t] \in {"connecting", "schema", "script", "applied", "select"} =>
          call[t] = "receive"
    /\ pc[t] = "out" => call[t] = None
    /\ pc[t] = "get" => call[t] \in Call
    /\ pc[t] = "known" => call[t] = "broadcast"
    /\ pc[t] = "insert" => call[t] = "send"
    /\ pc[t] = "update" => call[t] \in {"receive", "ack"}
    /\ pc[t] = "commit" => call[t] \in {"receive", "send", "ack"}

\* The rows of a send are on its connection while it is under way, and in the
\* table from then on.
SendOK(t) ==
    /\ call[t] \notin {"send", "broadcast"} =>
          \A k \in DOMAIN list[t] : RowOf(t, k) \in table
    /\ call[t] = "broadcast" => list[t] = << >> /\ done[t] = 0
    /\ call[t] = "send" /\ pc[t] = "get" => done[t] = 0
    /\ call[t] = "send" /\ pc[t] \in {"insert", "commit"} =>
          /\ done[t] <= Len(list[t])
          /\ \A k \in 1 .. done[t] : Stored(t, RowOf(t, k))
          /\ pc[t] = "commit" => done[t] = Len(list[t])

\* So is the row a task has received, which may be another's, and its ack.
ReceiveOK(t) ==
    /\ call[t] # "receive" => held[t] = None \/ held[t] \in table
    /\ call[t] = "ack" => held[t] # None
    /\ call[t] = "receive" /\ pc[t] \notin {"update", "commit"} => held[t] = None
    /\ call[t] = "receive" /\ pc[t] \in {"update", "commit"} => Stored(t, held[t])
    /\ call[t] = "ack" /\ pc[t] = "commit" =>
          held[t] \in processed \cup open[conn[t]].acks

TaskOK(t) == pc[t] # "gone" => PlaceOK(t) /\ SendOK(t) /\ ReceiveOK(t)

AcksOK == acked \subseteq processed /\ \A c \in Conn : open[c].acks \subseteq table

\* The inductive invariant.
ConnInv == TypeOK /\ AcksOK /\ NoOrphanTransaction /\ \A t \in Task : TaskOK(t)

\* A step that takes nothing out of the table, or out of a transaction unless
\* it is committed.
DbGrows ==
    /\ table \subseteq table' /\ processed \subseteq processed'
    /\ \A c \in Conn : /\ open[c].rows \subseteq table' \cup open'[c].rows
                       /\ open[c].acks \subseteq processed' \cup open'[c].acks
    /\ cached # None => cached' # None

SameLocals(t) ==
    /\ pc'[t] = pc[t] /\ call'[t] = call[t] /\ conn'[t] = conn[t]
    /\ list'[t] = list[t] /\ sends'[t] = sends[t] /\ done'[t] = done[t]
    /\ held'[t] = held[t]

-----------------------------------------------------------------------------
LEMMA ConnInvInit == Init => ConnInv
  <1> SUFFICES ASSUME Init PROVE ConnInv
    OBVIOUS
  <1>1. TypeOK
    BY EmptySeq DEF Init, TypeOK, Executing, Conn, PC, Call, Nothing, Transaction
  <1>2. AcksOK /\ NoOrphanTransaction
    BY DEF Init, AcksOK, NoOrphanTransaction, Nothing, Conn
  <1>3. ASSUME NEW t \in Task PROVE TaskOK(t)
    <2>1. DOMAIN list[t] = {} /\ pc[t] = "connecting" /\ call[t] = "receive"
      BY EmptySeq DEF Init
    <2>2. held[t] = None
      BY DEF Init
    <2> QED
      BY <2>1, <2>2 DEF TaskOK, PlaceOK, Executing, SendOK, ReceiveOK
  <1> QED
    BY <1>1, <1>2, <1>3 DEF ConnInv

\* A task that does nothing.
LEMMA TaskKept ==
    ASSUME NEW t \in Task, TaskOK(t), SameLocals(t), DbGrows
    PROVE  TaskOK(t)'
  <1> SUFFICES ASSUME pc[t] # "gone" PROVE (PlaceOK(t) /\ SendOK(t) /\ ReceiveOK(t))'
    BY DEF TaskOK, SameLocals
  <1>1. PlaceOK(t) /\ SendOK(t) /\ ReceiveOK(t)
    BY DEF TaskOK
  <1>2. PlaceOK(t)'
    BY <1>1 DEF PlaceOK, Executing, SameLocals, DbGrows
  <1>3. \A k : RowOf(t, k)' = RowOf(t, k)
    BY DEF RowOf, SameLocals
  <1>4. conn[t] \in Conn => \A r : Stored(t, r) => Stored(t, r)'
    BY DEF Stored, SameLocals, DbGrows
  <1>5. SendOK(t)'
    <2>1. call[t] = "send" /\ pc[t] \in {"insert", "commit"} => conn[t] \in Conn
      BY <1>1 DEF PlaceOK, Executing
    <2>2. call[t] = "send" /\ pc[t] \in {"insert", "commit"} =>
             \A k \in 1 .. done[t] : Stored(t, RowOf(t, k))'
      BY <1>1, <1>3, <1>4, <2>1 DEF SendOK, Stored
    <2>3. call[t] \notin {"send", "broadcast"} =>
             \A k \in DOMAIN list[t] : RowOf(t, k)' \in table'
      BY <1>1, <1>3 DEF SendOK, DbGrows
    <2> QED
      BY <1>1, <2>2, <2>3 DEF SendOK, SameLocals
  <1>6. ReceiveOK(t)'
    BY <1>1, <1>4 DEF ReceiveOK, PlaceOK, Executing, SameLocals, DbGrows, Stored
  <1> QED
    BY <1>2, <1>5, <1>6

\* A step of one task.
LEMMA StepKeeps ==
    ASSUME ConnInv, NEW t \in Task, DbGrows, \A u \in Task \ {t} : SameLocals(u),
           TypeOK', AcksOK', NoOrphanTransaction', TaskOK(t)'
    PROVE  ConnInv'
  BY TaskKept DEF ConnInv

\* A step that leaves the table and every transaction alone, of a task that has
\* no transaction to commit.
LEMMA QuietKeeps ==
    ASSUME ConnInv, NEW t \in Task, UNCHANGED dbVars, acked' = acked,
           cached # None => cached' # None, \A u \in Task \ {t} : SameLocals(u),
           pc[t] # "gone",
           pc[t] \notin {"insert", "commit"} \/ (pc'[t] = "commit" /\ conn' = conn),
           TypeOK', TaskOK(t)'
    PROVE  ConnInv'
  <1>1. DbGrows
    BY DEF DbGrows, dbVars
  <1>2. AcksOK'
    BY DEF ConnInv, AcksOK, dbVars
  <1>3. NoOrphanTransaction'
    <2> SUFFICES ASSUME NEW c \in Conn, open[c] # Nothing
                 PROVE  \E u \in Task : \/ conn'[u] = c /\ pc'[u] \in {"insert", "commit"}
                                        \/ pc'[u] = "gone"
      BY DEF NoOrphanTransaction, dbVars
    <2>1. PICK u \in Task : \/ conn[u] = c /\ pc[u] \in {"insert", "commit"}
                            \/ pc[u] = "gone"
      BY DEF ConnInv, NoOrphanTransaction
    <2>2. CASE u # t
      BY <2>1, <2>2 DEF SameLocals
    <2>3. CASE u = t /\ pc'[t] = "commit" /\ conn' = conn
      BY <2>1, <2>3
    <2> QED
      BY <2>1, <2>2, <2>3
  <1> QED
    BY <1>1, <1>2, <1>3, StepKeeps

\* COMMIT.
LEMMA CommitLemma ==
    ASSUME TypeOK, AcksOK, NEW c \in Conn, CommitOn(c)
    PROVE  /\ table' \subseteq Row /\ processed' \subseteq table'
           /\ open' \in [Conn -> Transaction]
           /\ open'[c] = Nothing /\ \A d \in Conn \ {c} : open'[d] = open[d]
           /\ table' = table \cup open[c].rows
           /\ processed' = processed \cup open[c].acks
           /\ \A d \in Conn : open'[d].acks \subseteq table'
           /\ \A d \in Conn : /\ open[d].rows \subseteq table' \cup open'[d].rows
                              /\ open[d].acks \subseteq processed' \cup open'[d].acks
  <1>1. Nothing \in Transaction /\ Nothing.acks = {}
    BY DEF Nothing, Transaction
  <1>2. /\ open \in [Conn -> Transaction] /\ table \subseteq Row
        /\ processed \subseteq table
    BY DEF TypeOK
  <1>3. open[c] \in Transaction /\ open[c].rows \subseteq Row
    BY <1>2 DEF Transaction
  <1> QED
    BY <1>1, <1>2, <1>3 DEF CommitOn, AcksOK

\* After a commit on c, a transaction that is still open has its task.
LEMMA CommitOrphan ==
    ASSUME ConnInv, NEW t \in Task, NEW c \in Conn, CommitOn(c),
           \A u \in Task \ {t} : SameLocals(u),
           pc[t] = "script" \/ (pc[t] = "commit" /\ conn[t] = c)
    PROVE  NoOrphanTransaction'
  <1> SUFFICES ASSUME NEW d \in Conn, open'[d] # Nothing
               PROVE  \E u \in Task : \/ conn'[u] = d /\ pc'[u] \in {"insert", "commit"}
                                      \/ pc'[u] = "gone"
    BY DEF NoOrphanTransaction
  <1>1. d # c /\ open[d] # Nothing
    BY CommitLemma DEF ConnInv
  <1>2. PICK u \in Task : \/ conn[u] = d /\ pc[u] \in {"insert", "commit"}
                          \/ pc[u] = "gone"
    BY <1>1 DEF ConnInv, NoOrphanTransaction
  <1>3. u # t
    BY <1>1, <1>2
  <1> QED
    BY <1>2, <1>3 DEF SameLocals

\* A call returns, after which nothing is left to do.
LEMMA ReturnLemma ==
    ASSUME TypeOK, NEW t \in Task, Return(t), UNCHANGED <<list, sends>>
    PROVE  /\ pc' \in [Task -> PC] /\ pc'[t] = "out"
           /\ call' \in [Task -> Call \cup {None}] /\ call'[t] = None
           /\ conn' \in [Task -> Conn \cup {None}]
           /\ done' \in [Task -> Nat]
           /\ held' \in [Task -> Row \cup {None}]
           /\ call[t] = "ack" => held'[t] = None /\ acked' = acked \cup {held[t]}
           /\ call[t] # "ack" => held' = held /\ acked' = acked
           /\ \A u \in Task \ {t} : SameLocals(u)
           /\ \A u \in Task : pc'[u] \in Executing => conn'[u] # None
  <1>1. /\ pc' \in [Task -> PC] /\ pc'[t] = "out"
        /\ call' \in [Task -> Call \cup {None}] /\ call'[t] = None
        /\ conn' \in [Task -> Conn \cup {None}] /\ done' \in [Task -> Nat]
        /\ held' \in [Task -> Row \cup {None}]
    BY DEF TypeOK, Return, Goto, PC
  <1>2. /\ call[t] = "ack" => held'[t] = None /\ acked' = acked \cup {held[t]}
        /\ call[t] # "ack" => held' = held /\ acked' = acked
    BY DEF TypeOK, Return
  <1>3. \A u \in Task \ {t} : SameLocals(u)
    BY DEF TypeOK, Return, Goto, SameLocals
  <1>4. \A u \in Task : pc'[u] \in Executing => conn'[u] # None
    BY <1>1, <1>3 DEF TypeOK, Executing, SameLocals
  <1> QED
    BY <1>1, <1>2, <1>3, <1>4

-----------------------------------------------------------------------------
\* One lemma per action, or for a few that are alike.

\* What the calls begin with.
LEMMA CallKeeps ==
    ASSUME ConnInv, NEW t \in Task, TaskCall(t)
    PROVE  ConnInv'
  <1>1. TaskOK(t) /\ TypeOK
    BY DEF ConnInv
  <1>2. pc[t] = "out" /\ call[t] = None /\ cached # None
    BY <1>1 DEF TaskCall, CallReceive, CallAck, CallSend, CallBroadcast, BeginSend,
                TaskOK, PlaceOK, Executing
  <1>3. /\ UNCHANGED <<cached, dbVars, conn, held, acked>>
        /\ pc' = [pc EXCEPT ![t] = "get"]
        /\ \A u \in Task \ {t} : SameLocals(u)
    BY <1>1 DEF TaskCall, CallReceive, CallAck, CallSend, CallBroadcast, BeginSend, Goto,
                TypeOK, SameLocals
  <1>4. pc' \in [Task -> PC] /\ pc'[t] = "get"
    BY <1>1, <1>3 DEF TypeOK, PC
  <1>5. /\ SendOK(t) /\ ReceiveOK(t)
        /\ held[t] = None \/ held[t] \in table
        /\ \A k \in DOMAIN list[t] : RowOf(t, k) \in table
    BY <1>1, <1>2, NoneAssumption DEF TaskOK, SendOK, ReceiveOK, Call
  <1>6. CASE CallReceive(t) \/ CallAck(t)
    <2>1. /\ UNCHANGED <<list, sends, done>>
          /\ call' \in [Task -> Call \cup {None}]
          /\ \/ call'[t] = "receive" /\ held[t] = None
             \/ call'[t] = "ack" /\ held[t] # None
      BY <1>1, <1>6 DEF CallReceive, CallAck, TypeOK, Call
    <2>2. TypeOK'
      BY <1>1, <1>3, <1>4, <2>1 DEF TypeOK, Executing, dbVars
    <2>3. TaskOK(t)'
      BY <1>2, <1>3, <1>4, <1>5, <2>1
         DEF TaskOK, PlaceOK, Executing, SendOK, ReceiveOK, Call, RowOf, dbVars
    <2> QED
      BY <1>2, <1>3, <2>2, <2>3, QuietKeeps
  <1>7. CASE CallSend(t) \/ CallBroadcast(t)
    <2>1. PICK o \in {"send", "broadcast"}, recipients \in Seq(Name) :
            /\ BeginSend(t, o, recipients)
            /\ o = "broadcast" => recipients = << >>
      BY <1>7, EmptySeq, ConnectionAssumption DEF CallSend, CallBroadcast
    <2>2. /\ call' = [call EXCEPT ![t] = o] /\ list' = [list EXCEPT ![t] = recipients]
          /\ sends' = [sends EXCEPT ![t] = @ + 1] /\ done' = [done EXCEPT ![t] = 0]
      BY <2>1 DEF BeginSend
    <2>3. TypeOK'
      BY <1>1, <1>3, <1>4, <2>2 DEF TypeOK, Executing, dbVars, Call
    <2>4. TaskOK(t)'
      BY <1>1, <1>2, <1>3, <1>4, <1>5, <2>1, <2>2
         DEF TypeOK, TaskOK, PlaceOK, Executing, SendOK, ReceiveOK, Call, dbVars
    <2> QED
      BY <1>2, <1>3, <2>3, <2>4, QuietKeeps
  <1> QED
    BY <1>6, <1>7 DEF TaskCall

\* Getting a connection.
LEMMA FirstPlace ==
    ASSUME NEW o \in Call
    PROVE  /\ FirstStatement(o) \in PC
           /\ o = "receive" => FirstStatement(o) = "select"
           /\ o = "broadcast" => FirstStatement(o) = "known"
           /\ o = "send" => FirstStatement(o) = "insert"
           /\ o = "ack" => FirstStatement(o) = "update"
  BY DEF FirstStatement, Call, PC

\* A call has its connection and has done nothing with it yet.
LEMMA FirstOK ==
    ASSUME TypeOK, NEW t \in Task, TaskOK(t), call[t] \in Call, pc[t] \in {"get",
           "applied"},
           pc'[t] = FirstStatement(call[t]), conn'[t] \in Conn, cached' # None,
           table \subseteq table',
           call'[t] = call[t], list'[t] = list[t], sends'[t] = sends[t],
           done'[t] = done[t], held'[t] = held[t]
    PROVE  TaskOK(t)'
  <1>1. PlaceOK(t) /\ SendOK(t) /\ ReceiveOK(t)
    BY DEF TaskOK
  <1>2. pc[t] = "applied" => call[t] = "receive"
    BY <1>1 DEF PlaceOK, Executing
  <1>3. PlaceOK(t)'
    BY FirstPlace DEF PlaceOK, Executing, Call
  <1>4. \A k : RowOf(t, k)' = RowOf(t, k)
    BY DEF RowOf
  <1>5. Len(list[t]) \in Nat /\ DOMAIN list[t] = 1 .. Len(list[t])
    BY LenProperties DEF TypeOK
  <1>6. SendOK(t)'
    BY <1>1, <1>2, <1>4, <1>5, FirstPlace DEF SendOK, Call
  <1>7. ReceiveOK(t)'
    BY <1>1, FirstPlace DEF ReceiveOK, Call
  <1> QED
    BY <1>3, <1>6, <1>7 DEF TaskOK

LEMMA ConnectedKeeps ==
    ASSUME ConnInv, NEW t \in Task, Connected(t)
    PROVE  ConnInv'
  <1>1. TaskOK(t) /\ TypeOK
    BY DEF ConnInv
  <1>2. /\ UNCHANGED <<dbVars, call, conn, list, sends, done, held, acked>>
        /\ pc[t] = "connecting" /\ cached' = t
        /\ pc' = [pc EXCEPT ![t] = "schema"]
    BY DEF Connected, Goto
  <1>3. t # None /\ t \in Conn
    BY NoneAssumption DEF Conn
  <1>4. TypeOK'
    BY <1>1, <1>2, <1>3 DEF TypeOK, Executing, dbVars, PC
  <1>5. TaskOK(t)'
    BY <1>1, <1>2, <1>3
       DEF TypeOK, TaskOK, PlaceOK, Executing, SendOK, ReceiveOK, RowOf, dbVars
  <1>6. \A u \in Task \ {t} : SameLocals(u)
    BY <1>1, <1>2 DEF TypeOK, SameLocals
  <1> QED
    BY <1>2, <1>3, <1>4, <1>5, <1>6, QuietKeeps

LEMMA EnsureSchemaKeeps ==
    ASSUME ConnInv, NEW t \in Task, EnsureSchema(t)
    PROVE  ConnInv'
  <1>1. TaskOK(t) /\ TypeOK
    BY DEF ConnInv
  <1>2. /\ UNCHANGED <<cached, dbVars, call, list, sends, done, held, acked>>
        /\ pc[t] = "schema" /\ conn' = [conn EXCEPT ![t] = cached]
        /\ pc' = [pc EXCEPT ![t] = "script"]
    BY DEF EnsureSchema, Goto
  <1>3. cached # None /\ cached \in Conn
    BY <1>1, <1>2 DEF TaskOK, PlaceOK, Executing, TypeOK
  <1>4. TypeOK'
    BY <1>1, <1>2, <1>3 DEF TypeOK, dbVars, PC, Executing
  <1>5. TaskOK(t)'
    BY <1>1, <1>2, <1>3
       DEF TypeOK, TaskOK, PlaceOK, SendOK, ReceiveOK, RowOf, dbVars, Executing
  <1>6. \A u \in Task \ {t} : SameLocals(u)
    BY <1>1, <1>2 DEF TypeOK, SameLocals
  <1> QED
    BY <1>2, <1>3, <1>4, <1>5, <1>6, QuietKeeps

LEMMA ScriptKeeps ==
    ASSUME ConnInv, NEW t \in Task, ExecuteScript(t)
    PROVE  ConnInv'
  <1>1. TaskOK(t) /\ TypeOK /\ AcksOK
    BY DEF ConnInv
  <1>2. /\ UNCHANGED <<cached, call, conn, list, sends, done, held, acked>>
        /\ pc[t] = "script" /\ CommitOn(conn[t])
        /\ pc' = [pc EXCEPT ![t] = "applied"]
    BY DEF ExecuteScript, Goto
  <1>3. conn[t] \in Conn /\ cached # None
    BY <1>1, <1>2 DEF TaskOK, PlaceOK, Executing
  <1>4. TypeOK' /\ AcksOK' /\ DbGrows
    BY <1>1, <1>2, <1>3, CommitLemma DEF TypeOK, AcksOK, DbGrows, PC, Executing
  <1>5. TaskOK(t)'
    BY <1>1, <1>2, <1>3, <1>4
       DEF TypeOK, TaskOK, PlaceOK, SendOK, ReceiveOK, RowOf, DbGrows, Executing
  <1>6. \A u \in Task \ {t} : SameLocals(u)
    BY <1>1, <1>2 DEF TypeOK, SameLocals
  <1>7. NoOrphanTransaction'
    BY <1>2, <1>3, <1>6, CommitOrphan
  <1> QED
    BY <1>4, <1>5, <1>6, <1>7, StepKeeps

LEMMA AppliedKeeps ==
    ASSUME ConnInv, NEW t \in Task, SchemaApplied(t)
    PROVE  ConnInv'
  <1>1. TaskOK(t) /\ TypeOK
    BY DEF ConnInv
  <1>2. /\ UNCHANGED <<cached, dbVars, call, list, sends, done, held, acked>>
        /\ pc[t] = "applied" /\ conn' = [conn EXCEPT ![t] = cached]
        /\ pc' = [pc EXCEPT ![t] = FirstStatement(call[t])]
    BY DEF SchemaApplied, Goto
  <1>3. call[t] \in Call /\ cached # None /\ cached \in Conn
    BY <1>1, <1>2 DEF TaskOK, PlaceOK, Executing, Call, TypeOK
  <1>4. TypeOK'
    BY <1>1, <1>2, <1>3, FirstPlace DEF TypeOK, Executing, dbVars
  <1>5. TaskOK(t)'
    BY <1>1, <1>2, <1>3, FirstOK DEF TypeOK, dbVars
  <1>6. \A u \in Task \ {t} : SameLocals(u)
    BY <1>1, <1>2 DEF TypeOK, SameLocals
  <1> QED
    BY <1>2, <1>3, <1>4, <1>5, <1>6, QuietKeeps

LEMMA UseCachedKeeps ==
    ASSUME ConnInv, NEW t \in Task, UseCached(t)
    PROVE  ConnInv'
  <1>1. TaskOK(t) /\ TypeOK
    BY DEF ConnInv
  <1>2. /\ UNCHANGED <<cached, dbVars, call, list, sends, done, held, acked>>
        /\ pc[t] = "get" /\ conn' = [conn EXCEPT ![t] = cached]
        /\ pc' = [pc EXCEPT ![t] = FirstStatement(call[t])]
    BY DEF UseCached, Goto
  <1>3. call[t] \in Call /\ cached # None /\ cached \in Conn
    BY <1>1, <1>2 DEF TaskOK, PlaceOK, Executing, TypeOK
  <1>4. TypeOK'
    BY <1>1, <1>2, <1>3, FirstPlace DEF TypeOK, Executing, dbVars
  <1>5. TaskOK(t)'
    BY <1>1, <1>2, <1>3, FirstOK DEF TypeOK, dbVars
  <1>6. \A u \in Task \ {t} : SameLocals(u)
    BY <1>1, <1>2 DEF TypeOK, SameLocals
  <1> QED
    BY <1>2, <1>3, <1>4, <1>5, <1>6, QuietKeeps

LEMMA SelectKeeps ==
    ASSUME ConnInv, NEW t \in Task, Select(t)
    PROVE  ConnInv'
  <1>1. /\ TaskOK(t) /\ TypeOK /\ PlaceOK(t) /\ SendOK(t) /\ ReceiveOK(t)
        /\ UNCHANGED <<cached, dbVars, list, sends>> /\ pc[t] = "select"
    BY DEF ConnInv, Select, TaskOK
  <1>2. /\ call[t] = "receive" /\ conn[t] \in Conn /\ cached # None
        /\ \A k \in DOMAIN list[t] : RowOf(t, k) \in table
    BY <1>1 DEF PlaceOK, Executing, SendOK
  <1>3. \A u \in Task \ {t} : SameLocals(u)
    BY <1>1, ReturnLemma DEF Select, Return, Goto, TypeOK, SameLocals
  <1>4. CASE Inbox(t) = {} /\ Return(t)
    <2>1. held[t] = None /\ held' = held /\ acked' = acked
      BY <1>1, <1>2, <1>4, ReturnLemma DEF ReceiveOK
    <2>2. TypeOK'
      BY <1>1, <1>4, <2>1, ReturnLemma DEF TypeOK, dbVars
    <2>3. pc'[t] = "out" /\ call'[t] = None
      BY <1>1, <1>4, ReturnLemma
    <2>4. TaskOK(t)'
      BY <1>1, <1>2, <2>1, <2>3, NoneAssumption
         DEF TaskOK, PlaceOK, Executing, SendOK, ReceiveOK, RowOf, Call, dbVars
    <2> QED
      BY <1>1, <1>3, <2>1, <2>2, <2>4, QuietKeeps
  <1>5. CASE Inbox(t) # {}
    <2>1. PICK r \in Inbox(t) : held' = [held EXCEPT ![t] = r]
      BY <1>5 DEF Select
    <2>2. pc' = [pc EXCEPT ![t] = "update"] /\ UNCHANGED <<call, conn, done, acked>>
      BY <1>5 DEF Select, Goto
    <2>3. r \in table \cup open[conn[t]].rows
      BY DEF Inbox, Visible
    <2>4. r \in Row
      BY <1>1, <1>2, <2>3 DEF TypeOK, Transaction
    <2>5. TypeOK'
      BY <1>1, <2>1, <2>2, <2>4 DEF TypeOK, Executing, dbVars, PC
    <2>6. pc'[t] = "update" /\ held'[t] = r
      BY <1>1, <2>1, <2>2 DEF TypeOK
    <2>7. TaskOK(t)'
      BY <1>1, <1>2, <2>2, <2>3, <2>6
         DEF TaskOK, PlaceOK, Executing, SendOK, ReceiveOK, RowOf, Stored, dbVars
    <2> QED
      BY <1>1, <1>3, <2>2, <2>5, <2>7, QuietKeeps
  <1> QED
    BY <1>4, <1>5 DEF Select

\* The names known_agents finds, as a sequence.
LEMMA KnownNamesLemma ==
    ASSUME TypeOK, NEW c \in Conn,
           NEW recipients \in [1 .. Cardinality(KnownNames(c)) -> KnownNames(c)]
    PROVE  recipients \in Seq(Name)
  <1>1. open[c] \in Transaction
    BY DEF TypeOK
  <1>2. Visible(c) \subseteq Row
    BY <1>1 DEF TypeOK, Transaction, Visible
  <1>3. KnownNames(c) \subseteq Name
    BY <1>2 DEF KnownNames, Row
  <1>4. Cardinality(KnownNames(c)) \in Nat
    BY <1>3, ConnectionAssumption, FS_Subset, FS_CardinalityType
  <1> QED
    BY <1>3, <1>4, SeqDef

LEMMA KnownKeeps ==
    ASSUME ConnInv, NEW t \in Task, KnownAgents(t)
    PROVE  ConnInv'
  <1>1. /\ TaskOK(t) /\ TypeOK /\ PlaceOK(t) /\ SendOK(t) /\ ReceiveOK(t)
        /\ UNCHANGED <<cached, dbVars, sends>> /\ pc[t] = "known"
    BY DEF ConnInv, KnownAgents, TaskOK
  <1>2. /\ call[t] = "broadcast" /\ conn[t] \in Conn /\ cached # None
        /\ list[t] = << >> /\ done[t] = 0
    BY <1>1 DEF PlaceOK, Executing, SendOK
  <1>3. CASE Return(t) /\ UNCHANGED list
    <2>1. held' = held /\ acked' = acked /\ pc'[t] = "out" /\ call'[t] = None
      BY <1>1, <1>2, <1>3, ReturnLemma
    <2>2. TypeOK'
      BY <1>1, <1>3, <2>1, ReturnLemma DEF TypeOK, dbVars
    <2>3. TaskOK(t)'
      BY <1>1, <1>2, <1>3, <2>1, NoneAssumption, EmptySeq
         DEF TaskOK, PlaceOK, Executing, SendOK, ReceiveOK, Call, dbVars
    <2> QED
      BY <1>1, <1>3, <2>1, <2>2, <2>3, ReturnLemma, QuietKeeps
  <1>4. CASE \E recipients \in
                [1 .. Cardinality(KnownNames(conn[t])) -> KnownNames(conn[t])] :
               /\ list' = [list EXCEPT ![t] = recipients]
               /\ call' = [call EXCEPT ![t] = "send"]
               /\ Goto(t, "get")
               /\ UNCHANGED <<conn, done, held, acked>>
    <2>1. PICK recipients \in Seq(Name) :
               /\ list' = [list EXCEPT ![t] = recipients]
               /\ call' = [call EXCEPT ![t] = "send"]
               /\ pc' = [pc EXCEPT ![t] = "get"]
               /\ UNCHANGED <<conn, done, held, acked>>
      BY <1>1, <1>2, <1>4, KnownNamesLemma DEF Goto
    <2>2. TypeOK'
      BY <1>1, <2>1 DEF TypeOK, Executing, dbVars, PC, Call
    <2>3. pc'[t] = "get" /\ call'[t] = "send"
      BY <1>1, <2>1 DEF TypeOK
    <2>4. TaskOK(t)'
      BY <1>1, <1>2, <2>1, <2>3
         DEF TaskOK, PlaceOK, Executing, SendOK, ReceiveOK, Call, dbVars
    <2>5. \A u \in Task \ {t} : SameLocals(u)
      BY <1>1, <2>1 DEF TypeOK, SameLocals
    <2> QED
      BY <1>1, <2>1, <2>2, <2>4, <2>5, QuietKeeps
  <1> QED
    BY <1>3, <1>4 DEF KnownAgents

\* INSERT and UPDATE: the transaction gets one thing more, and t is going to
\* commit it.
LEMMA WriteKeeps ==
    ASSUME ConnInv, NEW t \in Task, pc[t] \in {"insert", "update"},
           NEW tr \in Transaction, open' = [open EXCEPT ![conn[t]] = tr],
           open[conn[t]].rows \subseteq tr.rows, open[conn[t]].acks \subseteq tr.acks,
           tr.acks \subseteq table,
           UNCHANGED <<cached, table, processed, call, conn, list, sends, held, acked>>,
           \A u \in Task \ {t} : SameLocals(u),
           pc' \in [Task -> PC], pc'[t] \in {"insert", "commit"}, done' \in [Task -> Nat],
           TaskOK(t)'
    PROVE  ConnInv'
  <1>1. TypeOK /\ conn[t] \in Conn /\ AcksOK
    BY DEF ConnInv, TaskOK, PlaceOK, Executing
  <1>2. open' \in [Conn -> Transaction] /\ open'[conn[t]] = tr
        /\ \A d \in Conn \ {conn[t]} : open'[d] = open[d]
    BY <1>1 DEF TypeOK
  <1>3. TypeOK' /\ AcksOK' /\ DbGrows
    <2>1. \A u \in Task : pc'[u] \in Executing => conn'[u] # None
      BY <1>1, NoneAssumption DEF TypeOK, Executing, SameLocals, Conn
    <2>2. TypeOK'
      BY <1>1, <1>2, <2>1 DEF TypeOK
    <2> QED
      BY <1>1, <1>2, <2>2 DEF AcksOK, DbGrows
  <1>4. NoOrphanTransaction'
    <2> SUFFICES ASSUME NEW c \in Conn, open'[c] # Nothing
                 PROVE  \E u \in Task : \/ conn'[u] = c /\ pc'[u] \in {"insert", "commit"}
                                        \/ pc'[u] = "gone"
      BY DEF NoOrphanTransaction
    <2>1. CASE c = conn[t]
      BY <2>1
    <2>2. CASE c # conn[t]
      <3>1. PICK u \in Task : \/ conn[u] = c /\ pc[u] \in {"insert", "commit"}
                              \/ pc[u] = "gone"
        BY <1>2, <2>2 DEF ConnInv, NoOrphanTransaction
      <3> QED
        BY <2>2, <3>1 DEF SameLocals
    <2> QED
      BY <2>1, <2>2
  <1> QED
    BY <1>3, <1>4, StepKeeps

LEMMA UpdateKeeps ==
    ASSUME ConnInv, NEW t \in Task, Update(t)
    PROVE  ConnInv'
  <1>1. /\ TaskOK(t) /\ TypeOK /\ AcksOK /\ PlaceOK(t) /\ SendOK(t) /\ ReceiveOK(t)
        /\ UNCHANGED <<cached, table, processed, call, conn, list, sends, done, held,
                       acked>>
        /\ pc[t] = "update" /\ pc' = [pc EXCEPT ![t] = "commit"]
    BY DEF ConnInv, Update, Goto, TaskOK
  <1>2. /\ conn[t] \in Conn /\ call[t] \in {"receive", "ack"} /\ cached # None
        /\ open[conn[t]] \in Transaction
    BY <1>1 DEF PlaceOK, Executing, TypeOK
  <1>3. pc' \in [Task -> PC] /\ pc'[t] = "commit" /\ \A u \in Task \ {t} : SameLocals(u)
    BY <1>1 DEF TypeOK, PC, SameLocals
  <1> DEFINE old == open[conn[t]]
  <1>4. CASE call[t] = "ack"
    <2> DEFINE tr == [old EXCEPT !.acks = @ \cup {held[t]}]
    <2>1. held[t] \in table /\ held[t] \in Row
      BY <1>1, <1>4 DEF ReceiveOK, TypeOK
    <2>2. open' = [open EXCEPT ![conn[t]] = tr]
      BY <1>1, <1>2, <1>4 DEF Update, TypeOK
    <2>3. /\ tr \in Transaction /\ tr.rows = old.rows
          /\ tr.acks = old.acks \cup {held[t]}
      BY <1>2, <2>1 DEF Transaction
    <2>4. tr.acks \subseteq table
      BY <1>1, <1>2, <2>1, <2>3 DEF AcksOK
    <2> HIDE DEF tr
    <2>5. open'[conn[t]] = tr
      BY <1>1, <1>2, <2>2 DEF TypeOK
    <2>6. TaskOK(t)'
      BY <1>1, <1>2, <1>3, <1>4, <2>1, <2>3, <2>5
         DEF TaskOK, PlaceOK, Executing, SendOK, ReceiveOK, RowOf
    <2> QED
      BY <1>1, <1>3, <2>2, <2>3, <2>4, <2>6, WriteKeeps DEF TypeOK
  <1>5. CASE call[t] = "receive"
    <2> DEFINE tr == [old EXCEPT !.touched = @ \cup {held[t]}]
    <2>1. held[t] \in table \cup old.rows /\ held[t] \in Row
      BY <1>1, <1>2, <1>5 DEF ReceiveOK, Stored, TypeOK, Transaction
    <2>2. open' = [open EXCEPT ![conn[t]] = tr]
      BY <1>1, <1>2, <1>5 DEF Update, TypeOK
    <2>3. tr \in Transaction /\ tr.rows = old.rows /\ tr.acks = old.acks
      BY <1>2, <2>1 DEF Transaction
    <2>4. tr.acks \subseteq table
      BY <1>1, <1>2, <2>3 DEF AcksOK
    <2> HIDE DEF tr
    <2>5. open'[conn[t]] = tr
      BY <1>1, <1>2, <2>2 DEF TypeOK
    <2>6. TaskOK(t)'
      BY <1>1, <1>2, <1>3, <1>5, <2>1, <2>3, <2>5
         DEF TaskOK, PlaceOK, Executing, SendOK, ReceiveOK, Stored, RowOf
    <2> QED
      BY <1>1, <1>3, <2>2, <2>3, <2>4, <2>6, WriteKeeps DEF TypeOK
  <1> QED
    BY <1>2, <1>4, <1>5

LEMMA InsertKeeps ==
    ASSUME ConnInv, NEW t \in Task, Insert(t)
    PROVE  ConnInv'
  <1>1. /\ TaskOK(t) /\ TypeOK /\ AcksOK /\ PlaceOK(t) /\ SendOK(t) /\ ReceiveOK(t)
        /\ UNCHANGED <<cached, table, processed, pc, call, conn, list, sends, held,
                       acked>>
        /\ pc[t] = "insert" /\ done[t] < Len(list[t]) /\ done' = [done EXCEPT ![t] = @ + 1]
    BY DEF ConnInv, Insert, TaskOK
  <1>2. /\ conn[t] \in Conn /\ call[t] = "send" /\ cached # None
        /\ open[conn[t]] \in Transaction
    BY <1>1 DEF PlaceOK, Executing, TypeOK
  <1>3. /\ done[t] \in Nat /\ done'[t] = done[t] + 1 /\ done' \in [Task -> Nat]
        /\ pc \in [Task -> PC] /\ \A u \in Task \ {t} : SameLocals(u)
    BY <1>1 DEF TypeOK, SameLocals
  <1>4. Len(list[t]) \in Nat /\ done[t] + 1 \in 1 .. Len(list[t])
    BY <1>1, <1>3, LenProperties DEF TypeOK
  <1>5. RowOf(t, done[t] + 1) \in Row
    <2>1. list[t][done[t] + 1] \in Name
      BY <1>1, <1>4, ElementOfSeq DEF TypeOK
    <2>2. sends[t] \in Nat /\ done[t] + 1 \in Nat
      BY <1>1, <1>3 DEF TypeOK
    <2> QED
      BY <2>1, <2>2 DEF RowOf, Row
  <1> DEFINE old == open[conn[t]]
             tr == [old EXCEPT !.rows = @ \cup {RowOf(t, done[t] + 1)}]
  <1>6. open' = [open EXCEPT ![conn[t]] = tr]
    BY <1>1, <1>2 DEF Insert, TypeOK
  <1>7. /\ tr \in Transaction /\ tr.acks = old.acks
        /\ tr.rows = old.rows \cup {RowOf(t, done[t] + 1)}
    BY <1>2, <1>5 DEF Transaction
  <1>8. tr.acks \subseteq table
    BY <1>1, <1>2, <1>7 DEF AcksOK
  <1> HIDE DEF tr
  <1>9. open'[conn[t]] = tr
    BY <1>1, <1>2, <1>6 DEF TypeOK
  <1>10. \A k : RowOf(t, k)' = RowOf(t, k)
    BY <1>1 DEF RowOf
  <1>11. \A k \in 1 .. done'[t] : Stored(t, RowOf(t, k))'
    <2> SUFFICES ASSUME NEW k \in 1 .. done'[t] PROVE Stored(t, RowOf(t, k))'
      OBVIOUS
    <2>1. CASE k = done[t] + 1
      BY <1>1, <1>7, <1>9, <1>10, <2>1 DEF Stored
    <2>2. CASE k # done[t] + 1
      <3>1. k \in 1 .. done[t]
        BY <1>3, <2>2
      <3>2. Stored(t, RowOf(t, k))
        BY <1>1, <1>2, <3>1 DEF SendOK
      <3> QED
        BY <1>1, <1>7, <1>9, <1>10, <3>2 DEF Stored
    <2> QED
      BY <2>1, <2>2
  <1>12. TaskOK(t)'
    <2>1. PlaceOK(t)'
      BY <1>1 DEF PlaceOK, Executing
    <2>2. ReceiveOK(t)'
      BY <1>1, <1>2 DEF ReceiveOK
    <2>3. SendOK(t)'
      BY <1>1, <1>2, <1>3, <1>4, <1>11 DEF SendOK
    <2> QED
      BY <2>1, <2>2, <2>3 DEF TaskOK
  <1> QED
    BY <1>1, <1>3, <1>6, <1>7, <1>8, <1>12, WriteKeeps DEF TypeOK

LEMMA AllInsertedKeeps ==
    ASSUME ConnInv, NEW t \in Task, AllInserted(t)
    PROVE  ConnInv'
  <1>1. /\ TaskOK(t) /\ TypeOK /\ PlaceOK(t) /\ SendOK(t) /\ ReceiveOK(t)
        /\ UNCHANGED <<cached, dbVars, call, conn, list, sends, done, held, acked>>
        /\ pc[t] = "insert" /\ done[t] = Len(list[t]) /\ pc' = [pc EXCEPT ![t] = "commit"]
    BY DEF ConnInv, AllInserted, Goto, TaskOK
  <1>2. /\ TypeOK' /\ pc'[t] = "commit" /\ call[t] = "send"
        /\ \A u \in Task \ {t} : SameLocals(u)
    BY <1>1 DEF TypeOK, Executing, PC, SameLocals, dbVars, PlaceOK
  <1>3. TaskOK(t)'
    BY <1>1, <1>2 DEF TaskOK, PlaceOK, Executing, SendOK, ReceiveOK, Stored, RowOf, dbVars
  <1> QED
    BY <1>1, <1>2, <1>3, QuietKeeps

LEMMA CommitKeeps ==
    ASSUME ConnInv, NEW t \in Task, Commit(t)
    PROVE  ConnInv'
  <1>1. /\ TaskOK(t) /\ TypeOK /\ AcksOK /\ PlaceOK(t) /\ SendOK(t) /\ ReceiveOK(t)
        /\ UNCHANGED <<cached, list, sends>> /\ pc[t] = "commit"
        /\ CommitOn(conn[t]) /\ Return(t)
    BY DEF ConnInv, Commit, TaskOK
  <1>2. conn[t] \in Conn /\ call[t] \in {"receive", "send", "ack"} /\ cached # None
    BY <1>1 DEF PlaceOK, Executing
  <1>3. /\ table' = table \cup open[conn[t]].rows
        /\ processed' = processed \cup open[conn[t]].acks
    BY <1>1, <1>2, CommitLemma
  <1>4. /\ pc'[t] = "out" /\ call'[t] = None /\ held' \in [Task -> Row \cup {None}]
        /\ call[t] = "ack" => held'[t] = None /\ acked' = acked \cup {held[t]}
        /\ call[t] # "ack" => held' = held /\ acked' = acked
        /\ \A u \in Task \ {t} : SameLocals(u)
    BY <1>1, ReturnLemma
  <1>5. acked' \subseteq processed'
    BY <1>1, <1>3, <1>4 DEF AcksOK, ReceiveOK
  <1>6. TypeOK' /\ AcksOK' /\ DbGrows
    <2>1. TypeOK'
      BY <1>1, <1>2, <1>4, <1>5, CommitLemma, ReturnLemma DEF TypeOK
    <2>2. AcksOK' /\ DbGrows
      BY <1>1, <1>2, <1>3, <1>5, CommitLemma DEF AcksOK, DbGrows
    <2> QED
      BY <2>1, <2>2
  <1>7. held'[t] = None \/ held'[t] \in table'
    BY <1>1, <1>2, <1>3, <1>4 DEF ReceiveOK, Stored
  <1>8. \A k \in DOMAIN list[t] : RowOf(t, k) \in table'
    <2>1. CASE call[t] = "send"
      <3>1. DOMAIN list[t] = 1 .. done[t]
        BY <1>1, <2>1, LenProperties DEF SendOK, TypeOK
      <3> QED
        BY <1>1, <1>3, <2>1, <3>1 DEF SendOK, Stored
    <2>2. CASE call[t] # "send"
      BY <1>1, <1>2, <1>3, <2>2 DEF SendOK
    <2> QED
      BY <2>1, <2>2
  <1>9. TaskOK(t)'
    BY <1>1, <1>2, <1>4, <1>7, <1>8, NoneAssumption
       DEF TaskOK, PlaceOK, Executing, SendOK, ReceiveOK, RowOf, Call
  <1>10. NoOrphanTransaction'
    BY <1>1, <1>2, <1>4, CommitOrphan
  <1> QED
    BY <1>4, <1>6, <1>9, <1>10, StepKeeps

\* The end of the process: every task is gone.
LEMMA EndKeeps ==
    ASSUME ConnInv, Abort \/ Close
    PROVE  ConnInv'
  <1>1. TypeOK /\ AcksOK
    BY DEF ConnInv
  <1>2. \A t \in Task : pc'[t] = "gone"
    BY DEF Abort, Close, taskVars
  <1>3. NoOrphanTransaction'
    BY <1>2 DEF NoOrphanTransaction, Conn
  <1>4. TypeOK' /\ AcksOK'
    <2>1. CASE Abort
      BY <1>1, <2>1 DEF Abort, TypeOK, Executing, AcksOK, dbVars, PC
    <2>2. CASE Close
      <3>1. Nothing \in Transaction /\ Nothing.acks = {}
        BY DEF Nothing, Transaction
      <3>2. open' \in [Conn -> Transaction] /\ \A c \in Conn : open'[c].acks \subseteq table
        BY <1>1, <2>2, <3>1 DEF Close, TypeOK, AcksOK
      <3> QED
        BY <1>1, <2>2, <3>2 DEF Close, TypeOK, AcksOK, taskVars
    <2> QED
      BY <2>1, <2>2
  <1> QED
    BY <1>2, <1>3, <1>4 DEF ConnInv, TaskOK

LEMMA OutsideKeeps ==
    ASSUME ConnInv, NEW n \in Name, OutsideSend(n)
    PROVE  ConnInv'
  <1>1. /\ table' = table \cup {OutsideRow(n)} /\ OutsideRow(n) \in Row
        /\ UNCHANGED <<cached, processed, open, taskVars>>
    BY DEF OutsideSend, OutsideRow, Row
  <1>2. DbGrows /\ \A t \in Task : SameLocals(t)
    BY <1>1 DEF DbGrows, SameLocals, taskVars
  <1>3. TypeOK' /\ AcksOK' /\ NoOrphanTransaction'
    BY <1>1 DEF ConnInv, TypeOK, Executing, AcksOK, NoOrphanTransaction, taskVars
  <1> QED
    BY <1>2, <1>3, TaskKept DEF ConnInv

-----------------------------------------------------------------------------
LEMMA ConnInvNext == ConnInv /\ [Next]_vars => ConnInv'
  <1> SUFFICES ASSUME ConnInv, [Next]_vars PROVE ConnInv'
    OBVIOUS
  <1>1. ASSUME NEW t \in Task, TaskStep(t) PROVE ConnInv'
    BY <1>1, ConnectedKeeps, EnsureSchemaKeeps, ScriptKeeps, AppliedKeeps,
       UseCachedKeeps, SelectKeeps, UpdateKeeps,
       KnownKeeps, InsertKeeps, AllInsertedKeeps, CommitKeeps DEF TaskStep
  <1>2. ASSUME NEW t \in Task, TaskCall(t) PROVE ConnInv'
    BY <1>2, CallKeeps
  <1>3. CASE UNCHANGED vars
    <2>1. UNCHANGED <<cached, dbVars, acked>> /\ \A t \in Task : SameLocals(t)
      BY <1>3 DEF vars, taskVars, SameLocals
    <2>2. DbGrows
      BY <2>1 DEF DbGrows, dbVars
    <2>3. TypeOK' /\ AcksOK' /\ NoOrphanTransaction'
      BY <1>3 DEF ConnInv, TypeOK, Executing, AcksOK, NoOrphanTransaction, vars, dbVars,
                  taskVars
    <2> QED
      BY <2>1, <2>2, <2>3, TaskKept DEF ConnInv
  <1> QED
    BY <1>1, <1>2, <1>3, EndKeeps, OutsideKeeps DEF Next

LEMMA ConnInvAlways == Spec => []ConnInv
  BY ConnInvInit, ConnInvNext, PTL DEF Spec

\* The connection a call works on is one that was opened, and only rows that
\* are in the table are ever marked as processed in it.
THEOREM ConnectionTypeCorrect == Spec => []TypeOK
  <1>1. ConnInv => TypeOK
    BY DEF ConnInv
  <1> QED
    BY <1>1, ConnInvAlways, PTL

\* When send, receive or ack has returned, what it did is committed, however
\* the tasks of one `start` replace the connection under each other and commit
\* each other's statements: a call keeps the connection it was given.
THEOREM ReturnedIsStoredCorrect == Spec => []ReturnedIsStored
  <1>1. ConnInv => ReturnedIsStored
    <2> SUFFICES ASSUME ConnInv, NEW t \in Task, pc[t] = "out"
                 PROVE  /\ \A k \in DOMAIN list[t] : RowOf(t, k) \in table
                        /\ held[t] # None => held[t] \in table
      BY DEF ReturnedIsStored, ConnInv, AcksOK
    <2>1. call[t] = None /\ SendOK(t) /\ ReceiveOK(t)
      BY DEF ConnInv, TaskOK, PlaceOK, Executing
    <2> QED
      BY <2>1, NoneAssumption DEF SendOK, ReceiveOK, Call
  <1> QED
    BY <1>1, ConnInvAlways, PTL

\* No transaction is left open by a call that has returned: each of the
\* transport's calls ends with a commit on the connection it has written to,
\* so none keeps the write lock from the others.
THEOREM NoOrphanTransactionCorrect == Spec => []NoOrphanTransaction
  <1>1. ConnInv => NoOrphanTransaction
    BY DEF ConnInv
  <1> QED
    BY <1>1, ConnInvAlways, PTL

-----------------------------------------------------------------------------
(***************************************************************************)
(* Nobody waits for somebody who waits.                                    *)
(***************************************************************************)

\* Task t waits for the write lock that another connection has.
Waits(t) ==
    /\ \/ pc[t] = "update"
       \/ pc[t] = "insert" /\ done[t] < Len(list[t])
    /\ ~CanWrite(conn[t])

\* At the end of the process all tasks end together.
GoneTogether == (\E t \in Task : pc[t] = "gone") => \A t \in Task : pc[t] = "gone"

\* SQLite has one writer at a time.
OneWriter == \A c, d \in Conn : open[c] # Nothing /\ open[d] # Nothing => c = d

LockInv == ConnInv /\ GoneTogether /\ OneWriter

\* A step that writes on c only, and only if no other connection has the lock.
LEMMA OneWriterKept ==
    ASSUME OneWriter, NEW c \in Conn, \A d \in Conn \ {c} : open'[d] = open[d],
           open'[c] = Nothing \/ CanWrite(c)
    PROVE  OneWriter'
  BY DEF OneWriter, CanWrite

\* The steps of a task are steps of a task that is not gone.
LEMMA StepsOfTasks ==
    ASSUME ConnInv, NEW t \in Task, TaskStep(t) \/ TaskCall(t)
    PROVE  /\ pc[t] # "gone" /\ pc'[t] # "gone"
           /\ \A u \in Task \ {t} : pc'[u] = pc[u]
  <1>1. pc \in [Task -> PC] /\ (pc[t] # "gone" => PlaceOK(t))
    BY DEF ConnInv, TypeOK, TaskOK
  <1>2. CASE TaskCall(t)
    BY <1>1, <1>2 DEF TaskCall, CallReceive, CallAck, CallSend, CallBroadcast, BeginSend,
                      Goto
  <1>3. CASE \/ Connected(t) \/ EnsureSchema(t) \/ ExecuteScript(t) \/ Update(t)
             \/ Insert(t) \/ AllInserted(t)
    BY <1>1, <1>3 DEF Connected, EnsureSchema, ExecuteScript, Update, Insert, AllInserted,
                      Goto
  <1>4. CASE SchemaApplied(t) \/ UseCached(t)
    <2>1. call[t] \in Call /\ pc[t] # "gone"
      BY <1>1, <1>4 DEF SchemaApplied, UseCached, PlaceOK, Executing, Call
    <2>2. FirstStatement(call[t]) # "gone"
      BY <2>1 DEF FirstStatement, Call
    <2> QED
      BY <1>1, <1>4, <2>1, <2>2 DEF SchemaApplied, UseCached, Goto
  <1>5. CASE Select(t) \/ KnownAgents(t) \/ Commit(t)
    BY <1>1, <1>5 DEF Select, KnownAgents, Commit, Return, Goto
  <1> QED
    BY <1>2, <1>3, <1>4, <1>5 DEF TaskStep

LEMMA LockInvNext == LockInv /\ [Next]_vars => LockInv'
  <1> SUFFICES ASSUME LockInv, [Next]_vars PROVE LockInv'
    OBVIOUS
  <1>1. ConnInv' /\ ConnInv /\ open \in [Conn -> Transaction] /\ pc \in [Task -> PC]
    BY ConnInvNext DEF LockInv, ConnInv, TypeOK
  <1>2. GoneTogether'
    <2>1. ASSUME NEW t \in Task, TaskStep(t) \/ TaskCall(t)
          PROVE  GoneTogether'
      BY <1>1, <2>1, StepsOfTasks DEF LockInv, GoneTogether
    <2>2. CASE Abort
      BY <2>2 DEF Abort, GoneTogether
    <2>3. CASE Close \/ (\E n \in Name : OutsideSend(n)) \/ UNCHANGED vars
      <3>1. UNCHANGED pc
        BY <2>3 DEF Close, OutsideSend, vars, taskVars
      <3> QED
        BY <3>1 DEF LockInv, GoneTogether
    <2> QED
      BY <2>1, <2>2, <2>3 DEF Next
  <1>3. OneWriter'
    <2>1. ASSUME UNCHANGED open PROVE OneWriter'
      BY <2>1 DEF LockInv, OneWriter
    <2>2. ASSUME NEW c \in Conn, CommitOn(c) PROVE OneWriter'
      <3>1. open' = [open EXCEPT ![c] = Nothing]
        BY <2>2 DEF CommitOn
      <3> QED
        BY <1>1, <3>1, OneWriterKept DEF LockInv
    <2>3. ASSUME NEW t \in Task, TaskStep(t)
          PROVE  OneWriter'
      <3>1. pc[t] # "gone" => PlaceOK(t)
        BY <1>1 DEF ConnInv, TaskOK
      <3>2. CASE \/ Connected(t) \/ EnsureSchema(t) \/ SchemaApplied(t) \/ UseCached(t)
                 \/ Select(t) \/ KnownAgents(t) \/ AllInserted(t)
        BY <2>1, <3>2
           DEF Connected, EnsureSchema, SchemaApplied, UseCached, Select, KnownAgents,
               AllInserted, dbVars
      <3>3. CASE ExecuteScript(t)
        <4>1. conn[t] \in Conn
          BY <3>1, <3>3 DEF ExecuteScript, PlaceOK, Executing
        <4> QED
          BY <2>2, <3>3, <4>1 DEF ExecuteScript
      <3>4. CASE Commit(t)
        <4>1. conn[t] \in Conn
          BY <3>1, <3>4 DEF Commit, PlaceOK, Executing
        <4> QED
          BY <2>2, <3>4, <4>1 DEF Commit
      <3>5. CASE Update(t) \/ Insert(t)
        <4>1. conn[t] \in Conn /\ CanWrite(conn[t])
          BY <3>1, <3>5 DEF Update, Insert, PlaceOK, Executing
        <4>2. \A d \in Conn \ {conn[t]} : open'[d] = open[d]
          BY <1>1, <3>5, <4>1 DEF Update, Insert
        <4> QED
          BY <4>1, <4>2, OneWriterKept DEF LockInv
      <3> QED
        BY <2>3, <3>2, <3>3, <3>4, <3>5 DEF TaskStep
    <2>4. ASSUME NEW t \in Task, TaskCall(t)
          PROVE  OneWriter'
      BY <2>1, <2>4 DEF TaskCall, CallReceive, CallAck, CallSend, CallBroadcast, BeginSend,
                        dbVars
    <2>5. CASE Close
      <3>1. cached \in Conn /\ open' = [open EXCEPT ![cached] = Nothing]
        BY <1>1, <2>5 DEF Close, ConnInv, TypeOK
      <3> QED
        BY <1>1, <3>1, OneWriterKept DEF LockInv
    <2>6. CASE Abort \/ (\E n \in Name : OutsideSend(n)) \/ UNCHANGED vars
      BY <2>1, <2>6 DEF Abort, OutsideSend, vars, dbVars
    <2> QED
      BY <2>3, <2>4, <2>5, <2>6 DEF Next
  <1> QED
    BY <1>1, <1>2, <1>3 DEF LockInv

\* Who waits for the write lock waits for a task that can go on: another task
\* of the process, in the middle of a call on the connection that has the lock,
\* and itself not waiting.  So the tasks that open a connection each at start
\* (_get_connection), and write on different ones for a while, never wait for
\* each other in a circle.
NoDeadlock ==
    \A t \in Task : Waits(t) =>
        \E u \in Task : /\ pc[u] \in {"insert", "commit"} /\ ~Waits(u)
                        /\ conn[u] # conn[t] /\ open[conn[u]] # Nothing

\* No task waits for one that waits, for any number of tasks, connections and
\* sends: the invariant under CallsReturn.
THEOREM NoDeadlockCorrect == Spec => []NoDeadlock
  <1>1. Init => LockInv
    <2> SUFFICES ASSUME Init PROVE GoneTogether /\ OneWriter
      BY ConnInvInit DEF LockInv
    <2> QED
      BY DEF Init, GoneTogether, OneWriter
  <1>2. LockInv => NoDeadlock
    <2> SUFFICES ASSUME LockInv, NEW t \in Task, Waits(t)
                 PROVE  \E u \in Task : /\ pc[u] \in {"insert", "commit"} /\ ~Waits(u)
                                        /\ conn[u] # conn[t] /\ open[conn[u]] # Nothing
      BY DEF NoDeadlock
    <2>1. PICK d \in Conn \ {conn[t]} : open[d] # Nothing
      BY DEF Waits, CanWrite
    <2>2. \A u \in Task : pc[u] # "gone"
      BY DEF LockInv, GoneTogether, Waits
    <2>3. PICK u \in Task : conn[u] = d /\ pc[u] \in {"insert", "commit"}
      BY <2>1, <2>2 DEF LockInv, ConnInv, NoOrphanTransaction
    <2>4. CanWrite(d)
      BY <2>1 DEF LockInv, OneWriter, CanWrite
    <2> QED
      BY <2>1, <2>3, <2>4 DEF Waits
  <1> QED
    BY <1>1, <1>2, LockInvNext, PTL DEF Spec

=============================================================================
