---------------------------- MODULE MonitorProofs ----------------------------
(***************************************************************************)
(* Theorems about Monitor, for any threads, agents, messages, bounds and   *)
(* any number of highlights, refreshes and failed queries.                 *)
(***************************************************************************)
EXTENDS Monitor, SequenceTheorems, FiniteSetTheorems, TLAPS

-----------------------------------------------------------------------------
(***************************************************************************)
(* Numbers, and finite sets in order.                                      *)
(***************************************************************************)

\* Every set of numbers that is not empty has a least member.
LEMMA LeastNumber ==
    ASSUME NEW T \in SUBSET Nat, T # {}
    PROVE  \E x \in T : \A y \in T : x <= y
  <1> DEFINE R == {pair \in Nat \X Nat : pair[1] < pair[2]}
  <1>1. IsWellFoundedOn(R, Nat)
    BY NatLessThanWellFounded DEF OpToRel
  <1> HIDE DEF R
  <1>2. PICK x \in T : \A y \in T : <<y, x>> \notin R
    BY <1>1, WFMin
  <1>3. \A y \in T : ~(y < x)
    BY <1>2 DEF R
  <1> QED
    BY <1>3

\* ... and, if it has a bound, a greatest one.
LEMMA GreatestNumber ==
    ASSUME NEW n \in Nat, NEW T \in SUBSET (0 .. n), T # {}
    PROVE  \E x \in T : \A y \in T : y <= x
  <1> DEFINE U == {u \in Nat : \A y \in T : y <= u}
  <1>1. n \in U
    OBVIOUS
  <1>2. PICK u \in U : \A v \in U : u <= v
    BY <1>1, LeastNumber
  <1>3. u \in T
    <2> SUFFICES ASSUME u \notin T PROVE FALSE
      OBVIOUS
    <2>1. PICK y \in T : TRUE
      OBVIOUS
    <2>2. u - 1 \in Nat
      BY <2>1
    <2>3. \A z \in T : z <= u - 1
      OBVIOUS
    <2> QED
      BY <1>2, <2>2, <2>3
  <1> QED
    BY <1>2, <1>3

\* s lists the members of X by their f.
Sorts(s, X, f) ==
    /\ s \in [1 .. Cardinality(X) -> X]
    /\ \A a, b \in DOMAIN s : a < b => f[s[a]] < f[s[b]]

\* A finite set can be listed by numbers that are different for different
\* members.  By induction on its cardinality: the least comes first.
LEMMA SortedEnumeration ==
    ASSUME NEW S, IsFiniteSet(S), NEW f \in [S -> Nat],
           \A a, b \in S : f[a] = f[b] => a = b
    PROVE  \E s : Sorts(s, S, f)
  <1> DEFINE Bad == {X \in SUBSET S : ~ \E s : Sorts(s, X, f)}
             Sizes == {Cardinality(X) : X \in Bad}
  <1>1. \A X \in SUBSET S : IsFiniteSet(X) /\ Cardinality(X) \in Nat
    BY FS_Subset, FS_CardinalityType
  <1> SUFFICES ASSUME Bad # {} PROVE FALSE
    OBVIOUS
  <1>2. Sizes \in SUBSET Nat /\ Sizes # {}
    BY <1>1
  <1>3. PICK n \in Sizes : \A m \in Sizes : n <= m
    BY <1>2, LeastNumber
  <1>4. PICK X \in Bad : Cardinality(X) = n
    OBVIOUS
  <1>5. X # {}
    <2> SUFFICES ASSUME X = {} PROVE Sorts([i \in {} |-> i], X, f)
      OBVIOUS
    <2>1. 1 .. Cardinality(X) = {}
      BY FS_EmptySet
    <2> QED
      BY <2>1 DEF Sorts
  <1>6. PICK x \in X : \A y \in X : f[x] <= f[y]
    <2> DEFINE V == {f[y] : y \in X}
    <2>1. V \in SUBSET Nat /\ V # {}
      BY <1>5
    <2> HIDE DEF V
    <2>2. PICK v \in V : \A u \in V : v <= u
      BY <2>1, LeastNumber
    <2> QED
      BY <2>2 DEF V
  <1> DEFINE Y == X \ {x}
  <1>7. Cardinality(Y) = n - 1 /\ n \in Nat /\ n - 1 \in Nat
    BY <1>1, <1>4, FS_RemoveElement
  <1>8. PICK s : Sorts(s, Y, f)
    BY <1>3, <1>7
  <1> DEFINE r == [i \in 1 .. n |-> IF i = 1 THEN x ELSE s[i - 1]]
  <1>9. ASSUME NEW i \in 1 .. n, i # 1
        PROVE  i - 1 \in 1 .. n - 1 /\ s[i - 1] \in Y
    <2>1. i - 1 \in 1 .. n - 1
      BY <1>7, <1>9
    <2> QED
      BY <1>7, <1>8, <2>1 DEF Sorts
  <1>10. r \in [1 .. Cardinality(X) -> X]
    BY <1>4, <1>9
  <1>11. ASSUME NEW a \in 1 .. n, NEW b \in 1 .. n, a < b
         PROVE  f[r[a]] < f[r[b]]
    <2>1. b # 1 /\ r[b] = s[b - 1] /\ s[b - 1] \in Y
      BY <1>7, <1>9, <1>11
    <2>2. CASE a = 1
      BY <1>6, <2>1, <2>2
    <2>3. CASE a # 1
      <3>1. a - 1 \in DOMAIN s /\ b - 1 \in DOMAIN s /\ a - 1 < b - 1
        BY <1>7, <1>8, <1>9, <1>11, <2>1, <2>3 DEF Sorts
      <3> QED
        BY <1>8, <2>1, <2>3, <3>1 DEF Sorts
    <2> QED
      BY <2>2, <2>3
  <1>12. Sorts(r, X, f)
    BY <1>4, <1>10, <1>11 DEF Sorts
  <1> QED
    BY <1>12

-----------------------------------------------------------------------------
(***************************************************************************)
(* The queries.                                                            *)
(***************************************************************************)

\* Ascending(K) is what its name says.
LEMMA AscendingLemma ==
    ASSUME NEW K \in SUBSET Nat, IsFiniteSet(K)
    PROVE  /\ Cardinality(K) \in Nat
           /\ Ascending(K) \in [1 .. Cardinality(K) -> K]
           /\ \A a, b \in DOMAIN Ascending(K) : a < b => Ascending(K)[a] < Ascending(K)[b]
  <1> DEFINE id == [x \in K |-> x]
  <1>1. id \in [K -> Nat] /\ \A a, b \in K : id[a] = id[b] => a = b
    OBVIOUS
  <1> HIDE DEF id
  <1>2. PICK s : Sorts(s, K, id)
    BY <1>1, SortedEnumeration
  <1>3. \A a, b \in DOMAIN s : a < b => s[a] < s[b]
    BY <1>2 DEF Sorts, id
  <1> QED
    BY <1>2, <1>3, FS_CardinalityType DEF Sorts, Ascending

\* The threads of the cluster are threads.
LEMMA KeptThreads ==
    ASSUME NEW threads \in Seq(Thread)
    PROVE  Kept(threads) \in Seq(Thread)
  <1> DEFINE K == {i \in DOMAIN threads : threads[i] \in ledger}
  <1>1. CASE ~Clustered
    BY <1>1 DEF Kept
  <1>2. CASE Clustered
    <2>1. Len(threads) \in Nat /\ DOMAIN threads = 1 .. Len(threads)
      BY LenProperties
    <2>2. K \in SUBSET Nat /\ IsFiniteSet(K)
      <3>1. IsFiniteSet(1 .. Len(threads)) /\ K \subseteq 1 .. Len(threads)
        BY <2>1, FS_Interval
      <3> QED
        BY <3>1, FS_Subset
    <2> DEFINE at == Ascending(K)
    <2>3. Cardinality(K) \in Nat /\ at \in [1 .. Cardinality(K) -> K]
      BY <2>2, AscendingLemma
    <2>4. \A i \in K : threads[i] \in Thread
      BY <2>1, ElementOfSeq
    <2> HIDE DEF at
    <2>5. Kept(threads) = [n \in 1 .. Cardinality(K) |-> threads[at[n]]]
      BY <1>2, <2>3 DEF Kept, at
    <2>6. Kept(threads) \in [1 .. Cardinality(K) -> Thread]
      BY <2>3, <2>4, <2>5
    <2> QED
      BY <2>3, <2>6, SeqDef
  <1> QED
    BY <1>1, <1>2

Row == [thread : Thread, from : Name, to : Name]

\* What a table holds: its rows, and those of a thread.
LEMMA TableRows ==
    ASSUME log \in Seq(Row)
    PROVE  /\ Len(log) \in Nat /\ DOMAIN log = 1 .. Len(log)
           /\ \A i \in DOMAIN log : log[i] \in Row
           /\ \A t : /\ OnThread(t) \subseteq 1 .. Len(log)
                     /\ OnThread(t) \in SUBSET (0 .. Len(log))
                     /\ Cardinality(OnThread(t)) \in 0 .. Len(log)
  <1>1. Len(log) \in Nat /\ DOMAIN log = 1 .. Len(log)
    BY LenProperties
  <1>2. \A i \in DOMAIN log : log[i] \in Row
    BY <1>1, ElementOfSeq
  <1>3. ASSUME NEW t
        PROVE  OnThread(t) \subseteq 1 .. Len(log)
    BY <1>1 DEF OnThread
  <1>4. IsFiniteSet(1 .. Len(log)) /\ Cardinality(1 .. Len(log)) = Len(log)
    BY <1>1, FS_Interval
  <1>5. ASSUME NEW t
        PROVE  Cardinality(OnThread(t)) \in 0 .. Len(log)
    BY <1>1, <1>3, <1>4, FS_Subset, FS_CardinalityType
  <1> QED
    BY <1>1, <1>2, <1>3, <1>5

\* The threads in the order of their last messages.
LEMMA ActivityThreads ==
    ASSUME log \in Seq(Row)
    PROVE  ByActivity \in Seq(Thread)
  <1> DEFINE S == {log[i].thread : i \in DOMAIN log}
             last == [t \in S |-> CHOOSE i \in OnThread(t) : \A j \in OnThread(t) : j <= i]
             f == [t \in S |-> Len(log) - last[t]]
             n == Cardinality(S)
  <1>1. /\ Len(log) \in Nat /\ DOMAIN log = 1 .. Len(log)
        /\ \A i \in DOMAIN log : log[i] \in Row
        /\ \A t : OnThread(t) \in SUBSET (0 .. Len(log))
    BY TableRows
  <1>2. S \subseteq Thread
    BY <1>1 DEF Row
  <1>3. IsFiniteSet(S) /\ n \in Nat
    <2> DEFINE g == [i \in 1 .. Len(log) |-> log[i].thread]
    <2>1. g \in Surjection(1 .. Len(log), S)
      BY <1>1 DEF Surjection
    <2>2. IsFiniteSet(1 .. Len(log))
      BY <1>1, FS_Interval
    <2> HIDE DEF g, S
    <2> QED
      BY <2>1, <2>2, FS_Surjection, FS_CardinalityType
  <1>4. ASSUME NEW t \in S
        PROVE  /\ last[t] \in OnThread(t) /\ \A j \in OnThread(t) : j <= last[t]
               /\ last[t] \in 1 .. Len(log) /\ log[last[t]].thread = t
    <2>1. OnThread(t) # {} /\ OnThread(t) \in SUBSET (0 .. Len(log))
      BY <1>1 DEF OnThread
    <2>2. \E i \in OnThread(t) : \A j \in OnThread(t) : j <= i
      BY <1>1, <2>1, GreatestNumber
    <2>3. last[t] \in OnThread(t) /\ \A j \in OnThread(t) : j <= last[t]
      BY <2>2
    <2> QED
      BY <1>1, <2>3 DEF OnThread
  <1> HIDE DEF S, last
  <1>5. f \in [S -> Nat]
    BY <1>1, <1>4
  <1>6. ASSUME NEW a \in S, NEW b \in S, f[a] = f[b]
        PROVE  a = b
    <2>1. last[a] = last[b]
      BY <1>1, <1>4, <1>6
    <2> QED
      BY <1>4, <2>1
  <1>7. PICK s : Sorts(s, S, f)
    <2> HIDE DEF f
    <2> QED
      BY <1>3, <1>5, <1>6, SortedEnumeration
  <1>8. s \in [1 .. n -> S]
    BY <1>7 DEF Sorts
  <1>9. ASSUME NEW a \in DOMAIN s, NEW b \in DOMAIN s, a < b
        PROVE  \A i \in OnThread(s[b]) : \E j \in OnThread(s[a]) : j > i
    <2>1. s[a] \in S /\ s[b] \in S /\ f[s[a]] < f[s[b]]
      BY <1>7, <1>8, <1>9 DEF Sorts
    <2>2. last[s[a]] > last[s[b]]
      BY <1>1, <1>4, <2>1
    <2>3. last[s[a]] \in OnThread(s[a])
      BY <1>4, <2>1
    <2>4. \A i \in OnThread(s[b]) : i \in Nat /\ i <= last[s[b]]
      BY <1>1, <1>4, <2>1
    <2>5. last[s[a]] \in Nat /\ last[s[b]] \in Nat
      BY <1>1, <1>4, <2>1
    <2> QED
      BY <2>2, <2>3, <2>4, <2>5
  <1>10. ByActivity \in [1 .. n -> S]
    <2> DEFINE P(r) == \A a, b \in DOMAIN r : a < b =>
                           \A i \in OnThread(r[b]) : \E j \in OnThread(r[a]) : j > i
    <2>1. ByActivity = CHOOSE r \in [1 .. n -> S] : P(r)
      BY DEF ByActivity, S
    <2>2. P(s)
      BY <1>9
    <2> HIDE DEF P
    <2> QED
      BY <1>8, <2>1, <2>2
  <1> QED
    BY <1>2, <1>3, <1>10, SeqDef

\* Whom a reply to thread t goes to has written on it.
LEMMA ReplyToWriter ==
    ASSUME log \in Seq(Row), NEW t
    PROVE  /\ ReplyTo(t) \in Name \cup {None}
           /\ ReplyTo(t) # None => \E i \in OnThread(t) : log[i].from = ReplyTo(t)
  <1> DEFINE toHuman == {i \in OnThread(t) : log[i].to = Human}
             from == IF toHuman # {} THEN toHuman ELSE OnThread(t)
             last == CHOOSE i \in from : \A j \in from : j <= i
  <1>1. /\ Len(log) \in Nat /\ DOMAIN log = 1 .. Len(log)
        /\ \A i \in DOMAIN log : log[i] \in Row
        /\ OnThread(t) \in SUBSET (0 .. Len(log)) /\ OnThread(t) \subseteq DOMAIN log
    BY TableRows
  <1>2. from \subseteq OnThread(t) /\ from \in SUBSET (0 .. Len(log))
    BY <1>1
  <1>3. ReplyTo(t) = IF from = {} THEN None ELSE log[last].from
    BY DEF ReplyTo
  <1> HIDE DEF from
  <1>4. CASE from = {}
    BY <1>3, <1>4
  <1>5. CASE from # {}
    <2>1. \E i \in from : \A j \in from : j <= i
      BY <1>1, <1>2, <1>5, GreatestNumber
    <2>2. last \in from
      BY <2>1
    <2> QED
      BY <1>1, <1>2, <1>3, <1>5, <2>2 DEF Row
  <1> QED
    BY <1>4, <1>5

-----------------------------------------------------------------------------
(***************************************************************************)
(* The inductive invariant.                                                *)
(***************************************************************************)

RowsBounded == Len(log) + (IF pc["app"] = "send" THEN 1 ELSE 0) <= MaxRows

Labels ==
    /\ pc["app"] # "off"
    /\ pc["timer"] \in {"off", "idle", "threads", "costs", "load", "total"}
    /\ pc["timer"] = "off" => pc["app"] \in {"threads", "costs", "load", "total"}

LoadsOnce == \A i, j \in DOMAIN loads : loads[i] = loads[j] => i = j

SendReady ==
    pc["app"] = "send" => got["app"].thread \in Thread /\ got["app"].to \in Name

Coming(k) ==
    IF pc["timer"] = "off"
    THEN CASE pc[k] \in {"threads", "costs"} -> 2
           [] pc[k] \in {"load", "total"} -> 1
           [] OTHER -> 0
    ELSE IF pc[k] \in {"send", "threads", "costs"} THEN 1 ELSE 0

EventsBounded == events + Coming("app") + Coming("timer") <= MaxEvents + 2

ProposalTrue ==
    (pc["app"] = "prefill" /\ got["app"].to # None) =>
        \E i \in OnThread(got["app"].thread) : log[i].from = got["app"].to

MonitorInv ==
    /\ TypeOK /\ RowsBounded /\ Labels /\ LoadsOnce
    /\ SendReady /\ EventsBounded
    /\ ProposalTrue /\ FormAddressesThread

-----------------------------------------------------------------------------
(***************************************************************************)
(* What the helpers of the actions do.                                     *)
(***************************************************************************)

InFlight == {loads[i] : i \in DOMAIN loads}
LoadingTasks == {k \in Task : pc[k] \in Loading}

\* A task goes on to another await.
LEMMA GotoLemma ==
    ASSUME TypeOK, NEW k \in Task, NEW label \in PC, Goto(k, label)
    PROVE  /\ pc' \in [Task -> PC] /\ pc'[k] = label
           /\ \A j \in Task \ {k} : pc'[j] = pc[j]
           /\ label \in Loading => LoadingTasks' = LoadingTasks \cup {k}
           /\ label \notin Loading => LoadingTasks' = LoadingTasks \ {k}
  <1>1. pc \in [Task -> PC]
    BY DEF TypeOK
  <1>2. /\ pc' \in [Task -> PC] /\ pc'[k] = label
        /\ \A j \in Task \ {k} : pc'[j] = pc[j]
    BY <1>1 DEF Goto
  <1> QED
    BY <1>2 DEF LoadingTasks

\* A load begins: its task is last in the queue of the connection.
LEMMA LoadBegins ==
    ASSUME TypeOK, LoadsOnce, NEW k \in Task \ LoadingTasks, loads' = Append(loads, k)
    PROVE  loads' \in Seq(Task) /\ LoadsOnce' /\ InFlight' = LoadingTasks \cup {k}
  <1>1. /\ loads \in Seq(Task) /\ InFlight = LoadingTasks
        /\ DOMAIN loads = 1 .. Len(loads) /\ Len(loads) \in Nat
    BY LenProperties DEF TypeOK, InFlight, LoadingTasks
  <1>2. /\ loads' \in Seq(Task) /\ DOMAIN loads' = 1 .. Len(loads) + 1
        /\ loads'[Len(loads) + 1] = k
        /\ \A i \in 1 .. Len(loads) : loads'[i] = loads[i]
    BY <1>1, AppendProperties
  <1>3. \A i \in 1 .. Len(loads) : loads[i] # k
    BY <1>1 DEF InFlight
  <1>4. LoadsOnce'
    BY <1>1, <1>2, <1>3 DEF LoadsOnce
  <1>5. InFlight' = InFlight \cup {k}
    BY <1>1, <1>2 DEF InFlight
  <1> QED
    BY <1>1, <1>2, <1>4, <1>5

\* A load ends: the message panel is consistent again.
LEMMA LoadEnds ==
    ASSUME TypeOK, LoadsOnce, NEW k \in Task, Answered(k)
    PROVE  loads' \in Seq(Task) /\ LoadsOnce' /\ InFlight' = LoadingTasks \ {k}
  <1>1. /\ loads \in Seq(Task) /\ InFlight = LoadingTasks /\ loads # << >>
        /\ DOMAIN loads = 1 .. Len(loads) /\ Len(loads) \in Nat
        /\ k = loads[1] /\ loads' = Tail(loads)
    BY LenProperties DEF TypeOK, InFlight, LoadingTasks, Answered
  <1>2. /\ Tail(loads) \in Seq(Task) /\ Len(Tail(loads)) = Len(loads) - 1
        /\ \A i \in 1 .. Len(Tail(loads)) : Tail(loads)[i] = loads[i + 1]
        /\ Len(loads) >= 1 /\ DOMAIN Tail(loads) = 1 .. Len(loads) - 1
    BY <1>1, HeadTailProperties, EmptySeq, LenProperties
  <1>3. \A i \in 2 .. Len(loads) : loads[i] # k
    BY <1>1, <1>2 DEF LoadsOnce
  <1>4. LoadsOnce'
    BY <1>1, <1>2 DEF LoadsOnce
  <1>5. InFlight' = InFlight \ {k}
    <2>1. ASSUME NEW i \in DOMAIN loads' PROVE loads'[i] \in InFlight \ {k}
      BY <1>1, <1>2, <1>3 DEF InFlight
    <2>2. ASSUME NEW i \in DOMAIN loads, loads[i] # k PROVE loads[i] \in InFlight'
      <3>1. i - 1 \in 1 .. Len(loads) - 1 /\ (i - 1) + 1 = i
        BY <1>1, <2>2
      <3>2. loads'[i - 1] = loads[i]
        BY <1>1, <1>2, <3>1
      <3> QED
        BY <1>1, <1>2, <3>1, <3>2 DEF InFlight
    <2> QED
      BY <2>1, <2>2 DEF InFlight
  <1> QED
    BY <1>1, <1>2, <1>4, <1>5

\* The panel shows what was found, and the cursor is in it.
LEMMA PanelFilled ==
    ASSUME TypeOK, NEW k \in Task, Display(k)
    PROVE  /\ panel' \in [thread : Thread \cup {None}, count : 0 .. MaxRows]
           /\ cursor' \in 0 .. panel'.count /\ (cursor' = 0 <=> panel'.count = 0)
  <1>1. got[k] \in Query /\ cursor \in Nat /\ MaxRows \in Nat
    BY MonitorAssumption DEF TypeOK, Query
  <1>2. /\ panel' = [thread |-> got[k].thread, count |-> got[k].count]
        /\ cursor' = CursorWithin(got[k].count)
    BY DEF Display
  <1>3. /\ panel' \in [thread : Thread \cup {None}, count : 0 .. MaxRows]
        /\ cursor' \in 0 .. panel'.count /\ (cursor' = 0 <=> panel'.count = 0)
    <2> DEFINE n == got[k].count
    <2>1. n \in 0 .. MaxRows /\ panel'.count = n
      BY <1>1, <1>2 DEF Query
    <2>2. /\ n = 0 => CursorWithin(n) = 0
          /\ n # 0 => CursorWithin(n) \in 1 .. n
      BY <1>1, <2>1 DEF CursorWithin
    <2> QED
      BY <1>1, <1>2, <2>1, <2>2 DEF Query
  <1> QED
    BY <1>3

\* The list gets its new threads.
LEMMA ListUpdated ==
    ASSUME TypeOK, NEW threads \in Seq(Thread), UpdateThreads(threads)
    PROVE  /\ listed' \in Seq(Thread) /\ highlight' \in 0 .. Len(listed')
           /\ highlight' = 0 <=> listed' = << >>
           /\ events' \in {events, events + 1}
           /\ SelectedIn(listed', highlight') \in Thread \cup {None}
  <1>1. Len(threads) \in Nat /\ DOMAIN threads = 1 .. Len(threads)
        /\ \A i \in DOMAIN threads : threads[i] \in Thread
    BY LenProperties, ElementOfSeq
  <1>2. CASE threads = << >>
    BY <1>1, <1>2 DEF UpdateThreads, SelectedIn
  <1>3. CASE threads # << >>
    <2>1. Restored(threads) \in DOMAIN threads
      <3>1. 1 \in DOMAIN threads
        BY <1>1, <1>3, EmptySeq
      <3> QED
        BY <3>1 DEF Restored
    <2> QED
      BY <1>1, <1>3, <2>1 DEF UpdateThreads, SelectedIn
  <1> QED
    BY <1>2, <1>3

\* The selection is a thread, or nothing.
LEMMA SelectedThread ==
    ASSUME TypeOK
    PROVE  Selected \in Thread \cup {None}
  BY LenProperties, ElementOfSeq DEF TypeOK, Selected, SelectedIn

\* What a query for the messages of a thread finds.
LEMMA QueryTyped ==
    ASSUME TypeOK, RowsBounded, NEW t \in Thread
    PROVE  [NoQuery EXCEPT !.thread = t, !.count = Cardinality(OnThread(t))] \in Query
  <1>1. Cardinality(OnThread(t)) \in 0 .. Len(log) /\ Len(log) \in Nat
    BY TableRows DEF TypeOK, Row
  <1>2. Cardinality(OnThread(t)) \in 0 .. MaxRows
    BY <1>1, MonitorAssumption DEF RowsBounded
  <1> QED
    BY <1>2 DEF NoQuery, Query

LEMMA NoQueryTyped == NoQuery \in Query
  BY MonitorAssumption DEF NoQuery, Query

\* Task k loads thread t, or goes on.
LEMMA LoadOrNot ==
    ASSUME TypeOK, RowsBounded, LoadsOnce, NEW k \in Task \ LoadingTasks,
           NEW t, t \in Thread \cup {None},
           NEW label \in PC \cap Loading, NEW otherwise \in PC \ Loading,
           Load(k, t, label, otherwise)
    PROVE  /\ pc' \in [Task -> PC] /\ pc'[k] \in {label, otherwise}
           /\ \A j \in Task \ {k} : pc'[j] = pc[j]
           /\ got' \in [Task -> Query] /\ \A j \in Task \ {k} : got'[j] = got[j]
           /\ loads' \in Seq(Task) /\ LoadsOnce' /\ InFlight' = LoadingTasks'
  <1>1. got \in [Task -> Query] /\ loads \in Seq(Task) /\ InFlight = LoadingTasks
    BY DEF TypeOK, InFlight, LoadingTasks
  <1>2. CASE t = None
    <2>1. Goto(k, otherwise) /\ UNCHANGED <<got, loads>>
      BY <1>2 DEF Load
    <2>2. LoadingTasks' = LoadingTasks \ {k}
      BY <2>1, GotoLemma
    <2>3. InFlight' = LoadingTasks'
      BY <1>1, <2>1, <2>2 DEF InFlight
    <2> QED
      BY <1>1, <2>1, <2>3, GotoLemma DEF LoadsOnce
  <1>3. CASE t # None
    <2>1. /\ Goto(k, label) /\ loads' = Append(loads, k)
          /\ got' = [got EXCEPT ![k] = [NoQuery EXCEPT !.thread = t,
                                        !.count = Cardinality(OnThread(t))]]
      BY <1>3 DEF Load
    <2>2. [NoQuery EXCEPT !.thread = t, !.count = Cardinality(OnThread(t))] \in Query
      BY <1>3, QueryTyped
    <2>3. got' \in [Task -> Query]
      BY <1>1, <2>1, <2>2
    <2> QED
      BY <2>1, <2>3, GotoLemma, LoadBegins
  <1> QED
    BY <1>2, <1>3

\* What follows a refresh.
LEMMA AfterRefreshLemma ==
    ASSUME TypeOK, RowsBounded, LoadsOnce, Labels, NEW k \in Task \ LoadingTasks,
           pc[k] \in {"threads", "total"}, AfterRefresh(k)
    PROVE  /\ pc' \in [Task -> PC] /\ pc'[k] \in {"idle", "first"}
           /\ pc'[k] = "first" => k = "app"
           /\ \A j \in Task \ {k} : pc'[j] = pc[j] \/ (j = "timer" /\ pc'[j] = "idle")
           /\ pc'["timer"] # "off"
           /\ highlight' \in 0 .. Len(listed) /\ (highlight' = 0 <=> listed = << >>)
           /\ events' = events \/ (pc["timer"] = "off" /\ events' = events + 1)
           /\ got' \in [Task -> Query] /\ \A j \in Task \ {k} : got'[j] = got[j]
           /\ loads' \in Seq(Task) /\ LoadsOnce' /\ InFlight' = LoadingTasks'
  <1>1. /\ got \in [Task -> Query] /\ loads \in Seq(Task) /\ InFlight = LoadingTasks
        /\ highlight \in 0 .. Len(listed) /\ (highlight = 0 <=> listed = << >>)
        /\ pc \in [Task -> PC]
    BY DEF TypeOK, InFlight, LoadingTasks
  <1>2. CASE pc["timer"] # "off"
    <2>1. Goto(k, "idle") /\ UNCHANGED <<highlight, events, got, loads>>
      BY <1>2 DEF AfterRefresh
    <2>2. "idle" \in PC /\ "idle" \notin Loading
      BY DEF PC, Loading
    <2>3. LoadingTasks' = LoadingTasks /\ InFlight' = InFlight /\ LoadsOnce'
      BY <2>1, <2>2, GotoLemma DEF InFlight, LoadsOnce
    <2>4. /\ pc' \in [Task -> PC] /\ pc'[k] = "idle"
          /\ \A j \in Task \ {k} : pc'[j] = pc[j]
      BY <2>1, <2>2, GotoLemma
    <2>5. pc'["timer"] # "off"
      BY <1>2, <2>4 DEF Task
    <2> QED
      BY <1>1, <2>1, <2>3, <2>4, <2>5
  <1>3. CASE pc["timer"] = "off"
    <2> DEFINE at == {i \in DOMAIN listed : listed[i] = Initial}
               now == IF at = {} THEN highlight ELSE CHOOSE i \in at : TRUE
               t == IF Initial = None THEN None ELSE SelectedIn(listed, now)
    <2>1. k = "app"
      BY <1>3 DEF Task
    <2>2. /\ highlight' = now
          /\ events' = IF now = highlight THEN events ELSE events + 1
          /\ pc' = [pc EXCEPT !["timer"] = "idle",
                              ![k] = IF t = None THEN "idle" ELSE "first"]
          /\ IF t = None
             THEN UNCHANGED <<got, loads>>
             ELSE /\ got' = [got EXCEPT ![k] = [NoQuery EXCEPT !.thread = t,
                                               !.count = Cardinality(OnThread(t))]]
                  /\ loads' = Append(loads, k)
      BY <1>3 DEF AfterRefresh
    <2>3. listed \in Seq(Thread) /\ Len(listed) \in Nat /\ DOMAIN listed = 1 .. Len(listed)
          /\ \A i \in DOMAIN listed : listed[i] \in Thread
      BY LenProperties, ElementOfSeq DEF TypeOK
    <2>4. now \in 0 .. Len(listed) /\ (now = 0 <=> listed = << >>)
      <3>1. CASE at = {}
        BY <1>1, <3>1
      <3>2. CASE at # {}
        <4>1. now \in at
          BY <3>2
        <4> QED
          BY <2>3, <4>1, EmptySeq
      <3> QED
        BY <3>1, <3>2
    <2> HIDE DEF now
    <2>5. t \in Thread \cup {None}
      BY <2>3 DEF SelectedIn
    <2> HIDE DEF t
    <2>6. /\ pc' \in [Task -> PC] /\ pc'["timer"] = "idle"
          /\ pc'["app"] = IF t = None THEN "idle" ELSE "first"
      BY <1>1, <2>1, <2>2 DEF Task, PC
    <2>7. LoadingTasks' = IF t = None THEN LoadingTasks ELSE LoadingTasks \cup {k}
      BY <1>3, <2>1, <2>6 DEF LoadingTasks, Loading, Task
    <2>8. got' \in [Task -> Query] /\ loads' \in Seq(Task) /\ LoadsOnce'
          /\ InFlight' = LoadingTasks'
      <3>1. CASE t = None
        BY <1>1, <2>2, <2>7, <3>1 DEF InFlight, LoadsOnce
      <3>2. CASE t # None
        <4>1. [NoQuery EXCEPT !.thread = t, !.count = Cardinality(OnThread(t))] \in Query
          BY <2>5, <3>2, QueryTyped
        <4>2. got' \in [Task -> Query]
          BY <1>1, <2>2, <3>2, <4>1
        <4> QED
          BY <2>2, <2>7, <3>2, <4>2, LoadBegins
      <3> QED
        BY <3>1, <3>2
    <2> QED
      BY <1>3, <2>1, <2>2, <2>4, <2>6, <2>8 DEF Task
  <1> QED
    BY <1>2, <1>3

-----------------------------------------------------------------------------
(***************************************************************************)
(* What is left alone stays true.                                          *)
(***************************************************************************)

\* Steps in which no task moves.
LEMMA TasksStay ==
    ASSUME MonitorInv, UNCHANGED <<log, taskVars>>
    PROVE  /\ RowsBounded' /\ Labels' /\ LoadsOnce' /\ SendReady' /\ ProposalTrue'
           /\ InFlight' = LoadingTasks'
           /\ Coming("app")' = Coming("app") /\ Coming("timer")' = Coming("timer")
  <1>1. UNCHANGED <<log, pc, rows, got, loads>>
    BY DEF taskVars
  <1>2. InFlight = LoadingTasks
    BY DEF MonitorInv, TypeOK, InFlight, LoadingTasks
  <1>3. RowsBounded' /\ Labels' /\ LoadsOnce' /\ SendReady' /\ ProposalTrue'
    BY <1>1 DEF MonitorInv, RowsBounded, Labels, LoadsOnce, SendReady, ProposalTrue,
                OnThread
  <1>4. InFlight' = LoadingTasks'
    BY <1>1, <1>2 DEF InFlight, LoadingTasks
  <1> QED
    BY <1>1, <1>3, <1>4 DEF Coming

\* What the form or a proposal says of the table stays true.
LEMMA FormStays ==
    ASSUME MonitorInv, UNCHANGED <<log, form>>
    PROVE  FormAddressesThread'
  BY DEF MonitorInv, FormAddressesThread, OnThread

LEMMA ProposalStays ==
    ASSUME MonitorInv, UNCHANGED log,
           \/ pc'["app"] \notin {"send", "prefill"}
           \/ pc'["app"] = pc["app"] /\ got'["app"] = got["app"]
    PROVE  SendReady' /\ ProposalTrue' /\ RowsBounded'
  <1>1. Len(log) \in Nat /\ MaxRows \in Nat
    BY LenProperties, MonitorAssumption DEF MonitorInv, TypeOK
  <1>2. SendReady' /\ ProposalTrue'
    BY DEF MonitorInv, SendReady, ProposalTrue, OnThread
  <1>3. RowsBounded'
    BY <1>1 DEF MonitorInv, RowsBounded
  <1> QED
    BY <1>2, <1>3

-----------------------------------------------------------------------------
(***************************************************************************)
(* The steps.                                                              *)
(***************************************************************************)

LEMMA MonitorInvInit == Init => MonitorInv
  <1> SUFFICES ASSUME Init PROVE MonitorInv
    OBVIOUS
  <1> USE MonitorAssumption
  <1>1. DOMAIN << >> = {} /\ << >> \in Seq(Thread) /\ << >> \in Seq(Task) /\ Len(<< >>) = 0
    BY EmptySeq
  <1>2. TypeOK
    <2>1. pc \in [Task -> PC] /\ \A k \in Task : pc[k] \notin Loading
      BY DEF Init, PC, Loading, Task
    <2>2. got \in [Task -> Query]
      BY NoQueryTyped DEF Init
    <2> QED
      BY <1>1, <2>1, <2>2 DEF Init, TypeOK
  <1>3. RowsBounded
    BY LenProperties DEF Init, RowsBounded, Task
  <1>4. Labels /\ LoadsOnce /\ SendReady /\ ProposalTrue /\ FormAddressesThread
    BY <1>1 DEF Init, Labels, LoadsOnce, SendReady, ProposalTrue, FormAddressesThread, Task
  <1>5. EventsBounded
    BY DEF Init, EventsBounded, Coming, Task
  <1> QED
    BY <1>2, <1>3, <1>4, <1>5 DEF MonitorInv

\* The timer, or the refresh key, begins a refresh.
LEMMA MonitorInvBegin ==
    ASSUME MonitorInv, NEW k \in Task, pc[k] = "idle", events < MaxEvents,
           BeginRefresh(k),
           UNCHANGED <<tableVars, listVars, panelVars, form, rows, got, loads, failures>>
    PROVE  MonitorInv'
  <1>1. /\ UNCHANGED <<log, ledger, listed, highlight, events, panel, cursor, form,
                       rows, got, loads, failures>>
        /\ refreshing' = TRUE /\ Goto(k, "threads")
    BY DEF BeginRefresh, tableVars, listVars, panelVars
  <1>2. TypeOK /\ Labels /\ k \notin LoadingTasks
    BY DEF MonitorInv, LoadingTasks, Loading
  <1>3. "threads" \in PC /\ "threads" \notin Loading
    BY DEF PC, Loading
  <1>4. /\ pc' \in [Task -> PC] /\ pc'[k] = "threads"
        /\ \A j \in Task \ {k} : pc'[j] = pc[j]
        /\ LoadingTasks' = LoadingTasks
    BY <1>1, <1>2, <1>3, GotoLemma
  <1>5. TypeOK'
    BY <1>1, <1>2, <1>4 DEF TypeOK, LoadingTasks
  <1>6. Labels' /\ LoadsOnce'
    BY <1>1, <1>2, <1>4 DEF MonitorInv, Labels, LoadsOnce, Task
  <1>7. EventsBounded'
    <2>1. Coming("app")' \in 0 .. 1 /\ Coming("timer")' \in 0 .. 1
      BY <1>2, <1>4 DEF Coming, Labels, Task
    <2>2. events \in Nat /\ MaxEvents \in Nat
      BY <1>2, MonitorAssumption DEF TypeOK
    <2> QED
      BY <1>1, <2>1, <2>2 DEF EventsBounded
  <1>8. SendReady' /\ ProposalTrue' /\ RowsBounded' /\ FormAddressesThread'
    <2>1. pc'["app"] \notin {"send", "prefill"} \/ pc'["app"] = pc["app"]
      BY <1>4 DEF Task
    <2> QED
      BY <1>1, <2>1, ProposalStays, FormStays
  <1> QED
    BY <1>5, <1>6, <1>7, <1>8 DEF MonitorInv

LEMMA MonitorInvFetch ==
    ASSUME MonitorInv, NEW k \in Task, FetchThreads(k)
    PROVE  MonitorInv'
  <1>1. /\ UNCHANGED <<log, ledger, listed, highlight, events, panel, cursor, form,
                       refreshing, got, loads, failures>>
        /\ rows' = [rows EXCEPT ![k] = ByActivity]
        /\ pc[k] = "threads" /\ Goto(k, "costs")
    BY DEF FetchThreads, tableVars, listVars, panelVars
  <1>2. TypeOK /\ Labels /\ k \notin LoadingTasks
    BY <1>1 DEF MonitorInv, LoadingTasks, Loading
  <1>3. "costs" \in PC /\ "costs" \notin Loading
    BY DEF PC, Loading
  <1>4. /\ pc' \in [Task -> PC] /\ pc'[k] = "costs"
        /\ \A j \in Task \ {k} : pc'[j] = pc[j]
        /\ LoadingTasks' = LoadingTasks
    BY <1>1, <1>2, <1>3, GotoLemma
  <1>5. ByActivity \in Seq(Thread)
    BY <1>2, ActivityThreads DEF TypeOK, Row
  <1>6. TypeOK'
    BY <1>1, <1>2, <1>4, <1>5 DEF TypeOK, LoadingTasks
  <1>7. Labels' /\ LoadsOnce'
    BY <1>1, <1>2, <1>4 DEF MonitorInv, Labels, LoadsOnce, Task
  <1>8. EventsBounded'
    <2>1. Coming("app")' = Coming("app") /\ Coming("timer")' = Coming("timer")
      BY <1>1, <1>2, <1>4 DEF Coming, Labels, Task
    <2> QED
      BY <1>1, <2>1 DEF MonitorInv, EventsBounded
  <1>9. SendReady' /\ ProposalTrue' /\ RowsBounded' /\ FormAddressesThread'
    <2>1. pc'["app"] \notin {"send", "prefill"} \/ pc'["app"] = pc["app"]
      BY <1>4 DEF Task
    <2> QED
      BY <1>1, <2>1, ProposalStays, FormStays
  <1> QED
    BY <1>6, <1>7, <1>8, <1>9 DEF MonitorInv

\* The list is updated and the selected thread is loaded, also when the query
\* of the costs raised.
LEMMA MonitorInvList ==
    ASSUME MonitorInv, NEW k \in Task, NEW threads \in Seq(Thread),
           ListThreads(k, threads), failures' \in 0 .. MaxFailures
    PROVE  MonitorInv'
  <1>1. /\ UNCHANGED <<log, ledger, panel, cursor, form, refreshing>>
        /\ rows' = [rows EXCEPT ![k] = << >>]
        /\ pc[k] = "costs" /\ UpdateThreads(threads)
        /\ Load(k, SelectedIn(listed', highlight'), "load", "total")
    BY DEF ListThreads, tableVars, panelVars
  <1>2. /\ TypeOK /\ Labels /\ LoadsOnce /\ RowsBounded
        /\ k \in Task \ LoadingTasks /\ pc \in [Task -> PC]
    BY <1>1 DEF MonitorInv, TypeOK, LoadingTasks, Loading
  <1>3. /\ listed' \in Seq(Thread) /\ highlight' \in 0 .. Len(listed')
        /\ highlight' = 0 <=> listed' = << >>
        /\ events' \in {events, events + 1}
        /\ SelectedIn(listed', highlight') \in Thread \cup {None}
    BY <1>1, <1>2, ListUpdated
  <1>4. "load" \in PC \cap Loading /\ "total" \in PC \ Loading
    BY DEF PC, Loading
  <1>5. /\ pc' \in [Task -> PC] /\ pc'[k] \in {"load", "total"}
        /\ \A j \in Task \ {k} : pc'[j] = pc[j]
        /\ got' \in [Task -> Query] /\ \A j \in Task \ {k} : got'[j] = got[j]
        /\ loads' \in Seq(Task) /\ LoadsOnce' /\ InFlight' = LoadingTasks'
    <2>1. PICK t : t = SelectedIn(listed', highlight')
      OBVIOUS
    <2>2. Load(k, t, "load", "total") /\ t \in Thread \cup {None}
      BY <1>1, <1>3, <2>1
    <2> QED
      BY <1>2, <1>4, <2>2, LoadOrNot
  <1>6. EventsBounded' /\ events' \in 0 .. MaxEvents + 2
    <2>1. events \in Nat /\ MaxEvents \in Nat
      BY <1>2, MonitorAssumption DEF TypeOK
    <2>2. events' \in Nat /\ events' <= events + 1
      BY <1>3, <2>1
    <2>3. Coming("app")' \in 0 .. 2 /\ Coming("timer")' \in 0 .. 2
          /\ Coming("app") \in 0 .. 2 /\ Coming("timer") \in 0 .. 2
      BY DEF Coming
    <2>4. events + Coming("app") + Coming("timer") <= MaxEvents + 2
      BY DEF MonitorInv, EventsBounded
    <2>5. CASE k = "app"
      <3>1. Coming("app")' + 1 = Coming("app") /\ Coming("timer")' = Coming("timer")
        BY <1>1, <1>2, <1>5, <2>5 DEF Coming, Labels, Task
      <3> QED
        BY <2>1, <2>2, <2>3, <2>4, <3>1 DEF EventsBounded
    <2>6. CASE k = "timer"
      <3>1. Coming("app")' = Coming("app") /\ Coming("timer")' + 1 = Coming("timer")
        BY <1>1, <1>2, <1>5, <2>6 DEF Coming, Labels, Task
      <3> QED
        BY <2>1, <2>2, <2>3, <2>4, <3>1 DEF EventsBounded
    <2>7. EventsBounded'
      BY <2>5, <2>6 DEF Task
    <2> QED
      BY <2>1, <2>2, <2>3, <2>7 DEF EventsBounded
  <1>7. TypeOK'
    <2>1. << >> \in Seq(Thread)
      BY EmptySeq
    <2>2. rows' \in [Task -> Seq(Thread)]
      BY <1>1, <1>2, <2>1 DEF TypeOK
    <2> QED
      BY <1>1, <1>2, <1>3, <1>5, <1>6, <2>2 DEF TypeOK, InFlight, LoadingTasks
  <1>8. Labels'
    BY <1>1, <1>2, <1>5 DEF Labels, Task
  <1>9. SendReady' /\ ProposalTrue' /\ RowsBounded' /\ FormAddressesThread'
    <2>1. \/ pc'["app"] \notin {"send", "prefill"}
          \/ pc'["app"] = pc["app"] /\ got'["app"] = got["app"]
      BY <1>5 DEF Task
    <2> QED
      BY <1>1, <2>1, ProposalStays, FormStays
  <1> QED
    BY <1>5, <1>6, <1>7, <1>8, <1>9 DEF MonitorInv

LEMMA MonitorInvRefreshThreads ==
    ASSUME MonitorInv, NEW k \in Task, RefreshThreads(k) \/ CostQueryFails(k)
    PROVE  MonitorInv'
  <1>1. rows[k] \in Seq(Thread) /\ failures \in 0 .. MaxFailures
    BY DEF MonitorInv, TypeOK
  <1>2. CASE RefreshThreads(k)
    <2>1. PICK threads : threads = Kept(rows[k])
      OBVIOUS
    <2>2. threads \in Seq(Thread) /\ ListThreads(k, threads) /\ failures' = failures
      BY <1>1, <1>2, <2>1, KeptThreads DEF RefreshThreads
    <2> QED
      BY <1>1, <2>2, MonitorInvList
  <1>3. CASE CostQueryFails(k)
    <2>1. ListThreads(k, rows[k]) /\ failures' \in 0 .. MaxFailures
      BY <1>1, <1>3, MonitorAssumption DEF CostQueryFails
    <2> QED
      BY <1>1, <2>1, MonitorInvList
  <1> QED
    BY <1>2, <1>3

\* A task that has loaded goes on.
LEMMA MonitorInvLoaded ==
    ASSUME MonitorInv, NEW k \in Task,
           ShowLoaded(k) \/ LoadFails(k) \/ (k = "app" /\ InitialLoaded)
    PROVE  MonitorInv'
  <1>1. /\ UNCHANGED <<log, ledger, listed, highlight, events, form, refreshing, rows>>
        /\ Answered(k) /\ got' = [got EXCEPT ![k] = NoQuery]
        /\ Display(k) \/ UNCHANGED <<panel, cursor>>
        /\ \/ failures' = failures
           \/ failures < MaxFailures /\ failures' = failures + 1
    BY DEF ShowLoaded, LoadFails, InitialLoaded, tableVars, listVars, panelVars
  <1>2. PICK label \in {"total", "idle"} :
            /\ Goto(k, label)
            /\ label = "total" => pc[k] = "load"
            /\ label = "idle" => pc[k] = "first" /\ k = "app"
    BY DEF ShowLoaded, LoadFails, InitialLoaded
  <1>3. TypeOK /\ Labels /\ LoadsOnce /\ label \in PC \ Loading
    BY DEF MonitorInv, PC, Loading
  <1>4. /\ pc' \in [Task -> PC] /\ pc'[k] = label
        /\ \A j \in Task \ {k} : pc'[j] = pc[j]
        /\ LoadingTasks' = LoadingTasks \ {k}
    BY <1>2, <1>3, GotoLemma
  <1>5. /\ loads' \in Seq(Task) /\ LoadsOnce' /\ InFlight' = LoadingTasks \ {k}
        /\ panel' \in [thread : Thread \cup {None}, count : 0 .. MaxRows]
        /\ cursor' \in 0 .. panel'.count /\ (cursor' = 0 <=> panel'.count = 0)
    BY <1>1, <1>3, LoadEnds, PanelFilled DEF TypeOK
  <1>6. got' \in [Task -> Query] /\ \A j \in Task \ {k} : got'[j] = got[j]
    BY <1>1, <1>3, NoQueryTyped DEF TypeOK
  <1>7. TypeOK'
    <2>1. failures' \in 0 .. MaxFailures
      BY <1>1, <1>3, MonitorAssumption DEF TypeOK
    <2> QED
      BY <1>1, <1>3, <1>4, <1>5, <1>6, <2>1 DEF TypeOK, InFlight, LoadingTasks
  <1>8. Labels'
    BY <1>2, <1>3, <1>4 DEF Labels, Task
  <1>9. EventsBounded'
    <2>1. Coming("app")' = Coming("app") /\ Coming("timer")' = Coming("timer")
      BY <1>2, <1>3, <1>4 DEF Coming, Labels, Task
    <2> QED
      BY <1>1, <2>1 DEF MonitorInv, EventsBounded
  <1>10. SendReady' /\ ProposalTrue' /\ RowsBounded' /\ FormAddressesThread'
    <2>1. \/ pc'["app"] \notin {"send", "prefill"}
          \/ pc'["app"] = pc["app"] /\ got'["app"] = got["app"]
      BY <1>2, <1>4, <1>6 DEF Task
    <2> QED
      BY <1>1, <2>1, ProposalStays, FormStays
  <1> QED
    BY <1>5, <1>7, <1>8, <1>9, <1>10 DEF MonitorInv

\* A refresh ends, or a query of it raises.
LEMMA MonitorInvEnd ==
    ASSUME MonitorInv, NEW k \in Task, EndRefresh(k) \/ RefreshFails(k)
    PROVE  MonitorInv'
  <1>1. /\ UNCHANGED <<log, ledger, listed, panel, cursor, form, rows>>
        /\ pc[k] \in {"threads", "total"} /\ refreshing' = FALSE /\ AfterRefresh(k)
    BY DEF EndRefresh, RefreshFails, tableVars, panelVars
  <1>2. failures' \in 0 .. MaxFailures
    <2>1. failures \in 0 .. MaxFailures /\ MaxFailures \in Nat
      BY MonitorAssumption DEF MonitorInv, TypeOK
    <2>2. failures' = failures \/ (failures < MaxFailures /\ failures' = failures + 1)
      BY DEF EndRefresh, RefreshFails
    <2> QED
      BY <2>1, <2>2
  <1>3. /\ TypeOK /\ Labels /\ LoadsOnce /\ RowsBounded
        /\ k \in Task \ LoadingTasks /\ pc \in [Task -> PC]
    BY <1>1 DEF MonitorInv, TypeOK, LoadingTasks, Loading
  <1>4. /\ pc' \in [Task -> PC] /\ pc'[k] \in {"idle", "first"}
        /\ pc'[k] = "first" => k = "app"
        /\ \A j \in Task \ {k} : pc'[j] = pc[j] \/ (j = "timer" /\ pc'[j] = "idle")
        /\ pc'["timer"] # "off"
        /\ highlight' \in 0 .. Len(listed) /\ (highlight' = 0 <=> listed = << >>)
        /\ events' = events \/ (pc["timer"] = "off" /\ events' = events + 1)
        /\ got' \in [Task -> Query] /\ \A j \in Task \ {k} : got'[j] = got[j]
        /\ loads' \in Seq(Task) /\ LoadsOnce' /\ InFlight' = LoadingTasks'
    BY <1>1, <1>3, AfterRefreshLemma
  <1>5. EventsBounded' /\ events' \in 0 .. MaxEvents + 2
    <2>1. events \in Nat /\ MaxEvents \in Nat
      BY <1>3, MonitorAssumption DEF TypeOK
    <2>2. events + Coming("app") + Coming("timer") <= MaxEvents + 2
      BY DEF MonitorInv, EventsBounded
    <2>3. Coming("app")' \in 0 .. 1 /\ Coming("timer")' \in 0 .. 1
          /\ Coming("app") \in 0 .. 2 /\ Coming("timer") \in 0 .. 2
      BY <1>4 DEF Coming
    <2>4. CASE pc["timer"] = "off"
      <3>1. Coming("app") >= 1 /\ Coming("app")' = 0 /\ Coming("timer")' = 0
        BY <1>1, <1>3, <1>4, <2>4 DEF Coming, Labels, Task
      <3> QED
        BY <1>4, <2>1, <2>2, <2>3, <3>1 DEF EventsBounded
    <2>5. CASE pc["timer"] # "off"
      <3>1. Coming("app")' <= Coming("app") /\ Coming("timer")' <= Coming("timer")
            /\ events' = events
        BY <1>1, <1>3, <1>4, <2>5 DEF Coming, Labels, Task
      <3> QED
        BY <2>1, <2>2, <2>3, <3>1 DEF EventsBounded
    <2> QED
      BY <2>4, <2>5
  <1>6. TypeOK'
    BY <1>1, <1>2, <1>3, <1>4, <1>5 DEF TypeOK, InFlight, LoadingTasks
  <1>7. Labels'
    BY <1>1, <1>3, <1>4 DEF Labels, Task
  <1>8. SendReady' /\ ProposalTrue' /\ RowsBounded' /\ FormAddressesThread'
    <2>1. \/ pc'["app"] \notin {"send", "prefill"}
          \/ pc'["app"] = pc["app"] /\ got'["app"] = got["app"]
      BY <1>4 DEF Task
    <2> QED
      BY <1>1, <2>1, ProposalStays, FormStays
  <1> QED
    BY <1>4, <1>5, <1>6, <1>7, <1>8 DEF MonitorInv

\* A highlight of the human, or one that the app ignores.
LEMMA MonitorInvHighlight ==
    ASSUME MonitorInv, IgnoreHighlight \/ \E i \in DOMAIN listed : Highlight(i)
    PROVE  MonitorInv'
  <1>1. /\ UNCHANGED <<log, ledger, listed, panel, cursor, form, refreshing, failures>>
        /\ UNCHANGED <<log, taskVars>> /\ UNCHANGED <<pc, rows, got, loads>>
    BY DEF IgnoreHighlight, Highlight, tableVars, panelVars, taskVars
  <1>2. TypeOK /\ events \in Nat /\ MaxEvents \in Nat
        /\ DOMAIN listed = 1 .. Len(listed) /\ Len(listed) \in Nat
        /\ events + Coming("app") + Coming("timer") <= MaxEvents + 2
    <2>1. TypeOK /\ events \in Nat /\ MaxEvents \in Nat
      BY MonitorAssumption DEF MonitorInv, TypeOK
    <2>2. DOMAIN listed = 1 .. Len(listed) /\ Len(listed) \in Nat
      BY <2>1, LenProperties DEF TypeOK
    <2>3. events + Coming("app") + Coming("timer") <= MaxEvents + 2
      BY DEF MonitorInv, EventsBounded
    <2> QED
      BY <2>1, <2>2, <2>3
  <1>3. Coming("app") \in 0 .. 2 /\ Coming("timer") \in 0 .. 2
        /\ Coming("app") + Coming("timer") <= 2
    BY DEF MonitorInv, TypeOK, Labels, Coming, Task
  <1>4. /\ RowsBounded' /\ Labels' /\ LoadsOnce' /\ SendReady' /\ ProposalTrue'
        /\ Coming("app")' = Coming("app") /\ Coming("timer")' = Coming("timer")
    BY <1>1, TasksStay
  <1>5. FormAddressesThread'
    BY <1>1, FormStays
  <1>6. CASE IgnoreHighlight
    <2>1. events > 0 /\ events' = events - 1 /\ highlight' = highlight
      BY <1>6 DEF IgnoreHighlight
    <2>2. events' \in Nat /\ events' <= events
      BY <1>2, <2>1
    <2>3. EventsBounded'
      BY <1>2, <1>3, <1>4, <2>2 DEF EventsBounded
    <2>4. events' \in 0 .. MaxEvents + 2
      BY <1>2, <2>2 DEF TypeOK
    <2>5. TypeOK'
      BY <1>1, <1>2, <2>1, <2>4 DEF TypeOK
    <2> QED
      BY <1>4, <1>5, <2>3, <2>5 DEF MonitorInv
  <1>7. ASSUME NEW i \in DOMAIN listed, Highlight(i)
        PROVE  MonitorInv'
    <2>1. /\ highlight' = i /\ events' = events + 1 /\ events < MaxEvents
          /\ listed # << >>
      BY <1>2, <1>7, EmptySeq DEF Highlight
    <2>2. events' \in Nat /\ events' <= MaxEvents
      BY <1>2, <2>1
    <2>3. EventsBounded'
      BY <1>2, <1>3, <1>4, <2>2 DEF EventsBounded
    <2>4. TypeOK'
      BY <1>1, <1>2, <2>1, <2>2 DEF TypeOK
    <2> QED
      BY <1>4, <1>5, <2>3, <2>4 DEF MonitorInv
  <1> QED
    BY <1>6, <1>7

LEMMA MonitorInvFollowHighlight ==
    ASSUME MonitorInv, FollowHighlight
    PROVE  MonitorInv'
  <1>1. /\ UNCHANGED <<log, ledger, listed, highlight, panel, cursor, form, refreshing,
                       rows, failures>>
        /\ pc["app"] = "idle" /\ events > 0 /\ events' = events - 1
        /\ Load("app", Selected, "follow", "idle")
    BY DEF FollowHighlight, tableVars, panelVars
  <1>2. /\ TypeOK /\ Labels /\ LoadsOnce /\ RowsBounded
        /\ "app" \in Task \ LoadingTasks /\ pc \in [Task -> PC]
        /\ events \in Nat /\ MaxEvents \in Nat
    <2>1. "app" \in Task \ LoadingTasks
      BY <1>1 DEF LoadingTasks, Loading, Task
    <2>2. pc \in [Task -> PC] /\ events \in Nat /\ MaxEvents \in Nat
      BY MonitorAssumption DEF MonitorInv, TypeOK
    <2> QED
      BY <2>1, <2>2 DEF MonitorInv
  <1>3. "follow" \in PC \cap Loading /\ "idle" \in PC \ Loading
    BY DEF PC, Loading
  <1>4. /\ pc' \in [Task -> PC] /\ pc'["app"] \in {"follow", "idle"}
        /\ \A j \in Task \ {"app"} : pc'[j] = pc[j]
        /\ got' \in [Task -> Query]
        /\ loads' \in Seq(Task) /\ LoadsOnce' /\ InFlight' = LoadingTasks'
    BY <1>1, <1>2, <1>3, SelectedThread, LoadOrNot
  <1>5. events' \in Nat /\ events' <= events
    BY <1>1, <1>2
  <1>6. TypeOK'
    <2>1. events' \in 0 .. MaxEvents + 2
      BY <1>2, <1>5 DEF TypeOK
    <2> QED
      BY <1>1, <1>2, <1>4, <2>1 DEF TypeOK, InFlight, LoadingTasks
  <1>7. Labels'
    BY <1>1, <1>2, <1>4 DEF Labels, Task
  <1>8. EventsBounded'
    <2>1. Coming("app")' = Coming("app") /\ Coming("timer")' = Coming("timer")
      BY <1>1, <1>2, <1>4 DEF Coming, Labels, Task
    <2>2. Coming("app") \in 0 .. 2 /\ Coming("timer") \in 0 .. 2
      BY DEF Coming
    <2>3. events + Coming("app") + Coming("timer") <= MaxEvents + 2
      BY DEF MonitorInv, EventsBounded
    <2> QED
      BY <1>2, <1>5, <2>1, <2>2, <2>3 DEF EventsBounded
  <1>9. SendReady' /\ ProposalTrue' /\ RowsBounded' /\ FormAddressesThread'
    BY <1>1, <1>4, ProposalStays, FormStays
  <1> QED
    BY <1>4, <1>6, <1>7, <1>8, <1>9 DEF MonitorInv

\* The proposal is of the thread that is selected when the messages are shown.
LEMMA MonitorInvFollowLoaded ==
    ASSUME MonitorInv, FollowLoaded
    PROVE  MonitorInv'
  <1> DEFINE asked == [NoQuery EXCEPT !.thread = Selected, !.to = ReplyTo(Selected)]
  <1>1. /\ UNCHANGED <<log, ledger, listed, highlight, events, form, refreshing, rows,
                       failures>>
        /\ pc["app"] = "follow" /\ Answered("app") /\ Display("app")
        /\ \/ Goto("app", "idle") /\ got' = [got EXCEPT !["app"] = NoQuery]
           \/ /\ Selected # None
              /\ Goto("app", "prefill") /\ got' = [got EXCEPT !["app"] = asked]
    BY DEF FollowLoaded, tableVars, listVars
  <1>2. TypeOK /\ Labels /\ LoadsOnce /\ "app" \in Task /\ log \in Seq(Row)
    BY DEF MonitorInv, TypeOK, Task, Row
  <1>3. "idle" \in PC \ Loading /\ "prefill" \in PC \ Loading
    BY DEF PC, Loading
  <1>4. /\ pc' \in [Task -> PC] /\ pc'["app"] \in {"idle", "prefill"}
        /\ \A j \in Task \ {"app"} : pc'[j] = pc[j]
        /\ LoadingTasks' = LoadingTasks \ {"app"}
        /\ pc'["app"] = "prefill" => Selected # None /\ got' = [got EXCEPT !["app"] = asked]
    BY <1>1, <1>2, <1>3, GotoLemma
  <1>5. /\ loads' \in Seq(Task) /\ LoadsOnce' /\ InFlight' = LoadingTasks \ {"app"}
        /\ panel' \in [thread : Thread \cup {None}, count : 0 .. MaxRows]
        /\ cursor' \in 0 .. panel'.count /\ (cursor' = 0 <=> panel'.count = 0)
    BY <1>1, <1>2, LoadEnds, PanelFilled
  <1>6. Selected # None => /\ asked \in Query
                           /\ asked.thread = Selected /\ asked.to = ReplyTo(Selected)
    BY <1>2, NoQueryTyped, SelectedThread, ReplyToWriter DEF NoQuery, Query
  <1>7. got' \in [Task -> Query]
    <2>1. got \in [Task -> Query]
      BY <1>2 DEF TypeOK
    <2> HIDE DEF asked
    <2> QED
      BY <1>1, <1>6, <2>1, NoQueryTyped
  <1>8. TypeOK'
    BY <1>1, <1>2, <1>4, <1>5, <1>7 DEF TypeOK, InFlight, LoadingTasks
  <1>9. Labels'
    BY <1>1, <1>2, <1>4 DEF Labels, Task
  <1>10. EventsBounded'
    <2>1. Coming("app")' = Coming("app") /\ Coming("timer")' = Coming("timer")
      BY <1>1, <1>2, <1>4 DEF Coming, Labels, Task
    <2> QED
      BY <1>1, <2>1 DEF MonitorInv, EventsBounded
  <1>11. ProposalTrue'
    <2> SUFFICES ASSUME pc'["app"] = "prefill", got'["app"].to # None
                 PROVE  \E i \in OnThread(got'["app"].thread) : log[i].from = got'["app"].to
      BY <1>1 DEF ProposalTrue, OnThread
    <2>1. got'["app"].thread = Selected /\ got'["app"].to = ReplyTo(Selected)
      <3>1. got'["app"] = asked
        BY <1>2, <1>4 DEF TypeOK
      <3> QED
        BY <1>4, <1>6, <3>1
    <2> QED
      BY <1>2, <2>1, ReplyToWriter
  <1>12. SendReady' /\ RowsBounded' /\ FormAddressesThread'
    <2>1. RowsBounded'
      BY <1>1, <1>4, LenProperties, MonitorAssumption
         DEF MonitorInv, TypeOK, RowsBounded
    <2> QED
      BY <1>1, <1>4, <2>1, FormStays DEF SendReady
  <1> QED
    BY <1>5, <1>8, <1>9, <1>10, <1>11, <1>12 DEF MonitorInv

\* The form takes over the thread and the proposal of one query.
LEMMA MonitorInvPrefill ==
    ASSUME MonitorInv, Prefill
    PROVE  MonitorInv'
  <1>1. /\ UNCHANGED <<log, ledger, listed, highlight, events, panel, cursor, refreshing,
                       rows, loads, failures>>
        /\ pc["app"] = "prefill" /\ Goto("app", "idle")
        /\ form' = [to |-> got["app"].to, thread |-> got["app"].thread, edited |-> FALSE]
        /\ got' = [got EXCEPT !["app"] = NoQuery]
    BY DEF Prefill, tableVars, listVars, panelVars
  <1>2. TypeOK /\ Labels /\ LoadsOnce /\ "app" \in Task \ LoadingTasks
        /\ "idle" \in PC \ Loading /\ got["app"] \in Query
    BY <1>1 DEF MonitorInv, TypeOK, Task, LoadingTasks, PC, Loading
  <1>3. /\ pc' \in [Task -> PC] /\ pc'["app"] = "idle"
        /\ \A j \in Task \ {"app"} : pc'[j] = pc[j]
        /\ LoadingTasks' = LoadingTasks
    <2>1. /\ pc' \in [Task -> PC] /\ pc'["app"] = "idle"
          /\ \A j \in Task \ {"app"} : pc'[j] = pc[j]
          /\ LoadingTasks' = LoadingTasks \ {"app"}
      BY <1>1, <1>2, GotoLemma
    <2> QED
      BY <1>2, <2>1
  <1>4. form' \in [to : Name \cup {None}, thread : Thread \cup {None}, edited : BOOLEAN]
    BY <1>1, <1>2 DEF Query
  <1>5. got' \in [Task -> Query]
    BY <1>1, <1>2, NoQueryTyped DEF TypeOK
  <1>6. TypeOK'
    BY <1>1, <1>2, <1>3, <1>4, <1>5 DEF TypeOK, LoadingTasks
  <1>7. Labels' /\ LoadsOnce'
    BY <1>1, <1>2, <1>3 DEF Labels, LoadsOnce, Task
  <1>8. EventsBounded'
    <2>1. Coming("app")' = Coming("app") /\ Coming("timer")' = Coming("timer")
      BY <1>1, <1>2, <1>3 DEF Coming, Labels, Task
    <2> QED
      BY <1>1, <2>1 DEF MonitorInv, EventsBounded
  <1>9. FormAddressesThread'
    BY <1>1 DEF MonitorInv, FormAddressesThread, ProposalTrue, OnThread
  <1>10. SendReady' /\ ProposalTrue' /\ RowsBounded'
    BY <1>1, <1>3, ProposalStays
  <1> QED
    BY <1>6, <1>7, <1>8, <1>9, <1>10 DEF MonitorInv

\* Enter: the message gets its thread, and room in the table.
LEMMA MonitorInvSubmit ==
    ASSUME MonitorInv, Submit
    PROVE  MonitorInv'
  <1>1. /\ UNCHANGED <<log, ledger, listed, highlight, events, panel, cursor, form,
                       refreshing, rows, loads, failures>>
        /\ pc["app"] = "idle" /\ Goto("app", "send")
        /\ form.to # None /\ Len(log) < MaxRows /\ events < MaxEvents
    BY DEF Submit, tableVars, listVars, panelVars
  <1>2. PICK t \in IF form.thread # None THEN {form.thread}
                   ELSE {u \in Thread : OnThread(u) = {}} :
            got' = [got EXCEPT !["app"] = [NoQuery EXCEPT !.thread = t, !.to = form.to]]
    BY DEF Submit
  <1>3. TypeOK /\ Labels /\ LoadsOnce /\ "app" \in Task \ LoadingTasks
        /\ "send" \in PC \ Loading
    BY <1>1 DEF MonitorInv, TypeOK, Task, LoadingTasks, PC, Loading
  <1>4. /\ pc' \in [Task -> PC] /\ pc'["app"] = "send"
        /\ \A j \in Task \ {"app"} : pc'[j] = pc[j]
        /\ LoadingTasks' = LoadingTasks
    BY <1>1, <1>3, GotoLemma
  <1>5. t \in Thread /\ form.to \in Name
    BY <1>1, <1>2, <1>3 DEF TypeOK
  <1> DEFINE asked == [NoQuery EXCEPT !.thread = t, !.to = form.to]
  <1>6. asked \in Query /\ asked.thread = t /\ asked.to = form.to
    BY <1>5, NoQueryTyped DEF NoQuery, Query
  <1> HIDE DEF asked
  <1>7. got' \in [Task -> Query] /\ got'["app"] = asked
    BY <1>2, <1>3, <1>6 DEF TypeOK, asked
  <1>8. TypeOK'
    BY <1>1, <1>3, <1>4, <1>7 DEF TypeOK, LoadingTasks
  <1>9. Labels' /\ LoadsOnce'
    BY <1>1, <1>3, <1>4 DEF Labels, LoadsOnce, Task
  <1>10. EventsBounded'
    <2>1. Coming("app")' \in 0 .. 1 /\ Coming("timer")' \in 0 .. 1
      BY <1>1, <1>3, <1>4 DEF Coming, Labels, Task
    <2>2. events \in Nat /\ MaxEvents \in Nat
      BY <1>3, MonitorAssumption DEF TypeOK
    <2> QED
      BY <1>1, <2>1, <2>2 DEF EventsBounded
  <1>11. RowsBounded'
    <2>1. Len(log) \in Nat /\ MaxRows \in Nat
      BY <1>3, LenProperties, MonitorAssumption DEF TypeOK
    <2> QED
      BY <1>1, <2>1 DEF RowsBounded
  <1>12. SendReady' /\ ProposalTrue' /\ FormAddressesThread'
    BY <1>1, <1>4, <1>5, <1>6, <1>7, FormStays DEF SendReady, ProposalTrue
  <1> QED
    BY <1>8, <1>9, <1>10, <1>11, <1>12 DEF MonitorInv

\* The table only grows.
LEMMA LogGrows ==
    ASSUME log \in Seq(Row), NEW m \in Row, log' = Append(log, m)
    PROVE  /\ log' \in Seq(Row) /\ Len(log') = Len(log) + 1
           /\ \A t : \A i \in OnThread(t) : i \in OnThread(t)' /\ log'[i] = log[i]
  <1>1. /\ log' \in Seq(Row) /\ Len(log') = Len(log) + 1 /\ Len(log) \in Nat
        /\ \A i \in 1 .. Len(log) : log'[i] = log[i]
        /\ DOMAIN log = 1 .. Len(log) /\ DOMAIN log' = 1 .. Len(log) + 1
    BY AppendProperties, LenProperties
  <1> QED
    BY <1>1 DEF OnThread

\* What the form or a proposal says of the table stays true as it grows.
LEMMA FormOutlivesGrowth ==
    ASSUME MonitorInv, NEW m \in Row, log' = Append(log, m), UNCHANGED form
    PROVE  FormAddressesThread'
  <1>1. \A t : \A i \in OnThread(t) : i \in OnThread(t)' /\ log'[i] = log[i]
    BY LogGrows DEF MonitorInv, TypeOK, Row
  <1> SUFFICES ASSUME ~form.edited, form.to # None
               PROVE  \E i \in OnThread(form.thread)' : log'[i].from = form.to
    BY DEF FormAddressesThread
  <1>2. PICK i \in OnThread(form.thread) : log[i].from = form.to
    BY DEF MonitorInv, FormAddressesThread
  <1> QED
    BY <1>1, <1>2

\* The message is in the table, and a refresh begins.
LEMMA MonitorInvSent ==
    ASSUME MonitorInv, Sent
    PROVE  MonitorInv'
  <1> DEFINE m == [thread |-> got["app"].thread, from |-> Human, to |-> got["app"].to]
  <1>1. /\ UNCHANGED <<ledger, listed, highlight, events, panel, cursor, form, rows, loads,
                       failures>>
        /\ pc["app"] = "send" /\ log' = Append(log, m)
        /\ got' = [got EXCEPT !["app"] = NoQuery]
        /\ refreshing' = TRUE /\ Goto("app", "threads")
    BY DEF Sent, BeginRefresh, listVars, panelVars
  <1> HIDE DEF m
  <1>2. TypeOK /\ Labels /\ LoadsOnce /\ "app" \in Task \ LoadingTasks
        /\ "threads" \in PC \ Loading
    BY <1>1 DEF MonitorInv, TypeOK, Task, LoadingTasks, PC, Loading
  <1>3. /\ pc' \in [Task -> PC] /\ pc'["app"] = "threads"
        /\ \A j \in Task \ {"app"} : pc'[j] = pc[j]
        /\ LoadingTasks' = LoadingTasks
    <2>1. "app" \in Task /\ "threads" \in PC /\ "threads" \notin Loading
      BY <1>2
    <2>2. /\ pc' \in [Task -> PC] /\ pc'["app"] = "threads"
          /\ \A j \in Task \ {"app"} : pc'[j] = pc[j]
          /\ LoadingTasks' = LoadingTasks \ {"app"}
      BY <1>1, <1>2, <2>1, GotoLemma
    <2> QED
      BY <1>2, <2>2
  <1>4. m \in Row
    BY <1>1, MonitorAssumption DEF MonitorInv, SendReady, Row, m
  <1>5. log' \in Seq(Row) /\ Len(log') = Len(log) + 1
    BY <1>1, <1>2, <1>4, LogGrows DEF TypeOK, Row
  <1>6. got' \in [Task -> Query]
    BY <1>1, <1>2, NoQueryTyped DEF TypeOK
  <1>7. TypeOK'
    BY <1>1, <1>2, <1>3, <1>5, <1>6 DEF TypeOK, LoadingTasks, Row
  <1>8. Labels' /\ LoadsOnce'
    BY <1>1, <1>2, <1>3 DEF Labels, LoadsOnce, Task
  <1>9. EventsBounded'
    <2>1. Coming("app")' = Coming("app") /\ Coming("timer")' = Coming("timer")
      BY <1>1, <1>2, <1>3 DEF Coming, Labels, Task
    <2> QED
      BY <1>1, <2>1 DEF MonitorInv, EventsBounded
  <1>10. RowsBounded'
    BY <1>1, <1>2, <1>3, <1>5, LenProperties, MonitorAssumption
       DEF MonitorInv, RowsBounded, TypeOK
  <1>11. SendReady' /\ ProposalTrue' /\ FormAddressesThread'
    BY <1>1, <1>3, <1>4, FormOutlivesGrowth DEF SendReady, ProposalTrue
  <1> QED
    BY <1>7, <1>8, <1>9, <1>10, <1>11 DEF MonitorInv

\* A message of somebody else.
LEMMA MonitorInvArrive ==
    ASSUME MonitorInv, NEW m \in Traffic, Arrive(m)
    PROVE  MonitorInv'
  <1>1. /\ UNCHANGED <<ledger, listed, highlight, events, panel, cursor, form, refreshing,
                       pc, rows, got, loads, failures>>
        /\ log' = Append(log, m)
        /\ Len(log) < (IF pc["app"] = "send" THEN MaxRows - 1 ELSE MaxRows)
    BY DEF Arrive, listVars, panelVars, taskVars
  <1>2. TypeOK /\ Labels /\ LoadsOnce /\ m \in Row
    BY MonitorAssumption DEF MonitorInv, Row
  <1>3. /\ log' \in Seq(Row) /\ Len(log') = Len(log) + 1
        /\ \A t : \A i \in OnThread(t) : i \in OnThread(t)' /\ log'[i] = log[i]
    BY <1>1, <1>2, LogGrows DEF TypeOK, Row
  <1>4. TypeOK'
    BY <1>1, <1>2, <1>3 DEF TypeOK, Row
  <1>5. Labels' /\ LoadsOnce' /\ SendReady'
    BY <1>1, <1>2 DEF MonitorInv, Labels, LoadsOnce, SendReady
  <1>6. EventsBounded'
    <2>1. Coming("app")' = Coming("app") /\ Coming("timer")' = Coming("timer")
      BY <1>1 DEF Coming
    <2> QED
      BY <1>1, <2>1 DEF MonitorInv, EventsBounded
  <1>7. RowsBounded'
    <2>1. Len(log) \in Nat /\ MaxRows \in Nat
      BY <1>2, LenProperties, MonitorAssumption DEF TypeOK
    <2> QED
      BY <1>1, <1>3, <2>1 DEF RowsBounded
  <1>8. FormAddressesThread'
    BY <1>1, <1>2, FormOutlivesGrowth
  <1>9. ProposalTrue'
    <2> SUFFICES ASSUME pc["app"] = "prefill", got["app"].to # None
                 PROVE  \E i \in OnThread(got["app"].thread)' : log'[i].from = got["app"].to
      BY <1>1 DEF ProposalTrue
    <2>1. PICK i \in OnThread(got["app"].thread) : log[i].from = got["app"].to
      BY DEF MonitorInv, ProposalTrue
    <2> QED
      BY <1>1, <1>3, <2>1
  <1> QED
    BY <1>4, <1>5, <1>6, <1>7, <1>8, <1>9 DEF MonitorInv

\* The human edits the form or moves the cursor; an agent's cost is recorded.
LEMMA MonitorInvHuman ==
    ASSUME MonitorInv,
           \/ \E f \in Typed : Edit(f)
           \/ CursorDown \/ CursorUp
           \/ \E t \in Thread : RecordCost(t)
    PROVE  MonitorInv'
  <1>1. /\ UNCHANGED <<log, taskVars>> /\ UNCHANGED <<pc, rows, got, loads>>
        /\ UNCHANGED <<listed, highlight, events, panel, refreshing, failures>>
    BY DEF Edit, CursorDown, CursorUp, RecordCost, tableVars, listVars, panelVars, taskVars
  <1>2. TypeOK /\ cursor \in Nat /\ panel.count \in Nat
    BY MonitorAssumption DEF MonitorInv, TypeOK
  <1>3. /\ RowsBounded' /\ Labels' /\ LoadsOnce' /\ SendReady' /\ ProposalTrue'
        /\ Coming("app")' = Coming("app") /\ Coming("timer")' = Coming("timer")
    BY <1>1, TasksStay
  <1>4. EventsBounded'
    BY <1>1, <1>3 DEF MonitorInv, EventsBounded
  <1>5. CASE \E f \in Typed : Edit(f)
    <2>1. PICK f \in Typed : Edit(f)
      BY <1>5
    <2>2. /\ form' = [to |-> f.to, thread |-> f.thread, edited |-> TRUE]
          /\ UNCHANGED <<ledger, cursor>>
      BY <2>1 DEF Edit, tableVars, panelVars
    <2>3. form' \in [to : Name \cup {None}, thread : Thread \cup {None}, edited : BOOLEAN]
      BY <2>2, MonitorAssumption
    <2>4. TypeOK'
      BY <1>1, <1>2, <2>2, <2>3 DEF TypeOK
    <2>5. FormAddressesThread'
      BY <2>2 DEF FormAddressesThread
    <2> QED
      BY <1>3, <1>4, <2>4, <2>5 DEF MonitorInv
  <1>6. CASE CursorDown \/ CursorUp
    <2>1. UNCHANGED <<ledger, form>> /\ cursor' \in 1 .. panel.count
      <3>1. CASE CursorDown
        BY <1>2, <3>1 DEF CursorDown, tableVars
      <3>2. CASE CursorUp
        BY <1>2, <3>2 DEF CursorUp, tableVars, TypeOK
      <3> QED
        BY <1>6, <3>1, <3>2
    <2>2. TypeOK'
      BY <1>1, <1>2, <2>1 DEF TypeOK
    <2> QED
      BY <1>1, <1>3, <1>4, <2>1, <2>2, FormStays DEF MonitorInv
  <1>7. CASE \E t \in Thread : RecordCost(t)
    <2>1. UNCHANGED <<form, cursor>> /\ ledger' \subseteq Thread
      BY <1>2, <1>7 DEF RecordCost, TypeOK, panelVars
    <2>2. TypeOK'
      BY <1>1, <1>2, <2>1 DEF TypeOK
    <2> QED
      BY <1>1, <1>3, <1>4, <2>1, <2>2, FormStays DEF MonitorInv
  <1> QED
    BY <1>5, <1>6, <1>7

-----------------------------------------------------------------------------
LEMMA MonitorInvNext ==
    ASSUME MonitorInv, [Next]_vars
    PROVE  MonitorInv'
  <1>1. "app" \in Task /\ "timer" \in Task
    BY DEF Task
  <1>2. ASSUME NEW k \in Task, Refresh(k)
        PROVE  MonitorInv'
    <2>1. CASE FetchThreads(k)
      BY <2>1, MonitorInvFetch
    <2>2. CASE RefreshThreads(k)
      BY <2>2, MonitorInvRefreshThreads
    <2>3. CASE ShowLoaded(k)
      BY <2>3, MonitorInvLoaded
    <2>4. CASE EndRefresh(k)
      BY <2>4, MonitorInvEnd
    <2> QED
      BY <1>2, <2>1, <2>2, <2>3, <2>4 DEF Refresh
  <1>3. CASE AppStep
    <2>1. CASE Refresh("app")
      BY <1>1, <1>2, <2>1
    <2>2. CASE InitialLoaded
      BY <1>1, <2>2, MonitorInvLoaded
    <2>3. CASE IgnoreHighlight
      BY <2>3, MonitorInvHighlight
    <2>4. CASE FollowHighlight
      BY <2>4, MonitorInvFollowHighlight
    <2>5. CASE FollowLoaded
      BY <2>5, MonitorInvFollowLoaded
    <2>6. CASE Prefill
      BY <2>6, MonitorInvPrefill
    <2>7. CASE Sent
      BY <2>7, MonitorInvSent
    <2> QED
      BY <1>3, <2>1, <2>2, <2>3, <2>4, <2>5, <2>6, <2>7 DEF AppStep
  <1>4. CASE Tick
    BY <1>1, <1>4, MonitorInvBegin DEF Tick
  <1>5. CASE Refresh("timer")
    BY <1>1, <1>2, <1>5
  <1>6. CASE \E k \in Task : RefreshFails(k) \/ CostQueryFails(k) \/ LoadFails(k)
    BY <1>6, MonitorInvEnd, MonitorInvRefreshThreads, MonitorInvLoaded
  <1>7. CASE ActionRefresh
    BY <1>1, <1>7, MonitorInvBegin DEF ActionRefresh
  <1>8. CASE Submit
    BY <1>8, MonitorInvSubmit
  <1>9. CASE \E i \in DOMAIN listed : Highlight(i)
    BY <1>9, MonitorInvHighlight
  <1>10. CASE \/ \E f \in Typed : Edit(f)
              \/ CursorDown \/ CursorUp
              \/ \E t \in Thread : RecordCost(t)
    BY <1>10, MonitorInvHuman
  <1>11. CASE \E m \in Traffic : Arrive(m)
    BY <1>11, MonitorInvArrive
  <1>12. CASE UNCHANGED vars
    <2>1. UNCHANGED <<log, ledger, listed, highlight, panel, cursor, form, refreshing,
                      events, pc, rows, got, loads, failures>>
      BY <1>12 DEF vars, tableVars, listVars, panelVars, taskVars
    <2>2. /\ RowsBounded' /\ Labels' /\ LoadsOnce' /\ SendReady' /\ ProposalTrue'
          /\ Coming("app")' = Coming("app") /\ Coming("timer")' = Coming("timer")
      BY <2>1, TasksStay DEF taskVars
    <2>3. TypeOK' /\ EventsBounded'
      BY <2>1, <2>2 DEF MonitorInv, TypeOK, EventsBounded
    <2> QED
      BY <2>1, <2>2, <2>3, FormStays DEF MonitorInv
  <1> QED
    BY <1>3, <1>4, <1>5, <1>6, <1>7, <1>8, <1>9, <1>10, <1>11, <1>12 DEF Next

LEMMA MonitorInvariant == Spec => []MonitorInv
  <1>1. MonitorInv /\ [Next]_vars => MonitorInv'
    BY MonitorInvNext
  <1> QED
    BY <1>1, MonitorInvInit, PTL DEF Spec

\* However the refreshes, highlights and failures overlap: the highlight is a
\* place of the list, the cursor one of the panel, the queue of the connection
\* holds each task that loads exactly once, and no more events than the bound
\* and the two refreshes can post wait for the app.
THEOREM MonitorTypeCorrect == Spec => []TypeOK
  <1>1. MonitorInv => TypeOK
    BY DEF MonitorInv
  <1> QED
    BY <1>1, MonitorInvariant, PTL

\* A form that the human did not touch never names one thread and an agent who
\* has not written on it (_prefill_send_panel).
THEOREM FormAddressesThreadCorrect == Spec => []FormAddressesThread
  <1>1. MonitorInv => FormAddressesThread
    BY DEF MonitorInv
  <1> QED
    BY <1>1, MonitorInvariant, PTL

-----------------------------------------------------------------------------
(***************************************************************************)
(* The selection.                                                          *)
(***************************************************************************)

\* update_threads finds the thread again wherever the new list has it.
LEMMA UpdateKeepsSelection ==
    ASSUME NEW threads, UpdateThreads(threads), Selected \in Shown'
    PROVE  Selected' = Selected
  <1>1. listed' = threads
    BY DEF UpdateThreads
  <1>2. PICK i \in DOMAIN threads : threads[i] = Selected
    BY <1>1 DEF Shown
  <1>3. threads # << >>
    BY <1>2, EmptySeq
  <1>4. highlight' = Restored(threads)
    BY <1>3 DEF UpdateThreads
  <1>5. Restored(threads) \in DOMAIN threads /\ threads[Restored(threads)] = Selected
    BY <1>2 DEF Restored
  <1> QED
    BY <1>1, <1>4, <1>5 DEF Selected, SelectedIn

\* A refresh, in whatever state it finds the list, and whether its query of
\* the costs raised or not, never moves the selection off a thread that is
\* still listed.
THEOREM SelectionKeptCorrect == Spec => SelectionKept
  <1> DEFINE Keeps == (listed' # listed /\ Selected # None /\ Selected \in Shown')
                          => Selected' = Selected
  <1>1. ASSUME [Next]_vars
        PROVE  Keeps
    <2> SUFFICES ASSUME listed' # listed, Selected \in Shown'
                 PROVE  Selected' = Selected
      OBVIOUS
    <2>1. \E k \in Task : RefreshThreads(k) \/ CostQueryFails(k)
      BY <1>1 DEF Next, AppStep, Refresh, Tick, ActionRefresh, BeginRefresh, FetchThreads,
                  ShowLoaded, LoadFails, EndRefresh, RefreshFails, InitialLoaded,
                  IgnoreHighlight, FollowHighlight, FollowLoaded, Prefill, Submit, Sent,
                  Highlight, Edit,
                  CursorDown, CursorUp, Arrive, RecordCost, vars, listVars, Task
    <2>2. PICK k \in Task : RefreshThreads(k) \/ CostQueryFails(k)
      BY <2>1
    <2>3. PICK threads : UpdateThreads(threads)
      BY <2>2 DEF RefreshThreads, CostQueryFails, ListThreads
    <2> QED
      BY <2>3, UpdateKeepsSelection
  <1>2. [Next]_vars => [Keeps]_vars
    BY <1>1
  <1> QED
    BY <1>2, PTL DEF Spec, SelectionKept

-----------------------------------------------------------------------------
(***************************************************************************)
(* The flag of the refreshes.                                              *)
(***************************************************************************)

InRefresh(k) == pc[k] \in {"threads", "costs", "load", "total"}

\* Two refreshes that overlap reset each other's flag, but the last to end
\* leaves it down, also when a query of it raised (the finally of _refresh_all):
\* the app does not go on ignoring the highlights of the human.
FlagFollowsRefreshes == refreshing => \E k \in Task : InRefresh(k)

LEMMA FlagNext ==
    ASSUME MonitorInv, FlagFollowsRefreshes, [Next]_vars
    PROVE  FlagFollowsRefreshes'
  <1>1. pc \in [Task -> PC] /\ Labels /\ "app" \in Task /\ "timer" \in Task
    BY DEF MonitorInv, TypeOK, Task
  <1>2. ASSUME NEW k \in Task, pc' = [pc EXCEPT ![k] = "threads"]
        PROVE  FlagFollowsRefreshes'
    BY <1>1, <1>2 DEF FlagFollowsRefreshes, InRefresh
  <1>3. ASSUME NEW k \in Task,
               Refresh(k) \/ RefreshFails(k) \/ CostQueryFails(k) \/ LoadFails(k)
        PROVE  FlagFollowsRefreshes'
    <2>1. CASE EndRefresh(k) \/ RefreshFails(k)
      BY <2>1 DEF EndRefresh, RefreshFails, FlagFollowsRefreshes
    <2>2. CASE FetchThreads(k) \/ ShowLoaded(k) \/ LoadFails(k)
      BY <1>1, <2>2 DEF FetchThreads, ShowLoaded, LoadFails, Goto, FlagFollowsRefreshes,
                        InRefresh
    <2>3. CASE RefreshThreads(k) \/ CostQueryFails(k)
      <3>1. pc' \in {[pc EXCEPT ![k] = "load"], [pc EXCEPT ![k] = "total"]}
        BY <2>3 DEF RefreshThreads, CostQueryFails, ListThreads, Load, Goto
      <3> QED
        BY <1>1, <3>1 DEF FlagFollowsRefreshes, InRefresh
    <2> QED
      BY <1>3, <2>1, <2>2, <2>3 DEF Refresh
  <1>4. CASE Tick \/ ActionRefresh \/ Sent
    BY <1>1, <1>2, <1>4 DEF Tick, ActionRefresh, Sent, BeginRefresh, Goto
  <1>5. ASSUME UNCHANGED refreshing, \A k \in Task : InRefresh(k) => pc'[k] = pc[k]
        PROVE  FlagFollowsRefreshes'
    BY <1>5 DEF FlagFollowsRefreshes, InRefresh
  <1>6. CASE InitialLoaded \/ FollowHighlight \/ FollowLoaded \/ Prefill \/ Submit
    <2>1. UNCHANGED refreshing /\ ~InRefresh("app")
      BY <1>6 DEF InitialLoaded, FollowHighlight, FollowLoaded, Prefill, Submit, InRefresh
    <2>2. pc' \in {[pc EXCEPT !["app"] = label] : label \in PC}
      BY <1>6 DEF InitialLoaded, FollowHighlight, FollowLoaded, Prefill, Submit, Load, Goto,
                  PC
    <2> QED
      BY <1>1, <1>5, <2>1, <2>2
  <1>7. CASE \/ IgnoreHighlight \/ CursorDown \/ CursorUp
             \/ \E i \in DOMAIN listed : Highlight(i)
             \/ \E f \in Typed : Edit(f)
             \/ \E m \in Traffic : Arrive(m)
             \/ \E t \in Thread : RecordCost(t)
             \/ UNCHANGED vars
    <2>1. UNCHANGED <<refreshing, pc>>
      BY <1>7 DEF IgnoreHighlight, CursorDown, CursorUp, Highlight, Edit, Arrive,
                  RecordCost,
                  vars, taskVars
    <2> QED
      BY <1>5, <2>1
  <1> QED
    BY <1>1, <1>3, <1>4, <1>6, <1>7 DEF Next, AppStep

\* Whatever refreshes overlap or fail, the flag is never left up behind them.
THEOREM FlagFollowsRefreshesCorrect == Spec => []FlagFollowsRefreshes
  <1>1. Init => FlagFollowsRefreshes
    BY DEF Init, FlagFollowsRefreshes, InRefresh, Task
  <1> QED
    BY <1>1, MonitorInvariant, FlagNext, PTL DEF Spec

=============================================================================
