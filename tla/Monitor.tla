-------------------------------- MODULE Monitor --------------------------------
(***************************************************************************)
(* MonitorApp of src/multiagent/cli/monitor.py: a list of threads, a panel *)
(* with the messages of the selected one and a form to send a message,     *)
(* over a table that agents write to meanwhile.                            *)
(*                                                                         *)
(* Two asyncio tasks run its coroutines, and each can get in at an await   *)
(* of the other: "app" handles the events of the application one at a      *)
(* time, "timer" runs _refresh_all again and again.  The highlight of the  *)
(* list moves at once; that it moved is an event the app handles later.    *)
(* pc[k] names what task k awaits:                                         *)
(*                                                                         *)
(*   off      the timer is not started yet                                 *)
(*   idle     nothing                                                      *)
(*   threads  _refresh_agents and the query of _refresh_threads            *)
(*   costs    the cost queries of _refresh_threads                         *)
(*   load     _load_selected_thread, in a refresh                          *)
(*   total    _refresh_header_cost, or the failed load to be thrown        *)
(*   follow   _load_selected_thread, for a highlight event                 *)
(*   first    _load_selected_thread, at the end of on_mount                *)
(*   prefill  the query of _prefill_send_panel                             *)
(*   send     transport.send                                               *)
(***************************************************************************)
EXTENDS Naturals, Sequences, FiniteSets

CONSTANTS
    Thread,         \* thread_id values
    Before,         \* the table when the monitor is launched
    Traffic,        \* messages others may add: records with thread, from, to
    Typed,          \* what the human may type into To and Thread
    Name,           \* values of from_agent and to_agent
    Human,          \* the name "human"
    None,           \* None or the empty string
    Clustered,      \* TRUE when the monitor has a --cluster to filter by
    Initial,        \* --thread-id, or None
    MaxRows,        \* bound: messages in the table
    MaxEvents,      \* bound: highlight events that wait for the app
    MaxFailures     \* bound: queries that raise

Task == {"app", "timer"}

ASSUME MonitorAssumption ==
    /\ Human \in Name
    /\ None \notin Name /\ None \notin Thread
    /\ Traffic \subseteq [thread : Thread, from : Name, to : Name]
    /\ Before \in Seq([thread : Thread, from : Name, to : Name])
    /\ Typed \subseteq [to : Name, thread : Thread \cup {None}]
    /\ Clustered \in BOOLEAN
    /\ Initial \in Thread \cup {None}
    /\ {MaxRows, MaxEvents, MaxFailures} \subseteq Nat
    /\ Len(Before) <= MaxRows

VARIABLES
    log,        \* the messages table in the order of created_at
    ledger,     \* threads with an entry of the cluster in cost_ledger
    listed,     \* ThreadsPanel._threads
    highlight,  \* OptionList.highlighted counted from 1, 0 for None
    panel,      \* ThreadPanel: the thread in its title, the length of _messages
    cursor,     \* ThreadPanel._cursor counted from 1, 0 for None
    form,       \* SendPanel: its To and Thread, and whether the human changed them
    refreshing, \* _refreshing
    events,     \* OptionHighlighted messages posted and not handled
    pc,         \* what task k awaits
    rows,       \* rows[k]: the threads that task k has fetched
    got,        \* got[k]: the thread task k queries and what the query found
    loads,      \* the tasks with a load in flight: the connection is a queue
    failures    \* how many queries have raised

tableVars == <<log, ledger>>
listVars == <<listed, highlight, events>>
panelVars == <<panel, cursor>>
taskVars == <<pc, rows, got, loads>>
vars == <<tableVars, listVars, panelVars, form, refreshing, taskVars, failures>>

PC == {"off", "idle", "threads", "costs", "load", "total", "follow", "first",
       "prefill", "send"}

Loading == {"load", "follow", "first"}

OnThread(t) == {i \in DOMAIN log : log[i].thread = t}
Shown == {listed[i] : i \in DOMAIN listed}

Query == [thread : Thread \cup {None}, count : 0 .. MaxRows, to : Name \cup {None}]

TypeOK ==
    /\ log \in Seq([thread : Thread, from : Name, to : Name])
    /\ ledger \subseteq Thread
    /\ listed \in Seq(Thread)
    /\ highlight \in 0 .. Len(listed)
    /\ highlight = 0 <=> listed = << >>
    /\ panel \in [thread : Thread \cup {None}, count : 0 .. MaxRows]
    /\ cursor \in 0 .. panel.count
    /\ cursor = 0 <=> panel.count = 0
    /\ form \in [to : Name \cup {None}, thread : Thread \cup {None}, edited : BOOLEAN]
    /\ refreshing \in BOOLEAN
    /\ events \in 0 .. MaxEvents + 2
    /\ pc \in [Task -> PC]
    /\ rows \in [Task -> Seq(Thread)]
    /\ got \in [Task -> Query]
    /\ loads \in Seq(Task)
    /\ {loads[i] : i \in DOMAIN loads} = {k \in Task : pc[k] \in Loading}
    /\ failures \in 0 .. MaxFailures

NoQuery == [thread |-> None, count |-> 0, to |-> None]

\* on_mount has opened the connections and begun the first refresh.
Init ==
    /\ log = Before
    /\ ledger = {}
    /\ listed = << >>
    /\ highlight = 0
    /\ panel = [thread |-> None, count |-> 0]
    /\ cursor = 0
    /\ form = [to |-> None, thread |-> None, edited |-> FALSE]
    /\ refreshing = TRUE
    /\ events = 0
    /\ pc = [k \in Task |-> IF k = "app" THEN "threads" ELSE "off"]
    /\ rows = [k \in Task |-> << >>]
    /\ got = [k \in Task |-> NoQuery]
    /\ loads = << >>
    /\ failures = 0

Goto(k, label) == pc' = [pc EXCEPT ![k] = label]

-----------------------------------------------------------------------------
\* The queries.

\* GROUP BY thread_id ORDER BY MAX(created_at) DESC
ByActivity ==
    LET threads == {log[i].thread : i \in DOMAIN log}
    IN  CHOOSE s \in [1 .. Cardinality(threads) -> threads] :
            \A a, b \in DOMAIN s : a < b =>
                \A i \in OnThread(s[b]) : \E j \in OnThread(s[a]) : j > i

\* The sender of the last message to the human, or else of the last message.
ReplyTo(t) ==
    LET toHuman == {i \in OnThread(t) : log[i].to = Human}
        from == IF toHuman # {} THEN toHuman ELSE OnThread(t)
    IN  IF from = {}
        THEN None
        ELSE log[CHOOSE i \in from : \A j \in from : j <= i].from

-----------------------------------------------------------------------------
\* ThreadsPanel

SelectedIn(threads, i) == IF i \in DOMAIN threads THEN threads[i] ELSE None
Selected == SelectedIn(listed, highlight)

\* Defective variant: the previous selection is looked up in the new list.
PositionKept(threads) ==
    IF highlight \in DOMAIN threads THEN highlight ELSE 1

\* restore_idx: where the selected thread is in the new list, or the top.
Restored(threads) ==
    IF Selected \in {threads[i] : i \in DOMAIN threads}
    THEN CHOOSE i \in DOMAIN threads : threads[i] = Selected
    ELSE 1

\* update_threads.  The list is emptied first, so the highlight changes and
\* an event is posted even if the same thread is selected again.
UpdateThreads(threads) ==
    /\ listed' = threads
    /\ IF threads = << >>
       THEN highlight' = 0 /\ UNCHANGED events
       ELSE highlight' = Restored(threads) /\ events' = events + 1

-----------------------------------------------------------------------------
\* _load_selected_thread, which two tasks may be in at a time.  Their queries
\* go through one connection, so they end in the order they began.

\* Defective variant: what is shown is loaded again, not what is selected.
LoadShown(k, t, label, otherwise) ==
    IF t = None
    THEN Goto(k, otherwise) /\ UNCHANGED <<got, loads>>
    ELSE LET u == IF panel.thread = None THEN t ELSE panel.thread
         IN  /\ Goto(k, label)
             /\ got' = [got EXCEPT ![k] = [NoQuery EXCEPT !.thread = u,
                                           !.count = Cardinality(OnThread(u))]]
             /\ loads' = Append(loads, k)

\* Task k begins to load thread t, or goes on if there is none.
Load(k, t, label, otherwise) ==
    IF t = None
    THEN Goto(k, otherwise) /\ UNCHANGED <<got, loads>>
    ELSE /\ Goto(k, label)
         /\ got' = [got EXCEPT ![k] = [NoQuery EXCEPT !.thread = t,
                                       !.count = Cardinality(OnThread(t))]]
         /\ loads' = Append(loads, k)

\* Defective variant: the cursor is not moved into a shorter thread.
CursorForgotten(n) == IF cursor = 0 /\ n > 0 THEN 1 ELSE cursor

\* The cursor of update_messages for n messages.
CursorWithin(n) ==
    CASE n = 0 -> 0
      [] n > 0 /\ cursor = 0 -> 1
      [] n > 0 /\ cursor > n -> n
      [] OTHER -> cursor

\* The query of k is the next to end.
Answered(k) ==
    /\ loads # << >> /\ Head(loads) = k
    /\ loads' = Tail(loads)

\* The rows have come: update_messages and the title.
Display(k) ==
    /\ panel' = [thread |-> got[k].thread, count |-> got[k].count]
    /\ cursor' = CursorWithin(got[k].count)

-----------------------------------------------------------------------------
\* _refresh_all

BeginRefresh(k) ==
    /\ refreshing' = TRUE
    /\ Goto(k, "threads")

Tick ==
    /\ pc["timer"] = "idle"
    /\ events < MaxEvents
    /\ BeginRefresh("timer")
    /\ UNCHANGED <<tableVars, listVars, panelVars, form, rows, got, loads, failures>>

ActionRefresh ==
    /\ pc["app"] = "idle"
    /\ events < MaxEvents
    /\ BeginRefresh("app")
    /\ UNCHANGED <<tableVars, listVars, panelVars, form, rows, got, loads, failures>>

FetchThreads(k) ==
    /\ pc[k] = "threads"
    /\ rows' = [rows EXCEPT ![k] = ByActivity]
    /\ Goto(k, "costs")
    /\ UNCHANGED <<tableVars, listVars, panelVars, form, refreshing, got, loads,
                   failures>>

\* The numbers of the finite set K from the smallest.
Ascending(K) ==
    CHOOSE s \in [1 .. Cardinality(K) -> K] : \A a, b \in DOMAIN s : a < b => s[a] < s[b]

\* The threads of the cluster only; without the ledger, all of them.
Kept(threads) ==
    IF Clustered
    THEN LET at == Ascending({i \in DOMAIN threads : threads[i] \in ledger})
         IN  [n \in DOMAIN at |-> threads[at[n]]]
    ELSE threads

\* The list is updated and the load of the selected thread begins.
ListThreads(k, threads) ==
    /\ pc[k] = "costs"
    /\ UpdateThreads(threads)
    /\ Load(k, SelectedIn(listed', highlight'), "load", "total")
    /\ rows' = [rows EXCEPT ![k] = << >>]
    /\ UNCHANGED <<tableVars, panelVars, form, refreshing>>

RefreshThreads(k) == ListThreads(k, Kept(rows[k])) /\ UNCHANGED failures

CostQueryFails(k) ==
    /\ Clustered
    /\ failures < MaxFailures
    /\ failures' = failures + 1
    /\ ListThreads(k, rows[k])

ShowLoaded(k) ==
    /\ pc[k] = "load"
    /\ Answered(k)
    /\ Display(k)
    /\ Goto(k, "total")
    /\ got' = [got EXCEPT ![k] = NoQuery]
    /\ UNCHANGED <<tableVars, listVars, form, refreshing, rows, failures>>

\* What a task does after its refresh: the first one is in on_mount, which
\* then starts the timer and selects the initial thread.
AfterRefresh(k) ==
    IF pc["timer"] # "off"
    THEN /\ Goto(k, "idle")
         /\ UNCHANGED <<highlight, events, got, loads>>
    ELSE LET at == {i \in DOMAIN listed : listed[i] = Initial}
             now == IF at = {} THEN highlight ELSE CHOOSE i \in at : TRUE
             t == IF Initial = None THEN None ELSE SelectedIn(listed, now)
         IN  /\ highlight' = now
             /\ events' = IF now = highlight THEN events ELSE events + 1
             /\ pc' = [pc EXCEPT !["timer"] = "idle",
                                 ![k] = IF t = None THEN "idle" ELSE "first"]
             /\ IF t = None
                THEN UNCHANGED <<got, loads>>
                ELSE /\ got' = [got EXCEPT ![k] =
                                   [NoQuery EXCEPT !.thread = t,
                                    !.count = Cardinality(OnThread(t))]]
                     /\ loads' = Append(loads, k)

EndRefresh(k) ==
    /\ pc[k] = "total"
    /\ refreshing' = FALSE
    /\ AfterRefresh(k)
    /\ UNCHANGED <<tableVars, listed, panelVars, form, rows, failures>>

\* A query raises: `except Exception: pass`, `finally: _refreshing = False`.
RefreshFails(k) ==
    /\ pc[k] = "threads"
    /\ failures < MaxFailures
    /\ failures' = failures + 1
    /\ refreshing' = FALSE
    /\ AfterRefresh(k)
    /\ UNCHANGED <<tableVars, listed, panelVars, form, rows>>

\* The query of the selected thread raises: nothing is shown, and what is left
\* of the refresh is to reset the flag.
LoadFails(k) ==
    /\ pc[k] = "load"
    /\ failures < MaxFailures
    /\ failures' = failures + 1
    /\ Answered(k)
    /\ Goto(k, "total")
    /\ got' = [got EXCEPT ![k] = NoQuery]
    /\ UNCHANGED <<tableVars, listVars, panelVars, form, refreshing, rows>>

-----------------------------------------------------------------------------
\* The application's events.  A query that raises in one of these handlers, and
\* not in a refresh, ends the application: nothing is said of what is left.

InitialLoaded ==
    /\ pc["app"] = "first"
    /\ Answered("app")
    /\ Display("app")
    /\ Goto("app", "idle")
    /\ got' = [got EXCEPT !["app"] = NoQuery]
    /\ UNCHANGED <<tableVars, listVars, form, refreshing, rows, failures>>

\* on_option_list_option_highlighted while a refresh is under way.
IgnoreHighlight ==
    /\ pc["app"] = "idle"
    /\ events > 0
    /\ refreshing
    /\ events' = events - 1
    /\ UNCHANGED <<tableVars, listed, highlight, panelVars, form, refreshing,
                   taskVars, failures>>

FollowHighlight ==
    /\ pc["app"] = "idle"
    /\ events > 0
    /\ ~refreshing
    /\ events' = events - 1
    /\ Load("app", Selected, "follow", "idle")
    /\ UNCHANGED <<tableVars, listed, highlight, panelVars, form, refreshing,
                   rows, failures>>

\* The thread is shown, and _prefill_send_panel begins: the selection is read
\* again, and may have moved.
FollowLoaded ==
    /\ pc["app"] = "follow"
    /\ Answered("app")
    /\ Display("app")
    /\ IF Selected = None
       THEN Goto("app", "idle") /\ got' = [got EXCEPT !["app"] = NoQuery]
       ELSE /\ Goto("app", "prefill")
            /\ got' = [got EXCEPT !["app"] = [NoQuery EXCEPT !.thread = Selected,
                                              !.to = ReplyTo(Selected)]]
    /\ UNCHANGED <<tableVars, listVars, form, refreshing, rows, failures>>

\* Defective variant: the selection is read a second time after the query.
PrefillLate ==
    /\ pc["app"] = "prefill"
    /\ form' = [to |-> got["app"].to, thread |-> Selected, edited |-> FALSE]
    /\ Goto("app", "idle")
    /\ got' = [got EXCEPT !["app"] = NoQuery]
    /\ UNCHANGED <<tableVars, listVars, panelVars, refreshing, rows, loads, failures>>

Prefill ==
    /\ pc["app"] = "prefill"
    /\ form' = [to |-> got["app"].to, thread |-> got["app"].thread, edited |-> FALSE]
    /\ Goto("app", "idle")
    /\ got' = [got EXCEPT !["app"] = NoQuery]
    /\ UNCHANGED <<tableVars, listVars, panelVars, refreshing, rows, loads, failures>>

\* on_input_submitted: Enter in the body, which is not empty.  Without a
\* thread the message gets a new one.
Submit ==
    /\ pc["app"] = "idle"
    /\ form.to # None
    /\ Len(log) < MaxRows
    /\ events < MaxEvents
    /\ \E t \in IF form.thread # None THEN {form.thread}
               ELSE {u \in Thread : OnThread(u) = {}} :
          got' = [got EXCEPT !["app"] = [NoQuery EXCEPT !.thread = t, !.to = form.to]]
    /\ Goto("app", "send")
    /\ UNCHANGED <<tableVars, listVars, panelVars, form, refreshing, rows, loads,
                   failures>>

\* The message is in the table; a refresh follows.
Sent ==
    /\ pc["app"] = "send"
    /\ log' = Append(log, [thread |-> got["app"].thread, from |-> Human,
                           to |-> got["app"].to])
    /\ got' = [got EXCEPT !["app"] = NoQuery]
    /\ BeginRefresh("app")
    /\ UNCHANGED <<ledger, listVars, panelVars, form, rows, loads, failures>>

-----------------------------------------------------------------------------
\* The human, and the agents.

\* Arrow keys or a click in the list: the list itself handles them.
Highlight(i) ==
    /\ i \in DOMAIN listed \ {highlight}
    /\ events < MaxEvents
    /\ highlight' = i
    /\ events' = events + 1
    /\ UNCHANGED <<tableVars, listed, panelVars, form, refreshing, taskVars, failures>>

Edit(f) ==
    /\ form' = [to |-> f.to, thread |-> f.thread, edited |-> TRUE]
    /\ UNCHANGED <<tableVars, listVars, panelVars, refreshing, taskVars, failures>>

CursorDown ==
    /\ cursor < panel.count
    /\ cursor' = cursor + 1
    /\ UNCHANGED <<tableVars, listVars, panel, form, refreshing, taskVars, failures>>

CursorUp ==
    /\ cursor > 1
    /\ cursor' = cursor - 1
    /\ UNCHANGED <<tableVars, listVars, panel, form, refreshing, taskVars, failures>>

Arrive(m) ==
    /\ Len(log) < (IF pc["app"] = "send" THEN MaxRows - 1 ELSE MaxRows)
    /\ log' = Append(log, m)
    /\ UNCHANGED <<ledger, listVars, panelVars, form, refreshing, taskVars, failures>>

RecordCost(t) ==
    /\ Clustered
    /\ OnThread(t) # {}
    /\ t \notin ledger
    /\ ledger' = ledger \cup {t}
    /\ UNCHANGED <<log, listVars, panelVars, form, refreshing, taskVars, failures>>

-----------------------------------------------------------------------------
Refresh(k) ==
    \/ FetchThreads(k)
    \/ RefreshThreads(k)
    \/ ShowLoaded(k)
    \/ EndRefresh(k)

AppStep ==
    \/ Refresh("app")
    \/ InitialLoaded
    \/ IgnoreHighlight
    \/ FollowHighlight
    \/ FollowLoaded
    \/ Prefill
    \/ Sent

Next ==
    \/ AppStep
    \/ Tick
    \/ Refresh("timer")
    \/ \E k \in Task : RefreshFails(k) \/ CostQueryFails(k) \/ LoadFails(k)
    \/ ActionRefresh
    \/ Submit
    \/ \E i \in DOMAIN listed : Highlight(i)
    \/ \E f \in Typed : Edit(f)
    \/ CursorDown
    \/ CursorUp
    \/ \E m \in Traffic : Arrive(m)
    \/ \E t \in Thread : RecordCost(t)

\* The event loop resumes both tasks and the interval timer ticks.  Nothing is
\* assumed of the human and the agents.
Spec ==
    /\ Init
    /\ [][Next]_vars
    /\ WF_vars(AppStep)
    /\ WF_vars(Tick)
    /\ WF_vars(Refresh("timer"))

-----------------------------------------------------------------------------
(***************************************************************************)
(* Properties.                                                             *)
(***************************************************************************)

\* "Preserves selection if possible": a refresh, with threads that changed
\* places, came or were filtered away meanwhile, never moves the selection
\* off a thread that is still listed (update_threads).
SelectionKept ==
    [][(listed' # listed /\ Selected # None /\ Selected \in Shown')
          => Selected' = Selected]_vars

\* An agent the form proposes takes part in the thread the form names: a
\* reply the human did not readdress cannot go to a thread its recipient has
\* not written on (_prefill_send_panel, with the selection moving under it).
FormAddressesThread ==
    (~form.edited /\ form.to # None) =>
        \E i \in OnThread(form.thread) : log[i].from = form.to

\* When the selection rests on a thread, the panel ends up with that thread
\* and all its messages, however the refreshes and the highlight events
\* overlapped and whatever was ignored or failed.
PanelCatchesUp ==
    \A t \in Thread :
        <>[](Selected = t) =>
            <>[](panel.thread = t /\ panel.count = Cardinality(OnThread(t)))

=============================================================================
