----------------------------- MODULE LogViewer -----------------------------
(***************************************************************************)
(* The viewer of the logs page (wwwroot/js/logs-viewer.js), in one browser, *)
(* put together with the server of LogStream.                               *)
(*                                                                         *)
(* The script opens an EventSource and loads the history in two             *)
(* independent requests, and does both again when another kind is chosen.   *)
(* It runs to completion between two events: each action is one event       *)
(* handler with all it calls.  A handler opens a connection only if one of  *)
(* Conns is free, and sends a load only if one of Loads is.                 *)
(*                                                                         *)
(* The text and level filters, which reload the history as well, the card   *)
(* pane, which mirrors the table, are left out.  Of what a row shows there  *)
(* is whether it shows its entry or nothing.                                *)
(***************************************************************************)
EXTENDS LogStream

CONSTANTS
    Loads,     \* requests for the history; one that is over serves again
    MaxRows,   \* MAX_ROWS
    TrimTo,    \* TRIM_TO_ROWS
    PageSize,  \* entries in an answer of /logs (100 in the code)
    MaxClicks, \* bound: kinds chosen, pauses and clears in a behaviour
    MaxLosses, \* bound: connections lost in a behaviour
    DefaultKind, \* data-default-kind
    None

ASSUME ViewerAssumption ==
    /\ MaxRows \in Nat \ {0}
    /\ TrimTo \in 1..MaxRows
    /\ PageSize \in Nat \ {0}
    /\ MaxClicks \in Nat
    /\ MaxLosses \in Nat
    /\ DefaultKind \in Kinds
    /\ None \notin Conns

VARIABLES
    initialized,
    kind,        \* the kind that is shown
    paused,
    source,      \* es: the EventSource that is open, or None
    timers,      \* reconnections that setTimeout will call
    load,        \* load[l]: a request for the history
    clearing,    \* where a POST to /logs/clear is
    pending,     \* rows to be appended
    flushTimer,  \* flush is scheduled
    rows,        \* rows of the table
    clicks,
    losses

bounds  == <<clicks, losses>>
table   == <<pending, flushTimer, rows>>
view    == <<initialized, kind, paused, source, timers, load, clearing, table,
             bounds>>
server  == <<logging, subscribers, store>>
vars    == <<streamVars, view>>

Init ==
    /\ StreamInit
    /\ initialized = FALSE
    /\ kind = DefaultKind
    /\ paused = FALSE
    /\ source = None
    /\ timers = 0
    /\ load = [l \in Loads |-> [state |-> "free", kind |-> kind, items |-> <<>>]]
    /\ clearing = "none"
    /\ pending = <<>>
    /\ flushTimer = FALSE
    /\ rows = <<>>
    /\ clicks = 0
    /\ losses = 0

-----------------------------------------------------------------------------
(* What the handlers call *)

\* Nothing refers to c any more, and it may stand for a new connection.
Reusable(c) ==
    /\ serve[c] \in {"free", "done"}
    /\ c # source
    /\ \A t \in Threads : c \notin due[t] \cup visited[t]

\* rowFor(entry): a row for an object that JSON.parse has made.  It reads timestamp,
\* level, category and message: an object with other names makes a blank row.
RowFor(m) == [entry |-> m.entry, blank |-> m.names # "camel"]

\* Mutant: connect opens an EventSource and leaves the other one open.
ClosedMutant == {}

Closed == {source} \ {None}

\* connect(): whatever the closed source has not delivered is dropped.
Connect(c, k) ==
    /\ Reusable(c)
    /\ source' = c
    /\ gone' = (gone \cup Closed) \ {c}
    /\ serve' = [serve EXCEPT ![c] = "asked"]
    /\ kindOf' = [kindOf EXCEPT ![c] = k]
    /\ wire' = [d \in Conns |-> IF d \in {c, source} THEN <<>> ELSE wire[d]]
    /\ chan' = [chan EXCEPT ![c] = <<>>]
    /\ completed' = completed \ {c}

\* reloadHistory(): the table is emptied, the pending rows are not.
ReloadHistory(l, k) ==
    /\ load[l].state = "free"
    /\ load' = [load EXCEPT ![l] = [state |-> "sent", kind |-> k, items |-> <<>>]]
    /\ rows' = <<>>

\* trimIfNeeded()
Trimmed(s) ==
    IF Len(s) > MaxRows THEN SubSeq(s, Len(s) - TrimTo + 1, Len(s)) ELSE s

\* flush(), with rows appended to the pending ones just before.
Flush(items) ==
    /\ rows' = Trimmed(rows \o pending \o items)
    /\ pending' = <<>>
    /\ flushTimer' = FALSE

Click == clicks < MaxClicks /\ clicks' = clicks + 1

-----------------------------------------------------------------------------
(* The event handlers *)

\* init()
Start(l, c) ==
    /\ ~initialized
    /\ initialized' = TRUE
    /\ ReloadHistory(l, kind)
    /\ Connect(c, kind)
    /\ UNCHANGED <<server, kind, paused, timers, clearing, pending, flushTimer,
                   bounds>>

ChooseKind(l, c, k) ==
    /\ initialized
    /\ Click
    /\ k # kind
    /\ kind' = k
    /\ ReloadHistory(l, k)
    /\ Connect(c, k)
    /\ UNCHANGED <<server, initialized, paused, timers, clearing, pending,
                   flushTimer, losses>>

Pause ==
    /\ initialized
    /\ Click
    /\ paused' = ~paused
    /\ UNCHANGED <<streamVars, initialized, kind, source, timers, load, clearing,
                   table, losses>>

Clear ==
    /\ initialized
    /\ clearing = "none"
    /\ Click
    /\ clearing' = "sent"
    /\ UNCHANGED <<streamVars, initialized, kind, paused, source, timers, load,
                   table, losses>>

\* then(() => reloadHistory())
Cleared(l) ==
    /\ clearing = "served"
    /\ clearing' = "none"
    /\ ReloadHistory(l, kind)
    /\ UNCHANGED <<streamVars, initialized, kind, paused, source, timers, pending,
                   flushTimer, bounds>>

\* What arrives while the viewer is paused is dropped.
OnMessage ==
    /\ source # None
    /\ wire[source] # <<>>
    /\ wire' = [wire EXCEPT ![source] = Tail(@)]
    /\ \/ /\ paused
          /\ UNCHANGED <<pending, flushTimer>>
       \/ /\ ~paused
          /\ pending' = Append(pending, RowFor(Head(wire[source])))
          /\ flushTimer' = TRUE
    /\ UNCHANGED <<logging, channels, serve, kindOf, gone, store, initialized,
                   kind, paused, source, timers, load, clearing, rows, bounds>>

OnFlushTimer ==
    /\ flushTimer
    /\ Flush(<<>>)
    /\ UNCHANGED <<streamVars, initialized, kind, paused, source, timers, load,
                   clearing, bounds>>

\* The answer of /logs: at most MaxRows of its entries, the last ones.
OnLoad(l) ==
    /\ load[l].state = "served"
    /\ LET items == load[l].items
           n     == Len(items)
           rest  == IF n > MaxRows THEN SubSeq(items, n - MaxRows + 1, n) ELSE items
       IN  Flush([i \in DOMAIN rest |-> RowFor(rest[i])])
    /\ load' = [load EXCEPT ![l].state = "free", ![l].items = <<>>]
    /\ UNCHANGED <<streamVars, initialized, kind, paused, source, timers,
                   clearing, bounds>>

\* Mutant: the handler closes the source and schedules nothing.
RetriesMutant == timers

Retries == timers + 1

\* onerror: the source is closed, and connect is scheduled.
OnError ==
    /\ source \in gone
    /\ source' = None
    /\ wire' = [wire EXCEPT ![source] = <<>>]
    /\ timers' = Retries
    /\ UNCHANGED <<logging, channels, serve, kindOf, gone, store, initialized,
                   kind, paused, load, clearing, table, bounds>>

\* setTimeout(connect, delay): also when another handler has connected since.
OnTimer(c) ==
    /\ timers > 0
    /\ timers' = timers - 1
    /\ Connect(c, kind)
    /\ UNCHANGED <<server, initialized, kind, paused, load, clearing, table,
                   bounds>>

-----------------------------------------------------------------------------
(* The network and the other end *)

\* The connection breaks; both ends find out later.
Lose ==
    /\ losses < MaxLosses
    /\ source # None
    /\ source \notin gone
    /\ losses' = losses + 1
    /\ gone' = gone \cup {source}
    /\ UNCHANGED <<logging, channels, serve, kindOf, wire, store, initialized,
                   kind, paused, source, timers, load, clearing, table, clicks>>

FirstPage(s) ==
    LET size == IF Len(s) < PageSize THEN Len(s) ELSE PageSize
    IN  [i \in 1..size |-> Listed(s[i])]

\* GET /logs?kind=k: the first page.
ServeLoad(l) ==
    /\ load[l].state = "sent"
    /\ load' = [load EXCEPT ![l].state = "served",
                            ![l].items = FirstPage(OfKind(load[l].kind))]
    /\ UNCHANGED <<streamVars, initialized, kind, paused, source, timers,
                   clearing, table, bounds>>

ServeClear ==
    /\ clearing = "sent"
    /\ clearing' = "served"
    /\ ClearStored
    /\ UNCHANGED <<logging, channels, sockets, ingest, initialized, kind, paused,
                   source, timers, load, table, bounds>>

Handler ==
    \/ \E l \in Loads, c \in Conns : Start(l, c)
    \/ \E l \in Loads : Cleared(l) \/ OnLoad(l)
    \/ OnMessage
    \/ OnFlushTimer
    \/ OnError
    \/ \E c \in Conns : OnTimer(c)

User ==
    \/ \E l \in Loads, c \in Conns, k \in Kinds : ChooseKind(l, c, k)
    \/ Pause
    \/ Clear

Server ==
    /\ \/ \E t \in Threads : Add(t) \/ Publish(t)
       \/ Ingest
       \/ Write
       \/ \E c \in Conns : Endpoint(c)
    /\ UNCHANGED view

\* Nobody logs, and the viewer waits for an entry.
Rest ==
    /\ \A t \in Threads : pc[t] = "idle"
    /\ \A c \in Conns : serve[c] \in {"free", "reading", "done"}
    /\ source # None
    /\ UNCHANGED vars

Next ==
    \/ Handler
    \/ User
    \/ Server
    \/ Lose
    \/ \E l \in Loads : ServeLoad(l)
    \/ ServeClear
    \/ Rest

Spec == Init /\ [][Next]_vars

(***************************************************************************)
(* Fairness: an enumeration goes on, the store shows what it has accepted,  *)
(* an endpoint reads, writes and notices that its client has gone, and the  *)
(* browser serves every kind of event.  Nobody has to log or to click, and  *)
(* no connection has to last.                                               *)
(***************************************************************************)
FairSpec ==
    /\ Spec
    /\ \A t \in Threads : WF_vars(Publish(t) /\ UNCHANGED view)
    /\ \A c \in Conns : WF_vars(Endpoint(c) /\ UNCHANGED view)
    /\ WF_vars(OnMessage)
    /\ WF_vars(OnFlushTimer)
    /\ WF_vars(OnError)

-----------------------------------------------------------------------------
(***************************************************************************)
(* Properties.                                                              *)
(***************************************************************************)

\* The viewer never stays without a stream: it has an open EventSource, or a
\* reconnection is scheduled (docs/logging.md:47, logs-viewer.js:134).
AlwaysReconnecting == initialized => source # None \/ timers > 0

\* One stream at a time: every other connection the browser has ever opened it
\* has closed or lost, although kinds are chosen while reconnections are pending
\* (logs-viewer.js:134, 210).
OneStream == \A c \in Conns : serve[c] # "free" /\ c # source => c \in gone

\* No subscription outlives its client: the endpoint unsubscribes a connection
\* that was closed or lost, also while loggers publish to it
\* (WebApplicationExtensions.cs:744).
SubscriptionsEnd == \A c \in Conns : c \in gone /\ c \in subscribers ~> c \notin subscribers

Published(t, e, c) ==
    /\ pc[t] = "publish"
    /\ entry[t] = e
    /\ c \in due[t] \ visited[t]
    /\ source = c
    /\ KindOf[e] = kindOf[c]

Interrupted(c) ==
    \/ source # c
    \/ paused
    \/ Len(chan[c]) = QueueCapacity

\* An entry of the kind shown, published while the viewer is subscribed, gets a
\* row, unless the connection ends, the viewer is paused or a channel is full
\* first: it is offered to all subscribers, whoever leaves meanwhile, and passes
\* the channel, the socket and the pending rows.  What the row shows is another
\* question.
LiveEntryArrives ==
    \A t \in Threads, e \in Entries, c \in Conns :
        Published(t, e, c) ~>
            (\E r \in ToSet(rows) : r.entry = e) \/ Interrupted(c)

\* README.md:11 promises a live logs viewer, and docs/logging.md:11 that the feed
\* streams new entries to it: such an entry can then be read.  It arrives with
\* Pascal-case names, of which rowFor (logs-viewer.js:44) reads none: the row of an
\* entry that the store has dropped, or that no load brings, is blank for ever.
LiveEntryShown ==
    \A t \in Threads, e \in Entries, c \in Conns :
        Published(t, e, c) ~>
            [entry |-> e, blank |-> FALSE] \in ToSet(rows) \/ Interrupted(c)

\* WebApplicationExtensions.cs:663 says that /logs lists recent logs: the page
\* the viewer asks for holds the newest entry of its kind.  The first page is the
\* oldest one.
PageIsRecent ==
    [][\A l \in Loads :
          LET s == OfKind(load[l].kind)
          IN  load[l].state = "sent" /\ load'[l].state = "served" /\ s # <<>> =>
                  Listed(Last(s)) \in ToSet(load'[l].items)]_vars
=============================================================================
