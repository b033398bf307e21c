----------------------------- MODULE LogStream -----------------------------
(***************************************************************************)
(* The way of a log entry from a logger to the connections of the logs      *)
(* page, on the server: SinkLogger.Log (InMemoryHttpLog.cs), the            *)
(* broadcaster (LogStreamBroadcaster.cs) and the endpoints /logs,           *)
(* /logs/clear, /logs/write and /logs/stream (WebApplicationExtensions.cs). *)
(*                                                                         *)
(* A logging thread adds its entry to the store and then offers it to the   *)
(* bounded channel of every subscriber.  The subscribers are in a           *)
(* concurrent dictionary, which threads enumerate while connections come    *)
(* and go: an enumeration meets everyone who is there from its beginning to *)
(* its end, and may or may not meet the others.                             *)
(*                                                                         *)
(* The store is abstract: what it has accepted becomes visible later, in    *)
(* order, or never (HttpLogStore has the details).  Entries are numbered.   *)
(***************************************************************************)
EXTENDS Integers, Sequences, FiniteSets, SequencesExt

CONSTANTS
    Threads,        \* threads that log
    Conns,          \* connections to /logs/stream; one that is over serves again
    Kinds,          \* kinds of entries: http, soap, app
    KindOf,         \* KindOf[e]: the kind of entry e
    QueueCapacity,  \* SubscriberQueueCapacity (1024 in the code)
    MaxEntries      \* bound: entries made in a behaviour

Entries == 1..MaxEntries

ASSUME StreamAssumption ==
    /\ QueueCapacity \in Nat \ {0}
    /\ MaxEntries \in Nat
    /\ KindOf \in [Entries -> Kinds]

VARIABLES
    logged,       \* entries made so far
    pc,           \* pc[t]: where thread t is in Log
    entry,        \* entry[t]: the entry it logs
    due,          \* due[t]: subscribers when its enumeration began
    visited,      \* visited[t]: those it has met
    subscribers,  \* _subscribers
    completed,    \* connections whose channel is completed
    chan,         \* chan[c]: the channel of a subscriber
    serve,        \* serve[c]: where the endpoint is with connection c
    kindOf,       \* kindOf[c]: the kind connection c asked for
    gone,         \* connections the client has closed or lost
    wire,         \* wire[c]: the JSON written to the client, not yet handled by it
    ingest,       \* entries the store has accepted and does not show yet
    stored        \* entries the store shows, oldest first

logging  == <<logged, pc, entry, due, visited>>
channels == <<subscribers, completed, chan>>
sockets  == <<serve, kindOf, gone, wire>>
store    == <<ingest, stored>>
streamVars == <<logging, channels, sockets, store>>

Serving == {"free", "asked", "reading", "leaving", "removed", "done"}

StreamInit ==
    /\ logged = 0
    /\ pc = [t \in Threads |-> "idle"]
    /\ entry = [t \in Threads |-> 0]
    /\ due = [t \in Threads |-> {}]
    /\ visited = [t \in Threads |-> {}]
    /\ subscribers = {}
    /\ completed = {}
    /\ chan = [c \in Conns |-> <<>>]
    /\ serve = [c \in Conns |-> "free"]
    /\ kindOf = [c \in Conns |-> CHOOSE k \in Kinds : TRUE]
    /\ gone = {}
    /\ wire = [c \in Conns |-> <<>>]
    /\ ingest = <<>>
    /\ stored = <<>>

-----------------------------------------------------------------------------
(* SinkLogger.Log and LogStreamBroadcaster.Publish *)

\* The store takes the entry, or drops it (its rate limit, its bounds).
Accept(e) == ingest' = Append(ingest, e) \/ UNCHANGED ingest

Add(t) ==
    /\ pc[t] = "idle"
    /\ logged < MaxEntries
    /\ logged' = logged + 1
    /\ entry' = [entry EXCEPT ![t] = logged + 1]
    /\ pc' = [pc EXCEPT ![t] = "added"]
    /\ Accept(logged + 1)
    /\ UNCHANGED <<due, visited, channels, sockets, stored>>

BeginPublish(t) ==
    /\ pc[t] = "added"
    /\ pc' = [pc EXCEPT ![t] = "publish"]
    /\ due' = [due EXCEPT ![t] = subscribers]
    /\ visited' = [visited EXCEPT ![t] = {}]
    /\ UNCHANGED <<logged, entry, channels, sockets, store>>

\* TryWrite with DropOldest.
Offer(s, e) == IF Len(s) < QueueCapacity THEN Append(s, e) ELSE Append(Tail(s), e)

\* The enumeration meets c.  TryWrite fails only if the channel is completed,
\* and then c is removed.
Visit(t, c) ==
    /\ pc[t] = "publish"
    /\ c \in (due[t] \cup subscribers) \ visited[t]
    /\ visited' = [visited EXCEPT ![t] = @ \cup {c}]
    /\ \/ /\ c \in completed
          /\ subscribers' = subscribers \ {c}
          /\ UNCHANGED chan
       \/ /\ c \notin completed
          /\ chan' = [chan EXCEPT ![c] = Offer(@, entry[t])]
          /\ UNCHANGED subscribers
    /\ UNCHANGED <<logged, pc, entry, due, completed, sockets, store>>

\* Mutant: the enumeration ends at the first subscriber it meets.
VisitedAllMutant(t) == visited[t] # {} \/ due[t] = {}

VisitedAll(t) == due[t] \cap subscribers \subseteq visited[t]

EndPublish(t) ==
    /\ pc[t] = "publish"
    /\ VisitedAll(t)
    /\ pc' = [pc EXCEPT ![t] = "idle"]
    /\ entry' = [entry EXCEPT ![t] = 0]
    /\ due' = [due EXCEPT ![t] = {}]
    /\ visited' = [visited EXCEPT ![t] = {}]
    /\ UNCHANGED <<logged, channels, sockets, store>>

Publish(t) == BeginPublish(t) \/ EndPublish(t) \/ \E c \in Conns : Visit(t, c)

-----------------------------------------------------------------------------
(* The store, and the endpoints that use it *)

Ingest ==
    /\ ingest # <<>>
    /\ stored' = Append(stored, Head(ingest))
    /\ ingest' = Tail(ingest)
    /\ UNCHANGED <<logging, channels, sockets>>

\* POST /logs/write adds to the store and does not publish.
Write ==
    /\ logged < MaxEntries
    /\ logged' = logged + 1
    /\ Accept(logged + 1)
    /\ UNCHANGED <<pc, entry, due, visited, channels, sockets, stored>>

\* POST /logs/clear
ClearStored == stored' = <<>>

\* GET /logs?kind=k
OfKind(k) == SelectSeq(stored, LAMBDA e : KindOf[e] = k)

\* An entry as JSON: itself, and the case of its members' names.
Json(e, names) == [entry |-> e, names |-> names]

\* Results.Json has the options of the web: timestamp, level, category, message.
Listed(e) == Json(e, "camel")

-----------------------------------------------------------------------------
(* GET /logs/stream *)

Subscribe(c) ==
    /\ serve[c] = "asked"
    /\ serve' = [serve EXCEPT ![c] = "reading"]
    /\ subscribers' = subscribers \cup {c}
    /\ UNCHANGED <<logging, completed, chan, kindOf, gone, wire, store>>

\* JsonSerializer.Serialize(entry), with its default options: the names are those
\* of the properties of LogEntry (Timestamp, Level, Category, Message).
Serialized(e) == Json(e, "Pascal")

\* One turn of the loop: an entry of another kind is skipped, the others are
\* written.  A write to a client that is gone throws, or is lost.
Send(c) ==
    /\ serve[c] = "reading"
    /\ chan[c] # <<>>
    /\ chan' = [chan EXCEPT ![c] = Tail(@)]
    /\ \/ /\ KindOf[Head(chan[c])] # kindOf[c]
          /\ UNCHANGED <<serve, wire>>
       \/ /\ KindOf[Head(chan[c])] = kindOf[c]
          /\ c \notin gone
          /\ wire' = [wire EXCEPT ![c] = Append(@, Serialized(Head(chan[c])))]
          /\ UNCHANGED serve
       \/ /\ KindOf[Head(chan[c])] = kindOf[c]
          /\ c \in gone
          /\ serve' = [serve EXCEPT ![c] = "leaving"]
          /\ UNCHANGED wire
    /\ UNCHANGED <<logging, subscribers, completed, kindOf, gone, store>>

\* Cancelled while it waits for the channel.
Leave(c) ==
    /\ serve[c] = "reading"
    /\ chan[c] = <<>>
    /\ c \in gone
    /\ serve' = [serve EXCEPT ![c] = "leaving"]
    /\ UNCHANGED <<logging, channels, kindOf, gone, wire, store>>

\* Mutant: no finally block, the subscription stays.
RemovedMutant(c) == subscribers

Removed(c) == subscribers \ {c}

\* Unsubscribe: TryRemove, then TryComplete.  Nobody reads the channel any more:
\* what is left in it is forgotten.
TakeOut(c) ==
    /\ serve[c] = "leaving"
    /\ serve' = [serve EXCEPT ![c] = "removed"]
    /\ subscribers' = Removed(c)
    /\ UNCHANGED <<logging, completed, chan, kindOf, gone, wire, store>>

Complete(c) ==
    /\ serve[c] = "removed"
    /\ serve' = [serve EXCEPT ![c] = "done"]
    /\ completed' = completed \cup {c}
    /\ chan' = [chan EXCEPT ![c] = <<>>]
    /\ UNCHANGED <<logging, subscribers, kindOf, gone, wire, store>>

Endpoint(c) ==
    Subscribe(c) \/ Send(c) \/ Leave(c) \/ TakeOut(c) \/ Complete(c)
=============================================================================
