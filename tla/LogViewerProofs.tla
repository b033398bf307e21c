-------------------------- MODULE LogViewerProofs --------------------------
(***************************************************************************)
(* What holds of the logs page for any number of connections, loads,        *)
(* entries, clicks and losses: the viewer is never left without a stream,   *)
(* and never holds two.                                                     *)
(*                                                                         *)
(* Both are inductive together with the types of the three variables they   *)
(* speak of.  One lemma covers connect(), which three handlers call.        *)
(***************************************************************************)
EXTENDS LogViewer, TLAPS

StreamTypes ==
    /\ serve \in [Conns -> Serving]
    /\ source \in Conns \cup {None}
    /\ timers \in Nat

IInv == StreamTypes /\ AlwaysReconnecting /\ OneStream

\* The endpoint never gives a connection back: once asked for, it is not free.
LEMMA EndpointKeepsAsked ==
    ASSUME StreamTypes, NEW c \in Conns, Endpoint(c)
    PROVE  /\ serve' \in [Conns -> Serving]
           /\ \A d \in Conns : serve'[d] # "free" => serve[d] # "free"
           /\ gone' = gone
  BY SMTT(30) DEF StreamTypes, Serving, Endpoint, Subscribe, Send, Leave, TakeOut,
     Complete, sockets

\* connect() leaves one open source, the one it makes.
LEMMA ConnectMakesTheStream ==
    ASSUME StreamTypes, OneStream, NEW c \in Conns, NEW k, Connect(c, k)
    PROVE  /\ serve' \in [Conns -> Serving]
           /\ source' \in Conns
           /\ source' # None
           /\ OneStream'
  <1>1. /\ serve' = [serve EXCEPT ![c] = "asked"]
        /\ source' = c
        /\ gone' = (gone \cup ({source} \ {None})) \ {c}
    BY DEF Connect, Closed
  <1>2. serve' \in [Conns -> Serving]
    BY <1>1 DEF StreamTypes, Serving
  <1>3. source' \in Conns /\ source' # None
    BY <1>1, ViewerAssumption DEF ViewerAssumption
  <1>4. ASSUME NEW d \in Conns, serve'[d] # "free", d # source'
        PROVE  d \in gone'
    BY <1>1, <1>4, ViewerAssumption DEF StreamTypes, OneStream, ViewerAssumption
  <1> QED
    BY <1>2, <1>3, <1>4 DEF OneStream

LEMMA InitHolds == Init => IInv
  BY DEF Init, StreamInit, IInv, StreamTypes, Serving, AlwaysReconnecting, OneStream

\* What the server does on its own side of the connections.
LEMMA ServerKeeps ==
    ASSUME IInv, Server
    PROVE  IInv'
  <1>1. UNCHANGED <<initialized, source, timers>>
    BY DEF Server, view
  <1>2. /\ serve' \in [Conns -> Serving]
        /\ \A d \in Conns : serve'[d] # "free" => serve[d] # "free"
        /\ gone' = gone
    <2>1. ASSUME NEW t \in Threads, Add(t) \/ Publish(t)
          PROVE  serve' = serve /\ gone' = gone
      BY <2>1 DEF Add, Publish, BeginPublish, EndPublish, Visit, sockets
    <2>2. Ingest \/ Write => serve' = serve /\ gone' = gone
      BY DEF Ingest, Write, sockets
    <2>3. ASSUME NEW c \in Conns, Endpoint(c)
          PROVE  /\ serve' \in [Conns -> Serving]
                 /\ \A d \in Conns : serve'[d] # "free" => serve[d] # "free"
                 /\ gone' = gone
      BY <2>3, EndpointKeepsAsked DEF IInv
    <2> QED
      BY <2>1, <2>2, <2>3 DEF Server, IInv, StreamTypes
  <1> QED
    BY <1>1, <1>2 DEF IInv, StreamTypes, AlwaysReconnecting, OneStream

\* Handlers that neither open nor close a source.
LEMMA OthersKeep ==
    ASSUME IInv,
           \/ Pause \/ Clear \/ OnMessage \/ OnFlushTimer \/ ServeClear \/ Rest
           \/ \E l \in Loads : Cleared(l) \/ OnLoad(l) \/ ServeLoad(l)
    PROVE  IInv'
  <1>1. UNCHANGED <<initialized, source, timers, serve, gone>>
    BY DEF Pause, Clear, OnMessage, OnFlushTimer, ServeClear, Rest, Cleared, OnLoad,
       ServeLoad, streamVars, sockets, vars, view, bounds
  <1> QED
    BY <1>1 DEF IInv, StreamTypes, AlwaysReconnecting, OneStream

LEMMA NextKeeps == IInv /\ [Next]_vars => IInv'
  <1> SUFFICES ASSUME IInv, [Next]_vars
               PROVE  IInv'
    OBVIOUS
  <1> USE DEF IInv
  <1>1. ASSUME NEW l \in Loads, NEW c \in Conns, Start(l, c)
        PROVE  IInv'
    <2>1. Connect(c, kind) /\ timers' = timers
      BY <1>1 DEF Start
    <2> QED
      BY <2>1, ConnectMakesTheStream DEF StreamTypes, AlwaysReconnecting
  <1>2. ASSUME NEW l \in Loads, NEW c \in Conns, NEW k \in Kinds, ChooseKind(l, c, k)
        PROVE  IInv'
    <2>1. Connect(c, k) /\ timers' = timers
      BY <1>2 DEF ChooseKind
    <2> QED
      BY <2>1, ConnectMakesTheStream DEF StreamTypes, AlwaysReconnecting
  <1>3. ASSUME NEW c \in Conns, OnTimer(c)
        PROVE  IInv'
    <2>1. Connect(c, kind) /\ timers > 0 /\ timers' = timers - 1
      BY <1>3 DEF OnTimer
    <2> QED
      BY <2>1, ConnectMakesTheStream DEF StreamTypes, AlwaysReconnecting
  <1>4. CASE OnError
    <2>1. /\ source \in gone
          /\ source' = None
          /\ timers' = timers + 1
          /\ UNCHANGED <<serve, gone, initialized>>
      BY <1>4 DEF OnError, Retries
    <2> QED
      BY <2>1 DEF StreamTypes, AlwaysReconnecting, OneStream
  <1>5. CASE Lose
    <2>1. gone' = gone \cup {source} /\ UNCHANGED <<serve, source, timers, initialized>>
      BY <1>5 DEF Lose
    <2> QED
      BY <2>1 DEF StreamTypes, AlwaysReconnecting, OneStream
  <1>6. CASE Server
    BY <1>6, ServerKeeps
  <1>7. CASE UNCHANGED vars
    BY <1>7 DEF vars, streamVars, sockets, view, StreamTypes, AlwaysReconnecting, OneStream
  <1> HIDE DEF IInv
  <1> QED
    BY <1>1, <1>2, <1>3, <1>4, <1>5, <1>6, <1>7, OthersKeep DEF Next, Handler, User

THEOREM Invariance == Spec => []IInv
  <1>1. Init => IInv
    BY InitHolds
  <1>2. IInv /\ [Next]_vars => IInv'
    BY NextKeeps
  <1> QED
    BY <1>1, <1>2, PTL DEF Spec

\* The viewer has an open stream, or a reconnection is scheduled
\* (logs-viewer.js:134).
THEOREM NeverWithoutStream == Spec => []AlwaysReconnecting
  <1>1. IInv => AlwaysReconnecting
    BY DEF IInv
  <1> QED
    BY <1>1, Invariance, PTL

\* Whatever the order of timers, clicks and errors, every connection but the
\* current one is closed (logs-viewer.js:134, 210).
THEOREM NeverTwoStreams == Spec => []OneStream
  <1>1. IInv => OneStream
    BY DEF IInv
  <1> QED
    BY <1>1, Invariance, PTL
=============================================================================
