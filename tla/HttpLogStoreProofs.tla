------------------------- MODULE HttpLogStoreProofs -------------------------
(***************************************************************************)
(* Proofs about HttpLogStore, for every number of producers and clearers,   *)
(* every capacity, channel size and batch size.                             *)
(***************************************************************************)
EXTENDS HttpLogStore, TLAPS

Reasons == {"rate", "backpressure", "capacity"}

(***************************************************************************)
(* Lemmas about sequences of entries.                                       *)
(***************************************************************************)
LEMMA TailOfSeq ==
    ASSUME NEW s \in Seq(Entries), s # <<>>
    PROVE  /\ Tail(s) \in Seq(Entries)
           /\ Len(Tail(s)) = Len(s) - 1
           /\ Head(s) \in Entries /\ Head(s) = s[1]
           /\ \A i \in DOMAIN Tail(s) : i + 1 \in DOMAIN s /\ Tail(s)[i] = s[i + 1]
  OBVIOUS

LEMMA AppendToSeq ==
    ASSUME NEW s \in Seq(Entries), NEW e \in Entries
    PROVE  /\ Append(s, e) \in Seq(Entries)
           /\ Len(Append(s, e)) = Len(s) + 1
           /\ \A i \in DOMAIN s : Append(s, e)[i] = s[i]
           /\ Append(s, e)[Len(s) + 1] = e
           /\ DOMAIN Append(s, e) = 1..Len(s) + 1
  OBVIOUS

LEMMA SplitOfSeq ==
    ASSUME NEW s \in Seq(Entries), NEW n \in 0..Len(s)
    PROVE  /\ SubSeq(s, 1, n) \in Seq(Entries)
           /\ Len(SubSeq(s, 1, n)) = n
           /\ \A i \in 1..n : SubSeq(s, 1, n)[i] = s[i]
           /\ SubSeq(s, n + 1, Len(s)) \in Seq(Entries)
           /\ Len(SubSeq(s, n + 1, Len(s))) = Len(s) - n
           /\ \A i \in 1..Len(s) - n : SubSeq(s, n + 1, Len(s))[i] = s[n + i]
  OBVIOUS

LEMMA ConcatOfSeqs ==
    ASSUME NEW s \in Seq(Entries), NEW t \in Seq(Entries)
    PROVE  /\ s \o t \in Seq(Entries)
           /\ Len(s \o t) = Len(s) + Len(t)
           /\ \A i \in 1..Len(s) : (s \o t)[i] = s[i]
           /\ \A i \in 1..Len(t) : (s \o t)[Len(s) + i] = t[i]
  OBVIOUS

\* A channel keeps to its bound, and after an offer holds what was offered
\* behind what it held before, shifted by one if the oldest had to go.
LEMMA OfferToChannel ==
    ASSUME NEW s \in Seq(Entries), Len(s) <= MaxQueue, NEW e \in Entries
    PROVE  /\ Offer(s, e) \in Seq(Entries)
           /\ Len(Offer(s, e)) <= MaxQueue
           /\ Len(Offer(s, e)) \in 1..Len(s) + 1
           /\ Offer(s, e)[Len(Offer(s, e))] = e
           /\ \E k \in {0, 1} : \A i \in 1..Len(Offer(s, e)) - 1 :
                 i + k \in DOMAIN s /\ Offer(s, e)[i] = s[i + k]
<1> DEFINE o == Offer(s, e)
<1> USE StoreAssumption DEF Offer
<1>1. CASE Len(s) < MaxQueue
  <2>1. \A i \in 1..Len(o) - 1 : i + 0 \in DOMAIN s /\ o[i] = s[i + 0]
    BY <1>1, AppendToSeq
  <2>2. QED
    BY <1>1, <2>1, AppendToSeq
<1>2. CASE Len(s) >= MaxQueue
  <2>1. s # <<>>
    BY <1>2
  <2> DEFINE t == Tail(s)
  <2>2. /\ t \in Seq(Entries)
        /\ Len(t) = Len(s) - 1
        /\ \A i \in DOMAIN t : i + 1 \in DOMAIN s /\ t[i] = s[i + 1]
    BY <2>1, TailOfSeq
  <2>3. o = Append(t, e)
    BY <1>2
  <2> HIDE DEF t
  <2>4. /\ o \in Seq(Entries)
        /\ Len(o) = Len(s)
        /\ \A i \in 1..Len(s) - 1 : i + 1 \in DOMAIN s /\ o[i] = s[i + 1]
        /\ o[Len(s)] = e
    BY <2>2, <2>3, AppendToSeq
  <2>5. Len(s) = MaxQueue
    BY <1>2
  <2>6. QED
    BY <2>4, <2>5
<1>3. QED
  BY <1>1, <1>2

-----------------------------------------------------------------------------
(***************************************************************************)
(* The type invariant.                                                      *)
(***************************************************************************)
LEMMA InitTypeOK == Init => TypeOK
  BY StoreAssumption
  DEF Init, TypeOK, IngestPCs, DisposePCs, Entries

LEMMA DropTypes ==
    ASSUME TypeOK, NEW r \in Reasons, Drop(r)
    PROVE  drops' \in [Reasons -> Nat]
  BY DEF TypeOK, Drop, Reasons

\* One lemma for the producers, one for each task, one for Clear and Dispose.
LEMMA AddTypeOK ==
    ASSUME TypeOK, NEW p \in Producers, AddBegin(p) \/ AddWrite(p)
    PROVE  TypeOK'
<1> USE StoreAssumption DEF memory, writer
<1>1. CASE AddBegin(p)
  <2>1. drops' \in [Reasons -> Nat]
    BY <1>1, DropTypes DEF AddBegin, TypeOK, Reasons
  <2>2. QED
    BY <1>1, <2>1 DEF AddBegin, TypeOK, Reasons
<1>2. CASE AddWrite(p)
  <2>1. drops' \in [Reasons -> Nat]
    BY <1>2, DropTypes DEF AddWrite, TypeOK, Reasons
  <2>2. ppc' \in [Producers -> {"idle", "write"}]
    BY <1>2 DEF AddWrite, TypeOK
  <2>3. CASE IngestOpen
    <3>1. accepted + 1 \in Entries
      BY <1>2, <2>3 DEF AddWrite, TypeOK, Entries
    <3>2. ingest' \in Seq(Entries) /\ Len(ingest') <= MaxQueue
      BY <1>2, <2>3, <3>1, OfferToChannel DEF AddWrite, TypeOK
    <3>4. accepted' \in 0..MaxEntries
      BY <1>2, <2>3 DEF AddWrite, TypeOK
    <3>5. QED
      BY <1>2, <2>1, <2>2, <3>2, <3>4 DEF AddWrite, TypeOK, Reasons
  <2>4. CASE ~IngestOpen
    BY <1>2, <2>1, <2>2, <2>4 DEF AddWrite, TypeOK, Reasons
  <2>5. QED
    BY <2>3, <2>4
<1>3. QED
  BY <1>1, <1>2

LEMMA IngestTypeOK ==
    ASSUME TypeOK, ipc = "persist" => item \in Entries, IngestStep
    PROVE  TypeOK'
<1> USE StoreAssumption DEF writer
<1>1. CASE IngestWait
  BY <1>1 DEF IngestWait, TypeOK, IngestPCs
<1>2. CASE IngestRead
  <2>1. CASE ingest # <<>>
    <3>1. Tail(ingest) \in Seq(Entries) /\ Len(Tail(ingest)) <= MaxQueue
      BY <2>1, TailOfSeq DEF TypeOK
    <3> Head(ingest) \in Entries
      BY <2>1, TailOfSeq DEF TypeOK
    <3> Append(queue, Head(ingest)) \in Seq(Entries)
      BY AppendToSeq DEF TypeOK
    <3>2. ipc' \in IngestPCs
      BY <1>2 DEF IngestRead, IngestPCs
    <3>3. QED
      <4>1. /\ ingest' = Tail(ingest) /\ item' = Head(ingest)
            /\ queue' = Append(queue, Head(ingest))
        BY <1>2, <2>1 DEF IngestRead
      <4>2. /\ ingest' \in Seq(Entries) /\ Len(ingest') <= MaxQueue
            /\ item' \in 0..MaxEntries
            /\ queue' \in Seq(Entries)
        BY <4>1, <3>1 DEF Entries
      <4>3. QED
        BY <1>2, <3>2, <4>2 DEF IngestRead, TypeOK
  <2>2. CASE ingest = <<>>
    BY <1>2, <2>2 DEF IngestRead, TypeOK, IngestPCs
  <2>3. QED
    BY <2>1, <2>2
<1>3. CASE IngestCount
  BY <1>3 DEF IngestCount, TypeOK, IngestPCs
<1>8. CASE IngestTrim
  <2>1. ipc' \in IngestPCs
    BY <1>8 DEF IngestTrim, IngestPCs
  <2>2. QED
    BY <1>8, <2>1 DEF IngestTrim, TypeOK
<1>4. CASE IngestEvict
  <2>1. queue' \in Seq(Entries)
    <3>1. queue \in Seq(Entries)
      BY DEF TypeOK
    <3>2. queue # <<>> => Tail(queue) \in Seq(Entries)
      BY <3>1, TailOfSeq
    <3>3. queue' = queue \/ (queue # <<>> /\ queue' = Tail(queue))
      BY <1>4 DEF IngestEvict, Evicted
    <3>4. QED
      BY <3>1, <3>2, <3>3
  <2>2. ipc' \in IngestPCs
    BY <1>4 DEF IngestEvict, AfterEmpty, IngestPCs
  <2>3. QED
    BY <1>4, <2>1, <2>2 DEF IngestEvict, TypeOK
<1>5. CASE IngestUncount
  <2>1. drops' \in [Reasons -> Nat]
    BY <1>5, DropTypes DEF IngestUncount, Reasons
  <2>2. QED
    BY <1>5, <2>1 DEF IngestUncount, Uncounted, TypeOK, Reasons, IngestPCs
<1>6. CASE IngestPersist
  <2>1. drops' \in [Reasons -> Nat]
    BY <1>6, DropTypes DEF IngestPersist, Reasons, TypeOK
  <2> item \in Entries /\ file \in Seq(Entries) /\ Len(file) <= MaxQueue
    BY <1>6 DEF IngestPersist, TypeOK
  <2>4. Offer(file, item) \in Seq(Entries) /\ Len(Offer(file, item)) <= MaxQueue
    BY OfferToChannel
  <2>2. file' \in Seq(Entries) /\ Len(file') <= MaxQueue
    BY <1>6, <2>4 DEF IngestPersist
  <2>3. QED
    BY <1>6, <2>1, <2>2 DEF IngestPersist, TypeOK, Reasons, IngestPCs
<1>7. QED
  BY <1>1, <1>2, <1>3, <1>4, <1>5, <1>6, <1>8 DEF IngestStep

LEMMA ClearTypeOK ==
    ASSUME TypeOK, NEW c \in Clearers,
           ClearBegin(c) \/ ClearDrain(c) \/ ClearZero(c)
    PROVE  TypeOK'
<1> USE StoreAssumption DEF memory, writer
<1>1. CASE ClearBegin(c)
  BY <1>1 DEF ClearBegin, TypeOK
<1>2. CASE ClearDrain(c)
  <2>1. queue' \in Seq(Entries)
    BY <1>2, TailOfSeq DEF ClearDrain, TypeOK
  <2>2. QED
    BY <1>2, <2>1 DEF ClearDrain, TypeOK
<1>3. CASE ClearZero(c)
  BY <1>3 DEF ClearZero, TypeOK
<1>4. QED
  BY <1>1, <1>2, <1>3

LEMMA WriterTypeOK ==
    ASSUME TypeOK, WriterStep
    PROVE  TypeOK'
<1> USE StoreAssumption DEF memory
<1>1. CASE WriterWait
  <2>1. batch' \in Seq(Entries)
    <3>1. batch' = batch \/ batch' = <<>>
      BY <1>1 DEF WriterWait, Emptied
    <3>2. <<>> \in Seq(Entries)
      OBVIOUS
    <3>3. QED
      BY <3>1, <3>2 DEF TypeOK
  <2>2. QED
    BY <1>1, <2>1 DEF WriterWait, TypeOK
<1>2. CASE WriterRead
  <2>1. wpc' \in {"wait", "read", "append", "stopped"}
    BY <1>2 DEF WriterRead
  <2>2. CASE file # <<>>
    <3>1. /\ Tail(file) \in Seq(Entries) /\ Len(Tail(file)) <= MaxQueue
          /\ Head(file) \in Entries
      BY <2>2, TailOfSeq DEF TypeOK
    <3>2. Append(batch, Head(file)) \in Seq(Entries)
      BY <3>1, AppendToSeq DEF TypeOK
    <3>3. file' = Tail(file) /\ batch' = Append(batch, Head(file))
      BY <1>2, <2>2 DEF WriterRead
    <3>4. QED
      BY <1>2, <2>1, <3>1, <3>2, <3>3 DEF WriterRead, TypeOK
  <2>3. CASE file = <<>>
    BY <1>2, <2>1, <2>3 DEF WriterRead, TypeOK
  <2>4. QED
    BY <2>2, <2>3
<1>3. CASE WriterAppend
  <2>1. disk \o batch \in Seq(Entries)
    BY ConcatOfSeqs DEF TypeOK
  <2>2. QED
    BY <1>3, <2>1 DEF WriterAppend, TypeOK
<1>4. CASE WriterFails
  <2>1. PICK n \in 0..Len(batch) : disk' = disk \o SubSeq(batch, 1, n)
    BY <1>4 DEF WriterFails
  <2>2. SubSeq(batch, 1, n) \in Seq(Entries)
    BY SplitOfSeq DEF TypeOK
  <2>3. disk' \in Seq(Entries)
    BY <2>1, <2>2, ConcatOfSeqs DEF TypeOK
  <2>4. wpc' \in {"wait", "read", "append", "stopped"}
    BY <1>4 DEF WriterFails, AfterFailure
  <2>5. QED
    BY <1>4, <2>3, <2>4 DEF WriterFails, TypeOK
<1>5. QED
  BY <1>1, <1>2, <1>3, <1>4 DEF WriterStep

LEMMA DisposeTypeOK ==
    ASSUME TypeOK, Dispose \/ DisposeStep
    PROVE  TypeOK'
<1>1. dpc' \in DisposePCs
  BY DEF Dispose, DisposeBegin, DisposeStep, CancelIngestion,
         CompleteIngestion, CancelWriter, CompleteFile, AwaitIngest,
         AwaitWriter, DisposePCs
<1>2. UNCHANGED <<accepted, ppc, ingest, memory, cpc, clears, writer, drops>>
  BY DEF Dispose, DisposeStep
<1>3. QED
  BY <1>1, <1>2 DEF TypeOK, memory, writer

\* An entry in the hands of the ingest task is one that was accepted.
ItemInv == InHand => item \in Entries

LEMMA NextItemInv == TypeOK /\ ItemInv /\ [Next]_vars => ItemInv'
<1> SUFFICES ASSUME TypeOK, ItemInv, [Next]_vars
             PROVE  ItemInv'
  OBVIOUS
<1>1. CASE IngestRead
  BY <1>1, TailOfSeq DEF IngestRead, TypeOK, ItemInv, InHand
<1>2. CASE IngestStep /\ ~IngestRead
  BY <1>2
  DEF IngestStep, IngestWait, IngestCount, IngestTrim, IngestEvict,
      IngestUncount, IngestPersist, AfterEmpty, ItemInv, InHand
<1>3. CASE ~IngestStep
  <2>1. UNCHANGED <<item, ipc>>
    BY <1>3
    DEF Next, AddBegin, AddWrite, ClearBegin, ClearDrain, ClearZero, WriterStep,
        WriterWait, WriterRead, WriterAppend, WriterFails, Dispose, DisposeStep,
        Rest, memory, vars
  <2>2. QED
    BY <2>1 DEF ItemInv, InHand
<1>4. QED
  BY <1>1, <1>2, <1>3

LEMMA NextTypeOK == TypeOK /\ ItemInv /\ [Next]_vars => TypeOK'
<1> SUFFICES ASSUME TypeOK, ItemInv, [Next]_vars
             PROVE  TypeOK'
  OBVIOUS
<1>1. ipc = "persist" => item \in Entries
  BY DEF ItemInv, InHand
<1>2. CASE UNCHANGED vars
  BY <1>2 DEF vars, TypeOK
<1>3. QED
  BY <1>1, <1>2, AddTypeOK, IngestTypeOK, ClearTypeOK, WriterTypeOK,
     DisposeTypeOK DEF Next, Rest

\* Both channels keep to MaxQueue, the counter and the positions of every actor
\* to their ranges, through failed batches, clears and disposal.
THEOREM TypeCorrect == Spec => []TypeOK
<1>1. Init => TypeOK /\ ItemInv
  BY InitTypeOK DEF Init, ItemInv, InHand
<1>2. (TypeOK /\ ItemInv) /\ [Next]_vars => (TypeOK /\ ItemInv)'
  BY NextTypeOK, NextItemInv
<1>3. QED
  BY <1>1, <1>2, PTL DEF Spec

-----------------------------------------------------------------------------
(***************************************************************************)
(* The ring buffer.  Until the first Clear the counter and the queue are    *)
(* written by the ingest task alone, and differ by the step it is in.       *)
(***************************************************************************)
LEMMA InitRingInv == Init => RingInv
  BY StoreAssumption
  DEF Init, RingInv, ClearInv, SizeExact, CountInv, NewestIsKept

LEMMA IngestRingInv ==
    ASSUME TypeOK, RingInv, IngestStep, clears = 0
    PROVE  RingInv'
<1> USE StoreAssumption DEF RingInv, ClearInv, SizeExact, CountInv
<1>1. clears' = 0 /\ cpc' = cpc
  BY DEF IngestStep, IngestWait, IngestRead, IngestCount, IngestTrim,
         IngestEvict, IngestUncount, IngestPersist
<1>2. CASE IngestWait
  BY <1>1, <1>2 DEF IngestWait, NewestIsKept
<1>3. CASE IngestRead
  <2>1. CASE ingest # <<>>
    <3>1. Head(ingest) \in Entries
      BY <2>1, TailOfSeq DEF TypeOK
    <3>2. /\ queue' = Append(queue, Head(ingest)) /\ item' = Head(ingest)
          /\ ipc = "read" /\ ipc' = "count" /\ size' = size
      BY <1>3, <2>1 DEF IngestRead
    <3>3. Len(queue') = Len(queue) + 1 /\ Last(queue') = item'
      BY <3>1, <3>2, AppendToSeq DEF TypeOK, Last
    <3>4. QED
      BY <1>1, <3>2, <3>3 DEF TypeOK, NewestIsKept
  <2>2. CASE ingest = <<>>
    BY <1>1, <1>3, <2>2 DEF IngestRead, NewestIsKept
  <2>3. QED
    BY <2>1, <2>2
<1>4. CASE IngestCount
  BY <1>1, <1>4 DEF IngestCount, TypeOK, NewestIsKept
<1>5. CASE IngestTrim
  BY <1>1, <1>5 DEF IngestTrim, OverCapacity, TypeOK, NewestIsKept
<1>6. CASE IngestEvict
  <2>1. /\ ipc = "over" /\ size' = size /\ item' = item
        /\ Len(queue) = Capacity + 1
    BY <1>6 DEF IngestEvict, TypeOK
  <2>2. queue # <<>> /\ Len(queue) >= 2
    BY <2>1 DEF TypeOK
  <2>3. queue' = Tail(queue) /\ ipc' = "uncount"
    BY <1>6, <2>2 DEF IngestEvict, Evicted
  <2>4. Len(queue') = Len(queue) - 1 /\ Last(queue') = Last(queue)
    BY <2>2, <2>3, TailOfSeq DEF TypeOK, Last
  <2>5. QED
    BY <1>1, <2>1, <2>3, <2>4 DEF TypeOK, NewestIsKept
<1>7. CASE IngestUncount
  BY <1>1, <1>7 DEF IngestUncount, Uncounted, TypeOK, NewestIsKept
<1>8. CASE IngestPersist
  BY <1>1, <1>8 DEF IngestPersist, NewestIsKept
<1>9. QED
  BY <1>2, <1>3, <1>4, <1>5, <1>6, <1>7, <1>8 DEF IngestStep

LEMMA NextRingInv == TypeOK /\ RingInv /\ [Next]_vars => RingInv'
<1> SUFFICES ASSUME TypeOK, RingInv, [Next]_vars
             PROVE  RingInv'
  OBVIOUS
<1>1. CASE IngestStep
  <2>1. clears' = clears
    BY <1>1
    DEF IngestStep, IngestWait, IngestRead, IngestCount, IngestTrim,
        IngestEvict, IngestUncount, IngestPersist
  <2>2. CASE clears # 0
    BY <2>1, <2>2 DEF RingInv, ClearInv, SizeExact, CountInv, NewestIsKept
  <2>3. QED
    BY <1>1, <2>2, IngestRingInv
<1>2. ASSUME NEW c \in Clearers, ClearBegin(c)
      PROVE  RingInv'
  <2>1. clears' # 0
    BY <1>2 DEF ClearBegin, TypeOK
  <2>2. QED
    BY <2>1 DEF RingInv, ClearInv, SizeExact, CountInv, NewestIsKept
<1>3. ASSUME NEW c \in Clearers, ClearDrain(c) \/ ClearZero(c)
      PROVE  RingInv'
  <2>1. clears # 0 /\ clears' = clears
    BY <1>3 DEF ClearDrain, ClearZero, RingInv, ClearInv
  <2>2. QED
    BY <2>1 DEF RingInv, ClearInv, SizeExact, CountInv, NewestIsKept
<1>4. CASE UNCHANGED <<memory, cpc, clears>>
  BY <1>4
  DEF RingInv, ClearInv, SizeExact, CountInv, NewestIsKept, memory
<1>5. QED
  BY <1>1, <1>2, <1>3, <1>4
  DEF Next, AddBegin, AddWrite, WriterStep, WriterWait, WriterRead,
      WriterAppend, WriterFails, Dispose, DisposeStep, Rest, memory, vars

LEMMA RingCorrect == Spec => [](TypeOK /\ RingInv)
<1>1. Init => TypeOK /\ RingInv
  BY InitTypeOK, InitRingInv
<1>2. TypeOK /\ TypeOK' /\ RingInv /\ [Next]_vars => RingInv'
  BY NextRingInv
<1>3. QED
  BY <1>1, <1>2, TypeCorrect, PTL DEF Spec

\* The lock-free counter is exact until the first Clear.
THEOREM CounterIsExact == Spec => []SizeExact
<1>1. RingInv => SizeExact
  BY DEF RingInv
<1>2. QED
  BY <1>1, RingCorrect, PTL

\* The entry being taken in survives its own evictions.
THEOREM NewestSurvives == Spec => []NewestIsKept
<1>1. RingInv => NewestIsKept
  BY DEF RingInv
<1>2. QED
  BY <1>1, RingCorrect, PTL

\* Until it is first cleared the store holds at most Capacity entries whenever
\* its ingest task waits for the next one.
THEOREM CapacityIsKept == Spec => []QueueWithinCapacity
<1>1. TypeOK /\ RingInv => QueueWithinCapacity
  BY StoreAssumption
  DEF TypeOK, RingInv, SizeExact, CountInv, QueueWithinCapacity
<1>2. QED
  BY <1>1, RingCorrect, PTL

\* ... and evicts nothing while there is room.
THEOREM EvictionIsNeeded == Spec => EvictOnlyOverCapacity
<1>1. TypeOK /\ RingInv /\ clears = 0 /\ ipc = "over" => Len(queue) > Capacity
  BY StoreAssumption
  DEF TypeOK, RingInv, SizeExact, CountInv
<1>2. TypeOK /\ RingInv =>
          [clears = 0 /\ ipc = "over" /\ queue' # queue =>
               Len(queue) > Capacity]_vars
  BY <1>1
<1>3. QED
  BY <1>2, RingCorrect, PTL DEF EvictOnlyOverCapacity

-----------------------------------------------------------------------------
(***************************************************************************)
(* The way to the log file.  Each operation on a channel keeps the order of *)
(* its entries and its place before or after the other stages.              *)
(***************************************************************************)
LEMMA OfferOrder ==
    ASSUME NEW s \in Seq(Entries), Len(s) <= MaxQueue, NEW e \in Entries,
           Increasing(s), Below(s, e)
    PROVE  /\ Increasing(Offer(s, e))
           /\ \A t \in Seq(Entries) :
                 /\ Before(t, s) /\ Below(t, e) => Before(t, Offer(s, e))
                 /\ Before(s, t) /\ Above(t, e) => Before(Offer(s, e), t)
           /\ \A f \in Int :
                 /\ Above(s, f) /\ f < e => Above(Offer(s, e), f)
                 /\ Below(s, f) /\ e < f => Below(Offer(s, e), f)
<1> DEFINE o == Offer(s, e)
           n == Len(o)
<1>0. /\ o \in Seq(Entries)
      /\ Len(o) \in 1..Len(s) + 1
      /\ o[Len(o)] = e
      /\ \E k \in {0, 1} : \A i \in 1..Len(o) - 1 :
            i + k \in DOMAIN s /\ o[i] = s[i + k]
  BY OfferToChannel, Zenon
<1> HIDE DEF o
<1>1. /\ o \in Seq(Entries) /\ n \in Nat \ {0} /\ DOMAIN o = 1..n
      /\ o[n] = e
  BY <1>0
<1>2. PICK k \in {0, 1} : \A i \in 1..n - 1 :
                             i + k \in DOMAIN s /\ o[i] = s[i + k]
  BY <1>0
<1> HIDE DEF n
<1>3. \A i \in DOMAIN o :
        \/ i = n
        \/ i \in 1..n - 1 /\ i + k \in DOMAIN s /\ o[i] = s[i + k]
  <2>1. \A i \in 1..n : i = n \/ i \in 1..n - 1
    BY <1>1
  <2>2. QED
    BY <1>1, <1>2, <2>1, Zenon
<1>4. Increasing(o)
  BY <1>1, <1>3 DEF Increasing, Below
<1>5. \A t \in Seq(Entries) :
        /\ Before(t, s) /\ Below(t, e) => Before(t, o)
        /\ Before(s, t) /\ Above(t, e) => Before(o, t)
  BY <1>1, <1>3 DEF Before, Below, Above
<1>6. \A f \in Int :
        /\ Above(s, f) /\ f < e => Above(o, f)
        /\ Below(s, f) /\ e < f => Below(o, f)
  BY <1>1, <1>3 DEF Above, Below
<1>7. QED
  BY <1>4, <1>5, <1>6 DEF o

LEMMA TailOrder ==
    ASSUME NEW s \in Seq(Entries), s # <<>>, Increasing(s)
    PROVE  /\ Increasing(Tail(s))
           /\ Above(Tail(s), Head(s))
           /\ \A t \in Seq(Entries) : Before(t, s) =>
                 Before(t, Tail(s)) /\ Below(t, Head(s))
           /\ \A f \in Int : Below(s, f) => Below(Tail(s), f) /\ Head(s) < f
<1> DEFINE r == Tail(s)
           h == Head(s)
<1>1. /\ 1 \in DOMAIN s /\ h = s[1]
      /\ \A i \in DOMAIN r :
            i \in Nat \ {0} /\ i + 1 \in DOMAIN s /\ r[i] = s[i + 1]
  BY TailOfSeq
<1> HIDE DEF r, h
<1>2. Increasing(r) /\ Above(r, h)
  BY <1>1 DEF Increasing, Above
<1>3. \A t \in Seq(Entries) : Before(t, s) => Before(t, r) /\ Below(t, h)
  BY <1>1 DEF Before, Below
<1>4. \A f \in Int : Below(s, f) => Below(r, f) /\ h < f
  BY <1>1 DEF Below
<1>5. QED
  BY <1>2, <1>3, <1>4 DEF r, h

LEMMA SplitOrder ==
    ASSUME NEW s \in Seq(Entries), NEW n \in 0..Len(s), Increasing(s)
    PROVE  /\ Increasing(SubSeq(s, 1, n))
           /\ Increasing(SubSeq(s, n + 1, Len(s)))
           /\ Before(SubSeq(s, 1, n), SubSeq(s, n + 1, Len(s)))
           /\ \A t \in Seq(Entries) :
                 /\ Before(t, s) => /\ Before(t, SubSeq(s, 1, n))
                                    /\ Before(t, SubSeq(s, n + 1, Len(s)))
                 /\ Before(s, t) => /\ Before(SubSeq(s, 1, n), t)
                                    /\ Before(SubSeq(s, n + 1, Len(s)), t)
           /\ \A f \in Int : Below(s, f) =>
                 /\ Below(SubSeq(s, 1, n), f)
                 /\ Below(SubSeq(s, n + 1, Len(s)), f)
<1> DEFINE a == SubSeq(s, 1, n)
           b == SubSeq(s, n + 1, Len(s))
<1>0. /\ a \in Seq(Entries) /\ Len(a) = n
      /\ \A i \in 1..n : a[i] = s[i]
      /\ b \in Seq(Entries) /\ Len(b) = Len(s) - n
      /\ \A i \in 1..Len(s) - n : b[i] = s[n + i]
  BY SplitOfSeq, Zenon
<1> HIDE DEF a, b
<1>1. /\ \A i \in DOMAIN a : i \in 1..n /\ i \in DOMAIN s /\ a[i] = s[i]
      /\ \A i \in DOMAIN b :
            i \in Nat \ {0} /\ n + i \in DOMAIN s /\ b[i] = s[n + i]
  BY <1>0
<1>2. Increasing(a) /\ Increasing(b) /\ Before(a, b)
  BY <1>1 DEF Increasing, Before
<1>3. \A t \in Seq(Entries) :
        /\ Before(t, s) => Before(t, a) /\ Before(t, b)
        /\ Before(s, t) => Before(a, t) /\ Before(b, t)
  BY <1>1 DEF Before
<1>4. \A f \in Int : Below(s, f) => Below(a, f) /\ Below(b, f)
  BY <1>1 DEF Below
<1>5. QED
  BY <1>2, <1>3, <1>4 DEF a, b

LEMMA ConcatOrder ==
    ASSUME NEW s \in Seq(Entries), NEW t \in Seq(Entries),
           Increasing(s), Increasing(t), Before(s, t)
    PROVE  /\ Increasing(s \o t)
           /\ \A v \in Seq(Entries) :
                 Before(s, v) /\ Before(t, v) => Before(s \o t, v)
           /\ \A f \in Int : Below(s, f) /\ Below(t, f) => Below(s \o t, f)
<1> DEFINE u == s \o t
<1>1. /\ u \in Seq(Entries)
      /\ Len(u) = Len(s) + Len(t)
      /\ \A i \in 1..Len(s) : u[i] = s[i]
      /\ \A i \in 1..Len(t) : u[Len(s) + i] = t[i]
  BY ConcatOfSeqs
<1> HIDE DEF u
<1>2. \A i \in DOMAIN u :
        \/ i \in DOMAIN s /\ u[i] = s[i]
        \/ i - Len(s) \in DOMAIN t /\ u[i] = t[i - Len(s)] /\ i > Len(s)
  <2>1. SUFFICES ASSUME NEW i \in DOMAIN u
                 PROVE  \/ i \in DOMAIN s /\ u[i] = s[i]
                        \/ /\ i - Len(s) \in DOMAIN t
                           /\ u[i] = t[i - Len(s)]
                           /\ i > Len(s)
    OBVIOUS
  <2>2. i \in 1..Len(s) + Len(t) /\ Len(s) \in Nat /\ Len(t) \in Nat
    BY <1>1
  <2>3. CASE i <= Len(s)
    <3>1. i \in 1..Len(s)
      BY <2>2, <2>3
    <3>2. QED
      BY <1>1, <3>1
  <2>4. CASE i > Len(s)
    <3>1. i - Len(s) \in 1..Len(t) /\ Len(s) + (i - Len(s)) = i
      BY <2>2, <2>4
    <3>2. u[i] = t[i - Len(s)]
      BY <1>1, <3>1
    <3>3. QED
      BY <2>4, <3>1, <3>2
  <2>5. QED
    BY <2>2, <2>3, <2>4
<1>3. \A i \in DOMAIN s : i \in Int /\ i <= Len(s)
  OBVIOUS
<1>4. \A i \in DOMAIN u : i \in Int
  BY <1>1
<1>5. Increasing(u)
  BY <1>2, <1>3, <1>4 DEF Increasing, Before
<1>6. \A v \in Seq(Entries) : Before(s, v) /\ Before(t, v) => Before(u, v)
  BY <1>2 DEF Before
<1>7. \A f \in Int : Below(s, f) /\ Below(t, f) => Below(u, f)
  BY <1>2 DEF Below
<1>8. QED
  BY <1>5, <1>6, <1>7 DEF u

LEMMA AppendOrder ==
    ASSUME NEW s \in Seq(Entries), NEW e \in Entries,
           Increasing(s), Below(s, e)
    PROVE  /\ Increasing(Append(s, e))
           /\ \A t \in Seq(Entries) :
                 /\ Before(t, s) /\ Below(t, e) => Before(t, Append(s, e))
                 /\ Before(s, t) /\ Above(t, e) => Before(Append(s, e), t)
           /\ \A f \in Int : Below(s, f) /\ e < f => Below(Append(s, e), f)
<1> DEFINE u == Append(s, e)
           n == Len(s) + 1
<1>1. /\ DOMAIN u = 1..n /\ u[n] = e /\ n \in Nat
      /\ \A i \in DOMAIN s : u[i] = s[i]
      /\ DOMAIN s = 1..n - 1
  BY AppendToSeq
<1> HIDE DEF u, n
<1>2. \A i \in DOMAIN u : i = n \/ (i \in DOMAIN s /\ u[i] = s[i])
  BY <1>1
<1>3. Increasing(u)
  BY <1>1, <1>2 DEF Increasing, Below
<1>4. \A t \in Seq(Entries) :
        /\ Before(t, s) /\ Below(t, e) => Before(t, u)
        /\ Before(s, t) /\ Above(t, e) => Before(u, t)
  BY <1>1, <1>2 DEF Before, Below, Above
<1>5. \A f \in Int : Below(s, f) /\ e < f => Below(u, f)
  BY <1>1, <1>2 DEF Below
<1>6. QED
  BY <1>3, <1>4, <1>5 DEF u

LEMMA BelowMore ==
    ASSUME NEW s \in Seq(Entries), NEW f \in Int, Below(s, f)
    PROVE  Below(s, f + 1)
<1>1. \A i \in DOMAIN s : s[i] \in Entries
  OBVIOUS
<1>2. Entries \subseteq Int
  BY StoreAssumption DEF Entries
<1>3. \A i \in DOMAIN s : s[i] \in Int
  BY <1>1, <1>2, Zenon
<1>4. QED
  BY ONLY <1>3, Below(s, f), f \in Int DEF Below

LEMMA EmptyOrder ==
    /\ Increasing(<<>>)
    /\ \A t \in Seq(Entries) : Before(<<>>, t) /\ Before(t, <<>>)
    /\ \A f \in Int : Below(<<>>, f) /\ Above(<<>>, f)
  BY DEF Increasing, Before, Below, Above

LEMMA InitPathInv == Init => PathInv
  BY DEF Init, PathInv, DiskInOrder, Increasing, Before, Below, Above, InHand

LEMMA AddPathInv ==
    ASSUME TypeOK, PathInv, NEW p \in Producers, AddWrite(p), IngestOpen
    PROVE  PathInv'
<1> DEFINE e == accepted + 1
<1>0. /\ accepted < MaxEntries
      /\ ingest' = Offer(ingest, e) /\ accepted' = e
      /\ UNCHANGED <<item, ipc, file, batch, wpc, disk>>
  BY DEF AddWrite, memory, writer
<1>1. /\ e \in Entries /\ accepted \in Nat
      /\ ingest' = Offer(ingest, e) /\ accepted' = e
      /\ UNCHANGED <<item, ipc, file, batch, wpc, disk>>
  BY <1>0, StoreAssumption DEF TypeOK, Entries
<1>2. /\ Increasing(ingest')
      /\ Before(disk, ingest') /\ Before(batch, ingest') /\ Before(file, ingest')
  BY <1>1, OfferOrder DEF PathInv, TypeOK
<1>3. e \in Int /\ e < e + 1
  BY <1>1
<1>4. /\ Below(disk, e + 1) /\ Below(batch, e + 1) /\ Below(file, e + 1)
      /\ Below(ingest, e + 1)
  BY <1>3, BelowMore DEF PathInv, TypeOK
<1>7. Below(ingest', e + 1)
  BY <1>1, <1>3, <1>4, OfferOrder DEF PathInv, TypeOK
<1>5. InHand => Above(ingest', item) /\ item <= e
  BY <1>1, OfferOrder DEF PathInv, TypeOK, Entries
<1> HIDE DEF e
<1>6. QED
  BY <1>1, <1>2, <1>4, <1>5, <1>7 DEF PathInv, DiskInOrder, InHand

LEMMA ReadPathInv ==
    ASSUME TypeOK, PathInv, IngestRead, ingest # <<>>
    PROVE  PathInv'
<1>1. /\ ingest' = Tail(ingest) /\ item' = Head(ingest) /\ ipc' = "count"
      /\ UNCHANGED <<accepted, file, batch, wpc, disk>>
  BY DEF IngestRead, writer
<1>2. item' \in Entries
  BY <1>1, TailOfSeq DEF TypeOK
<1>3. /\ Increasing(ingest') /\ Above(ingest', item')
      /\ Before(disk, ingest') /\ Before(batch, ingest') /\ Before(file, ingest')
      /\ Below(disk, item') /\ Below(batch, item') /\ Below(file, item')
      /\ Below(ingest', accepted + 1) /\ item' < accepted + 1
  BY <1>1, TailOrder DEF PathInv, TypeOK
<1>4. item' <= accepted
  BY <1>2, <1>3 DEF TypeOK, Entries
<1>5. QED
  BY <1>1, <1>2, <1>3, <1>4 DEF PathInv, DiskInOrder, InHand

LEMMA PersistPathInv ==
    ASSUME TypeOK, PathInv, IngestPersist
    PROVE  PathInv'
<1>1. /\ ipc = "persist" /\ ipc' = "read"
      /\ file' = file \/ file' = Offer(file, item)
      /\ UNCHANGED <<accepted, ingest, batch, wpc, disk>>
  BY DEF IngestPersist
<1>2. CASE file' = file
  BY <1>1, <1>2 DEF PathInv, DiskInOrder, InHand
<1>3. CASE file' = Offer(file, item)
  <2>1. /\ item \in Entries /\ item < accepted + 1
        /\ Below(disk, item) /\ Below(batch, item) /\ Below(file, item)
        /\ Above(ingest, item)
    BY <1>1 DEF PathInv, InHand, TypeOK, Entries
  <2>2. /\ Increasing(file')
        /\ Before(disk, file') /\ Before(batch, file') /\ Before(file', ingest)
        /\ Below(file', accepted + 1)
    BY <1>3, <2>1, OfferOrder DEF PathInv, TypeOK
  <2>3. QED
    BY <1>1, <2>2 DEF PathInv, DiskInOrder, InHand
<1>4. QED
  BY <1>1, <1>2, <1>3

LEMMA WriterReadPathInv ==
    ASSUME TypeOK, PathInv, WriterWait \/ WriterRead
    PROVE  PathInv'
<1>1. UNCHANGED <<accepted, ingest, item, ipc, disk>>
  BY DEF WriterWait, WriterRead, memory
<1>2. accepted + 1 \in Int /\ (InHand => item \in Int)
  BY DEF PathInv, TypeOK, Entries
<1>3. CASE WriterWait /\ batch' = <<>>
  <2>1. file' = file
    BY <1>3 DEF WriterWait
  <2>2. /\ Increasing(batch') /\ Before(disk, batch') /\ Before(batch', file)
        /\ Before(batch', ingest)
        /\ \A f \in Int : Below(batch', f)
    BY <1>3, EmptyOrder DEF TypeOK
  <2>3. QED
    BY <1>1, <1>2, <2>1, <2>2 DEF PathInv, DiskInOrder, InHand
<1>4. CASE file' = file /\ batch' = batch /\ (wpc' \in {"read", "append"} => wpc = "read")
  BY <1>1, <1>4 DEF PathInv, DiskInOrder, InHand
<1>5. CASE WriterRead /\ file # <<>>
  <2>1. /\ batch' = Append(batch, Head(file)) /\ file' = Tail(file)
        /\ wpc = "read"
    BY <1>5 DEF WriterRead
  <2> DEFINE h == Head(file)
             r == Tail(file)
  <2>2. h \in Entries /\ r \in Seq(Entries)
    BY <1>5, TailOfSeq DEF TypeOK
  <2>3. /\ Increasing(r) /\ Above(r, h)
        /\ \A t \in Seq(Entries) : Before(t, file) => Before(t, r) /\ Below(t, h)
        /\ \A f \in Int : Below(file, f) => Below(r, f) /\ h < f
    BY <1>5, TailOrder DEF PathInv, TypeOK
  <2>4. Before(r, ingest) /\ Above(ingest, h)
    <3>1. /\ 1 \in DOMAIN file /\ h = file[1]
          /\ \A i \in DOMAIN r : i + 1 \in DOMAIN file /\ r[i] = file[i + 1]
      BY <1>5, TailOfSeq DEF TypeOK
    <3>2. QED
      BY <3>1 DEF PathInv, Before, Above
  <2> HIDE DEF h, r
  <2>5. /\ Before(disk, r) /\ Before(batch, r) /\ Below(disk, h) /\ Below(batch, h)
        /\ Increasing(batch) /\ Before(disk, batch) /\ Before(batch, ingest)
        /\ Below(r, accepted + 1) /\ h < accepted + 1
        /\ InHand => Below(r, item) /\ h < item
    BY <1>2, <2>1, <2>3 DEF PathInv, TypeOK
  <2>6. batch' = Append(batch, h) /\ file' = r
    BY <2>1 DEF h, r
  <2>7. /\ Increasing(batch') /\ Before(disk, batch') /\ Before(batch', r)
        /\ Before(batch', ingest)
        /\ \A f \in Int : Below(batch, f) /\ h < f => Below(batch', f)
    BY <2>2, <2>3, <2>4, <2>5, <2>6, AppendOrder DEF TypeOK
  <2>8. Below(batch', accepted + 1) /\ (InHand => Below(batch', item))
    BY <1>2, <2>5, <2>7 DEF PathInv
  <2>9. QED
    BY <1>1, <2>3, <2>4, <2>5, <2>6, <2>7, <2>8 DEF PathInv, DiskInOrder, InHand
<1>6. QED
  BY <1>3, <1>4, <1>5 DEF WriterWait, WriterRead, Emptied

\* Any prefix of a batch may be appended, and then the batch is done with.
LEMMA AppendPathInv ==
    ASSUME TypeOK, PathInv, WriterAppend \/ WriterFails
    PROVE  PathInv'
<1>1. /\ wpc = "append" /\ wpc' \notin {"read", "append"}
      /\ UNCHANGED <<accepted, ingest, item, ipc, file, batch>>
  BY DEF WriterAppend, WriterFails, AfterFailure, memory
<1>2. PICK n \in 0..Len(batch) : disk' = disk \o SubSeq(batch, 1, n)
  <2>1. CASE WriterAppend
    <3>1. SubSeq(batch, 1, Len(batch)) = batch
      BY DEF TypeOK
    <3>2. Len(batch) \in 0..Len(batch)
      BY DEF TypeOK
    <3>3. QED
      BY <2>1, <3>1, <3>2 DEF WriterAppend
  <2>2. CASE WriterFails
    BY <2>2 DEF WriterFails
  <2>3. QED
    BY <2>1, <2>2
<1> DEFINE a == SubSeq(batch, 1, n)
<1>3. a \in Seq(Entries)
  BY SplitOfSeq DEF TypeOK
<1>4. /\ Increasing(a) /\ Before(disk, a) /\ Before(a, file) /\ Before(a, ingest)
      /\ \A f \in Int : Below(batch, f) => Below(a, f)
  BY <1>1, SplitOrder DEF PathInv, TypeOK
<1> HIDE DEF a
<1>5. Increasing(disk)
  BY DEF PathInv, DiskInOrder, Increasing
<1>6. disk' = disk \o a
  BY <1>2 DEF a
<1>7. /\ Increasing(disk') /\ Before(disk', file) /\ Before(disk', ingest)
      /\ \A f \in Int : Below(disk, f) /\ Below(batch, f) => Below(disk', f)
  BY <1>3, <1>4, <1>5, <1>6, ConcatOrder DEF PathInv, TypeOK
<1>8. DiskInOrder'
  BY <1>7 DEF Increasing, DiskInOrder
<1>9. accepted + 1 \in Int /\ (InHand => item \in Int)
  BY DEF PathInv, TypeOK, Entries
<1>10. QED
  BY <1>1, <1>7, <1>8, <1>9 DEF PathInv, InHand

LEMMA NextPathInv == TypeOK /\ PathInv /\ [Next]_vars => PathInv'
<1> SUFFICES ASSUME TypeOK, PathInv, [Next]_vars
             PROVE  PathInv'
  OBVIOUS
<1>1. ASSUME NEW p \in Producers, AddWrite(p)
      PROVE  PathInv'
  <2>1. CASE IngestOpen
    BY <1>1, <2>1, AddPathInv
  <2>2. CASE ~IngestOpen
    BY <1>1, <2>2 DEF AddWrite, memory, writer, PathInv, DiskInOrder, InHand
  <2>3. QED
    BY <2>1, <2>2
<1>2. CASE IngestRead
  <2>1. CASE ingest = <<>>
    BY <1>2, <2>1 DEF IngestRead, writer, PathInv, DiskInOrder, InHand
  <2>2. QED
    BY <1>2, <2>1, ReadPathInv
<1>3. CASE IngestStep /\ ~IngestRead /\ ~IngestPersist
  <2>1. /\ UNCHANGED <<accepted, ingest, item, file, batch, wpc, disk>>
        /\ InHand' => InHand
    BY <1>3
    DEF IngestStep, IngestWait, IngestCount, IngestTrim, IngestEvict,
        IngestUncount, AfterEmpty, InHand, writer
  <2>2. QED
    BY <2>1 DEF PathInv, DiskInOrder
<1>4. CASE UNCHANGED <<accepted, ingest, item, ipc, file, batch, wpc, disk>>
  BY <1>4 DEF PathInv, DiskInOrder, InHand
<1>5. QED
  BY <1>1, <1>2, <1>3, <1>4, PersistPathInv, WriterReadPathInv, AppendPathInv
  DEF Next, AddBegin, IngestStep, ClearBegin, ClearDrain, ClearZero, WriterStep,
      Dispose, DisposeStep, Rest, memory, writer, vars

\* The log file never repeats or reorders entries, whatever the channels drop,
\* wherever a batch fails, and for every number of producers and clears.
THEOREM FileIsInOrder == Spec => []DiskInOrder
<1>1. Init => PathInv
  BY InitPathInv
<1>2. TypeOK /\ PathInv /\ [Next]_vars => PathInv'
  BY NextPathInv
<1>3. PathInv => DiskInOrder
  BY DEF PathInv
<1>4. QED
  BY <1>1, <1>2, <1>3, TypeCorrect, PTL DEF Spec

-----------------------------------------------------------------------------
(***************************************************************************)
(* Disposal.  What DisposeAsync has waited for has ended, and a task that   *)
(* has ended does not begin again.                                          *)
(***************************************************************************)
EndedInv ==
    /\ dpc \in {"ingestAwaited", "disposed"} => ipc = "stopped"
    /\ dpc = "disposed" => wpc = "stopped"

LEMMA NextEndedInv == EndedInv /\ [Next]_vars => EndedInv'
<1> SUFFICES ASSUME EndedInv, [Next]_vars
             PROVE  EndedInv'
  OBVIOUS
<1> USE DEF EndedInv
<1>1. CASE IngestStep
  BY <1>1
  DEF IngestStep, IngestWait, IngestRead, IngestCount, IngestTrim, IngestEvict,
      IngestUncount, IngestPersist, writer
<1>2. CASE WriterStep
  BY <1>2
  DEF WriterStep, WriterWait, WriterRead, WriterAppend, WriterFails, memory
<1>3. CASE Dispose \/ DisposeStep
  BY <1>3
  DEF Dispose, DisposeBegin, DisposeStep, CancelIngestion, CompleteIngestion,
      CancelWriter, CompleteFile, AwaitIngest, IngestEnded, AwaitWriter, memory,
      writer
<1>4. CASE UNCHANGED <<ipc, wpc, dpc>>
  BY <1>4
<1>5. QED
  BY <1>1, <1>2, <1>3, <1>4
  DEF Next, AddBegin, AddWrite, ClearBegin, ClearDrain, ClearZero, Rest, memory,
      writer, vars

\* Once DisposeAsync has returned nothing is ingested and nothing is written,
\* though producers that passed the check before go on to offer their entries.
THEOREM DisposedIsQuiet == Spec => QuietAfterDispose
<1>1. Init => EndedInv
  BY DEF Init, EndedInv
<1>2. EndedInv /\ [Next]_vars =>
          [dpc = "disposed" => UNCHANGED <<ingest, item, ipc, file, disk>>]_vars
  <2> SUFFICES ASSUME EndedInv, [Next]_vars, dpc = "disposed"
               PROVE  UNCHANGED <<ingest, item, ipc, file, disk>>
    OBVIOUS
  <2>1. ipc = "stopped" /\ wpc = "stopped"
    BY DEF EndedInv
  <2>2. ~IngestStep
    BY <2>1
    DEF IngestStep, IngestWait, IngestRead, IngestCount, IngestTrim,
        IngestEvict, IngestUncount, IngestPersist
  <2>3. ~WriterStep
    BY <2>1 DEF WriterStep, WriterWait, WriterRead, WriterAppend, WriterFails
  <2>4. ASSUME NEW p \in Producers, AddWrite(p)
        PROVE  UNCHANGED <<ingest, item, ipc, file, disk>>
    BY <2>4 DEF AddWrite, IngestOpen, memory, writer
  <2>5. QED
    BY <2>2, <2>3, <2>4
    DEF Next, AddBegin, ClearBegin, ClearDrain, ClearZero, Dispose, DisposeBegin,
        DisposeStep, Rest, memory, writer, vars
<1>3. QED
  BY <1>1, <1>2, NextEndedInv, PTL DEF Spec, QuietAfterDispose
=============================================================================
