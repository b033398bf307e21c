---------------------------- MODULE HttpLogStore ----------------------------
(***************************************************************************)
(* InMemoryHttpLog (XRoadFolkWeb/Infrastructure/InMemoryHttpLog.cs): the    *)
(* in-memory log behind the logs page, with its optional file writer.       *)
(*                                                                         *)
(* Producers call Add, which offers an entry to a bounded channel that      *)
(* drops its oldest entry when full.  One ingest task moves entries from    *)
(* the channel to a ring buffer: a concurrent queue beside an approximate   *)
(* counter, _size, that both the ingest task and Clear write without a      *)
(* lock.  Ingested entries go on to a second bounded channel, which one     *)
(* writer task appends to the log file in batches.  Every step below is one *)
(* atomic operation of a channel, the queue or the counter.                 *)
(*                                                                         *)
(* An entry is the number of the TryWrite that accepted it.  Whether the    *)
(* rate limiter drops an Add is a choice here; RateLimiter models it.       *)
(***************************************************************************)
EXTENDS Integers, Sequences, FiniteSets, SequencesExt

CONSTANTS
    Producers,   \* threads that log
    Clearers,    \* requests that clear the log
    Capacity,    \* _capacity: entries kept in memory
    MaxQueue,    \* capacity of both channels
    MaxBatch,    \* lines the writer takes at once (1024 in the code)
    Persist,     \* file persistence is configured
    MaxEntries,  \* bound: entries accepted in a behaviour
    MaxClears    \* bound: calls of Clear in a behaviour

ASSUME StoreAssumption ==
    /\ Capacity \in Nat \ {0}
    /\ MaxQueue \in Nat \ {0}
    /\ MaxBatch \in Nat \ {0}
    /\ Persist \in BOOLEAN
    /\ MaxEntries \in Nat
    /\ MaxClears \in Nat

VARIABLES
    accepted,   \* entries the ingest channel has accepted so far
    ppc,        \* ppc[p]: where producer p is in Add
    ingest,     \* the ingest channel
    queue,      \* _queue
    size,       \* _size
    item,       \* the entry in the hands of the ingest task
    ipc,        \* where the ingest task is
    cpc,        \* cpc[c]: where clearer c is in Clear
    clears,     \* calls of Clear begun so far
    file,       \* the file channel
    batch,      \* the writer's batch
    wpc,        \* where the file writer is
    disk,       \* lines in the log file and its rolled predecessors
    dpc,        \* where DisposeAsync is; _disposed is dpc # "running"
    drops       \* LogDropsByReason

memory == <<queue, size, item, ipc>>
writer == <<file, batch, wpc, disk>>
vars == <<accepted, ppc, ingest, queue, size, item, ipc, cpc, clears, file,
          batch, wpc, disk, dpc, drops>>

Entries == 1..MaxEntries

IngestPCs == {"wait", "read", "count", "trim", "over", "uncount", "persist",
              "stopped"}
DisposePCs == {"running", "flagged", "ingestCancelled", "ingestCompleted",
               "writerCancelled", "fileCompleted", "ingestAwaited", "disposed"}

TypeOK ==
    /\ accepted \in 0..MaxEntries
    /\ ppc \in [Producers -> {"idle", "write"}]
    /\ ingest \in Seq(Entries) /\ Len(ingest) <= MaxQueue
    /\ queue \in Seq(Entries)
    /\ size \in Int
    /\ item \in 0..MaxEntries
    /\ ipc \in IngestPCs
    /\ cpc \in [Clearers -> {"idle", "drain", "zero"}]
    /\ clears \in 0..MaxClears
    /\ file \in Seq(Entries) /\ Len(file) <= MaxQueue
    /\ batch \in Seq(Entries)
    /\ wpc \in {"wait", "read", "append", "stopped"}
    /\ disk \in Seq(Entries)
    /\ dpc \in DisposePCs
    /\ drops \in [{"rate", "backpressure", "capacity"} -> Nat]

Init ==
    /\ accepted = 0
    /\ ppc = [p \in Producers |-> "idle"]
    /\ ingest = <<>>
    /\ queue = <<>>
    /\ size = 0
    /\ item = 0
    /\ ipc = "wait"
    /\ cpc = [c \in Clearers |-> "idle"]
    /\ clears = 0
    /\ file = <<>>
    /\ batch = <<>>
    /\ wpc = IF Persist THEN "wait" ELSE "stopped"
    /\ disk = <<>>
    /\ dpc = "running"
    /\ drops = [r \in {"rate", "backpressure", "capacity"} |-> 0]

\* How far DisposeAsync is: the flag, the two cancellations, the completions.
Disposed        == dpc # "running"
IngestCancelled == dpc \notin {"running", "flagged"}
IngestOpen      == dpc \in {"running", "flagged", "ingestCancelled"}
WriterCancelled == dpc \notin {"running", "flagged", "ingestCancelled",
                               "ingestCompleted"}
FileOpen        == dpc \in {"running", "flagged", "ingestCancelled",
                            "ingestCompleted", "writerCancelled"}

\* TryWrite to a bounded channel with BoundedChannelFullMode.DropOldest.
Offer(channel, e) ==
    IF Len(channel) < MaxQueue THEN Append(channel, e)
    ELSE Append(Tail(channel), e)

Drop(reason) == drops' = [drops EXCEPT ![reason] = @ + 1]

-----------------------------------------------------------------------------
(* Add *)

Writing == {p \in Producers : ppc[p] = "write"}

\* Add passes the _disposed check and the rate limiter, or is dropped by it.
AddBegin(p) ==
    /\ ppc[p] = "idle"
    /\ ~Disposed
    /\ accepted + drops["rate"] + Cardinality(Writing) < MaxEntries
    /\ \/ /\ ppc' = [ppc EXCEPT ![p] = "write"]
          /\ UNCHANGED drops
       \/ /\ Drop("rate")
          /\ UNCHANGED ppc
    /\ UNCHANGED <<accepted, ingest, memory, cpc, clears, writer, dpc>>

\* TryWrite fails only on a completed channel, and is counted all the same.
AddWrite(p) ==
    /\ ppc[p] = "write"
    /\ ppc' = [ppc EXCEPT ![p] = "idle"]
    /\ \/ /\ IngestOpen
          /\ accepted < MaxEntries
          /\ accepted' = accepted + 1
          /\ ingest' = Offer(ingest, accepted + 1)
          /\ UNCHANGED drops
       \/ /\ ~IngestOpen
          /\ Drop("backpressure")
          /\ UNCHANGED <<accepted, ingest>>
    /\ UNCHANGED <<memory, cpc, clears, writer, dpc>>

-----------------------------------------------------------------------------
(* The ingest task *)

\* WaitToReadAsync(ct): throws once cancelled, whatever is left in the channel.
IngestWait ==
    /\ ipc = "wait"
    /\ \/ /\ IngestCancelled
          /\ ipc' = "stopped"
       \/ /\ ~IngestCancelled
          /\ ingest # <<>>
          /\ ipc' = "read"
    /\ UNCHANGED <<accepted, ppc, ingest, queue, size, item, cpc, clears,
                   writer, dpc, drops>>

\* The inner loop reads, and enqueues what it read, until the channel is empty.
IngestRead ==
    /\ ipc = "read"
    /\ \/ /\ ingest # <<>>
          /\ item' = Head(ingest)
          /\ ingest' = Tail(ingest)
          /\ queue' = Append(queue, Head(ingest))
          /\ ipc' = "count"
       \/ /\ ingest = <<>>
          /\ ipc' = "wait"
          /\ UNCHANGED <<ingest, queue, item>>
    /\ UNCHANGED <<accepted, ppc, size, cpc, clears, writer, dpc, drops>>

IngestCount ==
    /\ ipc = "count"
    /\ size' = size + 1
    /\ ipc' = "trim"
    /\ UNCHANGED <<accepted, ppc, ingest, queue, item, cpc, clears, writer,
                   dpc, drops>>

OverCapacity == size > Capacity

IngestTrim ==
    /\ ipc = "trim"
    /\ ipc' = IF OverCapacity THEN "over" ELSE "persist"
    /\ UNCHANGED <<accepted, ppc, ingest, queue, size, item, cpc, clears,
                   writer, dpc, drops>>

\* Mutant: the ring buffer evicts the entry it has just taken in.
EvictedMutant == Front(queue)

Evicted == Tail(queue)

\* Mutant: an empty queue ends the ingest task (return for break).
AfterEmptyMutant == "stopped"

AfterEmpty == "persist"

\* TryDequeue: evicts the oldest entry, or finds the queue empty.
IngestEvict ==
    /\ ipc = "over"
    /\ \/ /\ queue # <<>>
          /\ queue' = Evicted
          /\ ipc' = "uncount"
       \/ /\ queue = <<>>
          /\ ipc' = AfterEmpty
          /\ UNCHANGED queue
    /\ UNCHANGED <<accepted, ppc, ingest, size, item, cpc, clears, writer,
                   dpc, drops>>

\* Mutant: an eviction is counted in the metrics only.
UncountedMutant == size

Uncounted == size - 1

IngestUncount ==
    /\ ipc = "uncount"
    /\ size' = Uncounted
    /\ Drop("capacity")
    /\ ipc' = "trim"
    /\ UNCHANGED <<accepted, ppc, ingest, queue, item, cpc, clears, writer,
                   dpc>>

IngestPersist ==
    /\ ipc = "persist"
    /\ \/ /\ Persist => FileOpen
          /\ file' = IF Persist THEN Offer(file, item) ELSE file
          /\ UNCHANGED drops
       \/ /\ Persist
          /\ ~FileOpen
          /\ Drop("backpressure")
          /\ UNCHANGED file
    /\ item' = 0
    /\ ipc' = "read"
    /\ UNCHANGED <<accepted, ppc, ingest, queue, size, cpc, clears, batch, wpc,
                   disk, dpc>>

IngestStep ==
    \/ IngestWait
    \/ IngestRead
    \/ IngestCount
    \/ IngestTrim
    \/ IngestEvict
    \/ IngestUncount
    \/ IngestPersist

-----------------------------------------------------------------------------
(* Clear *)

ClearBegin(c) ==
    /\ cpc[c] = "idle"
    /\ clears < MaxClears
    /\ clears' = clears + 1
    /\ cpc' = [cpc EXCEPT ![c] = "drain"]
    /\ UNCHANGED <<accepted, ppc, ingest, memory, writer, dpc, drops>>

\* One TryDequeue; the last one finds the queue empty.
ClearDrain(c) ==
    /\ cpc[c] = "drain"
    /\ \/ /\ queue # <<>>
          /\ queue' = Tail(queue)
          /\ UNCHANGED cpc
       \/ /\ queue = <<>>
          /\ cpc' = [cpc EXCEPT ![c] = "zero"]
          /\ UNCHANGED queue
    /\ UNCHANGED <<accepted, ppc, ingest, size, item, ipc, clears, writer, dpc,
                   drops>>

\* Volatile.Write(ref _size, 0), whatever was ingested since.
ClearZero(c) ==
    /\ cpc[c] = "zero"
    /\ size' = 0
    /\ cpc' = [cpc EXCEPT ![c] = "idle"]
    /\ UNCHANGED <<accepted, ppc, ingest, queue, item, ipc, clears, writer,
                   dpc, drops>>

-----------------------------------------------------------------------------
(* The file writer *)

\* Mutant: batch.Clear() is forgotten, what a batch held goes out again.
EmptiedMutant == batch

Emptied == <<>>

\* WaitToReadAsync(ct), and batch.Clear(); or the loop ends, cancelled.
WriterWait ==
    /\ wpc = "wait"
    /\ \/ /\ ~WriterCancelled
          /\ file # <<>>
          /\ batch' = Emptied
          /\ wpc' = "read"
       \/ /\ WriterCancelled
          /\ wpc' = "stopped"
          /\ UNCHANGED batch
    /\ UNCHANGED <<accepted, ppc, ingest, memory, cpc, clears, file, disk, dpc,
                   drops>>

\* TryRead, until the channel is empty or the batch is full.
WriterRead ==
    /\ wpc = "read"
    /\ \/ /\ file # <<>>
          /\ batch' = Append(batch, Head(file))
          /\ file' = Tail(file)
          /\ wpc' = IF Len(batch) + 1 >= MaxBatch THEN "append" ELSE "read"
       \/ /\ file = <<>>
          /\ wpc' = IF batch = <<>> THEN "wait" ELSE "append"
          /\ UNCHANGED <<file, batch>>
    /\ UNCHANGED <<accepted, ppc, ingest, memory, cpc, clears, disk, dpc,
                   drops>>

WriterAppend ==
    /\ wpc = "append"
    /\ disk' = disk \o batch
    /\ wpc' = "wait"
    /\ UNCHANGED <<accepted, ppc, ingest, memory, cpc, clears, file, batch,
                   dpc, drops>>

AfterFailure == "wait"

\* AppendLinesAsync throws after some lines: an I/O error, after which the loop
\* delays and goes on, or the cancellation, which ends it.
WriterFails ==
    /\ wpc = "append"
    /\ \E n \in 0..Len(batch) : disk' = disk \o SubSeq(batch, 1, n)
    /\ wpc' = IF WriterCancelled THEN "stopped" ELSE AfterFailure
    /\ UNCHANGED <<accepted, ppc, ingest, memory, cpc, clears, file, batch,
                   dpc, drops>>

WriterStep == WriterWait \/ WriterRead \/ WriterAppend \/ WriterFails

-----------------------------------------------------------------------------
(* DisposeAsync *)

DisposeBegin ==
    /\ dpc = "running"
    /\ dpc' = "flagged"

CancelIngestion ==
    /\ dpc = "flagged"
    /\ dpc' = "ingestCancelled"

CompleteIngestion ==
    /\ dpc = "ingestCancelled"
    /\ dpc' = "ingestCompleted"

CancelWriter ==
    /\ dpc = "ingestCompleted"
    /\ dpc' = "writerCancelled"

CompleteFile ==
    /\ dpc = "writerCancelled"
    /\ dpc' = "fileCompleted"

\* Mutant: the ingest task is not awaited.
IngestEndedMutant == TRUE

\* Mutant: the completion of the channel is awaited, which needs it drained.
IngestDrainedMutant == ~IngestOpen /\ ingest = <<>>

IngestEnded == ipc = "stopped"

AwaitIngest ==
    /\ dpc = "fileCompleted"
    /\ IngestEnded
    /\ dpc' = "ingestAwaited"

AwaitWriter ==
    /\ dpc = "ingestAwaited"
    /\ wpc = "stopped"
    /\ dpc' = "disposed"

DisposeStep ==
    /\ \/ CancelIngestion
       \/ CompleteIngestion
       \/ CancelWriter
       \/ CompleteFile
       \/ AwaitIngest
       \/ AwaitWriter
    /\ UNCHANGED <<accepted, ppc, ingest, memory, cpc, clears, writer, drops>>

Dispose ==
    /\ DisposeBegin
    /\ UNCHANGED <<accepted, ppc, ingest, memory, cpc, clears, writer, drops>>

\* Nobody logs or clears, and both tasks wait for work or have ended.
Rest ==
    /\ ipc \in {"wait", "stopped"} /\ wpc \in {"wait", "stopped"}
    /\ UNCHANGED vars

Next ==
    \/ \E p \in Producers : AddBegin(p) \/ AddWrite(p)
    \/ IngestStep
    \/ \E c \in Clearers : ClearBegin(c) \/ ClearDrain(c) \/ ClearZero(c)
    \/ WriterStep
    \/ Dispose
    \/ DisposeStep
    \/ Rest

Spec == Init /\ [][Next]_vars

(***************************************************************************)
(* Fairness: the thread pool runs both tasks, a Clear and a DisposeAsync    *)
(* that have begun go on, and an append ends, with or without an error.     *)
(* Nothing obliges anyone to log, to clear or to dispose.                   *)
(***************************************************************************)
FairSpec ==
    /\ Spec
    /\ WF_vars(IngestStep)
    /\ WF_vars(WriterStep)
    /\ WF_vars(DisposeStep)
    /\ \A p \in Producers : WF_vars(AddWrite(p))
    /\ \A c \in Clearers : WF_vars(ClearDrain(c) \/ ClearZero(c))

-----------------------------------------------------------------------------
(***************************************************************************)
(* Properties.                                                              *)
(***************************************************************************)

\* Until the first Clear the counter differs from the length of the queue only
\* by the entry the ingest task is about to count or to uncount: lock-free or
\* not, _size is exact (InMemoryHttpLog.cs:191-199).
SizeExact ==
    clears = 0 =>
        Len(queue) = size + (IF ipc = "count" THEN 1 ELSE 0)
                          - (IF ipc = "uncount" THEN 1 ELSE 0)

\* HttpLogOptions.cs:12 calls Capacity the maximum number of log entries kept in
\* memory: between two entries the queue holds no more than that, until a Clear
\* races with the ingest task and loses what it counted.  (Proved.)
QueueWithinCapacity == clears = 0 /\ ipc = "wait" => Len(queue) <= Capacity

\* docs/logging.md:25: the oldest entries are removed when over capacity, hence
\* no entry is evicted from a queue that holds at most Capacity entries.  It is
\* true until a Clear takes an entry that the ingest task counts afterwards.
\* (Proved.)
EvictOnlyOverCapacity ==
    [][clears = 0 /\ ipc = "over" /\ queue' # queue =>
           Len(queue) > Capacity]_vars

\* The ring buffer keeps the newest: until the first Clear the entry being taken
\* in stays in the queue whatever is evicted to make room for it.
NewestIsKept ==
    clears = 0 /\ ipc \in {"count", "trim", "over", "uncount", "persist"} =>
        Last(queue) = item

\* The log file never repeats or reorders entries, though batches fail halfway
\* and the channels drop entries.
DiskInOrder == \A i, j \in DOMAIN disk : i < j => disk[i] < disk[j]

\* Once DisposeAsync has returned neither background task runs: nothing is
\* ingested and nothing is appended to the file.
QuietAfterDispose ==
    [][dpc = "disposed" => UNCHANGED <<ingest, item, ipc, file, disk>>]_vars

\* DisposeAsync returns: it waits for no one who waits for it.
DisposeEnds == Disposed ~> dpc = "disposed"

\* While the store runs, what a producer gets into the channel leaves it.
IngestDrains == Len(ingest) > 0 ~> (ingest = <<>> \/ IngestCancelled)

-----------------------------------------------------------------------------
(***************************************************************************)
(* The inductive invariants behind the safety properties.                   *)
(***************************************************************************)

\* Before the first Clear no request is inside Clear.
ClearInv == clears = 0 => \A c \in Clearers : cpc[c] = "idle"

\* How far the counter may run ahead of Capacity while one entry goes in.
CountInv ==
    clears = 0 =>
        /\ ipc \in {"wait", "read", "count", "persist", "stopped"} =>
               size <= Capacity
        /\ ipc = "trim" => size <= Capacity + 1
        /\ ipc \in {"over", "uncount"} => size = Capacity + 1

RingInv == ClearInv /\ SizeExact /\ CountInv /\ NewestIsKept

\* What is on its way to the log file, from the newest to the oldest stage.
InHand == ipc \in {"count", "trim", "over", "uncount", "persist"}

Increasing(s) == \A i, j \in DOMAIN s : i < j => s[i] < s[j]
Before(s, t)  == \A i \in DOMAIN s, j \in DOMAIN t : s[i] < t[j]
Below(s, e)   == \A i \in DOMAIN s : s[i] < e
Above(s, e)   == \A i \in DOMAIN s : e < s[i]

\* The stages hold ever newer entries, in order; a batch that has been appended
\* or has failed is no stage.
PathInv ==
    /\ DiskInOrder
    /\ Increasing(batch) /\ Increasing(file) /\ Increasing(ingest)
    /\ wpc \in {"read", "append"} => Before(disk, batch)
    /\ Before(disk, file) /\ Before(batch, file)
    /\ Before(disk, ingest) /\ Before(batch, ingest) /\ Before(file, ingest)
    /\ Below(disk, accepted + 1) /\ Below(batch, accepted + 1)
    /\ Below(file, accepted + 1) /\ Below(ingest, accepted + 1)
    /\ InHand =>
        /\ item \in Entries
        /\ item <= accepted
        /\ Below(disk, item) /\ Below(batch, item) /\ Below(file, item)
        /\ Above(ingest, item)
=============================================================================
