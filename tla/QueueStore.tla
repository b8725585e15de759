----------------------------- MODULE QueueStore -----------------------------
(***************************************************************************)
(* internal/queue: the Store & Forward buffer.  Pollers append readings to *)
(* memory, the flusher writes them to queue.db as chunk rows, the          *)
(* forwarder reads the oldest rows and acknowledges them, maintenance      *)
(* compacts the file and evicts.  A step is one critical section of        *)
(* Store.mu or one SQLite statement or transaction: the database has a     *)
(* single connection, so statements never overlap, but every gap between   *)
(* two of them is open to the other goroutines.                            *)
(*                                                                         *)
(* A reading is the number of its Append call and TimeOf gives its         *)
(* timestamp; a chunk is the set of readings in it and whether its blob    *)
(* still decodes, so COUNT and SUM(n) over rows are cardinalities.  File   *)
(* size is counted in chunk-sized pages.                                   *)
(***************************************************************************)
EXTENDS Integers, FiniteSetsExt, Sequences

CONSTANTS
    MaxAppends,          \* bound: readings appended in a behaviour
    MaxFaults,           \* bound: failing database calls and damaged blobs
    MaxStops,            \* bound: crashes and shutdowns
    TimeOf,              \* Reading.At of each appended reading, unix ms
    MaxReadings,         \* Config.MaxReadingsPerMessage
    ReadBatchScanLimit,  \* readBatchScanLimit
    MaxUnflushedChunks,  \* Options.MaxUnflushedChunks
    MaxPages,            \* Options.MaxBytes, in pages
    MaxEvictChunks,      \* maxEvictChunksPerPass
    MaxEvictPasses,      \* maxEvictPassesPerTick
    DiskExcess           \* by how much the volume may exceed MinFreePercent

ASSUME QueueAssumption ==
    /\ MaxAppends \in Nat /\ MaxFaults \in Nat /\ MaxStops \in Nat
    /\ TimeOf \in [1 .. MaxAppends -> Nat \ {0}]
    /\ MaxReadings \in Nat \ {0}
    /\ ReadBatchScanLimit \in Nat \ {0}
    /\ MaxUnflushedChunks \in Nat \ {0}
    /\ MaxPages \in Nat
    /\ MaxEvictChunks \in Nat \ {0}
    /\ MaxEvictPasses \in Nat \ {0}
    /\ DiskExcess \subseteq Nat

VARIABLES
    \* queue.db
    rows,       \* table chunk: seq -> [ids, ok]
    nextSeq,    \* sqlite_sequence
    meta,       \* table meta: the persistent counters
    free,       \* pages of the file that hold no row
    \* Store, guarded by mu
    buf,        \* readings not yet in a chunk
    unflushed,  \* encoded chunks not yet in queue.db
    mem,        \* the cached counters, bounds and file size
    \* goroutines
    up,         \* life of the process
    pc,         \* where each goroutine is
    batch,      \* Flush: the chunks being inserted
    msg,        \* forwarder: the message in hand
    bad,        \* ReadBatch: rows read that do not decode
    delta,      \* what a committed deletion has still to take off mem
    bounds,     \* refreshBounds: the two timestamps read
    cut,        \* evictOnce: k, then the seq to delete through
    passes,     \* Maintain: evictOnce calls made
    \* history and budgets
    appended,   \* readings appended so far
    gone,       \* every row deleted: seq -> [ids, why]
    sent,       \* readings of messages the server acknowledged
    dropIds,    \* readings dropped since process start
    lost,       \* readings that ended with an earlier process
    unread,     \* fields of mem that Open could not read, and left zero
    faults, stops

dbVars == <<rows, nextSeq, meta, free, gone>>
memVars == <<buf, unflushed, mem, dropIds>>
localVars == <<batch, msg, bad, delta, bounds, cut, passes>>
restVars == <<up, appended, sent, lost, unread, stops>>
vars == <<dbVars, memVars, localVars, restVars, pc, faults>>

Callers == {"flusher", "closer"}       \* of Flush
Deleters == {"forwarder", "maint"}     \* of deleteThrough and refreshBounds
Procs == Callers \cup Deleters
Readings == 1 .. MaxAppends
Chunk == [ids : SUBSET Readings, ok : BOOLEAN]

Larger(x, y) == IF x > y THEN x ELSE y
Least(x, y) == IF x < y THEN x ELSE y

FirstTs(ids) == Min({TimeOf[i] : i \in ids})
LastTs(ids) == Max({TimeOf[i] : i \in ids})

Pending == DOMAIN rows
Below(s) == {t \in Pending : t < s}
Ids(S) == UNION {rows[s].ids : s \in S}
QueuedIds(q) == UNION {q[i].ids : i \in DOMAIN q}
Goto(p, label) == pc' = [pc EXCEPT ![p] = label]

\* The first_ts of the oldest row and the last_ts of the newest, 0 if none.
OldestRow == IF Pending = {} THEN 0 ELSE FirstTs(rows[Min(Pending)].ids)
NewestRow == IF Pending = {} THEN 0 ELSE LastTs(rows[Max(Pending)].ids)

NoMsg == [seqs |-> {}, ids |-> {}]
NoLocals ==
    [batch |-> [p \in Callers |-> <<>>],
     delta |-> [p \in Deleters |-> [chunks |-> 0, readings |-> 0]],
     bounds |-> [p \in Deleters |-> [oldest |-> 0, newest |-> 0]]]

\* The context of the flusher, the forwarder and maintenance is cancelled at
\* shutdown, after which their calls can only fail; Close uses its own.
DbWorks(p) == (up = "running" \/ p = "closer") /\ UNCHANGED faults
DbFails(p) ==
    \/ up # "running" /\ p # "closer" /\ UNCHANGED faults
    \/ faults < MaxFaults /\ faults' = faults + 1
-----------------------------------------------------------------------------
Init ==
    /\ rows = [s \in {} |-> [ids |-> {}, ok |-> TRUE]]
    /\ nextSeq = 1
    /\ meta = [chunks |-> 0, readings |-> 0, evicted |-> 0]
    /\ free = 0
    /\ gone = [s \in {} |-> [ids |-> {}, why |-> "acked"]]
    /\ buf = {}
    /\ unflushed = <<>>
    /\ mem = [chunks |-> 0, readings |-> 0, evicted |-> 0, dropped |-> 0,
              oldest |-> 0, newest |-> 0, pages |-> 0]
    /\ dropIds = {}
    /\ batch = NoLocals.batch /\ delta = NoLocals.delta
    /\ bounds = NoLocals.bounds
    /\ msg = NoMsg /\ bad = {} /\ cut = 0 /\ passes = 0
    /\ up = "running" /\ appended = 0 /\ sent = {} /\ lost = {} /\ stops = 0
    /\ unread = {}
    /\ pc = [p \in Procs |-> "idle"]
    /\ faults = 0

\* Append: a poller buffers one reading.  Pollers run until manager.Wait.
AppendReading ==
    /\ up \in {"running", "stopping"}
    /\ appended < MaxAppends
    /\ appended' = appended + 1
    /\ buf' = buf \cup {appended + 1}
    /\ UNCHANGED <<dbVars, unflushed, mem, dropIds, localVars, up, sent, lost,
                   unread, stops, pc, faults>>
-----------------------------------------------------------------------------
\* Flush, which the flusher's ticker and Close call.

\* Mutant: no flushMu.
FlushUnlocked == TRUE
FlushMuFree == \A p \in Callers : pc[p] \in {"idle", "done"}

\* Mutant: Close does not wait for the pollers.
MayFlushEarly(p) == IF p = "flusher" THEN up # "down" ELSE up \in {"stopping", "closing"}
MayFlush(p) ==
    IF p = "flusher" THEN up # "down" ELSE up = "closing"

\* Mutant: the flusher ends with its first Flush.
AfterFlushReturns(p) == "done"
AfterFlush(p) == IF p = "closer" THEN "done" ELSE "idle"

\* The first critical section: the buffer becomes a chunk (or, if it cannot
\* be encoded, is dropped) and the batch is everything waiting.
FlushTake(p) ==
    /\ pc[p] = "idle" /\ MayFlush(p) /\ FlushMuFree
    /\ \/ /\ UNCHANGED <<mem, dropIds, faults>>
          /\ unflushed' = IF buf = {} THEN unflushed
                          ELSE Append(unflushed, [ids |-> buf, ok |-> TRUE])
       \/ /\ buf # {} /\ faults < MaxFaults
          /\ faults' = faults + 1
          /\ mem' = [mem EXCEPT !.dropped = @ + Cardinality(buf)]
          /\ dropIds' = dropIds \cup buf
          /\ UNCHANGED unflushed
    /\ buf' = {}
    /\ batch' = [batch EXCEPT ![p] = unflushed']
    /\ Goto(p, IF unflushed' # <<>> THEN "insert" ELSE AfterFlush(p))
    /\ UNCHANGED <<dbVars, msg, bad, delta, bounds, cut, passes, restVars>>

\* Mutant: a plain INTEGER PRIMARY KEY, which reuses the seqs above the last row.
ReusedSeq == IF Pending = {} THEN 1 ELSE Max(Pending) + 1
\* AUTOINCREMENT: a new row's seq is above every seq ever used.
NewSeq == nextSeq

\* Mutants: the batch one seq too high, without its last chunk, backwards.
NewRowsShifted(b) == [s \in (NewSeq + 1) .. (NewSeq + Len(b)) |-> b[s - NewSeq]]
NewRowsShort(b) == [s \in NewSeq .. (NewSeq + Len(b) - 2) |-> b[s - NewSeq + 1]]
NewRowsReversed(b) == [s \in NewSeq .. (NewSeq + Len(b) - 1) |-> b[NewSeq + Len(b) - s]]
\* The rows a batch becomes when it is inserted in order.
NewRows(b) == [s \in NewSeq .. (NewSeq + Len(b) - 1) |-> b[s - NewSeq + 1]]

\* insertChunks, committed or rolled back.
FlushInsert(p) ==
    /\ pc[p] = "insert"
    /\ \/ /\ DbWorks(p)
          /\ LET new == NewRows(batch[p]) IN
             /\ rows' = [s \in Pending \cup DOMAIN new |->
                            IF s \in DOMAIN new THEN new[s] ELSE rows[s]]
             /\ nextSeq' = NewSeq + Len(batch[p])
          /\ meta' = [meta EXCEPT
                        !.chunks = @ + Len(batch[p]),
                        !.readings = @ + Cardinality(QueuedIds(batch[p]))]
          /\ free' = Larger(free - Len(batch[p]), 0)
          /\ Goto(p, "written")
       \/ /\ DbFails(p)
          /\ Goto(p, "failed")
          /\ UNCHANGED <<rows, nextSeq, meta, free>>
    /\ UNCHANGED <<gone, memVars, localVars, restVars>>

\* The last critical section of a Flush whose transaction committed.
FlushDone(p) ==
    /\ pc[p] = "written"
    /\ LET b == batch[p] IN
       /\ unflushed' = SubSeq(unflushed, Len(b) + 1, Len(unflushed))
       /\ mem' = [mem EXCEPT
                    !.chunks = @ + Len(b),
                    !.readings = @ + Cardinality(QueuedIds(b)),
                    !.oldest = IF @ = 0 THEN FirstTs(b[1].ids) ELSE @,
                    !.newest = Larger(@, LastTs(QueuedIds(b)))]
    /\ batch' = [batch EXCEPT ![p] = <<>>]
    /\ Goto(p, AfterFlush(p))
    /\ UNCHANGED <<dbVars, buf, dropIds, msg, bad, delta, bounds, cut, passes,
                   restVars, faults>>

\* Mutant: one chunk too many may wait.
OverflowLate == Larger(Len(unflushed) - MaxUnflushedChunks - 1, 0)

\* How many chunks of the backlog a failed Flush gives up.
Overflow == Larger(Len(unflushed) - MaxUnflushedChunks, 0)

\* The last critical section of a Flush that failed: the chunks stay, except
\* the oldest beyond MaxUnflushedChunks.
FlushFailed(p) ==
    /\ pc[p] = "failed"
    /\ LET drop == QueuedIds(SubSeq(unflushed, 1, Overflow)) IN
       /\ mem' = [mem EXCEPT !.dropped = @ + Cardinality(drop)]
       /\ dropIds' = dropIds \cup drop
       /\ unflushed' = SubSeq(unflushed, Overflow + 1, Len(unflushed))
    /\ batch' = [batch EXCEPT ![p] = <<>>]
    /\ Goto(p, AfterFlush(p))
    /\ UNCHANGED <<dbVars, buf, msg, bad, delta, bounds, cut, passes,
                   restVars, faults>>

Flush(p) == FlushTake(p) \/ FlushInsert(p) \/ FlushDone(p) \/ FlushFailed(p)
-----------------------------------------------------------------------------
\* Deleting rows, and the bookkeeping every deletion is followed by.

DeleteRows(S, why) ==
    /\ rows' = [s \in Pending \ S |-> rows[s]]
    /\ gone' = [s \in DOMAIN gone \cup S |->
                   IF s \in S THEN [ids |-> rows[s].ids, why |-> why]
                   ELSE gone[s]]
    /\ free' = free + Cardinality(S)
    /\ meta' = [meta EXCEPT
                  !.chunks = @ - Cardinality(S),
                  !.readings = @ - Cardinality(Ids(S)),
                  !.evicted = IF why = "evicted" THEN @ + Cardinality(Ids(S))
                              ELSE @]
    /\ UNCHANGED nextSeq

\* Mutant: the newest rows go instead of the oldest.
DeleteFrom(p, s, why) ==
    LET S == {t \in Pending : t >= s} IN
    /\ DeleteRows(S, why)
    /\ delta' = [delta EXCEPT ![p] = [chunks |-> Cardinality(S),
                                      readings |-> Cardinality(Ids(S))]]

\* deleteThrough, in one transaction; the caller keeps what it removed.
DeleteThrough(p, s, why) ==
    LET S == {t \in Pending : t <= s} IN
    /\ DeleteRows(S, why)
    /\ delta' = [delta EXCEPT ![p] = [chunks |-> Cardinality(S),
                                      readings |-> Cardinality(Ids(S))]]

\* The critical section after a deletion: mem catches up with meta.
TakeOff(p, evict, drop) ==
    /\ mem' = [mem EXCEPT
                 !.chunks = @ - delta[p].chunks,
                 !.readings = @ - delta[p].readings,
                 !.evicted = @ + (IF evict THEN delta[p].readings ELSE 0),
                 !.dropped = @ + (IF drop THEN delta[p].readings ELSE 0)]
    /\ delta' = [delta EXCEPT ![p] = [chunks |-> 0, readings |-> 0]]

\* ReadBatch discards the rows left that did not decode, then returns m.
AfterRead(left, m) ==
    IF left # {} THEN "discard" ELSE IF m.seqs # {} THEN "send" ELSE "idle"

AfterBounds(p) == IF p = "maint" THEN "vacuum" ELSE AfterRead(bad, msg)

\* refreshBounds: two queries, then a critical section.
ReadOldest(p) ==
    /\ pc[p] = "oldest"
    /\ \/ /\ DbWorks(p)
          /\ bounds' = [bounds EXCEPT ![p].oldest = OldestRow]
          /\ Goto(p, "newest")
       \/ DbFails(p) /\ Goto(p, AfterBounds(p)) /\ UNCHANGED bounds
    /\ UNCHANGED <<dbVars, memVars, batch, msg, bad, delta, cut, passes, restVars>>

ReadNewest(p) ==
    /\ pc[p] = "newest"
    /\ \/ /\ DbWorks(p)
          /\ bounds' = [bounds EXCEPT ![p].newest = NewestRow]
          /\ Goto(p, "bounds")
       \/ DbFails(p) /\ Goto(p, AfterBounds(p)) /\ UNCHANGED bounds
    /\ UNCHANGED <<dbVars, memVars, batch, msg, bad, delta, cut, passes, restVars>>

SetBounds(p) ==
    /\ pc[p] = "bounds"
    /\ mem' = [mem EXCEPT !.oldest = bounds[p].oldest, !.newest = bounds[p].newest]
    /\ bounds' = [bounds EXCEPT ![p] = [oldest |-> 0, newest |-> 0]]
    /\ Goto(p, AfterBounds(p))
    /\ UNCHANGED <<dbVars, buf, unflushed, dropIds, batch, msg, bad, delta, cut,
                   passes, restVars, faults>>

RefreshBounds(p) == ReadOldest(p) \/ ReadNewest(p) \/ SetBounds(p)
-----------------------------------------------------------------------------
\* The forwarder's calls: ReadBatch, then Send, then Ack.

\* The rows the scan takes before it stops: those with fewer than MaxReadings
\* readings, and fewer than ReadBatchScanLimit rows, in front of them.
Scanned == {s \in Pending : /\ Cardinality(Ids(Below(s))) < MaxReadings
                            /\ Cardinality(Below(s)) < ReadBatchScanLimit}

ReadBatch ==
    /\ pc["forwarder"] = "idle" /\ up # "down"
    /\ \/ LET good == {s \in Scanned : rows[s].ok} IN
          /\ DbWorks("forwarder")
          /\ msg' = [seqs |-> good, ids |-> Ids(good)]
          /\ bad' = Scanned \ good
          /\ Goto("forwarder", AfterRead(bad', msg'))
       \/ DbFails("forwarder") /\ UNCHANGED <<msg, bad, pc>>
    /\ UNCHANGED <<dbVars, memVars, batch, delta, bounds, cut, passes, restVars>>

\* ReadBatch gave up: dispatchOnce returns the error and the batch is dropped.
Abandon == msg' = NoMsg /\ bad' = {} /\ Goto("forwarder", "idle")

\* Mutant: discard does not look at RowsAffected.
DiscardUnchecked ==
    LET s == Min(bad) IN
    /\ pc["forwarder"] = "discard"
    /\ DbWorks("forwarder")
    /\ DeleteRows({s} \cap Pending, "discarded")
    /\ delta' = [delta EXCEPT !["forwarder"] =
                    [chunks |-> 1, readings |->
                       Cardinality((IF s \in Pending THEN rows ELSE gone)[s].ids)]]
    /\ dropIds' = dropIds \cup Ids({s} \cap Pending)
    /\ bad' = bad \ {s}
    /\ Goto("forwarder", "discarded")
    /\ UNCHANGED <<buf, unflushed, mem, msg, batch, bounds, cut, passes, restVars>>

\* discard, for each row that did not decode, oldest first.  The row may have
\* been evicted since it was read: then nothing is counted.
Discard ==
    LET s == Min(bad) IN
    /\ pc["forwarder"] = "discard"
    /\ \/ /\ DbWorks("forwarder") /\ s \notin Pending
          /\ bad' = bad \ {s}
          /\ Goto("forwarder", AfterRead(bad', msg))
          /\ UNCHANGED <<dbVars, delta, dropIds, msg>>
       \/ /\ DbWorks("forwarder") /\ s \in Pending
          /\ DeleteRows({s}, "discarded")
          /\ delta' = [delta EXCEPT !["forwarder"] =
                          [chunks |-> 1, readings |-> Cardinality(rows[s].ids)]]
          /\ dropIds' = dropIds \cup rows[s].ids
          /\ bad' = bad \ {s}
          /\ Goto("forwarder", "discarded")
          /\ UNCHANGED msg
       \/ DbFails("forwarder") /\ Abandon /\ UNCHANGED <<dbVars, delta, dropIds>>
    /\ UNCHANGED <<buf, unflushed, mem, batch, bounds, cut, passes, restVars>>

DiscardCount ==
    /\ pc["forwarder"] = "discarded"
    /\ TakeOff("forwarder", FALSE, TRUE)
    /\ Goto("forwarder", "oldest")
    /\ UNCHANGED <<dbVars, buf, unflushed, dropIds, batch, msg, bad, bounds, cut,
                   passes, restVars, faults>>

\* Adapter.Send, seen from the queue: it failed, or the server acknowledged.
Send ==
    /\ pc["forwarder"] = "send"
    /\ \/ UNCHANGED sent /\ msg' = NoMsg /\ Goto("forwarder", "idle")
       \/ sent' = sent \cup msg.ids /\ Goto("forwarder", "ack") /\ UNCHANGED msg
    /\ UNCHANGED <<dbVars, memVars, batch, bad, delta, bounds, cut, passes, up,
                   appended, lost, unread, stops, faults>>

\* Ack(msg.ToSeq), where ToSeq is the last chunk of the message.
Ack ==
    /\ pc["forwarder"] = "ack"
    /\ \/ /\ DbWorks("forwarder")
          /\ DeleteThrough("forwarder", Max(msg.seqs), "acked")
          /\ Goto("forwarder", "acked")
       \/ DbFails("forwarder") /\ Goto("forwarder", "idle") /\ UNCHANGED <<dbVars, delta>>
    /\ msg' = NoMsg
    /\ UNCHANGED <<memVars, batch, bad, bounds, cut, passes, restVars>>

AckCount ==
    /\ pc["forwarder"] = "acked"
    /\ TakeOff("forwarder", FALSE, FALSE)
    /\ Goto("forwarder", "oldest")
    /\ UNCHANGED <<dbVars, buf, unflushed, dropIds, batch, msg, bad, bounds, cut,
                   passes, restVars, faults>>

Forward == ReadBatch \/ Discard \/ DiscardCount \/ Send \/ Ack \/ AckCount
           \/ RefreshBounds("forwarder")
-----------------------------------------------------------------------------
\* Maintain: compact, then up to MaxEvictPasses of evictOnce.

MaintStart ==
    /\ pc["maint"] = "idle" /\ up # "down"
    /\ passes' = 0
    /\ Goto("maint", "vacuum")
    /\ UNCHANGED <<dbVars, memVars, batch, msg, bad, delta, bounds, cut, restVars,
                   faults>>

\* compact's incremental_vacuum (a failure is logged) ...
Vacuum ==
    /\ pc["maint"] = "vacuum"
    /\ \/ DbWorks("maint") /\ free' = 0
       \/ DbFails("maint") /\ UNCHANGED free
    /\ Goto("maint", "measure")
    /\ UNCHANGED <<rows, nextSeq, meta, gone, memVars, localVars, restVars>>

\* ... and its refreshSize.
Measure ==
    /\ pc["maint"] = "measure"
    /\ \/ /\ DbWorks("maint")
          /\ mem' = [mem EXCEPT !.pages = Cardinality(Pending) + free]
       \/ DbFails("maint") /\ UNCHANGED mem
    /\ Goto("maint", IF passes < MaxEvictPasses THEN "evict" ELSE "idle")
    /\ UNCHANGED <<dbVars, buf, unflushed, dropIds, localVars, restVars>>

CeilDiv(a, b) == (a + b - 1) \div b

\* Mutant: OFFSET k instead of k - 1.
EvictCountPast(e) ==
    1 + Least(Least(CeilDiv(e * mem.chunks, Larger(mem.pages, 1)) + 1, MaxEvictChunks),
              mem.chunks)

\* evictOnce: how many chunks to evict for an excess of e pages, from the
\* average size of a chunk.
EvictCount(e) ==
    Least(Least(CeilDiv(e * mem.chunks, Larger(mem.pages, 1)) + 1, MaxEvictChunks),
          mem.chunks)

EvictEstimate ==
    /\ pc["maint"] = "evict"
    /\ \E d \in DiskExcess :
        LET e == Larger(mem.pages - MaxPages, d) IN
        IF e > 0 /\ mem.chunks > 0
        THEN cut' = EvictCount(e) /\ Goto("maint", "cut")
        ELSE cut' = 0 /\ Goto("maint", "idle")
    /\ UNCHANGED <<dbVars, memVars, batch, msg, bad, delta, bounds, passes, restVars,
                   faults>>

\* The cached count may be above the number of rows: then there is no cut.
EvictCut ==
    /\ pc["maint"] = "cut"
    /\ \/ /\ DbWorks("maint")
          /\ \E s \in Pending : Cardinality(Below(s)) = cut - 1 /\ cut' = s
          /\ Goto("maint", "delete")
       \/ /\ DbWorks("maint")
          /\ Cardinality(Pending) < cut
          /\ cut' = 0 /\ Goto("maint", "idle")
       \/ DbFails("maint") /\ cut' = 0 /\ Goto("maint", "idle")
    /\ UNCHANGED <<dbVars, memVars, batch, msg, bad, delta, bounds, passes, restVars>>

EvictDelete ==
    /\ pc["maint"] = "delete"
    /\ \/ /\ DbWorks("maint")
          /\ DeleteThrough("maint", cut, "evicted")
          /\ Goto("maint", "evicted")
       \/ DbFails("maint") /\ Goto("maint", "idle") /\ UNCHANGED <<dbVars, delta>>
    /\ cut' = 0
    /\ UNCHANGED <<memVars, batch, msg, bad, bounds, passes, restVars>>

\* A pass that evicted nothing is the last one.
EvictTally ==
    /\ pc["maint"] = "evicted"
    /\ TakeOff("maint", TRUE, FALSE)
    /\ passes' = IF delta["maint"].chunks = 0 THEN MaxEvictPasses ELSE passes + 1
    /\ Goto("maint", "oldest")
    /\ UNCHANGED <<dbVars, buf, unflushed, dropIds, batch, msg, bad, bounds, cut,
                   restVars, faults>>

Maintain == MaintStart \/ Vacuum \/ Measure \/ EvictEstimate \/ EvictCut
            \/ EvictDelete \/ EvictTally \/ RefreshBounds("maint")
-----------------------------------------------------------------------------
\* Chunks that are in unflushed although their transaction has committed.
Written == IF \E p \in Callers : pc[p] = "written"
           THEN LET p == CHOOSE q \in Callers : pc[q] = "written" IN Len(batch[p])
           ELSE 0

\* Readings that exist only in memory.
InMemory == buf \cup QueuedIds(SubSeq(unflushed, Written + 1, Len(unflushed)))

\* Shutdown: the context is cancelled, the pollers end, Close flushes.
Cancel ==
    /\ up = "running" /\ stops < MaxStops
    /\ up' = "stopping" /\ stops' = stops + 1
    /\ UNCHANGED <<dbVars, memVars, localVars, appended, sent, lost, unread, pc,
                   faults>>

PollersDone ==
    /\ up = "stopping" /\ up' = "closing"
    /\ UNCHANGED <<dbVars, memVars, localVars, appended, sent, lost, unread, stops,
                   pc, faults>>

\* The process is gone, and its memory with it.
Die ==
    /\ up' = "down"
    /\ lost' = lost \cup InMemory \cup dropIds
    /\ buf' = {} /\ unflushed' = <<>> /\ dropIds' = {}
    /\ batch' = NoLocals.batch /\ delta' = NoLocals.delta
    /\ bounds' = NoLocals.bounds
    /\ msg' = NoMsg /\ bad' = {} /\ cut' = 0 /\ passes' = 0
    /\ pc' = [p \in Procs |-> "idle"]
    /\ UNCHANGED <<dbVars, mem, appended, sent, unread, faults>>

Exit == pc["closer"] = "done" /\ Die /\ UNCHANGED stops

Crash == up # "down" /\ stops < MaxStops /\ Die /\ stops' = stops + 1

\* Mutant: the evicted counter is not kept.
RestoredUncounted ==
    [chunks |-> meta.chunks, readings |-> meta.readings, evicted |-> 0,
     dropped |-> 0, oldest |-> OldestRow, newest |-> NewestRow,
     pages |-> Cardinality(Pending) + free]
\* What init reads: the counters from meta, bounds and size from the file.
Restored ==
    [chunks |-> meta.chunks, readings |-> meta.readings, evicted |-> meta.evicted,
     dropped |-> 0, oldest |-> OldestRow, newest |-> NewestRow,
     pages |-> Cardinality(Pending) + free]

\* The fields each query of init sets.  One that fails (here at most one of an
\* Open does) is only logged, and leaves them zero.
InitReads == {{"chunks"}, {"readings"}, {"evicted"}, {"oldest", "newest"}, {"pages"}}

Open ==
    /\ up = "down" /\ up' = "running"
    /\ \/ unread' = {} /\ UNCHANGED faults
       \/ /\ faults < MaxFaults /\ faults' = faults + 1
          /\ unread' \in InitReads
    /\ mem' = [f \in DOMAIN Restored |-> IF f \in unread' THEN 0 ELSE Restored[f]]
    /\ UNCHANGED <<dbVars, buf, unflushed, dropIds, localVars, appended, sent, lost,
                   stops, pc>>

\* A stored blob is damaged.
Damage ==
    /\ faults < MaxFaults /\ faults' = faults + 1
    /\ \E s \in Pending : rows[s].ok /\ rows' = [rows EXCEPT ![s].ok = FALSE]
    /\ UNCHANGED <<nextSeq, meta, free, gone, memVars, localVars, restVars, pc>>

Next ==
    \/ AppendReading
    \/ \E p \in Callers : Flush(p)
    \/ Forward
    \/ Maintain
    \/ Cancel \/ PollersDone \/ Exit \/ Crash \/ Open
    \/ Damage

Spec == Init /\ [][Next]_vars
-----------------------------------------------------------------------------
MemType ==
    [chunks : Int, readings : Int, evicted : Int, dropped : Int,
     oldest : Nat, newest : Nat, pages : Nat]

\* Every variable keeps its type; in particular the rows are numbered below
\* nextSeq and each goroutine is at one of its own labels.
TypeOK ==
    /\ nextSeq \in Nat \ {0}
    /\ Pending \subseteq 1 .. (nextSeq - 1) /\ rows \in [Pending -> Chunk]
    /\ meta \in [chunks : Int, readings : Int, evicted : Int]
    /\ free \in Nat
    /\ DOMAIN gone \subseteq 1 .. (nextSeq - 1)
    /\ gone \in [DOMAIN gone ->
                   [ids : SUBSET Readings, why : {"acked", "evicted", "discarded"}]]
    /\ buf \subseteq Readings /\ unflushed \in Seq(Chunk)
    /\ mem \in MemType
    /\ batch \in [Callers -> Seq(Chunk)]
    /\ msg \in [seqs : SUBSET (1 .. (nextSeq - 1)), ids : SUBSET Readings]
    /\ bad \subseteq 1 .. (nextSeq - 1)
    /\ delta \in [Deleters -> [chunks : Nat, readings : Nat]]
    /\ bounds \in [Deleters -> [oldest : Nat, newest : Nat]]
    /\ cut \in Nat /\ passes \in 0 .. MaxEvictPasses
    /\ up \in {"running", "stopping", "closing", "down"}
    /\ pc \in [Procs -> {"idle", "insert", "written", "failed", "done", "send",
                         "ack", "acked", "discard", "discarded", "oldest", "newest",
                         "bounds", "vacuum", "measure", "evict", "cut", "delete",
                         "evicted"}]
    /\ appended \in 0 .. MaxAppends
    /\ sent \subseteq Readings /\ dropIds \subseteq Readings /\ lost \subseteq Readings
    /\ unread \subseteq DOMAIN mem
    /\ faults \in 0 .. MaxFaults /\ stops \in 0 .. MaxStops

GoneIds(why) == UNION {gone[s].ids : s \in {t \in DOMAIN gone : gone[t].why = why}}
AllGone == GoneIds("acked") \cup GoneIds("evicted") \cup GoneIds("discarded")
Vanished == (lost \cup dropIds) \ AllGone
AllBefore(A, B) == \A a \in A, b \in B : a < b

\* No reading is unaccounted for and none is in two places: each one is in
\* memory, in a row, in a row that was deleted, or among those dropped or lost
\* with the process.  A Flush that commits and dies before it updates memory,
\* or that retries, neither loses nor duplicates a reading.
Accounted ==
    /\ 1 .. appended = InMemory \cup Ids(Pending) \cup AllGone \cup Vanished
    /\ Cardinality(InMemory) + Cardinality(Ids(Pending)) + Cardinality(AllGone)
         + Cardinality(Vanished) = appended

\* The queue is FIFO: a reading appended earlier is never in a later row, nor
\* still in memory while a later one is stored, whatever flushes failed,
\* retried or were cut short.
FirstInFirstOut ==
    /\ \A s, t \in Pending : s < t => AllBefore(rows[s].ids, rows[t].ids)
    /\ AllBefore(Ids(Pending), InMemory)
    /\ \A i, j \in DOMAIN unflushed :
         i < j => AllBefore(unflushed[i].ids, unflushed[j].ids)
    /\ AllBefore(QueuedIds(unflushed), buf)

\* What committed transactions have not yet brought to the cached counters.
InsertsDue(field) ==
    LET b == CHOOSE b \in {batch[p] : p \in {q \in Callers : pc[q] = "written"}} : TRUE
    IN IF \A p \in Callers : pc[p] # "written" THEN 0
       ELSE IF field = "chunks" THEN Len(b) ELSE Cardinality(QueuedIds(b))
DeletesDue(field) == delta["forwarder"][field] + delta["maint"][field]
DiscardsDue == IF pc["forwarder"] = "discarded" THEN delta["forwarder"].readings ELSE 0

\* The counters in meta always equal what the tables hold, and the cached ones
\* differ from them by exactly the transactions whose goroutine has not yet
\* taken mu: no interleaving of Flush, Ack, discard and eviction, and no
\* restart, lets them drift, unless Open itself could not read a counter.
CountersInStep ==
    /\ meta.chunks = Cardinality(Pending)
    /\ meta.readings = Cardinality(Ids(Pending))
    /\ meta.evicted = Cardinality(GoneIds("evicted"))
    /\ up # "down" =>
         /\ "chunks" \notin unread =>
              mem.chunks = meta.chunks - InsertsDue("chunks") + DeletesDue("chunks")
         /\ "readings" \notin unread =>
              mem.readings = meta.readings - InsertsDue("readings")
                               + DeletesDue("readings")
         /\ "evicted" \notin unread =>
              mem.evicted = meta.evicted - delta["maint"].readings
         /\ mem.dropped = Cardinality(dropIds) - DiscardsDue

\* Ack removes only readings that were in a message the server acknowledged,
\* although it deletes by "seq <= ToSeq" while Flush inserts, eviction deletes
\* and rows that did not decode were skipped.
AckedWereSent == GoneIds("acked") \subseteq sent

\* The memory backlog is bounded: between two Flush calls at most
\* MaxUnflushedChunks chunks wait, during one at most one more.
BacklogBounded ==
    /\ Len(unflushed) <= MaxUnflushedChunks + 1
    /\ FlushMuFree => Len(unflushed) <= MaxUnflushedChunks

\* If no call failed, Close leaves nothing in memory, even when it overlaps a
\* Flush of the ticker that the shutdown cancelled.
CleanClose == pc["closer"] = "done" /\ faults = 0 => InMemory = {}

WhySeqs(why) == {s \in DOMAIN gone : gone[s].why = why}
DQ == INSTANCE DurableQueue WITH
          pending <- Pending,
          acked <- WhySeqs("acked"),
          evicted <- WhySeqs("evicted"),
          discarded <- WhySeqs("discarded")

\* The store implements the abstract queue: sequence numbers only grow and are
\* never reused, Ack and eviction remove a prefix, discard one chunk, and
\* nothing else ever changes the set of stored chunks.
ImplementsDurableQueue == DQ!QueueSpec

\* The scheduling the code relies on: tickers keep firing, calls return, and
\* sync.Mutex does not starve Close when it waits for flushMu.  Nothing is
\* assumed of the server: Send may fail for ever.
FairSpec ==
    /\ Spec
    /\ \A p \in Callers : WF_vars(Flush(p))
    /\ SF_vars(FlushTake("closer"))
    /\ WF_vars(Forward)
    /\ WF_vars(Maintain)
    /\ WF_vars(PollersDone) /\ WF_vars(Exit) /\ WF_vars(Open)

\* An appended reading does not stay in memory for ever: it is stored, or
\* dropped, or lost with the process.
EventuallyWritten == \A i \in Readings : (i \in InMemory) ~> (i \notin InMemory)

\* Whatever the server does, maintenance brings the queue back to its limit,
\* unless Open could not read the number of chunks: evictOnce trusts it.
LimitRestored ==
    (Cardinality(Pending) > MaxPages) ~>
        (Cardinality(Pending) <= MaxPages \/ "chunks" \in unread)

AllIdle == up = "running" /\ \A p \in Procs : pc[p] = "idle"

\* The comment on Store.oldestTs: "unix ms of the oldest stored chunk, 0 when
\* none", asked only when no operation is under way.
OldestTsExact == AllIdle => mem.oldest = OldestRow
=============================================================================
