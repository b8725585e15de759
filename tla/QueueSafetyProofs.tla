------------------------- MODULE QueueSafetyProofs --------------------------
(***************************************************************************)
(* Proofs about what QueueStore does to the stored chunks: that Ack        *)
(* removes only what was sent, that the store implements DurableQueue,     *)
(* that readings are stored in the order they were appended; and what the  *)
(* steps do to the places a reading can be in and the counters over them.  *)
(***************************************************************************)
EXTENDS QueueProofs
-----------------------------------------------------------------------------
\* What a step does to the rows: nothing (but for a damaged blob), insert all that
\* waits, or delete some of them.
DbQuiet ==
    /\ Pending' = Pending /\ \A s \in Pending : rows'[s].ids = rows[s].ids
    /\ UNCHANGED <<nextSeq, meta, gone>>
Stored(p) ==
    /\ pc[p] = "insert" /\ pc' = [pc EXCEPT ![p] = "written"]
    /\ rows' = [s \in Pending \cup DOMAIN NewRows(unflushed) |->
                   IF s \in DOMAIN NewRows(unflushed) THEN NewRows(unflushed)[s] ELSE rows[s]]
    /\ nextSeq' = nextSeq + Len(unflushed)
    /\ meta' = [meta EXCEPT !.chunks = @ + Len(unflushed),
                            !.readings = @ + Cardinality(QueuedIds(unflushed))]
    /\ UNCHANGED <<gone, memVars, localVars, restVars>>
Through(s) == {t \in Pending : t <= s}

LEMMA FlushRows == ASSUME Shape, NEW p \in Callers, Flush(p) PROVE DbQuiet \/ Stored(p)
<1>1. CASE FlushTake(p) \/ FlushDone(p) \/ FlushFailed(p)
  <2>1. UNCHANGED dbVars
    BY <1>1 DEF FlushTake, FlushDone, FlushFailed
  <2> QED BY <2>1 DEF dbVars, DbQuiet, Pending
<1>2. CASE FlushInsert(p)
  <2>1. batch[p] = unflushed
    BY <1>2 DEF FlushInsert, Shape, FlushOK, Busy
  <2>2. CASE UNCHANGED <<rows, nextSeq, meta, free>>
    BY <1>2, <2>2 DEF FlushInsert, DbQuiet, Pending
  <2>3. CASE ~UNCHANGED <<rows, nextSeq, meta, free>>
    BY <1>2, <2>1, <2>3 DEF FlushInsert, Stored, Goto, NewSeq
  <2> QED BY <2>2, <2>3
<1> QED BY <1>1, <1>2 DEF Flush

LEMMA ForwardRows ==
    ASSUME Shape, Forward
    PROVE  \/ DbQuiet
           \/ Discard /\ Min(bad) \in Pending /\ DeleteRows({Min(bad)}, "discarded")
           \/ Ack /\ DeleteRows(Through(Max(msg.seqs)), "acked")
<1>1. CASE UNCHANGED dbVars
  BY <1>1 DEF dbVars, DbQuiet, Pending
<1>2. CASE ~UNCHANGED dbVars
  <2>1. Discard \/ Ack
    BY <1>2 DEF Forward, ReadBatch, DiscardCount, Send, AckCount, RefreshBounds, ReadOldest,
                ReadNewest, SetBounds
  <2>2. CASE Discard
    BY <1>2, <2>2 DEF Discard
  <2>3. CASE Ack
    BY <1>2, <2>3 DEF Ack, DeleteThrough, Through
  <2> QED BY <2>1, <2>2, <2>3
<1> QED BY <1>1, <1>2

LEMMA MaintRows ==
    ASSUME Shape, Maintain
    PROVE  DbQuiet \/ (EvictDelete /\ DeleteRows(Through(cut), "evicted"))
<1>1. CASE UNCHANGED <<rows, nextSeq, meta, gone>>
  BY <1>1 DEF DbQuiet, Pending
<1>2. CASE ~UNCHANGED <<rows, nextSeq, meta, gone>>
  <2>1. EvictDelete
    BY <1>2 DEF Maintain, MaintStart, Vacuum, Measure, EvictEstimate, EvictCut, EvictTally,
                RefreshBounds, ReadOldest, ReadNewest, SetBounds, dbVars
  <2> QED BY <1>2, <2>1 DEF EvictDelete, DeleteThrough, Through, dbVars
<1> QED BY <1>1, <1>2

LEMMA RowSteps ==
    ASSUME Shape, [Next]_vars
    PROVE  \/ DbQuiet
           \/ \E p \in Callers : FlushInsert(p) /\ Stored(p)
           \/ Discard /\ Min(bad) \in Pending /\ DeleteRows({Min(bad)}, "discarded")
           \/ Ack /\ DeleteRows(Through(Max(msg.seqs)), "acked")
           \/ EvictDelete /\ DeleteRows(Through(cut), "evicted")
<1>1. ASSUME NEW p \in Callers, Flush(p) PROVE DbQuiet \/ (FlushInsert(p) /\ Stored(p))
  <2>1. CASE FlushTake(p) \/ FlushDone(p) \/ FlushFailed(p)
    <3>1. UNCHANGED dbVars
      BY <2>1 DEF FlushTake, FlushDone, FlushFailed
    <3> QED BY <3>1 DEF dbVars, DbQuiet, Pending
  <2> QED BY <1>1, <2>1, FlushRows DEF Flush
<1>2. CASE Damage
  BY <1>2, Damaged DEF Damage, DbQuiet, Shape
<1>3. CASE AppendReading \/ Cancel \/ PollersDone \/ Exit \/ Crash \/ Open \/ UNCHANGED vars
  <2>1. UNCHANGED dbVars
    BY <1>3 DEF AppendReading, Cancel, PollersDone, Exit, Crash, Die, Open, vars
  <2> QED BY <2>1 DEF dbVars, DbQuiet, Pending
<1> QED BY <1>1, <1>2, <1>3, ForwardRows, MaintRows DEF Next
-----------------------------------------------------------------------------
\* The message in hand: what it was made of is in it as long as it is stored, and
\* every row up to its last is in it or still to be discarded.
MessageInv ==
    /\ \A s \in Pending \cap msg.seqs : rows[s].ids \subseteq msg.ids
    /\ \A s \in Pending : (\E t \in msg.seqs : s <= t) => s \in msg.seqs \cup bad
    /\ pc["forwarder"] = "ack" => msg.ids \subseteq sent

\* A step that changes no row of an earlier seq leaves a message in hand as it was.
RowsKept == \A s \in Pending' : \/ s \in Pending /\ rows'[s].ids = rows[s].ids
                                \/ s \in Nat /\ s >= nextSeq

LEMMA StepKeepsRows == ASSUME Shape, [Next]_vars PROVE RowsKept
<1>1. DbOK /\ unflushed \in Seq(Chunk)
  BY DEF Shape, MemOK
<1>2. CASE DbQuiet
  BY <1>2 DEF DbQuiet, RowsKept
<1>3. ASSUME NEW p \in Callers, Stored(p) PROVE RowsKept
  <2>1. /\ Pending' = Pending \cup nextSeq .. (nextSeq + Len(unflushed) - 1)
        /\ \A s \in Pending : rows'[s] = rows[s]
    BY <1>1, <1>3, Inserted DEF Stored
  <2>2. nextSeq .. (nextSeq + Len(unflushed) - 1) \subseteq Nat
    BY <1>1 DEF DbOK
  <2> QED BY <1>1, <2>1, <2>2 DEF RowsKept, DbOK
<1>4. ASSUME NEW S \in SUBSET Pending, NEW why \in {"acked", "evicted", "discarded"},
             DeleteRows(S, why)
      PROVE  RowsKept
  <2>1. rows' = [s \in Pending \ S |-> rows[s]]
    BY <1>4 DEF DeleteRows
  <2>2. Pending' = Pending \ S /\ \A s \in Pending' : rows'[s] = rows[s]
    BY <2>1 DEF Pending
  <2> QED BY <2>2 DEF RowsKept
<1>5. \A s : Through(s) \in SUBSET Pending
  BY DEF Through
<1> QED BY <1>2, <1>3, <1>4, <1>5, RowSteps

LEMMA MessageKept ==
    ASSUME Shape, MessageInv, RowsKept, UNCHANGED msg, Pending' \cap bad \subseteq bad',
           pc'["forwarder"] = "ack" => msg.ids \subseteq sent'
    PROVE  MessageInv'
<1>1. nextSeq \in Nat /\ msg.seqs \subseteq 1 .. (nextSeq - 1)
  BY DEF Shape, DbOK, ForwarderOK
<1>2. ASSUME NEW s \in Pending', NEW t \in msg.seqs, s <= t
      PROVE  s \in Pending /\ rows'[s].ids = rows[s].ids
  BY <1>1, <1>2 DEF RowsKept
<1>3. \A s \in Pending' \cap msg.seqs : rows'[s].ids \subseteq msg.ids
  <2> TAKE s \in Pending' \cap msg.seqs
  <2>1. s <= s
    BY <1>1
  <2> QED BY <1>2, <2>1 DEF MessageInv
<1>4. \A s \in Pending' : (\E t \in msg.seqs : s <= t) => s \in msg.seqs \cup bad'
  BY <1>2 DEF MessageInv
<1> QED BY <1>3, <1>4 DEF MessageInv

LEMMA NoMessage ==
    ASSUME msg' = NoMsg
    PROVE  MessageInv'
<1>1. msg'.seqs = {} /\ msg'.ids = {}
  BY DEF NoMsg
<1>2. Pending' \cap msg'.seqs = {} /\ msg'.ids \subseteq sent'
  BY <1>1
<1> QED BY <1>1, <1>2 DEF MessageInv

LEMMA ScanIsPrefix ==
    ASSUME DbOK, NEW t \in Scanned, NEW s \in Pending, s <= t
    PROVE  s \in Scanned
<1>1. t \in Pending /\ Pending \subseteq Nat
  BY DEF DbOK, Scanned
<1>2. Below(s) \subseteq Below(t) /\ Below(t) \subseteq Pending
  <2>1. \A x \in Pending : x < s => x < t
    BY <1>1
  <2> QED BY <2>1 DEF Below
<1>3. Ids(Below(s)) \subseteq Ids(Below(t))
  BY <1>2 DEF Ids
<1>4. IsFiniteSet(Below(t)) /\ Ids(Below(t)) \subseteq Readings
  BY <1>2, RowSets
<1>5. IsFiniteSet(Ids(Below(t)))
  BY <1>4, ReadingSets
<1>6. /\ Cardinality(Below(s)) \in Nat /\ Cardinality(Below(t)) \in Nat
      /\ Cardinality(Below(s)) <= Cardinality(Below(t))
  BY <1>2, <1>4, FS_Subset, FS_CardinalityType
<1>7. /\ Cardinality(Ids(Below(s))) \in Nat /\ Cardinality(Ids(Below(t))) \in Nat
      /\ Cardinality(Ids(Below(s))) <= Cardinality(Ids(Below(t)))
  BY <1>3, <1>5, FS_Subset, FS_CardinalityType
<1>8. /\ Cardinality(Ids(Below(t))) < MaxReadings /\ Cardinality(Below(t)) < ReadBatchScanLimit
  BY DEF Scanned
<1>9. /\ Cardinality(Ids(Below(s))) < MaxReadings /\ Cardinality(Below(s)) < ReadBatchScanLimit
  BY <1>6, <1>7, <1>8, QueueAssumption
<1> QED BY <1>9 DEF Scanned

LEMMA ForwardMessage == ASSUME Shape, MessageInv, Forward, RowsKept PROVE MessageInv'
<1>1. pc \in [Procs -> CallerLabels \cup ForwarderLabels \cup MaintLabels]
  BY DEF Shape, RestOK
<1>2. CASE ReadBatch
  <2> DEFINE good == {s \in Scanned : rows[s].ok}
  <2>1. CASE UNCHANGED <<msg, bad, pc>>
    BY <1>2, <2>1, MessageKept DEF ReadBatch, restVars, MessageInv
  <2>2. CASE ~UNCHANGED <<msg, bad, pc>>
    <3>1. /\ msg' = [seqs |-> good, ids |-> Ids(good)] /\ bad' = Scanned \ good
          /\ pc' = [pc EXCEPT !["forwarder"] = AfterRead(bad', msg')]
          /\ UNCHANGED rows
      BY <1>2, <2>2 DEF ReadBatch, Goto, dbVars
    <3>2. good \subseteq Scanned /\ good \cup bad' = Scanned
      BY <3>1
    <3> HIDE DEF good
    <3>3. msg'.seqs = good /\ msg'.ids = Ids(good) /\ Pending' = Pending
      BY <3>1 DEF Pending
    <3>4. \A s \in Pending \cap good : rows[s].ids \subseteq Ids(good)
      BY DEF Ids
    <3>5. \A s \in Pending : (\E t \in good : s <= t) => s \in good \cup bad'
      BY <3>2, ScanIsPrefix DEF Shape
    <3>6. pc'["forwarder"] # "ack"
      BY <1>1, <3>1, Processes DEF AfterRead
    <3> QED BY <3>1, <3>3, <3>4, <3>5, <3>6 DEF MessageInv
  <2> QED BY <2>1, <2>2
<1>3. CASE Discard
  <2>1. CASE msg' = NoMsg
    BY <2>1, NoMessage
  <2>2. CASE msg' # NoMsg
    <3>1. /\ UNCHANGED msg /\ bad' = bad \ {Min(bad)}
          /\ (Min(bad) \notin Pending /\ UNCHANGED rows)
              \/ (Min(bad) \in Pending /\ DeleteRows({Min(bad)}, "discarded"))
          /\ \E l \in {"discard", "send", "idle", "discarded"} : Goto("forwarder", l)
      BY <1>3, <2>2 DEF Discard, Abandon, AfterRead, dbVars
    <3>2. Min(bad) \notin Pending'
      BY <3>1 DEF DeleteRows, Pending
    <3>3. pc'["forwarder"] # "ack"
      BY <1>1, <3>1, Processes DEF Goto
    <3> QED BY <3>1, <3>2, <3>3, MessageKept
  <2> QED BY <2>1, <2>2
<1>4. CASE DiscardCount \/ AckCount
  <2>1. UNCHANGED <<msg, bad>> /\ Goto("forwarder", "oldest")
    BY <1>4 DEF DiscardCount, AckCount
  <2>2. pc'["forwarder"] # "ack"
    BY <1>1, <2>1, Processes DEF Goto
  <2> QED BY <2>1, <2>2, MessageKept
<1>5. CASE Send
  <2>1. CASE msg' = NoMsg
    BY <2>1, NoMessage
  <2>2. CASE msg' # NoMsg
    BY <1>5, <2>2, MessageKept DEF Send
  <2> QED BY <2>1, <2>2
<1>6. CASE Ack
  BY <1>6, NoMessage DEF Ack
<1>7. CASE RefreshBounds("forwarder")
  <2>1. UNCHANGED <<msg, bad>>
    BY <1>7 DEF RefreshBounds, ReadOldest, ReadNewest, SetBounds
  <2>2. pc'["forwarder"] # "ack"
    BY <1>1, <1>7, Processes
       DEF RefreshBounds, ReadOldest, ReadNewest, SetBounds, Goto, AfterBounds, AfterRead
  <2> QED BY <2>1, <2>2, MessageKept
<1> QED BY <1>2, <1>3, <1>4, <1>5, <1>6, <1>7 DEF Forward

LEMMA StepMessage == Shape /\ MessageInv /\ [Next]_vars => MessageInv'
<1> SUFFICES ASSUME Shape, MessageInv, [Next]_vars PROVE MessageInv'
  OBVIOUS
<1>1. RowsKept
  BY StepKeepsRows
<1>2. ASSUME UNCHANGED <<msg, bad, sent>>, pc'["forwarder"] = pc["forwarder"]
      PROVE  MessageInv'
  BY <1>1, <1>2, MessageKept DEF MessageInv
<1>3. ASSUME NEW p \in Callers, Flush(p) PROVE MessageInv'
  BY <1>2, <1>3, FlushFrame, Processes DEF restVars
<1>4. CASE Maintain
  BY <1>2, <1>4, MaintFrame, Processes DEF restVars
<1>5. CASE Exit \/ Crash
  BY <1>5, NoMessage DEF Exit, Crash, Die
<1>6. CASE AppendReading \/ Cancel \/ PollersDone \/ Open \/ Damage \/ UNCHANGED vars
  BY <1>2, <1>6 DEF AppendReading, Cancel, PollersDone, Open, Damage, vars, localVars, restVars
<1> QED BY <1>1, <1>3, <1>4, <1>5, <1>6, ForwardMessage DEF Next
\* What a deletion adds to the readings and to the seqs that are gone.
LEMMA DeletedSeqs ==
    ASSUME DbOK, NEW S \in SUBSET Pending,
           NEW why \in {"acked", "evicted", "discarded"}, DeleteRows(S, why),
           NEW w \in {"acked", "evicted", "discarded"}
    PROVE  /\ WhySeqs(w)' = IF w = why THEN WhySeqs(w) \cup S ELSE WhySeqs(w)
           /\ GoneIds(w)' = IF w = why THEN GoneIds(w) \cup Ids(S) ELSE GoneIds(w)
<1>1. /\ DOMAIN gone' = DOMAIN gone \cup S
      /\ \A s \in S : gone'[s].ids = rows[s].ids /\ gone'[s].why = why
      /\ \A s \in DOMAIN gone : s \notin S /\ gone'[s] = gone[s]
  <2>1. /\ gone \in [DOMAIN gone ->
                        [ids : SUBSET Readings, why : {"acked", "evicted", "discarded"}]]
        /\ DOMAIN gone \cap Pending = {} /\ rows \in [Pending -> Chunk]
    BY DEF DbOK
  <2>2. gone' = [s \in DOMAIN gone \cup S |->
                   IF s \in S THEN [ids |-> rows[s].ids, why |-> why] ELSE gone[s]]
    BY DEF DeleteRows
  <2> QED BY <2>1, <2>2
<1>2. WhySeqs(w)' = IF w = why THEN WhySeqs(w) \cup S ELSE WhySeqs(w)
  BY <1>1 DEF WhySeqs
<1>3. GoneIds(w)' = UNION {gone'[s].ids : s \in WhySeqs(w)'}
  BY DEF GoneIds, WhySeqs
<1>4. /\ GoneIds(w) = UNION {gone[s].ids : s \in WhySeqs(w)}
      /\ WhySeqs(w) \subseteq DOMAIN gone
  BY DEF GoneIds, WhySeqs
<1>5. \A s \in WhySeqs(w) : gone'[s].ids = gone[s].ids
  BY <1>1, <1>4
<1>6. \A s \in S : gone'[s].ids = rows[s].ids
  BY <1>1
<1>7. CASE w = why
  <2>1. WhySeqs(w)' = WhySeqs(w) \cup S
    BY <1>2, <1>7
  <2>2. GoneIds(w)' = GoneIds(w) \cup Ids(S)
    BY <1>3, <1>4, <1>5, <1>6, <2>1 DEF Ids
  <2> QED BY <1>2, <1>7, <2>2
<1>8. CASE w # why
  <2>1. WhySeqs(w)' = WhySeqs(w)
    BY <1>2, <1>8
  <2>2. GoneIds(w)' = GoneIds(w)
    BY <1>3, <1>4, <1>5, <2>1
  <2> QED BY <1>2, <1>8, <2>2
<1> QED BY <1>7, <1>8

LEMMA GoneStays ==
    ASSUME UNCHANGED gone
    PROVE  \A w \in {"acked", "evicted", "discarded"} :
              WhySeqs(w)' = WhySeqs(w) /\ GoneIds(w)' = GoneIds(w)
BY DEF WhySeqs, GoneIds

LEMMA ThroughRows == \A s : Through(s) \in SUBSET Pending
BY DEF Through

\* Ack deletes rows of its message only.
LEMMA AckDeletesMessage ==
    ASSUME Shape, MessageInv, pc["forwarder"] = "ack"
    PROVE  Ids(Through(Max(msg.seqs))) \subseteq sent
<1> DEFINE m == Max(msg.seqs)
<1>1. /\ nextSeq \in Nat \ {0} /\ msg.seqs \subseteq 1 .. (nextSeq - 1) /\ msg.seqs # {}
      /\ bad = {}
  BY DEF Shape, DbOK, ForwarderOK
<1>2. nextSeq - 1 \in Nat /\ msg.seqs \subseteq 0 .. (nextSeq - 1)
  BY <1>1
<1>3. m \in msg.seqs
  BY <1>1, <1>2, MaxOfBounded
<1> HIDE DEF m
<1>4. \A s \in Through(m) : s \in Pending /\ s \in msg.seqs
  BY <1>1, <1>3 DEF Through, MessageInv
<1>5. \A s \in Through(m) : rows[s].ids \subseteq sent
  BY <1>4 DEF MessageInv
<1>6. Ids(Through(m)) \subseteq sent
  BY <1>5 DEF Ids
<1> QED BY <1>6 DEF m

LEMMA SentGrows == ASSUME Shape, [Next]_vars PROVE sent \subseteq sent'
<1>1. CASE Send
  BY <1>1 DEF Send
<1>2. CASE Forward /\ ~Send
  BY <1>2 DEF Forward, ReadBatch, Discard, DiscardCount, Ack, AckCount, RefreshBounds,
              ReadOldest, ReadNewest, SetBounds, restVars
<1>3. ASSUME NEW p \in Callers, Flush(p) PROVE sent \subseteq sent'
  BY <1>3, FlushFrame DEF restVars
<1>4. CASE Maintain
  BY <1>4, MaintFrame DEF restVars
<1>5. CASE AppendReading \/ Cancel \/ PollersDone \/ Exit \/ Crash \/ Open \/ Damage
           \/ UNCHANGED vars
  BY <1>5 DEF AppendReading, Cancel, PollersDone, Exit, Crash, Die, Open, Damage, vars, restVars
<1> QED BY <1>1, <1>2, <1>3, <1>4, <1>5 DEF Next

LEMMA StepAcked == Shape /\ MessageInv /\ AckedWereSent /\ [Next]_vars => AckedWereSent'
<1> SUFFICES ASSUME Shape, MessageInv, AckedWereSent, [Next]_vars PROVE AckedWereSent'
  OBVIOUS
<1>1. DbOK /\ sent \subseteq sent'
  BY SentGrows DEF Shape
<1>2. ASSUME UNCHANGED gone PROVE AckedWereSent'
  BY <1>1, <1>2, GoneStays DEF AckedWereSent
<1>3. ASSUME NEW S \in SUBSET Pending, NEW why \in {"evicted", "discarded"},
             DeleteRows(S, why)
      PROVE  AckedWereSent'
  <2>1. GoneIds("acked")' = GoneIds("acked")
    BY <1>1, <1>3, DeletedSeqs
  <2> QED BY <1>1, <2>1 DEF AckedWereSent
<1>4. CASE Ack /\ DeleteRows(Through(Max(msg.seqs)), "acked")
  <2>1. GoneIds("acked")' = GoneIds("acked") \cup Ids(Through(Max(msg.seqs)))
    BY <1>1, <1>4, ThroughRows, DeletedSeqs
  <2>2. Ids(Through(Max(msg.seqs))) \subseteq sent
    BY <1>4, AckDeletesMessage DEF Ack
  <2> QED BY <1>1, <2>1, <2>2 DEF AckedWereSent
<1>5. CASE Discard /\ Min(bad) \in Pending /\ DeleteRows({Min(bad)}, "discarded")
  BY <1>3, <1>5
<1>6. CASE EvictDelete /\ DeleteRows(Through(cut), "evicted")
  BY <1>3, <1>6, ThroughRows
<1> QED BY <1>2, <1>4, <1>5, <1>6, RowSteps DEF DbQuiet, Stored

\* Ack never removes a reading the server has not acknowledged.
THEOREM AckRemovesOnlySent == Spec => []AckedWereSent
<1>1. Init => MessageInv /\ AckedWereSent
  <2> SUFFICES ASSUME Init PROVE MessageInv /\ AckedWereSent
    OBVIOUS
  <2>1. msg.seqs = {} /\ msg.ids = {} /\ Pending = {} /\ DOMAIN gone = {}
    BY DEF Init, NoMsg, Pending
  <2>2. GoneIds("acked") = {}
    BY <2>1 DEF GoneIds
  <2> QED BY <2>1, <2>2 DEF MessageInv, AckedWereSent
<1> QED BY <1>1, ShapeAlways, StepMessage, StepAcked, PTL DEF Spec
-----------------------------------------------------------------------------
\* A deletion through some seq that removes anything removes through a row.
LEMMA ThroughARow ==
    ASSUME DbOK, NEW m \in Int, Through(m) # {}
    PROVE  \E s \in Pending : Through(m) = Through(s)
<1> DEFINE S == Through(m)
           s == Max(S)
<1>1. /\ nextSeq \in Nat /\ Pending \subseteq 0 .. nextSeq /\ S \subseteq Pending
      /\ S # {} /\ \A t \in S : t <= m
  BY DEF DbOK, Through
<1>2. s \in S /\ \A t \in S : s >= t
  <2> HIDE DEF S
  <2> QED BY <1>1, MaxOfBounded
<1> HIDE DEF s
<1>3. s \in Pending /\ s <= m
  BY <1>1, <1>2
<1>4. \A t \in Pending : t <= m <=> t <= s
  <2>1. \A t \in Pending : t <= m => t \in S
    BY DEF Through
  <2> HIDE DEF S
  <2> QED BY <1>1, <1>2, <1>3, <2>1
<1> QED BY <1>3, <1>4 DEF Through

\* Init and every step of the store, seen as the abstract queue sees them.
LEMMA InitImplements == Init => DQ!QueueInit
<1> SUFFICES ASSUME Init PROVE DQ!QueueInit
  OBVIOUS
<1>1. Pending = {} /\ DOMAIN gone = {} /\ nextSeq = 1
  BY DEF Init, Pending
<1>2. \A w : WhySeqs(w) = {}
  BY <1>1 DEF WhySeqs
<1> QED BY <1>1, <1>2 DEF DQ!QueueInit

LEMMA QuietImplements ==
    ASSUME UNCHANGED <<Pending, nextSeq>>,
           \A w \in {"acked", "evicted", "discarded"} : WhySeqs(w)' = WhySeqs(w)
    PROVE  UNCHANGED DQ!queueVars
BY DEF DQ!queueVars

LEMMA PrefixImplements ==
    ASSUME DbOK, NEW m \in Int, NEW why \in {"acked", "evicted"},
           DeleteRows(Through(m), why)
    PROVE  [DQ!QueueNext]_(DQ!queueVars)
<1> DEFINE S == Through(m)
<1>1. S \in SUBSET Pending /\ why \in {"acked", "evicted", "discarded"}
  BY ThroughRows
<1>2. /\ rows' = [t \in Pending \ S |-> rows[t]] /\ nextSeq' = nextSeq
  BY DEF DeleteRows
<1>3. Pending' = Pending \ S
  BY <1>2 DEF Pending
<1>4. \A w \in {"acked", "evicted", "discarded"} :
         WhySeqs(w)' = IF w = why THEN WhySeqs(w) \cup S ELSE WhySeqs(w)
  <2> HIDE DEF S
  <2>1. DeleteRows(S, why)
    BY DEF S
  <2> QED BY <1>1, <2>1, DeletedSeqs
<1>5. CASE S = {}
  <2>1. UNCHANGED <<Pending, nextSeq>>
    BY <1>2, <1>3, <1>5
  <2>2. \A w \in {"acked", "evicted", "discarded"} : WhySeqs(w)' = WhySeqs(w)
    BY <1>4, <1>5
  <2> QED BY <2>1, <2>2, QuietImplements
<1>6. CASE S # {}
  <2>1. PICK s \in Pending : S = Through(s)
    BY <1>6, ThroughARow
  <2>2. DQ!Through(s) = S
    BY <2>1 DEF DQ!Through, Through
  <2> HIDE DEF S
  <2>3. CASE why = "acked"
    <3>1. DQ!Acknowledge(s)
      BY <1>2, <1>3, <1>4, <2>2, <2>3 DEF DQ!Acknowledge
    <3> QED BY <3>1 DEF DQ!QueueNext
  <2>4. CASE why = "evicted"
    <3>1. DQ!Evict(s)
      BY <1>2, <1>3, <1>4, <2>2, <2>4 DEF DQ!Evict
    <3> QED BY <3>1 DEF DQ!QueueNext
  <2> QED BY <2>3, <2>4
<1> QED BY <1>5, <1>6

LEMMA DiscardImplements ==
    ASSUME DbOK, NEW s \in Pending, DeleteRows({s}, "discarded")
    PROVE  DQ!QueueNext
<1>1. /\ rows' = [t \in Pending \ {s} |-> rows[t]] /\ nextSeq' = nextSeq
  BY DEF DeleteRows
<1>2. Pending' = Pending \ {s}
  BY <1>1 DEF Pending
<1>3. \A w \in {"acked", "evicted", "discarded"} :
         WhySeqs(w)' = IF w = "discarded" THEN WhySeqs(w) \cup {s} ELSE WhySeqs(w)
  <2>1. {s} \in SUBSET Pending
    OBVIOUS
  <2> QED BY <2>1, DeletedSeqs
<1>4. DQ!Discard(s)
  BY <1>1, <1>2, <1>3 DEF DQ!Discard
<1> QED BY <1>4 DEF DQ!QueueNext

LEMMA StoreImplements ==
    ASSUME Shape, NEW p \in Callers, Stored(p)
    PROVE  DQ!QueueNext
<1> DEFINE k == Len(unflushed)
<1>1. /\ DbOK /\ unflushed \in Seq(Chunk) /\ unflushed # <<>> /\ nextSeq \in Nat
  BY DEF Shape, DbOK, MemOK, FlushOK, Busy, Stored
<1>2. k \in Nat /\ k > 0
  BY <1>1
<1>3. nextSeq' = nextSeq + k /\ UNCHANGED gone
  BY DEF Stored
<1>4. Pending' = Pending \cup nextSeq .. (nextSeq + k - 1)
  BY <1>1, Inserted DEF Stored
<1> HIDE DEF k
<1>5. nextSeq' > nextSeq /\ nextSeq' - nextSeq = k
  BY <1>1, <1>2, <1>3
<1>6. DQ!Put(k)
  BY <1>3, <1>4, GoneStays DEF DQ!Put
<1> QED BY <1>5, <1>6 DEF DQ!QueueNext

LEMMA StepImplements == Shape /\ [Next]_vars => [DQ!QueueNext]_(DQ!queueVars)
<1> SUFFICES ASSUME Shape, [Next]_vars PROVE [DQ!QueueNext]_(DQ!queueVars)
  OBVIOUS
<1>1. DbOK
  BY DEF Shape
<1>2. CASE DbQuiet
  BY <1>2, GoneStays, QuietImplements DEF DbQuiet
<1>3. ASSUME NEW p \in Callers, Stored(p) PROVE DQ!QueueNext
  BY <1>3, StoreImplements
<1>4. CASE Discard /\ Min(bad) \in Pending /\ DeleteRows({Min(bad)}, "discarded")
  BY <1>1, <1>4, DiscardImplements
<1>5. CASE Ack /\ DeleteRows(Through(Max(msg.seqs)), "acked")
  <2>1. /\ nextSeq \in Nat \ {0} /\ msg.seqs \subseteq 1 .. (nextSeq - 1) /\ msg.seqs # {}
    BY <1>5 DEF Ack, Shape, DbOK, ForwarderOK
  <2>2. nextSeq - 1 \in Nat /\ msg.seqs \subseteq 0 .. (nextSeq - 1)
    BY <2>1
  <2>3. Max(msg.seqs) \in msg.seqs
    BY <2>1, <2>2, MaxOfBounded
  <2>4. Max(msg.seqs) \in Int
    BY <2>1, <2>3
  <2> QED BY <1>1, <1>5, <2>4, PrefixImplements
<1>6. CASE EvictDelete /\ DeleteRows(Through(cut), "evicted")
  <2>1. cut \in Int
    BY DEF Shape, MaintOK
  <2> QED BY <1>1, <1>6, <2>1, PrefixImplements
<1> QED BY <1>2, <1>3, <1>4, <1>5, <1>6, RowSteps

\* The store implements DurableQueue: seqs only grow and are never reused, an
\* insertion is one transaction, Ack and eviction remove from the old end only and
\* discard one chunk, whatever the goroutines, failures, crashes and restarts do.
THEOREM StoreImplementsQueue == Spec => ImplementsDurableQueue
BY InitImplements, StepImplements, ShapeAlways, PTL
   DEF Spec, ImplementsDurableQueue, DQ!QueueSpec
-----------------------------------------------------------------------------
\* Some Flush has committed and not yet updated memory: it is the chunks that wait
\* that are stored already.  Otherwise they are in memory only.
WrittenNow == \E p \in Callers : pc[p] = "written"
Fresh == IF WrittenNow THEN {} ELSE QueuedIds(unflushed)

LEMMA QueuedMembers ==
    ASSUME NEW q \in Seq(Chunk)
    PROVE  \A x : x \in QueuedIds(q) <=> \E i \in 1 .. Len(q) : x \in q[i].ids
<1>1. DOMAIN q = 1 .. Len(q)
  OBVIOUS
<1> QED BY <1>1 DEF QueuedIds

LEMMA QueuedNone == QueuedIds(<<>>) = {}
BY DEF QueuedIds

LEMMA RowMembers == \A S, x : x \in Ids(S) <=> \E s \in S : x \in rows[s].ids
BY DEF Ids

\* The batch of a Flush that has committed is all that waits.
LEMMA WrittenBatch ==
    ASSUME Shape, WrittenNow
    PROVE  \A p \in Callers : pc[p] = "written" => batch[p] = unflushed
BY DEF Shape, FlushOK, Busy

\* InMemory, without its choice of the Flush that has committed.
LEMMA InMemoryIs == ASSUME Shape PROVE InMemory = buf \cup Fresh
<1>1. unflushed \in Seq(Chunk)
  BY DEF Shape, MemOK
<1>2. CASE WrittenNow
  <2> DEFINE p == CHOOSE q \in Callers : pc[q] = "written"
  <2>1. p \in Callers /\ pc[p] = "written"
    BY <1>2 DEF WrittenNow
  <2> HIDE DEF p
  <2>2. batch[p] = unflushed
    BY <1>2, <2>1, WrittenBatch
  <2>3. Written = Len(unflushed)
    BY <1>2, <2>2 DEF Written, WrittenNow, p
  <2>4. SubSeq(unflushed, Written + 1, Len(unflushed)) = <<>>
    BY <1>1, <2>3, SubSeqNone
  <2> QED BY <1>2, <2>4, QueuedNone DEF InMemory, Fresh
<1>3. CASE ~WrittenNow
  <2>1. Written = 0
    BY <1>3 DEF Written, WrittenNow
  <2>2. SubSeq(unflushed, Written + 1, Len(unflushed)) = unflushed
    BY <1>1, <2>1, SubSeqAll
  <2> QED BY <1>3, <2>2 DEF InMemory, Fresh
<1> QED BY <1>2, <1>3

\* What each step of Flush does to memory.
LEMMA Taken ==
    ASSUME Shape, NEW p \in Callers, FlushTake(p)
    PROVE  /\ ~WrittenNow /\ ~WrittenNow' /\ buf' = {} /\ unflushed' \in Seq(Chunk)
           /\ \/ /\ UNCHANGED <<mem, dropIds>>
                 /\ QueuedIds(unflushed') = QueuedIds(unflushed) \cup buf
                 /\ \/ unflushed' = unflushed
                    \/ /\ Len(unflushed') = Len(unflushed) + 1
                       /\ \A i \in 1 .. Len(unflushed) : unflushed'[i] = unflushed[i]
                       /\ unflushed'[Len(unflushed) + 1].ids = buf
              \/ /\ mem' = [mem EXCEPT !.dropped = @ + Cardinality(buf)]
                 /\ dropIds' = dropIds \cup buf
                 /\ unflushed' = unflushed
<1>1. /\ unflushed \in Seq(Chunk) /\ buf \subseteq Readings
      /\ pc \in [Procs -> CallerLabels \cup ForwarderLabels \cup MaintLabels]
  BY DEF Shape, MemOK, RestOK
<1>2. ~WrittenNow /\ buf' = {}
  BY DEF FlushTake, FlushMuFree, WrittenNow
<1>3. ~WrittenNow'
  <2>1. pc'[p] # "written" /\ \A q \in Callers \ {p} : pc'[q] = pc[q]
    BY <1>1, Processes DEF FlushTake, Goto, AfterFlush
  <2> QED BY <1>2, <2>1 DEF WrittenNow
<1>4. CASE buf = {} /\ UNCHANGED <<mem, dropIds, unflushed>>
  BY <1>1, <1>2, <1>3, <1>4
<1>5. CASE buf # {} /\ UNCHANGED <<mem, dropIds>>
           /\ unflushed' = Append(unflushed, [ids |-> buf, ok |-> TRUE])
  <2> DEFINE c == [ids |-> buf, ok |-> TRUE]
  <2>1. c \in Chunk /\ c.ids = buf
    BY <1>1, FreshChunk
  <2>2. unflushed' = Append(unflushed, c)
    BY <1>5
  <2> HIDE DEF c
  <2>3. /\ unflushed' \in Seq(Chunk) /\ Len(unflushed') = Len(unflushed) + 1
        /\ \A i \in 1 .. Len(unflushed) : unflushed'[i] = unflushed[i]
        /\ unflushed'[Len(unflushed) + 1] = c
    BY <1>1, <2>1, <2>2
  <2>4. 1 .. Len(unflushed') = 1 .. Len(unflushed) \cup {Len(unflushed) + 1}
    BY <1>1, <2>3
  <2>5. \A x : x \in QueuedIds(unflushed') <=> x \in QueuedIds(unflushed) \cup buf
    BY <1>1, <2>1, <2>3, <2>4, QueuedMembers
  <2>6. QueuedIds(unflushed') = QueuedIds(unflushed) \cup buf
    BY <2>5
  <2> QED BY <1>2, <1>3, <1>5, <2>1, <2>3, <2>6
<1>6. CASE /\ mem' = [mem EXCEPT !.dropped = @ + Cardinality(buf)]
           /\ dropIds' = dropIds \cup buf
           /\ unflushed' = unflushed
  BY <1>1, <1>2, <1>3, <1>6
<1> QED BY <1>4, <1>5, <1>6 DEF FlushTake

LEMMA Finished ==
    ASSUME Shape, NEW p \in Callers, FlushDone(p)
    PROVE  WrittenNow /\ ~WrittenNow' /\ unflushed' = <<>> /\ buf' = buf
<1>1. /\ unflushed \in Seq(Chunk) /\ batch[p] = unflushed /\ pc[p] = "written"
      /\ pc \in [Procs -> CallerLabels \cup ForwarderLabels \cup MaintLabels]
  BY DEF FlushDone, Shape, MemOK, FlushOK, Busy, RestOK
<1>2. unflushed' = SubSeq(unflushed, Len(unflushed) + 1, Len(unflushed)) /\ buf' = buf
  BY <1>1 DEF FlushDone
<1>3. unflushed' = <<>>
  BY <1>1, <1>2, SubSeqNone
<1>4. \A q \in Callers \ {p} : pc'[q] = pc[q] /\ pc[q] # "written"
  BY <1>1, FlushFrame, Processes DEF Flush, Shape, FlushOK, Busy
<1>5. pc'[p] # "written"
  BY <1>1, Processes DEF FlushDone, Goto, AfterFlush
<1> QED BY <1>1, <1>2, <1>3, <1>4, <1>5 DEF WrittenNow

LEMMA GaveUp ==
    ASSUME Shape, NEW p \in Callers, FlushFailed(p)
    PROVE  LET drop == SubSeq(unflushed, 1, Overflow) IN
           /\ ~WrittenNow /\ ~WrittenNow' /\ buf' = buf
           /\ unflushed' \in Seq(Chunk) /\ Overflow \in 0 .. Len(unflushed)
           /\ Len(unflushed') = Len(unflushed) - Overflow
           /\ \A i \in 1 .. Len(unflushed') : unflushed'[i] = unflushed[Overflow + i]
           /\ drop \in Seq(Chunk) /\ Len(drop) = Overflow
           /\ \A i \in 1 .. Overflow : drop[i] = unflushed[i]
           /\ QueuedIds(unflushed) = QueuedIds(drop) \cup QueuedIds(unflushed')
           /\ mem' = [mem EXCEPT !.dropped = @ + Cardinality(QueuedIds(drop))]
           /\ dropIds' = dropIds \cup QueuedIds(drop)
<1> DEFINE drop == SubSeq(unflushed, 1, Overflow)
<1>1. /\ unflushed \in Seq(Chunk) /\ pc[p] = "failed"
      /\ pc \in [Procs -> CallerLabels \cup ForwarderLabels \cup MaintLabels]
  BY DEF FlushFailed, Shape, MemOK, RestOK
<1>2. /\ unflushed' = SubSeq(unflushed, Overflow + 1, Len(unflushed)) /\ buf' = buf
      /\ mem' = [mem EXCEPT !.dropped = @ + Cardinality(QueuedIds(drop))]
      /\ dropIds' = dropIds \cup QueuedIds(drop)
  BY DEF FlushFailed
<1>3. \A q \in Callers \ {p} : pc'[q] = pc[q] /\ pc[q] # "written"
  BY <1>1, FlushFrame, Processes DEF Flush, Shape, FlushOK, Busy
<1>4. pc'[p] # "written" /\ pc[p] # "written"
  BY <1>1, Processes DEF FlushFailed, Goto, AfterFlush
<1>5. ~WrittenNow /\ ~WrittenNow'
  BY <1>3, <1>4 DEF WrittenNow
<1>6. /\ Overflow \in 0 .. Len(unflushed) /\ drop \in Seq(Chunk) /\ Len(drop) = Overflow
      /\ \A i \in 1 .. Overflow : drop[i] = unflushed[i]
      /\ unflushed' \in Seq(Chunk) /\ Len(unflushed') = Len(unflushed) - Overflow
      /\ \A i \in 1 .. Len(unflushed') : unflushed'[i] = unflushed[Overflow + i]
  BY <1>1, <1>2, Dropped
<1> HIDE DEF drop
<1>7. ASSUME NEW x PROVE x \in QueuedIds(unflushed) <=> x \in QueuedIds(drop) \cup QueuedIds(unflushed')
  <2>1. ASSUME NEW i \in 1 .. Len(unflushed), x \in unflushed[i].ids
        PROVE  x \in QueuedIds(drop) \cup QueuedIds(unflushed')
    <3>1. CASE i <= Overflow
      BY <1>6, <2>1, <3>1, QueuedMembers
    <3>2. CASE i > Overflow
      <4>1. i - Overflow \in 1 .. Len(unflushed') /\ Overflow + (i - Overflow) = i
        BY <1>1, <1>6, <3>2
      <4>2. unflushed'[i - Overflow] = unflushed[i]
        BY <1>6, <4>1
      <4> QED BY <1>6, <2>1, <4>1, <4>2, QueuedMembers
    <3> QED BY <1>1, <1>6, <3>1, <3>2
  <2>2. ASSUME NEW i \in 1 .. Len(drop), x \in drop[i].ids
        PROVE  x \in QueuedIds(unflushed)
    <3>1. i \in 1 .. Len(unflushed) /\ drop[i] = unflushed[i]
      BY <1>1, <1>6
    <3> QED BY <1>1, <2>2, <3>1, QueuedMembers
  <2>3. ASSUME NEW i \in 1 .. Len(unflushed'), x \in unflushed'[i].ids
        PROVE  x \in QueuedIds(unflushed)
    <3>1. Overflow + i \in 1 .. Len(unflushed) /\ unflushed'[i] = unflushed[Overflow + i]
      BY <1>1, <1>6
    <3> QED BY <1>1, <2>3, <3>1, QueuedMembers
  <2> QED BY <1>1, <1>6, <2>1, <2>2, <2>3, QueuedMembers
<1>8. QueuedIds(unflushed) = QueuedIds(drop) \cup QueuedIds(unflushed')
  BY <1>7
<1> QED BY <1>2, <1>5, <1>6, <1>8 DEF drop

\* What the flush transaction does to the readings that are stored.
LEMMA StoredReadings ==
    ASSUME Shape, NEW p \in Callers, Stored(p)
    PROVE  /\ ~WrittenNow /\ WrittenNow'
           /\ Ids(Pending)' = Ids(Pending) \cup QueuedIds(unflushed)
           /\ \A s \in Pending : rows'[s] = rows[s] /\ s < nextSeq
           /\ \A s \in Pending' \ Pending :
                 /\ s \in Nat /\ s >= nextSeq /\ s - nextSeq + 1 \in 1 .. Len(unflushed)
                 /\ rows'[s] = unflushed[s - nextSeq + 1]
<1>1. /\ DbOK /\ unflushed \in Seq(Chunk) /\ nextSeq \in Nat
      /\ pc \in [Procs -> CallerLabels \cup ForwarderLabels \cup MaintLabels]
      /\ Pending \subseteq 1 .. (nextSeq - 1)
  BY DEF Shape, DbOK, MemOK, RestOK
<1>2. ~WrittenNow /\ WrittenNow'
  <2>1. pc[p] = "insert" /\ pc'[p] = "written"
    BY <1>1, Processes DEF Stored
  <2>2. \A q \in Callers \ {p} : pc[q] # "written"
    BY <2>1 DEF Shape, FlushOK, Busy
  <2> QED BY <2>1, <2>2 DEF WrittenNow
<1>3. /\ Pending' = Pending \cup nextSeq .. (nextSeq + Len(unflushed) - 1)
      /\ \A s \in Pending : rows'[s] = rows[s]
      /\ \A i \in 1 .. Len(unflushed) : rows'[nextSeq + i - 1] = unflushed[i]
  BY <1>1, Inserted DEF Stored
<1>4. \A s \in Pending' \ Pending :
         /\ s \in Nat /\ s >= nextSeq /\ s - nextSeq + 1 \in 1 .. Len(unflushed)
         /\ rows'[s] = unflushed[s - nextSeq + 1]
  <2> TAKE s \in Pending' \ Pending
  <2>1. s \in nextSeq .. (nextSeq + Len(unflushed) - 1)
    BY <1>3
  <2>2. /\ s \in Nat /\ s >= nextSeq /\ s - nextSeq + 1 \in 1 .. Len(unflushed)
        /\ nextSeq + (s - nextSeq + 1) - 1 = s
    BY <1>1, <2>1
  <2>3. rows'[nextSeq + (s - nextSeq + 1) - 1] = unflushed[s - nextSeq + 1]
    BY <1>3, <2>2
  <2> QED BY <2>2, <2>3
<1>5. \A i \in 1 .. Len(unflushed) : nextSeq + i - 1 \in Pending'
  BY <1>1, <1>3
<1>6. ASSUME NEW x
      PROVE  x \in UNION {rows'[s].ids : s \in Pending'}
                <=> x \in Ids(Pending) \cup QueuedIds(unflushed)
  <2>1. ASSUME NEW s \in Pending', x \in rows'[s].ids
        PROVE  x \in Ids(Pending) \cup QueuedIds(unflushed)
    <3>1. CASE s \in Pending
      BY <1>3, <2>1, <3>1, RowMembers
    <3>2. CASE s \notin Pending
      BY <1>1, <1>4, <2>1, <3>2, QueuedMembers
    <3> QED BY <3>1, <3>2
  <2>2. ASSUME x \in Ids(Pending) PROVE \E s \in Pending' : x \in rows'[s].ids
    BY <1>3, <2>2, RowMembers
  <2>3. ASSUME x \in QueuedIds(unflushed) PROVE \E s \in Pending' : x \in rows'[s].ids
    <3>1. PICK i \in 1 .. Len(unflushed) : x \in unflushed[i].ids
      BY <1>1, <2>3, QueuedMembers
    <3> QED BY <1>3, <1>5, <3>1
  <2> QED BY <2>1, <2>2, <2>3
<1>7. Ids(Pending)' = UNION {rows'[s].ids : s \in Pending'}
  BY DEF Ids
<1>8. Ids(Pending)' = Ids(Pending) \cup QueuedIds(unflushed)
  BY <1>6, <1>7
<1>9. \A s \in Pending : s < nextSeq
  BY <1>1
<1> QED BY <1>2, <1>3, <1>4, <1>8, <1>9

\* Every other step removes rows at most.
RowsShrink == Pending' \subseteq Pending /\ \A s \in Pending' : rows'[s].ids = rows[s].ids

\* No step rewrites the readings of a row: rows go, or the batch comes.
LEMMA RowsShrinkOrGrow ==
    ASSUME Shape, [Next]_vars
    PROVE  RowsShrink \/ \E p \in Callers : FlushInsert(p) /\ Stored(p)
<1>1. ASSUME NEW S, NEW why, DeleteRows(S, why) PROVE RowsShrink
  <2>1. rows' = [s \in Pending \ S |-> rows[s]]
    BY <1>1 DEF DeleteRows
  <2>2. Pending' = Pending \ S /\ \A s \in Pending' : rows'[s] = rows[s]
    BY <2>1 DEF Pending
  <2> QED BY <2>2 DEF RowsShrink
<1>2. CASE DbQuiet
  BY <1>2 DEF DbQuiet, RowsShrink
<1> QED BY <1>1, <1>2, RowSteps

\* Only the pollers, Flush and the end of the process touch what is in memory.
LEMMA MemoryFrame ==
    ASSUME Shape, [Next]_vars, ~AppendReading, ~(Exit \/ Crash), \A p \in Callers : ~Flush(p)
    PROVE  UNCHANGED <<buf, unflushed, appended, Fresh, lost>>
<1>1. UNCHANGED unflushed /\ \A p \in Callers : pc'[p] = pc[p]
  BY BacklogFrame
<1>2. Fresh' = Fresh
  BY <1>1 DEF Fresh, WrittenNow
<1>3. CASE Forward
  BY <1>1, <1>2, <1>3, ForwardFrame
<1>4. CASE Maintain
  BY <1>1, <1>2, <1>4, MaintFrame DEF restVars
<1>5. CASE Cancel \/ PollersDone \/ Open \/ Damage \/ UNCHANGED vars
  BY <1>1, <1>2, <1>5 DEF Cancel, PollersDone, Open, Damage, vars, memVars, restVars
<1> QED BY <1>3, <1>4, <1>5 DEF Next
-----------------------------------------------------------------------------
\* The order of the readings: in the rows, in what waits, in the buffer, and none
\* above the last one appended.
RowsOrdered == \A s, t \in Pending : s < t => AllBefore(rows[s].ids, rows[t].ids)
QueueOrdered == \A i, j \in 1 .. Len(unflushed) :
                   i < j => AllBefore(unflushed[i].ids, unflushed[j].ids)
Ordered ==
    /\ RowsOrdered /\ QueueOrdered
    /\ AllBefore(Ids(Pending), buf \cup Fresh)
    /\ AllBefore(QueuedIds(unflushed), buf)
    /\ buf \subseteq 1 .. appended /\ QueuedIds(unflushed) \subseteq 1 .. appended
    /\ Ids(Pending) \subseteq 1 .. appended

\* Rows that go leave the others in order.
LEMMA ShrinkOrdered ==
    ASSUME RowsShrink, RowsOrdered
    PROVE  RowsOrdered' /\ Ids(Pending)' \subseteq Ids(Pending)
<1>1. RowsOrdered'
  BY DEF RowsShrink, RowsOrdered, AllBefore
<1>2. Ids(Pending)' = UNION {rows'[s].ids : s \in Pending'}
  BY DEF Ids
<1> QED BY <1>1, <1>2, RowMembers DEF RowsShrink

\* A batch that is stored comes after every row there is.
LEMMA StoreOrdered ==
    ASSUME Shape, Ordered, NEW p \in Callers, FlushInsert(p), Stored(p)
    PROVE  Ordered'
<1>1. /\ unflushed \in Seq(Chunk) /\ nextSeq \in Nat /\ Pending \subseteq Nat
      /\ UNCHANGED <<buf, unflushed, appended>>
  BY DEF Shape, DbOK, MemOK, Stored, memVars, restVars
<1>2. /\ Fresh = QueuedIds(unflushed) /\ Fresh' = {}
      /\ Ids(Pending)' = Ids(Pending) \cup QueuedIds(unflushed)
  BY StoredReadings DEF Fresh
<1>3. /\ \A s \in Pending : rows'[s] = rows[s] /\ s < nextSeq
      /\ \A s \in Pending' \ Pending :
            /\ s \in Nat /\ s >= nextSeq /\ s - nextSeq + 1 \in 1 .. Len(unflushed)
            /\ rows'[s] = unflushed[s - nextSeq + 1]
  BY StoredReadings
<1>4. RowsOrdered'
  <2> SUFFICES ASSUME NEW s \in Pending', NEW t \in Pending', s < t
               PROVE  AllBefore(rows'[s].ids, rows'[t].ids)
    BY DEF RowsOrdered
  <2>1. CASE s \in Pending /\ t \in Pending
    BY <1>3, <2>1 DEF Ordered, RowsOrdered
  <2>2. CASE s \in Pending /\ t \notin Pending
    <3>1. rows'[s].ids \subseteq Ids(Pending)
      BY <1>3, <2>2, RowMembers
    <3>2. rows'[t].ids \subseteq QueuedIds(unflushed)
      BY <1>1, <1>3, <2>2, QueuedMembers
    <3>3. AllBefore(Ids(Pending), QueuedIds(unflushed))
      BY <1>2 DEF Ordered, AllBefore
    <3> QED BY <3>1, <3>2, <3>3 DEF AllBefore
  <2>3. CASE s \notin Pending /\ t \in Pending
    <3>1. s \in Nat /\ s >= nextSeq /\ t \in Nat /\ t < nextSeq
      BY <1>1, <1>3, <2>3
    <3> QED BY <1>1, <3>1
  <2>4. CASE s \notin Pending /\ t \notin Pending
    <3>1. s - nextSeq + 1 < t - nextSeq + 1
      BY <1>1, <1>3, <2>4
    <3> QED BY <1>3, <2>4, <3>1 DEF Ordered, QueueOrdered
  <2> QED BY <2>1, <2>2, <2>3, <2>4
<1>5. QueueOrdered' /\ AllBefore(QueuedIds(unflushed), buf)'
  BY <1>1 DEF Ordered, QueueOrdered
<1>6. AllBefore(Ids(Pending)', buf)
  BY <1>2 DEF Ordered, AllBefore
<1> QED BY <1>1, <1>2, <1>4, <1>5, <1>6 DEF Ordered

\* The chunk made of the buffer comes after every chunk that waits.
LEMMA TakeOrdered ==
    ASSUME Shape, Ordered, NEW p \in Callers, FlushTake(p), RowsShrink
    PROVE  Ordered'
<1>1. /\ unflushed \in Seq(Chunk) /\ Len(unflushed) \in Nat /\ appended' = appended
  BY DEF Shape, MemOK, FlushTake, restVars
<1>2. /\ ~WrittenNow /\ ~WrittenNow' /\ buf' = {} /\ unflushed' \in Seq(Chunk)
      /\ \/ /\ QueuedIds(unflushed') = QueuedIds(unflushed) \cup buf
            /\ \/ unflushed' = unflushed
               \/ /\ Len(unflushed') = Len(unflushed) + 1
                  /\ \A i \in 1 .. Len(unflushed) : unflushed'[i] = unflushed[i]
                  /\ unflushed'[Len(unflushed) + 1].ids = buf
         \/ unflushed' = unflushed
  BY Taken
<1>3. Fresh = QueuedIds(unflushed) /\ Fresh' = QueuedIds(unflushed')
  BY <1>2 DEF Fresh
<1>4. QueuedIds(unflushed') \subseteq QueuedIds(unflushed) \cup buf
  BY <1>2
<1>5. RowsOrdered' /\ Ids(Pending)' \subseteq Ids(Pending)
  BY ShrinkOrdered DEF Ordered
<1>6. QueueOrdered'
  <2>1. CASE unflushed' = unflushed
    BY <2>1 DEF Ordered, QueueOrdered
  <2>2. CASE /\ Len(unflushed') = Len(unflushed) + 1
             /\ \A i \in 1 .. Len(unflushed) : unflushed'[i] = unflushed[i]
             /\ unflushed'[Len(unflushed) + 1].ids = buf
    <3> SUFFICES ASSUME NEW i \in 1 .. Len(unflushed'), NEW j \in 1 .. Len(unflushed'), i < j
                 PROVE  AllBefore(unflushed'[i].ids, unflushed'[j].ids)
      BY DEF QueueOrdered
    <3>1. i \in 1 .. Len(unflushed) /\ unflushed'[i] = unflushed[i]
      BY <1>1, <2>2
    <3>2. CASE j = Len(unflushed) + 1
      <4>1. unflushed[i].ids \subseteq QueuedIds(unflushed)
        BY <1>1, <3>1, QueuedMembers
      <4> QED BY <2>2, <3>1, <3>2, <4>1 DEF Ordered, AllBefore
    <3>3. CASE j # Len(unflushed) + 1
      <4>1. j \in 1 .. Len(unflushed) /\ unflushed'[j] = unflushed[j]
        BY <1>1, <2>2, <3>3
      <4> QED BY <3>1, <4>1 DEF Ordered, QueueOrdered
    <3> QED BY <3>2, <3>3
  <2> QED BY <1>2, <2>1, <2>2
<1>7. /\ AllBefore(Ids(Pending)', Fresh') /\ Ids(Pending)' \subseteq 1 .. appended
      /\ QueuedIds(unflushed') \subseteq 1 .. appended
  BY <1>3, <1>4, <1>5 DEF Ordered, AllBefore
<1>8. AllBefore(QueuedIds(unflushed'), {})
  BY DEF AllBefore
<1> QED BY <1>1, <1>2, <1>5, <1>6, <1>7, <1>8 DEF Ordered

\* A Flush that failed gives up the oldest chunks and keeps the others in order.
LEMMA FailedOrdered ==
    ASSUME Shape, Ordered, NEW p \in Callers, FlushFailed(p), RowsShrink
    PROVE  Ordered'
<1>1. /\ unflushed \in Seq(Chunk) /\ Len(unflushed) \in Nat /\ appended' = appended
  BY DEF Shape, MemOK, FlushFailed, restVars
<1>2. /\ ~WrittenNow /\ ~WrittenNow' /\ buf' = buf
      /\ Overflow \in 0 .. Len(unflushed) /\ Len(unflushed') = Len(unflushed) - Overflow
      /\ \A i \in 1 .. Len(unflushed') : unflushed'[i] = unflushed[Overflow + i]
      /\ QueuedIds(unflushed') \subseteq QueuedIds(unflushed)
  BY GaveUp
<1>3. Fresh = QueuedIds(unflushed) /\ Fresh' = QueuedIds(unflushed')
  BY <1>2 DEF Fresh
<1>4. RowsOrdered' /\ Ids(Pending)' \subseteq Ids(Pending)
  BY ShrinkOrdered DEF Ordered
<1>5. QueueOrdered'
  <2> SUFFICES ASSUME NEW i \in 1 .. Len(unflushed'), NEW j \in 1 .. Len(unflushed'), i < j
               PROVE  AllBefore(unflushed'[i].ids, unflushed'[j].ids)
    BY DEF QueueOrdered
  <2>1. /\ Overflow + i \in 1 .. Len(unflushed) /\ Overflow + j \in 1 .. Len(unflushed)
        /\ Overflow + i < Overflow + j
    BY <1>1, <1>2
  <2> QED BY <1>2, <2>1 DEF Ordered, QueueOrdered
<1>6. /\ AllBefore(Ids(Pending)', buf \cup Fresh') /\ AllBefore(QueuedIds(unflushed'), buf)
      /\ QueuedIds(unflushed') \subseteq 1 .. appended /\ Ids(Pending)' \subseteq 1 .. appended
  BY <1>2, <1>3, <1>4 DEF Ordered, AllBefore
<1> QED BY <1>1, <1>2, <1>4, <1>5, <1>6 DEF Ordered

\* Every step keeps the order.
LEMMA StepOrdered == Shape /\ Ordered /\ [Next]_vars => Ordered'
<1> SUFFICES ASSUME Shape, Ordered, [Next]_vars PROVE Ordered'
  OBVIOUS
<1>1. ASSUME ~RowsShrink PROVE Ordered'
  BY <1>1, RowsShrinkOrGrow, StoreOrdered
<1>2. ASSUME RowsShrink, UNCHANGED <<buf, unflushed, appended>>, Fresh' \subseteq Fresh
      PROVE  Ordered'
  <2>1. RowsOrdered' /\ Ids(Pending)' \subseteq Ids(Pending)
    BY <1>2, ShrinkOrdered DEF Ordered
  <2>2. /\ AllBefore(Ids(Pending)', buf \cup Fresh') /\ Ids(Pending)' \subseteq 1 .. appended
    BY <1>2, <2>1 DEF Ordered, AllBefore
  <2>3. QueueOrdered' /\ AllBefore(QueuedIds(unflushed), buf)'
    BY <1>2 DEF Ordered, QueueOrdered
  <2> QED BY <1>2, <2>1, <2>2, <2>3 DEF Ordered
<1>3. CASE RowsShrink /\ AppendReading
  <2>1. /\ appended \in Nat /\ appended' = appended + 1 /\ buf' = buf \cup {appended + 1}
        /\ UNCHANGED <<unflushed, pc>>
    BY <1>3, QueueAssumption DEF AppendReading, Shape, RestOK
  <2>2. RowsOrdered' /\ Ids(Pending)' \subseteq Ids(Pending)
    BY <1>3, ShrinkOrdered DEF Ordered
  <2>3. Fresh' = Fresh /\ Fresh \subseteq QueuedIds(unflushed)
    BY <2>1 DEF Fresh, WrittenNow
  <2>4. \A x \in 1 .. appended : x < appended + 1 /\ x \in 1 .. (appended + 1)
    BY <2>1
  <2>5. AllBefore(Ids(Pending)', buf' \cup Fresh') /\ AllBefore(QueuedIds(unflushed), buf')
    BY <2>1, <2>2, <2>3, <2>4 DEF Ordered, AllBefore
  <2>6. appended + 1 \in 1 .. (appended + 1)
    BY <2>1
  <2>7. /\ buf' \subseteq 1 .. appended' /\ QueuedIds(unflushed) \subseteq 1 .. appended'
        /\ Ids(Pending)' \subseteq 1 .. appended'
    BY <2>1, <2>2, <2>4, <2>6 DEF Ordered
  <2>8. QueueOrdered'
    BY <2>1 DEF Ordered, QueueOrdered
  <2> QED BY <2>1, <2>2, <2>5, <2>7, <2>8 DEF Ordered
<1>4. ASSUME RowsShrink, NEW p \in Callers, FlushInsert(p) PROVE Ordered'
  <2>1. UNCHANGED <<buf, unflushed, appended>>
    BY <1>4 DEF FlushInsert, memVars, restVars
  <2>2. Fresh' \subseteq Fresh
    <3>1. \A q \in Callers : pc[q] # "written"
      BY <1>4 DEF FlushInsert, Shape, FlushOK, Busy
    <3> QED BY <2>1, <3>1 DEF Fresh, WrittenNow
  <2> QED BY <1>2, <1>4, <2>1, <2>2
<1>5. ASSUME RowsShrink, NEW p \in Callers, FlushDone(p) PROVE Ordered'
  <2>1. unflushed' = <<>> /\ buf' = buf /\ Fresh' = {} /\ QueuedIds(unflushed') = {}
    BY <1>5, Finished, QueuedNone DEF Fresh
  <2>2. RowsOrdered' /\ Ids(Pending)' \subseteq Ids(Pending)
    BY <1>5, ShrinkOrdered DEF Ordered
  <2>3. appended' = appended
    BY <1>5 DEF FlushDone, restVars
  <2>4. /\ AllBefore(Ids(Pending)', buf) /\ AllBefore({}, buf)
        /\ Ids(Pending)' \subseteq 1 .. appended
    BY <2>2 DEF Ordered, AllBefore
  <2>5. QueueOrdered'
    BY <2>1 DEF QueueOrdered
  <2> QED BY <2>1, <2>2, <2>3, <2>4, <2>5 DEF Ordered
<1>6. CASE RowsShrink /\ (Exit \/ Crash)
  <2>1. buf' = {} /\ unflushed' = <<>> /\ appended' = appended
    BY <1>6 DEF Exit, Crash, Die
  <2>2. RowsOrdered' /\ Ids(Pending)' \subseteq Ids(Pending)
    BY <1>6, ShrinkOrdered DEF Ordered
  <2>3. Fresh' = {} /\ QueuedIds(unflushed') = {}
    BY <2>1, QueuedNone DEF Fresh
  <2>4. QueueOrdered'
    BY <2>1 DEF QueueOrdered
  <2>5. AllBefore(Ids(Pending)', {}) /\ AllBefore({}, {}) /\ Ids(Pending)' \subseteq 1 .. appended
    BY <2>2 DEF AllBefore, Ordered
  <2> QED BY <2>1, <2>2, <2>3, <2>4, <2>5 DEF Ordered
<1>7. CASE RowsShrink /\ ~AppendReading /\ ~(Exit \/ Crash) /\ \A p \in Callers : ~Flush(p)
  BY <1>2, <1>7, MemoryFrame
<1> QED BY <1>1, <1>3, <1>4, <1>5, <1>6, <1>7, TakeOrdered, FailedOrdered DEF Flush

LEMMA OrderedAlways == Spec => []Ordered
<1>1. Init => Ordered
  <2> SUFFICES ASSUME Init PROVE Ordered
    OBVIOUS
  <2>1. Pending = {} /\ buf = {} /\ unflushed = <<>>
    BY DEF Init, Pending
  <2>2. Ids(Pending) = {} /\ QueuedIds(unflushed) = {} /\ Fresh \subseteq {}
    BY <2>1, QueuedNone DEF Ids, Fresh
  <2> QED BY <2>1, <2>2 DEF Ordered, RowsOrdered, QueueOrdered, AllBefore
<1> QED BY <1>1, ShapeAlways, StepOrdered, PTL DEF Spec

\* Readings leave in the order Append took them: no failed, retried or interrupted
\* Flush puts a later reading into an earlier row, or stores it first.
THEOREM QueueIsFifo == Spec => []FirstInFirstOut
<1>1. Shape /\ Ordered => FirstInFirstOut
  <2> SUFFICES ASSUME Shape, Ordered PROVE FirstInFirstOut
    OBVIOUS
  <2>1. DOMAIN unflushed = 1 .. Len(unflushed)
    BY DEF Shape, MemOK
  <2> QED BY <2>1, InMemoryIs DEF Ordered, RowsOrdered, QueueOrdered, FirstInFirstOut
<1> QED BY <1>1, ShapeAlways, OrderedAlways, PTL
-----------------------------------------------------------------------------
\* What a step does to the books, that is to the places a reading can be in and to
\* the counters over them.  A deletion is at the label named after its reason until
\* its goroutine has taken it off mem.
Tallies == {"acked", "discarded", "evicted"}
MemSame == /\ mem'.chunks = mem.chunks /\ mem'.readings = mem.readings
           /\ mem'.evicted = mem.evicted /\ mem'.dropped = mem.dropped
MemorySame == UNCHANGED <<buf, unflushed, appended, WrittenNow, lost>>
BooksQuiet ==
    /\ MemorySame /\ MemSame /\ DbQuiet /\ UNCHANGED <<delta, dropIds, unread>>
    /\ \A p \in Deleters, l \in Tallies : pc'[p] = l <=> pc[p] = l
    /\ up' = "down" <=> up = "down"
Removed(p, S, why) ==
    /\ S \in SUBSET Pending /\ DeleteRows(S, why)
    /\ delta' = [delta EXCEPT ![p] = [chunks |-> Cardinality(S),
                                      readings |-> Cardinality(Ids(S))]]
    /\ dropIds' = IF why = "discarded" THEN dropIds \cup Ids(S) ELSE dropIds
    /\ MemorySame /\ UNCHANGED <<mem, unread, up>>
    /\ pc[p] \notin Tallies /\ pc'[p] = why
    /\ \A q \in Procs \ {p} : pc'[q] = pc[q]
Tallied(p, why) ==
    /\ pc[p] = why /\ TakeOff(p, why = "evicted", why = "discarded")
    /\ MemorySame /\ DbQuiet /\ UNCHANGED <<dropIds, unread, up>>
    /\ pc'[p] = "oldest"
    /\ \A q \in Procs \ {p} : pc'[q] = pc[q]

LEMMA WrittenSame ==
    ASSUME \A p \in Callers : pc'[p] = pc[p]
    PROVE  WrittenNow' = WrittenNow
BY DEF WrittenNow

LEMMA DeletersCallers == \A p \in Deleters, q \in Callers : q \in Procs \ {p}
BY DEF Deleters, Callers, Procs

LEMMA DbSame == ASSUME UNCHANGED dbVars PROVE DbQuiet
BY DEF DbQuiet, dbVars, Pending

LEMMA OneRow == \A s : Ids({s}) = rows[s].ids
BY DEF Ids

\* refreshBounds writes only the two timestamps.
LEMMA RefreshBooks ==
    ASSUME Shape, NEW p \in Deleters, RefreshBounds(p)
    PROVE  BooksQuiet
<1>1. pc \in [Procs -> CallerLabels \cup ForwarderLabels \cup MaintLabels]
  BY DEF Shape, RestOK
<1>2. /\ UNCHANGED <<dbVars, buf, unflushed, dropIds, delta, restVars>> /\ MemSame
  BY RefreshFrame DEF MemSame
<1>3. \A q \in Procs \ {p} : pc'[q] = pc[q]
  BY RefreshFrame, GotoFrame, Processes
<1>4. pc[p] \in {"oldest", "newest", "bounds"} /\ pc'[p] \notin Tallies
  BY <1>1, Processes DEF RefreshBounds, ReadOldest, ReadNewest, SetBounds, Goto, AfterBounds,
                         AfterRead, Tallies
<1>5. MemorySame
  BY <1>2, <1>3, WrittenSame, DeletersCallers DEF MemorySame, restVars
<1>6. \A q \in Deleters, l \in Tallies : pc'[q] = l <=> pc[q] = l
  BY <1>3, <1>4, Processes DEF Tallies
<1> QED BY <1>2, <1>5, <1>6, DbSame DEF BooksQuiet, restVars

\* The forwarder deletes a row or a message, or tallies a deletion, or leaves the
\* books alone.
LEMMA ForwardBooks ==
    ASSUME Shape, Forward
    PROVE  \/ BooksQuiet
           \/ Removed("forwarder", {Min(bad)}, "discarded")
           \/ pc["forwarder"] = "ack" /\ Removed("forwarder", Through(Max(msg.seqs)), "acked")
           \/ \E why \in {"acked", "discarded"} : Tallied("forwarder", why)
<1>1. pc \in [Procs -> CallerLabels \cup ForwarderLabels \cup MaintLabels]
  BY DEF Shape, RestOK
<1>2. /\ UNCHANGED <<buf, unflushed, up, appended, lost, unread>>
      /\ \A q \in Procs \ {"forwarder"} : pc'[q] = pc[q]
  BY ForwardFrame
<1>3. MemorySame
  BY <1>2, WrittenSame, DeletersCallers, Processes DEF MemorySame
<1>4. ASSUME UNCHANGED <<dbVars, mem, delta, dropIds>>,
             pc["forwarder"] \notin Tallies, pc'["forwarder"] \notin Tallies
      PROVE  BooksQuiet
  <2>1. \A q \in Deleters, l \in Tallies : pc'[q] = l <=> pc[q] = l
    BY <1>2, <1>4, Processes DEF Tallies
  <2> QED BY <1>2, <1>3, <1>4, <2>1, DbSame DEF BooksQuiet, MemSame
<1>5. CASE RefreshBounds("forwarder")
  BY <1>5, RefreshBooks, Processes
<1>6. CASE ReadBatch \/ Send
  <2>1. UNCHANGED <<dbVars, mem, delta, dropIds>>
    BY <1>6 DEF ReadBatch, Send, memVars
  <2>2. pc["forwarder"] \notin Tallies /\ pc'["forwarder"] \notin Tallies
    BY <1>1, <1>6, Processes DEF ReadBatch, Send, Goto, AfterRead, Tallies
  <2> QED BY <1>4, <2>1, <2>2
<1>7. CASE Discard
  <2> DEFINE s == Min(bad)
  <2>1. CASE UNCHANGED <<dbVars, delta, dropIds>> /\ \E l \in {"discard", "send", "idle"} :
               Goto("forwarder", l)
    <3>1. pc["forwarder"] \notin Tallies /\ pc'["forwarder"] \notin Tallies
      BY <1>1, <1>7, <2>1, Processes DEF Discard, Goto, Tallies
    <3>2. UNCHANGED mem
      BY <1>7 DEF Discard
    <3> QED BY <1>4, <2>1, <3>1, <3>2
  <2>2. CASE /\ s \in Pending /\ DeleteRows({s}, "discarded")
             /\ delta' = [delta EXCEPT !["forwarder"] =
                             [chunks |-> 1, readings |-> Cardinality(rows[s].ids)]]
             /\ dropIds' = dropIds \cup rows[s].ids /\ Goto("forwarder", "discarded")
    <3>1. pc["forwarder"] \notin Tallies /\ pc'["forwarder"] = "discarded" /\ UNCHANGED mem
      BY <1>1, <1>7, <2>2, Processes DEF Discard, Goto, Tallies
    <3>2. Ids({s}) = rows[s].ids /\ Cardinality({s}) = 1 /\ {s} \in SUBSET Pending
      BY <2>2, OneRow, FS_Singleton
    <3> HIDE DEF s
    <3>3. Removed("forwarder", {s}, "discarded")
      BY <1>2, <1>3, <2>2, <3>1, <3>2 DEF Removed
    <3> QED BY <3>3 DEF s
  <2> QED BY <1>7, <2>1, <2>2 DEF Discard, Abandon, AfterRead
<1>8. CASE Ack
  <2>1. CASE UNCHANGED <<dbVars, delta>> /\ Goto("forwarder", "idle")
    <3>1. pc["forwarder"] \notin Tallies /\ pc'["forwarder"] \notin Tallies
      BY <1>1, <1>8, <2>1, Processes DEF Ack, Goto, Tallies
    <3>2. UNCHANGED <<mem, dropIds>>
      BY <1>8 DEF Ack, memVars
    <3> QED BY <1>4, <2>1, <3>1, <3>2
  <2>2. CASE /\ DeleteThrough("forwarder", Max(msg.seqs), "acked")
             /\ Goto("forwarder", "acked")
    <3>1. pc["forwarder"] \notin Tallies /\ pc'["forwarder"] = "acked"
      BY <1>1, <1>8, <2>2, Processes DEF Ack, Goto, Tallies
    <3>2. UNCHANGED <<mem, dropIds>> /\ pc["forwarder"] = "ack"
      BY <1>8 DEF Ack, memVars
    <3> DEFINE S == Through(Max(msg.seqs))
    <3>3. /\ S \in SUBSET Pending /\ DeleteRows(S, "acked")
          /\ delta' = [delta EXCEPT !["forwarder"] = [chunks |-> Cardinality(S),
                                                     readings |-> Cardinality(Ids(S))]]
      BY <2>2 DEF DeleteThrough, Through
    <3> HIDE DEF S
    <3>4. Removed("forwarder", S, "acked")
      BY <1>2, <1>3, <3>1, <3>2, <3>3 DEF Removed
    <3> QED BY <3>2, <3>4 DEF S
  <2> QED BY <1>8, <2>1, <2>2 DEF Ack
<1>9. CASE DiscardCount
  <2>1. /\ pc["forwarder"] = "discarded" /\ TakeOff("forwarder", FALSE, TRUE)
        /\ UNCHANGED <<dbVars, dropIds>> /\ pc'["forwarder"] = "oldest"
    BY <1>1, <1>9, Processes DEF DiscardCount, Goto
  <2>2. ("discarded" = "evicted") = FALSE /\ ("discarded" = "discarded") = TRUE
    OBVIOUS
  <2>3. Tallied("forwarder", "discarded")
    BY <1>2, <1>3, <2>1, <2>2, DbSame DEF Tallied
  <2> QED BY <2>3
<1>10. CASE AckCount
  <2>1. /\ pc["forwarder"] = "acked" /\ TakeOff("forwarder", FALSE, FALSE)
        /\ UNCHANGED <<dbVars, dropIds>> /\ pc'["forwarder"] = "oldest"
    BY <1>1, <1>10, Processes DEF AckCount, Goto
  <2>2. ("acked" = "evicted") = FALSE /\ ("acked" = "discarded") = FALSE
    OBVIOUS
  <2>3. Tallied("forwarder", "acked")
    BY <1>2, <1>3, <2>1, <2>2, DbSame DEF Tallied
  <2> QED BY <2>3
<1> QED BY <1>5, <1>6, <1>7, <1>8, <1>9, <1>10 DEF Forward

\* Maintenance evicts, or tallies an eviction, or leaves the books alone.
LEMMA MaintBooks ==
    ASSUME Shape, Maintain
    PROVE  \/ BooksQuiet
           \/ Removed("maint", Through(cut), "evicted")
           \/ Tallied("maint", "evicted")
<1>1. pc \in [Procs -> CallerLabels \cup ForwarderLabels \cup MaintLabels]
  BY DEF Shape, RestOK
<1>2. /\ UNCHANGED <<buf, unflushed, dropIds, restVars>>
      /\ \A q \in Procs \ {"maint"} : pc'[q] = pc[q]
  BY MaintFrame
<1>3. MemorySame /\ UNCHANGED <<unread, up>>
  BY <1>2, WrittenSame, DeletersCallers, Processes DEF MemorySame, restVars
<1>4. ASSUME UNCHANGED <<rows, nextSeq, meta, gone, delta>>, MemSame,
             pc["maint"] \notin Tallies, pc'["maint"] \notin Tallies
      PROVE  BooksQuiet
  <2>1. \A q \in Deleters, l \in Tallies : pc'[q] = l <=> pc[q] = l
    BY <1>2, <1>4, Processes DEF Tallies
  <2>2. DbQuiet
    BY <1>4 DEF DbQuiet, Pending
  <2> QED BY <1>2, <1>3, <1>4, <2>1, <2>2 DEF BooksQuiet
<1>5. CASE RefreshBounds("maint")
  BY <1>5, RefreshBooks, Processes
<1>6. CASE MaintStart \/ Vacuum \/ Measure \/ EvictEstimate \/ EvictCut
  <2>1. UNCHANGED <<rows, nextSeq, meta, gone, delta>>
    BY <1>6 DEF MaintStart, Vacuum, Measure, EvictEstimate, EvictCut, dbVars, localVars
  <2>2. MemSame
    <3>1. CASE Measure
      <4>1. mem \in MemType /\ (mem' = mem \/ \E x : mem' = [mem EXCEPT !.pages = x])
        BY <3>1 DEF Measure, Shape, MemOK
      <4> QED BY <4>1 DEF MemSame, MemType
    <3>2. CASE ~Measure
      BY <1>6, <3>2 DEF MaintStart, Vacuum, EvictEstimate, EvictCut, memVars, MemSame
    <3> QED BY <3>1, <3>2
  <2>3. pc["maint"] \notin Tallies
    BY <1>6 DEF MaintStart, Vacuum, Measure, EvictEstimate, EvictCut, Tallies
  <2>4. pc'["maint"] \notin Tallies
    <3>1. CASE EvictEstimate
      BY <1>1, <3>1, Processes DEF EvictEstimate, Goto, Tallies
    <3>2. CASE ~EvictEstimate
      BY <1>1, <1>6, <3>2, Processes DEF MaintStart, Vacuum, Measure, EvictCut, Goto, Tallies
    <3> QED BY <3>1, <3>2
  <2> QED BY <1>4, <2>1, <2>2, <2>3, <2>4
<1>7. CASE EvictDelete
  <2>1. CASE UNCHANGED <<dbVars, delta>> /\ Goto("maint", "idle")
    <3>1. pc["maint"] \notin Tallies /\ pc'["maint"] \notin Tallies
      BY <1>1, <1>7, <2>1, Processes DEF EvictDelete, Goto, Tallies
    <3>2. MemSame
      BY <1>7 DEF EvictDelete, memVars, MemSame
    <3> QED BY <1>4, <2>1, <3>1, <3>2 DEF dbVars
  <2>2. CASE DeleteThrough("maint", cut, "evicted") /\ Goto("maint", "evicted")
    <3>1. pc["maint"] \notin Tallies /\ pc'["maint"] = "evicted"
      BY <1>1, <1>7, <2>2, Processes DEF EvictDelete, Goto, Tallies
    <3>2. UNCHANGED <<mem, dropIds>>
      BY <1>7 DEF EvictDelete, memVars
    <3> DEFINE S == Through(cut)
    <3>3. /\ S \in SUBSET Pending /\ DeleteRows(S, "evicted")
          /\ delta' = [delta EXCEPT !["maint"] = [chunks |-> Cardinality(S),
                                                 readings |-> Cardinality(Ids(S))]]
      BY <2>2 DEF DeleteThrough, Through
    <3> HIDE DEF S
    <3>4. Removed("maint", S, "evicted")
      BY <1>2, <1>3, <3>1, <3>2, <3>3 DEF Removed
    <3> QED BY <3>4 DEF S
  <2> QED BY <1>7, <2>1, <2>2 DEF EvictDelete
<1>8. CASE EvictTally
  <2>1. /\ pc["maint"] = "evicted" /\ TakeOff("maint", TRUE, FALSE)
        /\ UNCHANGED <<dbVars, dropIds>> /\ pc'["maint"] = "oldest"
    BY <1>1, <1>8, Processes DEF EvictTally, Goto
  <2>2. ("evicted" = "evicted") = TRUE /\ ("evicted" = "discarded") = FALSE
    OBVIOUS
  <2>3. Tallied("maint", "evicted")
    BY <1>2, <1>3, <2>1, <2>2, DbSame DEF Tallied
  <2> QED BY <2>3
<1> QED BY <1>5, <1>6, <1>7, <1>8 DEF Maintain
=============================================================================
