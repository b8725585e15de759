----------------------------- MODULE QueueProofs ----------------------------
(***************************************************************************)
(* Proofs about QueueStore, for any number of readings, faults, crashes    *)
(* and restarts and any limits: its types, what the steps of each          *)
(* goroutine leave alone, the bound on the memory backlog and that Close   *)
(* leaves nothing behind.  QueueSafetyProofs builds on this module.        *)
(***************************************************************************)
EXTENDS QueueStore, FiniteSetTheorems, WellFoundedInduction, TLAPS

\* Parts of a sequence.
LEMMA SubSeqNone == ASSUME NEW s, NEW m \in Int, NEW n \in Int, n < m PROVE SubSeq(s, m, n) = <<>>
OBVIOUS

LEMMA SubSeqAll == ASSUME NEW T, NEW s \in Seq(T) PROVE SubSeq(s, 1, Len(s)) = s
OBVIOUS

LEMMA SubSeqIs ==
    ASSUME NEW T, NEW s, NEW m \in Int, NEW n \in Int, \A i \in m .. n : s[i] \in T
    PROVE  /\ SubSeq(s, m, n) \in Seq(T)
           /\ Len(SubSeq(s, m, n)) = IF m <= n THEN n - m + 1 ELSE 0
           /\ \A i \in 1 .. n - m + 1 : SubSeq(s, m, n)[i] = s[m + i - 1]
OBVIOUS

\* A nonempty set of naturals with an upper bound has a largest element, the
\* one Max picks: to_seq is the seq of a chunk of the message.
LEMMA MaxOfBounded ==
    ASSUME NEW N \in Nat, NEW S \in SUBSET (0 .. N), S # {}
    PROVE  /\ Max(S) \in S
           /\ \A y \in S : Max(S) >= y
<1> DEFINE T == {N - x : x \in S}
<1>1. T \subseteq Nat
  OBVIOUS
<1>2. T # {}
  <2>1. PICK x \in S : TRUE
    OBVIOUS
  <2>2. N - x \in T
    BY <2>1
  <2> QED BY <2>2
<1>3. PICK t \in T : \A u \in T : <<u, t>> \notin OpToRel(<, Nat)
  <2> HIDE DEF T
  <2> QED BY <1>1, <1>2, NatLessThanWellFounded, WFMin, Zenon
<1>4. \A u \in T : ~(u < t)
  BY <1>1, <1>3, Zenon DEF OpToRel
<1>5. \E x \in S : \A y \in S : x >= y
  <2>1. PICK x \in S : t = N - x
    OBVIOUS
  <2>2. \A y \in S : x >= y
    BY <1>4, <2>1
  <2> QED BY <2>1, <2>2
<1> QED BY <1>5, Zenon DEF Max

\* A nonempty set of naturals has a smallest element, the one Min picks: the
\* oldest chunk of the queue.
LEMMA MinOfNaturals ==
    ASSUME NEW S \in SUBSET Nat, S # {}
    PROVE  /\ Min(S) \in S
           /\ \A y \in S : Min(S) =< y
<1>1. PICK t \in S : \A u \in S : <<u, t>> \notin OpToRel(<, Nat)
  BY NatLessThanWellFounded, WFMin, Zenon
<1>2. \A u \in S : ~(u < t)
  BY <1>1, Zenon DEF OpToRel
<1>3. \E x \in S : \A y \in S : x =< y
  BY <1>2
<1> QED BY <1>3, Zenon DEF Min

\* The labels of each goroutine, and those at which a Flush holds flushMu.
Busy == {"insert", "written", "failed"}
CallerLabels == Busy \cup {"idle", "done"}
ForwarderLabels == {"idle", "send", "ack", "acked", "discard", "discarded",
                    "oldest", "newest", "bounds"}
EvictLabels == {"evict", "cut", "delete", "evicted"}
MaintLabels == EvictLabels \cup {"idle", "vacuum", "measure", "oldest", "newest", "bounds"}

\* queue.db: no row is empty, and a seq is either a row or gone.
DbOK ==
    /\ nextSeq \in Nat \ {0}
    /\ Pending \subseteq 1 .. (nextSeq - 1) /\ rows \in [Pending -> Chunk]
    /\ meta \in [chunks : Int, readings : Int, evicted : Int]
    /\ free \in Nat
    /\ DOMAIN gone \subseteq 1 .. (nextSeq - 1)
    /\ gone \in [DOMAIN gone ->
                   [ids : SUBSET Readings, why : {"acked", "evicted", "discarded"}]]
    /\ \A s \in Pending : rows[s].ids # {}
    /\ DOMAIN gone \cap Pending = {}

\* Store: no chunk that waits is empty.
MemOK ==
    /\ buf \subseteq Readings /\ unflushed \in Seq(Chunk)
    /\ mem \in MemType /\ dropIds \subseteq Readings
    /\ \A i \in 1 .. Len(unflushed) : unflushed[i].ids # {}

\* Flush: while a caller holds flushMu its batch is all that waits, and it is
\* the only one.  The closer moves only once the pollers have ended.
FlushOK ==
    /\ \A p \in Callers : pc[p] \in CallerLabels
    /\ batch \in [Callers -> Seq(Chunk)]
    /\ \A p \in Callers : pc[p] \in Busy => batch[p] = unflushed /\ unflushed # <<>>
    /\ \A p, q \in Callers : pc[p] \in Busy /\ pc[q] \in Busy => p = q
    /\ pc["flusher"] # "done"
    /\ pc["closer"] # "idle" => up = "closing"

\* deleteThrough, refreshBounds.
DeleterOK ==
    /\ delta \in [Deleters -> [chunks : Nat, readings : Nat]]
    /\ bounds \in [Deleters -> [oldest : Nat, newest : Nat]]

\* The forwarder: it discards while there are rows that did not decode, and
\* sends and acknowledges a message that is not empty when there are none.
ForwarderOK ==
    /\ pc["forwarder"] \in ForwarderLabels
    /\ msg \in [seqs : SUBSET (1 .. (nextSeq - 1)), ids : SUBSET Readings]
    /\ bad \subseteq 1 .. (nextSeq - 1)
    /\ pc["forwarder"] = "discard" => bad # {}
    /\ pc["forwarder"] \in {"send", "ack", "acked"} => bad = {}
    /\ pc["forwarder"] \in {"send", "ack"} => msg.seqs # {}

\* Maintain: an evictOnce that is under way is one of the passes left.
MaintOK ==
    /\ pc["maint"] \in MaintLabels
    /\ cut \in Nat /\ passes \in 0 .. MaxEvictPasses
    /\ pc["maint"] \in EvictLabels => passes < MaxEvictPasses

RestOK ==
    /\ pc \in [Procs -> CallerLabels \cup ForwarderLabels \cup MaintLabels]
    /\ up \in {"running", "stopping", "closing", "down"}
    /\ appended \in 0 .. MaxAppends
    /\ sent \subseteq Readings /\ lost \subseteq Readings
    /\ unread \subseteq {"chunks", "readings", "evicted", "dropped", "oldest",
                         "newest", "pages"}
    /\ faults \in 0 .. MaxFaults /\ stops \in 0 .. MaxStops

\* The inductive invariant behind the types.
Shape == DbOK /\ MemOK /\ FlushOK /\ DeleterOK /\ ForwarderOK /\ MaintOK /\ RestOK
-----------------------------------------------------------------------------
\* Sets of readings and of seqs are finite.
LEMMA ReadingSets ==
    ASSUME NEW S \in SUBSET Readings
    PROVE  IsFiniteSet(S) /\ Cardinality(S) \in Nat
<1>1. IsFiniteSet(Readings)
  BY QueueAssumption, FS_Interval DEF Readings
<1>2. IsFiniteSet(S)
  BY <1>1, FS_Subset
<1> QED BY <1>2, FS_CardinalityType

LEMMA SeqSets ==
    ASSUME NEW n \in Nat \ {0}, NEW S \in SUBSET (1 .. (n - 1))
    PROVE  IsFiniteSet(S) /\ Cardinality(S) \in Nat
<1>1. IsFiniteSet(1 .. (n - 1))
  BY FS_Interval
<1>2. IsFiniteSet(S)
  BY <1>1, FS_Subset, Zenon
<1> QED BY <1>2, FS_CardinalityType

LEMMA RowSets ==
    ASSUME DbOK, NEW S \in SUBSET Pending
    PROVE  /\ IsFiniteSet(S) /\ Cardinality(S) \in Nat
           /\ Ids(S) \subseteq Readings /\ Cardinality(Ids(S)) \in Nat
<1>1. nextSeq \in Nat \ {0} /\ S \subseteq 1 .. (nextSeq - 1)
  BY DEF DbOK
<1>2. \A s \in S : rows[s].ids \subseteq Readings
  BY DEF DbOK, Chunk
<1>3. Ids(S) \subseteq Readings
  BY <1>2 DEF Ids
<1> QED BY <1>1, <1>3, SeqSets, ReadingSets, Zenon

LEMMA QueuedReadings ==
    ASSUME NEW q \in Seq(Chunk)
    PROVE  /\ \A i \in 1 .. Len(q) : q[i].ids \subseteq Readings
           /\ QueuedIds(q) \subseteq Readings
           /\ Cardinality(QueuedIds(q)) \in Nat
<1>1. DOMAIN q = 1 .. Len(q) /\ \A i \in 1 .. Len(q) : q[i] \in Chunk
  OBVIOUS
<1>2. \A i \in 1 .. Len(q) : q[i].ids \subseteq Readings
  BY <1>1 DEF Chunk
<1>3. QueuedIds(q) \subseteq Readings
  BY <1>1, <1>2 DEF QueuedIds
<1> QED BY <1>2, <1>3, ReadingSets

\* A chunk that was just encoded.
LEMMA FreshChunk ==
    ASSUME NEW S \in SUBSET Readings
    PROVE  LET c == [ids |-> S, ok |-> TRUE] IN c \in Chunk /\ c.ids = S
BY Zenon DEF Chunk

\* There is a latest timestamp: if the timestamps of the first k readings had no
\* bound, for the least such k those of the first k - 1 would have one.
LEMMA TimesBounded == \E m \in Nat : \A i \in Readings : TimeOf[i] <= m
<1> DEFINE Bounded(k) == \E m \in Nat : \A i \in 1 .. k : TimeOf[i] <= m
           U == {k \in 0 .. MaxAppends : ~Bounded(k)}
<1>1. MaxAppends \in Nat /\ \A i \in 1 .. MaxAppends : TimeOf[i] \in Nat
  BY QueueAssumption
<1>2. SUFFICES ASSUME ~Bounded(MaxAppends) PROVE FALSE
  BY DEF Readings
<1>3. MaxAppends \in U
  BY <1>1, <1>2
<1>4. U \subseteq Nat
  BY <1>1
<1> DEFINE k == Min(U)
<1>5. k \in U /\ \A u \in U : k <= u
  <2> HIDE DEF U
  <2> QED BY <1>3, <1>4, MinOfNaturals
<1> HIDE DEF k
<1>6. k # 0
  <2>1. Bounded(0)
    <3>1. \A i \in 1 .. 0 : TimeOf[i] <= 0
      OBVIOUS
    <3> QED BY <3>1
  <2> QED BY <1>5, <2>1
<1>7. k \in 1 .. MaxAppends /\ k - 1 \in 0 .. MaxAppends /\ k - 1 \notin U
  <2>1. k \in 0 .. MaxAppends
    BY <1>5
  <2> HIDE DEF U
  <2> QED BY <1>1, <1>5, <1>6, <2>1
<1>8. PICK m \in Nat : \A i \in 1 .. (k - 1) : TimeOf[i] <= m
  BY <1>7
<1>9. Bounded(k)
  <2>1. m + TimeOf[k] \in Nat /\ \A i \in 1 .. k : TimeOf[i] <= m + TimeOf[k]
    BY <1>1, <1>7, <1>8
  <2> QED BY <2>1
<1> QED BY <1>5, <1>9

\* The first and the last timestamp of a chunk are timestamps of its readings.
LEMMA ChunkTimes ==
    ASSUME NEW S \in SUBSET Readings, S # {}
    PROVE  FirstTs(S) \in Nat /\ LastTs(S) \in Nat
<1> DEFINE T == {TimeOf[i] : i \in S}
<1>1. PICK m \in Nat : \A i \in Readings : TimeOf[i] <= m
  BY TimesBounded
<1>2. T \subseteq 0 .. m
  BY <1>1, QueueAssumption DEF Readings
<1>3. T # {} /\ T \subseteq Nat
  BY <1>1, <1>2
<1> HIDE DEF T
<1>4. Min(T) \in T /\ Max(T) \in T
  BY <1>1, <1>2, <1>3, MinOfNaturals, MaxOfBounded
<1> QED BY <1>3, <1>4 DEF T, FirstTs, LastTs

LEMMA RowTimes == DbOK => OldestRow \in Nat /\ NewestRow \in Nat
<1> SUFFICES ASSUME DbOK PROVE OldestRow \in Nat /\ NewestRow \in Nat
  OBVIOUS
<1>1. nextSeq \in Nat /\ Pending \subseteq 0 .. nextSeq /\ Pending \subseteq Nat
  BY DEF DbOK
<1>2. ASSUME Pending # {}
      PROVE  Min(Pending) \in Pending /\ Max(Pending) \in Pending
  BY <1>1, <1>2, MinOfNaturals, MaxOfBounded, Zenon
<1>3. \A s \in Pending : rows[s].ids \in SUBSET Readings /\ rows[s].ids # {}
  BY DEF DbOK, Chunk
<1> QED BY <1>2, <1>3, ChunkTimes DEF OldestRow, NewestRow
-----------------------------------------------------------------------------
\* What each part of Shape depends on.
LEMMA DbStays == ASSUME DbOK, UNCHANGED dbVars PROVE DbOK'
BY DEF DbOK, dbVars, Pending

LEMMA MemStays == ASSUME MemOK, UNCHANGED memVars PROVE MemOK'
BY DEF MemOK, memVars

LEMMA MemEmptied ==
    ASSUME MemOK, buf' = {}, unflushed' = <<>>, dropIds' = {}, mem' = mem PROVE MemOK'
BY DEF MemOK

LEMMA ShapeRanges ==
    ASSUME Shape
    PROVE  /\ unflushed \in Seq(Chunk) /\ faults \in Nat
           /\ pc \in [Procs -> CallerLabels \cup ForwarderLabels \cup MaintLabels]
BY QueueAssumption DEF Shape, MemOK, RestOK

LEMMA FlushStays ==
    ASSUME FlushOK, UNCHANGED <<batch, unflushed, up>>, \A p \in Callers : pc'[p] = pc[p]
    PROVE  FlushOK'
BY DEF FlushOK, Callers

LEMMA DeleterStays == ASSUME DeleterOK, UNCHANGED <<delta, bounds>> PROVE DeleterOK'
BY DEF DeleterOK

LEMMA SeqsGrow ==
    ASSUME NEW a \in Nat, NEW b \in Nat, a <= b
    PROVE  1 .. (a - 1) \subseteq 1 .. (b - 1)
OBVIOUS

LEMMA ForwarderStays ==
    ASSUME ForwarderOK, UNCHANGED <<msg, bad>>, pc'["forwarder"] = pc["forwarder"],
           nextSeq \in Nat, nextSeq' \in Nat, nextSeq <= nextSeq'
    PROVE  ForwarderOK'
<1>1. 1 .. (nextSeq - 1) \subseteq 1 .. (nextSeq' - 1)
  BY SeqsGrow, Zenon
<1>2. /\ msg.seqs \subseteq 1 .. (nextSeq - 1) /\ msg.ids \subseteq Readings
      /\ msg = [seqs |-> msg.seqs, ids |-> msg.ids]
  BY DEF ForwarderOK
<1>3. msg' \in [seqs : SUBSET (1 .. (nextSeq' - 1)), ids : SUBSET Readings]
  BY <1>1, <1>2
<1>4. bad' \subseteq 1 .. (nextSeq' - 1)
  BY <1>1, Zenon DEF ForwarderOK
<1> QED BY <1>3, <1>4, Zenon DEF ForwarderOK

LEMMA MaintStays ==
    ASSUME MaintOK, UNCHANGED <<cut, passes>>, pc'["maint"] = pc["maint"]
    PROVE  MaintOK'
BY DEF MaintOK

LEMMA RestStays ==
    ASSUME RestOK, UNCHANGED restVars, faults' \in 0 .. MaxFaults,
           pc' \in [Procs -> CallerLabels \cup ForwarderLabels \cup MaintLabels]
    PROVE  RestOK'
BY DEF RestOK, restVars

\* A step of one goroutine moves only its own label.
LEMMA GotoMoves ==
    ASSUME RestOK, NEW p \in Procs,
           NEW l \in CallerLabels \cup ForwarderLabels \cup MaintLabels, Goto(p, l)
    PROVE  /\ pc'[p] = l /\ \A q \in Procs \ {p} : pc'[q] = pc[q]
           /\ pc' \in [Procs -> CallerLabels \cup ForwarderLabels \cup MaintLabels]
<1>1. pc \in [Procs -> CallerLabels \cup ForwarderLabels \cup MaintLabels]
  BY DEF RestOK
<1> QED BY <1>1 DEF Goto

LEMMA FaultsCounted ==
    ASSUME RestOK, NEW p, DbWorks(p) \/ DbFails(p)
    PROVE  faults' \in 0 .. MaxFaults /\ faults <= faults'
<1>1. faults \in 0 .. MaxFaults /\ MaxFaults \in Nat
  BY QueueAssumption DEF RestOK
<1> QED BY <1>1 DEF DbWorks, DbFails

LEMMA Processes ==
    /\ Callers \subseteq Procs /\ Deleters \subseteq Procs
    /\ "forwarder" \in Procs \ Callers /\ "maint" \in Procs \ Callers
    /\ "forwarder" \in Deleters /\ "maint" \in Deleters
    /\ "flusher" \in Callers /\ "closer" \in Callers
    /\ \A p \in Callers : p \in Procs /\ p # "forwarder" /\ p # "maint"
BY DEF Procs, Callers, Deleters

\* A step that only the callers of Flush, the forwarder or maintenance take.
LEMMA OnlyMaint ==
    ASSUME DbOK, FlushOK, ForwarderOK, RestOK, UNCHANGED <<batch, unflushed, msg, bad, restVars>>,
           NEW l \in MaintLabels, Goto("maint", l),
           faults' \in 0 .. MaxFaults, nextSeq' = nextSeq
    PROVE  FlushOK' /\ ForwarderOK' /\ RestOK' /\ pc'["maint"] = l
<1>1. /\ pc'["maint"] = l /\ \A q \in Procs \ {"maint"} : pc'[q] = pc[q]
      /\ pc' \in [Procs -> CallerLabels \cup ForwarderLabels \cup MaintLabels]
  BY Processes, GotoMoves
<1>2. FlushOK'
  BY <1>1, Processes, FlushStays DEF restVars
<1>3. ForwarderOK'
  <2>1. pc'["forwarder"] = pc["forwarder"]
    BY <1>1 DEF Procs, Deleters
  <2>2. nextSeq \in Nat
    BY DEF DbOK
  <2> QED BY <2>1, <2>2, ForwarderStays
<1>4. RestOK'
  BY <1>1, RestStays
<1> QED BY <1>1, <1>2, <1>3, <1>4

LEMMA OnlyForwarder ==
    ASSUME FlushOK, MaintOK, RestOK,
           UNCHANGED <<batch, unflushed, cut, passes, up, appended, lost, unread, stops>>,
           sent' \subseteq Readings,
           NEW l \in ForwarderLabels, Goto("forwarder", l), faults' \in 0 .. MaxFaults
    PROVE  FlushOK' /\ MaintOK' /\ RestOK' /\ pc'["forwarder"] = l
<1>1. /\ pc'["forwarder"] = l /\ \A q \in Procs \ {"forwarder"} : pc'[q] = pc[q]
      /\ pc' \in [Procs -> CallerLabels \cup ForwarderLabels \cup MaintLabels]
  BY Processes, GotoMoves
<1>2. FlushOK'
  BY <1>1, Processes, FlushStays
<1>3. MaintOK'
  <2>1. pc'["maint"] = pc["maint"]
    BY <1>1 DEF Procs, Deleters
  <2> QED BY <2>1, MaintStays
<1>4. RestOK'
  BY <1>1 DEF RestOK
<1> QED BY <1>1, <1>2, <1>3, <1>4

LEMMA OnlyCaller ==
    ASSUME ForwarderOK, MaintOK, RestOK, UNCHANGED <<msg, bad, cut, passes, restVars>>,
           nextSeq \in Nat, nextSeq' \in Nat, nextSeq <= nextSeq',
           NEW p \in Callers, NEW l \in CallerLabels, Goto(p, l), faults' \in 0 .. MaxFaults
    PROVE  /\ ForwarderOK' /\ MaintOK' /\ RestOK'
           /\ pc'[p] = l /\ \A q \in Callers \ {p} : pc'[q] = pc[q]
<1>1. /\ pc'[p] = l /\ \A q \in Procs \ {p} : pc'[q] = pc[q]
      /\ pc' \in [Procs -> CallerLabels \cup ForwarderLabels \cup MaintLabels]
  BY Processes, GotoMoves
<1>2. pc'["maint"] = pc["maint"] /\ pc'["forwarder"] = pc["forwarder"]
  BY <1>1 DEF Procs, Deleters, Callers
<1>3. ForwarderOK' /\ MaintOK'
  BY <1>2, MaintStays, ForwarderStays
<1>4. RestOK'
  BY <1>1, RestStays
<1> QED BY <1>1, <1>3, <1>4, Processes
-----------------------------------------------------------------------------
\* Shape holds initially and every action keeps it.
LEMMA InitShape == Init => Shape
<1> SUFFICES ASSUME Init PROVE Shape
  OBVIOUS
<1>1. DbOK
  <2>1. Pending = {} /\ DOMAIN gone = {}
    BY DEF Init, Pending
  <2>2. rows \in [Pending -> Chunk] /\ rows = [s \in Pending |-> rows[s]]
    BY <2>1, Zenon DEF Init
  <2>3. gone \in [DOMAIN gone ->
                   [ids : SUBSET Readings, why : {"acked", "evicted", "discarded"}]]
    BY <2>1 DEF Init
  <2> QED BY <2>1, <2>2, <2>3 DEF Init, DbOK
<1>2. MemOK
  BY DEF Init, MemOK, MemType
<1>3. pc \in [Procs -> {"idle"}] /\ \A p \in Procs : pc[p] = "idle"
  BY DEF Init
<1>4. FlushOK
  BY <1>3, Processes DEF Init, FlushOK, NoLocals, Busy, CallerLabels
<1>5. DeleterOK
  BY DEF Init, DeleterOK, NoLocals
<1>6. ForwarderOK
  BY <1>3, Processes DEF Init, ForwarderOK, NoMsg, ForwarderLabels
<1>7. MaintOK
  BY <1>3, Processes, QueueAssumption DEF Init, MaintOK, MaintLabels, EvictLabels
<1>8. RestOK
  BY <1>3, QueueAssumption DEF Init, RestOK, CallerLabels
<1> QED BY <1>1, <1>2, <1>4, <1>5, <1>6, <1>7, <1>8 DEF Shape

LEMMA AppendShape == ASSUME Shape, AppendReading PROVE Shape'
<1> USE DEF Shape
<1>1. DbOK' /\ DeleterOK'
  BY DbStays, DeleterStays DEF AppendReading, localVars
<1>2. appended + 1 \in Readings /\ appended' = appended + 1 /\ buf' = buf \cup {appended + 1}
  BY QueueAssumption DEF AppendReading, RestOK, Readings
<1>3. MemOK'
  BY <1>2 DEF AppendReading, MemOK
<1>4. FlushOK' /\ MaintOK'
  BY FlushStays, MaintStays DEF AppendReading, localVars
<1>5. ForwarderOK'
  BY DEF AppendReading, localVars, dbVars, ForwarderOK
<1>6. RestOK'
  BY <1>2 DEF AppendReading, RestOK, Readings
<1> QED BY <1>1, <1>3, <1>4, <1>5, <1>6

\* Readings that are dropped are counted.
LEMMA DropsAdd ==
    ASSUME NEW m \in MemType, NEW n \in Nat, NEW x, x = [m EXCEPT !.dropped = @ + n]
    PROVE  x \in MemType
<1>1. m.dropped + n \in Int
  BY DEF MemType
<1> QED BY <1>1 DEF MemType

LEMMA FlushTakeShape == ASSUME Shape, NEW p \in Callers, FlushTake(p) PROVE Shape'
<1> USE DEF Shape
<1> DEFINE l == IF unflushed' # <<>> THEN "insert" ELSE AfterFlush(p)
<1>1. /\ pc[p] = "idle" /\ MayFlush(p) /\ FlushMuFree /\ buf' = {}
      /\ batch' = [batch EXCEPT ![p] = unflushed'] /\ Goto(p, l)
      /\ UNCHANGED <<dbVars, msg, bad, delta, bounds, cut, passes, restVars>>
  BY DEF FlushTake
<1>2. /\ buf \subseteq Readings /\ Cardinality(buf) \in Nat /\ unflushed \in Seq(Chunk)
      /\ mem \in MemType /\ dropIds \subseteq Readings /\ nextSeq \in Nat
      /\ \A i \in 1 .. Len(unflushed) : unflushed[i].ids # {}
  BY ReadingSets DEF MemOK, DbOK
<1>3. faults' \in 0 .. MaxFaults
  BY QueueAssumption DEF FlushTake, RestOK
<1>4. /\ unflushed' \in Seq(Chunk)
      /\ \A i \in 1 .. Len(unflushed') : unflushed'[i].ids # {}
  <2>1. CASE unflushed' = unflushed
    BY <1>2, <2>1
  <2>2. CASE buf # {} /\ unflushed' = Append(unflushed, [ids |-> buf, ok |-> TRUE])
    <3> DEFINE c == [ids |-> buf, ok |-> TRUE]
    <3>1. c \in Chunk /\ c.ids = buf
      BY <1>2, FreshChunk
    <3>2. unflushed' = Append(unflushed, c)
      BY <2>2
    <3> HIDE DEF c
    <3> QED BY <1>2, <2>2, <3>1, <3>2
  <2> QED BY <2>1, <2>2 DEF FlushTake
<1>5. mem' \in MemType /\ dropIds' \subseteq Readings
  <2>1. CASE UNCHANGED <<mem, dropIds>>
    BY <1>2, <2>1
  <2>2. CASE /\ mem' = [mem EXCEPT !.dropped = @ + Cardinality(buf)]
             /\ dropIds' = dropIds \cup buf
    <3>1. mem' \in MemType
      BY <1>2, <2>2, DropsAdd
    <3> QED BY <1>2, <2>2, <3>1
  <2> QED BY <2>1, <2>2 DEF FlushTake
<1>6. MemOK'
  BY <1>1, <1>4, <1>5 DEF MemOK
<1>7. l \in CallerLabels /\ (p = "flusher" => l # "done")
  BY DEF CallerLabels, Busy, AfterFlush
<1>8. /\ ForwarderOK' /\ MaintOK' /\ RestOK'
      /\ pc'[p] = l /\ \A q \in Callers \ {p} : pc'[q] = pc[q]
  <2> HIDE DEF l
  <2> QED BY <1>1, <1>2, <1>3, <1>7, OnlyCaller DEF dbVars
<1>9. FlushOK'
  <2>1. batch \in [Callers -> Seq(Chunk)] /\ \A q \in Callers : pc[q] \in CallerLabels
    BY DEF FlushOK
  <2>2. batch' \in [Callers -> Seq(Chunk)] /\ batch'[p] = unflushed'
    BY <1>1, <1>4, <2>1
  <2>3. \A q \in Callers \ {p} : pc'[q] \notin Busy
    BY <1>1, <1>8 DEF FlushMuFree, Busy
  <2>4. pc'[p] \in CallerLabels /\ (pc'[p] \in Busy => unflushed' # <<>>)
    BY <1>7, <1>8 DEF Busy, AfterFlush
  <2>5. p = "flusher" => pc'["flusher"] # "done"
    BY <1>7, <1>8
  <2>6. p = "closer" => up' = "closing"
    BY <1>1 DEF MayFlush, restVars
  <2> HIDE DEF l
  <2>7. \A q \in Callers : pc'[q] \in CallerLabels
    BY <1>8, <2>1, <2>4
  <2>8. pc'["flusher"] # "done" /\ (pc'["closer"] # "idle" => up' = "closing")
    BY <1>1, <1>8, <2>5, <2>6 DEF Callers, FlushOK, restVars
  <2> QED BY <2>2, <2>3, <2>4, <2>7, <2>8 DEF FlushOK
<1>10. DbOK' /\ DeleterOK'
  BY <1>1, DbStays, DeleterStays
<1> QED BY <1>6, <1>8, <1>9, <1>10

\* What the assignments to the counters leave in each of them.
MetaType == [chunks : Int, readings : Int, evicted : Int]

MetaFields == {"chunks", "readings", "evicted"}
MemFields == MetaFields \cup {"dropped", "oldest", "newest", "pages"}

LEMMA MetaAdds ==
    ASSUME NEW m \in MetaType, NEW c \in Int, NEW r \in Int,
           NEW x, x = [m EXCEPT !.chunks = @ + c, !.readings = @ + r]
    PROVE  /\ x \in MetaType /\ x.chunks = m.chunks + c
           /\ x.readings = m.readings + r /\ x.evicted = m.evicted
<1>1. /\ x.chunks = m.chunks + c /\ x.readings = m.readings + r /\ x.evicted = m.evicted
      /\ DOMAIN x = MetaFields /\ x = [f \in DOMAIN x |-> x[f]]
  BY Zenon DEF MetaType, MetaFields
<1>2. m.chunks \in Int /\ m.readings \in Int /\ m.evicted \in Int
  BY DEF MetaType
<1>3. x.chunks \in Int /\ x.readings \in Int /\ x.evicted \in Int
  BY <1>1, <1>2
<1>4. x \in MetaType
  BY <1>1, <1>3, Zenon DEF MetaType, MetaFields
<1> QED BY <1>1, <1>4

LEMMA MemAdds ==
    ASSUME NEW m \in MemType, NEW c \in Int, NEW r \in Int, NEW first \in Nat, NEW last \in Nat,
           NEW x, x = [m EXCEPT !.chunks = @ + c, !.readings = @ + r,
                                !.oldest = IF @ = 0 THEN first ELSE @,
                                !.newest = Larger(@, last)]
    PROVE  /\ x \in MemType /\ x.chunks = m.chunks + c /\ x.readings = m.readings + r
           /\ x.evicted = m.evicted /\ x.dropped = m.dropped
<1>1. /\ x.chunks = m.chunks + c /\ x.readings = m.readings + r
      /\ x.evicted = m.evicted /\ x.dropped = m.dropped /\ x.pages = m.pages
      /\ DOMAIN x = MemFields /\ x = [f \in DOMAIN x |-> x[f]]
  BY Zenon DEF MemType, MetaFields, MemFields
<1>2. /\ x.oldest = IF m.oldest = 0 THEN first ELSE m.oldest
      /\ x.newest = Larger(m.newest, last)
  BY DEF MemType
<1>3. /\ m.chunks \in Int /\ m.readings \in Int /\ m.evicted \in Int /\ m.dropped \in Int
      /\ m.oldest \in Nat /\ m.newest \in Nat /\ m.pages \in Nat
  BY DEF MemType
<1>4. x.oldest \in Nat /\ x.newest \in Nat
  BY <1>2, <1>3 DEF Larger
<1>5. x.chunks \in Int /\ x.readings \in Int /\ x.evicted \in Int /\ x.dropped \in Int
      /\ x.pages \in Nat
  BY <1>1, <1>3
<1>6. x \in MemType
  BY <1>1, <1>4, <1>5, Zenon DEF MemType, MetaFields, MemFields
<1> QED BY <1>1, <1>6

\* The rows of a transaction: the chunks of the batch in order, at new seqs.
LEMMA Inserted ==
    ASSUME DbOK, NEW b \in Seq(Chunk),
           rows' = [s \in Pending \cup DOMAIN NewRows(b) |->
                       IF s \in DOMAIN NewRows(b) THEN NewRows(b)[s] ELSE rows[s]]
    PROVE  /\ Pending' = Pending \cup nextSeq .. (nextSeq + Len(b) - 1)
           /\ rows' = [s \in Pending' |-> rows'[s]]
           /\ \A s \in Pending : rows'[s] = rows[s]
           /\ \A i \in 1 .. Len(b) : rows'[nextSeq + i - 1] = b[i]
           /\ \A s \in nextSeq .. (nextSeq + Len(b) - 1) :
                 /\ s \notin Pending /\ s - nextSeq + 1 \in 1 .. Len(b)
                 /\ rows'[s] = b[s - nextSeq + 1]
<1> DEFINE N == nextSeq .. (nextSeq + Len(b) - 1)
           new == NewRows(b)
<1>1. nextSeq \in Nat /\ Len(b) \in Nat /\ Pending \subseteq 1 .. (nextSeq - 1)
  BY DEF DbOK
<1>2. DOMAIN new = N /\ \A s \in N : new[s] = b[s - nextSeq + 1]
  BY DEF NewRows, NewSeq
<1> HIDE DEF new
<1>3. rows' = [s \in Pending \cup N |-> IF s \in N THEN new[s] ELSE rows[s]]
  BY <1>2 DEF new
<1>4. \A s \in N : s \notin Pending /\ s - nextSeq + 1 \in 1 .. Len(b)
  BY <1>1
<1>5. \A i \in 1 .. Len(b) : nextSeq + i - 1 \in N /\ (nextSeq + i - 1) - nextSeq + 1 = i
  BY <1>1
<1> HIDE DEF N
<1>6. DOMAIN rows' = Pending \cup N /\ rows' = [s \in DOMAIN rows' |-> rows'[s]]
  BY <1>3
<1>7. \A s \in Pending : rows'[s] = rows[s]
  BY <1>3, <1>4
<1>8. \A s \in N : rows'[s] = b[s - nextSeq + 1]
  BY <1>2, <1>3
<1>9. \A i \in 1 .. Len(b) : rows'[nextSeq + i - 1] = b[i]
  BY <1>5, <1>8, Zenon
<1> QED BY <1>4, <1>6, <1>7, <1>8, <1>9, Zenon DEF N, Pending

\* A Flush that moves on within its critical sections.
LEMMA CallerMoves ==
    ASSUME FlushOK, NEW p \in Callers, pc[p] \in Busy, NEW l \in CallerLabels,
           p = "flusher" => l # "done",
           pc'[p] = l, \A q \in Callers \ {p} : pc'[q] = pc[q],
           l \in Busy => UNCHANGED <<batch, unflushed>>,
           batch' \in [Callers -> Seq(Chunk)], UNCHANGED up
    PROVE  FlushOK'
<1>1. \A q \in Callers : pc[q] \in CallerLabels
  BY DEF FlushOK
<1>2. \A q \in Callers \ {p} : pc'[q] \notin Busy
  BY Zenon DEF FlushOK
<1>3. \A q \in Callers : pc'[q] \in CallerLabels
  BY <1>1
<1>4. l \in Busy => batch'[p] = unflushed' /\ unflushed' # <<>>
  BY DEF FlushOK
<1>5. pc'["flusher"] # "done" /\ (pc'["closer"] # "idle" => up' = "closing")
  BY DEF FlushOK, Callers, Busy
<1> QED BY <1>2, <1>3, <1>4, <1>5 DEF FlushOK

LEMMA FlushInsertShape == ASSUME Shape, NEW p \in Callers, FlushInsert(p) PROVE Shape'
<1> USE DEF Shape
<1>1. /\ pc[p] = "insert" /\ UNCHANGED <<gone, memVars, localVars, restVars>>
  BY DEF FlushInsert
<1>2. batch[p] = unflushed /\ unflushed # <<>> /\ unflushed \in Seq(Chunk)
  BY <1>1 DEF FlushOK, Busy, MemOK
<1>3. faults' \in 0 .. MaxFaults
  BY FaultsCounted DEF FlushInsert
<1>4. MemOK' /\ DeleterOK'
  BY <1>1, MemStays, DeleterStays DEF localVars
<1>5. DbOK' /\ nextSeq' \in Nat /\ nextSeq <= nextSeq'
  <2>1. CASE UNCHANGED <<rows, nextSeq, meta, free>>
    <3>1. DbOK'
      BY <1>1, <2>1, DbStays DEF dbVars
    <3> QED BY <2>1, <3>1 DEF DbOK
  <2>2. CASE ~UNCHANGED <<rows, nextSeq, meta, free>>
    <3> DEFINE b == unflushed
    <3>1. /\ rows' = [s \in Pending \cup DOMAIN NewRows(b) |->
                        IF s \in DOMAIN NewRows(b) THEN NewRows(b)[s] ELSE rows[s]]
          /\ nextSeq' = nextSeq + Len(b)
          /\ meta' = [meta EXCEPT !.chunks = @ + Len(b),
                                  !.readings = @ + Cardinality(QueuedIds(b))]
          /\ free' = Larger(free - Len(b), 0)
      BY <1>2, <2>2 DEF FlushInsert, NewSeq
    <3>2. /\ Len(b) \in Nat /\ Cardinality(QueuedIds(b)) \in Nat
          /\ \A i \in 1 .. Len(b) : b[i] \in Chunk /\ b[i].ids # {}
      BY <1>2, QueuedReadings DEF MemOK
    <3>3. /\ Pending' = Pending \cup nextSeq .. (nextSeq + Len(b) - 1)
          /\ rows' = [s \in Pending' |-> rows'[s]]
          /\ \A s \in Pending : rows'[s] = rows[s]
          /\ \A s \in nextSeq .. (nextSeq + Len(b) - 1) :
                 /\ s \notin Pending /\ s - nextSeq + 1 \in 1 .. Len(b)
                 /\ rows'[s] = b[s - nextSeq + 1]
      BY <1>2, <3>1, Inserted, Zenon
    <3>4. /\ nextSeq \in Nat \ {0} /\ Pending \subseteq 1 .. (nextSeq - 1)
          /\ rows \in [Pending -> Chunk] /\ free \in Nat
          /\ meta \in [chunks : Int, readings : Int, evicted : Int]
          /\ DOMAIN gone \subseteq 1 .. (nextSeq - 1)
          /\ \A s \in Pending : rows[s].ids # {}
          /\ DOMAIN gone \cap Pending = {}
      BY DEF DbOK
    <3> HIDE DEF b
    <3>5. meta' \in [chunks : Int, readings : Int, evicted : Int] /\ free' \in Nat
      <4> DEFINE n == Cardinality(QueuedIds(b))
      <4>1. /\ meta' = [meta EXCEPT !.chunks = @ + Len(b), !.readings = @ + n]
            /\ Len(b) \in Nat /\ n \in Nat
        BY <3>1, <3>2
      <4> HIDE DEF n
      <4>2. meta' \in [chunks : Int, readings : Int, evicted : Int]
        <5>1. meta \in MetaType
          BY DEF DbOK, MetaType
        <5>2. Len(b) \in Int /\ n \in Int
          BY <4>1
        <5>3. meta' \in MetaType
          BY <4>1, <5>1, <5>2, MetaAdds, Zenon
        <5> QED BY <5>3 DEF MetaType
      <4>3. free' \in Nat
        BY <3>1, <3>4, <4>1 DEF Larger
      <4> QED BY <4>2, <4>3
    <3>6. nextSeq' \in Nat \ {0} /\ nextSeq <= nextSeq'
      BY <3>1, <3>2, <3>4
    <3>7. ASSUME NEW s \in Pending' PROVE rows'[s] \in Chunk /\ rows'[s].ids # {}
      <4>1. CASE s \in Pending
        BY <3>3, <3>4, <4>1
      <4>2. CASE s \in nextSeq .. (nextSeq + Len(b) - 1)
        <5>1. s - nextSeq + 1 \in 1 .. Len(b) /\ rows'[s] = b[s - nextSeq + 1]
          BY <3>3, <4>2
        <5> QED BY <3>2, <5>1
      <4> QED BY <3>3, <4>1, <4>2
    <3>8. /\ 1 .. (nextSeq - 1) \subseteq 1 .. (nextSeq' - 1)
          /\ nextSeq .. (nextSeq + Len(b) - 1) \subseteq 1 .. (nextSeq' - 1)
      BY <3>1, <3>2, <3>4
    <3>9. Pending' \subseteq 1 .. (nextSeq' - 1) /\ DOMAIN gone' \subseteq 1 .. (nextSeq' - 1)
      BY <1>1, <3>3, <3>4, <3>8
    <3>10. DOMAIN gone' \cap Pending' = {}
      <4>1. \A s \in nextSeq .. (nextSeq + Len(b) - 1) : s \notin 1 .. (nextSeq - 1)
        BY <3>2, <3>4
      <4> QED BY <1>1, <3>3, <3>4, <4>1
    <3>11. rows' \in [Pending' -> Chunk]
      BY <3>3, <3>7
    <3>12. gone' = gone
      BY <1>1
    <3> QED BY <3>5, <3>6, <3>7, <3>9, <3>10, <3>11, <3>12 DEF DbOK
  <2> QED BY <2>1, <2>2
<1>6. PICK l \in {"written", "failed"} : Goto(p, l)
  BY DEF FlushInsert
<1>7. /\ ForwarderOK' /\ MaintOK' /\ RestOK'
      /\ pc'[p] = l /\ \A q \in Callers \ {p} : pc'[q] = pc[q]
  <2>1. l \in CallerLabels /\ nextSeq \in Nat
    BY DEF CallerLabels, Busy, DbOK
  <2> QED BY <1>1, <1>3, <1>5, <1>6, <2>1, OnlyCaller DEF localVars
<1>8. FlushOK'
  <2>1. l \in CallerLabels /\ l # "done" /\ pc[p] \in Busy
    BY <1>1 DEF CallerLabels, Busy
  <2>2. UNCHANGED <<batch, unflushed, up>> /\ batch \in [Callers -> Seq(Chunk)]
    BY <1>1 DEF localVars, memVars, restVars, FlushOK
  <2> QED BY <1>7, <2>1, <2>2, CallerMoves
<1> QED BY <1>4, <1>5, <1>7, <1>8

LEMMA FlushDoneShape == ASSUME Shape, NEW p \in Callers, FlushDone(p) PROVE Shape'
<1> USE DEF Shape
<1> DEFINE n == Cardinality(QueuedIds(unflushed))
           first == FirstTs(unflushed[1].ids)
           last == LastTs(QueuedIds(unflushed))
<1>1. /\ pc[p] = "written" /\ batch[p] = unflushed /\ unflushed # <<>>
      /\ unflushed \in Seq(Chunk)
  BY DEF FlushDone, FlushOK, MemOK, Busy
<1>2. /\ unflushed' = SubSeq(unflushed, Len(unflushed) + 1, Len(unflushed))
      /\ mem' = [mem EXCEPT !.chunks = @ + Len(unflushed), !.readings = @ + n,
                            !.oldest = IF @ = 0 THEN first ELSE @,
                            !.newest = Larger(@, last)]
      /\ batch' = [batch EXCEPT ![p] = <<>>] /\ Goto(p, AfterFlush(p))
      /\ UNCHANGED <<dbVars, buf, dropIds, msg, bad, delta, bounds, cut, passes,
                     restVars, faults>>
  BY <1>1 DEF FlushDone
<1>3. /\ QueuedIds(unflushed) \subseteq Readings /\ n \in Nat
      /\ unflushed[1].ids \subseteq Readings /\ unflushed[1].ids # {}
      /\ QueuedIds(unflushed) # {} /\ Len(unflushed) \in Nat
  <2>1. 1 \in 1 .. Len(unflushed) /\ DOMAIN unflushed = 1 .. Len(unflushed)
    BY <1>1
  <2>2. unflushed[1].ids # {} /\ unflushed[1].ids \subseteq QueuedIds(unflushed)
    BY <2>1 DEF MemOK, QueuedIds
  <2> QED BY <1>1, <2>1, <2>2, QueuedReadings
<1>4. first \in Nat /\ last \in Nat
  BY <1>3, ChunkTimes
<1>5. unflushed' = <<>>
  BY <1>2, <1>3, SubSeqNone
<1> HIDE DEF n, first, last
<1>6. mem' \in MemType
  <2>1. mem \in MemType
    BY DEF MemOK
  <2>2. Len(unflushed) \in Int /\ n \in Int
    BY <1>3
  <2> QED BY <1>2, <1>4, <2>1, <2>2, MemAdds, Zenon
<1>7. MemOK'
  BY <1>2, <1>5, <1>6 DEF MemOK
<1>8. DbOK' /\ DeleterOK'
  BY <1>2, DbStays, DeleterStays
<1>9. AfterFlush(p) \in {"idle", "done"} /\ (p = "flusher" => AfterFlush(p) # "done")
  BY DEF AfterFlush
<1>10. AfterFlush(p) \in CallerLabels /\ AfterFlush(p) \notin Busy /\ pc[p] \in Busy
  BY <1>1, <1>9 DEF CallerLabels, Busy
<1>11. /\ ForwarderOK' /\ MaintOK' /\ RestOK'
       /\ pc'[p] = AfterFlush(p) /\ \A q \in Callers \ {p} : pc'[q] = pc[q]
  <2>1. nextSeq \in Nat /\ nextSeq' = nextSeq /\ faults' \in 0 .. MaxFaults
    BY <1>2 DEF DbOK, RestOK, dbVars
  <2> QED BY <1>2, <1>10, <2>1, OnlyCaller
<1>12. FlushOK'
  <2>1. batch' \in [Callers -> Seq(Chunk)] /\ up' = up
    BY <1>2 DEF FlushOK, restVars
  <2> QED BY <1>9, <1>10, <1>11, <2>1, CallerMoves
<1> QED BY <1>7, <1>8, <1>11, <1>12

\* What a failed Flush gives up are the oldest chunks, what it keeps the rest.
LEMMA Dropped ==
    ASSUME unflushed \in Seq(Chunk)
    PROVE  /\ Overflow \in 0 .. Len(unflushed) /\ Len(unflushed) - Overflow <= MaxUnflushedChunks
           /\ LET drop == SubSeq(unflushed, 1, Overflow)
                  keep == SubSeq(unflushed, Overflow + 1, Len(unflushed))
              IN  /\ drop \in Seq(Chunk) /\ Len(drop) = Overflow
                  /\ \A i \in 1 .. Overflow : drop[i] = unflushed[i]
                  /\ keep \in Seq(Chunk) /\ Len(keep) = Len(unflushed) - Overflow
                  /\ \A i \in 1 .. Len(keep) : keep[i] = unflushed[Overflow + i]
<1>1. Overflow \in 0 .. Len(unflushed) /\ Len(unflushed) - Overflow <= MaxUnflushedChunks
  BY QueueAssumption DEF Overflow, Larger
<1>2. \A i \in 1 .. Len(unflushed) : unflushed[i] \in Chunk
  OBVIOUS
<1> DEFINE o == Overflow
           n == Len(unflushed)
<1>3. n \in Nat /\ o \in Nat /\ o <= n
  BY <1>1
<1> HIDE DEF o, n
<1>4. /\ SubSeq(unflushed, 1, o) \in Seq(Chunk) /\ Len(SubSeq(unflushed, 1, o)) = o
      /\ \A i \in 1 .. o : SubSeq(unflushed, 1, o)[i] = unflushed[i]
  <2>1. \A i \in 1 .. o : unflushed[i] \in Chunk
    BY <1>2, <1>3 DEF n
  <2> QED BY <1>3, <2>1, SubSeqIs
<1>5. /\ SubSeq(unflushed, o + 1, n) \in Seq(Chunk) /\ Len(SubSeq(unflushed, o + 1, n)) = n - o
      /\ \A i \in 1 .. (n - o) : SubSeq(unflushed, o + 1, n)[i] = unflushed[o + i]
  <2>1. \A i \in (o + 1) .. n : unflushed[i] \in Chunk
    BY <1>2, <1>3 DEF n
  <2>2. /\ SubSeq(unflushed, o + 1, n) \in Seq(Chunk)
        /\ Len(SubSeq(unflushed, o + 1, n)) = IF o + 1 <= n THEN n - (o + 1) + 1 ELSE 0
        /\ \A i \in 1 .. (n - (o + 1) + 1) :
              SubSeq(unflushed, o + 1, n)[i] = unflushed[(o + 1) + i - 1]
    BY <1>3, <2>1, SubSeqIs
  <2> QED BY <1>3, <2>2
<1> QED BY <1>1, <1>4, <1>5 DEF o, n

LEMMA FlushFailedShape == ASSUME Shape, NEW p \in Callers, FlushFailed(p) PROVE Shape'
<1> USE DEF Shape
<1> DEFINE drop == QueuedIds(SubSeq(unflushed, 1, Overflow))
           n == Cardinality(drop)
<1>1. unflushed \in Seq(Chunk) /\ pc[p] = "failed"
  BY DEF FlushFailed, MemOK
<1>2. /\ unflushed' = SubSeq(unflushed, Overflow + 1, Len(unflushed))
      /\ mem' = [mem EXCEPT !.dropped = @ + n] /\ dropIds' = dropIds \cup drop
      /\ batch' = [batch EXCEPT ![p] = <<>>] /\ Goto(p, AfterFlush(p))
      /\ UNCHANGED <<dbVars, buf, msg, bad, delta, bounds, cut, passes, restVars, faults>>
  BY DEF FlushFailed
<1>3. drop \subseteq Readings /\ n \in Nat
  BY <1>1, Dropped, QueuedReadings, Zenon
<1> HIDE DEF n, drop
<1>4. mem' \in MemType /\ dropIds' \subseteq Readings
  <2>1. mem \in MemType /\ dropIds \subseteq Readings
    BY DEF MemOK
  <2>2. mem' \in MemType
    BY <1>2, <1>3, <2>1, DropsAdd
  <2> QED BY <1>2, <1>3, <2>1, <2>2
<1>5. unflushed' \in Seq(Chunk) /\ \A i \in 1 .. Len(unflushed') : unflushed'[i].ids # {}
  <2>1. \A i \in 1 .. (Len(unflushed) - Overflow) : Overflow + i \in 1 .. Len(unflushed)
    BY <1>1, Dropped
  <2>2. /\ unflushed' \in Seq(Chunk) /\ Len(unflushed') = Len(unflushed) - Overflow
        /\ \A i \in 1 .. Len(unflushed') : unflushed'[i] = unflushed[Overflow + i]
    BY <1>1, <1>2, Dropped
  <2>3. \A i \in 1 .. Len(unflushed) : unflushed[i].ids # {}
    BY DEF MemOK
  <2>4. ASSUME NEW i \in 1 .. Len(unflushed') PROVE unflushed'[i].ids # {}
    <3>1. Overflow + i \in 1 .. Len(unflushed) /\ unflushed'[i] = unflushed[Overflow + i]
      BY <2>1, <2>2
    <3> QED BY <2>3, <3>1
  <2> QED BY <2>2, <2>4
<1>6. MemOK'
  BY <1>2, <1>4, <1>5 DEF MemOK
<1>7. DbOK' /\ DeleterOK'
  BY <1>2, DbStays, DeleterStays
<1>8. AfterFlush(p) \in {"idle", "done"} /\ (p = "flusher" => AfterFlush(p) # "done")
  BY DEF AfterFlush
<1>9. AfterFlush(p) \in CallerLabels /\ AfterFlush(p) \notin Busy /\ pc[p] \in Busy
  BY <1>1, <1>8 DEF CallerLabels, Busy
<1>10. /\ ForwarderOK' /\ MaintOK' /\ RestOK'
       /\ pc'[p] = AfterFlush(p) /\ \A q \in Callers \ {p} : pc'[q] = pc[q]
  <2>1. nextSeq \in Nat /\ nextSeq' = nextSeq /\ faults' \in 0 .. MaxFaults
    BY <1>2 DEF DbOK, RestOK, dbVars
  <2> QED BY <1>2, <1>9, <2>1, OnlyCaller
<1>11. FlushOK'
  <2>1. batch' \in [Callers -> Seq(Chunk)] /\ up' = up
    BY <1>2 DEF FlushOK, restVars
  <2> QED BY <1>8, <1>9, <1>10, <2>1, CallerMoves
<1> QED BY <1>6, <1>7, <1>10, <1>11
-----------------------------------------------------------------------------
\* A deletion of the rows S, and what it leaves in each table.
LEMMA Deleted ==
    ASSUME DbOK, NEW S \in SUBSET Pending,
           NEW why \in {"acked", "evicted", "discarded"}, DeleteRows(S, why)
    PROVE  /\ DbOK' /\ nextSeq' = nextSeq
           /\ Pending' = Pending \ S /\ \A s \in Pending' : rows'[s] = rows[s]
           /\ DOMAIN gone' = DOMAIN gone \cup S
           /\ \A s \in S : gone'[s].ids = rows[s].ids /\ gone'[s].why = why
           /\ \A s \in DOMAIN gone : s \notin S /\ gone'[s] = gone[s]
           /\ meta'.chunks = meta.chunks - Cardinality(S)
           /\ meta'.readings = meta.readings - Cardinality(Ids(S))
           /\ meta'.evicted = IF why = "evicted" THEN meta.evicted + Cardinality(Ids(S))
                              ELSE meta.evicted
<1> DEFINE c == Cardinality(S)
           r == Cardinality(Ids(S))
           G == [ids : SUBSET Readings, why : {"acked", "evicted", "discarded"}]
<1>1. c \in Nat /\ r \in Nat
  BY RowSets
<1>2. /\ nextSeq \in Nat \ {0} /\ Pending \subseteq 1 .. (nextSeq - 1)
      /\ rows \in [Pending -> Chunk] /\ free \in Nat /\ meta \in MetaType
      /\ DOMAIN gone \subseteq 1 .. (nextSeq - 1) /\ gone \in [DOMAIN gone -> G]
      /\ \A s \in Pending : rows[s].ids # {}
      /\ DOMAIN gone \cap Pending = {}
  BY DEF DbOK, MetaType
<1>3. /\ rows' = [s \in Pending \ S |-> rows[s]]
      /\ gone' = [s \in DOMAIN gone \cup S |->
                     IF s \in S THEN [ids |-> rows[s].ids, why |-> why] ELSE gone[s]]
      /\ free' = free + c
      /\ meta' = [meta EXCEPT !.chunks = @ - c, !.readings = @ - r,
                              !.evicted = IF why = "evicted" THEN @ + r ELSE @]
      /\ nextSeq' = nextSeq
  BY DEF DeleteRows
<1> HIDE DEF c, r
<1>4. /\ Pending' = Pending \ S /\ rows' \in [Pending' -> Chunk]
      /\ \A s \in Pending' : rows'[s] = rows[s]
  BY <1>2, <1>3 DEF Pending
<1>5. /\ DOMAIN gone' = DOMAIN gone \cup S
      /\ \A s \in S : gone'[s].ids = rows[s].ids /\ gone'[s].why = why
      /\ \A s \in DOMAIN gone : s \notin S /\ gone'[s] = gone[s]
  BY <1>2, <1>3
<1>6. gone' \in [DOMAIN gone' -> G]
  <2>1. \A s \in S : [ids |-> rows[s].ids, why |-> why] \in G
    BY <1>2 DEF Chunk
  <2> HIDE DEF G
  <2> QED BY <1>2, <1>3, <1>5, <2>1
<1>7. /\ meta'.chunks = meta.chunks - c /\ meta'.readings = meta.readings - r
      /\ meta'.evicted = IF why = "evicted" THEN meta.evicted + r ELSE meta.evicted
      /\ DOMAIN meta' = MetaFields /\ meta' = [f \in DOMAIN meta' |-> meta'[f]]
  BY <1>2, <1>3, Zenon DEF MetaType, MetaFields
<1>8. meta.chunks \in Int /\ meta.readings \in Int /\ meta.evicted \in Int
  BY <1>2 DEF MetaType
<1>9. meta'.chunks \in Int /\ meta'.readings \in Int /\ meta'.evicted \in Int
  BY <1>1, <1>7, <1>8
<1>10. meta' \in [chunks : Int, readings : Int, evicted : Int]
  BY <1>7, <1>9 DEF MetaFields
<1>11. DOMAIN gone' \cap Pending' = {} /\ DOMAIN gone' \subseteq 1 .. (nextSeq' - 1)
       /\ Pending' \subseteq 1 .. (nextSeq' - 1)
  BY <1>2, <1>3, <1>4, <1>5
<1>12. free' \in Nat
  BY <1>1, <1>2, <1>3
<1>13. DbOK'
  BY <1>2, <1>3, <1>4, <1>6, <1>10, <1>11, <1>12 DEF DbOK
<1> QED BY <1>3, <1>4, <1>5, <1>7, <1>13 DEF c, r

\* What a deletion leaves for its caller to take off, and what taking it off does.
LEMMA DeltaKept ==
    ASSUME DeleterOK, NEW p \in Deleters, NEW c \in Nat, NEW r \in Nat,
           delta' = [delta EXCEPT ![p] = [chunks |-> c, readings |-> r]]
    PROVE  /\ delta' \in [Deleters -> [chunks : Nat, readings : Nat]]
           /\ delta'[p].chunks = c /\ delta'[p].readings = r
           /\ \A q \in Deleters \ {p} : delta'[q] = delta[q]
BY DEF DeleterOK

LEMMA TakenOff ==
    ASSUME MemOK, DeleterOK, NEW p \in Deleters, NEW evict \in BOOLEAN, NEW drop \in BOOLEAN,
           TakeOff(p, evict, drop)
    PROVE  /\ mem' \in MemType
           /\ delta' \in [Deleters -> [chunks : Nat, readings : Nat]]
           /\ mem'.chunks = mem.chunks - delta[p].chunks
           /\ mem'.readings = mem.readings - delta[p].readings
           /\ mem'.evicted = mem.evicted + (IF evict THEN delta[p].readings ELSE 0)
           /\ mem'.dropped = mem.dropped + (IF drop THEN delta[p].readings ELSE 0)
           /\ delta'[p].chunks = 0 /\ delta'[p].readings = 0
           /\ \A q \in Deleters \ {p} : delta'[q] = delta[q]
<1> DEFINE c == delta[p].chunks
           r == delta[p].readings
           e == IF evict THEN r ELSE 0
           d == IF drop THEN r ELSE 0
<1>1. c \in Nat /\ r \in Nat
  BY DEF DeleterOK
<1>2. /\ mem' = [mem EXCEPT !.chunks = @ - c, !.readings = @ - r,
                            !.evicted = @ + e, !.dropped = @ + d]
      /\ delta' = [delta EXCEPT ![p] = [chunks |-> 0, readings |-> 0]]
  BY DEF TakeOff
<1> HIDE DEF c, r
<1>3. e \in Int /\ d \in Int
  BY <1>1
<1> HIDE DEF e, d
<1>4. /\ mem'.chunks = mem.chunks - c /\ mem'.readings = mem.readings - r
      /\ mem'.evicted = mem.evicted + e /\ mem'.dropped = mem.dropped + d
      /\ mem'.oldest = mem.oldest /\ mem'.newest = mem.newest /\ mem'.pages = mem.pages
      /\ DOMAIN mem' = MemFields /\ mem' = [f \in DOMAIN mem' |-> mem'[f]]
  BY <1>2, Zenon DEF MemOK, MemType, MemFields, MetaFields
<1>5. /\ mem.chunks \in Int /\ mem.readings \in Int /\ mem.evicted \in Int
      /\ mem.dropped \in Int /\ mem.oldest \in Nat /\ mem.newest \in Nat /\ mem.pages \in Nat
  BY DEF MemOK, MemType
<1>6. /\ mem'.chunks \in Int /\ mem'.readings \in Int /\ mem'.evicted \in Int
      /\ mem'.dropped \in Int /\ mem'.oldest \in Nat /\ mem'.newest \in Nat
      /\ mem'.pages \in Nat
  BY <1>1, <1>3, <1>4, <1>5
<1>7. mem' \in MemType
  BY <1>4, <1>6 DEF MemType, MemFields, MetaFields
<1> QED BY <1>2, <1>4, <1>7, DeltaKept, Zenon DEF c, r, e, d

LEMMA RefreshShape == ASSUME Shape, NEW p \in Deleters, RefreshBounds(p) PROVE Shape'
<1> USE DEF Shape
<1>1. /\ UNCHANGED <<dbVars, buf, unflushed, dropIds, batch, msg, bad, delta, cut, passes,
                     restVars>>
      /\ faults' \in 0 .. MaxFaults
  BY FaultsCounted DEF RefreshBounds, ReadOldest, ReadNewest, SetBounds, memVars, RestOK
<1>2. bounds' \in [Deleters -> [oldest : Nat, newest : Nat]]
  <2>1. bounds \in [Deleters -> [oldest : Nat, newest : Nat]]
    BY DEF DeleterOK
  <2>2. CASE ReadOldest(p)
    BY <2>1, <2>2, RowTimes DEF ReadOldest
  <2>3. CASE ReadNewest(p)
    BY <2>1, <2>3, RowTimes DEF ReadNewest
  <2>4. CASE SetBounds(p)
    BY <2>1, <2>4 DEF SetBounds
  <2> QED BY <2>2, <2>3, <2>4 DEF RefreshBounds
<1>3. mem' \in MemType
  <2>1. CASE mem' = mem
    BY <2>1 DEF MemOK
  <2>2. CASE SetBounds(p)
    <3> DEFINE o == bounds[p].oldest
               w == bounds[p].newest
    <3>1. o \in Nat /\ w \in Nat
      BY DEF DeleterOK
    <3>2. mem' = [mem EXCEPT !.oldest = o, !.newest = w]
      BY <2>2 DEF SetBounds
    <3> HIDE DEF o, w
    <3>3. mem' = [[mem EXCEPT !.oldest = o] EXCEPT !.newest = w]
      BY <3>2
    <3>4. [mem EXCEPT !.oldest = o] \in MemType
      BY <3>1 DEF MemOK, MemType
    <3> QED BY <3>1, <3>3, <3>4, Zenon DEF MemType
  <2> QED BY <2>1, <2>2 DEF RefreshBounds, ReadOldest, ReadNewest, memVars
<1>4. DbOK' /\ MemOK' /\ DeleterOK'
  BY <1>1, <1>2, <1>3, DbStays DEF MemOK, DeleterOK
<1>5. PICK l \in {"newest", "bounds", AfterBounds(p)} : Goto(p, l)
  BY DEF RefreshBounds, ReadOldest, ReadNewest, SetBounds
<1>6. UNCHANGED nextSeq
  BY <1>1 DEF dbVars
<1>7. CASE p = "maint"
  <2>1. l \in MaintLabels /\ l \notin EvictLabels
    BY <1>7 DEF AfterBounds, MaintLabels, EvictLabels
  <2>2. FlushOK' /\ ForwarderOK' /\ RestOK' /\ pc'["maint"] = l
    BY <1>1, <1>5, <1>6, <1>7, <2>1, OnlyMaint
  <2>3. MaintOK'
    BY <1>1, <2>1, <2>2 DEF MaintOK
  <2> QED BY <1>4, <2>2, <2>3
<1>8. CASE p = "forwarder"
  <2>1. AfterBounds(p) = IF bad # {} THEN "discard" ELSE IF msg.seqs # {} THEN "send" ELSE "idle"
    BY <1>8 DEF AfterBounds, AfterRead
  <2>2. l \in ForwarderLabels
    BY <2>1 DEF ForwarderLabels
  <2>3. FlushOK' /\ MaintOK' /\ RestOK' /\ pc'["forwarder"] = l
    <3>1. sent' \subseteq Readings
      BY <1>1 DEF restVars, RestOK
    <3> QED BY <1>1, <1>5, <1>8, <2>2, <3>1, OnlyForwarder DEF restVars
  <2>4. ForwarderOK'
    BY <1>1, <1>6, <2>1, <2>2, <2>3 DEF ForwarderOK
  <2> QED BY <1>4, <2>3, <2>4
<1> QED BY <1>7, <1>8 DEF Deleters

\* ReadBatch takes rows of the table.
LEMMA ReadBatchShape == ASSUME Shape, ReadBatch PROVE Shape'
<1> USE DEF Shape
<1>1. /\ UNCHANGED <<dbVars, memVars, batch, delta, bounds, cut, passes, restVars>>
      /\ faults' \in 0 .. MaxFaults
  BY FaultsCounted DEF ReadBatch
<1>2. DbOK' /\ MemOK' /\ DeleterOK'
  BY <1>1, DbStays, MemStays, DeleterStays
<1> DEFINE good == {s \in Scanned : rows[s].ok}
<1>3. CASE UNCHANGED <<msg, bad, pc>>
  BY <1>1, <1>2, <1>3, FlushStays, MaintStays, RestStays
     DEF memVars, restVars, dbVars, ForwarderOK, RestOK
<1>4. CASE /\ msg' = [seqs |-> good, ids |-> Ids(good)] /\ bad' = Scanned \ good
           /\ Goto("forwarder", AfterRead(bad', msg'))
  <2>1. good \subseteq Scanned /\ Scanned \subseteq Pending
    BY DEF Scanned
  <2>2. Ids(good) \subseteq Readings
    BY <2>1, RowSets
  <2> HIDE DEF good
  <2> DEFINE l == AfterRead(bad', msg')
  <2>3. l \in ForwarderLabels /\ Goto("forwarder", l)
    BY <1>4 DEF ForwarderLabels, AfterRead
  <2>4. FlushOK' /\ MaintOK' /\ RestOK' /\ pc'["forwarder"] = l
    <3>1. sent' \subseteq Readings
      BY <1>1 DEF restVars, RestOK
    <3> QED BY <1>1, <2>3, <3>1, OnlyForwarder DEF restVars, memVars
  <2>5. Pending \subseteq 1 .. (nextSeq' - 1)
    BY <1>1 DEF dbVars, DbOK
  <2>6. /\ msg' \in [seqs : SUBSET (1 .. (nextSeq' - 1)), ids : SUBSET Readings]
        /\ msg'.seqs = good /\ bad' = Scanned \ good /\ bad' \subseteq 1 .. (nextSeq' - 1)
    BY <1>4, <2>1, <2>2, <2>5
  <2>7. ForwarderOK'
    BY <2>1, <2>3, <2>4, <2>6, Zenon DEF ForwarderOK, AfterRead
  <2> QED BY <1>2, <2>4, <2>7
<1> QED BY <1>3, <1>4 DEF ReadBatch

LEMMA DiscardShape == ASSUME Shape, Discard PROVE Shape'
<1> USE DEF Shape
<1> DEFINE s == Min(bad)
<1>1. /\ pc["forwarder"] = "discard"
      /\ UNCHANGED <<buf, unflushed, mem, batch, bounds, cut, passes, restVars>>
      /\ faults' \in 0 .. MaxFaults
  BY FaultsCounted, Zenon DEF Discard
<1>2. sent' \subseteq Readings
  BY <1>1 DEF restVars, RestOK
<1>3. /\ bad # {} /\ bad \subseteq 1 .. (nextSeq - 1)
      /\ msg \in [seqs : SUBSET (1 .. (nextSeq - 1)), ids : SUBSET Readings]
  BY <1>1 DEF ForwarderOK
<1>4. CASE s \notin Pending /\ UNCHANGED <<dbVars, delta, dropIds, msg>> /\ bad' = bad \ {s}
           /\ Goto("forwarder", AfterRead(bad', msg))
  <2> HIDE DEF s
  <2> DEFINE l == AfterRead(bad', msg)
  <2>2. l \in ForwarderLabels /\ Goto("forwarder", l)
    BY <1>4 DEF ForwarderLabels, AfterRead
  <2>3. FlushOK' /\ MaintOK' /\ RestOK' /\ pc'["forwarder"] = l
    BY <1>1, <1>2, <2>2, OnlyForwarder, Zenon DEF restVars
  <2>4. DbOK' /\ MemOK' /\ DeleterOK' /\ nextSeq' = nextSeq
    BY <1>1, <1>4, DbStays DEF MemOK, DeleterOK, dbVars
  <2>7. ForwarderOK'
    BY <1>3, <1>4, <2>2, <2>3, <2>4, Zenon DEF ForwarderOK, AfterRead
  <2> QED BY <2>3, <2>4, <2>7
<1>5. CASE /\ s \in Pending /\ DeleteRows({s}, "discarded")
           /\ delta' = [delta EXCEPT !["forwarder"] =
                           [chunks |-> 1, readings |-> Cardinality(rows[s].ids)]]
           /\ dropIds' = dropIds \cup rows[s].ids /\ bad' = bad \ {s}
           /\ Goto("forwarder", "discarded") /\ UNCHANGED msg
  <2> HIDE DEF s
  <2>1. DbOK' /\ nextSeq' = nextSeq
    BY <1>5, Deleted, Zenon
  <2>2. rows[s].ids \subseteq Readings
    BY <1>5 DEF DbOK, Chunk
  <2>3. Cardinality(rows[s].ids) \in Nat
    BY <2>2, ReadingSets
  <2>4. DeleterOK'
    BY <1>1, <1>5, <2>3, DeltaKept, Processes, Zenon DEF DeleterOK
  <2>5. MemOK'
    BY <1>1, <1>5, <2>2, Zenon DEF MemOK
  <2>6. "discarded" \in ForwarderLabels
    BY DEF ForwarderLabels
  <2>7. FlushOK' /\ MaintOK' /\ RestOK' /\ pc'["forwarder"] = "discarded"
    BY <1>1, <1>2, <1>5, <2>6, OnlyForwarder, Zenon DEF restVars
  <2>8. ForwarderOK'
    BY <1>3, <1>5, <2>1, <2>6, <2>7, Zenon DEF ForwarderOK
  <2> QED BY <2>1, <2>4, <2>5, <2>7, <2>8
<1>6. CASE Abandon /\ UNCHANGED <<dbVars, delta, dropIds>>
  <2>1. "idle" \in ForwarderLabels
    BY DEF ForwarderLabels
  <2>2. FlushOK' /\ MaintOK' /\ RestOK' /\ pc'["forwarder"] = "idle"
    BY <1>1, <1>2, <1>6, <2>1, OnlyForwarder, Zenon DEF restVars, Abandon
  <2>3. DbOK' /\ MemOK' /\ DeleterOK' /\ nextSeq' = nextSeq
    BY <1>1, <1>6, DbStays DEF MemOK, DeleterOK, dbVars
  <2>4. ForwarderOK'
    BY <1>6, <2>1, <2>2 DEF ForwarderOK, Abandon, NoMsg
  <2> QED BY <2>2, <2>3, <2>4
<1> QED BY <1>4, <1>5, <1>6, Zenon DEF Discard

LEMMA CountShape == ASSUME Shape, DiscardCount \/ AckCount PROVE Shape'
<1> USE DEF Shape
<1>1. PICK drop \in BOOLEAN : TakeOff("forwarder", FALSE, drop)
  BY Zenon DEF DiscardCount, AckCount
<1>2. /\ Goto("forwarder", "oldest") /\ pc["forwarder"] \in {"discarded", "acked"}
      /\ UNCHANGED <<dbVars, buf, unflushed, dropIds, batch, msg, bad, bounds, cut,
                     passes, restVars, faults>>
  BY Zenon DEF DiscardCount, AckCount
<1>3. mem' \in MemType /\ delta' \in [Deleters -> [chunks : Nat, readings : Nat]]
  BY <1>1, TakenOff, Processes, Zenon
<1>4. DbOK' /\ MemOK' /\ DeleterOK' /\ nextSeq' = nextSeq
  BY <1>2, <1>3, DbStays DEF MemOK, DeleterOK, dbVars
<1>5. "oldest" \in ForwarderLabels /\ sent' \subseteq Readings /\ faults' \in 0 .. MaxFaults
  BY <1>2 DEF ForwarderLabels, RestOK, restVars
<1>6. FlushOK' /\ MaintOK' /\ RestOK' /\ pc'["forwarder"] = "oldest"
  BY <1>2, <1>5, OnlyForwarder DEF restVars
<1>7. ForwarderOK'
  BY <1>2, <1>4, <1>5, <1>6 DEF ForwarderOK
<1> QED BY <1>4, <1>6, <1>7

LEMMA SendShape == ASSUME Shape, Send PROVE Shape'
<1> USE DEF Shape
<1>1. /\ pc["forwarder"] = "send"
      /\ UNCHANGED <<dbVars, memVars, batch, bad, delta, bounds, cut, passes, up,
                     appended, lost, unread, stops, faults>>
  BY DEF Send
<1>2. DbOK' /\ MemOK' /\ DeleterOK' /\ nextSeq' = nextSeq
  BY <1>1, DbStays, MemStays, DeleterStays DEF dbVars
<1>3. /\ msg \in [seqs : SUBSET (1 .. (nextSeq - 1)), ids : SUBSET Readings]
      /\ sent \subseteq Readings /\ msg.ids \subseteq Readings
      /\ bad = {} /\ msg.seqs # {} /\ faults \in 0 .. MaxFaults
  BY <1>1 DEF ForwarderOK, RestOK
<1>4. PICK l \in {"idle", "ack"} :
        /\ Goto("forwarder", l) /\ sent' \subseteq Readings
        /\ msg' = NoMsg \/ msg' = msg
        /\ l = "ack" => msg' = msg
  BY <1>3 DEF Send
<1>5. l \in ForwarderLabels
  BY DEF ForwarderLabels
<1>6. FlushOK' /\ MaintOK' /\ RestOK' /\ pc'["forwarder"] = l
  BY <1>1, <1>3, <1>4, <1>5, OnlyForwarder DEF memVars
<1>7. msg' \in [seqs : SUBSET (1 .. (nextSeq' - 1)), ids : SUBSET Readings]
  BY <1>2, <1>3, <1>4 DEF NoMsg
<1>8. ForwarderOK'
  BY <1>1, <1>3, <1>4, <1>5, <1>6, <1>7 DEF ForwarderOK
<1> QED BY <1>2, <1>6, <1>8

LEMMA AckShape == ASSUME Shape, Ack PROVE Shape'
<1> USE DEF Shape
<1>1. /\ pc["forwarder"] = "ack" /\ msg' = NoMsg
      /\ UNCHANGED <<memVars, batch, bad, bounds, cut, passes, restVars>>
      /\ faults' \in 0 .. MaxFaults
  BY FaultsCounted DEF Ack
<1>2. PICK l \in {"idle", "acked"} : Goto("forwarder", l)
  BY DEF Ack
<1>3. DbOK' /\ DeleterOK'
  <2>1. CASE UNCHANGED <<dbVars, delta>>
    BY <1>1, <2>1, DbStays, DeleterStays
  <2>2. CASE DeleteThrough("forwarder", Max(msg.seqs), "acked")
    <3> DEFINE S == {t \in Pending : t <= Max(msg.seqs)}
    <3>1. S \subseteq Pending /\ Cardinality(S) \in Nat /\ Cardinality(Ids(S)) \in Nat
      BY RowSets
    <3>2. /\ DeleteRows(S, "acked")
          /\ delta' = [delta EXCEPT !["forwarder"] =
                          [chunks |-> Cardinality(S), readings |-> Cardinality(Ids(S))]]
      BY <2>2, Zenon DEF DeleteThrough
    <3> HIDE DEF S
    <3>3. DbOK'
      BY <3>1, <3>2, Deleted, Zenon
    <3> QED BY <1>1, <3>1, <3>2, <3>3, DeltaKept, Processes DEF DeleterOK
  <2> QED BY <2>1, <2>2 DEF Ack
<1>4. MemOK'
  BY <1>1, MemStays
<1>5. l \in ForwarderLabels /\ sent' \subseteq Readings
  BY <1>1 DEF ForwarderLabels, RestOK, restVars
<1>6. FlushOK' /\ MaintOK' /\ RestOK' /\ pc'["forwarder"] = l
  BY <1>1, <1>2, <1>5, OnlyForwarder DEF memVars, restVars
<1>7. bad' = {}
  BY <1>1, Zenon DEF ForwarderOK
<1>8. ForwarderOK'
  BY <1>1, <1>2, <1>5, <1>6, <1>7 DEF ForwarderOK, NoMsg
<1> QED BY <1>3, <1>4, <1>6, <1>8
-----------------------------------------------------------------------------
\* Maintenance.
LEMMA QuietMaintShape ==
    ASSUME Shape, UNCHANGED <<memVars, batch, msg, bad, delta, bounds, restVars>>,
           DbOK', nextSeq' = nextSeq, faults' \in 0 .. MaxFaults,
           NEW l \in MaintLabels, Goto("maint", l),
           cut' \in Nat, passes' \in 0 .. MaxEvictPasses,
           l \in EvictLabels => passes' < MaxEvictPasses
    PROVE  Shape'
<1> USE DEF Shape
<1>1. MemOK' /\ DeleterOK'
  BY MemStays, DeleterStays
<1>2. FlushOK' /\ ForwarderOK' /\ RestOK' /\ pc'["maint"] = l
  BY OnlyMaint DEF memVars
<1>3. MaintOK'
  BY <1>2 DEF MaintOK
<1> QED BY <1>1, <1>2, <1>3

\* evictOnce's estimate is a number of chunks.
LEMMA EvictCountType ==
    ASSUME mem \in MemType, NEW e \in Nat, mem.chunks > 0
    PROVE  EvictCount(e) \in Nat
<1> DEFINE b == Larger(mem.pages, 1)
           a == e * mem.chunks
           q == CeilDiv(a, b)
<1>1. mem.chunks \in Nat /\ mem.pages \in Nat
  BY DEF MemType
<1>2. b \in Nat /\ b > 0
  BY <1>1 DEF Larger
<1>3. a \in Nat
  BY <1>1
<1> HIDE DEF a, b
<1>4. q \in Nat
  <2>1. (a + b - 1) \in Nat
    BY <1>2, <1>3
  <2> DEFINE n == a + b - 1
  <2> HIDE DEF n
  <2>2. n \div b \in Nat
    BY <1>2, <2>1 DEF n
  <2> QED BY <2>2 DEF CeilDiv, n
<1> HIDE DEF q
<1>5. EvictCount(e) = Least(Least(q + 1, MaxEvictChunks), mem.chunks)
  BY DEF EvictCount, q, a, b
<1> QED BY <1>1, <1>4, <1>5, QueueAssumption DEF Least

LEMMA MaintShape == ASSUME Shape, Maintain, ~RefreshBounds("maint") PROVE Shape'
<1> USE DEF Shape
<1>1. /\ cut \in Nat /\ passes \in 0 .. MaxEvictPasses /\ MaxEvictPasses \in Nat
      /\ MaxEvictPasses > 0 /\ faults \in 0 .. MaxFaults
      /\ pc["maint"] \in EvictLabels => passes < MaxEvictPasses
  BY QueueAssumption DEF MaintOK, RestOK
<1>2. CASE MaintStart
  <2>1. "vacuum" \in MaintLabels /\ "vacuum" \notin EvictLabels
    BY DEF MaintLabels, EvictLabels
  <2>2. DbOK' /\ nextSeq' = nextSeq
    BY <1>2, DbStays DEF MaintStart, dbVars
  <2> QED BY <1>1, <1>2, <2>1, <2>2, QuietMaintShape DEF MaintStart
<1>3. CASE Vacuum
  <2>1. "measure" \in MaintLabels /\ "measure" \notin EvictLabels
    BY DEF MaintLabels, EvictLabels
  <2>2. faults' \in 0 .. MaxFaults
    BY <1>3, FaultsCounted DEF Vacuum
  <2>3. DbOK' /\ nextSeq' = nextSeq
    <3>1. UNCHANGED <<rows, nextSeq, meta, gone>> /\ (free' = 0 \/ free' = free)
      BY <1>3 DEF Vacuum
    <3> QED BY <3>1 DEF DbOK, Pending
  <2> QED BY <1>1, <1>3, <2>1, <2>2, <2>3, QuietMaintShape DEF Vacuum, localVars
<1>4. CASE Measure
  <2> DEFINE l == IF passes < MaxEvictPasses THEN "evict" ELSE "idle"
             n == Cardinality(Pending) + free
  <2>1. /\ UNCHANGED <<dbVars, buf, unflushed, dropIds, localVars, restVars>>
        /\ Goto("maint", l) /\ faults' \in 0 .. MaxFaults
    BY <1>4, FaultsCounted DEF Measure
  <2>2. l \in MaintLabels /\ (l \in EvictLabels => passes < MaxEvictPasses)
    BY DEF MaintLabels, EvictLabels
  <2>3. n \in Nat
    <3>1. Cardinality(Pending) \in Nat
      BY RowSets
    <3> QED BY <3>1 DEF DbOK
  <2>4. mem' = mem \/ mem' = [mem EXCEPT !.pages = n]
    BY <1>4 DEF Measure
  <2> HIDE DEF n, l
  <2>5. MemOK'
    BY <2>1, <2>3, <2>4, Zenon DEF MemOK, MemType
  <2>6. DbOK' /\ DeleterOK' /\ nextSeq' = nextSeq
    BY <2>1, DbStays, DeleterStays DEF localVars, dbVars
  <2>7. FlushOK' /\ ForwarderOK' /\ RestOK' /\ pc'["maint"] = l
    BY <2>1, <2>2, <2>6, OnlyMaint DEF localVars
  <2>8. MaintOK'
    BY <1>1, <2>1, <2>2, <2>7 DEF MaintOK, localVars
  <2> QED BY <2>5, <2>6, <2>7, <2>8
<1>5. CASE EvictEstimate
  <2>1. /\ UNCHANGED <<dbVars, memVars, batch, msg, bad, delta, bounds, passes, restVars,
                       faults>>
        /\ pc["maint"] = "evict"
    BY <1>5 DEF EvictEstimate
  <2>2. PICK d \in DiskExcess :
           LET e == Larger(mem.pages - MaxPages, d) IN
           IF e > 0 /\ mem.chunks > 0
           THEN cut' = EvictCount(e) /\ Goto("maint", "cut")
           ELSE cut' = 0 /\ Goto("maint", "idle")
    BY <1>5 DEF EvictEstimate
  <2> DEFINE e == Larger(mem.pages - MaxPages, d)
  <2>3. mem \in MemType /\ e \in Nat
    <3>1. mem \in MemType /\ mem.pages \in Nat /\ d \in Nat /\ MaxPages \in Nat
      BY QueueAssumption DEF MemOK, MemType
    <3> QED BY <3>1 DEF Larger
  <2>4. PICK l \in {"cut", "idle"} : Goto("maint", l) /\ cut' \in Nat
    <3>1. CASE e > 0 /\ mem.chunks > 0
      BY <2>2, <2>3, <3>1, EvictCountType
    <3>2. CASE ~(e > 0 /\ mem.chunks > 0)
      BY <2>2, <3>2
    <3> QED BY <3>1, <3>2
  <2>5. l \in MaintLabels /\ passes < MaxEvictPasses
    BY <1>1, <2>1 DEF MaintLabels, EvictLabels
  <2>6. DbOK' /\ nextSeq' = nextSeq
    BY <2>1, DbStays DEF dbVars
  <2> QED BY <1>1, <2>1, <2>4, <2>5, <2>6, QuietMaintShape
<1>6. CASE EvictCut
  <2>1. /\ UNCHANGED <<dbVars, memVars, batch, msg, bad, delta, bounds, passes, restVars>>
        /\ pc["maint"] = "cut" /\ faults' \in 0 .. MaxFaults
    BY <1>6, FaultsCounted DEF EvictCut
  <2>2. PICK l \in {"delete", "idle"} : Goto("maint", l) /\ (cut' = 0 \/ cut' \in Pending)
    BY <1>6 DEF EvictCut
  <2>3. cut' \in Nat
    BY <2>2 DEF DbOK
  <2>4. l \in MaintLabels /\ passes < MaxEvictPasses
    BY <1>1, <2>1 DEF MaintLabels, EvictLabels
  <2>5. DbOK' /\ nextSeq' = nextSeq
    BY <2>1, DbStays DEF dbVars
  <2> QED BY <1>1, <2>1, <2>2, <2>3, <2>4, <2>5, QuietMaintShape
<1>7. CASE EvictDelete
  <2>1. /\ UNCHANGED <<memVars, batch, msg, bad, bounds, passes, restVars>>
        /\ pc["maint"] = "delete" /\ cut' = 0 /\ faults' \in 0 .. MaxFaults
    BY <1>7, FaultsCounted DEF EvictDelete
  <2>2. PICK l \in {"evicted", "idle"} : Goto("maint", l)
    BY <1>7 DEF EvictDelete
  <2>3. DbOK' /\ DeleterOK' /\ nextSeq' = nextSeq
    <3>1. CASE UNCHANGED <<dbVars, delta>>
      BY <2>1, <3>1, DbStays, DeleterStays, Zenon DEF dbVars
    <3>2. CASE DeleteThrough("maint", cut, "evicted")
      <4> DEFINE S == {t \in Pending : t <= cut}
      <4>1. S \subseteq Pending /\ Cardinality(S) \in Nat /\ Cardinality(Ids(S)) \in Nat
        BY RowSets
      <4>2. /\ DeleteRows(S, "evicted")
            /\ delta' = [delta EXCEPT !["maint"] =
                            [chunks |-> Cardinality(S), readings |-> Cardinality(Ids(S))]]
        BY <3>2, Zenon DEF DeleteThrough
      <4> HIDE DEF S
      <4>3. DbOK' /\ nextSeq' = nextSeq
        BY <4>1, <4>2, Deleted, Zenon
      <4> QED BY <2>1, <4>1, <4>2, <4>3, DeltaKept, Processes DEF DeleterOK
    <3> QED BY <1>7, <3>1, <3>2 DEF EvictDelete
  <2>4. MemOK'
    BY <2>1, MemStays
  <2>5. l \in MaintLabels /\ passes < MaxEvictPasses
    BY <1>1, <2>1 DEF MaintLabels, EvictLabels
  <2>6. FlushOK' /\ ForwarderOK' /\ RestOK' /\ pc'["maint"] = l
    BY <2>1, <2>2, <2>3, <2>5, OnlyMaint, Zenon DEF memVars
  <2>7. MaintOK'
    BY <1>1, <2>1, <2>5, <2>6 DEF MaintOK
  <2> QED BY <2>3, <2>4, <2>6, <2>7
<1>8. CASE EvictTally
  <2>1. /\ UNCHANGED <<dbVars, buf, unflushed, dropIds, batch, msg, bad, bounds, cut,
                       restVars, faults>>
        /\ pc["maint"] = "evicted" /\ Goto("maint", "oldest") /\ TakeOff("maint", TRUE, FALSE)
        /\ passes' \in {MaxEvictPasses, passes + 1}
    BY <1>8, Zenon DEF EvictTally
  <2>2. mem' \in MemType /\ delta' \in [Deleters -> [chunks : Nat, readings : Nat]]
    BY <2>1, TakenOff, Processes, Zenon
  <2>3. DbOK' /\ MemOK' /\ DeleterOK' /\ nextSeq' = nextSeq
    BY <2>1, <2>2, DbStays DEF MemOK, DeleterOK, dbVars
  <2>4. "oldest" \in MaintLabels /\ "oldest" \notin EvictLabels /\ passes < MaxEvictPasses
    BY <1>1, <2>1 DEF MaintLabels, EvictLabels
  <2>5. FlushOK' /\ ForwarderOK' /\ RestOK' /\ pc'["maint"] = "oldest"
    BY <1>1, <2>1, <2>3, <2>4, OnlyMaint
  <2>6. passes' \in 0 .. MaxEvictPasses /\ cut' \in Nat
    BY <1>1, <2>1, <2>4
  <2>7. MaintOK'
    BY <2>4, <2>5, <2>6 DEF MaintOK
  <2> QED BY <2>3, <2>5, <2>7, Zenon
<1> QED BY <1>2, <1>3, <1>4, <1>5, <1>6, <1>7, <1>8 DEF Maintain
-----------------------------------------------------------------------------
\* The life of the process.
LEMMA InMemoryReadings ==
    ASSUME MemOK, FlushOK
    PROVE  InMemory \subseteq Readings
<1> DEFINE w == SubSeq(unflushed, Written + 1, Len(unflushed))
<1>1. unflushed \in Seq(Chunk) /\ buf \subseteq Readings
  BY DEF MemOK
<1>2. Written \in Nat
  <2>1. CASE \E p \in Callers : pc[p] = "written"
    <3> DEFINE p == CHOOSE q \in Callers : pc[q] = "written"
    <3>1. p \in Callers
      BY <2>1
    <3>2. batch[p] \in Seq(Chunk)
      BY <3>1 DEF FlushOK
    <3> QED BY <2>1, <3>2 DEF Written
  <2>2. CASE ~\E p \in Callers : pc[p] = "written"
    BY <2>2 DEF Written
  <2> QED BY <2>1, <2>2
<1>3. w \in Seq(Chunk)
  <2>1. \A i \in (Written + 1) .. Len(unflushed) : unflushed[i] \in Chunk
    BY <1>1, <1>2
  <2>2. Written + 1 \in Int /\ Len(unflushed) \in Int
    BY <1>1, <1>2
  <2> QED BY <2>1, <2>2, SubSeqIs
<1>4. QueuedIds(w) \subseteq Readings
  BY <1>3, QueuedReadings, Zenon
<1> QED BY <1>1, <1>4 DEF InMemory

LEMMA DieShape == ASSUME Shape, Exit \/ Crash PROVE Shape'
<1> USE DEF Shape
<1>1. /\ up' = "down" /\ lost' = lost \cup InMemory \cup dropIds
      /\ buf' = {} /\ unflushed' = <<>> /\ dropIds' = {}
      /\ batch' = NoLocals.batch /\ delta' = NoLocals.delta /\ bounds' = NoLocals.bounds
      /\ msg' = NoMsg /\ bad' = {} /\ cut' = 0 /\ passes' = 0
      /\ pc' = [p \in Procs |-> "idle"]
      /\ UNCHANGED <<dbVars, mem, appended, sent, unread, faults>>
  BY DEF Exit, Crash, Die
<1>2. stops' \in 0 .. MaxStops
  BY QueueAssumption DEF Exit, Crash, RestOK
<1>3. DbOK'
  BY <1>1, DbStays, Zenon
<1>4. MemOK'
  BY <1>1, MemEmptied, Zenon
<1>5. pc' \in [Procs -> {"idle"}] /\ \A p \in Procs : pc'[p] = "idle"
  BY <1>1
<1>6. FlushOK'
  <2>1. batch' \in [Callers -> Seq(Chunk)]
    BY <1>1 DEF NoLocals
  <2>2. /\ \A p \in Callers : pc'[p] = "idle"
        /\ pc'["flusher"] = "idle" /\ pc'["closer"] = "idle"
    BY <1>5, Processes
  <2> QED BY <2>1, <2>2 DEF FlushOK, Busy, CallerLabels
<1>7. DeleterOK'
  BY <1>1, Zenon DEF DeleterOK, NoLocals
<1>8. ForwarderOK'
  BY <1>1, <1>5, Processes DEF ForwarderOK, NoMsg, ForwarderLabels
<1>9. MaintOK'
  BY <1>1, <1>5, Processes, QueueAssumption DEF MaintOK, MaintLabels, EvictLabels
<1>10. lost' \subseteq Readings
  BY <1>1, InMemoryReadings DEF RestOK, MemOK
<1>11. RestOK'
  BY <1>1, <1>2, <1>5, <1>10, Zenon DEF RestOK, CallerLabels
<1> QED BY <1>3, <1>4, <1>6, <1>7, <1>8, <1>9, <1>11, Zenon

\* Open reads each counter, or leaves it zero.
LEMMA Opened ==
    ASSUME DbOK, NEW U, mem' = [f \in DOMAIN Restored |-> IF f \in U THEN 0 ELSE Restored[f]]
    PROVE  /\ mem' \in MemType
           /\ "chunks" \notin U => mem'.chunks = meta.chunks
           /\ "readings" \notin U => mem'.readings = meta.readings
           /\ "evicted" \notin U => mem'.evicted = meta.evicted
           /\ mem'.dropped = 0
<1> DEFINE r == Restored
<1>1. Cardinality(Pending) \in Nat /\ free \in Nat
  BY RowSets, Zenon DEF DbOK
<1>2. OldestRow \in Nat /\ NewestRow \in Nat /\ Cardinality(Pending) + free \in Nat
  BY <1>1, RowTimes
<1>3. /\ DOMAIN r = MemFields
      /\ r.chunks = meta.chunks /\ r.readings = meta.readings /\ r.evicted = meta.evicted
      /\ r.dropped = 0 /\ r.oldest = OldestRow /\ r.newest = NewestRow
      /\ r.pages = Cardinality(Pending) + free
  BY Zenon DEF Restored, MemFields, MetaFields
<1>4. meta.chunks \in Int /\ meta.readings \in Int /\ meta.evicted \in Int
  BY DEF DbOK
<1> HIDE DEF r
<1>5. mem' = [f \in MemFields |-> IF f \in U THEN 0 ELSE r[f]]
  BY <1>3, Zenon DEF r
<1>6. DOMAIN mem' = MemFields /\ mem' = [f \in DOMAIN mem' |-> mem'[f]]
  BY <1>5, Zenon
<1>7. /\ mem'.chunks = IF "chunks" \in U THEN 0 ELSE r.chunks
      /\ mem'.readings = IF "readings" \in U THEN 0 ELSE r.readings
      /\ mem'.evicted = IF "evicted" \in U THEN 0 ELSE r.evicted
      /\ mem'.dropped = IF "dropped" \in U THEN 0 ELSE r.dropped
      /\ mem'.oldest = IF "oldest" \in U THEN 0 ELSE r.oldest
      /\ mem'.newest = IF "newest" \in U THEN 0 ELSE r.newest
      /\ mem'.pages = IF "pages" \in U THEN 0 ELSE r.pages
  BY <1>5 DEF MemFields, MetaFields
<1>8. /\ mem'.chunks \in Int /\ mem'.readings \in Int /\ mem'.evicted \in Int
      /\ mem'.dropped \in Int /\ mem'.oldest \in Nat /\ mem'.newest \in Nat
      /\ mem'.pages \in Nat
  BY <1>2, <1>3, <1>4, <1>7
<1>9. mem' \in MemType
  BY <1>6, <1>8 DEF MemType, MemFields, MetaFields
<1> QED BY <1>3, <1>7, <1>9

LEMMA OpenShape == ASSUME Shape, Open PROVE Shape'
<1> USE DEF Shape
<1>1. /\ up = "down" /\ up' = "running" /\ (unread' = {} \/ unread' \in InitReads)
      /\ mem' = [f \in DOMAIN Restored |-> IF f \in unread' THEN 0 ELSE Restored[f]]
      /\ UNCHANGED <<dbVars, buf, unflushed, dropIds, localVars, appended, sent, lost,
                     stops, pc>>
  BY DEF Open
<1>2. faults' \in 0 .. MaxFaults
  BY QueueAssumption DEF Open, RestOK
<1>3. mem' \in MemType
  BY <1>1, Opened, Zenon
<1>4. DbOK' /\ MemOK' /\ DeleterOK' /\ MaintOK'
  BY <1>1, <1>3, DbStays, DeleterStays, MaintStays DEF MemOK, localVars
<1>5. ForwarderOK'
  BY <1>1 DEF ForwarderOK, localVars, dbVars
<1>6. FlushOK'
  <2>1. pc["closer"] = "idle"
    BY <1>1 DEF FlushOK
  <2> QED BY <1>1, <2>1 DEF FlushOK, localVars
<1>7. RestOK'
  BY <1>1, <1>2 DEF RestOK, InitReads
<1> QED BY <1>4, <1>5, <1>6, <1>7

\* A damaged row is still a row.
LEMMA Damaged ==
    ASSUME DbOK, Damage
    PROVE  /\ Pending' = Pending /\ rows' \in [Pending -> Chunk]
           /\ \A s \in Pending : rows'[s].ids = rows[s].ids
<1>1. PICK s \in Pending : rows' = [rows EXCEPT ![s].ok = FALSE]
  BY Zenon DEF Damage
<1> DEFINE c == [rows[s] EXCEPT !.ok = FALSE]
<1>2. rows' = [rows EXCEPT ![s] = c]
  BY <1>1, Zenon
<1>3. rows \in [Pending -> Chunk]
  BY DEF DbOK
<1>4. rows[s] \in Chunk
  BY <1>3
<1>5. c \in Chunk /\ c.ids = rows[s].ids
  BY <1>4, Zenon DEF Chunk
<1> HIDE DEF c
<1>6. /\ DOMAIN rows' = DOMAIN rows /\ rows'[s] = c
      /\ \A t \in Pending \ {s} : rows'[t] = rows[t]
  BY <1>2, <1>3 DEF Pending
<1>7. rows' \in [Pending -> Chunk]
  BY <1>2, <1>3, <1>5
<1> QED BY <1>5, <1>6, <1>7 DEF Pending

LEMMA RestShape == ASSUME Shape, Cancel \/ PollersDone \/ Damage PROVE Shape'
<1> USE DEF Shape
<1>1. CASE Cancel \/ PollersDone
  <2>1. /\ UNCHANGED <<dbVars, memVars, localVars, appended, sent, lost, unread, pc, faults>>
        /\ up' \in {"stopping", "closing"} /\ stops' \in 0 .. MaxStops
        /\ up # "closing"
    BY <1>1, QueueAssumption DEF Cancel, PollersDone, RestOK
  <2>2. DbOK' /\ MemOK' /\ DeleterOK' /\ MaintOK'
    BY <2>1, DbStays, MemStays, DeleterStays, MaintStays, Zenon DEF localVars
  <2>3. ForwarderOK'
    BY <2>1 DEF ForwarderOK, localVars, dbVars
  <2>4. FlushOK'
    BY <2>1 DEF FlushOK, localVars, memVars
  <2>5. RestOK'
    BY <2>1 DEF RestOK
  <2> QED BY <2>2, <2>3, <2>4, <2>5, Zenon
<1>2. CASE Damage
  <2>1. /\ UNCHANGED <<nextSeq, meta, free, gone, memVars, localVars, restVars, pc>>
        /\ faults' \in 0 .. MaxFaults
    BY <1>2, QueueAssumption DEF Damage, RestOK
  <2>2. DbOK'
    BY <1>2, <2>1, Damaged DEF DbOK
  <2>3. MemOK' /\ DeleterOK' /\ MaintOK' /\ FlushOK'
    BY <2>1, MemStays, DeleterStays, MaintStays, FlushStays DEF localVars, memVars, restVars
  <2>4. ForwarderOK'
    BY <2>1 DEF ForwarderOK, localVars
  <2>5. RestOK'
    BY <2>1 DEF RestOK, restVars
  <2> QED BY <2>2, <2>3, <2>4, <2>5
<1> QED BY <1>1, <1>2

LEMMA StepShape == Shape /\ [Next]_vars => Shape'
<1> SUFFICES ASSUME Shape, [Next]_vars PROVE Shape'
  OBVIOUS
<1>1. CASE AppendReading
  BY <1>1, AppendShape
<1>2. ASSUME NEW p \in Callers, Flush(p) PROVE Shape'
  BY <1>2, FlushTakeShape, FlushInsertShape, FlushDoneShape, FlushFailedShape DEF Flush
<1>3. ASSUME NEW p \in Deleters, RefreshBounds(p) PROVE Shape'
  BY <1>3, RefreshShape
<1>4. CASE Forward
  BY <1>3, <1>4, Processes, ReadBatchShape, DiscardShape, CountShape, SendShape, AckShape
     DEF Forward
<1>5. CASE Maintain
  BY <1>3, <1>5, Processes, MaintShape
<1>6. CASE Cancel \/ PollersDone \/ Damage
  BY <1>6, RestShape
<1>7. CASE Exit \/ Crash
  BY <1>7, DieShape
<1>8. CASE Open
  BY <1>8, OpenShape
<1>9. CASE UNCHANGED vars
  <2>1. UNCHANGED <<dbVars, memVars, localVars, restVars, pc, faults>>
    BY <1>9 DEF vars
  <2>2. DbOK' /\ MemOK' /\ DeleterOK' /\ MaintOK' /\ FlushOK'
    BY <2>1, DbStays, MemStays, DeleterStays, MaintStays, FlushStays, Zenon
       DEF Shape, localVars, memVars, restVars
  <2>3. ForwarderOK' /\ RestOK'
    BY <2>1 DEF Shape, ForwarderOK, RestOK, localVars, dbVars, restVars
  <2> QED BY <2>2, <2>3 DEF Shape
<1> QED BY <1>1, <1>2, <1>4, <1>5, <1>6, <1>7, <1>8, <1>9 DEF Next

LEMMA ShapeAlways == Spec => []Shape
BY InitShape, StepShape, PTL DEF Spec

LEMMA ShapeTypes == Shape => TypeOK
<1> SUFFICES ASSUME Shape PROVE TypeOK
  OBVIOUS
<1> USE DEF Shape
<1>1. DOMAIN mem = MemFields
  BY DEF MemOK, MemType, MemFields, MetaFields
<1>2. unread \subseteq DOMAIN mem
  BY <1>1 DEF RestOK, MemFields, MetaFields
<1>3. pc \in [Procs -> {"idle", "insert", "written", "failed", "done", "send",
                        "ack", "acked", "discard", "discarded", "oldest", "newest",
                        "bounds", "vacuum", "measure", "evict", "cut", "delete",
                        "evicted"}]
  <2>1. CallerLabels \cup ForwarderLabels \cup MaintLabels
          \subseteq {"idle", "insert", "written", "failed", "done", "send",
                     "ack", "acked", "discard", "discarded", "oldest", "newest",
                     "bounds", "vacuum", "measure", "evict", "cut", "delete", "evicted"}
    BY DEF CallerLabels, Busy, ForwarderLabels, MaintLabels, EvictLabels
  <2> QED BY <2>1, Zenon DEF RestOK
<1> QED
  BY <1>2, <1>3, Zenon
     DEF TypeOK, DbOK, MemOK, FlushOK, DeleterOK, ForwarderOK, MaintOK, RestOK

\* Every variable of the store keeps its type for any number of readings, faults and
\* restarts: in particular a seq is below nextSeq, a deletion never counts less than
\* nothing, evictOnce's estimate is a natural number, and each goroutine of Store is
\* always at one of its own labels.
THEOREM QueueTypeCorrect == Spec => []TypeOK
BY ShapeAlways, ShapeTypes, PTL
-----------------------------------------------------------------------------
\* Close: once the closer has emptied the buffer no poller refills it, and only a
\* fault makes it leave chunks behind.
CloseInv ==
    /\ pc["closer"] # "idle" => buf = {}
    /\ pc["closer"] = "failed" => faults > 0
    /\ pc["closer"] = "done" /\ faults = 0 => unflushed = <<>>

\* What the steps of each goroutine leave alone.
LEMMA GotoFrame ==
    ASSUME Shape, NEW p \in Procs, NEW l, Goto(p, l)
    PROVE  \A q \in Procs \ {p} : pc'[q] = pc[q]
<1>1. pc \in [Procs -> CallerLabels \cup ForwarderLabels \cup MaintLabels]
  BY DEF Shape, RestOK
<1> QED BY <1>1 DEF Goto

LEMMA FaultsGrow ==
    ASSUME Shape,
           faults' = faults \/ faults' = faults + 1 \/ \E p : DbWorks(p) \/ DbFails(p)
    PROVE  faults <= faults'
<1>1. RestOK /\ faults \in Nat
  BY QueueAssumption DEF Shape, RestOK
<1> QED BY <1>1, FaultsCounted

LEMMA RefreshFrame ==
    ASSUME Shape, NEW p \in Deleters, RefreshBounds(p)
    PROVE  /\ UNCHANGED <<dbVars, buf, unflushed, dropIds, batch, msg, bad, delta, cut,
                          passes, restVars>>
           /\ faults <= faults' /\ \E l : Goto(p, l)
           /\ mem'.chunks = mem.chunks /\ mem'.readings = mem.readings
           /\ mem'.evicted = mem.evicted /\ mem'.dropped = mem.dropped
<1>1. faults <= faults'
  BY FaultsGrow DEF RefreshBounds, ReadOldest, ReadNewest, SetBounds
<1>2. mem' = mem \/ mem' = [mem EXCEPT !.oldest = bounds[p].oldest,
                                       !.newest = bounds[p].newest]
  BY DEF RefreshBounds, ReadOldest, ReadNewest, SetBounds, memVars
<1>3. /\ mem'.chunks = mem.chunks /\ mem'.readings = mem.readings
      /\ mem'.evicted = mem.evicted /\ mem'.dropped = mem.dropped
  <2>1. mem \in MemType
    BY DEF Shape, MemOK
  <2> QED BY <1>2, <2>1, Zenon DEF MemType
<1> QED BY <1>1, <1>3 DEF RefreshBounds, ReadOldest, ReadNewest, SetBounds, memVars

LEMMA ForwardFrame ==
    ASSUME Shape, Forward
    PROVE  /\ UNCHANGED <<buf, unflushed, batch, cut, passes, nextSeq, up, appended, lost,
                          unread, stops>>
           /\ faults <= faults'
           /\ \A q \in Procs \ {"forwarder"} : pc'[q] = pc[q]
<1>1. CASE RefreshBounds("forwarder")
  BY <1>1, RefreshFrame, GotoFrame, Processes DEF dbVars, restVars
<1>2. CASE ReadBatch \/ Discard \/ DiscardCount \/ Send \/ Ack \/ AckCount
  <2>1. UNCHANGED <<buf, unflushed, batch, cut, passes, up, appended, lost, unread, stops>>
    BY <1>2, Zenon DEF ReadBatch, Discard, DiscardCount, Send, Ack, AckCount, memVars, restVars
  <2>2. nextSeq' = nextSeq
    BY <1>2, Zenon DEF ReadBatch, Discard, DiscardCount, Send, Ack, AckCount, dbVars, DeleteRows,
                DeleteThrough
  <2>3. faults <= faults'
    <3>1. CASE ReadBatch \/ Discard \/ Ack
      BY <3>1, FaultsGrow, Zenon DEF ReadBatch, Discard, Ack
    <3>2. CASE DiscardCount \/ Send \/ AckCount
      BY <3>2, FaultsGrow, Zenon DEF DiscardCount, Send, AckCount
    <3> QED BY <1>2, <3>1, <3>2
  <2>4. pc' = pc \/ \E l : Goto("forwarder", l)
    BY <1>2, Zenon DEF ReadBatch, Discard, Abandon, DiscardCount, Send, Ack, AckCount
  <2> QED BY <2>1, <2>2, <2>3, <2>4, GotoFrame, Processes, Zenon
<1> QED BY <1>1, <1>2, Zenon DEF Forward

LEMMA MaintFrame ==
    ASSUME Shape, Maintain
    PROVE  /\ UNCHANGED <<buf, unflushed, dropIds, batch, msg, bad, nextSeq, restVars>>
           /\ faults <= faults'
           /\ \A q \in Procs \ {"maint"} : pc'[q] = pc[q]
<1>1. CASE RefreshBounds("maint")
  BY <1>1, RefreshFrame, GotoFrame, Processes, Zenon DEF dbVars
<1>2. CASE MaintStart \/ Vacuum \/ Measure \/ EvictEstimate \/ EvictCut \/ EvictDelete
           \/ EvictTally
  <2>1. UNCHANGED <<buf, unflushed, dropIds, batch, msg, bad, restVars>>
    BY <1>2, Zenon DEF MaintStart, Vacuum, Measure, EvictEstimate, EvictCut, EvictDelete, EvictTally,
                memVars, localVars
  <2>2. nextSeq' = nextSeq
    BY <1>2, Zenon DEF MaintStart, Vacuum, Measure, EvictEstimate, EvictCut, EvictDelete, EvictTally,
                dbVars, DeleteRows, DeleteThrough
  <2>3. faults <= faults'
    <3>1. CASE MaintStart \/ EvictEstimate \/ EvictTally
      BY <3>1, FaultsGrow, Zenon DEF MaintStart, EvictEstimate, EvictTally
    <3>2. CASE Vacuum \/ Measure \/ EvictCut \/ EvictDelete
      BY <3>2, FaultsGrow DEF Vacuum, Measure, EvictCut, EvictDelete
    <3> QED BY <1>2, <3>1, <3>2
  <2>4. \E l : Goto("maint", l)
    <3>1. CASE EvictEstimate
      BY <3>1 DEF EvictEstimate
    <3>2. CASE ~EvictEstimate
      BY <1>2, <3>2, Zenon DEF MaintStart, Vacuum, Measure, EvictCut, EvictDelete, EvictTally
    <3> QED BY <3>1, <3>2
  <2> QED BY <2>1, <2>2, <2>3, <2>4, GotoFrame, Processes, Zenon
<1> QED BY <1>1, <1>2, Zenon DEF Maintain

LEMMA FlushFrame ==
    ASSUME Shape, NEW p \in Callers, Flush(p)
    PROVE  /\ UNCHANGED <<gone, msg, bad, delta, bounds, cut, passes, restVars>>
           /\ faults <= faults'
           /\ \A q \in Procs \ {p} : pc'[q] = pc[q]
<1>1. UNCHANGED <<gone, msg, bad, delta, bounds, cut, passes, restVars>>
  BY Zenon DEF Flush, FlushTake, FlushInsert, FlushDone, FlushFailed, dbVars, localVars
<1>2. faults <= faults'
  BY FaultsGrow, Zenon DEF Flush, FlushTake, FlushInsert, FlushDone, FlushFailed
<1>3. \E l : Goto(p, l)
  BY Zenon DEF Flush, FlushTake, FlushInsert, FlushDone, FlushFailed
<1> QED BY <1>1, <1>2, <1>3, GotoFrame, Processes, Zenon

\* Everything but Flush and the end of the process leaves the backlog alone.
LEMMA BacklogFrame ==
    ASSUME Shape, [Next]_vars, ~(Exit \/ Crash), \A p \in Callers : ~Flush(p)
    PROVE  UNCHANGED <<unflushed, batch>> /\ \A p \in Callers : pc'[p] = pc[p]
<1>1. CASE Forward
  BY <1>1, ForwardFrame, Processes, Zenon
<1>2. CASE Maintain
  BY <1>2, MaintFrame, Processes, Zenon
<1>3. CASE AppendReading \/ Cancel \/ PollersDone \/ Open \/ Damage \/ UNCHANGED vars
  BY <1>3 DEF AppendReading, Cancel, PollersDone, Open, Damage, vars, memVars, localVars
<1> QED BY <1>1, <1>2, <1>3, Zenon DEF Next

-----------------------------------------------------------------------------
\* A Flush adds at most one chunk to what waits, and ends with none of it or with
\* what MaxUnflushedChunks allows.
LEMMA StepBacklog == Shape /\ BacklogBounded /\ [Next]_vars => BacklogBounded'
<1> SUFFICES ASSUME Shape, BacklogBounded, [Next]_vars PROVE BacklogBounded'
  OBVIOUS
<1>1. /\ unflushed \in Seq(Chunk) /\ Len(unflushed) \in Nat
      /\ MaxUnflushedChunks \in Nat /\ MaxUnflushedChunks > 0
  BY QueueAssumption DEF Shape, MemOK
<1>2. pc \in [Procs -> CallerLabels \cup ForwarderLabels \cup MaintLabels]
  BY DEF Shape, RestOK
<1>3. ASSUME unflushed' = <<>> PROVE BacklogBounded'
  BY <1>1, <1>3 DEF BacklogBounded
<1>4. ASSUME NEW p \in Callers, FlushTake(p) PROVE BacklogBounded'
  <2>1. Len(unflushed) <= MaxUnflushedChunks
    BY <1>4 DEF FlushTake, BacklogBounded
  <2>2. Len(unflushed') <= MaxUnflushedChunks + 1
    <3>1. CASE unflushed' = unflushed
      BY <1>1, <2>1, <3>1
    <3>2. CASE unflushed' = Append(unflushed, [ids |-> buf, ok |-> TRUE])
      <4> DEFINE c == [ids |-> buf, ok |-> TRUE]
      <4>1. unflushed' = Append(unflushed, c)
        BY <3>2
      <4> HIDE DEF c
      <4>2. Len(unflushed') = Len(unflushed) + 1
        BY <1>1, <4>1
      <4> QED BY <1>1, <2>1, <4>2
    <3> QED BY <1>4, <3>1, <3>2 DEF FlushTake
  <2>3. unflushed' # <<>> => pc'[p] = "insert"
    BY <1>2, <1>4, Processes DEF FlushTake, Goto
  <2> QED BY <1>3, <2>2, <2>3 DEF BacklogBounded, FlushMuFree
<1>5. ASSUME NEW p \in Callers, FlushInsert(p) PROVE BacklogBounded'
  <2>1. pc'[p] \in {"written", "failed"}
    BY <1>2, <1>5, Processes DEF FlushInsert, Goto
  <2>2. unflushed' = unflushed
    BY <1>5 DEF FlushInsert, memVars
  <2> QED BY <2>1, <2>2 DEF BacklogBounded, FlushMuFree
<1>6. ASSUME NEW p \in Callers, FlushDone(p) PROVE BacklogBounded'
  <2>1. batch[p] = unflushed
    BY <1>6 DEF FlushDone, Shape, FlushOK, Busy
  <2>2. unflushed' = SubSeq(unflushed, Len(unflushed) + 1, Len(unflushed))
    BY <1>6, <2>1 DEF FlushDone
  <2>3. unflushed' = <<>>
    BY <1>1, <2>2, SubSeqNone
  <2> QED BY <1>3, <2>3
<1>7. ASSUME NEW p \in Callers, FlushFailed(p) PROVE BacklogBounded'
  <2>1. unflushed' = SubSeq(unflushed, Overflow + 1, Len(unflushed))
    BY <1>7 DEF FlushFailed
  <2>2. Len(unflushed') = Len(unflushed) - Overflow
        /\ Len(unflushed) - Overflow <= MaxUnflushedChunks
    BY <1>1, <2>1, Dropped
  <2>3. Len(unflushed') <= MaxUnflushedChunks
    BY <2>2
  <2>4. Len(unflushed') \in Nat
    <3>1. Overflow \in 0 .. Len(unflushed)
      BY <1>1, Dropped, Zenon
    <3> QED BY <1>1, <2>2, <3>1
  <2> QED BY <1>1, <2>3, <2>4 DEF BacklogBounded
<1>8. CASE Exit \/ Crash
  BY <1>3, <1>8 DEF Exit, Crash, Die
<1>9. CASE ~(Exit \/ Crash) /\ \A p \in Callers : ~Flush(p)
  <2>1. unflushed' = unflushed /\ \A p \in Callers : pc'[p] = pc[p]
    BY <1>9, BacklogFrame
  <2> QED BY <2>1 DEF BacklogBounded, FlushMuFree
<1> QED BY <1>4, <1>5, <1>6, <1>7, <1>8, <1>9 DEF Flush

\* The chunks Flush keeps for its next attempt never exceed MaxUnflushedChunks, plus
\* the one a running Flush has just encoded, for any pattern of failing
\* transactions, of the two callers and of restarts.
THEOREM BacklogIsBounded == Spec => []BacklogBounded
<1>1. ASSUME Init PROVE BacklogBounded
  <2>1. unflushed = <<>>
    BY <1>1, Zenon DEF Init
  <2> QED BY <2>1, QueueAssumption DEF BacklogBounded
<1> QED BY <1>1, ShapeAlways, StepBacklog, PTL DEF Spec
-----------------------------------------------------------------------------
\* Every action keeps what Close relies on.
LEMMA StepClose == Shape /\ CloseInv /\ [Next]_vars => CloseInv'
<1> SUFFICES ASSUME Shape, CloseInv, [Next]_vars PROVE CloseInv'
  BY Zenon
<1>1. /\ unflushed \in Seq(Chunk) /\ faults \in Nat
      /\ pc \in [Procs -> CallerLabels \cup ForwarderLabels \cup MaintLabels]
  BY ShapeRanges, Zenon
<1>2. ASSUME UNCHANGED <<buf, unflushed>>, pc'["closer"] = pc["closer"], faults <= faults',
             faults' \in Nat
      PROVE  CloseInv'
  BY <1>1, <1>2 DEF CloseInv
<1>3. faults' \in Nat
  BY StepShape, QueueAssumption DEF Shape, RestOK
<1>4. CASE AppendReading
  <2>1. pc["closer"] = "idle" /\ pc' = pc
    BY <1>4 DEF AppendReading, Shape, FlushOK
  <2> QED BY <2>1 DEF CloseInv
<1>5. ASSUME NEW p \in Callers, FlushTake(p) PROVE CloseInv'
  <2>1. buf' = {}
    BY <1>5 DEF FlushTake
  <2>2. CASE p = "closer"
    <3>1. unflushed' # <<>> => pc'["closer"] = "insert"
      BY <1>1, <1>5, <2>2, Processes DEF FlushTake, Goto
    <3>2. pc'["closer"] # "failed"
      BY <1>1, <1>5, <2>2, Processes, Zenon DEF FlushTake, Goto, AfterFlush
    <3> QED BY <2>1, <3>1, <3>2 DEF CloseInv
  <2>3. CASE p # "closer"
    <3>1. pc'["closer"] = pc["closer"] /\ faults <= faults'
      BY <1>5, <2>3, FlushFrame, Processes DEF Flush
    <3>2. pc["closer"] \in {"idle", "done"} /\ (pc["closer"] = "done" => buf = {})
      BY <1>5, Processes DEF FlushTake, FlushMuFree, CloseInv
    <3>3. buf = {} => unflushed' = unflushed
      BY <1>5, Zenon DEF FlushTake
    <3> QED BY <1>1, <1>3, <2>1, <3>1, <3>2, <3>3 DEF CloseInv
  <2> QED BY <2>2, <2>3
<1>6. ASSUME NEW p \in Callers, FlushInsert(p) PROVE CloseInv'
  <2>1. UNCHANGED <<buf, unflushed>> /\ faults <= faults' /\ pc[p] = "insert"
    BY <1>6, FlushFrame, Zenon DEF FlushInsert, memVars, Flush
  <2>2. CASE p = "closer"
    <3>1. pc'["closer"] \in {"written", "failed"} /\ buf = {}
      BY <1>1, <1>6, <2>2, Processes DEF FlushInsert, Goto, CloseInv
    <3>2. pc'["closer"] = "failed" => faults' > 0
      <4>1. pc'["closer"] = "failed" => DbFails("closer")
        BY <1>1, <1>6, <2>2, Processes DEF FlushInsert, Goto
      <4> QED BY <1>1, <4>1 DEF DbFails
    <3> QED BY <2>1, <3>1, <3>2 DEF CloseInv
  <2>3. CASE p # "closer"
    BY <1>2, <1>3, <1>6, <2>1, <2>3, FlushFrame, Processes DEF Flush
  <2> QED BY <2>2, <2>3
<1>7. ASSUME NEW p \in Callers, FlushDone(p) PROVE CloseInv'
  <2>1. batch[p] = unflushed /\ buf' = buf /\ pc[p] = "written"
    BY <1>7 DEF FlushDone, Shape, FlushOK, Busy
  <2>2. unflushed' = SubSeq(unflushed, Len(unflushed) + 1, Len(unflushed))
    BY <1>7, <2>1 DEF FlushDone
  <2>3. unflushed' = <<>>
    BY <1>1, <2>2, SubSeqNone
  <2>4. CASE p = "closer"
    <3>1. pc'["closer"] = "done"
      BY <1>1, <1>7, <2>4, Processes DEF FlushDone, Goto, AfterFlush
    <3> QED BY <2>1, <2>3, <2>4, <3>1 DEF CloseInv
  <2>5. CASE p # "closer"
    <3>1. pc'["closer"] = pc["closer"] /\ faults' = faults
      BY <1>7, <2>5, FlushFrame, Processes, Zenon DEF Flush, FlushDone
    <3> QED BY <2>1, <2>3, <3>1, Zenon DEF CloseInv
  <2> QED BY <2>4, <2>5
<1>8. ASSUME NEW p \in Callers, FlushFailed(p) PROVE CloseInv'
  <2>1. buf' = buf /\ pc[p] = "failed" /\ faults' = faults
    BY <1>8 DEF FlushFailed
  <2>2. CASE p = "closer"
    <3>1. pc'["closer"] = "done" /\ faults' > 0
      BY <1>1, <1>8, <2>1, <2>2, Processes DEF FlushFailed, Goto, AfterFlush, CloseInv
    <3> QED BY <1>1, <2>1, <2>2, <3>1 DEF CloseInv
  <2>3. CASE p # "closer"
    <3>1. pc'["closer"] = pc["closer"]
      BY <1>8, <2>3, FlushFrame, Processes DEF Flush
    <3>2. unflushed # <<>>
      BY <2>1 DEF Shape, FlushOK, Busy
    <3>3. pc["closer"] = "done" => faults # 0
      BY <3>2 DEF CloseInv
    <3> QED BY <2>1, <3>1, <3>3, Zenon DEF CloseInv
  <2> QED BY <2>2, <2>3
<1>9. CASE Exit \/ Crash
  <2>1. pc'["closer"] = "idle"
    BY <1>9, Processes, Zenon DEF Exit, Crash, Die
  <2> QED BY <2>1 DEF CloseInv
<1>10. CASE Forward
  BY <1>2, <1>3, <1>10, ForwardFrame, Processes, Zenon
<1>11. CASE Maintain
  BY <1>2, <1>3, <1>11, MaintFrame, Processes
<1>12. CASE Cancel \/ PollersDone \/ Open \/ Damage \/ UNCHANGED vars
  <2>1. UNCHANGED <<buf, unflushed, pc>>
    BY <1>12 DEF Cancel, PollersDone, Open, Damage, vars, memVars
  <2>2. faults <= faults'
    BY <1>12, FaultsGrow DEF Cancel, PollersDone, Open, Damage, vars
  <2> QED BY <1>2, <1>3, <2>1, <2>2
<1> QED BY <1>4, <1>5, <1>6, <1>7, <1>8, <1>9, <1>10, <1>11, <1>12 DEF Next, Flush

LEMMA NothingInMemory ==
    ASSUME buf = {}, unflushed = <<>>, Shape, pc["closer"] = "done"
    PROVE  InMemory = {}
<1>1. \A p \in Callers : pc[p] # "written"
  BY DEF Shape, FlushOK, Busy
<1>2. Written = 0
  BY <1>1 DEF Written
<1>3. SubSeq(unflushed, Written + 1, Len(unflushed)) = <<>>
  BY <1>2, SubSeqNone DEF Shape, MemOK
<1>4. QueuedIds(<<>>) = {}
  BY DEF QueuedIds
<1> QED BY <1>3, <1>4, Zenon DEF InMemory

\* When no call failed, nothing is left in memory once the Flush of Close has
\* returned, whatever Flush of the ticker it overlapped.
THEOREM CloseIsClean == Spec => []CleanClose
<1>1. Init => CloseInv
  BY Processes, Zenon DEF Init, CloseInv
<1>2. Shape /\ CloseInv => CleanClose
  BY NothingInMemory DEF CloseInv, CleanClose
<1> QED BY <1>1, <1>2, ShapeAlways, StepClose, PTL DEF Spec
=============================================================================
