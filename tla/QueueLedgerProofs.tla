------------------------- MODULE QueueLedgerProofs --------------------------
(***************************************************************************)
(* Proofs about the books QueueStore keeps: no reading is lost track of or *)
(* counted twice, and the counters in meta and the cached ones never drift *)
(* from what the tables hold.                                              *)
(***************************************************************************)
EXTENDS QueueSafetyProofs

\* The ledger: the readings that have left, and that those in memory, those stored and
\* those that have left are all the readings there are.  That memory and the rows
\* have none in common follows from their order.
Away == AllGone \cup lost \cup dropIds
Ledger ==
    /\ buf \cup Fresh \cup Ids(Pending) \cup Away = 1 .. appended
    /\ (buf \cup Fresh \cup Ids(Pending)) \cap Away = {}

LEMMA BeforeDisjoint ==
    ASSUME NEW A, NEW B, A \subseteq Nat, AllBefore(A, B)
    PROVE  A \cap B = {}
<1> SUFFICES ASSUME NEW x \in A, x \in B PROVE FALSE
  OBVIOUS
<1>1. x \in Nat /\ x < x
  BY DEF AllBefore
<1> QED BY <1>1

LEMMA BeforeApart ==
    ASSUME NEW n \in Nat, NEW A \in SUBSET (1 .. n), NEW B, AllBefore(A, B)
    PROVE  A \cap B = {}
<1>1. A \subseteq Nat
  OBVIOUS
<1> QED BY <1>1, BeforeDisjoint

\* Readings that are in order are in different places.
LEMMA Apart ==
    ASSUME Shape, Ordered
    PROVE  /\ buf \cap QueuedIds(unflushed) = {} /\ buf \cap Fresh = {}
           /\ (buf \cup Fresh) \cap Ids(Pending) = {}
           /\ \A s, t \in Pending : s # t => rows[s].ids \cap rows[t].ids = {}
           /\ \A i, j \in 1 .. Len(unflushed) :
                 i # j => unflushed[i].ids \cap unflushed[j].ids = {}
<1>1. /\ appended \in Nat /\ Pending \subseteq Nat /\ unflushed \in Seq(Chunk)
      /\ Fresh \subseteq QueuedIds(unflushed)
  <2>1. appended \in Nat
    BY QueueAssumption DEF Shape, RestOK
  <2>2. Pending \subseteq Nat /\ unflushed \in Seq(Chunk)
    BY DEF Shape, DbOK, MemOK
  <2>3. Fresh \subseteq QueuedIds(unflushed)
    BY DEF Fresh
  <2> QED BY <2>1, <2>2, <2>3
<1>2. /\ buf \cap QueuedIds(unflushed) = {} /\ (buf \cup Fresh) \cap Ids(Pending) = {}
  BY <1>1, BeforeApart DEF Ordered
<1>3. ASSUME NEW s \in Pending, NEW t \in Pending, s < t
      PROVE  rows[s].ids \cap rows[t].ids = {}
  <2>1. rows[s].ids \in SUBSET (1 .. appended)
    BY RowMembers DEF Ordered
  <2>2. AllBefore(rows[s].ids, rows[t].ids)
    BY <1>3 DEF Ordered, RowsOrdered
  <2>3. rows[s].ids \subseteq Nat
    BY <1>1, <2>1
  <2> QED BY <2>2, <2>3, BeforeDisjoint
<1>4. \A s, t \in Pending : s # t => rows[s].ids \cap rows[t].ids = {}
  <2> TAKE s, t \in Pending
  <2> HAVE s # t
  <2>1. s < t \/ t < s
    BY <1>1
  <2>2. CASE s < t
    BY <1>3, <2>2
  <2>3. CASE t < s
    <3>1. rows[t].ids \cap rows[s].ids = {}
      BY <1>3, <2>3
    <3> QED BY <3>1
  <2> QED BY <2>1, <2>2, <2>3
<1>5. ASSUME NEW i \in 1 .. Len(unflushed), NEW j \in 1 .. Len(unflushed), i < j
      PROVE  unflushed[i].ids \cap unflushed[j].ids = {}
  <2>1. unflushed[i].ids \in SUBSET (1 .. appended)
    BY <1>1, QueuedMembers DEF Ordered
  <2>2. AllBefore(unflushed[i].ids, unflushed[j].ids)
    BY <1>5 DEF Ordered, QueueOrdered
  <2>3. unflushed[i].ids \subseteq Nat
    BY <1>1, <2>1
  <2> QED BY <2>2, <2>3, BeforeDisjoint
<1>6. \A i, j \in 1 .. Len(unflushed) : i # j => unflushed[i].ids \cap unflushed[j].ids = {}
  <2> TAKE i, j \in 1 .. Len(unflushed)
  <2> HAVE i # j
  <2>1. i < j \/ j < i
    OBVIOUS
  <2>2. CASE i < j
    BY <1>5, <2>2
  <2>3. CASE j < i
    <3>1. unflushed[j].ids \cap unflushed[i].ids = {}
      BY <1>5, <2>3
    <3> QED BY <3>1
  <2> QED BY <2>1, <2>2, <2>3
<1> QED BY <1>1, <1>2, <1>4, <1>6

\* A deletion moves the readings of its rows to the deleted ones.
LEMMA DeletedReadings ==
    ASSUME Shape, Ordered, NEW S \in SUBSET Pending,
           NEW why \in {"acked", "evicted", "discarded"}, DeleteRows(S, why)
    PROVE  /\ Ids(Pending)' = Ids(Pending) \ Ids(S) /\ Ids(S) \subseteq Ids(Pending)
           /\ AllGone' = AllGone \cup Ids(S)
<1>1. rows' = [s \in Pending \ S |-> rows[s]]
  BY DEF DeleteRows
<1>2. Pending' = Pending \ S /\ \A s \in Pending' : rows'[s] = rows[s]
  BY <1>1 DEF Pending
<1>3. Ids(Pending)' = UNION {rows'[s].ids : s \in Pending'}
  BY DEF Ids
<1>4. ASSUME NEW x PROVE x \in Ids(Pending)' <=> x \in Ids(Pending) \ Ids(S)
  <2>1. x \in Ids(Pending)' <=> \E s \in Pending \ S : x \in rows[s].ids
    BY <1>2, <1>3
  <2>2. ASSUME NEW s \in Pending \ S, x \in rows[s].ids PROVE x \in Ids(Pending) \ Ids(S)
    <3>1. \A t \in S : x \notin rows[t].ids
      BY <2>2, Apart
    <3> QED BY <2>2, <3>1, RowMembers
  <2>3. ASSUME x \in Ids(Pending) \ Ids(S) PROVE \E s \in Pending \ S : x \in rows[s].ids
    BY <2>3, RowMembers
  <2> QED BY <2>1, <2>2, <2>3
<1>5. Ids(Pending)' = Ids(Pending) \ Ids(S)
  BY <1>4
<1>6. Ids(S) \subseteq Ids(Pending)
  BY RowMembers
<1>7. \A w \in {"acked", "evicted", "discarded"} :
         GoneIds(w)' = IF w = why THEN GoneIds(w) \cup Ids(S) ELSE GoneIds(w)
  BY DeletedSeqs DEF Shape
<1>8. AllGone' = GoneIds("acked")' \cup GoneIds("evicted")' \cup GoneIds("discarded")'
  BY DEF AllGone
<1>9. AllGone' = AllGone \cup Ids(S)
  BY <1>7, <1>8 DEF AllGone
<1> QED BY <1>5, <1>6, <1>9

LEMMA QuietReadings ==
    ASSUME DbQuiet
    PROVE  /\ Ids(Pending)' = Ids(Pending) /\ AllGone' = AllGone
           /\ \A w \in {"acked", "evicted", "discarded"} : GoneIds(w)' = GoneIds(w)
<1>1. Ids(Pending)' = UNION {rows'[s].ids : s \in Pending'}
  BY DEF Ids
<1>2. Ids(Pending)' = Ids(Pending)
  BY <1>1 DEF DbQuiet, Ids
<1>3. \A w \in {"acked", "evicted", "discarded"} : GoneIds(w)' = GoneIds(w)
  BY GoneStays DEF DbQuiet
<1> QED BY <1>2, <1>3 DEF AllGone

LEMMA FlushRowsQuiet ==
    ASSUME NEW p, FlushTake(p) \/ FlushDone(p) \/ FlushFailed(p)
    PROVE  DbQuiet /\ UNCHANGED <<lost, appended, up, unread, delta>>
           /\ AllGone' = AllGone /\ Ids(Pending)' = Ids(Pending)
<1>1. UNCHANGED dbVars /\ UNCHANGED <<lost, appended, up, unread, delta>>
  BY DEF FlushTake, FlushDone, FlushFailed, restVars
<1>2. DbQuiet
  BY <1>1, DbSame
<1> QED BY <1>1, <1>2, QuietReadings

LEMMA LedgerSame ==
    ASSUME Ledger, UNCHANGED <<buf, Fresh, appended, lost, dropIds>>, DbQuiet
    PROVE  Ledger'
BY QuietReadings DEF Ledger, Away

\* A deletion keeps the ledger.
LEMMA LedgerRemoves ==
    ASSUME Shape, Ordered, Ledger, NEW p, NEW S, NEW why \in {"acked", "evicted", "discarded"},
           Removed(p, S, why)
    PROVE  Ledger'
<1>1. /\ Ids(Pending)' = Ids(Pending) \ Ids(S) /\ Ids(S) \subseteq Ids(Pending)
      /\ AllGone' = AllGone \cup Ids(S)
  BY DeletedReadings DEF Removed
<1>2. UNCHANGED <<buf, Fresh, appended, lost>>
  BY DEF Removed, MemorySame, Fresh
<1>3. Away' = Away \cup Ids(S)
  BY <1>1, <1>2 DEF Removed, Away
<1>4. (buf \cup Fresh) \cap Ids(S) = {}
  BY <1>1, Apart
<1> QED BY <1>1, <1>2, <1>3, <1>4 DEF Ledger

\* The chunks a failed Flush gives up share no reading with those it keeps.
LEMMA GivenUpApart ==
    ASSUME Shape, Ordered, NEW p \in Callers, FlushFailed(p)
    PROVE  QueuedIds(SubSeq(unflushed, 1, Overflow)) \cap QueuedIds(unflushed') = {}
<1> DEFINE drop == SubSeq(unflushed, 1, Overflow)
<1>1. /\ Overflow \in 0 .. Len(unflushed) /\ drop \in Seq(Chunk) /\ Len(drop) = Overflow
      /\ \A i \in 1 .. Overflow : drop[i] = unflushed[i]
      /\ unflushed' \in Seq(Chunk) /\ Len(unflushed') = Len(unflushed) - Overflow
      /\ \A i \in 1 .. Len(unflushed') : unflushed'[i] = unflushed[Overflow + i]
  BY GaveUp
<1>2. Len(unflushed) \in Nat
  BY DEF Shape, MemOK
<1> HIDE DEF drop
<1>3. ASSUME NEW i \in 1 .. Len(drop), NEW j \in 1 .. Len(unflushed')
      PROVE  drop[i].ids \cap unflushed'[j].ids = {}
  <2>1. i \in 1 .. Len(unflushed) /\ Overflow + j \in 1 .. Len(unflushed) /\ i # Overflow + j
    BY <1>1, <1>2
  <2>2. drop[i] = unflushed[i] /\ unflushed'[j] = unflushed[Overflow + j]
    BY <1>1
  <2> QED BY <2>1, <2>2, Apart
<1>4. QueuedIds(drop) \cap QueuedIds(unflushed') = {}
  BY <1>1, <1>3, QueuedMembers
<1> QED BY <1>4 DEF drop

\* Each step of Flush moves readings from one place to the next, or drops them.
LEMMA FlushLedger ==
    ASSUME Shape, Ordered, Ledger, NEW p \in Callers, Flush(p)
    PROVE  Ledger'
<1>1. CASE FlushTake(p)
  <2>1. Fresh = QueuedIds(unflushed) /\ Fresh' = QueuedIds(unflushed') /\ buf' = {}
    BY <1>1, Taken DEF Fresh
  <2>2. UNCHANGED <<lost, appended, AllGone, Ids(Pending)>>
    BY <1>1, FlushRowsQuiet
  <2>3. CASE QueuedIds(unflushed') = QueuedIds(unflushed) \cup buf /\ UNCHANGED dropIds
    BY <2>1, <2>2, <2>3 DEF Ledger, Away
  <2>4. CASE unflushed' = unflushed /\ dropIds' = dropIds \cup buf
    <3>1. Away' = Away \cup buf /\ Fresh' = Fresh
      BY <2>1, <2>2, <2>4 DEF Away
    <3>2. buf \cap Fresh = {} /\ buf \cap Ids(Pending) = {}
      BY Apart
    <3> QED BY <2>1, <2>2, <3>1, <3>2 DEF Ledger
  <2> QED BY <1>1, <2>3, <2>4, Taken
<1>2. CASE FlushInsert(p)
  <2>1. UNCHANGED <<buf, unflushed, appended, lost, dropIds, gone>>
    BY <1>2 DEF FlushInsert, memVars, restVars
  <2>2. CASE Stored(p)
    <3>1. /\ Fresh = QueuedIds(unflushed) /\ Fresh' = {}
          /\ Ids(Pending)' = Ids(Pending) \cup QueuedIds(unflushed)
      BY <2>2, StoredReadings DEF Fresh
    <3>2. Away' = Away
      BY <2>1 DEF Away, AllGone, GoneIds
    <3> QED BY <2>1, <3>1, <3>2 DEF Ledger
  <2>3. CASE ~Stored(p)
    <3>1. DbQuiet
      BY <1>2, <2>3, FlushRows DEF Flush
    <3>2. Fresh' = Fresh
      <4>1. pc \in [Procs -> CallerLabels \cup ForwarderLabels \cup MaintLabels]
        BY DEF Shape, RestOK
      <4>2. pc[p] = "insert" /\ pc'[p] # "written"
        <5>1. batch[p] = unflushed
          BY <1>2 DEF FlushInsert, Shape, FlushOK, Busy
        <5> QED BY <1>2, <2>3, <4>1, <5>1, Processes DEF FlushInsert, Stored, Goto, NewSeq
      <4>3. \A q \in Callers \ {p} : pc[q] # "written" /\ pc'[q] = pc[q]
        BY <1>2, <4>2, FlushFrame, Processes DEF Shape, FlushOK, Busy, Flush
      <4> QED BY <2>1, <4>2, <4>3 DEF Fresh, WrittenNow
    <3> QED BY <2>1, <3>1, <3>2, LedgerSame
  <2> QED BY <2>2, <2>3
<1>3. CASE FlushDone(p)
  <2>1. Fresh = {} /\ Fresh' = {} /\ buf' = buf
    BY <1>3, Finished, QueuedNone DEF Fresh
  <2>2. UNCHANGED <<appended, lost, dropIds>> /\ DbQuiet
    BY <1>3, FlushRowsQuiet DEF FlushDone
  <2> QED BY <2>1, <2>2, LedgerSame
<1>4. CASE FlushFailed(p)
  <2> DEFINE d == QueuedIds(SubSeq(unflushed, 1, Overflow))
  <2>1. /\ Fresh = QueuedIds(unflushed) /\ Fresh' = QueuedIds(unflushed') /\ buf' = buf
        /\ QueuedIds(unflushed) = d \cup QueuedIds(unflushed')
        /\ dropIds' = dropIds \cup d
    BY <1>4, GaveUp DEF Fresh
  <2>2. UNCHANGED <<lost, appended, AllGone, Ids(Pending)>>
    BY <1>4, FlushRowsQuiet
  <2>3. d \cap QueuedIds(unflushed') = {}
    BY <1>4, GivenUpApart
  <2>4. d \cap buf = {} /\ d \cap Ids(Pending) = {}
    BY <2>1, Apart
  <2> HIDE DEF d
  <2>5. Away' = Away \cup d
    BY <2>1, <2>2 DEF Away
  <2> QED BY <2>1, <2>2, <2>3, <2>4, <2>5 DEF Ledger
<1> QED BY <1>1, <1>2, <1>3, <1>4 DEF Flush

\* Every step keeps the ledger.
LEMMA StepLedger == Shape /\ Ordered /\ Ledger /\ [Next]_vars => Ledger'
<1> SUFFICES ASSUME Shape, Ordered, Ledger, [Next]_vars PROVE Ledger'
  OBVIOUS
<1>1. ASSUME BooksQuiet PROVE Ledger'
  BY <1>1, LedgerSame DEF BooksQuiet, MemorySame, Fresh
<1>2. ASSUME NEW p, NEW why, Tallied(p, why) PROVE Ledger'
  BY <1>2, LedgerSame DEF Tallied, MemorySame, Fresh
<1>3. CASE Forward
  BY <1>1, <1>2, <1>3, ForwardBooks, LedgerRemoves
<1>4. CASE Maintain
  BY <1>1, <1>2, <1>4, MaintBooks, LedgerRemoves
<1>5. CASE AppendReading
  <2>1. /\ appended \in Nat /\ appended' = appended + 1 /\ buf' = buf \cup {appended + 1}
        /\ UNCHANGED <<unflushed, pc, lost, dropIds, dbVars>>
    BY <1>5, QueueAssumption DEF AppendReading, Shape, RestOK
  <2>2. Fresh' = Fresh /\ Ids(Pending)' = Ids(Pending) /\ Away' = Away
    BY <2>1, DbSame, QuietReadings DEF Fresh, WrittenNow, Away
  <2>3. 1 .. (appended + 1) = 1 .. appended \cup {appended + 1}
        /\ appended + 1 \notin 1 .. appended
    BY <2>1
  <2> QED BY <2>1, <2>2, <2>3 DEF Ledger
<1>6. CASE Exit \/ Crash
  <2>1. /\ lost' = lost \cup InMemory \cup dropIds /\ buf' = {} /\ unflushed' = <<>>
        /\ dropIds' = {} /\ UNCHANGED <<dbVars, appended>>
    BY <1>6 DEF Exit, Crash, Die
  <2>2. Ids(Pending)' = Ids(Pending) /\ AllGone' = AllGone
    BY <2>1, DbSame, QuietReadings
  <2>3. Fresh' = {}
    BY <2>1, QueuedNone DEF Fresh
  <2>4. Away' = Away \cup buf \cup Fresh
    BY <2>1, <2>2, InMemoryIs DEF Away
  <2>5. (buf \cup Fresh) \cap Ids(Pending) = {}
    BY Apart
  <2> QED BY <2>1, <2>2, <2>3, <2>4, <2>5 DEF Ledger
<1>7. CASE Cancel \/ PollersDone \/ Open \/ Damage \/ UNCHANGED vars
  <2>1. UNCHANGED <<buf, unflushed, pc, appended, lost, dropIds>>
    BY <1>7 DEF Cancel, PollersDone, Open, Damage, vars, memVars, restVars
  <2>2. DbQuiet
    <3>1. CASE Damage
      BY <3>1, Damaged DEF Damage, DbQuiet, Shape
    <3>2. CASE ~Damage
      BY <1>7, <3>2, DbSame DEF Cancel, PollersDone, Open, vars
    <3> QED BY <3>1, <3>2
  <2> QED BY <2>1, <2>2, LedgerSame DEF Fresh, WrittenNow
<1> QED BY <1>3, <1>4, <1>5, <1>6, <1>7, FlushLedger DEF Next

LEMMA LedgerAlways == Spec => []Ledger
<1>1. Init => Ledger
  <2> SUFFICES ASSUME Init PROVE Ledger
    OBVIOUS
  <2>1. /\ Pending = {} /\ buf = {} /\ unflushed = <<>> /\ DOMAIN gone = {} /\ lost = {}
        /\ dropIds = {} /\ appended = 0
    BY DEF Init, Pending
  <2>2. Ids(Pending) = {} /\ Fresh = {}
    BY <2>1, QueuedNone DEF Ids, Fresh
  <2>3. \A w : GoneIds(w) = {}
    BY <2>1 DEF GoneIds
  <2>4. Away = {}
    BY <2>1, <2>3 DEF Away, AllGone
  <2> QED BY <2>1, <2>2, <2>4 DEF Ledger
<1> QED BY <1>1, ShapeAlways, OrderedAlways, StepLedger, PTL DEF Spec

\* Two disjoint finite sets.
LEMMA DisjointSum ==
    ASSUME NEW A, NEW B, IsFiniteSet(A), IsFiniteSet(B), A \cap B = {}
    PROVE  /\ IsFiniteSet(A \cup B)
           /\ Cardinality(A) \in Nat /\ Cardinality(B) \in Nat
           /\ Cardinality(A \cup B) = Cardinality(A) + Cardinality(B)
<1>1. /\ IsFiniteSet(A \cup B)
      /\ Cardinality(A \cup B) = Cardinality(A) + Cardinality(B) - Cardinality(A \cap B)
  BY FS_Union
<1>2. Cardinality(A \cap B) = 0
  BY FS_EmptySet
<1>3. Cardinality(A) \in Nat /\ Cardinality(B) \in Nat
  BY FS_CardinalityType
<1> QED BY <1>1, <1>2, <1>3

\* Every appended reading is in exactly one place: in memory, stored, deleted for a
\* reason, dropped, or lost with a process that ended before it was stored.
THEOREM ReadingsAreAccounted == Spec => []Accounted
<1>1. Shape /\ Ordered /\ Ledger => Accounted
  <2> SUFFICES ASSUME Shape, Ordered, Ledger PROVE Accounted
    OBVIOUS
  <2> DEFINE M == InMemory
             R == Ids(Pending)
  <2>1. M = buf \cup Fresh /\ M \cap R = {} /\ appended \in Nat
    <3>1. M = buf \cup Fresh
      BY InMemoryIs
    <3>2. appended \in Nat
      BY QueueAssumption DEF Shape, RestOK
    <3> QED BY <3>1, <3>2, Apart
  <2>2. Away = AllGone \cup Vanished /\ AllGone \cap Vanished = {}
    BY DEF Away, Vanished
  <2> HIDE DEF M, R
  <2>3. 1 .. appended = M \cup R \cup AllGone \cup Vanished
    BY <2>1, <2>2 DEF Ledger, R
  <2>4. (M \cup R) \cap (AllGone \cup Vanished) = {}
    BY <2>1, <2>2 DEF Ledger, R
  <2>5. IsFiniteSet(1 .. appended) /\ Cardinality(1 .. appended) = appended
    BY <2>1, FS_Interval
  <2>6. IsFiniteSet(M) /\ IsFiniteSet(R) /\ IsFiniteSet(AllGone) /\ IsFiniteSet(Vanished)
    BY <2>3, <2>5, FS_Subset
  <2>7. /\ IsFiniteSet(M \cup R) /\ Cardinality(M \cup R) = Cardinality(M) + Cardinality(R)
        /\ Cardinality(M) \in Nat /\ Cardinality(R) \in Nat
    BY <2>1, <2>6, DisjointSum
  <2>8. /\ IsFiniteSet(AllGone \cup Vanished)
        /\ Cardinality(AllGone \cup Vanished) = Cardinality(AllGone) + Cardinality(Vanished)
        /\ Cardinality(AllGone) \in Nat /\ Cardinality(Vanished) \in Nat
    BY <2>2, <2>6, DisjointSum
  <2>9. Cardinality((M \cup R) \cup (AllGone \cup Vanished))
           = Cardinality(M \cup R) + Cardinality(AllGone \cup Vanished)
    BY <2>4, <2>7, <2>8, DisjointSum
  <2>10. (M \cup R) \cup (AllGone \cup Vanished) = 1 .. appended
    BY <2>3
  <2>11. Cardinality(M) + Cardinality(R) + Cardinality(AllGone) + Cardinality(Vanished)
           = appended
    <3>1. Cardinality(M \cup R) + Cardinality(AllGone \cup Vanished) = appended
      BY <2>5, <2>9, <2>10
    <3> QED BY <2>7, <2>8, <3>1
  <2> QED BY <2>3, <2>11 DEF Accounted, M, R
<1> QED BY <1>1, ShapeAlways, OrderedAlways, LedgerAlways, PTL

\* The counters.  A deletion is due only while its goroutine is on its way to mu, and
\* a process that is down has no goroutines.
DueInv ==
    /\ pc["forwarder"] \notin Tallies =>
         delta["forwarder"].chunks = 0 /\ delta["forwarder"].readings = 0
    /\ pc["maint"] \notin Tallies => delta["maint"].chunks = 0 /\ delta["maint"].readings = 0
    /\ pc["forwarder"] # "evicted" /\ pc["maint"] \notin {"acked", "discarded"}
DownInv == up = "down" => dropIds = {} /\ \A p \in Procs : pc[p] = "idle"

\* A process that is down has dropped what it held and starts from idle.
LEMMA StepDown == Shape /\ DownInv /\ [Next]_vars => DownInv'
<1> SUFFICES ASSUME Shape, DownInv, [Next]_vars, up' = "down"
             PROVE  dropIds' = {} /\ \A p \in Procs : pc'[p] = "idle"
  BY DEF DownInv
<1>1. CASE Exit \/ Crash
  BY <1>1 DEF Exit, Crash, Die
<1>2. CASE ~(Exit \/ Crash)
  <2>1. up = "down"
    <3>1. CASE Forward
      BY <3>1, ForwardFrame
    <3>2. CASE Maintain
      BY <3>2, MaintFrame DEF restVars
    <3>3. ASSUME NEW p \in Callers, Flush(p) PROVE up' = up
      BY <3>3, FlushFrame DEF restVars
    <3>4. CASE AppendReading \/ Cancel \/ PollersDone \/ Open \/ Damage \/ UNCHANGED vars
      BY <3>4 DEF AppendReading, Cancel, PollersDone, Open, Damage, vars, restVars
    <3> QED BY <1>2, <3>1, <3>2, <3>3, <3>4 DEF Next
  <2>2. dropIds = {} /\ \A p \in Procs : pc[p] = "idle"
    BY <2>1 DEF DownInv
  <2>3. ~Forward
    BY <2>1, <2>2, Processes
       DEF Forward, ReadBatch, Discard, DiscardCount, Send, Ack, AckCount, RefreshBounds,
           ReadOldest, ReadNewest, SetBounds
  <2>4. ~Maintain
    BY <2>1, <2>2, Processes
       DEF Maintain, MaintStart, Vacuum, Measure, EvictEstimate, EvictCut, EvictDelete,
           EvictTally, RefreshBounds, ReadOldest, ReadNewest, SetBounds
  <2>5. \A p \in Callers : ~Flush(p)
    BY <2>1, <2>2, Processes DEF Flush, FlushTake, FlushInsert, FlushDone, FlushFailed, MayFlush
  <2>6. Damage \/ UNCHANGED vars
    BY <1>2, <2>1, <2>3, <2>4, <2>5 DEF Next, AppendReading, Cancel, PollersDone, Open
  <2>7. UNCHANGED <<dropIds, pc>>
    BY <2>6 DEF Damage, vars, memVars
  <2> QED BY <2>2, <2>7
<1> QED BY <1>1, <1>2

\* Every step keeps what a goroutine still owes mem at the labels of a deletion.
LEMMA StepDue == Shape /\ DueInv /\ [Next]_vars => DueInv'
<1> SUFFICES ASSUME Shape, DueInv, [Next]_vars PROVE DueInv'
  OBVIOUS
<1> USE DEF Tallies
<1>1. ASSUME UNCHANGED delta, \A p \in Deleters, l \in Tallies : pc'[p] = l <=> pc[p] = l
      PROVE  DueInv'
  BY <1>1, Processes DEF DueInv
<1>2. ASSUME BooksQuiet PROVE DueInv'
  BY <1>1, <1>2 DEF BooksQuiet
<1>3. DeleterOK /\ MemOK
  BY DEF Shape
<1>4. ASSUME NEW p \in Deleters, NEW S, NEW why \in Tallies, Removed(p, S, why),
             p = "maint" <=> why = "evicted"
      PROVE  DueInv'
  <2>1. pc'[p] = why /\ \A q \in Deleters \ {p} : pc'[q] = pc[q] /\ delta'[q] = delta[q]
    BY <1>3, <1>4, Processes DEF Removed, DeleterOK
  <2> QED BY <1>4, <2>1 DEF DueInv, Deleters
<1>5. ASSUME NEW p \in Deleters, NEW why \in Tallies, Tallied(p, why) PROVE DueInv'
  <2>1. /\ pc'[p] = "oldest" /\ \A q \in Deleters \ {p} : pc'[q] = pc[q]
        /\ TakeOff(p, why = "evicted", why = "discarded")
    BY <1>5, Processes DEF Tallied
  <2>2. /\ delta'[p].chunks = 0 /\ delta'[p].readings = 0
        /\ \A q \in Deleters \ {p} : delta'[q] = delta[q]
    BY <1>3, <2>1 DEF TakeOff, DeleterOK
  <2> QED BY <2>1, <2>2 DEF DueInv, Deleters
<1>6. CASE Forward
  BY <1>2, <1>4, <1>5, <1>6, ForwardBooks, Processes
<1>7. CASE Maintain
  BY <1>2, <1>4, <1>5, <1>7, MaintBooks, Processes
<1>8. ASSUME NEW p \in Callers, Flush(p) PROVE DueInv'
  <2>1. UNCHANGED delta /\ \A q \in Deleters : pc'[q] = pc[q]
    BY <1>8, FlushFrame, Processes DEF Deleters
  <2> QED BY <1>1, <2>1
<1>9. CASE Exit \/ Crash
  <2>1. delta' = NoLocals.delta /\ pc' = [p \in Procs |-> "idle"]
    BY <1>9 DEF Exit, Crash, Die
  <2> QED BY <2>1, Processes DEF DueInv, NoLocals
<1>10. CASE AppendReading \/ Cancel \/ PollersDone \/ Open \/ Damage \/ UNCHANGED vars
  <2>1. UNCHANGED <<delta, pc>>
    BY <1>10 DEF AppendReading, Cancel, PollersDone, Open, Damage, vars, localVars
  <2> QED BY <1>1, <2>1
<1> QED BY <1>6, <1>7, <1>8, <1>9, <1>10 DEF Next

\* What the insertions still due are.
DueChunks == IF WrittenNow THEN Len(unflushed) ELSE 0
DueReadings == IF WrittenNow THEN Cardinality(QueuedIds(unflushed)) ELSE 0
LEMMA InsertsDueAre ==
    ASSUME Shape
    PROVE  InsertsDue("chunks") = DueChunks /\ InsertsDue("readings") = DueReadings
<1> DEFINE B == {batch[p] : p \in {q \in Callers : pc[q] = "written"}}
           b == CHOOSE x \in B : TRUE
<1>1. CASE WrittenNow
  <2>1. PICK p \in Callers : pc[p] = "written"
    BY <1>1 DEF WrittenNow
  <2>2. B # {} /\ \A x \in B : x = unflushed
    BY <1>1, <2>1, WrittenBatch
  <2>3. b = unflushed
    <3> HIDE DEF B
    <3> QED BY <2>2
  <2>4. ~\A q \in Callers : pc[q] # "written"
    BY <2>1
  <2>5. InsertsDue("chunks") = IF \A q \in Callers : pc[q] # "written" THEN 0 ELSE Len(b)
    BY DEF InsertsDue
  <2>6. InsertsDue("readings") = IF \A q \in Callers : pc[q] # "written" THEN 0
                                 ELSE Cardinality(QueuedIds(b))
    BY DEF InsertsDue
  <2> HIDE DEF b
  <2> QED BY <1>1, <2>3, <2>4, <2>5, <2>6 DEF DueChunks, DueReadings
<1>2. CASE ~WrittenNow
  BY <1>2 DEF InsertsDue, DueChunks, DueReadings, WrittenNow
<1> QED BY <1>1, <1>2
-----------------------------------------------------------------------------
\* CountersInStep, in two halves: meta against the tables, mem against meta.
MetaInStep ==
    /\ meta.chunks = Cardinality(Pending)
    /\ meta.readings = Cardinality(Ids(Pending))
    /\ meta.evicted = Cardinality(GoneIds("evicted"))
MemInStep ==
    up # "down" =>
      /\ "chunks" \notin unread =>
           mem.chunks = meta.chunks - DueChunks + DeletesDue("chunks")
      /\ "readings" \notin unread =>
           mem.readings = meta.readings - DueReadings + DeletesDue("readings")
      /\ "evicted" \notin unread => mem.evicted = meta.evicted - delta["maint"].readings
      /\ mem.dropped = Cardinality(dropIds) - DiscardsDue

LEMMA SetMinus ==
    ASSUME NEW A, IsFiniteSet(A), NEW S \in SUBSET A
    PROVE  /\ Cardinality(A \ S) = Cardinality(A) - Cardinality(S)
           /\ Cardinality(A) \in Nat /\ Cardinality(S) \in Nat
<1>1. Cardinality(A \ S) = Cardinality(A) - Cardinality(A \cap S)
  BY FS_Difference
<1>2. A \cap S = S /\ IsFiniteSet(S)
  BY FS_Subset
<1> QED BY <1>1, <1>2, FS_CardinalityType

\* All the places are finite.
LEMMA PlacesFinite ==
    ASSUME Shape, Ordered, Ledger
    PROVE  /\ IsFiniteSet(buf) /\ IsFiniteSet(QueuedIds(unflushed)) /\ IsFiniteSet(Ids(Pending))
           /\ IsFiniteSet(Pending) /\ IsFiniteSet(GoneIds("evicted")) /\ IsFiniteSet(dropIds)
           /\ GoneIds("evicted") \subseteq Away /\ dropIds \subseteq Away
<1>1. appended \in Nat
  BY QueueAssumption DEF Shape, RestOK
<1>2. IsFiniteSet(1 .. appended)
  BY <1>1, FS_Interval
<1>3. GoneIds("evicted") \subseteq Away /\ dropIds \subseteq Away /\ Away \subseteq 1 .. appended
  BY DEF Away, AllGone, Ledger
<1>4. /\ buf \subseteq 1 .. appended /\ QueuedIds(unflushed) \subseteq 1 .. appended
      /\ Ids(Pending) \subseteq 1 .. appended
  BY DEF Ordered
<1>5. IsFiniteSet(Pending)
  BY RowSets DEF Shape
<1>6. /\ IsFiniteSet(buf) /\ IsFiniteSet(QueuedIds(unflushed)) /\ IsFiniteSet(Ids(Pending))
      /\ IsFiniteSet(GoneIds("evicted")) /\ IsFiniteSet(dropIds)
  BY <1>2, <1>3, <1>4, FS_Subset
<1> QED BY <1>3, <1>5, <1>6

\* meta in step with the tables, case by case.
LEMMA MetaQuiet == ASSUME MetaInStep, DbQuiet PROVE MetaInStep'
<1>1. Ids(Pending)' = Ids(Pending) /\ GoneIds("evicted")' = GoneIds("evicted")
  BY QuietReadings
<1> QED BY <1>1 DEF MetaInStep, DbQuiet

\* What a deletion takes off meta.
LEMMA DeletedMeta ==
    ASSUME Shape, NEW S \in SUBSET Pending, NEW why, DeleteRows(S, why)
    PROVE  /\ meta'.chunks = meta.chunks - Cardinality(S)
           /\ meta'.readings = meta.readings - Cardinality(Ids(S))
           /\ meta'.evicted = IF why = "evicted" THEN meta.evicted + Cardinality(Ids(S))
                              ELSE meta.evicted
           /\ Pending' = Pending \ S
<1> DEFINE c == Cardinality(S)
           r == Cardinality(Ids(S))
<1>1. meta \in MetaType
  BY DEF Shape, DbOK, MetaType
<1>2. /\ meta' = [meta EXCEPT !.chunks = @ - c, !.readings = @ - r,
                              !.evicted = IF why = "evicted" THEN @ + r ELSE @]
      /\ rows' = [s \in Pending \ S |-> rows[s]]
  BY DEF DeleteRows
<1> HIDE DEF c, r
<1>3. /\ meta'.chunks = meta.chunks - c /\ meta'.readings = meta.readings - r
      /\ meta'.evicted = IF why = "evicted" THEN meta.evicted + r ELSE meta.evicted
  BY <1>1, <1>2 DEF MetaType
<1>4. Pending' = Pending \ S
  BY <1>2 DEF Pending
<1> QED BY <1>3, <1>4 DEF c, r

LEMMA MetaRemoved ==
    ASSUME Shape, Ordered, Ledger, MetaInStep, NEW S \in SUBSET Pending,
           NEW why \in {"acked", "evicted", "discarded"}, DeleteRows(S, why)
    PROVE  MetaInStep'
<1>1. /\ meta'.chunks = meta.chunks - Cardinality(S)
      /\ meta'.readings = meta.readings - Cardinality(Ids(S))
      /\ meta'.evicted = IF why = "evicted" THEN meta.evicted + Cardinality(Ids(S))
                         ELSE meta.evicted
      /\ Pending' = Pending \ S
  BY DeletedMeta
<1>2. /\ Ids(Pending)' = Ids(Pending) \ Ids(S) /\ Ids(S) \subseteq Ids(Pending)
  BY DeletedReadings
<1>3. GoneIds("evicted")' = IF why = "evicted" THEN GoneIds("evicted") \cup Ids(S)
                            ELSE GoneIds("evicted")
  BY DeletedSeqs DEF Shape
<1>4. Cardinality(Pending') = Cardinality(Pending) - Cardinality(S)
  BY <1>1, PlacesFinite, SetMinus
<1>5. Cardinality(Ids(Pending)') = Cardinality(Ids(Pending)) - Cardinality(Ids(S))
  BY <1>2, PlacesFinite, SetMinus
<1>6. IsFiniteSet(Ids(S)) /\ GoneIds("evicted") \cap Ids(S) = {}
  <2>1. IsFiniteSet(Ids(S))
    BY <1>2, PlacesFinite, FS_Subset
  <2>2. GoneIds("evicted") \cap Ids(S) = {}
    BY <1>2, PlacesFinite DEF Ledger
  <2> QED BY <2>1, <2>2
<1>7. Cardinality(GoneIds("evicted") \cup Ids(S))
         = Cardinality(GoneIds("evicted")) + Cardinality(Ids(S))
  BY <1>6, PlacesFinite, DisjointSum
<1> QED BY <1>1, <1>3, <1>4, <1>5, <1>7 DEF MetaInStep

\* What the flush transaction adds to meta.
LEMMA StoredMeta ==
    ASSUME Shape, NEW p \in Callers, Stored(p)
    PROVE  /\ meta'.chunks = meta.chunks + Len(unflushed)
           /\ meta'.readings = meta.readings + Cardinality(QueuedIds(unflushed))
           /\ meta'.evicted = meta.evicted
<1> DEFINE c == Len(unflushed)
           r == Cardinality(QueuedIds(unflushed))
<1>1. unflushed \in Seq(Chunk) /\ meta \in MetaType
  BY DEF Shape, MemOK, DbOK, MetaType
<1>2. c \in Int /\ r \in Int
  BY <1>1, QueuedReadings
<1>3. meta' = [meta EXCEPT !.chunks = @ + c, !.readings = @ + r]
  BY DEF Stored
<1> HIDE DEF c, r
<1>4. /\ meta'.chunks = meta.chunks + c /\ meta'.readings = meta.readings + r
      /\ meta'.evicted = meta.evicted
  BY <1>1, <1>2, <1>3 DEF MetaType
<1> QED BY <1>4 DEF c, r

LEMMA MetaStored ==
    ASSUME Shape, Ordered, Ledger, MetaInStep, NEW p \in Callers, Stored(p)
    PROVE  MetaInStep'
<1> DEFINE c == Len(unflushed)
<1>1. /\ unflushed \in Seq(Chunk) /\ c \in Nat /\ nextSeq \in Nat
      /\ Pending \subseteq 1 .. (nextSeq - 1)
  <2>1. unflushed \in Seq(Chunk)
    BY DEF Shape, MemOK
  <2>2. nextSeq \in Nat /\ Pending \subseteq 1 .. (nextSeq - 1)
    BY DEF Shape, DbOK
  <2> QED BY <2>1, <2>2
<1>2. /\ Pending' = Pending \cup nextSeq .. (nextSeq + c - 1)
  <2>1. DbOK
    BY DEF Shape
  <2> QED BY <1>1, <2>1, Inserted DEF Stored
<1>3. /\ meta'.chunks = meta.chunks + c
      /\ meta'.readings = meta.readings + Cardinality(QueuedIds(unflushed))
      /\ meta'.evicted = meta.evicted
  BY StoredMeta
<1> HIDE DEF c
<1>4. IsFiniteSet(nextSeq .. (nextSeq + c - 1))
      /\ Cardinality(nextSeq .. (nextSeq + c - 1)) = c
  <2>1. nextSeq \in Int /\ nextSeq + c - 1 \in Int
    BY <1>1
  <2>2. IsFiniteSet(nextSeq .. (nextSeq + c - 1))
        /\ Cardinality(nextSeq .. (nextSeq + c - 1)) =
              IF nextSeq > nextSeq + c - 1 THEN 0 ELSE (nextSeq + c - 1) - nextSeq + 1
    BY <2>1, FS_Interval
  <2> QED BY <1>1, <2>2
<1>5. Pending \cap nextSeq .. (nextSeq + c - 1) = {}
  BY <1>1
<1>6. Cardinality(Pending') = Cardinality(Pending) + c
  BY <1>2, <1>4, <1>5, PlacesFinite, DisjointSum
<1>7. /\ Ids(Pending)' = Ids(Pending) \cup QueuedIds(unflushed)
      /\ Ids(Pending) \cap QueuedIds(unflushed) = {}
  BY StoredReadings, Apart DEF Fresh
<1>8. Cardinality(Ids(Pending)') = Cardinality(Ids(Pending)) + Cardinality(QueuedIds(unflushed))
  BY <1>7, PlacesFinite, DisjointSum
<1>9. GoneIds("evicted")' = GoneIds("evicted")
  BY GoneStays DEF Stored
<1> QED BY <1>3, <1>6, <1>8, <1>9 DEF MetaInStep

\* meta is in step with the tables after every step.
LEMMA StepMeta == Shape /\ Ordered /\ Ledger /\ MetaInStep /\ [Next]_vars => MetaInStep'
<1> SUFFICES ASSUME Shape, Ordered, Ledger, MetaInStep, [Next]_vars PROVE MetaInStep'
  OBVIOUS
<1>1. CASE DbQuiet
  BY <1>1, MetaQuiet
<1>2. ASSUME NEW p \in Callers, Stored(p) PROVE MetaInStep'
  BY <1>2, MetaStored
<1>3. CASE Discard /\ Min(bad) \in Pending /\ DeleteRows({Min(bad)}, "discarded")
  <2>1. {Min(bad)} \in SUBSET Pending
    BY <1>3
  <2> QED BY <1>3, <2>1, MetaRemoved
<1>4. CASE Ack /\ DeleteRows(Through(Max(msg.seqs)), "acked")
  BY <1>4, ThroughRows, MetaRemoved
<1>5. CASE EvictDelete /\ DeleteRows(Through(cut), "evicted")
  BY <1>5, ThroughRows, MetaRemoved
<1> QED BY <1>1, <1>2, <1>3, <1>4, <1>5, RowSteps

\* mem in step with meta, case by case.
LEMMA MemInStepSame ==
    ASSUME MemInStep, MemSame, UNCHANGED <<unflushed, WrittenNow, meta, delta, dropIds, unread>>,
           pc'["forwarder"] = "discarded" <=> pc["forwarder"] = "discarded",
           up' # "down" => up # "down"
    PROVE  MemInStep'
<1>1. /\ DueChunks' = DueChunks /\ DueReadings' = DueReadings /\ DiscardsDue' = DiscardsDue
      /\ DeletesDue("chunks")' = DeletesDue("chunks")
      /\ DeletesDue("readings")' = DeletesDue("readings")
  BY DEF DueChunks, DueReadings, DiscardsDue, DeletesDue
<1> QED BY <1>1 DEF MemInStep, MemSame

\* The numbers the counters are made of are integers.
LEMMA CounterTypes ==
    ASSUME Shape
    PROVE  /\ mem.chunks \in Int /\ mem.readings \in Int /\ mem.evicted \in Int
           /\ mem.dropped \in Int
           /\ meta.chunks \in Int /\ meta.readings \in Int /\ meta.evicted \in Int
           /\ \A p \in Deleters : delta[p].chunks \in Nat /\ delta[p].readings \in Nat
<1>1. mem \in MemType
  BY DEF Shape, MemOK
<1>2. meta \in MetaType
  BY DEF Shape, DbOK, MetaType
<1>3. DeleterOK
  BY DEF Shape
<1>4. \A p \in Deleters : delta[p].chunks \in Nat /\ delta[p].readings \in Nat
  BY <1>3 DEF DeleterOK
<1> QED BY <1>1, <1>2, <1>4 DEF MemType, MetaType

\* FlushTake and FlushFailed: the readings given up are counted as dropped.
LEMMA DroppedCounted ==
    ASSUME Shape, Ordered, Ledger, MemInStep, NEW D, D \subseteq buf \cup Fresh,
           mem' = [mem EXCEPT !.dropped = @ + Cardinality(D)], dropIds' = dropIds \cup D,
           ~WrittenNow, ~WrittenNow', UNCHANGED <<meta, delta, unread, up>>,
           pc'["forwarder"] = pc["forwarder"]
    PROVE  MemInStep'
<1> DEFINE d == Cardinality(D)
<1>1. IsFiniteSet(D) /\ dropIds \cap D = {}
  <2>1. IsFiniteSet(buf) /\ IsFiniteSet(Fresh) /\ IsFiniteSet(dropIds) /\ dropIds \subseteq Away
    BY PlacesFinite, FS_EmptySet DEF Fresh
  <2>2. IsFiniteSet(buf \cup Fresh)
    BY <2>1, FS_Union
  <2>3. dropIds \cap D = {}
    BY <2>1 DEF Ledger
  <2> QED BY <2>2, <2>3, FS_Subset
<1>2. Cardinality(dropIds \cup D) = Cardinality(dropIds) + d
  BY <1>1, PlacesFinite, DisjointSum
<1>3. d \in Nat /\ Cardinality(dropIds) \in Nat
  BY <1>1, PlacesFinite, FS_CardinalityType
<1>4. mem \in MemType
  BY DEF Shape, MemOK
<1> HIDE DEF d
<1>5. mem' = [mem EXCEPT !.dropped = @ + d]
  BY DEF d
<1>6. /\ mem'.chunks = mem.chunks /\ mem'.readings = mem.readings
      /\ mem'.evicted = mem.evicted /\ mem'.dropped = mem.dropped + d
  BY <1>4, <1>5 DEF MemType
<1>7. /\ DueChunks' = DueChunks /\ DueReadings' = DueReadings /\ DiscardsDue' = DiscardsDue
      /\ DeletesDue("chunks")' = DeletesDue("chunks")
      /\ DeletesDue("readings")' = DeletesDue("readings")
  BY DEF DueChunks, DueReadings, DiscardsDue, DeletesDue
<1>8. mem.dropped \in Int /\ DiscardsDue \in Int
  BY CounterTypes, Processes DEF DiscardsDue
<1>9. mem.dropped = Cardinality(dropIds) - DiscardsDue
        => mem'.dropped = Cardinality(dropIds') - DiscardsDue'
  BY <1>2, <1>3, <1>6, <1>7, <1>8
<1> QED BY <1>6, <1>7, <1>9 DEF MemInStep

\* A batch is due from its commit on.
LEMMA StoredInStep ==
    ASSUME Shape, MemInStep, NEW p \in Callers, Stored(p)
    PROVE  MemInStep'
<1>1. /\ UNCHANGED <<mem, delta, unread, up, unflushed, dropIds>>
      /\ pc \in [Procs -> CallerLabels \cup ForwarderLabels \cup MaintLabels]
      /\ pc'["forwarder"] = pc["forwarder"]
  <2>1. pc \in [Procs -> CallerLabels \cup ForwarderLabels \cup MaintLabels]
    BY DEF Shape, RestOK
  <2> QED BY <2>1, Processes DEF Stored, memVars, localVars, restVars
<1>2. ~WrittenNow /\ WrittenNow'
  <2>1. \A q \in Callers : pc[q] # "written"
    BY Processes DEF Stored, Shape, FlushOK, Busy
  <2>2. pc'[p] = "written"
    BY <1>1, Processes DEF Stored
  <2> QED BY <2>1, <2>2 DEF WrittenNow
<1> DEFINE c == Len(unflushed)
           r == Cardinality(QueuedIds(unflushed))
<1>3. /\ meta'.chunks = meta.chunks + c /\ meta'.readings = meta.readings + r
      /\ meta'.evicted = meta.evicted
  BY StoredMeta
<1>4. c \in Int /\ r \in Int
  <2>1. unflushed \in Seq(Chunk)
    BY DEF Shape, MemOK
  <2> QED BY <2>1, QueuedReadings
<1>5. /\ DueChunks = 0 /\ DueReadings = 0 /\ DueChunks' = c /\ DueReadings' = r
  BY <1>1, <1>2 DEF DueChunks, DueReadings
<1>6. /\ DiscardsDue' = DiscardsDue
      /\ DeletesDue("chunks")' = DeletesDue("chunks")
      /\ DeletesDue("readings")' = DeletesDue("readings")
  BY <1>1 DEF DiscardsDue, DeletesDue
<1>7. /\ meta.chunks \in Int /\ meta.readings \in Int
      /\ DeletesDue("chunks") \in Int /\ DeletesDue("readings") \in Int
  BY CounterTypes, Processes DEF DeletesDue
<1> HIDE DEF c, r
<1>8. /\ meta'.chunks - DueChunks' = meta.chunks - DueChunks
      /\ meta'.readings - DueReadings' = meta.readings - DueReadings
  BY <1>3, <1>4, <1>5, <1>7
<1> QED BY <1>1, <1>3, <1>6, <1>8 DEF MemInStep

\* Once Flush has mu again, its batch is due no more.
LEMMA DoneInStep ==
    ASSUME Shape, MemInStep, NEW p \in Callers, FlushDone(p)
    PROVE  MemInStep'
<1> DEFINE c == Len(unflushed)
           r == Cardinality(QueuedIds(unflushed))
<1>1. WrittenNow /\ ~WrittenNow'
  BY Finished
<1>2. batch[p] = unflushed
  BY <1>1, WrittenBatch DEF FlushDone
<1>3. UNCHANGED <<dbVars, delta, unread, up, dropIds>> /\ UNCHANGED meta
      /\ \E x, y : mem' = [mem EXCEPT !.chunks = @ + c, !.readings = @ + r,
                                      !.oldest = x, !.newest = y]
  BY <1>2 DEF FlushDone, restVars, dbVars
<1>4. pc'["forwarder"] = pc["forwarder"]
  BY FlushFrame, Processes DEF Flush
<1>5. c \in Int /\ r \in Int /\ mem \in MemType
  <2>1. unflushed \in Seq(Chunk) /\ mem \in MemType
    BY DEF Shape, MemOK
  <2> QED BY <2>1, QueuedReadings
<1>6. /\ DueChunks = c /\ DueReadings = r /\ DueChunks' = 0 /\ DueReadings' = 0
  BY <1>1 DEF DueChunks, DueReadings
<1>7. /\ DiscardsDue' = DiscardsDue
      /\ DeletesDue("chunks")' = DeletesDue("chunks")
      /\ DeletesDue("readings")' = DeletesDue("readings")
  BY <1>3, <1>4 DEF DiscardsDue, DeletesDue
<1> HIDE DEF c, r
<1>8. /\ mem'.chunks = mem.chunks + c /\ mem'.readings = mem.readings + r
      /\ mem'.evicted = mem.evicted /\ mem'.dropped = mem.dropped
  BY <1>3, <1>5 DEF MemType
<1>9. /\ meta.chunks \in Int /\ meta.readings \in Int
      /\ mem.chunks \in Int /\ mem.readings \in Int
      /\ DeletesDue("chunks") \in Int /\ DeletesDue("readings") \in Int
  BY CounterTypes, Processes DEF DeletesDue
<1>10. mem.chunks = meta.chunks - DueChunks + DeletesDue("chunks")
         => mem'.chunks = meta'.chunks - DueChunks' + DeletesDue("chunks")'
  BY <1>3, <1>5, <1>6, <1>7, <1>8, <1>9
<1>11. mem.readings = meta.readings - DueReadings + DeletesDue("readings")
         => mem'.readings = meta'.readings - DueReadings' + DeletesDue("readings")'
  BY <1>3, <1>5, <1>6, <1>7, <1>8, <1>9
<1> QED BY <1>3, <1>7, <1>8, <1>10, <1>11 DEF MemInStep
-----------------------------------------------------------------------------
\* A deletion is due from its commit on.
LEMMA RemovedInStep ==
    ASSUME Shape, Ordered, Ledger, DueInv, MemInStep, NEW p \in Deleters, NEW S,
           NEW why \in Tallies, Removed(p, S, why), p = "maint" <=> why = "evicted"
    PROVE  MemInStep'
<1> DEFINE c == Cardinality(S)
           r == Cardinality(Ids(S))
<1>1. /\ S \in SUBSET Pending /\ DeleteRows(S, why) /\ why \in {"acked", "evicted", "discarded"}
      /\ delta' = [delta EXCEPT ![p] = [chunks |-> c, readings |-> r]]
      /\ dropIds' = IF why = "discarded" THEN dropIds \cup Ids(S) ELSE dropIds
      /\ MemorySame /\ UNCHANGED <<mem, unread, up>>
      /\ pc[p] \notin Tallies /\ pc'[p] = why
      /\ \A q \in Procs \ {p} : pc'[q] = pc[q]
  BY DEF Removed, Tallies
<1>2. /\ meta'.chunks = meta.chunks - c /\ meta'.readings = meta.readings - r
      /\ meta'.evicted = IF why = "evicted" THEN meta.evicted + r ELSE meta.evicted
  BY <1>1, DeletedMeta
<1>3. c \in Nat /\ r \in Nat
  <2>1. DbOK
    BY DEF Shape
  <2> QED BY <1>1, <2>1, RowSets
<1>4. /\ delta[p].chunks = 0 /\ delta[p].readings = 0
  BY <1>1, Processes DEF DueInv, Deleters
<1>5. /\ delta'[p].chunks = c /\ delta'[p].readings = r
      /\ \A q \in Deleters \ {p} : delta'[q] = delta[q]
  <2>1. DeleterOK
    BY DEF Shape
  <2> QED BY <1>1, <2>1 DEF DeleterOK
<1>6. DueChunks' = DueChunks /\ DueReadings' = DueReadings
  BY <1>1 DEF MemorySame, DueChunks, DueReadings
<1>7. Cardinality(dropIds \cup Ids(S)) = Cardinality(dropIds) + r
  <2>1. Ids(S) \subseteq Ids(Pending)
    BY <1>1, DeletedReadings
  <2>2. IsFiniteSet(Ids(S))
    BY <2>1, PlacesFinite, FS_Subset
  <2>3. dropIds \cap Ids(S) = {}
    BY <2>1, PlacesFinite DEF Ledger
  <2> QED BY <2>2, <2>3, PlacesFinite, DisjointSum
<1>8. Cardinality(dropIds) \in Nat
  BY PlacesFinite, FS_CardinalityType
<1> HIDE DEF c, r
<1>9. /\ meta.chunks \in Int /\ meta.readings \in Int /\ meta.evicted \in Int
      /\ mem.chunks \in Int /\ mem.readings \in Int /\ mem.evicted \in Int /\ mem.dropped \in Int
      /\ delta["forwarder"].chunks \in Nat /\ delta["forwarder"].readings \in Nat
      /\ delta["maint"].chunks \in Nat /\ delta["maint"].readings \in Nat
  BY CounterTypes, Processes
<1>10. /\ DeletesDue("chunks")' = DeletesDue("chunks") + c
       /\ DeletesDue("readings")' = DeletesDue("readings") + r
       /\ DeletesDue("chunks") \in Int /\ DeletesDue("readings") \in Int
  <2>1. CASE p = "forwarder"
    <3>1. delta'["maint"] = delta["maint"]
      BY <1>5, <2>1, Processes
    <3>2. /\ delta'["forwarder"].chunks = c /\ delta["forwarder"].chunks = 0
          /\ delta'["forwarder"].readings = r /\ delta["forwarder"].readings = 0
      BY <1>4, <1>5, <2>1
    <3> QED BY <1>3, <1>9, <3>1, <3>2 DEF DeletesDue
  <2>2. CASE p = "maint"
    <3>1. delta'["forwarder"] = delta["forwarder"]
      BY <1>5, <2>2, Processes
    <3>2. /\ delta'["maint"].chunks = c /\ delta["maint"].chunks = 0
          /\ delta'["maint"].readings = r /\ delta["maint"].readings = 0
      BY <1>4, <1>5, <2>2
    <3> QED BY <1>3, <1>9, <3>1, <3>2 DEF DeletesDue
  <2> QED BY <2>1, <2>2 DEF Deleters
<1>11. DueChunks \in Int /\ DueReadings \in Int
  <2>1. unflushed \in Seq(Chunk)
    BY DEF Shape, MemOK
  <2> QED BY <2>1, QueuedReadings DEF DueChunks, DueReadings
<1>12. /\ meta'.chunks - DueChunks' + DeletesDue("chunks")'
            = meta.chunks - DueChunks + DeletesDue("chunks")
       /\ meta'.readings - DueReadings' + DeletesDue("readings")'
            = meta.readings - DueReadings + DeletesDue("readings")
  BY <1>2, <1>3, <1>6, <1>9, <1>10, <1>11
<1>13. meta'.evicted - delta'["maint"].readings = meta.evicted - delta["maint"].readings
  <2>1. CASE p = "maint"
    BY <1>2, <1>3, <1>4, <1>5, <1>9, <2>1
  <2>2. CASE p = "forwarder"
    BY <1>2, <1>5, <2>2, Processes
  <2> QED BY <2>1, <2>2 DEF Deleters
<1>14. Cardinality(dropIds') - DiscardsDue' = Cardinality(dropIds) - DiscardsDue
  <2>1. CASE why = "discarded"
    <3>1. p = "forwarder"
      BY <2>1 DEF Deleters
    <3>2. DiscardsDue = 0 /\ DiscardsDue' = r
      BY <1>1, <1>5, <2>1, <3>1 DEF DiscardsDue, Tallies
    <3> QED BY <1>1, <1>3, <1>7, <1>8, <2>1, <3>2
  <2>2. CASE why = "acked"
    <3>1. p = "forwarder"
      BY <2>2 DEF Deleters
    <3>2. DiscardsDue = 0 /\ DiscardsDue' = 0
      BY <1>1, <2>2, <3>1 DEF DiscardsDue, Tallies
    <3> QED BY <1>1, <2>2, <3>2
  <2>3. CASE why = "evicted"
    <3>1. pc'["forwarder"] = pc["forwarder"] /\ delta'["forwarder"] = delta["forwarder"]
      BY <1>1, <1>5, <2>3, Processes
    <3>2. DiscardsDue' = DiscardsDue
      BY <3>1 DEF DiscardsDue
    <3> QED BY <1>1, <2>3, <3>2
  <2> QED BY <2>1, <2>2, <2>3 DEF Tallies
<1> QED BY <1>1, <1>12, <1>13, <1>14 DEF MemInStep

\* Once it is tallied it is due no more.
LEMMA TalliedInStep ==
    ASSUME Shape, DueInv, MemInStep, NEW p \in Deleters, NEW why \in Tallies, Tallied(p, why),
           Cardinality(dropIds) \in Nat
    PROVE  MemInStep'
<1> DEFINE c == delta[p].chunks
           r == delta[p].readings
<1>1. /\ pc[p] = why /\ pc'[p] = "oldest" /\ MemorySame /\ UNCHANGED <<dropIds, unread, up, meta>>
      /\ \A q \in Procs \ {p} : pc'[q] = pc[q]
      /\ TakeOff(p, why = "evicted", why = "discarded")
  BY DEF Tallied, DbQuiet
<1>2. /\ mem'.chunks = mem.chunks - c /\ mem'.readings = mem.readings - r
      /\ mem'.evicted = mem.evicted + (IF why = "evicted" THEN r ELSE 0)
      /\ mem'.dropped = mem.dropped + (IF why = "discarded" THEN r ELSE 0)
  <2>1. mem \in MemType
    BY DEF Shape, MemOK
  <2>2. mem' = [mem EXCEPT !.chunks = @ - c, !.readings = @ - r,
                           !.evicted = @ + (IF why = "evicted" THEN r ELSE 0),
                           !.dropped = @ + (IF why = "discarded" THEN r ELSE 0)]
    BY <1>1 DEF TakeOff
  <2> HIDE DEF c, r
  <2> QED BY <2>1, <2>2 DEF MemType
<1>3. /\ delta'[p].chunks = 0 /\ delta'[p].readings = 0
      /\ \A q \in Deleters \ {p} : delta'[q] = delta[q]
  <2>1. DeleterOK
    BY DEF Shape
  <2> QED BY <1>1, <2>1 DEF TakeOff, DeleterOK
<1>4. /\ meta.chunks \in Int /\ meta.readings \in Int /\ meta.evicted \in Int
      /\ mem.chunks \in Int /\ mem.readings \in Int /\ mem.evicted \in Int /\ mem.dropped \in Int
      /\ delta["forwarder"].chunks \in Nat /\ delta["forwarder"].readings \in Nat
      /\ delta["maint"].chunks \in Nat /\ delta["maint"].readings \in Nat
  BY CounterTypes, Processes
<1>5. p = "maint" <=> why = "evicted"
  BY <1>1 DEF DueInv, Deleters, Tallies
<1>6. DueChunks' = DueChunks /\ DueReadings' = DueReadings
  BY <1>1 DEF MemorySame, DueChunks, DueReadings
<1>7. DueChunks \in Int /\ DueReadings \in Int
  <2>1. unflushed \in Seq(Chunk)
    BY DEF Shape, MemOK
  <2> QED BY <2>1, QueuedReadings DEF DueChunks, DueReadings
<1>8. c \in Nat /\ r \in Nat
  BY CounterTypes
<1>9. /\ DeletesDue("chunks")' = DeletesDue("chunks") - c
      /\ DeletesDue("readings")' = DeletesDue("readings") - r
      /\ DeletesDue("chunks") \in Int /\ DeletesDue("readings") \in Int
  <2>1. CASE p = "forwarder"
    BY <1>3, <1>4, <2>1, Processes DEF DeletesDue
  <2>2. CASE p = "maint"
    BY <1>3, <1>4, <2>2, Processes DEF DeletesDue
  <2> QED BY <2>1, <2>2 DEF Deleters
<1>10. mem'.evicted + delta'["maint"].readings = mem.evicted + delta["maint"].readings
  <2>1. CASE p = "maint"
    BY <1>2, <1>3, <1>4, <1>5, <2>1
  <2>2. CASE p = "forwarder"
    BY <1>2, <1>3, <1>4, <1>5, <2>2, Processes
  <2> QED BY <2>1, <2>2 DEF Deleters
<1>11. mem'.dropped + DiscardsDue' = mem.dropped + DiscardsDue /\ DiscardsDue \in Int
  <2>1. CASE why = "discarded"
    BY <1>1, <1>2, <1>4, <1>5, <2>1 DEF DiscardsDue, Deleters
  <2>2. CASE why = "acked"
    BY <1>1, <1>2, <1>4, <1>5, <2>2 DEF DiscardsDue, Deleters
  <2>3. CASE why = "evicted"
    <3>1. pc'["forwarder"] = pc["forwarder"] /\ delta'["forwarder"] = delta["forwarder"]
      BY <1>1, <1>3, <1>5, <2>3, Processes
    <3>2. DiscardsDue' = DiscardsDue /\ DiscardsDue \in Int
      BY <1>4, <3>1 DEF DiscardsDue
    <3>3. mem'.dropped = mem.dropped
      BY <1>2, <1>4, <2>3
    <3> QED BY <3>2, <3>3
  <2> QED BY <2>1, <2>2, <2>3 DEF Tallies
<1>12. meta' = meta /\ dropIds' = dropIds /\ unread' = unread /\ up' = up
  BY <1>1
<1> HIDE DEF c, r
<1>13. mem.chunks = meta.chunks - DueChunks + DeletesDue("chunks")
         => mem'.chunks = meta'.chunks - DueChunks' + DeletesDue("chunks")'
  BY <1>2, <1>4, <1>6, <1>7, <1>8, <1>9, <1>12
<1>14. mem.readings = meta.readings - DueReadings + DeletesDue("readings")
         => mem'.readings = meta'.readings - DueReadings' + DeletesDue("readings")'
  BY <1>2, <1>4, <1>6, <1>7, <1>8, <1>9, <1>12
<1>15. mem.evicted = meta.evicted - delta["maint"].readings
         => mem'.evicted = meta'.evicted - delta'["maint"].readings
  <2>1. mem'.evicted \in Int
    BY <1>2, <1>4, <1>8
  <2>2. delta'["maint"].readings \in Int
    BY <1>3, <1>4, Processes
  <2> QED BY <1>4, <1>10, <1>12, <2>1, <2>2
<1>16. mem.dropped = Cardinality(dropIds) - DiscardsDue
         => mem'.dropped = Cardinality(dropIds') - DiscardsDue'
  <2>1. mem'.dropped \in Int
    BY <1>2, <1>4, <1>8
  <2>2. delta'["forwarder"].readings \in Int
    BY <1>3, <1>4, Processes
  <2>3. DiscardsDue' \in Int
    BY <2>2 DEF DiscardsDue
  <2> QED BY <1>4, <1>11, <1>12, <2>1, <2>3
<1> QED BY <1>12, <1>13, <1>14, <1>15, <1>16 DEF MemInStep

\* Open reads what the process that ended left in meta; nothing is due any more.
LEMMA OpenInStep ==
    ASSUME Shape, DueInv, DownInv, Open
    PROVE  MemInStep'
<1>1. dropIds = {} /\ \A p \in Procs : pc[p] = "idle"
  BY DEF Open, DownInv
<1>2. UNCHANGED <<dbVars, unflushed, dropIds, delta, pc>> /\ UNCHANGED meta
  BY DEF Open, localVars, dbVars
<1>3. /\ DueChunks' = 0 /\ DueReadings' = 0 /\ DiscardsDue' = 0
  BY <1>1, <1>2, Processes DEF DueChunks, DueReadings, DiscardsDue, WrittenNow
<1>4. /\ delta["forwarder"].chunks = 0 /\ delta["forwarder"].readings = 0
      /\ delta["maint"].chunks = 0 /\ delta["maint"].readings = 0
  BY <1>1, Processes DEF DueInv, Tallies
<1>5. /\ DeletesDue("chunks")' = 0 /\ DeletesDue("readings")' = 0
      /\ delta'["maint"].readings = 0
  BY <1>2, <1>4 DEF DeletesDue
<1>6. /\ "chunks" \notin unread' => mem'.chunks = meta.chunks
      /\ "readings" \notin unread' => mem'.readings = meta.readings
      /\ "evicted" \notin unread' => mem'.evicted = meta.evicted
  BY DEF Open, Restored
<1>7. mem'.dropped = 0
  BY DEF Open, Restored, InitReads
<1>8. meta.chunks \in Int /\ meta.readings \in Int /\ meta.evicted \in Int
  BY CounterTypes
<1>9. Cardinality(dropIds') = 0
  BY <1>1, <1>2, FS_EmptySet
<1> QED BY <1>2, <1>3, <1>5, <1>6, <1>7, <1>8, <1>9 DEF MemInStep

\* Each step of Flush keeps mem in step.
LEMMA FlushInStep ==
    ASSUME Shape, Ordered, Ledger, MemInStep, NEW p \in Callers, Flush(p)
    PROVE  MemInStep'
<1>1. pc'["forwarder"] = pc["forwarder"]
  BY FlushFrame, Processes
<1>2. CASE FlushTake(p)
  <2>1. ~WrittenNow /\ ~WrittenNow' /\ UNCHANGED <<meta, delta, unread, up>>
    BY <1>2, Taken, FlushRowsQuiet DEF DbQuiet
  <2>2. CASE UNCHANGED <<mem, dropIds>>
    <3>1. /\ DueChunks' = DueChunks /\ DueReadings' = DueReadings /\ DiscardsDue' = DiscardsDue
          /\ DeletesDue("chunks")' = DeletesDue("chunks")
          /\ DeletesDue("readings")' = DeletesDue("readings")
      BY <1>1, <2>1 DEF DueChunks, DueReadings, DiscardsDue, DeletesDue
    <3> QED BY <2>1, <2>2, <3>1 DEF MemInStep
  <2>3. CASE /\ mem' = [mem EXCEPT !.dropped = @ + Cardinality(buf)]
             /\ dropIds' = dropIds \cup buf
    BY <1>1, <2>1, <2>3, DroppedCounted
  <2> QED BY <1>2, <2>2, <2>3, Taken
<1>3. CASE FlushInsert(p)
  <2>1. CASE Stored(p)
    BY <2>1, StoredInStep
  <2>2. CASE ~Stored(p)
    <3>1. DbQuiet
      BY <1>3, <2>2, FlushRows DEF Flush
    <3>2. UNCHANGED <<mem, unflushed, delta, dropIds, unread, up>> /\ pc[p] = "insert"
          /\ Goto(p, "failed")
      <4>1. UNCHANGED <<memVars, localVars, restVars>> /\ pc[p] = "insert"
        BY <1>3 DEF FlushInsert
      <4>2. Goto(p, "failed")
        BY <1>3, <2>2 DEF FlushInsert, Stored, Shape, FlushOK, Busy, Goto, NewSeq
      <4> QED BY <4>1, <4>2 DEF memVars, localVars, restVars
    <3>3. WrittenNow' = WrittenNow
      <4>1. pc \in [Procs -> CallerLabels \cup ForwarderLabels \cup MaintLabels]
        BY DEF Shape, RestOK
      <4> QED BY <3>2, <4>1, Processes DEF Goto, WrittenNow
    <3> QED BY <1>1, <3>1, <3>2, <3>3, MemInStepSame DEF DbQuiet, MemSame
  <2> QED BY <2>1, <2>2
<1>4. CASE FlushDone(p)
  BY <1>4, DoneInStep
<1>5. CASE FlushFailed(p)
  <2> DEFINE D == QueuedIds(SubSeq(unflushed, 1, Overflow))
  <2>1. /\ ~WrittenNow /\ ~WrittenNow' /\ D \subseteq QueuedIds(unflushed)
        /\ mem' = [mem EXCEPT !.dropped = @ + Cardinality(D)] /\ dropIds' = dropIds \cup D
    BY <1>5, GaveUp
  <2>2. UNCHANGED <<meta, delta, unread, up>>
    BY <1>5, FlushRowsQuiet DEF DbQuiet
  <2>3. D \subseteq buf \cup Fresh
    BY <2>1 DEF Fresh
  <2> HIDE DEF D
  <2> QED BY <1>1, <2>1, <2>2, <2>3, DroppedCounted
<1> QED BY <1>2, <1>3, <1>4, <1>5 DEF Flush

\* mem is in step with meta after every step.
LEMMA StepMem ==
    Shape /\ Ordered /\ Ledger /\ DueInv /\ DownInv /\ MemInStep /\ [Next]_vars => MemInStep'
<1> SUFFICES ASSUME Shape, Ordered, Ledger, DueInv, DownInv, MemInStep, [Next]_vars
             PROVE  MemInStep'
  OBVIOUS
<1>1. Cardinality(dropIds) \in Nat
  BY PlacesFinite, FS_CardinalityType
<1>2. ASSUME BooksQuiet PROVE MemInStep'
  BY <1>2, MemInStepSame, Processes DEF BooksQuiet, MemorySame, DbQuiet, Tallies
<1>3. ASSUME NEW p \in Deleters, NEW S, NEW why \in Tallies, Removed(p, S, why),
             p = "maint" <=> why = "evicted"
      PROVE  MemInStep'
  BY <1>3, RemovedInStep
<1>4. ASSUME NEW p \in Deleters, NEW why \in Tallies, Tallied(p, why) PROVE MemInStep'
  BY <1>1, <1>4, TalliedInStep
<1>5. CASE Forward
  BY <1>2, <1>3, <1>4, <1>5, ForwardBooks, Processes DEF Tallies
<1>6. CASE Maintain
  BY <1>2, <1>3, <1>4, <1>6, MaintBooks, Processes DEF Tallies
<1>7. ASSUME NEW p \in Callers, Flush(p) PROVE MemInStep'
  BY <1>7, FlushInStep
<1>8. CASE Exit \/ Crash
  BY <1>8 DEF Exit, Crash, Die, MemInStep
<1>9. CASE Open
  BY <1>9, OpenInStep
<1>10. CASE AppendReading \/ Cancel \/ PollersDone \/ Damage \/ UNCHANGED vars
  <2>1. UNCHANGED <<mem, unflushed, meta, delta, dropIds, unread, pc>>
    BY <1>10 DEF AppendReading, Cancel, PollersDone, Damage, vars, dbVars, memVars, localVars,
                 restVars
  <2>2. up' # "down" => up # "down"
    BY <1>10 DEF AppendReading, Cancel, PollersDone, Damage, vars, restVars
  <2>3. WrittenNow' = WrittenNow
    BY <2>1 DEF WrittenNow
  <2> QED BY <2>1, <2>2, <2>3, MemInStepSame DEF MemSame
<1> QED BY <1>5, <1>6, <1>7, <1>8, <1>9, <1>10 DEF Next

LEMMA InitCounters == Init => DueInv /\ DownInv /\ MetaInStep /\ MemInStep
<1> SUFFICES ASSUME Init PROVE DueInv /\ DownInv /\ MetaInStep /\ MemInStep
  OBVIOUS
<1>1. pc["forwarder"] = "idle" /\ pc["maint"] = "idle" /\ \A p \in Callers : pc[p] = "idle"
  BY Processes DEF Init
<1>2. /\ delta["forwarder"].chunks = 0 /\ delta["forwarder"].readings = 0
      /\ delta["maint"].chunks = 0 /\ delta["maint"].readings = 0
  BY Processes DEF Init, NoLocals
<1>3. DueInv /\ DownInv
  BY <1>1, <1>2 DEF DueInv, DownInv, Init
<1>4. Pending = {} /\ DOMAIN gone = {}
  BY DEF Init, Pending
<1>5. Ids(Pending) = {} /\ GoneIds("evicted") = {}
  BY <1>4 DEF Ids, GoneIds
<1>6. MetaInStep
  BY <1>4, <1>5, FS_EmptySet DEF MetaInStep, Init
<1>7. /\ DueChunks = 0 /\ DueReadings = 0 /\ DiscardsDue = 0
      /\ DeletesDue("chunks") = 0 /\ DeletesDue("readings") = 0
  BY <1>1, <1>2 DEF DueChunks, DueReadings, DiscardsDue, DeletesDue, WrittenNow
<1>8. MemInStep
  <2>1. /\ mem.chunks = 0 /\ mem.readings = 0 /\ mem.evicted = 0 /\ mem.dropped = 0
        /\ meta.chunks = 0 /\ meta.readings = 0 /\ meta.evicted = 0 /\ dropIds = {}
    BY DEF Init
  <2>2. Cardinality(dropIds) = 0
    BY <2>1, FS_EmptySet
  <2> QED BY <1>2, <1>7, <2>1, <2>2 DEF MemInStep
<1> QED BY <1>3, <1>6, <1>8

\* The persistent counters equal what the tables hold, and the cached ones differ from
\* them by exactly the transactions whose goroutine has not taken mu yet, in every
\* interleaving of Flush, Ack, discard and eviction and across restarts.
THEOREM CountersStayInStep == Spec => []CountersInStep
<1>1. Shape /\ MetaInStep /\ MemInStep => CountersInStep
  BY InsertsDueAre DEF CountersInStep, MetaInStep, MemInStep
<1> QED BY <1>1, InitCounters, StepDue, StepDown, StepMeta, StepMem, ShapeAlways, OrderedAlways,
           LedgerAlways, PTL DEF Spec
=============================================================================
