--------------------------- MODULE DeliveryProofs ---------------------------
(***************************************************************************)
(* Proofs about Delivery, for every number of chunks, streams, crashes,    *)
(* messages in flight and restarts.                                        *)
(***************************************************************************)
EXTENDS Delivery, FiniteSetTheorems, WellFoundedInduction, TLAPS

\* A nonempty set of naturals with an upper bound has a largest element, the
\* one Max picks: to_seq is the seq of a chunk of the message.
LEMMA MaxOfBounded ==
    ASSUME NEW N \in Nat, NEW S \in SUBSET (0 .. N), S # {}
    PROVE  /\ Max(S) \in S
           /\ \A y \in S : Max(S) >= y
<1> DEFINE T == {N - x : x \in S}
<1>1. T \subseteq Nat
  OBVIOUS
<1>2. T # {}
  <2>1. PICK x \in S : TRUE
    OBVIOUS
  <2>2. N - x \in T
    BY <2>1
  <2> QED BY <2>2
<1>3. PICK t \in T : \A u \in T : <<u, t>> \notin OpToRel(<, Nat)
  <2> HIDE DEF T
  <2> QED BY <1>1, <1>2, NatLessThanWellFounded, WFMin
<1>4. \A u \in T : ~(u < t)
  BY <1>1, <1>3 DEF OpToRel
<1>5. \E x \in S : \A y \in S : x >= y
  <2>1. PICK x \in S : t = N - x
    OBVIOUS
  <2>2. \A y \in S : x >= y
    BY <1>4, <2>1
  <2> QED BY <2>1, <2>2
<1> QED BY <1>5 DEF Max

\* Server side: an ingest keeps the types of what the server remembers.
LEMMA IngestType ==
    ASSUME TypeOK, NEW m \in Message, Ingest(m)
    PROVE  /\ stored' \subseteq Streams \X (1 .. MaxSeq)
           /\ seen' \subseteq Streams \X (1 .. MaxSeq)
           /\ gaps' \subseteq Streams \X (1 .. MaxSeq)
           /\ lastSeq' \in [Streams -> 0 .. MaxSeq]
           /\ restarts' \in 0 .. MaxServerRestarts
<1> USE DeliveryAssumption
<1>1. Keys(m) \subseteq Streams \X (1 .. MaxSeq)
  BY DEF Keys, Message
<1>2. Missing(m) \subseteq Streams \X (1 .. MaxSeq)
  BY DEF Missing, Message
<1>3. Max({lastSeq[m.stream]} \cup Fresh(m)) \in 0 .. MaxSeq
  <2> DEFINE S == {lastSeq[m.stream]} \cup Fresh(m)
  <2>a. lastSeq[m.stream] \in 0 .. MaxSeq
    BY DEF TypeOK, Message
  <2>b. Fresh(m) \subseteq 0 .. MaxSeq
    BY DEF Message, Fresh
  <2>1. S \in SUBSET (0 .. MaxSeq) /\ S # {}
    BY <2>a, <2>b
  <2> HIDE DEF S
  <2>2. Max(S) \in S
    BY <2>1, MaxOfBounded
  <2> QED BY <2>1, <2>2 DEF S
<1> QED BY <1>1, <1>2, <1>3 DEF TypeOK, Ingest

\* What the network carries after Carry is what it carried, or the new item.
LEMMA CarryKeeps ==
    ASSUME NEW net, NEW x, NEW after \in Carry(net, x)
    PROVE  after \subseteq net \cup {x}
BY DEF Carry

\* No goroutine is subscribing when the process starts.
LEMMA NoWorkerType == NoWorker \in [Workers -> 0 .. SubscribeAttempts]
<1>1. 0 \in 0 .. SubscribeAttempts
  BY DeliveryAssumption
<1> QED BY <1>1 DEF NoWorker

\* An ack the server builds is an ack.
LEMMA AckForType ==
    ASSUME NEW m \in Message, NEW err \in BOOLEAN
    PROVE  AckFor(m, err) \in AckMsg
BY DEF AckFor, Message, AckMsg

\* A reply adds at most that ack to the ones in the network.
LEMMA ReplyAdds ==
    ASSUME NEW m \in Message, NEW err \in BOOLEAN, Reply(AckFor(m, err))
    PROVE  /\ acks' \subseteq acks \cup {AckFor(m, err)}
           /\ acks \subseteq AckMsg => acks' \subseteq AckMsg
<1>1. acks' \subseteq acks \cup {AckFor(m, err)}
  BY CarryKeeps DEF Reply
<1>2. AckFor(m, err) \in AckMsg
  BY AckForType
<1> QED BY <1>1, <1>2

\* ReadBatch builds a message of seqs in use, whose to_seq is the largest.
LEMMA BatchType ==
    ASSUME TypeOK, Scanned \ damaged # {}
    PROVE  LET good == Scanned \ damaged IN
           /\ [stream |-> stream, chunks |-> good, to |-> Max(good)] \in Message
           /\ Max(good) \in good
           /\ \A c \in good : c <= Max(good)
<1> USE DeliveryAssumption
<1> DEFINE good == Scanned \ damaged
<1>a. pending \subseteq 1 .. MaxSeq
  BY DEF TypeOK
<1>1. good \in SUBSET (1 .. MaxSeq)
  BY <1>a DEF Scanned
<1>2. good \in SUBSET (0 .. MaxSeq) /\ good # {}
  BY <1>1
<1> HIDE DEF good
<1>3. Max(good) \in good /\ \A c \in good : Max(good) >= c
  BY <1>2, MaxOfBounded
<1>4. [stream |-> stream, chunks |-> good, to |-> Max(good)] \in Message
  BY <1>1, <1>3 DEF TypeOK, Message
<1> QED BY <1>1, <1>3, <1>4 DEF good

\* The types of the queue and its file, of the gateway's volatile state, and of
\* the network and the server, which most actions touch one at a time.
QueueType ==
    /\ nextSeq \in 1 .. (MaxSeq + 1)
    /\ pending \subseteq 1 .. (nextSeq - 1) /\ damaged \subseteq pending
    /\ acked \subseteq 1 .. (nextSeq - 1) /\ evicted \subseteq 1 .. (nextSeq - 1)
    /\ discarded \subseteq 1 .. (nextSeq - 1)
    /\ stream \in Streams /\ damages \in 0 .. MaxDamages
    /\ transport \in Transports
GatewayType ==
    /\ fpc \in {"idle", "send", "wait", "ack"}
    /\ msg \in Message \cup {NoMsg}
    /\ fpc # "idle" => msg \in Message
    /\ ackCh \subseteq AckMsg
    /\ conn \in BOOLEAN /\ subscribed \in BOOLEAN
    /\ attempts \in [Workers -> 0 .. SubscribeAttempts] /\ breaks \in 0 .. MaxBreaks
NetType == wire \subseteq Message /\ acks \subseteq AckMsg
ServerType ==
    /\ stored \subseteq Streams \X (1 .. MaxSeq)
    /\ seen \subseteq Streams \X (1 .. MaxSeq) /\ gaps \subseteq Streams \X (1 .. MaxSeq)
    /\ lastSeq \in [Streams -> 0 .. MaxSeq]
    /\ restarts \in 0 .. MaxServerRestarts

\* Together they are the type invariant.
LEMMA TypeParts == TypeOK <=> QueueType /\ GatewayType /\ NetType /\ ServerType
BY DEF TypeOK, QueueType, GatewayType, NetType, ServerType

\* The initial state of gateway, network and server is well typed.
LEMMA TypeInit == Init => TypeOK
<1> USE DeliveryAssumption
<1> SUFFICES ASSUME Init PROVE QueueType /\ GatewayType /\ NetType /\ ServerType
  BY TypeParts
<1>1. QueueType
  BY DEF Init, QueueInit, QueueType, Streams
<1>2. GatewayType
  <2>1. attempts \in [Workers -> 0 .. SubscribeAttempts] /\ breaks \in 0 .. MaxBreaks
    BY NoWorkerType DEF Init
  <2>2. conn \in BOOLEAN /\ subscribed \in BOOLEAN
    BY DEF Init
  <2> QED BY <2>1, <2>2 DEF Init, GatewayType
<1>3. NetType /\ ServerType
  BY DEF Init, NetType, ServerType, Streams
<1> QED BY <1>1, <1>2, <1>3

\* Every action of Delivery keeps the types.
LEMMA TypeStep == TypeOK /\ [Next]_vars => TypeOK'
<1> DEFINE Types == QueueType /\ GatewayType /\ NetType /\ ServerType
<1> USE DeliveryAssumption
<1> SUFFICES ASSUME TypeOK, [Next]_vars PROVE Types'
  BY TypeParts, PTL
<1>0. Types
  BY TypeParts
<1> USE <1>0 DEF queueVars, fileVars, fwdVars, mqttVars, netVars, serverVars
<1>1. CASE FlushChunk
  <2>1. QueueType'
    BY <1>1 DEF FlushChunk, Put, QueueType
  <2> QED BY <1>1, <2>1 DEF FlushChunk, GatewayType, NetType, ServerType
<1>2. CASE EvictThrough
  <2>1. QueueType'
    BY <1>2 DEF EvictThrough, Evict, QueueType, Through
  <2> QED BY <1>2, <2>1 DEF EvictThrough, GatewayType, NetType, ServerType
<1>3. CASE DamageChunk
  <2>1. QueueType'
    BY <1>3 DEF DamageChunk, QueueType
  <2> QED BY <1>3, <2>1 DEF DamageChunk, GatewayType, NetType, ServerType
<1>4. CASE GatewayCrash
  <2>1. GatewayType'
    <3>1. attempts' \in [Workers -> 0 .. SubscribeAttempts] /\ breaks' \in 0 .. MaxBreaks
      BY <1>4, NoWorkerType DEF GatewayCrash, GatewayType
    <3>2. conn' \in BOOLEAN /\ subscribed' \in BOOLEAN
      BY <1>4 DEF GatewayCrash
    <3> QED BY <1>4, <3>1, <3>2 DEF GatewayCrash, GatewayType
  <2> QED BY <1>4, <2>1 DEF GatewayCrash, QueueType, NetType, ServerType
<1>5. CASE GatewayNewFile
  <2>1. QueueType'
    BY <1>5 DEF GatewayNewFile, QueueType, Streams
  <2>2. GatewayType'
    BY <1>5, NoWorkerType DEF GatewayNewFile, GatewayType
  <2> QED BY <1>5, <2>1, <2>2 DEF GatewayNewFile, NetType, ServerType
<1>6. CASE ReadBatch
  <2>1. QueueType'
    BY <1>6 DEF ReadBatch, QueueType, Scanned
  <2>2. GatewayType'
    <3>1. CASE fpc' = "idle" /\ msg' = NoMsg
      BY <1>6, <3>1 DEF ReadBatch, GatewayType
    <3>2. CASE ~(fpc' = "idle" /\ msg' = NoMsg)
      BY <1>6, <3>2, BatchType DEF ReadBatch, GatewayType
    <3> QED BY <3>1, <3>2
  <2> QED BY <1>6, <2>1, <2>2 DEF ReadBatch, NetType, ServerType
<1>7. CASE AckQueue
  <2>1. QueueType'
    BY <1>7 DEF AckQueue, Acknowledge, QueueType, Through
  <2>2. GatewayType'
    BY <1>7 DEF AckQueue, SendFailed, GatewayType
  <2> QED BY <1>7, <2>1, <2>2 DEF AckQueue, NetType, ServerType
<1>8. CASE SendNotConnected
  BY <1>8 DEF SendNotConnected, SendFailed, QueueType, GatewayType, NetType, ServerType
<1>9. CASE SendPublish
  <2>1. msg \in Message /\ GatewayType'
    BY <1>9 DEF SendPublish, GatewayType
  <2>2. wire' \subseteq Message
    BY <1>9, <2>1, CarryKeeps DEF SendPublish, NetType
  <2> QED BY <1>9, <2>1, <2>2 DEF SendPublish, QueueType, NetType, ServerType
<1>10. CASE SendTimeout
  BY <1>10 DEF SendTimeout, SendFailed, QueueType, GatewayType, NetType, ServerType
<1>11. CASE TakeAck
  <2>1. GatewayType'
    BY <1>11 DEF TakeAck, SendFailed, GatewayType
  <2> QED BY <1>11, <2>1 DEF TakeAck, QueueType, NetType, ServerType
<1>12. CASE HttpSend
  <2>1. msg \in Message /\ GatewayType'
    BY <1>12 DEF HttpSend, SendFailed, GatewayType
  <2>2. wire' \subseteq Message
    BY <1>12, <2>1, CarryKeeps DEF HttpSend, NetType
  <2>3. ServerType'
    BY <1>12, <2>1, IngestType DEF HttpSend, ServerType
  <2> QED BY <1>12, <2>1, <2>2, <2>3 DEF HttpSend, QueueType, NetType
<1>13. ASSUME NEW a \in acks, NEW dup \in BOOLEAN, HandleAck(a, dup) PROVE Types'
  <2>1. GatewayType' /\ NetType'
    BY <1>13 DEF HandleAck, GatewayType, NetType
  <2> QED BY <1>13, <2>1 DEF HandleAck, QueueType, ServerType
<1>14. CASE OnConnect
  <2>1. GatewayType'
    <3>1. attempts' \in [Workers -> 0 .. SubscribeAttempts]
      BY <1>14 DEF OnConnect, GatewayType
    <3>2. conn' \in BOOLEAN /\ subscribed' \in BOOLEAN
      BY <1>14 DEF OnConnect, GatewayType
    <3> QED BY <1>14, <3>1, <3>2 DEF OnConnect, GatewayType
  <2> QED BY <1>14, <2>1 DEF OnConnect, QueueType, NetType, ServerType
<1>15. CASE OnConnectionLost
  <2>1. GatewayType'
    <3>1. breaks' \in 0 .. MaxBreaks
      BY <1>15 DEF OnConnectionLost, GatewayType
    <3>2. conn' \in BOOLEAN /\ subscribed' \in BOOLEAN
      BY <1>15 DEF OnConnectionLost
    <3> QED BY <1>15, <3>1, <3>2 DEF OnConnectionLost, GatewayType
  <2> QED BY <1>15, <2>1 DEF OnConnectionLost, QueueType, NetType, ServerType
<1>16. ASSUME NEW g \in Workers, Subscribe(g) PROVE Types'
  <2>1. GatewayType'
    <3>1. attempts' \in [Workers -> 0 .. SubscribeAttempts] /\ breaks' \in 0 .. MaxBreaks
      BY <1>16 DEF Subscribe, GatewayType
    <3>2. conn' \in BOOLEAN /\ subscribed' \in BOOLEAN
      BY <1>16 DEF Subscribe, GatewayType
    <3> QED BY <1>16, <3>1, <3>2 DEF Subscribe, GatewayType
  <2> QED BY <1>16, <2>1 DEF Subscribe, QueueType, NetType, ServerType
<1>17. ASSUME NEW m \in wire, NEW dup \in BOOLEAN, ServerStores(m, dup) PROVE Types'
  <2>1. m \in Message /\ ServerType'
    BY <1>17, IngestType DEF ServerStores, NetType, ServerType
  <2>2. wire' \subseteq Message
    BY <1>17 DEF ServerStores, NetType
  <2>3. acks' \subseteq AckMsg
    BY <1>17, <2>1, ReplyAdds DEF ServerStores, NetType
  <2> QED BY <1>17, <2>1, <2>2, <2>3 DEF ServerStores, QueueType, GatewayType, NetType
<1>18. ASSUME NEW m \in wire, ServerFails(m) PROVE Types'
  <2>1. m \in Message /\ ServerType'
    BY <1>18, IngestType DEF ServerFails, NetType, ServerType
  <2>2. wire' \subseteq Message
    BY <1>18 DEF ServerFails, NetType
  <2>3. acks' \subseteq AckMsg
    BY <1>18, <2>1, ReplyAdds DEF ServerFails, NetType
  <2> QED BY <1>18, <2>1, <2>2, <2>3 DEF ServerFails, QueueType, GatewayType, NetType
<1>19. CASE ServerRestart
  <2>1. ServerType'
    BY <1>19 DEF ServerRestart, ServerType
  <2> QED BY <1>19, <2>1 DEF ServerRestart, QueueType, GatewayType, NetType
<1>20. CASE LoseAck
  BY <1>20 DEF LoseAck, QueueType, GatewayType, NetType, ServerType
<1>21. CASE UNCHANGED vars
  BY <1>21 DEF vars, QueueType, GatewayType, NetType, ServerType
<1> QED BY <1>1, <1>2, <1>3, <1>4, <1>5, <1>6, <1>7, <1>8, <1>9, <1>10, <1>11, <1>12,
           <1>13, <1>14, <1>15, <1>16, <1>17, <1>18, <1>19, <1>20, <1>21 DEF Next

\* Every variable always has its type, whatever the bounds.
THEOREM DeliveryTypeCorrect == Spec => []TypeOK
BY TypeInit, TypeStep, PTL DEF Spec
-----------------------------------------------------------------------------
\* Every step but the creation of a new queue file keeps the stream, gives new
\* chunks larger seqs than all earlier ones, and forgets nothing stored.
Grows ==
    /\ stream' = stream
    /\ nextSeq' >= nextSeq
    /\ \A p \in pending' : p \in pending \/ p >= nextSeq
    /\ stored \subseteq stored'

\* What the steps below need of the types, and no more of them.
Counted ==
    /\ nextSeq \in Nat /\ stream \in Nat
    /\ pending \subseteq 1 .. (nextSeq - 1)

LEMMA TypesCounted == (TypeOK => Counted) /\ (TypeOK' => Counted')
<1> MaxSeq \in Nat /\ MaxStreams \in Nat
  BY DeliveryAssumption
<1>1. TypeOK => Counted
  <2> SUFFICES ASSUME TypeOK PROVE Counted
    OBVIOUS
  <2>1. /\ nextSeq \in 1 .. (MaxSeq + 1) /\ pending \subseteq 1 .. (nextSeq - 1)
        /\ stream \in 1 .. MaxStreams
    BY Zenon DEF TypeOK, Streams
  <2>2. nextSeq \in Nat /\ stream \in Nat
    BY <2>1
  <2> QED BY <2>1, <2>2, Zenon DEF Counted
<1>2. TypeOK' => Counted'
  <2> SUFFICES ASSUME TypeOK' PROVE Counted'
    OBVIOUS
  <2>1. /\ nextSeq' \in 1 .. (MaxSeq + 1) /\ pending' \subseteq 1 .. (nextSeq' - 1)
        /\ stream' \in 1 .. MaxStreams
    BY Zenon DEF TypeOK, Streams
  <2>2. nextSeq' \in Nat /\ stream' \in Nat
    BY <2>1
  <2> QED BY <2>1, <2>2, Zenon DEF Counted
<1> QED BY <1>1, <1>2

\* Under such a step a message still covers what is pending.
LEMMA CoversStable ==
    ASSUME TypeOK, TypeOK', Grows, NEW m \in Message, Covers(m)
    PROVE  Covers(m)'
<1> Counted /\ Counted'
  BY TypesCounted
<1>1. m.to \in Int
  BY DeliveryAssumption DEF Message
<1>2. m.stream <= stream'
  BY DEF Grows, Covers
<1>3. ASSUME m.stream = stream'
      PROVE  m.to < nextSeq' /\ Through(m.to)' \subseteq m.chunks
  <2>1. m.to < nextSeq /\ Through(m.to) \subseteq m.chunks
    BY <1>3 DEF Grows, Covers
  <2>2. m.to < nextSeq'
    BY <1>1, <2>1 DEF Grows, Counted
  <2>3. Through(m.to)' \subseteq Through(m.to)
    <3> SUFFICES ASSUME NEW p \in pending', p <= m.to PROVE p \in pending
      BY DEF Through
    <3>1. p \in Int /\ nextSeq \in Int /\ m.to \in Int
      BY <1>1 DEF Counted
    <3> QED BY <2>1, <3>1 DEF Grows
  <2> QED BY <2>1, <2>2, <2>3
<1> QED BY <1>2, <1>3 DEF Covers

\* What is stored up to a seq in use stays so: a new chunk gets a larger seq.
LEMMA StoredThroughStable ==
    ASSUME TypeOK, TypeOK', Grows, NEW s \in 1 .. MaxSeq, s < nextSeq, StoredThrough(s)
    PROVE  StoredThrough(s)'
<1>1. Counted /\ Counted' /\ s \in Int
  BY TypesCounted, DeliveryAssumption
<1> SUFFICES ASSUME NEW p \in pending', p <= s PROVE <<stream', p>> \in stored'
  BY DEF StoredThrough, Through
<1>2. p \in Int /\ p < nextSeq
  BY <1>1 DEF Counted
<1>3. p \in pending
  BY <1>1, <1>2 DEF Grows, Counted
<1> QED BY <1>3 DEF Grows, StoredThrough, Through

\* ... and an ack still speaks for data that is stored.
LEMMA AckSoundStable ==
    ASSUME TypeOK, TypeOK', Grows, NEW a \in AckMsg, AckSound(a)
    PROVE  AckSound(a)'
<1> Counted /\ Counted'
  BY TypesCounted
<1>1. a.to \in 1 .. MaxSeq /\ a.to \in Int
  BY DeliveryAssumption DEF AckMsg
<1>2. a.stream <= stream' /\ (EchoStream => a.stream # NoStream)
  BY DEF AckSound, Grows
<1>3. ASSUME ~a.err, a.stream \in {stream', NoStream}
      PROVE  a.to < nextSeq' /\ StoredThrough(a.to)'
  <2>1. a.to < nextSeq /\ StoredThrough(a.to)
    BY <1>3 DEF AckSound, Grows
  <2>2. StoredThrough(a.to)'
    BY <1>1, <2>1, StoredThroughStable
  <2> QED BY <1>1, <2>1, <2>2 DEF Grows, Counted
<1> QED BY <1>2, <1>3 DEF AckSound

\* What the server acknowledges it has stored: the chunks that were new, and
\* the ones it had seen.
LEMMA IngestStores ==
    ASSUME NEW m \in Message, Ingest(m), seen \subseteq stored
    PROVE  /\ stored \subseteq stored' /\ seen' \subseteq stored'
           /\ \A c \in m.chunks : <<m.stream, c>> \in stored'
BY DEF Ingest, Keys

\* The ack of a message whose chunks are stored is sound.
LEMMA AckForSound ==
    ASSUME TypeOK', EchoStream \/ MaxStreams = 1,
           NEW m \in Message, Covers(m)', NEW err \in BOOLEAN,
           err \/ \A c \in m.chunks : <<m.stream, c>> \in stored'
    PROVE  AckSound(AckFor(m, err))'
<1> DEFINE a == AckFor(m, err)
<1>1. /\ m.stream \in 1 .. MaxStreams /\ stream' \in 1 .. MaxStreams
      /\ m.stream <= stream' /\ MaxStreams \in Nat /\ EchoStream \in BOOLEAN
  BY DeliveryAssumption DEF TypeOK, Message, Streams, Covers
<1>2. a.to = m.to /\ a.err = err /\ a.stream = IF EchoStream THEN m.stream ELSE NoStream
  BY DEF AckFor
<1> HIDE DEF a
<1>n. NoStream = 0 /\ m.stream \in Nat /\ stream' \in Nat /\ m.stream # 0 /\ stream' # 0
  BY <1>1 DEF NoStream
<1>3. a.stream <= stream' /\ (EchoStream => a.stream # NoStream)
  BY <1>1, <1>2, <1>n
<1>4. ASSUME ~a.err, a.stream \in {stream', NoStream}
      PROVE  a.to < nextSeq' /\ StoredThrough(a.to)'
  <2>1. m.stream = stream'
    <3>1. CASE EchoStream
      BY <1>2, <1>4, <1>n, <3>1
    <3>2. CASE MaxStreams = 1
      BY <1>1, <3>2
    <3> QED BY <3>1, <3>2
  <2>2. m.to < nextSeq' /\ Through(m.to)' \subseteq m.chunks
    BY <2>1 DEF Covers
  <2>3. \A c \in Through(m.to)' : <<stream', c>> \in stored'
    BY <1>2, <1>4, <2>1, <2>2
  <2> QED BY <1>2, <2>2, <2>3 DEF StoredThrough
<1>5. AckSound(a)'
  BY <1>3, <1>4 DEF AckSound
<1> QED BY <1>5 DEF a

\* The rows a scan takes are the oldest ones: a row before one of them has
\* fewer readings and fewer rows in front of it.
LEMMA ScanIsPrefix ==
    ASSUME TypeOK, NEW s \in Scanned, NEW p \in pending, p <= s
    PROVE  p \in Scanned
<1> USE DeliveryAssumption
<1>1. pending \subseteq 1 .. MaxSeq /\ s \in pending
  BY DEF TypeOK, Scanned
<1>2. \A c \in pending : IsFiniteSet({c} \X (1 .. Size[c]))
  <2> TAKE c \in pending
  <2>1. IsFiniteSet({c})
    BY FS_Singleton
  <2>2. Size[c] \in Int
    BY <1>1
  <2>3. IsFiniteSet(1 .. Size[c])
    BY <2>2, FS_Interval
  <2> QED BY <2>1, <2>3, FS_Product
<1>3. IsFiniteSet(ReadingsBefore(s)) /\ IsFiniteSet(Through(s) \ {s})
  <2> DEFINE before == Through(s) \ {s}
  <2> DEFINE pairs == {{c} \X (1 .. Size[c]) : c \in before}
  <2>1. IsFiniteSet(1 .. MaxSeq)
    BY FS_Interval
  <2>2. before \subseteq pending
    BY DEF Through
  <2>3. IsFiniteSet(before)
    BY <1>1, <2>1, <2>2, FS_Subset
  <2>4. IsFiniteSet(pairs)
    <3> HIDE DEF before
    <3> DEFINE f == [c \in before |-> {c} \X (1 .. Size[c])]
    <3>1. f \in Surjection(before, pairs)
      BY DEF Surjection
    <3> HIDE DEF f, pairs
    <3> QED BY <2>3, <3>1, FS_Surjection
  <2>5. \A P \in pairs : IsFiniteSet(P)
    BY <1>2, <2>2
  <2>6. IsFiniteSet(UNION pairs)
    <3> HIDE DEF pairs
    <3> QED BY <2>4, <2>5, FS_UNION
  <2> QED BY <2>3, <2>6 DEF ReadingsBefore
<1>4. Through(p) \ {p} \subseteq Through(s) \ {s}
  <2> SUFFICES ASSUME NEW c \in pending, c <= p, c # p PROVE c <= s /\ c # s
    BY DEF Through
  <2>1. c \in Int /\ p \in Int /\ s \in Int
    BY <1>1
  <2> QED BY <2>1
<1>5. ReadingsBefore(p) \subseteq ReadingsBefore(s)
  BY <1>4 DEF ReadingsBefore
<1>6. /\ Cardinality(ReadingsBefore(p)) <= Cardinality(ReadingsBefore(s))
      /\ Cardinality(Through(p) \ {p}) <= Cardinality(Through(s) \ {s})
  BY <1>3, <1>4, <1>5, FS_Subset
<1>7. /\ Cardinality(ReadingsBefore(p)) \in Nat
      /\ Cardinality(ReadingsBefore(s)) \in Nat
      /\ Cardinality(Through(p) \ {p}) \in Nat
      /\ Cardinality(Through(s) \ {s}) \in Nat
  BY <1>3, <1>4, <1>5, FS_Subset, FS_CardinalityType
<1> QED BY <1>6, <1>7 DEF Scanned

\* No operation reuses a seq or makes the server forget stored data: only Open
\* on a new file starts over.
LEMMA StepGrows ==
    ASSUME TypeOK, Next, ~GatewayNewFile
    PROVE  Grows
<1> USE DEF queueVars, fileVars, serverVars
<1> nextSeq \in Nat /\ pending \subseteq Nat
  BY TypesCounted DEF Counted
<1>s. ASSUME UNCHANGED <<stream, nextSeq, pending>>, stored \subseteq stored' PROVE Grows
  BY <1>s DEF Grows
<1>1. CASE FlushChunk
  BY <1>1 DEF FlushChunk, Put, Grows
<1>2. CASE EvictThrough \/ DamageChunk \/ GatewayCrash \/ ReadBatch \/ AckQueue
  <2>1. stream' = stream /\ nextSeq' = nextSeq /\ stored' = stored
    BY <1>2 DEF EvictThrough, Evict, DamageChunk, GatewayCrash, ReadBatch, AckQueue,
       Acknowledge
  <2>2. pending' \subseteq pending
    BY <1>2 DEF EvictThrough, Evict, DamageChunk, GatewayCrash, ReadBatch, AckQueue,
       Acknowledge
  <2> QED BY <2>1, <2>2 DEF Grows
<1>3. CASE SendNotConnected \/ SendPublish \/ SendTimeout \/ TakeAck
  BY <1>3, <1>s DEF SendNotConnected, SendPublish, SendTimeout, TakeAck
<1>4. CASE HttpSend
  <2>1. UNCHANGED <<stream, nextSeq, pending>>
    BY <1>4 DEF HttpSend
  <2>2. stored \subseteq stored'
    BY <1>4 DEF HttpSend, Ingest
  <2> QED BY <1>s, <2>1, <2>2
<1>5. ASSUME NEW a \in acks, NEW dup \in BOOLEAN, HandleAck(a, dup) PROVE Grows
  BY <1>5, <1>s DEF HandleAck
<1>6. CASE OnConnect \/ OnConnectionLost \/ ServerRestart \/ LoseAck
  BY <1>6, <1>s DEF OnConnect, OnConnectionLost, ServerRestart, LoseAck
<1>7. ASSUME NEW g \in Workers, Subscribe(g) PROVE Grows
  BY <1>7, <1>s DEF Subscribe
<1>8. ASSUME NEW m \in wire, NEW dup \in BOOLEAN, ServerStores(m, dup) PROVE Grows
  BY <1>8, <1>s DEF ServerStores, Ingest
<1>9. ASSUME NEW m \in wire, ServerFails(m) PROVE Grows
  <2>1. stream' = stream /\ nextSeq' = nextSeq /\ pending' = pending
    BY <1>9 DEF ServerFails
  <2>2. stored \subseteq stored'
    BY <1>9 DEF ServerFails, Ingest
  <2> QED BY <1>s, <2>1, <2>2
<1> QED BY <1>1, <1>2, <1>3, <1>4, <1>5, <1>6, <1>7, <1>8, <1>9 DEF Next

\* The inductive invariant holds initially and is kept by every step, if the
\* server names the stream in its acks or the queue file is never recreated.
LEMMA InvInit == Init => DeliveryInv
BY DEF Init, QueueInit, DeliveryInv, SeenIsStored, WireCovers, AcksAreSound, MsgCovers,
   ChannelMatches, ReadyToAck, AckedIsStored

\* Each action in turn: what it leaves alone is kept because the step Grows, and
\* what it touches is one of the conjuncts.
LEMMA InvStep ==
    ASSUME TypeOK, TypeOK', DeliveryInv, Next, ~GatewayNewFile,
           EchoStream \/ MaxStreams = 1
    PROVE  DeliveryInv'
<1> USE DeliveryAssumption DEF queueVars, fileVars, fwdVars, mqttVars, netVars, serverVars
\* What a step keeps when it leaves the state a conjunct is about alone.
<1>a. Grows
  BY StepGrows
<1>b. /\ SeenIsStored /\ WireCovers /\ AcksAreSound /\ MsgCovers
      /\ ChannelMatches /\ ReadyToAck /\ AckedIsStored
  BY DEF DeliveryInv
<1>c. wire \subseteq Message /\ acks \subseteq AckMsg /\ ackCh \subseteq AckMsg
  BY DEF TypeOK
<1>d. fpc # "idle" => /\ msg \in Message /\ msg.stream = stream /\ Covers(msg)
                      /\ msg.to \in 1 .. MaxSeq /\ msg.to < nextSeq
  BY <1>b DEF TypeOK, MsgCovers, Covers, Message
<1>e. ASSUME seen' \subseteq seen PROVE SeenIsStored'
  BY <1>a, <1>b, <1>e DEF SeenIsStored, Grows
<1>f. ASSUME wire' \subseteq wire \/ (fpc # "idle" /\ wire' \subseteq wire \cup {msg})
      PROVE  WireCovers'
  <2> SUFFICES ASSUME NEW m \in wire' PROVE Covers(m)'
    BY DEF WireCovers
  <2>1. m \in Message /\ Covers(m)
    BY <1>b, <1>c, <1>d, <1>f DEF WireCovers
  <2> QED BY <1>a, <2>1, CoversStable
<1>g. ASSUME acks' \cup ackCh' \subseteq acks \cup ackCh PROVE AcksAreSound'
  <2> SUFFICES ASSUME NEW a \in acks' \cup ackCh' PROVE AckSound(a)'
    BY DEF AcksAreSound
  <2>1. a \in AckMsg /\ AckSound(a)
    BY <1>b, <1>c, <1>g DEF AcksAreSound
  <2> QED BY <1>a, <2>1, AckSoundStable
<1>h. ASSUME NEW s \in 1 .. MaxSeq, fpc = "ack", s = msg.to PROVE StoredThrough(s)'
  BY <1>a, <1>b, <1>d, <1>h, StoredThroughStable DEF ReadyToAck
<1>i. ASSUME UNCHANGED msg, fpc # "idle" PROVE MsgCovers'
  <2>1. \A m \in Message : m = msg => Covers(m)'
    BY <1>a, <1>d, <1>i, CoversStable
  <2> QED BY <1>a, <1>d, <1>i, <2>1 DEF MsgCovers, Grows
<1>j. ASSUME UNCHANGED fwdVars PROVE MsgCovers' /\ ChannelMatches' /\ ReadyToAck'
  <2>1. MsgCovers'
    BY <1>i, <1>j DEF MsgCovers
  <2>2. ChannelMatches'
    BY <1>b, <1>j DEF ChannelMatches, AckMatches
  <2>3. ReadyToAck'
    BY <1>d, <1>h, <1>j DEF ReadyToAck
  <2> QED BY <2>1, <2>2, <2>3
<1>k. ASSUME fpc' = "idle", ackCh' = {} PROVE MsgCovers' /\ ChannelMatches' /\ ReadyToAck'
  BY <1>k DEF MsgCovers, ChannelMatches, ReadyToAck
<1>l. ASSUME acked' = acked PROVE AckedIsStored'
  BY <1>a, <1>b, <1>l DEF AckedIsStored, Grows
<1>m. ASSUME NEW x, AckSound(x)', acks' \subseteq acks \cup {x}, UNCHANGED ackCh
      PROVE  AcksAreSound'
  <2> SUFFICES ASSUME NEW a \in acks' \cup ackCh', a # x PROVE AckSound(a)'
    BY <1>m DEF AcksAreSound
  <2>1. a \in AckMsg /\ AckSound(a)
    BY <1>b, <1>c, <1>m DEF AcksAreSound
  <2> QED BY <1>a, <2>1, AckSoundStable
\* The actions, one by one.
<1>1. CASE FlushChunk \/ EvictThrough \/ DamageChunk
  <2>1. UNCHANGED <<fwdVars, netVars, serverVars, acked>>
    BY <1>1 DEF FlushChunk, Put, EvictThrough, Evict, DamageChunk
  <2> QED BY <2>1, <1>e, <1>f, <1>g, <1>j, <1>l DEF DeliveryInv
<1>2. CASE GatewayCrash \/ SendNotConnected \/ SendTimeout
  <2>1. /\ UNCHANGED <<netVars, serverVars, acked>>
        /\ fpc' = "idle" /\ ackCh' = {}
    BY <1>2 DEF GatewayCrash, SendNotConnected, SendTimeout, SendFailed
  <2> QED BY <2>1, <1>e, <1>f, <1>g, <1>k, <1>l DEF DeliveryInv
<1>3. CASE ReadBatch
  <2>1. UNCHANGED <<netVars, serverVars, acked, nextSeq, stream>> /\ ackCh' = {}
    BY <1>3, <1>b DEF ReadBatch, ChannelMatches, AckMatches
  <2>2. MsgCovers' /\ ReadyToAck'
    <3>1. CASE fpc' = "idle"
      BY <3>1 DEF MsgCovers, ReadyToAck
    <3>2. CASE fpc' # "idle"
      <4> DEFINE good == Scanned \ damaged
      <4>1. /\ msg' = [stream |-> stream, chunks |-> good, to |-> Max(good)]
            /\ fpc' = "send" /\ good # {}
            /\ pending' = pending \ (Scanned \cap damaged)
        BY <1>3, <3>2 DEF ReadBatch
      <4>2. Max(good) \in good /\ msg'.to = Max(good) /\ msg'.stream = stream
        BY <4>1, BatchType
      <4>3. msg'.to < nextSeq
        <5>1. good \subseteq pending
          BY DEF Scanned
        <5>2. pending \subseteq 1 .. (nextSeq - 1) /\ nextSeq \in Int
          BY TypesCounted DEF Counted
        <5> HIDE DEF good
        <5>3. msg'.to \in 1 .. (nextSeq - 1)
          BY <4>2, <5>1, <5>2
        <5> QED BY <5>2, <5>3
      <4>4. Through(msg.to)' \subseteq good
        <5> SUFFICES ASSUME NEW p \in pending', p <= Max(good) PROVE p \in good
          BY <4>2 DEF Through
        <5>1. p \in pending \ (Scanned \cap damaged)
          BY <4>1
        <5>2. p \in Scanned
          BY <4>2, <5>1, ScanIsPrefix DEF TypeOK
        <5> QED BY <5>1, <5>2
      <4>5. Covers(msg)'
        <5> HIDE DEF good
        <5>1. msg'.chunks = good
          BY <4>1
        <5>2. msg'.stream = stream' /\ msg'.to < nextSeq'
          BY <2>1, <4>2, <4>3
        <5>3. stream' \in Nat
          BY TypesCounted DEF Counted
        <5>4. msg'.stream <= stream'
          BY <5>2, <5>3
        <5> QED BY <4>4, <5>1, <5>2, <5>4 DEF Covers
      <4> QED BY <2>1, <4>1, <4>2, <4>5 DEF MsgCovers, ReadyToAck
    <3> QED BY <3>1, <3>2
  <2> QED BY <2>1, <2>2, <1>e, <1>f, <1>g, <1>l DEF DeliveryInv, ChannelMatches
<1>4. CASE AckQueue
  <2>1. UNCHANGED <<netVars, serverVars, stream>> /\ fpc' = "idle" /\ ackCh' = {}
    BY <1>4 DEF AckQueue, SendFailed
  <2>2. AckedIsStored'
    BY <1>4, <1>b, <2>1
       DEF AckQueue, Acknowledge, ReadyToAck, StoredThrough, AckedIsStored
  <2> QED BY <2>1, <2>2, <1>e, <1>f, <1>g, <1>k DEF DeliveryInv
<1>5. CASE SendPublish
  <2>1. /\ UNCHANGED <<acks, ackCh, msg, serverVars, acked>>
        /\ fpc = "send" /\ fpc' = "wait"
    BY <1>5 DEF SendPublish
  <2>2. wire' \subseteq wire \cup {msg}
    <3>1. wire' \in Carry(wire, msg) \/ wire' = wire
      BY <1>5 DEF SendPublish
    <3> QED BY <3>1, CarryKeeps
  <2>3. ackCh' = {}
    BY <1>b, <2>1 DEF ChannelMatches, AckMatches
  <2>4. MsgCovers' /\ ChannelMatches' /\ ReadyToAck'
    BY <2>1, <2>3, <1>i DEF ChannelMatches, ReadyToAck
  <2> QED BY <2>1, <2>2, <2>4, <1>e, <1>f, <1>g, <1>l DEF DeliveryInv
<1>6. CASE TakeAck
  <2>1. UNCHANGED <<netVars, serverVars, acked, pending, stream>> /\ fpc = "wait"
        /\ ackCh' = {}
    BY <1>6 DEF TakeAck, SendFailed
  <2>2. PICK a \in ackCh : IF a.err THEN SendFailed
                           ELSE fpc' = "ack" /\ ackCh' = {} /\ UNCHANGED msg
    BY <1>6 DEF TakeAck
  <2>3. CASE a.err
    BY <2>1, <2>2, <2>3, <1>e, <1>f, <1>g, <1>k, <1>l DEF DeliveryInv, SendFailed
  <2>4. CASE ~a.err
    <3>1. AckSound(a) /\ a.to = msg.to /\ a.stream \in {NoStream, stream}
      BY <1>b, <1>d, <2>1 DEF AcksAreSound, ChannelMatches, AckMatches
    <3>2. StoredThrough(msg.to)
      BY <2>4, <3>1 DEF AckSound
    <3>3. ReadyToAck'
      BY <2>1, <2>2, <2>4, <3>2 DEF ReadyToAck, StoredThrough, Through
    <3>4. MsgCovers'
      BY <2>1, <2>2, <2>4, <1>i
    <3> QED BY <2>1, <3>3, <3>4, <1>e, <1>f, <1>g, <1>l DEF DeliveryInv, ChannelMatches
  <2> QED BY <2>3, <2>4
<1>7. CASE HttpSend
  <2>1. UNCHANGED <<acks, acked, pending, stream>> /\ fpc = "send"
    BY <1>7 DEF HttpSend
  <2>2. ackCh = {} /\ ackCh' = {}
    BY <1>7, <1>b, <2>1 DEF HttpSend, SendFailed, ChannelMatches, AckMatches
  <2>3. wire' \subseteq wire \cup {msg}
    <3>1. wire' \in Carry(wire, msg) \/ wire' = wire
      BY <1>7 DEF HttpSend
    <3> QED BY <3>1, CarryKeeps
  <2>4. SeenIsStored'
    BY <1>7, <1>b, <1>d, <1>e, <2>1, IngestStores DEF HttpSend, SeenIsStored
  <2>5. CASE SendFailed
    BY <2>1, <2>2, <2>3, <2>4, <2>5, <1>f, <1>g, <1>k, <1>l DEF DeliveryInv, SendFailed
  <2>6. CASE Ingest(msg) /\ fpc' = "ack" /\ UNCHANGED <<msg, ackCh, wire>>
    <3>1. \A c \in msg.chunks : <<msg.stream, c>> \in stored'
      BY <1>b, <1>d, <2>1, <2>6, IngestStores DEF SeenIsStored
    <3>2. Through(msg.to) \subseteq msg.chunks /\ msg.stream = stream
      BY <1>d, <2>1 DEF Covers
    <3>3. ReadyToAck'
      BY <2>1, <2>6, <3>1, <3>2 DEF ReadyToAck, StoredThrough, Through
    <3>4. MsgCovers'
      BY <2>1, <2>6, <1>i
    <3> QED BY <2>1, <2>2, <2>3, <2>4, <3>3, <3>4, <1>f, <1>g, <1>l
            DEF DeliveryInv, ChannelMatches
  <2> QED BY <1>7, <2>5, <2>6 DEF HttpSend
<1>8. ASSUME NEW a \in acks, NEW dup \in BOOLEAN, HandleAck(a, dup) PROVE DeliveryInv'
  <2>1. UNCHANGED <<fpc, msg, wire, serverVars, acked>> /\ acks' \subseteq acks
    BY <1>8 DEF HandleAck
  <2>2. ackCh' = ackCh \/ (ackCh' = {a} /\ AckMatches(a))
    BY <1>8 DEF HandleAck
  <2>3. ChannelMatches'
    BY <1>b, <2>1, <2>2 DEF ChannelMatches, AckMatches
  <2>4. MsgCovers'
    BY <2>1, <1>i DEF MsgCovers
  <2>5. ReadyToAck'
    BY <2>1, <1>d, <1>h DEF ReadyToAck
  <2> QED BY <2>1, <2>2, <2>3, <2>4, <2>5, <1>e, <1>f, <1>g, <1>l DEF DeliveryInv
<1>9. CASE OnConnect \/ OnConnectionLost \/ ServerRestart
  <2>1. UNCHANGED <<fwdVars, netVars, acked>> /\ seen' \subseteq seen
    BY <1>9 DEF OnConnect, OnConnectionLost, ServerRestart
  <2> QED BY <2>1, <1>e, <1>f, <1>g, <1>j, <1>l DEF DeliveryInv
<1>10. ASSUME NEW g \in Workers, Subscribe(g) PROVE DeliveryInv'
  <2>1. UNCHANGED <<fwdVars, netVars, serverVars, acked>>
    BY <1>10 DEF Subscribe
  <2> QED BY <2>1, <1>e, <1>f, <1>g, <1>j, <1>l DEF DeliveryInv
<1>11. ASSUME NEW m \in wire, NEW dup \in BOOLEAN, ServerStores(m, dup)
       PROVE  DeliveryInv'
  <2>1. UNCHANGED <<fwdVars, acked>> /\ wire' \subseteq wire /\ m \in Message
    BY <1>11, <1>c DEF ServerStores
  <2>2. SeenIsStored' /\ \A c \in m.chunks : <<m.stream, c>> \in stored'
    BY <1>11, <1>b, <2>1, IngestStores DEF ServerStores, SeenIsStored
  <2>3. Covers(m)'
    BY <1>a, <1>b, <2>1, CoversStable DEF WireCovers
  <2>4. AckSound(AckFor(m, FALSE))'
    BY <2>1, <2>2, <2>3, AckForSound
  <2>5. acks' \subseteq acks \cup {AckFor(m, FALSE)}
    BY <1>11, <2>1, ReplyAdds DEF ServerStores
  <2>6. AcksAreSound'
    BY <1>m, <2>1, <2>4, <2>5
  <2> QED BY <2>1, <2>2, <2>6, <1>f, <1>j, <1>l DEF DeliveryInv
<1>12. ASSUME NEW m \in wire, ServerFails(m) PROVE DeliveryInv'
  <2>1. UNCHANGED <<fwdVars, acked>> /\ wire' \subseteq wire /\ m \in Message
    BY <1>12, <1>c DEF ServerFails
  <2>2. SeenIsStored'
    BY <1>12, <1>b, <1>e, <2>1, IngestStores DEF ServerFails, SeenIsStored
  <2>3. Covers(m)'
    BY <1>a, <1>b, <2>1, CoversStable DEF WireCovers
  <2>4. AckSound(AckFor(m, TRUE))'
    BY <2>1, <2>3, AckForSound
  <2>5. acks' \subseteq acks \cup {AckFor(m, TRUE)}
    BY <1>12, <2>1, ReplyAdds DEF ServerFails
  <2>6. AcksAreSound'
    BY <1>m, <2>1, <2>4, <2>5
  <2> QED BY <2>1, <2>2, <2>6, <1>f, <1>j, <1>l DEF DeliveryInv
<1>13. CASE LoseAck
  <2>1. UNCHANGED <<fwdVars, wire, serverVars, acked>> /\ acks' \subseteq acks
    BY <1>13 DEF LoseAck
  <2> QED BY <2>1, <1>e, <1>f, <1>g, <1>j, <1>l DEF DeliveryInv
<1> QED BY <1>1, <1>2, <1>3, <1>4, <1>5, <1>6, <1>7, <1>8, <1>9, <1>10, <1>11, <1>12,
           <1>13 DEF Next

\* A new queue file starts empty, under a stream no message or ack names.
LEMMA InvNewFile ==
    ASSUME TypeOK, DeliveryInv, GatewayNewFile, EchoStream \/ MaxStreams = 1
    PROVE  DeliveryInv'
<1>0. /\ wire \subseteq Message /\ acks \subseteq AckMsg
      /\ stream \in 1 .. MaxStreams /\ MaxStreams \in Nat
  BY DeliveryAssumption DEF TypeOK, Streams
<1>1. /\ stream \in Nat /\ stream' = stream + 1 /\ EchoStream
      /\ UNCHANGED <<wire, acks, stored, seen>>
      /\ acked' = {} /\ ackCh' = {} /\ fpc' = "idle"
  <2>1. /\ stream < MaxStreams /\ stream' = stream + 1
        /\ UNCHANGED <<wire, acks, stored, seen>>
        /\ acked' = {} /\ ackCh' = {} /\ fpc' = "idle"
    BY DEF GatewayNewFile, netVars, serverVars
  <2> QED BY <1>0, <2>1
<1>2. WireCovers'
  <2> SUFFICES ASSUME NEW m \in wire PROVE Covers(m)'
    BY <1>1 DEF WireCovers
  <2>1. m.stream \in Nat /\ m.stream <= stream
    BY <1>0 DEF Message, Streams, DeliveryInv, WireCovers, Covers
  <2>2. m.stream <= stream' /\ m.stream # stream'
    BY <1>1, <2>1
  <2> QED BY <2>2 DEF Covers
<1>3. AcksAreSound'
  <2> SUFFICES ASSUME NEW a \in acks PROVE AckSound(a)'
    BY <1>1 DEF AcksAreSound
  <2>1. a.stream \in Nat /\ a.stream <= stream /\ a.stream # NoStream
    <3>1. a.stream \in Streams \cup {NoStream} /\ AckSound(a)
      BY <1>0 DEF AckMsg, DeliveryInv, AcksAreSound
    <3> QED BY <1>0, <1>1, <3>1 DEF Streams, NoStream, AckSound
  <2>2. a.stream <= stream' /\ a.stream # stream'
    BY <1>1, <2>1
  <2> QED BY <1>1, <2>1, <2>2 DEF AckSound
<1> QED BY <1>1, <1>2, <1>3 DEF DeliveryInv, SeenIsStored, MsgCovers, ChannelMatches,
           ReadyToAck, AckedIsStored

\* The invariant holds from the start, if the server names the stream in its acks or
\* there is but one.
LEMMA InvAlways ==
    ASSUME EchoStream \/ MaxStreams = 1
    PROVE  Spec => []DeliveryInv
<1>1. TypeOK /\ TypeOK' /\ DeliveryInv /\ [Next]_vars => DeliveryInv'
  <2> SUFFICES ASSUME TypeOK, TypeOK', DeliveryInv, [Next]_vars PROVE DeliveryInv'
    OBVIOUS
  <2>1. CASE Next /\ ~GatewayNewFile
    BY <2>1, InvStep
  <2>2. CASE GatewayNewFile
    BY <2>2, InvNewFile
  <2>3. CASE UNCHANGED vars
    BY <2>3 DEF vars, queueVars, fileVars, fwdVars, mqttVars, netVars, serverVars,
       DeliveryInv, SeenIsStored, WireCovers, AcksAreSound, MsgCovers, ChannelMatches,
       ReadyToAck, AckedIsStored, Covers, AckSound, AckMatches, StoredThrough, Through
  <2> QED BY <2>1, <2>2, <2>3
<1> QED BY <1>1, InvInit, DeliveryTypeCorrect, PTL DEF Spec

\* No data is lost between the gateway and the server: whatever Ack deletes,
\* the server has stored.  It needs the server to name the stream in its acks,
\* as the reference server does, or the queue file never to be recreated.
THEOREM NoLoss ==
    ASSUME EchoStream \/ MaxStreams = 1
    PROVE  Spec => []AckedIsStored
<1>1. DeliveryInv => AckedIsStored
  BY DEF DeliveryInv
<1> QED BY <1>1, InvAlways, PTL
-----------------------------------------------------------------------------
\* Why a gap is data given up.  Until it restarts, the server remembers all it has
\* stored and the highest seq of it; no message has a chunk above its to_seq; and no
\* gap is reported for a seq not in use yet.
Bounded(m) == \A c \in m.chunks : c <= m.to
ServerRemembers ==
    restarts = 0 => /\ stored \subseteq seen
                    /\ \A s \in Streams, q \in 1 .. MaxSeq :
                          <<s, q>> \in seen => q <= lastSeq[s]
MessagesBounded == (\A m \in wire : Bounded(m)) /\ (fpc # "idle" => Bounded(msg))
GapsAreOld ==
    \A s \in Streams, q \in 1 .. MaxSeq :
        <<s, q>> \in gaps => s <= stream /\ (s = stream => q < nextSeq)
GapInv == ServerRemembers /\ MessagesBounded /\ GapsAreOld /\ GapsAreGivenUp

\* Highest is at least every seq it is the maximum of.
LEMMA HighestIs ==
    ASSUME TypeOK, NEW m \in Message, NEW c \in 1 .. MaxSeq
    PROVE  /\ Highest(m, c) \in Nat /\ lastSeq[m.stream] <= Highest(m, c)
           /\ \A d \in Fresh(m) : d < c => d <= Highest(m, c)
<1> DEFINE S == {lastSeq[m.stream]} \cup {d \in Fresh(m) : d < c}
<1>1. MaxSeq \in Nat
  BY DeliveryAssumption
<1>2. lastSeq[m.stream] \in 0 .. MaxSeq
  BY DEF TypeOK, Message
<1>3. Fresh(m) \subseteq 0 .. MaxSeq
  BY <1>1 DEF Message, Fresh
<1>4. S \in SUBSET (0 .. MaxSeq) /\ S # {}
  BY <1>2, <1>3
<1> HIDE DEF S
<1>5. Max(S) \in S /\ \A y \in S : Max(S) >= y
  BY <1>1, <1>4, MaxOfBounded
<1>6. Highest(m, c) = Max(S)
  BY DEF Highest, S
<1>7. Max(S) \in Nat /\ \A y \in S : y <= Max(S)
  <2>1. S \subseteq Nat
    BY <1>4
  <2> QED BY <1>5, <2>1
<1> QED BY <1>6, <1>7 DEF S

\* A message of the current stream has no gap at a chunk that waits or was delivered:
\* it covers what waits, and the server has seen what was delivered.
LEMMA MissingIsGivenUp ==
    ASSUME TypeOK, AckedIsStored, ServerRemembers, NEW m \in Message, Covers(m), Bounded(m),
           NEW g \in 1 .. MaxSeq, <<m.stream, g>> \in Missing(m), m.stream = stream
    PROVE  g < nextSeq /\ (restarts = 0 => g \notin pending \cup acked)
<1>1. PICK c \in Fresh(m) : Highest(m, c) < g /\ g < c
  BY DEF Missing
<1>2. /\ c \in m.chunks /\ c \in 1 .. MaxSeq /\ m.to \in 1 .. MaxSeq /\ c <= m.to
      /\ m.stream \in Streams /\ MaxSeq \in Nat
  BY DeliveryAssumption DEF Fresh, Message, Bounded
<1>3. nextSeq \in Nat /\ m.to < nextSeq /\ Through(m.to) \subseteq m.chunks
  BY TypesCounted DEF Counted, Covers
<1>4. g < nextSeq
  BY <1>1, <1>2, <1>3
<1>5. /\ Highest(m, c) \in Nat /\ lastSeq[m.stream] <= Highest(m, c)
      /\ \A d \in Fresh(m) : d < c => d <= Highest(m, c)
  BY <1>2, HighestIs
<1>6. lastSeq[m.stream] \in Nat
  BY <1>2 DEF TypeOK
<1>7. <<m.stream, g>> \notin seen \/ restarts # 0
  <2> SUFFICES ASSUME <<m.stream, g>> \in seen, restarts = 0 PROVE FALSE
    OBVIOUS
  <2>1. g <= lastSeq[m.stream]
    BY <1>2 DEF ServerRemembers
  <2> QED BY <1>1, <1>2, <1>5, <1>6, <2>1
<1>8. ASSUME restarts = 0, g \in pending PROVE FALSE
  <2>1. g \in m.chunks
    BY <1>1, <1>2, <1>3, <1>8 DEF Through
  <2>2. g \in Fresh(m)
    BY <1>7, <1>8, <2>1 DEF Fresh
  <2> QED BY <1>1, <1>2, <1>5, <2>2
<1>9. ASSUME restarts = 0, g \in acked PROVE FALSE
  <2>1. <<stream, g>> \in stored
    BY <1>9 DEF AckedIsStored
  <2> QED BY <1>7, <1>9, <2>1 DEF ServerRemembers
<1> QED BY <1>4, <1>8, <1>9

\* What is ingested is remembered.
LEMMA IngestRemembers ==
    ASSUME TypeOK, ServerRemembers, NEW m \in Message, Ingest(m)
    PROVE  ServerRemembers'
<1> DEFINE S == {lastSeq[m.stream]} \cup Fresh(m)
<1> SUFFICES ASSUME restarts' = 0
             PROVE  /\ stored' \subseteq seen'
                    /\ \A s \in Streams, q \in 1 .. MaxSeq :
                          <<s, q>> \in seen' => q <= lastSeq'[s]
  BY DEF ServerRemembers
<1>1. /\ stored \subseteq seen
      /\ \A s \in Streams, q \in 1 .. MaxSeq : <<s, q>> \in seen => q <= lastSeq[s]
  BY DEF ServerRemembers, Ingest
<1>2. stored' \subseteq seen'
  BY <1>1 DEF Ingest
<1>3. MaxSeq \in Nat /\ m.stream \in Streams /\ lastSeq \in [Streams -> 0 .. MaxSeq]
  BY DeliveryAssumption DEF Message, TypeOK
<1>4. Fresh(m) \subseteq 0 .. MaxSeq
  BY <1>3 DEF Message, Fresh
<1>5. S \in SUBSET (0 .. MaxSeq) /\ S # {}
  BY <1>3, <1>4
<1>6. lastSeq' = [lastSeq EXCEPT ![m.stream] = Max(S)]
  BY DEF Ingest
<1> HIDE DEF S
<1>7. Max(S) \in Nat /\ \A y \in S : y <= Max(S)
  <2>1. Max(S) \in S /\ \A y \in S : Max(S) >= y
    BY <1>3, <1>5, MaxOfBounded
  <2>2. S \subseteq Nat
    BY <1>5
  <2> QED BY <2>1, <2>2
<1>8. lastSeq[m.stream] <= Max(S) /\ \A d \in Fresh(m) : d <= Max(S)
  BY <1>7 DEF S
<1>9. ASSUME NEW s \in Streams, NEW q \in 1 .. MaxSeq, <<s, q>> \in seen' PROVE q <= lastSeq'[s]
  <2>1. CASE s # m.stream
    <3>1. <<s, q>> \in seen
      BY <1>9, <2>1 DEF Ingest, Keys
    <3> QED BY <1>1, <1>3, <1>6, <2>1, <3>1
  <2>2. CASE s = m.stream
    <3>1. lastSeq'[s] = Max(S) /\ lastSeq[s] \in Nat /\ q \in Nat
      BY <1>3, <1>6, <2>2
    <3>2. CASE <<s, q>> \in seen
      <4>1. q <= lastSeq[s]
        BY <1>1, <3>2
      <4> QED BY <1>7, <1>8, <2>2, <3>1, <4>1
    <3>3. CASE <<s, q>> \notin seen
      <4>1. q \in Fresh(m)
        BY <1>9, <2>2, <3>3 DEF Ingest, Keys, Fresh
      <4> QED BY <1>8, <3>1, <4>1
    <3> QED BY <3>2, <3>3
  <2> QED BY <2>1, <2>2
<1> QED BY <1>2, <1>9

\* What an ingest reports is old and given up.
LEMMA IngestGaps ==
    ASSUME TypeOK, AckedIsStored, GapInv, NEW m \in Message, Covers(m), Bounded(m), Ingest(m),
           UNCHANGED <<queueVars, stream>>
    PROVE  ServerRemembers' /\ GapsAreOld' /\ GapsAreGivenUp'
<1>1. ServerRemembers'
  BY IngestRemembers DEF GapInv
<1>2. gaps' = gaps \cup Missing(m) /\ restarts' = restarts /\ UNCHANGED <<pending, acked, nextSeq>>
  BY DEF Ingest, queueVars
<1>3. ASSUME NEW s, NEW q, <<s, q>> \in Missing(m) PROVE s = m.stream /\ q \in 1 .. MaxSeq
  BY <1>3 DEF Missing
<1>4. ASSUME NEW g \in 1 .. MaxSeq, <<stream, g>> \in Missing(m)
      PROVE  g < nextSeq /\ (restarts = 0 => g \notin pending \cup acked)
  <2>1. m.stream = stream
    BY <1>3, <1>4
  <2> QED BY <1>4, <2>1, MissingIsGivenUp DEF GapInv
<1>5. GapsAreOld'
  <2> SUFFICES ASSUME NEW s \in Streams, NEW q \in 1 .. MaxSeq, <<s, q>> \in gaps'
               PROVE  s <= stream /\ (s = stream => q < nextSeq)
    BY <1>2 DEF GapsAreOld
  <2>1. CASE <<s, q>> \in gaps
    BY <2>1 DEF GapInv, GapsAreOld
  <2>2. CASE <<s, q>> \in Missing(m)
    <3>1. s = m.stream /\ m.stream <= stream
      BY <1>3, <2>2 DEF Covers
    <3> QED BY <1>4, <2>2, <3>1
  <2> QED BY <1>2, <2>1, <2>2
<1>6. GapsAreGivenUp'
  <2> SUFFICES ASSUME restarts = 0, NEW s \in pending \cup acked, <<stream, s>> \in gaps'
               PROVE  FALSE
    BY <1>2 DEF GapsAreGivenUp
  <2>1. <<stream, s>> \notin gaps
    BY DEF GapInv, GapsAreGivenUp
  <2>2. <<stream, s>> \in Missing(m)
    BY <1>2, <2>1
  <2> QED BY <1>3, <1>4, <2>2
<1> QED BY <1>1, <1>5, <1>6

\* Only an ingest and a restart of the server touch its state.
LEMMA StepServer ==
    ASSUME TypeOK, DeliveryInv, MessagesBounded, [Next]_vars
    PROVE  \/ UNCHANGED serverVars
           \/ ServerRestart
           \/ /\ \E m \in Message : Covers(m) /\ Bounded(m) /\ Ingest(m)
              /\ UNCHANGED <<queueVars, stream>>
<1>1. wire \subseteq Message /\ (fpc # "idle" => msg \in Message)
  BY DEF TypeOK
<1>2. ASSUME NEW m \in wire, Ingest(m), UNCHANGED <<queueVars, fileVars>>
      PROVE  /\ \E x \in Message : Covers(x) /\ Bounded(x) /\ Ingest(x)
             /\ UNCHANGED <<queueVars, stream>>
  BY <1>1, <1>2 DEF DeliveryInv, WireCovers, MessagesBounded, fileVars
<1>3. CASE FlushChunk \/ EvictThrough \/ DamageChunk \/ GatewayCrash \/ GatewayNewFile
  BY <1>3 DEF FlushChunk, EvictThrough, DamageChunk, GatewayCrash, GatewayNewFile
<1>4. CASE ReadBatch \/ AckQueue \/ SendNotConnected \/ SendPublish \/ SendTimeout \/ TakeAck
  BY <1>4 DEF ReadBatch, AckQueue, SendNotConnected, SendPublish, SendTimeout, TakeAck
<1>5. CASE HttpSend
  <2>1. msg \in Message /\ Covers(msg) /\ Bounded(msg)
    BY <1>1, <1>5 DEF HttpSend, DeliveryInv, MsgCovers, MessagesBounded
  <2>2. UNCHANGED <<queueVars, stream>> /\ (UNCHANGED serverVars \/ Ingest(msg))
    BY <1>5 DEF HttpSend, fileVars
  <2> QED BY <2>1, <2>2
<1>6. ASSUME NEW a \in acks, NEW dup \in BOOLEAN, HandleAck(a, dup) PROVE UNCHANGED serverVars
  BY <1>6 DEF HandleAck
<1>7. CASE OnConnect \/ OnConnectionLost \/ LoseAck
  BY <1>7 DEF OnConnect, OnConnectionLost, LoseAck
<1>8. ASSUME NEW g \in Workers, Subscribe(g) PROVE UNCHANGED serverVars
  BY <1>8 DEF Subscribe
<1>9. ASSUME NEW m \in wire, NEW dup \in BOOLEAN, ServerStores(m, dup)
      PROVE  /\ \E x \in Message : Covers(x) /\ Bounded(x) /\ Ingest(x)
             /\ UNCHANGED <<queueVars, stream>>
  BY <1>2, <1>9 DEF ServerStores
<1>10. ASSUME NEW m \in wire, ServerFails(m)
       PROVE  \/ UNCHANGED serverVars
              \/ /\ \E x \in Message : Covers(x) /\ Bounded(x) /\ Ingest(x)
                 /\ UNCHANGED <<queueVars, stream>>
  <2>1. UNCHANGED <<queueVars, fileVars>> /\ (UNCHANGED serverVars \/ Ingest(m))
    BY <1>10 DEF ServerFails
  <2> QED BY <1>2, <2>1
<1>11. CASE UNCHANGED vars
  BY <1>11 DEF vars
<1> QED BY <1>3, <1>4, <1>5, <1>6, <1>7, <1>8, <1>9, <1>10, <1>11 DEF Next

\* Seqs only come into use and out of it: none that is not waiting or delivered comes
\* back, but in a new file.
LEMMA StepSeqs ==
    ASSUME TypeOK, [Next]_vars, ~GatewayNewFile
    PROVE  /\ stream' = stream /\ nextSeq' >= nextSeq
           /\ \A s \in pending' \cup acked' : s \in pending \cup acked \/ s >= nextSeq
<1>1. nextSeq \in Nat
  BY TypesCounted DEF Counted
<1>2. CASE UNCHANGED vars
  BY <1>1, <1>2 DEF vars, queueVars, fileVars
<1>3. CASE Next
  <2>1. Grows
    BY <1>3, StepGrows
  <2>2. acked' \subseteq acked \cup pending
    <3>1. CASE AckQueue
      BY <3>1 DEF AckQueue, Acknowledge, Through, queueVars
    <3>2. CASE FlushChunk \/ EvictThrough \/ DamageChunk \/ GatewayCrash \/ ReadBatch
      BY <3>2 DEF FlushChunk, Put, EvictThrough, Evict, DamageChunk, GatewayCrash, ReadBatch,
                  queueVars
    <3>3. CASE SendNotConnected \/ SendPublish \/ SendTimeout \/ TakeAck \/ HttpSend
      BY <3>3 DEF SendNotConnected, SendPublish, SendTimeout, TakeAck, HttpSend, queueVars
    <3>4. ASSUME NEW a \in acks, NEW dup \in BOOLEAN, HandleAck(a, dup) PROVE acked' = acked
      BY <3>4 DEF HandleAck, queueVars
    <3>5. CASE OnConnect \/ OnConnectionLost \/ LoseAck \/ ServerRestart
      BY <3>5 DEF OnConnect, OnConnectionLost, LoseAck, ServerRestart, queueVars
    <3>6. ASSUME NEW g \in Workers, Subscribe(g) PROVE acked' = acked
      BY <3>6 DEF Subscribe, queueVars
    <3>7. ASSUME NEW m \in wire, NEW dup \in BOOLEAN, ServerStores(m, dup) PROVE acked' = acked
      BY <3>7 DEF ServerStores, queueVars
    <3>8. ASSUME NEW m \in wire, ServerFails(m) PROVE acked' = acked
      BY <3>8 DEF ServerFails, queueVars
    <3> QED BY <1>3, <3>1, <3>2, <3>3, <3>4, <3>5, <3>6, <3>7, <3>8 DEF Next
  <2> QED BY <2>1, <2>2 DEF Grows
<1> QED BY <1>2, <1>3

\* A message's to_seq is its last chunk, from ReadBatch on.
LEMMA StepBounded ==
    ASSUME TypeOK, MessagesBounded, [Next]_vars
    PROVE  MessagesBounded'
<1>1. ASSUME wire' \subseteq wire \/ (fpc # "idle" /\ wire' \subseteq wire \cup {msg})
      PROVE  \A m \in wire' : Bounded(m)
  BY <1>1 DEF MessagesBounded
<1>2. ASSUME fpc' = "idle" \/ (fpc # "idle" /\ msg' = msg) PROVE fpc' # "idle" => Bounded(msg')
  BY <1>2 DEF MessagesBounded
<1>3. CASE ReadBatch
  <2>1. wire' = wire
    BY <1>3 DEF ReadBatch, netVars
  <2>2. ASSUME fpc' # "idle" PROVE Bounded(msg')
    <3> DEFINE good == Scanned \ damaged
    <3>1. good # {} /\ msg' = [stream |-> stream, chunks |-> good, to |-> Max(good)]
      BY <1>3, <2>2 DEF ReadBatch
    <3>2. \A c \in good : c <= Max(good)
      BY <3>1, BatchType
    <3> HIDE DEF good
    <3> QED BY <3>1, <3>2 DEF Bounded
  <2> QED BY <1>1, <2>1, <2>2 DEF MessagesBounded
<1>4. CASE SendPublish \/ HttpSend
  <2>1. wire' \in Carry(wire, msg) \cup {wire} /\ fpc # "idle"
    BY <1>4 DEF SendPublish, HttpSend
  <2>2. wire' \subseteq wire \cup {msg}
    BY <2>1, CarryKeeps
  <2>3. fpc' = "idle" \/ (fpc # "idle" /\ msg' = msg)
    BY <1>4 DEF SendPublish, HttpSend, SendFailed
  <2> QED BY <1>1, <1>2, <2>1, <2>2, <2>3 DEF MessagesBounded
<1>5. ASSUME wire' \subseteq wire, fpc' = "idle" \/ (fpc # "idle" /\ msg' = msg)
      PROVE  MessagesBounded'
  BY <1>1, <1>2, <1>5 DEF MessagesBounded
<1>6. ASSUME wire' \subseteq wire, UNCHANGED <<fpc, msg>> PROVE MessagesBounded'
  BY <1>1, <1>6 DEF MessagesBounded
<1>7. CASE FlushChunk \/ EvictThrough \/ DamageChunk \/ UNCHANGED vars
  BY <1>6, <1>7 DEF FlushChunk, EvictThrough, DamageChunk, vars, netVars, fwdVars
<1>8. CASE GatewayCrash \/ GatewayNewFile \/ AckQueue \/ SendNotConnected \/ SendTimeout
  BY <1>5, <1>8 DEF GatewayCrash, GatewayNewFile, AckQueue, SendNotConnected, SendTimeout,
                    SendFailed, netVars
<1>9. CASE TakeAck
  <2>1. wire' = wire /\ fpc # "idle"
    BY <1>9 DEF TakeAck, netVars
  <2>2. fpc' = "idle" \/ msg' = msg
    BY <1>9 DEF TakeAck, SendFailed
  <2> QED BY <1>5, <2>1, <2>2
<1>10. ASSUME NEW a \in acks, NEW dup \in BOOLEAN, HandleAck(a, dup) PROVE MessagesBounded'
  BY <1>6, <1>10 DEF HandleAck
<1>11. CASE OnConnect \/ OnConnectionLost \/ LoseAck \/ ServerRestart
  BY <1>6, <1>11 DEF OnConnect, OnConnectionLost, LoseAck, ServerRestart, fwdVars, netVars
<1>12. ASSUME NEW g \in Workers, Subscribe(g) PROVE MessagesBounded'
  BY <1>6, <1>12 DEF Subscribe, fwdVars, netVars
<1>13. ASSUME NEW m \in wire, NEW dup \in BOOLEAN, ServerStores(m, dup) PROVE MessagesBounded'
  BY <1>6, <1>13 DEF ServerStores, fwdVars
<1>14. ASSUME NEW m \in wire, ServerFails(m) PROVE MessagesBounded'
  BY <1>6, <1>14 DEF ServerFails, fwdVars
<1> QED BY <1>3, <1>4, <1>7, <1>8, <1>9, <1>10, <1>11, <1>12, <1>13, <1>14 DEF Next

\* What lies below the next number is within the bound.
LEMMA BelowNext ==
    ASSUME NEW M \in Nat, NEW n \in 1 .. (M + 1), NEW A, A \subseteq 1 .. (n - 1)
    PROVE  A \subseteq 1 .. M
OBVIOUS

\* A step preserves the invariant: an ingest reports only what is given up, and what is
\* given up does not come back.
LEMMA GapStep ==
    ASSUME TypeOK, TypeOK', DeliveryInv, GapInv, [Next]_vars
    PROVE  GapInv'
<1>1. MessagesBounded'
  BY StepBounded DEF GapInv
<1>2. AckedIsStored /\ MessagesBounded
  BY DEF DeliveryInv, GapInv
<1>3. /\ nextSeq \in Nat /\ nextSeq' \in Nat /\ stream \in Nat
      /\ pending' \cup acked' \subseteq 1 .. MaxSeq /\ MaxSeq \in Nat
  <2>1. nextSeq \in Nat /\ nextSeq' \in Nat /\ stream \in Nat /\ MaxSeq \in Nat
    BY TypesCounted, DeliveryAssumption DEF Counted
  <2>2. /\ nextSeq' \in 1 .. (MaxSeq + 1) /\ pending' \subseteq 1 .. (nextSeq' - 1)
        /\ acked' \subseteq 1 .. (nextSeq' - 1)
    BY DEF TypeOK
  <2>3. pending' \subseteq 1 .. MaxSeq /\ acked' \subseteq 1 .. MaxSeq
    BY <2>1, <2>2, BelowNext, Zenon
  <2> QED BY <2>1, <2>3, Zenon
<1>4. CASE UNCHANGED serverVars \/ ServerRestart
  <2>1. gaps' = gaps /\ (UNCHANGED serverVars \/ restarts' # 0)
    <3>1. restarts \in Nat
      <4>1. restarts \in 0 .. MaxServerRestarts
        BY DEF TypeOK
      <4> QED BY <4>1, DeliveryAssumption
    <3> QED BY <1>4, <3>1 DEF serverVars, ServerRestart
  <2>2. ServerRemembers'
    BY <2>1 DEF GapInv, ServerRemembers, serverVars
  <2>3. CASE GatewayNewFile
    <3>1. /\ stream' = stream + 1 /\ pending' = {} /\ acked' = {}
      BY <2>3 DEF GatewayNewFile
    <3>2. ASSUME NEW s \in Streams, NEW q \in 1 .. MaxSeq, <<s, q>> \in gaps
          PROVE  s <= stream' /\ s # stream'
      <4>1. s <= stream /\ s \in Nat
        BY <3>2, DeliveryAssumption DEF GapInv, GapsAreOld, Streams
      <4> QED BY <1>3, <3>1, <4>1
    <3>3. GapsAreOld'
      BY <2>1, <3>2 DEF GapsAreOld
    <3> QED BY <1>1, <2>2, <3>1, <3>3 DEF GapInv, GapsAreGivenUp
  <2>4. CASE ~GatewayNewFile
    <3>1. /\ stream' = stream /\ nextSeq' >= nextSeq
          /\ \A s \in pending' \cup acked' : s \in pending \cup acked \/ s >= nextSeq
      BY <2>4, StepSeqs
    <3>2. GapsAreOld'
      BY <1>3, <2>1, <3>1 DEF GapInv, GapsAreOld
    <3>3. ASSUME restarts' = 0, NEW s \in pending' \cup acked', <<stream, s>> \in gaps
          PROVE  FALSE
      <4>1. s \in 1 .. MaxSeq /\ stream \in Streams
        BY <1>3 DEF TypeOK
      <4>2. s < nextSeq
        BY <3>3, <4>1 DEF GapInv, GapsAreOld
      <4>3. s \in pending \cup acked
        BY <1>3, <3>1, <4>1, <4>2
      <4>4. restarts = 0
        BY <2>1, <3>3 DEF serverVars
      <4> QED BY <3>3, <4>3, <4>4 DEF GapInv, GapsAreGivenUp
    <3>4. GapsAreGivenUp'
      BY <2>1, <3>1, <3>3 DEF GapsAreGivenUp
    <3> QED BY <1>1, <2>2, <3>2, <3>4 DEF GapInv
  <2> QED BY <2>3, <2>4
<1>5. ASSUME NEW m \in Message, Covers(m), Bounded(m), Ingest(m), UNCHANGED <<queueVars, stream>>
      PROVE  GapInv'
  BY <1>1, <1>2, <1>5, IngestGaps DEF GapInv
<1> QED BY <1>2, <1>4, <1>5, StepServer

\* The server reports a gap only for data that was given up: while it has not restarted,
\* no chunk that waits in the queue or was delivered is among the gaps of its stream.
THEOREM GapsAreReal ==
    ASSUME EchoStream \/ MaxStreams = 1
    PROVE  Spec => []GapsAreGivenUp
<1>1. Init => GapInv
  BY DEF Init, QueueInit, GapInv, ServerRemembers, MessagesBounded, GapsAreOld, GapsAreGivenUp
<1>2. GapInv => GapsAreGivenUp
  BY DEF GapInv
<1>3. TypeOK /\ TypeOK' /\ DeliveryInv /\ GapInv /\ [Next]_vars => GapInv'
  BY GapStep
<1> QED BY <1>1, <1>2, <1>3, InvAlways, DeliveryTypeCorrect, PTL DEF Spec
=============================================================================
