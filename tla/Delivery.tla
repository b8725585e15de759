------------------------------ MODULE Delivery ------------------------------
(***************************************************************************)
(* Store & Forward end to end: the queue (module DurableQueue), the        *)
(* forwarder loop, the MQTT and HTTP adapters, an unreliable network, and  *)
(* the reference server.  A message is a set of whole chunks of one stream *)
(* and the seq of its last chunk; nothing else in it matters here.  The    *)
(* network may lose, duplicate, delay and reorder messages and acks: paho  *)
(* and the broker resend at QoS 1, and a Send that timed out leaves its    *)
(* message behind.                                                         *)
(***************************************************************************)
EXTENDS DurableQueue, FiniteSetsExt

CONSTANTS
    Transports,         \* adapters the gateway may be configured with
    EchoStream,         \* whether the server names the stream in its acks
    SubscribeAttempts,  \* attempts of subscribeWithRetry
    MaxReadings,        \* Config.MaxReadingsPerMessage
    ReadBatchScanLimit, \* readBatchScanLimit
    Size,               \* readings in the chunk with a given seq
    MaxSeq,             \* bound: chunks stored in one queue file
    MaxStreams,         \* bound: queue files ever created
    MaxInFlight,        \* bound: messages, and acks, in the network at once
    MaxDamages,         \* bound: chunk blobs damaged
    MaxServerRestarts,  \* bound: restarts of the server
    MaxBreaks           \* bound: gateway crashes, lost connections and failed
                        \* subscriptions

ASSUME DeliveryAssumption ==
    /\ Transports \subseteq {"mqtt", "http"}
    /\ EchoStream \in BOOLEAN
    /\ SubscribeAttempts \in Nat \ {0}
    /\ ReadBatchScanLimit \in Nat \ {0}
    /\ MaxReadings \in Nat \ {0} /\ Size \in [1 .. MaxSeq -> Nat \ {0}]
    /\ MaxSeq \in Nat /\ MaxStreams \in Nat \ {0} /\ MaxInFlight \in Nat \ {0}
    /\ MaxDamages \in Nat /\ MaxServerRestarts \in Nat /\ MaxBreaks \in Nat

VARIABLES
    stream,      \* meta.stream_id: the number of the queue file in use
    damaged,     \* seqs of pending chunks whose blob does not decode
    transport,   \* the adapter in use
    fpc,         \* forwarder: "idle", "send", "wait" or "ack"
    msg,         \* the message of the dispatch under way
    ackCh,       \* the set of acks in Send's channel, at most one
    conn,        \* the MQTT connection is open
    subscribed,  \* the broker has our ack subscription
    attempts,    \* Subscribe calls each subscribeWithRetry has left
    wire,        \* data messages in the network
    acks,        \* acks in the network
    stored,      \* server: <<stream, seq>> in durable storage
    seen,        \* server: the in-memory de-duplication table
    lastSeq,     \* server: highest seq per stream, 0 when there is no entry
    gaps,        \* server: every <<stream, seq>> ever reported missing
    restarts, breaks, damages

fwdVars == <<fpc, msg, ackCh>>
mqttVars == <<conn, subscribed, attempts, breaks>>
netVars == <<wire, acks>>
serverVars == <<stored, seen, lastSeq, gaps, restarts>>
fileVars == <<stream, damaged, damages>>
vars == <<queueVars, fileVars, transport, fwdVars, mqttVars, netVars, serverVars>>

Streams == 1 .. MaxStreams
NoStream == 0
Workers == 0 .. MaxBreaks     \* goroutines running subscribeWithRetry
NoWorker == [g \in Workers |-> 0]
Message == [stream : Streams, chunks : SUBSET (1 .. MaxSeq), to : 1 .. MaxSeq]
AckMsg == [stream : Streams \cup {NoStream}, to : 1 .. MaxSeq, err : BOOLEAN]
NoMsg == [stream |-> NoStream, chunks |-> {}, to |-> 0]

\* A network that carries x as well; a full one drops something for it.
Carry(net, x) ==
    IF Cardinality(net) < MaxInFlight THEN {net \cup {x}}
    ELSE {(net \ {y}) \cup {x} : y \in net}

Init ==
    /\ QueueInit
    /\ stream = 1 /\ damaged = {} /\ damages = 0
    /\ transport \in Transports
    /\ fpc = "idle" /\ msg = NoMsg /\ ackCh = {}
    /\ conn = FALSE /\ subscribed = FALSE /\ attempts = NoWorker /\ breaks = 0
    /\ wire = {} /\ acks = {}
    /\ stored = {} /\ seen = {} /\ gaps = {} /\ restarts = 0
    /\ lastSeq = [s \in Streams |-> 0]
-----------------------------------------------------------------------------
\* The queue, while the forwarder works: chunks are flushed, evicted, damaged.

FlushChunk ==
    /\ nextSeq <= MaxSeq
    /\ Put(1)
    /\ UNCHANGED <<fileVars, transport, fwdVars, mqttVars, netVars, serverVars>>

EvictThrough ==
    /\ \E s \in pending : Evict(s)
    /\ damaged' = damaged \cap pending'
    /\ UNCHANGED <<stream, damages, transport, fwdVars, mqttVars, netVars, serverVars>>

DamageChunk ==
    /\ damages < MaxDamages /\ damages' = damages + 1
    /\ \E s \in pending \ damaged : damaged' = damaged \cup {s}
    /\ UNCHANGED <<queueVars, stream, transport, fwdVars, mqttVars, netVars, serverVars>>

\* The gateway process dies and comes back; the queue file survives ...
GatewayCrash ==
    /\ breaks < MaxBreaks /\ breaks' = breaks + 1
    /\ fpc' = "idle" /\ msg' = NoMsg /\ ackCh' = {}
    /\ conn' = FALSE /\ subscribed' = FALSE /\ attempts' = NoWorker
    /\ UNCHANGED <<queueVars, fileVars, transport, netVars, serverVars>>

\* ... or was deleted: Open creates one with a new stream and seq 1.
GatewayNewFile ==
    /\ stream < MaxStreams /\ stream' = stream + 1
    /\ pending' = {} /\ nextSeq' = 1
    /\ acked' = {} /\ evicted' = {} /\ discarded' = {}
    /\ damaged' = {}
    /\ fpc' = "idle" /\ msg' = NoMsg /\ ackCh' = {}
    /\ conn' = FALSE /\ subscribed' = FALSE /\ attempts' = NoWorker
    /\ UNCHANGED <<damages, transport, breaks, netVars, serverVars>>
-----------------------------------------------------------------------------
\* dispatchOnce.

\* The chunks with fewer than MaxReadings readings, and fewer than
\* ReadBatchScanLimit chunks, in front of them.
ReadingsBefore(s) ==
    UNION {{c} \X (1 .. Size[c]) : c \in Through(s) \ {s}}
Scanned == {s \in pending : /\ Cardinality(ReadingsBefore(s)) < MaxReadings
                            /\ Cardinality(Through(s) \ {s}) < ReadBatchScanLimit}

\* ReadBatch: the chunks scanned that do not decode are discarded; if one of
\* the discards fails, or nothing else is left, the dispatch ends.
\* buildMessage takes the last remaining chunk as to_seq.
ReadBatch ==
    /\ fpc = "idle"
    /\ \E bad \in SUBSET (Scanned \cap damaged) :
        LET good == Scanned \ damaged IN
        /\ pending' = pending \ bad
        /\ discarded' = discarded \cup bad
        /\ damaged' = damaged \ bad
        /\ IF bad = Scanned \cap damaged /\ good # {}
           THEN /\ fpc' = "send"
                /\ msg' = [stream |-> stream, chunks |-> good, to |-> Max(good)]
           ELSE fpc' = "idle" /\ msg' = NoMsg
    /\ UNCHANGED <<nextSeq, acked, evicted, stream, damages, transport, ackCh, mqttVars,
                   netVars, serverVars>>

\* Send returned an error: Run waits and starts over with the oldest data.
SendFailed == fpc' = "idle" /\ msg' = NoMsg /\ ackCh' = {}

\* Ack(ToSeq): the rows are deleted, or the transaction fails.
AckQueue ==
    /\ fpc = "ack"
    /\ \/ Acknowledge(msg.to) /\ damaged' = damaged \cap pending'
       \/ UNCHANGED <<queueVars, damaged>>
    /\ SendFailed
    /\ UNCHANGED <<stream, damages, transport, mqttVars, netVars, serverVars>>
-----------------------------------------------------------------------------
\* MQTTAdapter.

\* Send gives up at once without a connection.
SendNotConnected ==
    /\ fpc = "send" /\ transport = "mqtt" /\ ~conn
    /\ SendFailed
    /\ UNCHANGED <<queueVars, fileVars, transport, mqttVars, netVars, serverVars>>

\* Send registers in pending and publishes; the message may not get through.
SendPublish ==
    /\ fpc = "send" /\ transport = "mqtt" /\ conn
    /\ fpc' = "wait"
    /\ wire' \in Carry(wire, msg) \cup {wire}
    /\ UNCHANGED <<queueVars, fileVars, transport, msg, ackCh, mqttVars, acks, serverVars>>

\* The publish token failed, or PublishTimeout or AckTimeout ran out.
SendTimeout ==
    /\ fpc = "wait"
    /\ SendFailed
    /\ UNCHANGED <<queueVars, fileVars, transport, mqttVars, netVars, serverVars>>

\* Mutant: the stream of the ack is not compared.
AckMatchesAnyStream(a) == fpc = "wait" /\ a.to = msg.to

\* pending[to_seq] exists and the stream, if the ack names one, matches.
AckMatches(a) ==
    /\ fpc = "wait"
    /\ a.to = msg.to
    /\ a.stream \in {NoStream, msg.stream}

\* handleAck, for an ack that may be delivered again (dup) or not.
HandleAck(a, dup) ==
    /\ conn /\ subscribed
    /\ ackCh' = IF AckMatches(a) /\ ackCh = {} THEN {a} ELSE ackCh
    /\ acks' = IF dup THEN acks ELSE acks \ {a}
    /\ UNCHANGED <<queueVars, fileVars, transport, fpc, msg, mqttVars, wire, serverVars>>

\* Send reads the channel.  An error ack is a failed Send.
TakeAck ==
    /\ fpc = "wait"
    /\ \E a \in ackCh :
        IF a.err THEN SendFailed
        ELSE fpc' = "ack" /\ ackCh' = {} /\ UNCHANGED msg
    /\ UNCHANGED <<queueVars, fileVars, transport, mqttVars, netVars, serverVars>>

\* paho connected: onConnect starts a subscribeWithRetry.
OnConnect ==
    /\ transport = "mqtt" /\ ~conn
    /\ conn' = TRUE
    /\ \E g \in Workers :
        /\ attempts[g] = 0 /\ \A h \in Workers : h < g => attempts[h] > 0
        /\ attempts' = [attempts EXCEPT ![g] = SubscribeAttempts]
    /\ UNCHANGED <<queueVars, fileVars, transport, fwdVars, subscribed, breaks, netVars,
                   serverVars>>

\* The connection breaks; the session is clean, so the subscription goes too.
OnConnectionLost ==
    /\ conn /\ breaks < MaxBreaks /\ breaks' = breaks + 1
    /\ conn' = FALSE /\ subscribed' = FALSE
    /\ UNCHANGED <<queueVars, fileVars, transport, fwdVars, attempts, netVars, serverVars>>

\* Mutant: a Subscribe that fails is not retried.
SubscribeOnce(g) ==
    /\ attempts[g] > 0 /\ attempts' = [attempts EXCEPT ![g] = 0]
    /\ \/ conn /\ subscribed' = TRUE /\ UNCHANGED breaks
       \/ /\ IF conn THEN breaks < MaxBreaks /\ breaks' = breaks + 1
                  ELSE UNCHANGED breaks
          /\ UNCHANGED subscribed
    /\ UNCHANGED <<queueVars, fileVars, transport, fwdVars, conn, netVars, serverVars>>

\* One Subscribe of a subscribeWithRetry, which returns once one succeeded.
Subscribe(g) ==
    /\ attempts[g] > 0
    /\ \/ /\ conn /\ subscribed' = TRUE
          /\ attempts' = [attempts EXCEPT ![g] = 0] /\ UNCHANGED breaks
       \/ /\ IF conn THEN breaks < MaxBreaks /\ breaks' = breaks + 1
                  ELSE UNCHANGED breaks
          /\ attempts' = [attempts EXCEPT ![g] = @ - 1] /\ UNCHANGED subscribed
    /\ UNCHANGED <<queueVars, fileVars, transport, fwdVars, conn, netVars, serverVars>>
-----------------------------------------------------------------------------
\* The reference server.

Keys(m) == {<<m.stream, c>> : c \in m.chunks}

\* ingest: fresh chunks are stored; a jump past the highest seq is a gap.
Fresh(m) == {c \in m.chunks : <<m.stream, c>> \notin seen}
\* Mutant: lastSeq is read once per message.
HighestBefore(m, c) == lastSeq[m.stream]
Highest(m, c) == Max({lastSeq[m.stream]} \cup {d \in Fresh(m) : d < c})
Missing(m) ==
    {<<m.stream, g>> : g \in {h \in 1 .. MaxSeq :
        \E c \in Fresh(m) : Highest(m, c) > 0 /\ Highest(m, c) < h /\ h < c}}

Ingest(m) ==
    /\ stored' = stored \cup Keys(m)
    /\ seen' = seen \cup Keys(m)
    /\ gaps' = gaps \cup Missing(m)
    /\ lastSeq' = [lastSeq EXCEPT ![m.stream] = Max({@} \cup Fresh(m))]
    /\ UNCHANGED restarts

\* Mutant: the ack names the next seq.
AckForNext(m, err) == [stream |-> m.stream, to |-> m.to + 1, err |-> err]
AckFor(m, err) ==
    [stream |-> IF EchoStream THEN m.stream ELSE NoStream, to |-> m.to, err |-> err]

Reply(a) == acks' \in Carry(acks, a)

\* process and handleMQTT, for a message that may be delivered again (dup).
\* It is stored and acknowledged ...
ServerStores(m, dup) ==
    /\ Ingest(m)
    /\ Reply(AckFor(m, FALSE))
    /\ wire' = IF dup THEN wire ELSE wire \ {m}
    /\ UNCHANGED <<queueVars, fileVars, transport, fwdVars, mqttVars>>

\* ... stored without an ack (fault drop_ack), rejected (gateway unknown,
\* error_ack, InfluxDB down), or ignored.
ServerFails(m) ==
    /\ \/ Ingest(m) /\ UNCHANGED acks
       \/ UNCHANGED serverVars /\ Reply(AckFor(m, TRUE))
       \/ UNCHANGED serverVars /\ UNCHANGED acks
    /\ wire' = wire \ {m}
    /\ UNCHANGED <<queueVars, fileVars, transport, fwdVars, mqttVars>>

\* The server restarts: what it held in memory is gone.
ServerRestart ==
    /\ restarts < MaxServerRestarts /\ restarts' = restarts + 1
    /\ seen' = {} /\ lastSeq' = [s \in Streams |-> 0]
    /\ UNCHANGED <<stored, gaps>>
    /\ UNCHANGED <<queueVars, fileVars, transport, fwdVars, mqttVars, netVars>>

LoseAck ==
    /\ \E a \in acks : acks' = acks \ {a}
    /\ UNCHANGED <<queueVars, fileVars, transport, fwdVars, mqttVars, wire, serverVars>>
-----------------------------------------------------------------------------
\* HTTPAdapter.Send: the response belongs to this request, so only a 2xx the
\* server sent after storing counts.  The request or the response may be lost,
\* and the server may handle the request after the client gave up.
HttpSend ==
    /\ fpc = "send" /\ transport = "http"
    /\ \/ Ingest(msg) /\ fpc' = "ack" /\ UNCHANGED <<msg, ackCh, wire>>
       \/ Ingest(msg) /\ SendFailed /\ UNCHANGED wire
       \/ /\ SendFailed /\ UNCHANGED serverVars
          /\ wire' \in Carry(wire, msg) \cup {wire}
    /\ UNCHANGED <<queueVars, fileVars, transport, mqttVars, acks>>

Next ==
    \/ FlushChunk \/ EvictThrough \/ DamageChunk
    \/ GatewayCrash \/ GatewayNewFile
    \/ ReadBatch \/ AckQueue
    \/ SendNotConnected \/ SendPublish \/ SendTimeout \/ TakeAck \/ HttpSend
    \/ \E a \in acks, dup \in BOOLEAN : HandleAck(a, dup)
    \/ OnConnect \/ OnConnectionLost
    \/ \E g \in Workers : Subscribe(g)
    \/ \E m \in wire, dup \in BOOLEAN : ServerStores(m, dup)
    \/ \E m \in wire : ServerFails(m)
    \/ ServerRestart \/ LoseAck

Spec == Init /\ [][Next]_vars
-----------------------------------------------------------------------------
\* Every variable keeps its type: in particular the queue holds only seqs
\* below nextSeq, and acks and messages name seqs and streams that exist.
TypeOK ==
    /\ nextSeq \in 1 .. (MaxSeq + 1)
    /\ pending \subseteq 1 .. (nextSeq - 1) /\ damaged \subseteq pending
    /\ acked \subseteq 1 .. (nextSeq - 1) /\ evicted \subseteq 1 .. (nextSeq - 1)
    /\ discarded \subseteq 1 .. (nextSeq - 1)
    /\ stream \in Streams /\ damages \in 0 .. MaxDamages
    /\ transport \in Transports
    /\ fpc \in {"idle", "send", "wait", "ack"}
    /\ msg \in Message \cup {NoMsg}
    /\ fpc # "idle" => msg \in Message
    /\ ackCh \subseteq AckMsg
    /\ conn \in BOOLEAN /\ subscribed \in BOOLEAN
    /\ attempts \in [Workers -> 0 .. SubscribeAttempts] /\ breaks \in 0 .. MaxBreaks
    /\ wire \subseteq Message /\ acks \subseteq AckMsg
    /\ stored \subseteq Streams \X (1 .. MaxSeq)
    /\ seen \subseteq Streams \X (1 .. MaxSeq) /\ gaps \subseteq Streams \X (1 .. MaxSeq)
    /\ lastSeq \in [Streams -> 0 .. MaxSeq]
    /\ restarts \in 0 .. MaxServerRestarts

\* A chunk leaves the queue as acknowledged only when the server has stored it:
\* no late, duplicated or reordered ack, no retry whose message grew in the
\* meantime, no eviction during the wait and no restart on either side makes
\* Ack delete data the server does not have.
AckedIsStored == \A s \in acked : <<stream, s>> \in stored

\* Why AckedIsStored holds.  A message covers every chunk still pending up to
\* its to_seq: rows are only removed, and new ones get a larger seq.
Covers(m) ==
    /\ m.stream <= stream
    /\ m.stream = stream => /\ m.to < nextSeq
                            /\ Through(m.to) \subseteq m.chunks
StoredThrough(s) == \A p \in Through(s) : <<stream, p>> \in stored

\* So the success ack of a message is an ack for all of them, however late it
\* comes and whichever attempt it answers, unless it may be mistaken for an
\* ack of another stream.
AckSound(a) ==
    /\ a.stream <= stream
    /\ EchoStream => a.stream # NoStream
    /\ ~a.err /\ a.stream \in {stream, NoStream} =>
         a.to < nextSeq /\ StoredThrough(a.to)

\* The inductive invariant behind AckedIsStored.
SeenIsStored == seen \subseteq stored
WireCovers == \A m \in wire : Covers(m)
AcksAreSound == \A a \in acks \cup ackCh : AckSound(a)
MsgCovers == fpc # "idle" => msg.stream = stream /\ Covers(msg)
ChannelMatches == \A a \in ackCh : AckMatches(a)
ReadyToAck == fpc = "ack" => StoredThrough(msg.to)
DeliveryInv == /\ SeenIsStored /\ WireCovers /\ AcksAreSound /\ MsgCovers
               /\ ChannelMatches /\ ReadyToAck /\ AckedIsStored

\* While the server runs, a gap it reports in the current stream is data the
\* gateway really gave up (evicted, or discarded as corrupt): retries, overlap
\* and reordering of messages never make it report one for a chunk that is
\* still waiting or was delivered.
GapsAreGivenUp ==
    restarts = 0 => \A s \in pending \cup acked : <<stream, s>> \notin gaps

\* What the outside world must do for data to flow: a publish, the server's
\* answer within AckTimeout, the ack's way back and the deletion, tried for
\* ever, each succeed at last.
PublishSucceeds == SendPublish /\ msg \in wire'
ServerInTime ==
    fpc = "wait" /\ ackCh = {} /\ msg \in wire /\ ServerStores(msg, FALSE)
AckArrives ==
    \E a \in acks : AckMatches(a) /\ ~a.err /\ ackCh = {} /\ HandleAck(a, FALSE)
AckAccepted == TakeAck /\ fpc' = "ack"
HttpSucceeds == HttpSend /\ fpc' = "ack"
DeleteSucceeds == AckQueue /\ pending' # pending

\* The gateway's own goroutines keep running; paho keeps connecting.  Crashes
\* and breaks end (MaxBreaks), which is all that is asked of the network.
FairSpec ==
    /\ Spec
    /\ WF_vars(ReadBatch \/ SendNotConnected \/ SendPublish \/ HttpSend \/ SendTimeout
               \/ TakeAck \/ AckQueue)
    /\ WF_vars(OnConnect) /\ \A g \in Workers : WF_vars(Subscribe(g))
    /\ WF_vars(\E a \in acks : HandleAck(a, FALSE))
    /\ WF_vars(\E m \in wire : ServerStores(m, FALSE) \/ ServerFails(m))
    /\ SF_vars(PublishSucceeds) /\ SF_vars(ServerInTime) /\ SF_vars(AckArrives)
    /\ SF_vars(AckAccepted) /\ SF_vars(HttpSucceeds) /\ SF_vars(DeleteSucceeds)

\* Every stored chunk eventually leaves the queue, without the help of
\* eviction: a lost message, ack, connection or subscription never leaves the
\* forwarder waiting for ever.
EventuallyForwarded == \A s \in 1 .. MaxSeq : (s \in pending) ~> (s \notin pending)
=============================================================================
