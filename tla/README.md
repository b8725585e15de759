# Specifications of the MaxGate400 gateway

TLA+ models of the gateway in `src/`, checked with TLC on small instances and,
where that is possible, proved with TLAPS for all of them. `PROJECT.json` holds
the machine-readable side: components, runs, the source lines of every
definition, hazards, findings, theorems.

## The system

    Modbus devices -> pollers -> Processor -> queue.Store -> Forwarder -> MQTT | HTTP -> server
                         ^                    (queue.db)                              |
                      Manager                     ^------------- acks ----------------+
                         ^
                     web API: configuration (gateway.db), settings (config.yaml), network, time

| Part | State | Operations | Talks to |
|---|---|---|---|
| `internal/queue` | `buf`, `unflushed`, cached counters; tables `chunk`, `meta` | Append, Flush, ReadBatch, Ack, Maintain, Open, Close | pollers, forwarder |
| `internal/forwarder` | the message under way, `pending` acks, connection | dispatchOnce, Send, handleAck, onConnect, subscribeWithRetry, watchdog | queue, broker, server |
| `cmd/server-demo` | `seen`, `lastSeq`, gaps, the database behind it | process, ingest | gateway |
| `internal/connection`, `device`, `datapoint` | three tables of `gateway.db` | create, update, delete, list | API, manager |
| `internal/acquisition` | running pollers, their configuration, latest values | Reload, Wait, the poll loop, planBlockReads | Modbus, processor |
| `internal/modbus` | one connection | Read, ReadWithRetry, Decode | devices |
| `internal/netconfig` | timer and snapshot of the last change | Apply, Confirm, revert | nmcli |
| `internal/time` | status, the clock | syncOnce | NTP, RTC |
| `internal/api` | the live configuration | settings, import and export, CRUD, reload, Test Read | everything |
| `cmd/gateway` | process life | start, shutdown | everything |

What makes it hard: the goroutines that share the queue commit a transaction first
and update memory in a later critical section; the process may die in between;
messages and acks are lost, repeated and late; the retry of a message may be a
different message; every HTTP request runs in a goroutine of its own, without
transactions on `gateway.db` and without a lock on the live configuration; Reload
reads the tables before it takes its mutex and does not wait for the pollers it
cancels; a network change is undone by a timer that runs beside everything else.
The hazards are listed one by one in `PROJECT.json`, the ones no property covers
with the reason.

## Modules

| Module | Models | Correspondence |
|---|---|---|
| `DurableQueue` | the promise of the package comment of `queue/store.go` | sets of seqs: pending, acknowledged, evicted, discarded |
| `QueueStore` | `queue/store.go`, `queue/capacity.go`, the forwarder as their caller, shutdown in `main.go` | one step per critical section of `Store.mu` or SQL transaction; `pc` is where each goroutine stands |
| `Delivery` | forwarder, both adapters, network, reference server, on top of `DurableQueue` | one action per step of `Send`, per callback of the MQTT library, per message the server handles |
| `ConfigDb` | the repositories of connections, devices and data points | one SQL statement per step; ids and foreign keys as SQLite gives them |
| `Acquisition` | `manager.go`, `poller.go`, `latest.go`, the life of `main` | one query of Reload per step, what is under `Manager.mu` is one step, a poller's step is one check of its context or one device |
| `ConfigApi` | the CRUD handlers, `configio.go`, on top of the two | `pc`, `req` and `imp` are a handler's place and locals |
| `BlockPlan` | `planBlockReads` | one step per data point, arithmetic modulo 2^16 |
| `ChunkCodec` | `queue/codec.go` | a chunk is the sequence of its fields |
| `DataPath` | `readDevice`, `decodeAndEmit`, `modbus/decode.go`, `quality.go`, `ReadWithRetry`, the Test Read | the way of a value through the two, one request per step |
| `NetConfig` | `internal/netconfig`, the network handlers | a profile per interface, what is in force and what is connected; one nmcli command per step, for handlers and timers alike |
| `Settings` | `saveSettings`, `config.Load`, `config.Save` | one step per place where another handler can come in |
| `TimeService` | `internal/time` | one step per reading of a clock, and time passes in between |
| `Watchdog` | `RunReconnectWatchdog` and the MQTT callbacks | callbacks are goroutines that run late and in any order |
| `Services` | the last four in one process | `Restart` is where they meet |
| `MC...` | | constants of the instances, restrictions named below |
| `QueueProofs`, `QueueSafetyProofs`, `QueueLedgerProofs` | | proofs about `QueueStore`, each module on top of the one before |
| `DeliveryProofs` | | proofs about `Delivery` |
| `ConfigProofs`, `RoundTripProofs` | | proofs about `ConfigApi` |
| `PathProofs` | | proofs about `DataPath`, with `BlockPlan` and `ChunkCodec` |
| `ServicesProofs` | | proofs about `Services` |

`QueueStore` is shown to implement `DurableQueue` (refinement mapping `DQ`), and
`Delivery` uses the actions of `DurableQueue` for the queue, so the two halves
meet in it. `DataPath` ends where `QueueStore` begins, with a reading in the
buffer.

Abstractions, beyond what each module's head says:

- **QueueStore.** A reading is the number of its Append call with a timestamp; a
  chunk is a set of readings and a flag, whether its blob decodes. The size of the
  file is counted in pages of one chunk each, so the estimate of `evictOnce` is
  exact up to free pages and stale counts. `Send` is one step that succeeds or
  fails: what is behind it is `Delivery`. The write-rate statistics are left out.
  In `Open` at most one query fails.
- **Delivery.** A message is a set of whole chunks, a stream and `to_seq`.
  `ReadBatch` is one step with its discards. One flush writes one chunk. A timeout
  may happen at any moment. The network is a set of messages and a set of acks;
  one that is full drops something. The reference server's simulated faults, its
  rejection of unknown gateways and a failing database are the branches of
  `ServerFails`. A gateway crash and the following start are one step.
- **ConfigDb, Acquisition, ConfigApi.** Of a row its reference, its switch and one
  further column are kept. One read of a device with its readings is one step;
  `DataPath` opens it up. Poll intervals are not modelled: a poller may go on at
  any time. `MaxPollers` bounds the goroutines alive, cancelled ones included.
- **DataPath.** Bytes are named by their register, a value is the sequence of its
  bytes. Numbers and scaling are functions of that and left out.
- **NetConfig.** Of a profile the method, one address, the gateway and the name
  servers are kept, not the prefix. `con mod` changes the fields it names and no
  others; `con up` puts the profile into force; an interface that is plugged in again
  comes up with its profile. With automatic addressing, what the profile still names
  comes beside the lease, and the first address reported may be either.
- **Watchdog.** What is assumed of the MQTT library, since `checkAndForceReconnect`
  assumes it: a client is connected, trying, or has stopped trying with or without the
  status "disconnected" (`stalled`, `hung`). `Connect` is refused unless the status is
  disconnected; a stalled client tries again after it, unless the attempt fails, which
  happens finitely often. Callbacks run in goroutines of their own.
- **TimeService.** Times are numbers; `Earliest` and `Latest` stand for the years 2020
  and 2100 of `isPlausible`.
- **DataPath, codec.** `QualityFromError` returns only qualities the codec knows, so the
  branch of `encodeChunk` for an unknown one is modelled and never taken in the run;
  the lemmas about encoding and decoding (`DecodesChunk`) cover it.
- **Services.** Of the settings the Store & Forward switch,
  the transport, broker URL and password are kept, and whether the NTP server is
  acceptable. Durations of the watchdog are zero, recent and long ago.

History variables (`gone`, `sent`, `lost`, `dropIds`; `version`, `applied`;
`overlap`, `tested`, `mixed`, `late`; `polled`, `sealed`) record what happened and
steer nothing.

## Runs

| Run | Instance | Distinct states | Shows |
|---|---|---|---|
| `queue_store` | 3 readings, 1 failure | 1,388,532 | `Accounted`, `FirstInFirstOut`, `CountersInStep`, `AckedWereSent`, refinement of `DurableQueue` |
| `queue_crash` | 2 readings, 2 failures, 1 crash or shutdown | 767,018 | the same over a restart, `BacklogBounded`, `CleanClose` |
| `queue_live` | 2 readings, 1 failure, 1 stop | 206,157 | `EventuallyWritten`, `LimitRestored` |
| `delivery` | 3 chunks with 2 messages and 2 acks in flight, or 2 chunks over 2 queue files | 1,056,558 | `AckedIsStored`, `GapsAreGivenUp` |
| `delivery_live` | 2 chunks, 1 break | 15,038 | `EventuallyForwarded` |
| `acquisition` | 2 handlers, 2 events, 2 connections, 3 devices, 2 data points, 2 pollers | 339,280 | tables, pollers and latest values stay consistent; import after export; shutdown ends |
| `services` | 3 events, 2 interfaces, 2 handlers each, 2 timers, era of 6 | 976,889 | `Confirmable`, `RevertRestores`, `SavedStarts`, `ClockBounded`, `ReconnectForced` |
| `datapath` | devices of 2, 3 and 12 points, 2 passes, 1 fault | 197,978 | `PlanSound`, `PolledAsDedicated`, `ChunkRoundTrip`, `TestReadPersists` |
| `oldest_ts` | 3 readings | violated | the cached oldest timestamp outlives its chunk |
| `ack_without_stream` | 2 chunks, 2 queue files | violated | an ack without `stream_id` can delete unsent data |
| `import_restore` | the file of a gateway with 2 devices | violated | an import into an empty gateway can lose a data point |
| `rejected_save` | one form | violated | a rejected save has changed the live configuration |

The violations are disagreements between a comment or document and the code;
`findings` quotes them. In `oldest_ts`, Ack deletes a chunk and refreshes the
bounds between the commit of the Flush that wrote it and the memory update of that
Flush; it affects what the web page shows, until the next deletion. In
`import_restore`, an id of the file meets a row that the same import has just
created. In `rejected_save`, the check of the NTP server comes after the
assignments.

What the properties say and where they stop, since the code stops there too:

- `GapsAreGivenUp`: the server reports a gap only for chunks that were evicted or
  discarded as undecodable, as long as it has not restarted. `wire.go` explains a
  gap by eviction alone.
- `LimitRestored` and `CountersInStep` exclude a process that could not read its
  counters at start: the code takes them as 0 and eviction trusts them.
- `ReloadedMatches`: after the last change, the Reload that began later and was
  applied last leaves exactly the pollers the tables ask for. If a Reload that
  began earlier is applied last, its older view stays in force until the next one.
- `OnePollerPerConnection` allows a cancelled poller beside its successor;
  `CancelledEnd` says that it ends.
- `RoundTrip` is about an import of what the tables hold, undisturbed by other
  requests and failing statements. Torn exports and disturbed imports are in the
  model and must keep `ReferentialIntegrity`.
- `Confirmable` excludes a change armed while the revert of an earlier one runs:
  the end of that revert clears the newer timer.
- `RevertRestores`: a revert whose commands work, with no other `con mod` of the same
  interface among or after them, takes the primary interface back to the method it
  had and, if that was static, to its address, gateway and name servers, whatever
  happened between the change and the revert. The snapshot must have been complete:
  the method was read, profile and interface agreed, and a static configuration had a
  gateway, without which `validate` refuses the revert. The code does no more than
  that, and the property claims no more. The snapshot is of the primary interface, so
  a change to another one is not undone. `ApplyDHCP` sets the method alone, so after a
  revert to DHCP the address, gateway and name servers of the change stay in the
  profile, beside the lease. An empty list of servers leaves the servers of the change.
  A restart forgets the timer and keeps the change. `Confirm` after the timer fired
  reports success and stops nothing.
- `SavedStarts` excludes a file cut short by a crash, two saves that mixed, and a
  password with a dollar sign.
- `ReconnectForced` is about a client that stopped trying with the status
  disconnected. One that hangs in another status is in the model and stays there:
  `Connect` is refused on every tick and the watchdog takes that for a library that is
  busy. It also excludes an `onConnect` that runs after the loss of its own connection
  has been handled.
- `TestReadPersists` counts attempts, as the loop of `ReadWithRetry` does: an attempt
  whose reconnect failed has sent nothing.
- `ClockBounded` is about an exchange within the first NTP era. Past the wrap of 2036
  `ntpTimestampToTime` puts the server's time an era back.
- `PlanSound` and `PolledAsDedicated` exclude a point that ends at register 65535
  and was merged; the second also a block that the device refuses because of a
  register outside the point.

**Bounds.** Three readings give two rows and one in memory, or three rows: enough
for a message of two chunks, an eviction that overlaps it and a row behind it.
`MaxUnflushedChunks` 1 makes the backlog overflow with two chunks, `MaxPages` 1
makes eviction run with two rows, and `DiskExcess` {0, 1} lets the disk be full
while the file is not (in `queue_store`; with crashes only the file's size counts).
The second reading is older than the first, as concurrent pollers may deliver them.
Crashes and three readings together are too many states for one run, hence
`queue_crash` beside `queue_store`. In `delivery`, messages of one or two chunks
overlap and the third chunk overshoots `MaxReadings`; two messages and two acks in
flight are an old attempt beside its retry. By the constraint `Budget` a behaviour
either has three chunks and a damaged blob, or two chunks and a new queue file, a
server restart and a broken connection.

In `acquisition` two events are two requests, or a request and a failing statement,
a stop or a crash, each at any place of the other: a device is created on a
connection that is being deleted, a data point on a device that is being deleted, a
device is switched on while another Reload runs. Two pollers are one and its
successor. Files are exchanged on a gateway whose connection is switched off, where
no poller takes part; one of the files was torn. Requests go to the first free
handler. In `services` a behaviour exercises one of the four services, since they
share no variable except through `Restart`; three events are two changes and a
failure, or three changes. In the network part an event is a request, a failing
command, an interface unplugged or plugged in, or a restart; the primary interface
starts with DHCP or static, with and without name servers and a gateway, the second
one with DHCP. Two requests may be of any kind and overlap anywhere; a third comes
alone and asks for a static address of the primary interface (`LastIsPlain`).
`EraLength` 6 and `MaxReal` 7 let the seconds field wrap within one exchange, and
clocks lie on both sides of `Earliest` and `Latest`. In `datapath` the addresses are
next to each other, at the widest gap and past it, at the limit of 125 registers and
past it, and at the top of the address space; `Retry` 2 has a retry that is not the
last. `services` and `datapath` do not check for deadlock: with the events used up
and no request under way, there is nothing left to do. All other passing runs check
for it. The proofs do not depend on any bound.

**Fairness.** `QueueStore`: weak fairness of flusher, forwarder, maintenance and
the shutdown steps (tickers fire, calls return, the service manager restarts the
process), and strong fairness of Close taking `flushMu`, since Go's mutex does not
starve a waiter. Nothing is asked of the server. `Delivery`: weak fairness of the
gateway's goroutines, of reconnection and of what is in the network; strong
fairness of a successful publish, of the server answering within the timeout, of
the ack arriving and of the deletion: each of them is tried for ever, and no data
can flow to a server where one of them never succeeds. `EventuallyForwarded` is
checked with one break. With three, all Subscribe calls of one connection can
fail; the code then waits for the next reconnect, which may never come, and
nothing is forwarded. That is listed as a hazard. `ConfigApi`: weak fairness of
each poller, whose reads and sleeps end by their timeouts or the context, and of
the main goroutine. Handlers may take for ever: Shutdown waits for them only for a
limited time. `Services`: weak fairness of the goroutines of the adapter and of
the watchdog's ticker; the broker owes nothing, and an attempt of the watchdog
that fails is an event, so that not all of them do.

## Proofs

Every safety property that a passing run checks is also a theorem, for all values of
the constants, and so is the refinement. The assumptions are the named ASSUMEs of
the modules, which TLC evaluates on the instances: bounds and limits are numbers,
names are distinct, of any interfaces there is a first one, requests, files, forms
and layouts have the types the code gives them, and a layout has finitely many
points. Two say more: `PlanAssumption` asks for an address space of more than 300
registers (the code's has 65536), and `TimeAssumption` that the bound on time
reaches to the end of an NTP era. A run's property is seldom inductive; what each
proof adds to it, and why, is the argument.

**The queue.** `QueueProofs` shows the types and what each goroutine's steps leave
alone. `QueueTypeCorrect` rests on `Shape`: which values are possible at which `pc`,
such as that at most one caller is inside `flushMu` and its batch is all that waits,
or that the rows the forwarder works on are below `nextSeq`. On top of it
`BacklogBounded` is inductive (`BacklogIsBounded`). `CloseIsClean` needs `CloseInv`:
once Close has emptied the buffer no poller refills it, and only a failing call
makes it leave chunks behind.

`QueueSafetyProofs` describes a step by what it does to the rows: nothing, insert
all that waits, or delete some. `AckRemovesOnlySent` needs `MessageInv`: the rows up
to the last one of the message that still exist are in it or about to be discarded,
although rows are evicted and inserted in the meantime. `StoreImplementsQueue`
proves `Spec => ImplementsDurableQueue` with the mapping `DQ` of `QueueStore`: every
step is a step of `DurableQueue` or a stutter. `QueueIsFifo` needs `Ordered`:
everything in the rows is before what waits in `unflushed` (unless that has just
been committed and memory does not know it yet), and both are before `buf`.

In `QueueLedgerProofs`, `ReadingsAreAccounted` needs `Ledger`: what is in memory,
stored or has left is all that was ever appended, and nothing is both here and gone,
where a chunk that is committed and still in `unflushed` counts as stored; that
memory and rows share nothing follows from `Ordered`. `CountersStayInStep`:
`MetaInStep` for the counters in the database; `MemInStep` for the cached ones,
which lag behind by what `DueInv` says is due at each goroutine between its commit
and its critical section; `DownInv` for a process that is down.

**`DeliveryProofs`.** `DeliveryTypeCorrect`. `NoLoss`: `[]AckedIsStored`, if the
server echoes the stream (`EchoStream`) or there is only one queue file;
`ack_without_stream` shows that the condition is needed. In a state with an unsound
ack in the network the next steps violate the property, so `DeliveryInv` says what
makes acks sound. A message of the current stream contains every chunk still pending
up to its `to_seq` (`WireCovers`, `MsgCovers`): `ReadBatch` takes a prefix of the
rows (`ScanIsPrefix`), rows are only removed, and new ones get a larger seq. So when
the server has stored a message, everything pending up to `to_seq` is stored
(`AcksAreSound`), and stays so (`AckSoundStable`), whichever attempt the ack
answers. `ChannelMatches` carries that through the channel of `Send`, and
`ReadyToAck` to the deletion; `SeenIsStored` covers duplicates. `GapsAreReal`:
`[]GapsAreGivenUp` under the same condition. `GapInv` adds that the server, until it
restarts, remembers all it has stored and the highest seq of it (`ServerRemembers`),
that no message has a chunk above its `to_seq` (`MessagesBounded`), and that no gap
is reported for a seq not in use yet (`GapsAreOld`).

**`ConfigProofs`.** `ReferencesHold`: every step runs at most one statement
(`OneStatementPerStep`) and no statement that SQLite accepts breaks a reference
(`ExecKeepsReferences`). `LatestComesFromItsDevice`: a reading may come long after
the row it was configured from is gone, so `AcqInv` says of everything on the way to
the latest values (what a Reload has read, what a poller scans, what it has emitted)
that a point belongs to the device named or no longer exists and will not be created
again, its id being at most `dpSeq` (`PointOf`). `WaitLeavesQuiet` adds that main
waits only after the context is cancelled (`PhaseInv`), so that a poller started
later ends at its first check. `ReloadMatches` needs `SnapInv`: what a Reload has
read so far equals the tables if nothing was written since it began (`SnapCurrent`).
`OnePollerEach` needs `EntryInv`: the poller of an entry of `Manager.running` is the
entry's own and not cancelled; and `ValidInv`: only connections that pass `Validate`
get into the tables, so no poller returns by itself and leaves its entry behind.

**`RoundTripProofs`.** `ImportRestores`: `RoundInv` follows a file from the export
that wrote it (`ExportInv`: what was read is what the tables hold, if nothing was
written) to the import that reads it (`ImportInv`: as long as nobody else writes,
the tables hold what the file says and the import finds each item under its own id).
`ConfigTypeCorrect` rests on `TypeInv`.

**`PathProofs`.** `PlanIsSound`: `PlanInv` adds that the points still to be placed
lie above the start of the block being built, because they are taken in the order of
their addresses: only then does the wrap of a sum mean that the point ends at the
top of the address space (`MergeGrows`). `PolledIsDedicated` rests on it: a sound
block covers the registers of its points, the bytes of the reply are the registers
in order (`RawIs`), and what `decodeAndEmit` cuts out of them is what a request for
the point alone returns (`CutIsDedicated`, `OutcomeIsDedicated`). `ChunksDecode`:
`PathInv` says that a stored chunk is the encoding of what was sealed, and
`DecodesChunk` that an encoding decodes to its readings and no proper prefix of it
decodes at all. `encodeChunk` and `decodeChunk` are recursive functions over the
records, so that this is an induction over data: `Reaches` proves a set of numbers
to hold all of an interval, from the well-foundedness of `<`, and the lemmas apply
it to the set of the numbers of records for which the claim holds. It also shows
that the recursive functions exist (`RecordsAre`, `DecodedAre`); `DecodesRecord` is
the step and `LoopIs` the state of the decoder after each record of a whole or a cut
chunk. `TestReadIsPersistent`: `TestSound` counts the requests of a Test Read under
way.

**`ServicesProofs`.** `ClockIsBounded`: `TimeInv` keeps the order of the four times
within one era and the error of the corrected time from the answer to the step of
the clock; `OffsetBounds` is the arithmetic of the exchange. `ChangeCanBeConfirmed`
and `NetworkIsRestored`: `NetInv` says that without an overlap at most one timer is
armed and no revert runs beside it, and of each change under way, armed or reverting
(`TimerSound`) that its snapshot shows the configuration the primary interface had
(`Shows`), and how far the revert has got: the profile is the one to restore once
`con mod` has worked, and in force once `con up` has, until another `con mod` of
that interface. It need not follow what other handlers did before, since
`ApplyStatic` writes every field that `Restored` looks at, whatever the profile held
(`Target_Restores`). `SettingsStart`: `SettingsInv` says of each save under way what
it has checked and assigned (`SaveSound`), up to the data it writes, with which a
process can start (`Startable`); unless changes mixed, one save at a time is between
its first assignment and the end of `config.Save`. `ServicesTypeCorrect` takes the
rest from `RestInv`.

**Only model-checked.** Liveness, which needs fairness and ENABLED and is out of the
prover's reach: `EventuallyWritten`, `LimitRestored`, `EventuallyForwarded`,
`StopsInTheEnd`, `CancelledEnd`, `ReconnectForced`. And the four violations, which
are counterexamples and need no proof.

## Not modelled

- The web interface, logging, `/proc` readers, status and diagnostics counters:
  nothing in the gateway depends on them.
- The text of nmcli, the layouts of NTP packets and RTC ioctls, TLS files: pure I/O.
- Modbus frames, MQTT packets, varints and DEFLATE: libraries. Whether the Modbus
  library opens a link again that broke between two polls is its own affair; the
  poller does not reconnect after its first Connect.
- Numbers and scaling: floating point is out of TLC's reach.
- Schema migrations and the overrides by environment variables: they run once, in
  one goroutine, before anything else.
- The pages and counters of the reference server; development tools.

`PROJECT.json` gives the reason for each component.
