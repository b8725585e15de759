----------------------------- MODULE ConfigApi ------------------------------
(***************************************************************************)
(* internal/api: the handlers that change gateway.db and reload the        *)
(* acquisition, the export and the import of the configuration, and the    *)
(* process around them.  net/http runs every request in its own goroutine, *)
(* so two handlers interleave at every statement.                          *)
(***************************************************************************)
EXTENDS Acquisition

CONSTANTS
    Requests,      \* the statements handlers are asked for
    Files          \* configuration files the operator may start with

\* What JSON decodes to: a device or a data point may name a parent that is not there.
DeviceJSON == [conn : Nat, enabled : BOOLEAN, cfg : Cfgs]
DataPointJSON == [dev : Nat, enabled : BOOLEAN, cfg : Cfgs]

\* A request's payload has the type of its statement's row.
ASSUME RequestsAssumption ==
    \A st \in Requests :
        /\ st.op \in {"createConnection", "updateConnection"} => st.row \in ConnRow
        /\ st.op \in {"createDevice", "updateDevice"} => st.row \in DeviceJSON
        /\ st.op \in {"createDataPoint", "updateDataPoint"} => st.row \in DataPointJSON

\* A file has rows of these types and lists the points of each of its devices; the ones
\* the operator starts with were not exported here.
ASSUME FilesAssumption ==
    \A f \in Files :
        /\ IsTable(f.conns, Nat, ConnRow)
        /\ IsTable(f.devs, Nat, DeviceJSON)
        /\ DOMAIN f.pts = DOMAIN f.devs
        /\ \A d \in DOMAIN f.pts : IsTable(f.pts[d], Nat, DataPointJSON)
        /\ f.of = -1

VARIABLES
    req,        \* the request each handler works on
    imp,        \* importConfig's locals
    file        \* the operator's configuration file

apiVars == <<req, imp, file>>
vars == <<dbVars, acqVars, apiVars>>

NoReq == [op |-> "none", id |-> 0]

\* A configuration file: the three lists and, for the properties only, the
\* version it shows (-1: none, it comes from elsewhere or was torn).
AsFile(l, v) == [conns |-> l.conns, devs |-> l.devs, pts |-> l.pts, of |-> v]

NoImport == [file |-> AsFile(NoLocals, -1), conns |-> {}, map |-> <<>>,
             devs |-> {}, dev |-> 0, as |-> 0, pts |-> {}, found |-> FALSE,
             start |-> 0, alone |-> -1]

ApiInit ==
    /\ req = [x \in Handlers |-> NoReq]
    /\ imp = [x \in Handlers |-> NoImport]
    /\ file \in Files

Init == DbInit /\ AcqInit /\ ApiInit

\* What a statement or a step of a handler leaves alone.
rest == <<phase, stopped, running, applied, pollers, latest>>

---------------------------------------------------------------------------
(* Create, update and delete. *)

\* deleteConnection counts the devices, createDataPoint gets the device and
\* updateDataPoint the old row before the statement that writes.
Looks(op) == op \in {"deleteConnection", "createDataPoint", "updateDataPoint"}

\* Mutant: the row is not validated.
ReceivesAny(x, st) == phase = "serving" /\ pc[x] = "idle"
\* A request whose payload decodes and passes Validate; any other one changes
\* nothing.
Receives(x, st) ==
    /\ phase = "serving"
    /\ pc[x] = "idle"
    /\ st.op \notin {"deleteConnection", "deleteDevice", "deleteDataPoint"} => Validate(st.row)

\* The statement, then reload; an error is reported without a reload, and a
\* statement that fails for another reason has the same outcome.
Write(x, st) ==
    /\ req' = [req EXCEPT ![x] = NoReq]
    /\ \/ /\ Exec(st)
          /\ version' = version + 1
          /\ pc' = [pc EXCEPT ![x] = "reloadDevs"]
       \/ /\ ~Accepts(st)
          /\ pc' = [pc EXCEPT ![x] = "idle"]
          /\ UNCHANGED <<dbVars, version>>
    /\ UNCHANGED <<rest, loc, imp, file>>

OneStatement(x, st) ==
    /\ Receives(x, st)
    /\ ~Looks(st.op)
    /\ Event
    /\ Write(x, st)

Found(st) ==
    CASE st.op = "deleteConnection" -> ~InUse(st.id)
      [] st.op = "createDataPoint" -> st.row.dev \in DOMAIN devs
      [] st.op = "updateDataPoint" -> st.id \in DOMAIN dps

\* Otherwise, or if the query fails, the handler returns with an error.
Look(x, st) ==
    /\ Receives(x, st)
    /\ Looks(st.op)
    /\ Event
    /\ Found(st)
    /\ req' = [req EXCEPT ![x] = st]
    /\ pc' = [pc EXCEPT ![x] = "write"]
    /\ UNCHANGED <<dbVars, rest, loc, version, imp, file>>

AfterLook(x) == pc[x] = "write" /\ Write(x, req[x]) /\ UNCHANGED events

---------------------------------------------------------------------------
(* exportConfig: one query for the connections, one for the devices, one   *)
(* for the points of each device.                                          *)

ExportConns(x) ==
    /\ phase = "serving"
    /\ pc[x] = "idle"
    /\ Event
    /\ loc' = [loc EXCEPT ![x] = [NoLocals EXCEPT !.since = version, !.conns = conns]]
    /\ pc' = [pc EXCEPT ![x] = "exportDevs"]
    /\ UNCHANGED <<dbVars, rest, version, req, imp, file>>

ExportDevs(x) ==
    /\ pc[x] = "exportDevs"
    /\ loc' = [loc EXCEPT ![x].devs = devs]
    /\ pc' = [pc EXCEPT ![x] = "exportPoints"]
    /\ UNCHANGED <<dbVars, rest, version, events, req, imp, file>>

\* Unlike Reload it asks for every device, whatever its connection.
ExportPoints(x) ==
    /\ pc[x] = "exportPoints"
    /\ LET left == DOMAIN loc[x].devs \ DOMAIN loc[x].pts
       IN  \/ /\ left # {}
              /\ loc' = [loc EXCEPT ![x].pts = WithRow(@, Min(left), ListByDevice(Min(left)))]
              /\ UNCHANGED <<pc, file>>
           \/ /\ left = {}
              /\ file' = AsFile(loc[x], IF loc[x].since = version THEN version ELSE -1)
              /\ pc' = [pc EXCEPT ![x] = "idle"]
              /\ loc' = [loc EXCEPT ![x] = NoLocals]
    /\ UNCHANGED <<dbVars, rest, version, events, req, imp>>

ExportFails(x) ==
    /\ pc[x] \in {"exportDevs", "exportPoints"}
    /\ Event
    /\ pc' = [pc EXCEPT ![x] = "idle"]
    /\ loc' = [loc EXCEPT ![x] = NoLocals]
    /\ UNCHANGED <<dbVars, rest, version, req, imp, file>>

---------------------------------------------------------------------------
(* importConfig: connections, then each device and its points, one at a    *)
(* time; a Get decides whether an item is updated or created, and an error *)
(* of one item does not stop the others.                                   *)

Valid(f) ==
    /\ \A c \in DOMAIN f.conns : Validate(f.conns[c])
    /\ \A d \in DOMAIN f.devs : Validate(f.devs[d])
    /\ \A d \in DOMAIN f.devs : \A p \in DOMAIN f.pts[d] : Validate(f.pts[d][p])

Import(x) ==
    /\ phase = "serving"
    /\ pc[x] = "idle"
    /\ Event
    /\ Valid(file)
    /\ imp' = [imp EXCEPT ![x] = [NoImport EXCEPT !.file = file,
                !.conns = DOMAIN file.conns, !.devs = DOMAIN file.devs,
                !.start = version, !.alone = version]]
    /\ pc' = [pc EXCEPT ![x] = "import"]
    /\ UNCHANGED <<dbVars, rest, loc, version, req, file>>

Item(i) ==
    IF i.conns # {} THEN "connection"
    ELSE IF i.pts # {} THEN "point"
    ELSE IF i.devs # {} THEN "device"
    ELSE "none"

\* The device at hand refers to a connection that did not make it.
Dangling(i) == i.file.devs[Min(i.devs)].conn \notin DOMAIN i.map

\* The statement that writes the item at hand, with the ids restored so far.
Statement(i) ==
    CASE Item(i) = "connection" ->
            [op |-> IF i.found THEN "updateConnection" ELSE "createConnection",
             id |-> Min(i.conns), row |-> i.file.conns[Min(i.conns)]]
      [] Item(i) = "point" ->
            [op |-> IF i.found THEN "updateDataPoint" ELSE "createDataPoint",
             id |-> Min(i.pts), row |-> [i.file.pts[i.dev][Min(i.pts)] EXCEPT !.dev = i.as]]
      [] Item(i) = "device" ->
            [op |-> IF i.found THEN "updateDevice" ELSE "createDevice",
             id |-> Min(i.devs), row |-> [i.file.devs[Min(i.devs)] EXCEPT !.conn = i.map[@]]]

\* Mutant: data points are not looked up.
ExistsByParent(i) ==
    CASE Item(i) = "connection" -> Min(i.conns) \in DOMAIN conns
      [] Item(i) = "point" -> FALSE
      [] Item(i) = "device" -> Min(i.devs) \in DOMAIN devs
Exists(i) ==
    CASE Item(i) = "connection" -> Min(i.conns) \in DOMAIN conns
      [] Item(i) = "point" -> Min(i.pts) \in DOMAIN dps
      [] Item(i) = "device" -> Min(i.devs) \in DOMAIN devs

\* On to the next item.  A device that was not written takes its points along.
Skip(i) ==
    CASE Item(i) = "connection" -> [i EXCEPT !.conns = @ \ {Min(@)}]
      [] Item(i) = "point" -> [i EXCEPT !.pts = @ \ {Min(@)}]
      [] Item(i) = "device" -> [i EXCEPT !.devs = @ \ {Min(@)}]

Written(i, id) ==
    CASE Item(i) = "connection" -> [Skip(i) EXCEPT !.map = WithRow(@, Min(i.conns), id)]
      [] Item(i) = "point" -> Skip(i)
      [] Item(i) = "device" -> [Skip(i) EXCEPT !.dev = Min(i.devs), !.as = id,
                                               !.pts = DOMAIN i.file.pts[Min(i.devs)]]

\* Any error of Get counts as "not found".
ImportGet(x) ==
    /\ pc[x] = "import"
    /\ Item(imp[x]) # "none"
    /\ \/ /\ Item(imp[x]) = "device" /\ Dangling(imp[x])
          /\ imp' = [imp EXCEPT ![x] = Skip(@)]
          /\ UNCHANGED <<pc, events>>
       \/ /\ ~(Item(imp[x]) = "device" /\ Dangling(imp[x]))
          /\ pc' = [pc EXCEPT ![x] = "importPut"]
          /\ \/ /\ imp' = [imp EXCEPT ![x].found = Exists(imp[x])]
                /\ UNCHANGED events
             \/ /\ Event
                /\ imp' = [imp EXCEPT ![x].found = FALSE, ![x].alone = -1]
    /\ UNCHANGED <<dbVars, rest, loc, version, req, file>>

ImportPut(x) ==
    /\ pc[x] = "importPut"
    /\ pc' = [pc EXCEPT ![x] = "import"]
    /\ LET i == imp[x]
           st == Statement(i)
       IN  \/ /\ Exec(st)
              /\ version' = version + 1
              /\ imp' = [imp EXCEPT ![x] = [Written(i, IdOf(st)) EXCEPT
                            !.alone = IF @ = version THEN version + 1 ELSE -1]]
              /\ UNCHANGED events
           \/ /\ ~Accepts(st)
              /\ imp' = [imp EXCEPT ![x] = Skip(i)]
              /\ UNCHANGED <<dbVars, version, events>>
           \/ /\ Event
              /\ imp' = [imp EXCEPT ![x] = [Skip(i) EXCEPT !.alone = -1]]
              /\ UNCHANGED <<dbVars, version>>
    /\ UNCHANGED <<rest, loc, req, file>>

ImportDone(x) ==
    /\ pc[x] = "import"
    /\ Item(imp[x]) = "none"
    /\ pc' = [pc EXCEPT ![x] = "reloadDevs"]
    /\ imp' = [imp EXCEPT ![x] = NoImport]
    /\ UNCHANGED <<dbVars, rest, loc, version, events, req, file>>

---------------------------------------------------------------------------
(* The process ends, by a crash or after main returned, and systemd starts *)
(* it again: gateway.db and the operator's file are all that is left.      *)
Restart ==
    /\ Event
    /\ phase' = "starting"
    /\ stopped' = FALSE
    /\ pc' = [x \in Callers |-> IF x = Main THEN "reloadDevs" ELSE "idle"]
    /\ loc' = [x \in Callers |-> NoLocals]
    /\ running' = <<>>
    /\ pollers' = <<>>
    /\ latest' = <<>>
    /\ applied' = -1
    /\ req' = [x \in Handlers |-> NoReq]
    /\ imp' = [x \in Handlers |-> NoImport]
    /\ UNCHANGED <<dbVars, version, file>>

Handle(x) ==
    \/ \E st \in Requests : OneStatement(x, st) \/ Look(x, st)
    \/ AfterLook(x)
    \/ ExportConns(x)
    \/ ExportDevs(x)
    \/ ExportPoints(x)
    \/ ExportFails(x)
    \/ Import(x)
    \/ ImportGet(x)
    \/ ImportPut(x)
    \/ ImportDone(x)

Next ==
    \/ \E x \in Handlers : Handle(x)
    \/ \E x \in Callers : Reload(x) /\ UNCHANGED apiVars
    \/ \E s \in DOMAIN pollers : Poll(s) /\ UNCHANGED apiVars
    \/ (Serve \/ Stop \/ Shutdown \/ Wait) /\ UNCHANGED apiVars
    \/ Restart
    \/ phase = "closed" /\ UNCHANGED vars

\* The Go scheduler runs every goroutine that can run, and a poller that has
\* started a request gets an answer or a timeout.
Fairness ==
    /\ \A s \in Slots : WF_vars(s \in DOMAIN pollers /\ Poll(s) /\ UNCHANGED apiVars)
    /\ WF_vars((Reload(Main) \/ Serve \/ Shutdown \/ Wait) /\ UNCHANGED apiVars)

Spec == Init /\ [][Next]_vars /\ Fairness

---------------------------------------------------------------------------
(* Properties. *)

TypeOK ==
    /\ IsTable(conns, ConnIds, ConnRow)
    /\ IsTable(devs, DevIds, DevRow)
    /\ IsTable(dps, DpIds, DpRow)
    /\ connSeq \in 0 .. MaxConn /\ dpSeq \in 0 .. MaxDp
    /\ phase \in {"starting", "serving", "waiting", "closed"}
    /\ stopped \in BOOLEAN
    /\ pc \in [Callers -> {"idle", "write", "exportDevs", "exportPoints",
                           "import", "importPut"} \cup ReloadPCs]
    /\ DOMAIN running \subseteq ConnIds
    /\ \A c \in DOMAIN running : running[c].slot \in Slots
    /\ DOMAIN pollers \subseteq Slots
    /\ \A s \in DOMAIN pollers :
          pollers[s].pc \in {"top", "connect", "device", "read"}
    /\ version \in Nat /\ applied \in -1 .. version
    /\ events \in 0 .. MaxEvents

\* What Manager.running should hold for the tables as they are.
Desired ==
    LET ds == ListEnabled(devs)
        on == {d \in DOMAIN ds : ds[d].conn \in DOMAIN ListEnabled(conns)}
    IN  Grouped(ListEnabled(conns), ds, [d \in on |-> ListEnabledByDevice(d)])

\* Reload makes the running set match the configuration: if the Reload applied
\* last began after the last change of gateway.db, Manager.running is what the
\* tables ask for, however its statements interleaved with other requests.
ReloadedMatches ==
    applied = version =>
        [c \in DOMAIN running |-> [conn |-> running[c].conn, devices |-> running[c].devices]]
            = Desired

\* Manager.running and the goroutines agree: an entry's poller is alive, scans
\* what the entry says and has not been cancelled, and a poller that is not an
\* entry's has been cancelled.  So no connection has two pollers that go on,
\* and none that should be polled has lost its goroutine.
OnePollerPerConnection ==
    /\ ~stopped => \A c \in DOMAIN running : running[c].slot \in DOMAIN pollers
    /\ \A s \in DOMAIN pollers : ~pollers[s].cancelled =>
          /\ pollers[s].id \in DOMAIN running
          /\ running[pollers[s].id] = [slot |-> s, conn |-> pollers[s].conn,
                                       devices |-> pollers[s].devices]

\* Once Manager.Wait has returned and the queue is being closed, no poller is
\* between a check of its context and the readings it emits, although a late
\* handler's Reload may still start one.
QuietAfterWait ==
    phase = "closed" => \A s \in DOMAIN pollers : pollers[s].pc = "top"

\* The value the Web UI shows for a data point was read from that point's own
\* device: data point ids are never given twice and no statement moves a point
\* to another device, so a cancelled poller's late reading cannot land on a
\* newer row.
LatestIsOwn ==
    \A p \in DOMAIN dps \cap DOMAIN latest : latest[p] = dps[p].dev

\* Importing what was exported from the same contents changes nothing, as long
\* as no other request writes meanwhile and no statement fails: every item is
\* found under its id and rewritten as it is.
RoundTrip ==
    \A x \in Handlers :
        LET i == imp[x]
        IN  /\ pc[x] \in {"import", "importPut"}
            /\ i.alone = version
            /\ i.file.of = i.start
            => /\ conns = i.file.conns
               /\ devs = i.file.devs
               /\ [d \in DOMAIN devs |-> ListByDevice(d)] = i.file.pts

\* After SIGTERM the process gets through Shutdown and Wait: every poller sees
\* the cancelled context, whatever it was waiting for.
StopsInTheEnd == stopped ~> (phase = "closed" \/ ~stopped)

\* A poller that Reload cancelled ends, and with it its hold on the link.
CancelledEnd ==
    \A s \in Slots :
        (s \in DOMAIN pollers /\ pollers[s].cancelled)
            ~> (s \notin DOMAIN pollers \/ ~pollers[s].cancelled)
=============================================================================
