---------------------------- MODULE Acquisition -----------------------------
(***************************************************************************)
(* internal/acquisition: Manager.Reload brings the set of connection       *)
(* pollers in line with gateway.db, a poller goroutine scans the devices   *)
(* of its connection until its context is cancelled, and main waits for    *)
(* all of them on the way out.                                             *)
(*                                                                         *)
(* Reload runs in its caller's goroutine, main or an HTTP handler, and     *)
(* reads the tables in one statement per step before it takes Manager.mu;  *)
(* what it does under mu is one step.  Cancelling a poller does not wait   *)
(* for it.  One read of a device, with all its blocks and the readings it  *)
(* emits, is one step: no property tells its requests apart.               *)
(***************************************************************************)
EXTENDS ConfigDb

CONSTANTS
    Handlers,      \* bound: HTTP handler goroutines
    Main,          \* the main goroutine
    MaxPollers,    \* bound: poller goroutines alive at a time
    MaxEvents      \* bound: requests, failing statements and restarts

ASSUME AcquisitionAssumption ==
    /\ Main \notin Handlers
    /\ MaxPollers \in Nat /\ MaxEvents \in Nat

VARIABLES
    phase,      \* where main is
    stopped,    \* the context of main is cancelled
    pc,         \* where each caller of Reload is
    loc,        \* what it has read so far
    running,    \* Manager.running: connection id -> [slot, conn, devices]
    pollers,    \* poller goroutines: slot -> state
    latest,     \* LatestStore: data point id -> device it was read from
    version,    \* history: statements that have changed gateway.db
    applied,    \* history: version the Reload applied last started from
    events      \* bound counter

mgrVars == <<running, applied>>
acqVars == <<phase, stopped, pc, loc, running, pollers, latest, version,
             applied, events>>

Callers == Handlers \cup {Main}
Slots == 1 .. MaxPollers

\* Reload's locals before its first statement.
NoLocals == [since |-> 0, devs |-> <<>>, conns |-> <<>>, pts |-> <<>>]

ReloadPCs == {"reloadDevs", "reloadConns", "reloadPoints"}

\* Something the environment does.  A statement fails because the database is
\* busy or the request's context is cancelled: the client is gone.
Event == events < MaxEvents /\ events' = events + 1

---------------------------------------------------------------------------
(* Manager. *)

\* Devices whose points are still to be read: the ones whose connection is
\* missing or disabled are skipped.
ToRead(l) == {d \in DOMAIN l.devs : l.devs[d].conn \in DOMAIN l.conns} \ DOMAIN l.pts

ReloadDevs(x) ==
    /\ pc[x] = "reloadDevs"
    /\ loc' = [loc EXCEPT ![x] = [NoLocals EXCEPT !.since = version,
                                                  !.devs = ListEnabled(devs)]]
    /\ pc' = [pc EXCEPT ![x] = "reloadConns"]
    /\ UNCHANGED <<dbVars, phase, stopped, mgrVars, pollers, latest, version, events>>

ReloadConns(x) ==
    /\ pc[x] = "reloadConns"
    /\ loc' = [loc EXCEPT ![x].conns = ListEnabled(conns)]
    /\ pc' = [pc EXCEPT ![x] = "reloadPoints"]
    /\ UNCHANGED <<dbVars, phase, stopped, mgrVars, pollers, latest, version, events>>

ReloadPoints(x) ==
    /\ pc[x] = "reloadPoints"
    /\ ToRead(loc[x]) # {}
    /\ LET d == Min(ToRead(loc[x]))
       IN  loc' = [loc EXCEPT ![x].pts = WithRow(loc[x].pts, d, ListEnabledByDevice(d))]
    /\ UNCHANGED <<dbVars, phase, stopped, pc, mgrVars, pollers, latest, version, events>>

\* A query fails: Reload returns its error before it has changed anything, and
\* its callers only log it.
ReloadFails(x) ==
    /\ pc[x] \in ReloadPCs
    /\ pc[x] = "reloadPoints" => ToRead(loc[x]) # {}
    /\ Event \/ (x = Main /\ stopped /\ UNCHANGED events)
    /\ pc' = [pc EXCEPT ![x] = "idle"]
    /\ loc' = [loc EXCEPT ![x] = NoLocals]
    /\ UNCHANGED <<dbVars, phase, stopped, mgrVars, pollers, latest, version>>

\* The devices of a set, each with its enabled points, grouped by connection.
Grouped(cs, ds, ps) ==
    [c \in {ds[d].conn : d \in DOMAIN ps} |->
        [conn |-> cs[c],
         devices |-> [d \in {e \in DOMAIN ps : ds[e].conn = c} |->
                        [dev |-> ds[d], pts |-> ps[d]]]]]

\* Mutant: the devices are not compared.
KeptByConnection(wanted) ==
    {c \in DOMAIN running \cap DOMAIN wanted : running[c].conn = wanted[c].conn}
\* The entries that Reload leaves alone: wanted, and equal under DeepEqual.
Kept(wanted) ==
    {c \in DOMAIN running \cap DOMAIN wanted :
        running[c].conn = wanted[c].conn /\ running[c].devices = wanted[c].devices}

NewPoller(c, w) ==
    [id |-> c, conn |-> w.conn, devices |-> w.devices,
     cancelled |-> FALSE, connected |-> FALSE, pc |-> "top", at |-> 0]

Injections(S, T) == {f \in [S -> T] : \A a, b \in S : f[a] = f[b] => a = b}

\* Under Manager.mu: cancel the pollers of entries that are gone or changed,
\* without waiting for them, and start the missing ones.
ReloadApply(x) ==
    /\ pc[x] = "reloadPoints"
    /\ ToRead(loc[x]) = {}
    /\ LET wanted == Grouped(loc[x].conns, loc[x].devs, loc[x].pts)
           kept == Kept(wanted)
           new == DOMAIN wanted \ kept
           free == Slots \ (DOMAIN pollers \cup {running[c].slot : c \in DOMAIN running})
           slot == CHOOSE f \in Injections(new, free) : TRUE
           dropped == {running[c].slot : c \in DOMAIN running \ kept}
       IN  /\ Injections(new, free) # {}
           /\ running' = [c \in DOMAIN wanted |->
                            IF c \in kept THEN running[c]
                            ELSE [slot |-> slot[c], conn |-> wanted[c].conn,
                                  devices |-> wanted[c].devices]]
           /\ pollers' = [s \in DOMAIN pollers \cup {slot[c] : c \in new} |->
                            IF s \in DOMAIN pollers
                            THEN [pollers[s] EXCEPT !.cancelled = @ \/ s \in dropped]
                            ELSE LET c == CHOOSE c \in new : slot[c] = s
                                 IN  NewPoller(c, wanted[c])]
    /\ applied' = loc[x].since
    /\ pc' = [pc EXCEPT ![x] = "idle"]
    /\ loc' = [loc EXCEPT ![x] = NoLocals]
    /\ UNCHANGED <<dbVars, phase, stopped, latest, version, events>>

Reload(x) ==
    \/ ReloadDevs(x)
    \/ ReloadConns(x)
    \/ ReloadPoints(x)
    \/ ReloadFails(x)
    \/ ReloadApply(x)

---------------------------------------------------------------------------
(* Poller: runConnection in the goroutine of slot s. *)

\* Mutants: the context is not derived from main's; cancel is not called.
CancelledByReload(s) == pollers[s].cancelled
CancelledByMain(s) == stopped
\* ctx.Err() # nil: the connection's own context or main's.
Cancelled(s) == pollers[s].cancelled \/ stopped

\* client.Close and return.
End(s) ==
    /\ pollers' = Without(pollers, {s})
    /\ UNCHANGED latest

\* The goroutine goes on at p, with device d.
Goto(s, p, d) == pollers' = [pollers EXCEPT ![s].pc = p, ![s].at = d]

FirstDevice(s) == Min(DOMAIN pollers[s].devices)
LaterDevices(s) == {d \in DOMAIN pollers[s].devices : d > pollers[s].at}

\* The loop over the devices goes on, or is over.  The waits are not steps: one
\* that a cancelled context ends is followed by client.Close and return, and
\* any other one by a check of the context.
NextDevice(s) ==
    IF LaterDevices(s) = {} THEN Goto(s, "top", 0)
    ELSE Goto(s, "device", Min(LaterDevices(s)))

\* OnReading for the points of a device: LatestStore.Update of each.
Emit(s, ds) ==
    LET pts(d) == DOMAIN pollers[s].devices[d].pts
        all == UNION {pts(d) : d \in ds}
    IN  latest' = [p \in DOMAIN latest \cup all |->
                     IF p \in all THEN CHOOSE d \in ds : p \in pts(d) ELSE latest[p]]

\* The top of the loop.  BuildClient refuses an invalid connection: the
\* goroutine returns, and its entry stays in Manager.running.
PollTop(s) ==
    /\ pollers[s].pc = "top"
    /\ \/ (Cancelled(s) \/ ~Validate(pollers[s].conn)) /\ End(s)
       \/ /\ ~Cancelled(s) /\ Validate(pollers[s].conn)
          /\ IF pollers[s].connected THEN Goto(s, "device", FirstDevice(s))
                                     ELSE Goto(s, "connect", 0)
          /\ UNCHANGED latest

\* connected is never reset: a link that breaks later is not connected again.
Connect(s) ==
    /\ pollers[s].pc = "connect"
    /\ pollers' = [pollers EXCEPT ![s].connected = TRUE, ![s].pc = "device",
                                  ![s].at = FirstDevice(s)]
    /\ UNCHANGED latest

\* Every device of the connection is reported offline, then reconnectFloorDelay.
ConnectFails(s) ==
    /\ pollers[s].pc = "connect"
    /\ Emit(s, DOMAIN pollers[s].devices)
    /\ Goto(s, "top", 0)

PollDevice(s) ==
    /\ pollers[s].pc = "device"
    /\ \/ Cancelled(s) /\ End(s)
       \/ ~Cancelled(s) /\ Goto(s, "read", pollers[s].at) /\ UNCHANGED latest

\* readDevice: every point gets a reading, good or bad; then the delays.
ReadDevice(s) ==
    /\ pollers[s].pc = "read"
    /\ Emit(s, {pollers[s].at})
    /\ NextDevice(s)

Poll(s) ==
    /\ \/ PollTop(s)
       \/ Connect(s)
       \/ ConnectFails(s)
       \/ PollDevice(s)
       \/ ReadDevice(s)
    /\ UNCHANGED <<dbVars, phase, stopped, pc, loc, mgrVars, version, events>>

---------------------------------------------------------------------------
(* main. *)

AcqInit ==
    /\ phase = "starting"
    /\ stopped = FALSE
    /\ pc = [x \in Callers |-> IF x = Main THEN "reloadDevs" ELSE "idle"]
    /\ loc = [x \in Callers |-> NoLocals]
    /\ running = <<>>
    /\ pollers = <<>>
    /\ latest = <<>>
    /\ version = 0
    /\ applied = -1
    /\ events = 0

\* The HTTP server starts after the first Reload, whether that worked or not.
Serve ==
    /\ phase = "starting"
    /\ pc[Main] = "idle"
    /\ phase' = "serving"
    /\ UNCHANGED <<dbVars, stopped, pc, loc, mgrVars, pollers, latest, version, events>>

\* SIGTERM or SIGINT.
Stop ==
    /\ ~stopped
    /\ stopped' = TRUE
    /\ UNCHANGED <<dbVars, phase, pc, loc, mgrVars, pollers, latest, version, events>>

\* srv.Shutdown: all handlers have returned, or five seconds are over and the
\* ones left keep running.
Shutdown ==
    /\ phase = "serving"
    /\ stopped
    /\ phase' = "waiting"
    /\ UNCHANGED <<dbVars, stopped, pc, loc, mgrVars, pollers, latest, version, events>>

\* Mutant: main returns without Manager.Wait.
NoWait ==
    /\ phase = "waiting"
    /\ phase' = "closed"
    /\ UNCHANGED <<dbVars, stopped, pc, loc, mgrVars, pollers, latest, version, events>>
\* Manager.Wait returns; the deferred calls close the adapter, the queue and
\* the database.
Wait ==
    /\ phase = "waiting"
    /\ DOMAIN pollers = {}
    /\ phase' = "closed"
    /\ UNCHANGED <<dbVars, stopped, pc, loc, mgrVars, pollers, latest, version, events>>
=============================================================================
