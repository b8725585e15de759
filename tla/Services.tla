------------------------------ MODULE Services ------------------------------
(***************************************************************************)
(* The services around acquisition and forwarding, in one process: network *)
(* changes, the settings page, the MQTT watchdog and the Time Service.     *)
(* They meet in the end of the process: a saved setting exits, a reading   *)
(* may panic, a crash may come at any time, and systemd starts the process *)
(* again.                                                                  *)
(***************************************************************************)
EXTENDS NetConfig, Settings, Watchdog, TimeService

CONSTANT MaxEvents      \* bound: requests, faults and crashes

ASSUME ServicesAssumption == MaxEvents \in Nat

VARIABLE events      \* bound counter

vars == <<netVars, settingsVars, watchVars, timeVars, events>>

\* Something the environment does.
Event == events < MaxEvents /\ events' = events + 1

\* A command works, or the environment makes it fail.
Works(fault) == IF fault THEN Event ELSE UNCHANGED events

Init ==
    /\ NetInit
    /\ SettingsInit
    /\ WatchInit
    /\ TimeInit
    /\ events = 0

---------------------------------------------------------------------------

\* The handlers of api/network.go: a request names the interface.  blind: the
\* last query of Current fails, and the snapshot has no method.
Operator(o) ==
    \/ \E i \in Ifaces, c \in Changes, blind \in BOOLEAN : ApplyRead(o, i, c, blind) /\ Event
    \/ \E fault \in BOOLEAN :
          (ApplyMod(o, fault) \/ ApplyUp(o, fault)) /\ Works(fault)
    \/ Arm(o) /\ UNCHANGED events

Timer(t) ==
    \/ (Expire(t) \/ Clear(t)) /\ UNCHANGED events
    \/ \E fault \in BOOLEAN :
          (RevertMod(t, fault) \/ RevertUp(t, fault)) /\ Works(fault)

NetStep ==
    /\ \/ \E o \in Operators : Operator(o)
       \/ \E t \in DOMAIN timers : Timer(t)
       \/ Confirm /\ UNCHANGED events
       \/ \E i \in Ifaces : (Unplug(i) \/ Plug(i)) /\ Event
    /\ UNCHANGED <<settingsVars, watchVars, timeVars>>

SettingsStep ==
    /\ \E x \in Savers :
          \/ \E form \in Forms : Submit(x, form) /\ Event
          \/ SaveFails(x) /\ Event
          \/ (TestConnect(x) \/ Commit(x) \/ CommitMqtt(x) \/ SaveOpen(x) \/ SaveWrite(x))
                /\ UNCHANGED events
    /\ UNCHANGED <<netVars, watchVars, timeVars>>

WatchStep ==
    /\ \/ (LinkUp \/ Adapter) /\ UNCHANGED events
       \/ (LinkLost \/ Stall \/ ForceReconnect(TRUE)) /\ Event
    /\ UNCHANGED <<netVars, settingsVars, timeVars>>

TimeStep ==
    /\ Tick \/ SyncOnce
    /\ UNCHANGED <<netVars, settingsVars, watchVars, events>>

\* os.Exit of a saved setting, the panic of a reading, or a crash; then main.
Restart ==
    /\ \/ (exiting \/ Panics) /\ UNCHANGED events
       \/ Event
    /\ NetRestart
    /\ SettingsRestart
    /\ TimeRestart
    /\ WatchRestart

Next == NetStep \/ SettingsStep \/ WatchStep \/ TimeStep \/ Restart

\* Goroutines run, time passes; nothing makes the library reconnect.
Fairness == WF_vars(Adapter /\ WatchStep)

Spec == Init /\ [][Next]_vars /\ Fairness

---------------------------------------------------------------------------

TypeOK ==
    /\ NetTypeOK
    /\ SettingsTypeOK
    /\ WatchTypeOK
    /\ TimeTypeOK
    /\ events \in 0 .. MaxEvents
=============================================================================
