------------------------------ MODULE Watchdog ------------------------------
(***************************************************************************)
(* RunReconnectWatchdog of the MQTT adapter against the MQTT library:      *)
(* the library reconnects by itself but may stop trying, and the watchdog, *)
(* which goes by disconnectedAt, then calls Connect.                       *)
(*                                                                         *)
(* The library takes a Connect only when its status is disconnected: a     *)
(* client that has stopped trying with that status is "stalled", one that  *)
(* has stopped while its status says connecting or reconnecting is "hung". *)
(* The library runs every callback in a goroutine of its own, so that      *)
(* onConnect and onConnectionLost may run late and in either order.        *)
(***************************************************************************)
EXTENDS Integers, FiniteSets

CONSTANT MaxCallbacks      \* bound: callbacks that have not run yet

ASSUME WatchAssumption == MaxCallbacks \in Nat

VARIABLES
    link,        \* the library: "open", "retrying", "stalled" or "hung"
    callbacks,   \* goroutines started: how many of each kind
    since,       \* disconnectedAt: "zero", "recent", or "long" ago
    watch,       \* where checkAndForceReconnect is
    late         \* history: onConnect ran last, on a connection already lost

watchVars == <<link, callbacks, since, watch, late>>

\* Mutant: disconnectedAt starts as the zero time.
NeverDisconnected == "zero"
\* NewMQTTAdapter: disconnectedAt is now.
DisconnectedNow == "recent"

NoCallbacks == [connect |-> 0, lost |-> 0]

\* NewMQTTAdapter, Connect and RunReconnectWatchdog, as buildAdapter calls them.
WatchInit ==
    /\ link = "retrying"
    /\ callbacks = NoCallbacks
    /\ since = DisconnectedNow
    /\ watch = "idle"
    /\ late = FALSE

WatchRestart ==
    /\ link' = "retrying"
    /\ callbacks' = NoCallbacks
    /\ since' = DisconnectedNow
    /\ watch' = "idle"
    /\ late' = FALSE

---------------------------------------------------------------------------
(* The library. *)

Spawn(kind) ==
    /\ callbacks[kind] < MaxCallbacks
    /\ callbacks' = [callbacks EXCEPT ![kind] = @ + 1]

LinkUp ==
    /\ link = "retrying"
    /\ link' = "open"
    /\ Spawn("connect")
    /\ UNCHANGED <<since, watch, late>>

LinkLost ==
    /\ link = "open"
    /\ link' = "retrying"
    /\ Spawn("lost")
    /\ UNCHANGED <<since, watch, late>>

\* The incident the watchdog is for: no further attempt, and no callback.
Stall ==
    /\ link = "retrying"
    /\ link' \in {"stalled", "hung"}
    /\ UNCHANGED <<callbacks, since, watch, late>>

---------------------------------------------------------------------------
(* The adapter. *)

Ran(kind) ==
    /\ callbacks[kind] > 0
    /\ callbacks' = [callbacks EXCEPT ![kind] = @ - 1]

OnConnect ==
    /\ Ran("connect")
    /\ since' = "zero"
    /\ late' = (link # "open" /\ callbacks.lost = 0)
    /\ UNCHANGED <<link, watch>>

OnConnectionLost ==
    /\ Ran("lost")
    /\ since' = "recent"
    /\ late' = FALSE
    /\ UNCHANGED <<link, watch>>

\* ReconnectStuckAfter has passed.
Age ==
    /\ since = "recent"
    /\ since' = "long"
    /\ UNCHANGED <<link, callbacks, watch, late>>

\* A tick that finds the connection open, or not down for long, does nothing.
\* Connect is refused unless the status is disconnected: the error that
\* isPahoAlreadyReconnectingErr recognises, and no action is taken.  A stalled
\* client tries again, unless the attempt fails, which is logged.
ForceReconnect(fails) ==
    /\ watch = "idle"
    /\ link # "open"
    /\ since = "long"
    /\ fails => link = "stalled"
    /\ link' = IF link = "stalled" /\ ~fails THEN "retrying" ELSE link
    /\ watch' = "wait"
    /\ UNCHANGED <<callbacks, since, late>>

\* token.WaitTimeout is over: open again, or the deadline is pushed out.  The
\* connection may come back between this look at it and the assignment.
Look ==
    /\ watch = "wait"
    /\ watch' = IF link = "open" THEN "idle" ELSE "push"
    /\ UNCHANGED <<link, callbacks, since, late>>

Push ==
    /\ watch = "push"
    /\ since' = "recent"
    /\ late' = FALSE
    /\ watch' = "idle"
    /\ UNCHANGED <<link, callbacks>>

Adapter == OnConnect \/ OnConnectionLost \/ Age \/ ForceReconnect(FALSE) \/ Look \/ Push

---------------------------------------------------------------------------

WatchTypeOK ==
    /\ link \in {"open", "retrying", "stalled", "hung"}
    /\ callbacks \in [{"connect", "lost"} -> 0 .. MaxCallbacks]
    /\ since \in {"zero", "recent", "long"}
    /\ watch \in {"idle", "wait", "push"}
    /\ late \in BOOLEAN

\* A client that has given up is made to try again, also one that has never
\* been connected, and also after attempts of the watchdog that failed, as long
\* as not all of them do.  The exception is an onConnect that runs after the
\* connection it belongs to was lost and after its onConnectionLost:
\* disconnectedAt is then zero and the watchdog takes the client for connected.
\* Nothing is said of a client that hangs in another status: Connect is refused
\* on every tick and the watchdog takes no action (mqttadapter.go:228-243).
ReconnectForced == link = "stalled" ~> (link # "stalled" \/ late)
=============================================================================
