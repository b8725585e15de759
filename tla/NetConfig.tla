----------------------------- MODULE NetConfig ------------------------------
(***************************************************************************)
(* internal/netconfig and the network handlers of internal/api: a change   *)
(* of the host's address takes effect at once and is undone by a timer     *)
(* unless it is confirmed.                                                 *)
(*                                                                         *)
(* NetworkManager keeps a profile per interface, which nmcli con mod       *)
(* changes and which outlives the process, and con up puts it into force.  *)
(* Only the fields of Service are under its mutex: two handlers, and the   *)
(* timer's own goroutine, interleave at every command.                     *)
(***************************************************************************)
EXTENDS Integers, FiniteSetsExt, Functions

CONSTANTS
    Ifaces,       \* the interfaces, in the order of nmcli device status
    Addresses,    \* of hosts and of gateways; 0 is none
    Servers,      \* name servers
    Lease,        \* what the DHCP server hands out
    Profiles,     \* the profiles an interface may start with
    Changes,      \* the configurations an operator may ask for
    Operators,    \* bound: handlers that apply a change
    MaxTimers     \* bound: timers that are armed or whose revert runs

\* ipv4.method, ipv4.addresses, ipv4.gateway and ipv4.dns of a profile.
Configs ==
    [method : {"auto", "manual"}, addr : Addresses \cup {0}, gw : Addresses \cup {0},
     dns : SUBSET Servers]

ASSUME NetAssumption ==
    /\ \A S \in SUBSET Ifaces : S # {} => \E i \in S : \A j \in S : i <= j
    /\ Lease \in [addr : Addresses, gw : Addresses, dns : SUBSET Servers]
    /\ Profiles \subseteq Configs /\ Changes \subseteq Configs
    /\ MaxTimers \in Nat

VARIABLES
    connected,  \* the interfaces that are connected
    profile,    \* the connection profile of each interface
    active,     \* the profile as it was when it was put into force
    timer,      \* Service.timer: 0 is nil
    timers,     \* timers armed or fired: id -> state
    applies,    \* where each handler is
    overlap     \* history: a change was armed while a revert was running

hostVars == <<connected, profile, active>>
netVars == <<hostVars, timer, timers, applies, overlap>>

TimerIds == 1 .. MaxTimers

NoApply == [pc |-> "idle"]

NetInit ==
    /\ connected = Ifaces
    /\ profile \in [Ifaces -> Profiles]
    /\ active = profile
    /\ timer = 0
    /\ timers = <<>>
    /\ applies = [o \in Operators |-> NoApply]
    /\ overlap = FALSE

---------------------------------------------------------------------------
(* The host. *)

Unplug(i) ==
    /\ i \in connected
    /\ connected' = connected \ {i}
    /\ UNCHANGED <<profile, active, timer, timers, applies, overlap>>

\* NetworkManager brings the profile up by itself.
Plug(i) ==
    /\ i \notin connected
    /\ connected' = connected \cup {i}
    /\ active' = [active EXCEPT ![i] = profile[i]]
    /\ UNCHANGED <<profile, timer, timers, applies, overlap>>

\* IP4.ADDRESS[1], IP4.GATEWAY and IP4.DNS of an interface with profile p in
\* force.  With automatic addressing the addresses, the gateway and the servers
\* that the profile still names come on top of the lease.
Reported(p) ==
    IF p.method = "manual"
    THEN {[addr |-> p.addr, gw |-> p.gw, dns |-> p.dns]}
    ELSE {[addr |-> a, gw |-> IF p.gw # 0 THEN p.gw ELSE Lease.gw, dns |-> p.dns \cup Lease.dns]
            : a \in {Lease.addr, p.addr} \ {0}}

\* primaryInterface: the first one that is connected.
Primary == Min(connected)

\* Controller.Current: the primary interface, whichever is to be changed.  The
\* addresses come from the interface, the method from the profile; it stays
\* empty if that last query fails.
Current(blind) ==
    {[iface |-> Primary, method |-> IF blind THEN "" ELSE profile[Primary].method,
      addr |-> r.addr, gw |-> r.gw, dns |-> r.dns] : r \in Reported(active[Primary])}

\* StaticConfig.validate; ApplyDHCP needs no address.
Valid(c) == c.method = "manual" => c.addr # 0 /\ c.gw # 0

\* The con mod of ApplyStatic: an empty list of servers leaves the old one.
StaticMod(p, c) ==
    [p EXCEPT !.method = "manual", !.addr = c.addr, !.gw = c.gw,
              !.dns = IF c.dns = {} THEN @ ELSE c.dns]

\* The con mod of ApplyDHCP: the method alone.
DhcpMod(p) == [p EXCEPT !.method = "auto"]

Modified(p, c) == IF c.method = "manual" THEN StaticMod(p, c) ELSE DhcpMod(p)

\* nmcli con mod and nmcli con up of the profile of interface i.
ConMod(i, c) ==
    /\ profile' = [profile EXCEPT ![i] = Modified(@, c)]
    /\ UNCHANGED <<connected, active>>

ConUp(i) ==
    /\ active' = [active EXCEPT ![i] = profile[i]]
    /\ UNCHANGED <<connected, profile>>

\* History: con mod of interface i by another than timer x gets in between the
\* commands of a revert, or comes after them.
Disturbed(i, x) ==
    [t \in DOMAIN timers |->
        [timers[t] EXCEPT !.exact =
            @ /\ ~(t # x /\ timers[t].prev.iface = i /\ timers[t].pc \in {"up", "clear"})]]

---------------------------------------------------------------------------
(* applyAndArm.  fault says that the environment makes a command fail. *)

\* With no interface connected Current fails, and so does the request.
ApplyRead(o, i, c, blind) ==
    /\ applies[o].pc = "idle"
    /\ connected # {}
    /\ \E prev \in Current(blind) :
          applies' = [applies EXCEPT ![o] =
                        [pc |-> "mod", iface |-> i, want |-> c, prev |-> prev,
                         before |-> active[Primary],
                         exact |-> ~blind /\ profile[Primary] = active[Primary]]]
    /\ UNCHANGED <<hostVars, timer, timers, overlap>>

\* connectionForInterface finds no profile for an interface that is not connected.
\* An error of any command is reported and no timer is armed: after a failed
\* con up the changed profile stays behind.
ApplyMod(o, fault) ==
    /\ applies[o].pc = "mod"
    /\ LET i == applies[o].iface
           works == ~fault /\ Valid(applies[o].want) /\ i \in connected
       IN  \/ /\ works
              /\ ConMod(i, applies[o].want)
              /\ applies' = [applies EXCEPT ![o].pc = "up"]
              /\ timers' = Disturbed(i, 0)
           \/ /\ ~works
              /\ applies' = [applies EXCEPT ![o] = NoApply]
              /\ UNCHANGED <<hostVars, timers>>
    /\ UNCHANGED <<timer, overlap>>

ApplyUp(o, fault) ==
    /\ applies[o].pc = "up"
    /\ LET works == ~fault /\ applies[o].iface \in connected
       IN  \/ /\ works
              /\ ConUp(applies[o].iface)
              /\ applies' = [applies EXCEPT ![o].pc = "arm"]
           \/ /\ ~works
              /\ applies' = [applies EXCEPT ![o] = NoApply]
              /\ UNCHANGED hostVars
    /\ UNCHANGED <<timer, timers, overlap>>

Armed == {t \in DOMAIN timers : timers[t].pc = "armed"}

\* timer.Stop(): a timer that has fired goes on.
Stopped(t) == IF t \in Armed THEN Restrict(timers, DOMAIN timers \ {t}) ELSE timers

NewTimer(a) ==
    [pc |-> "armed", prev |-> a.prev, before |-> a.before, exact |-> a.exact]

\* Mutant: the timer of an earlier change is not stopped.
ArmBeside(o) ==
    /\ applies[o].pc = "arm"
    /\ \E t \in TimerIds \ DOMAIN timers :
          /\ timer' = t
          /\ timers' = [s \in DOMAIN timers \cup {t} |->
                          IF s = t THEN NewTimer(applies[o]) ELSE timers[s]]
    /\ overlap' = (overlap \/ DOMAIN timers # Armed)
    /\ applies' = [applies EXCEPT ![o] = NoApply]
    /\ UNCHANGED hostVars
Arm(o) ==
    /\ applies[o].pc = "arm"
    /\ TimerIds \ DOMAIN Stopped(timer) # {}
    /\ LET t == CHOOSE t \in TimerIds \ DOMAIN Stopped(timer) : TRUE
       IN  /\ timer' = t
           /\ timers' = [s \in DOMAIN Stopped(timer) \cup {t} |->
                           IF s = t THEN NewTimer(applies[o]) ELSE timers[s]]
    /\ overlap' = (overlap \/ DOMAIN timers # Armed)
    /\ applies' = [applies EXCEPT ![o] = NoApply]
    /\ UNCHANGED hostVars

---------------------------------------------------------------------------
(* The timer and revert. *)

\* time.AfterFunc: the window is over.
Expire(t) ==
    /\ timers[t].pc = "armed"
    /\ timers' = [timers EXCEPT ![t].pc = "mod"]
    /\ UNCHANGED <<hostVars, timer, applies, overlap>>

\* Mutant: the method is not looked at.
TargetStatic(prev) ==
    [method |-> "manual", addr |-> prev.addr, gw |-> prev.gw, dns |-> prev.dns]
\* What revert asks for: ApplyStatic or ApplyDHCP of the snapshot.
Target(prev) ==
    [method |-> IF prev.method = "manual" THEN "manual" ELSE "auto",
     addr |-> prev.addr, gw |-> prev.gw, dns |-> prev.dns]

\* An error is logged.  validate refuses a snapshot without gateway.
RevertMod(t, fault) ==
    /\ timers[t].pc = "mod"
    /\ LET i == timers[t].prev.iface
           to == Target(timers[t].prev)
           works == ~fault /\ i \in connected
       IN  \/ /\ works /\ Valid(to)
              /\ ConMod(i, to)
              /\ timers' = [Disturbed(i, t) EXCEPT ![t].pc = "up"]
           \/ /\ ~works \/ ~Valid(to)
              /\ timers' = [timers EXCEPT ![t].pc = "clear", ![t].exact = @ /\ works]
              /\ UNCHANGED hostVars
    /\ UNCHANGED <<timer, applies, overlap>>

RevertUp(t, fault) ==
    /\ timers[t].pc = "up"
    /\ LET i == timers[t].prev.iface
           works == ~fault /\ i \in connected
       IN  /\ IF works THEN ConUp(i) ELSE UNCHANGED hostVars
           /\ timers' = [timers EXCEPT ![t].pc = "clear", ![t].exact = @ /\ works]
    /\ UNCHANGED <<timer, applies, overlap>>

\* Service.timer becomes nil, whichever timer it is by now.
Clear(t) ==
    /\ timers[t].pc = "clear"
    /\ timer' = 0
    /\ timers' = Restrict(timers, DOMAIN timers \ {t})
    /\ UNCHANGED <<hostVars, applies, overlap>>

\* With no timer it returns an error; it does not look at what Stop returns.
Confirm ==
    /\ timer # 0
    /\ timers' = Stopped(timer)
    /\ timer' = 0
    /\ UNCHANGED <<hostVars, applies, overlap>>

\* A new process: NetworkManager keeps the profiles, the timers are gone.
NetRestart ==
    /\ timer' = 0
    /\ timers' = <<>>
    /\ applies' = [o \in Operators |-> NoApply]
    /\ overlap' = FALSE
    /\ UNCHANGED hostVars

---------------------------------------------------------------------------

NetTypeOK ==
    /\ connected \subseteq Ifaces
    /\ profile \in [Ifaces -> Configs] /\ active \in [Ifaces -> Configs]
    /\ timer \in TimerIds \cup {0}
    /\ DOMAIN timers \subseteq TimerIds
    /\ \A t \in DOMAIN timers : timers[t].pc \in {"armed", "mod", "up", "clear"}
    /\ \A o \in Operators : applies[o].pc \in {"idle", "mod", "up", "arm"}
    /\ overlap \in BOOLEAN

\* A change that waits for its confirmation can be confirmed, and Pending says
\* that it waits: its timer is Service.timer.  The exception is a change that
\* was armed while the revert of an earlier one was under way, whose end
\* (service.go:104) forgets the newer timer.
Confirmable ==
    /\ timer # 0 => timer \in DOMAIN timers
    /\ ~overlap => Armed \subseteq {timer}

\* Profile p addresses an interface as profile b did: by DHCP again, or with the
\* address and the gateway of b and, if b named any, its name servers.
Restored(p, b) ==
    /\ p.method = b.method
    /\ b.method = "manual" =>
          p.addr = b.addr /\ p.gw = b.gw /\ (b.dns = {} \/ p.dns = b.dns)

\* A revert (service.go:82) takes the primary interface back to how it was
\* addressed when the change was asked for, in the profile and in force,
\* whatever other handlers and timers did in the meantime.  Its own commands
\* must have worked with no other con mod of that interface among or after them,
\* profile and interface must have agreed when the snapshot was taken, and a
\* static configuration must have had a gateway.
\* It is no more than that: a change to an interface that was not the primary
\* one is not undone, and after a revert to DHCP the address, the gateway and
\* the name servers of the change are still in the profile, beside the lease.
RevertRestores ==
    \A t \in DOMAIN timers :
        LET i == timers[t].prev.iface
        IN  timers[t].pc = "clear" /\ timers[t].exact /\ Valid(timers[t].before)
                => Restored(profile[i], timers[t].before) /\ active[i] = profile[i]
=============================================================================
