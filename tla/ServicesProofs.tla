--------------------------- MODULE ServicesProofs ---------------------------
(***************************************************************************)
(* Proofs about Services, for every number of handlers, timers, requests   *)
(* and faults, every clock and every delay of a packet.                    *)
(***************************************************************************)
EXTENDS Services, TLAPS

(***************************************************************************)
(* The Time Service.                                                       *)
(***************************************************************************)

Syncs ==
    [pc : {"idle", "degrade"}]
    \cup [pc : {"sent"}, t1 : Int, sentAt : Nat]
    \cup [pc : {"served"}, t1 : Int, sentAt : Nat, t2 : Int, era : BOOLEAN]
    \cup [pc : {"answered"}, t1 : Int, sentAt : Nat, t2 : Int, t3 : Int, era : BOOLEAN]
    \cup [pc : {"set"}, readAt : Nat, trip : Nat, era : BOOLEAN, corrected : Int]
    \cup [pc : {"status", "rtc"}, corrected : Int, set : BOOLEAN, era : BOOLEAN,
          trip : Nat, wait : Nat]

\* The clock is read, the server stamps twice and the clock is read again, in
\* this order; what was computed from it is off by half the round trip at most.
TimeInv ==
    /\ real \in Nat /\ skew \in Int
    /\ sync \in Syncs
    /\ sync.pc \in {"sent", "served", "answered"} =>
          sync.t1 = sync.sentAt + skew /\ sync.sentAt <= real
    /\ sync.pc \in {"served", "answered"} /\ sync.era =>
          sync.sentAt <= sync.t2 /\ sync.t2 <= real
    /\ sync.pc = "answered" /\ sync.era => sync.t2 <= sync.t3 /\ sync.t3 <= real
    /\ sync.pc = "set" =>
          /\ sync.readAt <= real
          /\ sync.era => LET off == 2 * (sync.corrected - sync.readAt)
                         IN  -(sync.trip + 1) <= off /\ off <= sync.trip + 1
    /\ ClockBounded

\* Rounding to zero loses less than one.
LEMMA HalfBounds ==
    ASSUME NEW n \in Int
    PROVE  Half(n) \in Int /\ n - 1 <= 2 * Half(n) /\ 2 * Half(n) <= n + 1
BY DEF Half

\* Within an era the seconds field is the time.
LEMMA StampExact ==
    ASSUME real \in Nat, real < EraLength
    PROVE  Stamp = real
BY TimeAssumption DEF Stamp

LEMMA StampType == ASSUME real \in Nat PROVE Stamp \in Int
BY TimeAssumption DEF Stamp

\* The offset of queryNTP, by its times: sent at s and read at r of the true
\* time, by a clock that is off by k.
LEMMA OffsetBounds ==
    ASSUME NEW s \in Nat, NEW r \in Nat, NEW k \in Int, NEW t2 \in Int, NEW t3 \in Int,
           s <= t2, t2 <= t3, t3 <= r
    PROVE  LET off == 2 * ((r + k + Offset(s + k, t2, t3, r + k)) - r)
           IN  -((r - s) + 1) <= off /\ off <= (r - s) + 1
<1> DEFINE n == (t2 - (s + k)) + (t3 - (r + k))
<1>1. Offset(s + k, t2, t3, r + k) = Half(n)
  BY DEF Offset
<1>2. Half(n) \in Int /\ n - 1 <= 2 * Half(n) /\ 2 * Half(n) <= n + 1
  BY HalfBounds
<1> QED
  BY <1>1, <1>2

LEMMA TimeInit_Inv == TimeInit => TimeInv
<1> SUFFICES ASSUME TimeInit PROVE TimeInv
  OBVIOUS
<1>1. real \in Nat /\ skew \in Int
  BY TimeAssumption DEF TimeInit
<1> QED
  BY <1>1 DEF TimeInit, TimeInv, Syncs, NoSync, ClockBounded

LEMMA Tick_Inv == TimeInv /\ Tick => TimeInv'
<1> SUFFICES ASSUME TimeInv, Tick PROVE TimeInv'
  OBVIOUS
<1>1. real' = real + 1 /\ skew' = skew /\ sync' = sync
  BY DEF Tick
<1>2. ClockBounded'
  BY <1>1 DEF TimeInv, ClockBounded
<1> QED
  BY <1>1, <1>2 DEF TimeInv, Syncs

\* What is measured: the stamps of the server lie between sending and reading.
LEMMA Exchange_Inv ==
    TimeInv /\ ((\E b \in BOOLEAN : Begin(b)) \/ Receive \/ Transmit) => TimeInv'
<1> SUFFICES ASSUME TimeInv, (\E b \in BOOLEAN : Begin(b)) \/ Receive \/ Transmit
             PROVE  TimeInv'
  OBVIOUS
<1>1. CASE \E b \in BOOLEAN : Begin(b)
  BY <1>1 DEF Begin, Clock, TimeInv, Syncs, ClockBounded
<1>2. CASE Receive
  <2> DEFINE era == real < EraLength
  <2>1. Stamp \in Int /\ era \in BOOLEAN /\ (era => Stamp = real)
    BY StampExact, StampType DEF TimeInv
  <2>2. sync' = [pc |-> "served", t1 |-> sync.t1, sentAt |-> sync.sentAt, t2 |-> Stamp,
                 era |-> era]
    BY <1>2, Zenon DEF Receive
  <2> HIDE DEF era
  <2> QED
    BY <1>2, <2>1, <2>2 DEF Receive, TimeInv, Syncs, ClockBounded
<1>3. CASE Transmit
  <2> DEFINE era == sync.era /\ real < EraLength
  <2>1. Stamp \in Int /\ era \in BOOLEAN /\ (era => sync.era /\ Stamp = real)
    BY StampExact, StampType DEF TimeInv
  <2>2. sync' = [pc |-> "answered", t1 |-> sync.t1, sentAt |-> sync.sentAt, t2 |-> sync.t2,
                 t3 |-> Stamp, era |-> era]
    BY <1>3, Zenon DEF Transmit
  <2> HIDE DEF era
  <2>3. /\ sync.pc = "served" /\ sync.t1 \in Int /\ sync.sentAt \in Nat /\ sync.t2 \in Int
        /\ real' = real /\ skew' = skew
    BY <1>3 DEF Transmit, TimeInv, Syncs
  <2> QED
    BY <2>1, <2>2, <2>3 DEF TimeInv, Syncs, ClockBounded
<1> QED
  BY <1>1, <1>2, <1>3

LEMMA Answer_Inv == TimeInv /\ Answer => TimeInv'
<1> SUFFICES ASSUME TimeInv, Answer PROVE TimeInv'
  OBVIOUS
<1> DEFINE corrected == Clock + Offset(sync.t1, sync.t2, sync.t3, Clock)
<1>1. /\ sync.t1 \in Int /\ sync.sentAt \in Nat /\ sync.t2 \in Int /\ sync.t3 \in Int
      /\ sync.era \in BOOLEAN /\ real \in Nat /\ skew \in Int
      /\ sync.t1 = sync.sentAt + skew /\ sync.sentAt <= real
      /\ sync.era => sync.sentAt <= sync.t2 /\ sync.t2 <= sync.t3 /\ sync.t3 <= real
  BY DEF TimeInv, Syncs, Answer
<1>2. corrected \in Int
  <2>1. Clock \in Int
    BY <1>1 DEF Clock
  <2>2. (sync.t2 - sync.t1) + (sync.t3 - Clock) \in Int
    BY <1>1, <2>1
  <2>3. Offset(sync.t1, sync.t2, sync.t3, Clock) \in Int
    BY <2>2, HalfBounds DEF Offset
  <2> QED
    BY <2>1, <2>3
<1>3. sync.era => LET off == 2 * (corrected - real)
                  IN  -((real - sync.sentAt) + 1) <= off /\ off <= (real - sync.sentAt) + 1
  BY <1>1, OffsetBounds, Zenon DEF Clock
<1>4. /\ sync' = [pc |-> "set", readAt |-> real, trip |-> real - sync.sentAt,
                  era |-> sync.era, corrected |-> corrected]
      /\ real' = real /\ skew' = skew
  BY DEF Answer
<1> HIDE DEF corrected
<1> QED
  BY <1>1, <1>2, <1>3, <1>4 DEF TimeInv, Syncs, ClockBounded

\* Setting the clock adds what passed since it was read.
LEMMA SetClock_Inv == TimeInv /\ (\E b \in BOOLEAN : SetClock(b)) => TimeInv'
<1> SUFFICES ASSUME TimeInv, NEW works \in BOOLEAN, SetClock(works) PROVE TimeInv'
  OBVIOUS
<1>1. /\ sync.readAt \in Nat /\ sync.trip \in Nat /\ sync.era \in BOOLEAN
      /\ sync.corrected \in Int /\ real \in Nat /\ skew \in Int /\ sync.readAt <= real
      /\ sync.era => -(sync.trip + 1) <= 2 * (sync.corrected - sync.readAt)
                     /\ 2 * (sync.corrected - sync.readAt) <= sync.trip + 1
  BY DEF TimeInv, Syncs, SetClock
<1>2. /\ sync' = [pc |-> "status", corrected |-> sync.corrected, set |-> works,
                  era |-> sync.era, trip |-> sync.trip, wait |-> real - sync.readAt]
      /\ real' = real /\ skew' = IF works THEN sync.corrected - real ELSE skew
  BY DEF SetClock
<1>3. ClockBounded'
  BY <1>1, <1>2 DEF ClockBounded
<1> QED
  BY <1>1, <1>2, <1>3 DEF TimeInv, Syncs

LEMMA TimeStep_Inv == TimeInv /\ (Tick \/ SyncOnce) => TimeInv'
<1> SUFFICES ASSUME TimeInv, Tick \/ SyncOnce PROVE TimeInv'
  OBVIOUS
<1>1. CASE Tick
  BY <1>1, Tick_Inv
<1>2. CASE \E b \in BOOLEAN : Begin(b)
  BY <1>2, Exchange_Inv
<1>3. CASE Receive \/ Transmit
  BY <1>3, Exchange_Inv
<1>4. CASE Answer
  BY <1>4, Answer_Inv
<1>5. CASE \E b \in BOOLEAN : SetClock(b)
  BY <1>5, SetClock_Inv
<1>6. CASE NoAnswer \/ Degrade \/ \E b \in BOOLEAN : WriteRTC(b)
  BY <1>6 DEF NoAnswer, Degrade, WriteRTC, NoSync, TimeInv, Syncs, ClockBounded
<1>7. CASE Synced
  BY <1>7 DEF Synced, TimeInv, Syncs, ClockBounded
<1> QED
  BY <1>1, <1>2, <1>3, <1>4, <1>5, <1>6, <1>7 DEF SyncOnce

LEMMA TimeInvAlways == Spec => []TimeInv
<1>1. Init => TimeInv
  BY TimeInit_Inv DEF Init
<1>2. TimeInv /\ [Next]_vars => TimeInv'
  <2> SUFFICES ASSUME TimeInv, [Next]_vars PROVE TimeInv'
    OBVIOUS
  <2>1. CASE TimeStep
    BY <2>1, TimeStep_Inv DEF TimeStep
  <2>2. CASE Restart
    BY <2>2 DEF Restart, TimeRestart, TimeInv, Syncs, NoSync, ClockBounded
  <2>3. CASE NetStep \/ SettingsStep \/ WatchStep \/ UNCHANGED vars
    BY <2>3, Zenon DEF NetStep, SettingsStep, WatchStep, vars, timeVars, TimeInv, ClockBounded
  <2> QED
    BY <2>1, <2>2, <2>3 DEF Next
<1> QED
  BY <1>1, <1>2, PTL DEF Spec

\* A clock that a sync has set is off by at most half the round trip plus what
\* passed between reading and setting it (ClockBounded), for every delay of the
\* packets and every error of the clock before: syncOnce and queryNTP.
THEOREM ClockIsBounded == Spec => []ClockBounded
<1>1. TimeInv => ClockBounded
  BY DEF TimeInv
<1> QED
  BY <1>1, TimeInvAlways, PTL

(***************************************************************************)
(* Network changes.                                                        *)
(***************************************************************************)

Snapshots ==
    [iface : Ifaces, method : {"", "auto", "manual"}, addr : Addresses \cup {0},
     gw : Addresses \cup {0}, dns : SUBSET Servers]

Waiting ==
    [pc : {"mod", "up", "arm"}, iface : Ifaces, want : Configs, prev : Snapshots,
     before : Configs, exact : BOOLEAN]

Timers == [pc : {"armed", "mod", "up", "clear"}, prev : Snapshots, before : Configs,
           exact : BOOLEAN]

\* A snapshot says how to go back to profile b.
Shows(prev, b) ==
    /\ prev.method = b.method
    /\ b.method = "manual" => prev.addr = b.addr /\ prev.gw = b.gw /\ prev.dns = b.dns

\* Timer x has a true snapshot and, once its revert is on its way, profiles ps
\* and, at its end, the interfaces as are what it has made of them.
TimerSound(x, ps, as) ==
    x.exact => /\ Shows(x.prev, x.before)
               /\ x.pc \in {"up", "clear"} /\ Valid(x.before)
                     => Restored(ps[x.prev.iface], x.before)
               /\ x.pc = "clear" /\ Valid(x.before)
                     => as[x.prev.iface] = ps[x.prev.iface]

HostInv ==
    /\ connected \subseteq Ifaces
    /\ profile \in [Ifaces -> Configs] /\ active \in [Ifaces -> Configs]

AppliesInv ==
    /\ applies \in [Operators -> Waiting \cup {NoApply}]
    /\ \A o \in Operators :
          applies[o].pc # "idle" /\ applies[o].exact
              => Shows(applies[o].prev, applies[o].before)

TimersInv ==
    /\ DOMAIN timers \subseteq TimerIds
    /\ timers \in [DOMAIN timers -> Timers]
    /\ \A t \in DOMAIN timers : TimerSound(timers[t], profile, active)

NetInv ==
    /\ HostInv
    /\ AppliesInv
    /\ TimersInv
    /\ overlap \in BOOLEAN
    /\ timer # 0 => timer \in DOMAIN timers
    /\ ~overlap => Armed = {} \/ (DOMAIN timers = Armed /\ Armed = {timer})

LEMMA NetInv_Goals == NetInv => Confirmable /\ RevertRestores
<1>1. NetInv => Confirmable
  BY DEF NetInv, Confirmable
<1>2. NetInv => RevertRestores
  BY DEF NetInv, TimersInv, RevertRestores, TimerSound
<1> QED
  BY <1>1, <1>2

LEMMA NoApply_Facts == NoApply.pc = "idle" /\ NoApply \notin Waiting
BY DEF NoApply, Waiting

LEMMA NetInit_Inv == NetInit => NetInv
<1> SUFFICES ASSUME NetInit PROVE NetInv
  OBVIOUS
<1>1. DOMAIN timers = {} /\ timers \in [DOMAIN timers -> Timers]
  BY DEF NetInit
<1>2. AppliesInv
  BY NoApply_Facts DEF NetInit, AppliesInv
<1>3. HostInv
  BY NetAssumption DEF NetInit, HostInv
<1> QED
  BY <1>1, <1>2, <1>3, Zenon DEF NetInit, NetInv, TimersInv, Armed

\* What con mod makes of a profile.
LEMMA ModifiedConfig ==
    ASSUME NEW p \in Configs, NEW c \in Configs
    PROVE  /\ Modified(p, c) \in Configs
           /\ Modified(p, c).method = c.method
           /\ c.method = "manual" =>
                 /\ Modified(p, c).addr = c.addr /\ Modified(p, c).gw = c.gw
                 /\ c.dns = {} \/ Modified(p, c).dns = c.dns
<1>1. CASE c.method = "manual"
  BY <1>1, Zenon DEF Modified, StaticMod, Configs
<1>2. CASE c.method # "manual"
  BY <1>2 DEF Modified, DhcpMod, Configs
<1> QED
  BY <1>1, <1>2

LEMMA ConMod_Host ==
    ASSUME HostInv, NEW i \in Ifaces, NEW c \in Configs, ConMod(i, c)
    PROVE  /\ HostInv' /\ active' = active
           /\ profile'[i] = Modified(profile[i], c)
           /\ \A j \in Ifaces : j # i => profile'[j] = profile[j]
<1>1. profile[i] \in Configs /\ Modified(profile[i], c) \in Configs
  BY ModifiedConfig DEF HostInv
<1>2. profile' = [profile EXCEPT ![i] = Modified(profile[i], c)]
      /\ connected' = connected /\ active' = active
  BY DEF ConMod
<1> QED
  BY <1>1, <1>2 DEF HostInv

LEMMA ConUp_Host ==
    ASSUME HostInv, NEW i \in Ifaces, ConUp(i)
    PROVE  /\ HostInv' /\ profile' = profile
           /\ active'[i] = profile[i]
           /\ \A j \in Ifaces : j # i => active'[j] = active[j]
BY DEF ConUp, HostInv

\* Bringing an interface up takes nothing from the timers.
LEMMA Up_Sound ==
    ASSUME HostInv, NEW i \in Ifaces, profile' = profile, active'[i] = profile[i],
           \A j \in Ifaces : j # i => active'[j] = active[j],
           NEW x \in Timers, TimerSound(x, profile, active)
    PROVE  TimerSound(x, profile', active')
<1>1. x.prev.iface \in Ifaces
  BY Zenon DEF Timers, Snapshots
<1> QED
  BY <1>1 DEF TimerSound

\* What Disturbed leaves of the timers.
AfterMod(ds, i, x) ==
    /\ DOMAIN ds = DOMAIN timers
    /\ ds \in [DOMAIN timers -> Timers]
    /\ \A t \in DOMAIN timers :
          /\ ds[t].pc = timers[t].pc /\ ds[t].prev = timers[t].prev
          /\ ds[t].before = timers[t].before
          /\ ds[t].exact => timers[t].exact
          /\ t = x => ds[t].exact = timers[t].exact
          /\ ds[t].exact /\ t # x
                => timers[t].prev.iface # i \/ timers[t].pc \notin {"up", "clear"}

LEMMA DisturbedTimers ==
    ASSUME TimersInv, NEW i, NEW x
    PROVE  AfterMod(Disturbed(i, x), i, x)
<1> DEFINE ds == Disturbed(i, x)
<1> DEFINE e(t) == timers[t].exact /\ ~(t # x /\ timers[t].prev.iface = i
                                          /\ timers[t].pc \in {"up", "clear"})
<1>1. ds = [t \in DOMAIN timers |-> [timers[t] EXCEPT !.exact = e(t)]]
  BY Zenon DEF Disturbed
<1> HIDE DEF ds
<1>2. DOMAIN ds = DOMAIN timers
  BY <1>1, Zenon
<1>3. ASSUME NEW t \in DOMAIN timers
      PROVE  /\ ds[t] \in Timers
             /\ ds[t].pc = timers[t].pc /\ ds[t].prev = timers[t].prev
             /\ ds[t].before = timers[t].before
             /\ ds[t].exact => timers[t].exact
             /\ t = x => ds[t].exact = timers[t].exact
             /\ ds[t].exact /\ t # x
                   => timers[t].prev.iface # i \/ timers[t].pc \notin {"up", "clear"}
  <2>1. timers[t] \in Timers
    BY DEF TimersInv
  <2>2. PICK b \in BOOLEAN : b = e(t)
    BY Zenon
  <2>3. ds[t] = [timers[t] EXCEPT !.exact = b]
    BY <1>1, <2>2
  <2>4. timers[t].exact \in BOOLEAN
    BY <2>1 DEF Timers
  <2>5. b => timers[t].exact
    BY <2>2, Zenon
  <2>6. t = x => b = timers[t].exact
    BY <2>2, <2>4
  <2>7. b /\ t # x => timers[t].prev.iface # i \/ timers[t].pc \notin {"up", "clear"}
    BY <2>2, Zenon
  <2> HIDE DEF e
  <2>8. /\ ds[t] \in Timers
        /\ ds[t].pc = timers[t].pc /\ ds[t].prev = timers[t].prev
        /\ ds[t].before = timers[t].before /\ ds[t].exact = b
    BY <2>1, <2>3 DEF Timers
  <2> QED
    BY <2>5, <2>6, <2>7, <2>8, Zenon
<1>4. ds \in [DOMAIN timers -> Timers]
  <2>1. ds = [t \in DOMAIN timers |-> ds[t]]
    BY <1>1
  <2> QED
    BY <1>3, <2>1, Zenon
<1>5. AfterMod(ds, i, x)
  BY <1>2, <1>3, <1>4, Zenon DEF AfterMod
<1> QED
  BY <1>5 DEF ds

\* con mod keeps what is known of every timer but the one that runs it.
LEMMA Mod_Sound ==
    ASSUME HostInv, TimersInv, NEW i \in Ifaces, NEW c \in Configs, ConMod(i, c), NEW x,
           NEW t \in DOMAIN timers, t # x
    PROVE  TimerSound(Disturbed(i, x)[t], profile', active')
<1> DEFINE ds == Disturbed(i, x)
           d == ds[t]
<1>1. /\ d.pc = timers[t].pc /\ d.prev = timers[t].prev /\ d.before = timers[t].before
      /\ d.exact => timers[t].exact
      /\ d.exact => timers[t].prev.iface # i \/ timers[t].pc \notin {"up", "clear"}
  <2>1. AfterMod(ds, i, x)
    BY DisturbedTimers
  <2> HIDE DEF ds
  <2> QED
    BY <2>1, Zenon DEF AfterMod
<1>2. TimerSound(timers[t], profile, active) /\ timers[t].prev.iface \in Ifaces
  BY Zenon DEF TimersInv, Timers, Snapshots
<1>3. active' = active /\ \A j \in Ifaces : j # i => profile'[j] = profile[j]
  BY ConMod_Host
<1> HIDE DEF d
<1>4. TimerSound(d, profile', active')
  BY <1>1, <1>2, <1>3 DEF TimerSound
<1> QED
  BY <1>4 DEF d

LEMMA Primary_Iface ==
    ASSUME HostInv, connected # {}
    PROVE  Primary \in connected /\ Primary \in Ifaces
<1>1. \E i \in connected : \A j \in connected : i <= j
  BY NetAssumption DEF HostInv
<1> QED
  BY <1>1 DEF Primary, Min, HostInv

LEMMA Current_Snapshot ==
    ASSUME HostInv, connected # {}, NEW blind \in BOOLEAN, NEW prev \in Current(blind)
    PROVE  /\ prev \in Snapshots
           /\ ~blind /\ profile[Primary] = active[Primary] => Shows(prev, active[Primary])
<1>1. Primary \in Ifaces
  BY Primary_Iface
<1> DEFINE p == active[Primary]
           m == IF blind THEN "" ELSE profile[Primary].method
<1>2. p \in Configs /\ profile[Primary] \in Configs
  BY <1>1 DEF HostInv
<1>3. m \in {"", "auto", "manual"} /\ (~blind /\ profile[Primary] = p => m = p.method)
  BY <1>2, Zenon DEF Configs
<1>4. PICK r \in Reported(p) :
        prev = [iface |-> Primary, method |-> m, addr |-> r.addr, gw |-> r.gw, dns |-> r.dns]
  BY Zenon DEF Current
<1> HIDE DEF p, m
<1>5. /\ r.addr \in Addresses \cup {0} /\ r.gw \in Addresses \cup {0} /\ r.dns \in SUBSET Servers
      /\ p.method = "manual" => r.addr = p.addr /\ r.gw = p.gw /\ r.dns = p.dns
  <2>1. CASE p.method = "manual"
    <3>1. r = [addr |-> p.addr, gw |-> p.gw, dns |-> p.dns]
      BY <2>1 DEF Reported
    <3> QED
      BY <1>2, <3>1 DEF Configs
  <2>2. CASE p.method # "manual"
    <3>1. PICK a \in {Lease.addr, p.addr} \ {0} :
            r = [addr |-> a, gw |-> IF p.gw # 0 THEN p.gw ELSE Lease.gw,
                 dns |-> p.dns \cup Lease.dns]
      BY <2>2 DEF Reported
    <3>2. /\ Lease.addr \in Addresses /\ Lease.gw \in Addresses
          /\ Lease.dns \in SUBSET Servers
      BY NetAssumption
    <3>3. /\ p.addr \in Addresses \cup {0} /\ p.gw \in Addresses \cup {0}
          /\ p.dns \in SUBSET Servers
      BY <1>2 DEF Configs
    <3>4. r.addr = a /\ r.gw = (IF p.gw # 0 THEN p.gw ELSE Lease.gw)
          /\ r.dns = p.dns \cup Lease.dns
      BY <3>1
    <3> QED
      BY <2>2, <3>2, <3>3, <3>4
  <2> QED
    BY <2>1, <2>2
<1>6. /\ prev.iface = Primary /\ prev.method = m /\ prev.addr = r.addr /\ prev.gw = r.gw
      /\ prev.dns = r.dns
  BY <1>4
<1>7. prev \in Snapshots
  BY <1>1, <1>3, <1>4, <1>5, Zenon DEF Snapshots
<1>8. ~blind /\ profile[Primary] = p => Shows(prev, p)
  BY <1>3, <1>5, <1>6, Zenon DEF Shows
<1> QED
  BY <1>7, <1>8 DEF p

\* A handler moves on, or is done.
LEMMA Handler_Inv ==
    ASSUME AppliesInv, NEW o \in Operators, NEW new,
           applies' = [applies EXCEPT ![o] = new],
           \/ new = NoApply
           \/ new \in Waiting /\ (new.exact => Shows(new.prev, new.before))
    PROVE  AppliesInv'
<1>1. /\ applies' \in [Operators -> Waiting \cup {NoApply}]
      /\ applies'[o] = new /\ \A p \in Operators : p # o => applies'[p] = applies[p]
  BY DEF AppliesInv
<1>2. new.pc # "idle" /\ new.exact => Shows(new.prev, new.before)
  BY NoApply_Facts
<1>3. \A p \in Operators :
        applies'[p].pc # "idle" /\ applies'[p].exact
            => Shows(applies'[p].prev, applies'[p].before)
  BY <1>1, <1>2, Zenon DEF AppliesInv
<1> QED
  BY <1>1, <1>3, Zenon DEF AppliesInv

\* A handler in the middle of its change.
LEMMA Handler_Waiting ==
    ASSUME AppliesInv, NEW o \in Operators, applies[o].pc # "idle", NEW pc \in {"up", "arm"}
    PROVE  LET new == [applies[o] EXCEPT !.pc = pc]
           IN  /\ applies[o] \in Waiting
               /\ new \in Waiting /\ (new.exact => Shows(new.prev, new.before))
<1>1. applies[o] \in Waiting /\ (applies[o].exact => Shows(applies[o].prev, applies[o].before))
  BY NoApply_Facts DEF AppliesInv
<1> QED
  BY <1>1 DEF Waiting

LEMMA ApplyRead_Inv ==
    ASSUME NetInv, NEW o \in Operators, NEW fault \in BOOLEAN, NEW c \in Changes,
           NEW i \in Ifaces, ApplyRead(o, i, c, fault)
    PROVE  NetInv'
<1>1. PICK prev \in Current(fault) :
        applies' = [applies EXCEPT ![o] =
                      [pc |-> "mod", iface |-> i, want |-> c, prev |-> prev,
                       before |-> active[Primary],
                       exact |-> ~fault /\ profile[Primary] = active[Primary]]]
  BY Zenon DEF ApplyRead
<1> DEFINE exact == ~fault /\ profile[Primary] = active[Primary]
           new == [pc |-> "mod", iface |-> i, want |-> c, prev |-> prev,
                   before |-> active[Primary], exact |-> exact]
<1>2. connected # {} /\ HostInv
  BY DEF ApplyRead, NetInv
<1>3. prev \in Snapshots /\ (exact => Shows(prev, active[Primary]))
  BY <1>2, Current_Snapshot
<1>4. active[Primary] \in Configs /\ c \in Configs
  BY <1>2, Primary_Iface, NetAssumption DEF HostInv
<1>5. exact \in BOOLEAN
  OBVIOUS
<1>6. applies' = [applies EXCEPT ![o] = new]
  BY <1>1
<1> HIDE DEF exact
<1>7. new \in Waiting /\ (new.exact => Shows(new.prev, new.before))
  BY <1>3, <1>4, <1>5 DEF Waiting
<1> HIDE DEF new
<1>8. AppliesInv'
  BY <1>6, <1>7, Handler_Inv, Zenon DEF NetInv
<1>9. UNCHANGED <<connected, profile, active, timer, timers, overlap>>
  BY DEF ApplyRead, hostVars
<1> QED
  BY <1>8, <1>9 DEF NetInv, HostInv, TimersInv, Armed

LEMMA Apply_Inv ==
    ASSUME NetInv, NEW o \in Operators, NEW fault \in BOOLEAN,
           ApplyMod(o, fault) \/ ApplyUp(o, fault)
    PROVE  NetInv'
<1>2. ASSUME applies' = [applies EXCEPT ![o] = NoApply],
             UNCHANGED <<connected, profile, active, timer, timers, overlap>>
      PROVE  NetInv'
  <2>1. AppliesInv'
    BY <1>2, Handler_Inv, Zenon DEF NetInv
  <2> QED
    BY <1>2, <2>1 DEF NetInv, HostInv, TimersInv, Armed
<1>3. CASE ApplyMod(o, fault)
  <2> DEFINE j == applies[o].iface
             w == applies[o].want
  <2>1. \/ /\ ConMod(j, w)
           /\ applies' = [applies EXCEPT ![o].pc = "up"]
           /\ timers' = Disturbed(j, 0)
        \/ /\ applies' = [applies EXCEPT ![o] = NoApply]
           /\ UNCHANGED <<hostVars, timers>>
    BY <1>3, Zenon DEF ApplyMod
  <2>2. timer' = timer /\ overlap' = overlap /\ applies[o].pc = "mod"
    BY <1>3 DEF ApplyMod
  <2>3. CASE /\ ConMod(j, w)
             /\ applies' = [applies EXCEPT ![o].pc = "up"]
             /\ timers' = Disturbed(j, 0)
    <3>1. AppliesInv /\ HostInv /\ TimersInv
      BY DEF NetInv
    <3>2. applies[o] \in Waiting /\ AppliesInv'
      <4> DEFINE new == [applies[o] EXCEPT !.pc = "up"]
      <4>1. applies[o].pc # "idle"
        BY <2>2
      <4>2. applies[o] \in Waiting /\ new \in Waiting
            /\ (new.exact => Shows(new.prev, new.before))
        BY <3>1, <4>1, Handler_Waiting, Zenon
      <4>3. applies' = [applies EXCEPT ![o] = new]
        BY <2>3
      <4> HIDE DEF new
      <4> QED
        BY <3>1, <4>2, <4>3, Handler_Inv, Zenon
    <3>3. j \in Ifaces /\ w \in Configs
      BY <3>2 DEF Waiting
    <3> HIDE DEF j, w
    <3>4. HostInv'
      BY <2>3, <3>1, <3>3, ConMod_Host
    <3>5. /\ DOMAIN timers' = DOMAIN timers /\ timers' \in [DOMAIN timers -> Timers]
          /\ \A t \in DOMAIN timers : timers'[t].pc = timers[t].pc
      <4>1. AfterMod(timers', j, 0)
        BY <2>3, <3>1, DisturbedTimers
      <4> QED
        BY <4>1, Zenon DEF AfterMod
    <3>6. \A t \in DOMAIN timers : TimerSound(timers'[t], profile', active')
      <4> SUFFICES ASSUME NEW t \in DOMAIN timers
                   PROVE  TimerSound(timers'[t], profile', active')
        OBVIOUS
      <4>1. t # 0
        BY <3>1 DEF TimersInv, TimerIds
      <4>2. TimerSound(Disturbed(j, 0)[t], profile', active')
        BY <2>3, <3>1, <3>3, <4>1, Mod_Sound
      <4> QED
        BY <2>3, <4>2
    <3>7. TimersInv'
      BY <3>1, <3>5, <3>6, Zenon DEF TimersInv
    <3>8. Armed' = Armed
      BY <3>5 DEF Armed
    <3> QED
      BY <2>2, <3>2, <3>4, <3>5, <3>7, <3>8 DEF NetInv
  <2>4. CASE /\ applies' = [applies EXCEPT ![o] = NoApply]
             /\ UNCHANGED <<hostVars, timers>>
    BY <1>2, <2>2, <2>4 DEF hostVars
  <2> QED
    BY <2>1, <2>3, <2>4
<1>4. CASE ApplyUp(o, fault)
  <2> DEFINE j == applies[o].iface
  <2>1. \/ /\ ConUp(j)
           /\ applies' = [applies EXCEPT ![o].pc = "arm"]
        \/ /\ applies' = [applies EXCEPT ![o] = NoApply]
           /\ UNCHANGED hostVars
    BY <1>4, Zenon DEF ApplyUp
  <2>2. timer' = timer /\ timers' = timers /\ overlap' = overlap /\ applies[o].pc = "up"
    BY <1>4 DEF ApplyUp
  <2>3. CASE ConUp(j) /\ applies' = [applies EXCEPT ![o].pc = "arm"]
    <3>1. AppliesInv /\ HostInv /\ TimersInv
      BY DEF NetInv
    <3>2. applies[o] \in Waiting /\ AppliesInv'
      <4> DEFINE new == [applies[o] EXCEPT !.pc = "arm"]
      <4>1. applies[o].pc # "idle"
        BY <2>2
      <4>2. applies[o] \in Waiting /\ new \in Waiting
            /\ (new.exact => Shows(new.prev, new.before))
        BY <3>1, <4>1, Handler_Waiting, Zenon
      <4>3. applies' = [applies EXCEPT ![o] = new]
        BY <2>3
      <4> HIDE DEF new
      <4> QED
        BY <3>1, <4>2, <4>3, Handler_Inv, Zenon
    <3>3. j \in Ifaces
      BY <3>2 DEF Waiting
    <3> HIDE DEF j
    <3>4. HostInv' /\ TimersInv'
      BY <2>2, <2>3, <3>1, <3>3, ConUp_Host, Up_Sound DEF TimersInv
    <3>5. Armed' = Armed
      BY <2>2 DEF Armed
    <3> QED
      BY <2>2, <3>2, <3>4, <3>5 DEF NetInv
  <2>4. CASE applies' = [applies EXCEPT ![o] = NoApply] /\ UNCHANGED hostVars
    BY <1>2, <2>2, <2>4 DEF hostVars
  <2> QED
    BY <2>1, <2>3, <2>4
<1> QED
  BY <1>3, <1>4

\* Stopping a timer.
LEMMA StoppedTimers ==
    ASSUME TimersInv
    PROVE  /\ DOMAIN Stopped(timer) = IF timer \in Armed THEN DOMAIN timers \ {timer}
                                                         ELSE DOMAIN timers
           /\ Stopped(timer) \in [DOMAIN Stopped(timer) -> Timers]
           /\ \A t \in DOMAIN Stopped(timer) : Stopped(timer)[t] = timers[t]
BY DEF TimersInv, Stopped, Restrict

\* A step that leaves the host alone and whose timers are old or sound.
LEMMA Timers_Keep ==
    ASSUME TimersInv, UNCHANGED <<profile, active>>,
           DOMAIN timers' \subseteq TimerIds,
           timers' \in [DOMAIN timers' -> Timers],
           \A t \in DOMAIN timers' :
              \/ t \in DOMAIN timers /\ timers'[t] = timers[t]
              \/ TimerSound(timers'[t], profile, active)
    PROVE  TimersInv'
<1>1. \A t \in DOMAIN timers' : TimerSound(timers'[t], profile', active')
  BY Zenon DEF TimersInv
<1> QED
  BY <1>1, Zenon DEF TimersInv

LEMMA Arm_Inv ==
    ASSUME NetInv, NEW o \in Operators, Arm(o)
    PROVE  NetInv'
<1> DEFINE S == DOMAIN Stopped(timer)
           t == CHOOSE t \in TimerIds \ S : TRUE
           new == NewTimer(applies[o])
<1>1. /\ timer' = t
      /\ timers' = [s \in S \cup {t} |-> IF s = t THEN new ELSE timers[s]]
      /\ overlap' = (overlap \/ DOMAIN timers # Armed)
      /\ applies' = [applies EXCEPT ![o] = NoApply]
      /\ UNCHANGED hostVars
  BY Zenon DEF Arm
<1>2. t \in TimerIds \ S
  BY DEF Arm
<1> HIDE DEF t
<1>3. S \subseteq DOMAIN timers /\ S = IF timer \in Armed THEN DOMAIN timers \ {timer}
                                                         ELSE DOMAIN timers
  BY StoppedTimers DEF NetInv
<1> HIDE DEF S
<1>4. applies[o] \in Waiting /\ (applies[o].exact => Shows(applies[o].prev, applies[o].before))
  BY NoApply_Facts, Zenon DEF Arm, NetInv, AppliesInv
<1>5. new \in Timers /\ TimerSound(new, profile, active) /\ new.pc = "armed"
  BY <1>4 DEF NewTimer, Waiting, Timers, TimerSound
<1> HIDE DEF new
<1>6. /\ DOMAIN timers' = S \cup {t} /\ timers' \in [S \cup {t} -> Timers]
      /\ timers'[t] = new /\ \A s \in S : timers'[s] = timers[s]
  BY <1>1, <1>2, <1>3, <1>5 DEF NetInv, TimersInv
<1>7. S \cup {t} \subseteq TimerIds
  BY <1>2, <1>3 DEF NetInv, TimersInv
<1>8. TimersInv'
  <2>1. \A s \in DOMAIN timers' :
           \/ s \in DOMAIN timers /\ timers'[s] = timers[s]
           \/ TimerSound(timers'[s], profile, active)
    BY <1>3, <1>5, <1>6
  <2>2. UNCHANGED <<profile, active>>
    BY <1>1 DEF hostVars
  <2> QED
    BY <1>6, <1>7, <2>1, <2>2, Timers_Keep DEF NetInv
<1>9. AppliesInv'
  BY <1>1, Handler_Inv, Zenon DEF NetInv
<1>10. HostInv'
  BY <1>1 DEF NetInv, HostInv, hostVars
<1>11. ~overlap' => S = {}
  BY <1>1, <1>3, Zenon DEF NetInv
<1>12. ~overlap' => DOMAIN timers' = {timer'} /\ Armed' = {timer'}
  BY <1>1, <1>5, <1>6, <1>11 DEF Armed
<1>13. overlap' \in BOOLEAN /\ timer' \in DOMAIN timers'
  BY <1>1, <1>6 DEF NetInv
<1> QED
  BY <1>8, <1>9, <1>10, <1>12, <1>13 DEF NetInv

LEMMA Expire_Inv ==
    ASSUME NetInv, NEW t \in DOMAIN timers, Expire(t)
    PROVE  NetInv'
<1>1. /\ timers[t] \in Timers /\ timers[t].pc = "armed"
      /\ TimerSound(timers[t], profile, active)
  BY DEF NetInv, TimersInv, Expire
<1> DEFINE new == [timers[t] EXCEPT !.pc = "mod"]
<1>2. new \in Timers /\ TimerSound(new, profile, active) /\ new.pc = "mod"
  BY <1>1 DEF Timers, TimerSound
<1>3. timers' = [timers EXCEPT ![t] = new]
  BY DEF Expire
<1> HIDE DEF new
<1>4. /\ DOMAIN timers' = DOMAIN timers /\ timers' \in [DOMAIN timers -> Timers]
      /\ timers'[t] = new /\ \A s \in DOMAIN timers \ {t} : timers'[s] = timers[s]
  BY <1>2, <1>3 DEF NetInv, TimersInv
<1>5. UNCHANGED <<connected, profile, active, timer, applies, overlap>>
  BY DEF Expire, hostVars
<1>6. TimersInv'
  <2>1. \A s \in DOMAIN timers' :
           \/ s \in DOMAIN timers /\ timers'[s] = timers[s]
           \/ TimerSound(timers'[s], profile, active)
    BY <1>2, <1>4
  <2>2. DOMAIN timers' \subseteq TimerIds
    BY <1>4 DEF NetInv, TimersInv
  <2> QED
    BY <1>4, <1>5, <2>1, <2>2, Timers_Keep DEF NetInv
<1>7. Armed' = Armed \ {t}
  BY <1>2, <1>4 DEF Armed
<1>8. ~overlap => Armed' = {}
  BY <1>1, <1>7 DEF NetInv, Armed
<1>9. AppliesInv' /\ HostInv'
  BY <1>5 DEF NetInv, AppliesInv, HostInv
<1> QED
  BY <1>4, <1>5, <1>6, <1>8, <1>9 DEF NetInv

LEMMA Clear_Inv ==
    ASSUME NetInv, NEW t \in DOMAIN timers, Clear(t)
    PROVE  NetInv'
<1>1. /\ DOMAIN timers' = DOMAIN timers \ {t}
      /\ timers' \in [DOMAIN timers' -> Timers]
      /\ \A s \in DOMAIN timers' : timers'[s] = timers[s]
  BY DEF Clear, NetInv, TimersInv, Restrict
<1>2. ~overlap => Armed = {}
  BY DEF Clear, NetInv, Armed
<1>3. Armed' \subseteq Armed
  BY <1>1 DEF Armed
<1>4. timer' = 0 /\ UNCHANGED <<connected, profile, active, applies, overlap>>
  BY DEF Clear, hostVars
<1>5. TimersInv'
  <2>1. DOMAIN timers' \subseteq TimerIds
    BY <1>1 DEF NetInv, TimersInv
  <2> QED
    BY <1>1, <1>4, <2>1, Timers_Keep DEF NetInv
<1>6. AppliesInv' /\ HostInv'
  BY <1>4 DEF NetInv, AppliesInv, HostInv
<1> QED
  BY <1>2, <1>3, <1>4, <1>5, <1>6 DEF NetInv

\* What revert asks for, and what con mod then makes of any profile.
LEMMA Target_Restores ==
    ASSUME NEW prev \in Snapshots, NEW b \in Configs, NEW p \in Configs
    PROVE  /\ Target(prev) \in Configs
           /\ Shows(prev, b) => Restored(Modified(p, Target(prev)), b)
           /\ Shows(prev, b) /\ Valid(b) => Valid(Target(prev))
<1> DEFINE to == Target(prev)
<1>1. /\ to \in Configs /\ to.addr = prev.addr /\ to.gw = prev.gw /\ to.dns = prev.dns
      /\ to.method = IF prev.method = "manual" THEN "manual" ELSE "auto"
  BY Zenon DEF Target, Snapshots, Configs
<1> HIDE DEF to
<1>2. /\ Modified(p, to).method = to.method
      /\ to.method = "manual" =>
            /\ Modified(p, to).addr = to.addr /\ Modified(p, to).gw = to.gw
            /\ to.dns = {} \/ Modified(p, to).dns = to.dns
  BY <1>1, ModifiedConfig
<1>3. b.method \in {"auto", "manual"}
  BY DEF Configs
<1>4. ASSUME Shows(prev, b) PROVE Restored(Modified(p, to), b)
  BY <1>1, <1>2, <1>3, <1>4 DEF Shows, Restored
<1>5. ASSUME Shows(prev, b), Valid(b) PROVE Valid(to)
  BY <1>1, <1>3, <1>5 DEF Shows, Valid
<1> QED
  BY <1>1, <1>4, <1>5 DEF to

\* A step of revert: timer t moves on and the others are as ds has them.
LEMMA Reverted_Inv ==
    ASSUME NetInv, NEW t \in DOMAIN timers, timers[t].pc # "armed",
           NEW ds, NEW new \in Timers, new.pc # "armed",
           ds \in [DOMAIN timers -> Timers], timers' = [ds EXCEPT ![t] = new],
           \A s \in DOMAIN timers \ {t} :
              ds[s].pc = timers[s].pc /\ TimerSound(ds[s], profile', active'),
           TimerSound(new, profile', active'),
           HostInv', UNCHANGED <<timer, applies, overlap>>
    PROVE  NetInv'
<1>1. /\ DOMAIN timers' = DOMAIN timers /\ timers' \in [DOMAIN timers -> Timers]
      /\ timers'[t] = new /\ \A s \in DOMAIN timers \ {t} : timers'[s] = ds[s]
  OBVIOUS
<1>2. Armed' = Armed
  BY <1>1 DEF Armed
<1>3. \A s \in DOMAIN timers : TimerSound(timers'[s], profile', active')
  BY <1>1, Zenon
<1>4. TimersInv'
  BY <1>1, <1>3, Zenon DEF NetInv, TimersInv
<1>5. AppliesInv'
  BY DEF NetInv, AppliesInv
<1> QED
  BY <1>1, <1>2, <1>4, <1>5, Zenon DEF NetInv

LEMMA RevertMod_Inv ==
    ASSUME NetInv, NEW t \in DOMAIN timers, NEW fault \in BOOLEAN, RevertMod(t, fault)
    PROVE  NetInv'
<1> DEFINE i == timers[t].prev.iface
           to == Target(timers[t].prev)
           works == ~fault /\ i \in connected
<1>1. /\ timers[t].pc = "mod"
      /\ \/ /\ ConMod(i, to)
            /\ timers' = [Disturbed(i, t) EXCEPT ![t].pc = "up"]
         \/ /\ ~works \/ ~Valid(to)
            /\ timers' = [timers EXCEPT ![t].pc = "clear", ![t].exact = @ /\ works]
            /\ UNCHANGED hostVars
      /\ UNCHANGED <<timer, applies, overlap>>
  BY Zenon DEF RevertMod
<1>2. HostInv /\ TimersInv
  BY DEF NetInv
<1>3. timers[t] \in Timers /\ TimerSound(timers[t], profile, active)
  BY <1>2 DEF TimersInv
<1>4. /\ timers[t].prev \in Snapshots /\ timers[t].before \in Configs /\ i \in Ifaces
      /\ timers[t].exact \in BOOLEAN
  BY <1>3, Zenon DEF Timers, Snapshots
<1>5. profile[i] \in Configs
  BY <1>2, <1>4 DEF HostInv
<1>6. /\ to \in Configs
      /\ Shows(timers[t].prev, timers[t].before)
            => Restored(Modified(profile[i], to), timers[t].before)
      /\ Shows(timers[t].prev, timers[t].before) /\ Valid(timers[t].before) => Valid(to)
  BY <1>4, <1>5, Target_Restores
<1> HIDE DEF i, to
<1>7. CASE ConMod(i, to) /\ timers' = [Disturbed(i, t) EXCEPT ![t].pc = "up"]
  <2> DEFINE ds == Disturbed(i, t)
             new == [ds[t] EXCEPT !.pc = "up"]
  <2>1. /\ ds \in [DOMAIN timers -> Timers]
        /\ \A s \in DOMAIN timers : ds[s].pc = timers[s].pc
        /\ ds[t].prev = timers[t].prev /\ ds[t].before = timers[t].before
        /\ ds[t].exact = timers[t].exact
    <3>1. AfterMod(ds, i, t)
      BY <1>2, DisturbedTimers
    <3> HIDE DEF ds
    <3> QED
      BY <3>1, Zenon DEF AfterMod
  <2>2. \A s \in DOMAIN timers \ {t} : TimerSound(ds[s], profile', active')
    BY <1>2, <1>4, <1>6, <1>7, Mod_Sound
  <2>3. HostInv' /\ profile'[i] = Modified(profile[i], to)
    BY <1>2, <1>4, <1>6, <1>7, ConMod_Host
  <2>4. timers' = [ds EXCEPT ![t] = new]
    BY <1>7
  <2> HIDE DEF ds
  <2>5. ds[t] \in Timers
    BY <2>1
  <2>6. /\ new \in Timers /\ new.pc = "up" /\ new.prev = timers[t].prev
        /\ new.before = timers[t].before /\ new.exact = timers[t].exact
    BY <2>1, <2>5 DEF Timers
  <2> HIDE DEF new
  <2>7. TimerSound(new, profile', active')
    BY <1>3, <1>6, <2>3, <2>6 DEF TimerSound, i
  <2> QED
    BY <1>1, <2>1, <2>2, <2>3, <2>4, <2>6, <2>7, Reverted_Inv, Zenon
<1>8. CASE /\ ~works \/ ~Valid(to)
           /\ timers' = [timers EXCEPT ![t].pc = "clear", ![t].exact = @ /\ works]
           /\ UNCHANGED hostVars
  <2> DEFINE e == timers[t].exact /\ works
             new == [timers[t] EXCEPT !.pc = "clear", !.exact = e]
  <2>1. timers' = [timers EXCEPT ![t] = new]
    BY <1>2, <1>8, Zenon DEF TimersInv
  <2>2. e \in BOOLEAN /\ (e => timers[t].exact) /\ (e => ~Valid(to))
    BY <1>4, <1>8
  <2> HIDE DEF e, works
  <2>3. /\ new \in Timers /\ new.pc = "clear" /\ new.prev = timers[t].prev
        /\ new.before = timers[t].before /\ new.exact = e
    BY <1>3, <2>2, Zenon DEF Timers
  <2> HIDE DEF new
  <2>4. UNCHANGED <<connected, profile, active>>
    BY <1>8 DEF hostVars
  <2>5. TimerSound(new, profile', active')
    BY <1>3, <1>6, <2>2, <2>3, <2>4 DEF TimerSound
  <2>6. /\ timers \in [DOMAIN timers -> Timers]
        /\ \A s \in DOMAIN timers \ {t} : TimerSound(timers[s], profile', active')
    BY <1>2, <2>4 DEF TimersInv
  <2>7. HostInv'
    BY <1>2, <2>4 DEF HostInv
  <2> QED
    BY <1>1, <2>1, <2>3, <2>5, <2>6, <2>7, Reverted_Inv, Zenon
<1> QED
  BY <1>1, <1>7, <1>8

LEMMA RevertUp_Inv ==
    ASSUME NetInv, NEW t \in DOMAIN timers, NEW fault \in BOOLEAN, RevertUp(t, fault)
    PROVE  NetInv'
<1> DEFINE i == timers[t].prev.iface
           works == ~fault /\ i \in connected
           e == timers[t].exact /\ works
           new == [timers[t] EXCEPT !.pc = "clear", !.exact = e]
<1>1. /\ timers[t].pc = "up"
      /\ IF works THEN ConUp(i) ELSE UNCHANGED hostVars
      /\ timers' = [timers EXCEPT ![t].pc = "clear", ![t].exact = @ /\ works]
      /\ UNCHANGED <<timer, applies, overlap>>
  BY Zenon DEF RevertUp
<1>2. HostInv /\ TimersInv
  BY DEF NetInv
<1>3. timers[t] \in Timers /\ TimerSound(timers[t], profile, active)
  BY <1>2 DEF TimersInv
<1>4. i \in Ifaces /\ timers[t].exact \in BOOLEAN
  BY <1>3, Zenon DEF Timers, Snapshots
<1>5. timers' = [timers EXCEPT ![t] = new]
  BY <1>1, <1>2, Zenon DEF TimersInv
<1>6. e \in BOOLEAN /\ (e => timers[t].exact /\ works)
  BY <1>4
<1> HIDE DEF e
<1>7. /\ new \in Timers /\ new.pc = "clear" /\ new.prev = timers[t].prev
      /\ new.before = timers[t].before /\ new.exact = e
  BY <1>3, <1>6, Zenon DEF Timers
<1> HIDE DEF new, works
<1>8. /\ HostInv' /\ profile' = profile
      /\ \A x \in Timers : TimerSound(x, profile, active) => TimerSound(x, profile', active')
      /\ works => active'[i] = profile[i]
  <2>1. CASE works
    <3>1. ConUp(i)
      BY <1>1, <2>1
    <3> HIDE DEF i
    <3>2. /\ HostInv' /\ profile' = profile /\ active'[i] = profile[i]
          /\ \A j \in Ifaces : j # i => active'[j] = active[j]
      BY <1>2, <1>4, <3>1, ConUp_Host
    <3> QED
      BY <1>2, <1>4, <3>2, Up_Sound
  <2>2. CASE ~works
    <3>1. UNCHANGED <<connected, profile, active>>
      BY <1>1, <2>2 DEF hostVars
    <3> QED
      BY <1>2, <2>2, <3>1 DEF HostInv
  <2> QED
    BY <2>1, <2>2
<1>9. TimerSound(new, profile', active')
  BY <1>1, <1>3, <1>6, <1>7, <1>8 DEF TimerSound
<1>10. /\ timers \in [DOMAIN timers -> Timers]
       /\ \A s \in DOMAIN timers \ {t} : TimerSound(timers[s], profile', active')
  BY <1>2, <1>8 DEF TimersInv
<1> QED
  BY <1>1, <1>5, <1>7, <1>8, <1>9, <1>10, Reverted_Inv

LEMMA Confirm_Inv ==
    ASSUME NetInv, Confirm
    PROVE  NetInv'
<1>1. /\ DOMAIN timers' = IF timer \in Armed THEN DOMAIN timers \ {timer} ELSE DOMAIN timers
      /\ timers' \in [DOMAIN timers' -> Timers]
      /\ \A s \in DOMAIN timers' : timers'[s] = timers[s]
  BY StoppedTimers DEF Confirm, NetInv
<1>2. Armed' = Armed \ {timer}
  BY <1>1 DEF Armed
<1>3. UNCHANGED <<connected, profile, active, applies, overlap>> /\ timer' = 0
  BY DEF Confirm, hostVars
<1>4. TimersInv'
  <2>1. DOMAIN timers' \subseteq DOMAIN timers
    BY <1>1
  <2>2. DOMAIN timers' \subseteq TimerIds
    BY <2>1 DEF NetInv, TimersInv
  <2> QED
    BY <1>1, <1>3, <2>1, <2>2, Timers_Keep DEF NetInv
<1>5. ~overlap => Armed' = {}
  <2>1. ~overlap => Armed \subseteq {timer}
    BY Zenon DEF NetInv
  <2> QED
    BY <1>2, <2>1
<1>6. AppliesInv' /\ HostInv'
  BY <1>3 DEF NetInv, AppliesInv, HostInv
<1> QED
  BY <1>3, <1>4, <1>5, <1>6 DEF NetInv

\* An interface is lost, or comes up again with its profile.
LEMMA Plug_Inv ==
    ASSUME NetInv, NEW i \in Ifaces, Unplug(i) \/ Plug(i)
    PROVE  NetInv'
<1>1. UNCHANGED <<profile, timer, timers, applies, overlap>>
  BY DEF Unplug, Plug
<1>2. HostInv /\ TimersInv
  BY DEF NetInv
<1>3. HostInv' /\ TimersInv'
  <2>1. CASE Unplug(i)
    BY <1>1, <1>2, <2>1 DEF Unplug, HostInv, TimersInv
  <2>2. CASE Plug(i)
    <3>1. /\ HostInv' /\ active'[i] = profile[i]
          /\ \A j \in Ifaces : j # i => active'[j] = active[j]
      BY <1>1, <1>2, <2>2 DEF Plug, HostInv
    <3> QED
      BY <1>1, <1>2, <3>1, Up_Sound DEF TimersInv
  <2> QED
    BY <2>1, <2>2
<1>4. AppliesInv' /\ Armed' = Armed
  BY <1>1 DEF NetInv, AppliesInv, Armed
<1> QED
  BY <1>1, <1>3, <1>4 DEF NetInv

LEMMA NetStep_Inv == NetInv /\ [Next]_vars => NetInv'
<1> SUFFICES ASSUME NetInv, [Next]_vars PROVE NetInv'
  OBVIOUS
<1>1. CASE NetStep
  <2>1. ASSUME NEW o \in Operators, Operator(o) PROVE NetInv'
    <3>1. CASE Arm(o)
      BY <3>1, Arm_Inv
    <3>2. ASSUME NEW i \in Ifaces, NEW c \in Changes, NEW blind \in BOOLEAN,
                 ApplyRead(o, i, c, blind)
          PROVE  NetInv'
      BY <3>2, ApplyRead_Inv
    <3>3. ASSUME NEW fault \in BOOLEAN, ApplyMod(o, fault) \/ ApplyUp(o, fault)
          PROVE  NetInv'
      BY <3>3, Apply_Inv
    <3> QED
      BY <2>1, <3>1, <3>2, <3>3 DEF Operator
  <2>2. ASSUME NEW t \in DOMAIN timers, Timer(t) PROVE NetInv'
    <3>1. CASE \E fault \in BOOLEAN : RevertMod(t, fault) \/ RevertUp(t, fault)
      BY <3>1, RevertMod_Inv, RevertUp_Inv
    <3>2. CASE Expire(t) \/ Clear(t)
      BY <3>2, Expire_Inv, Clear_Inv
    <3> QED
      BY <2>2, <3>1, <3>2 DEF Timer
  <2>3. CASE Confirm
    BY <2>3, Confirm_Inv
  <2>4. CASE \E i \in Ifaces : Unplug(i) \/ Plug(i)
    BY <2>4, Plug_Inv
  <2> QED
    BY <1>1, <2>1, <2>2, <2>3, <2>4 DEF NetStep
<1>2. CASE Restart
  <2>1. timer' = 0 /\ timers' = <<>> /\ applies' = [o \in Operators |-> NoApply]
        /\ overlap' = FALSE /\ UNCHANGED <<connected, profile, active>>
    BY <1>2 DEF Restart, NetRestart, hostVars
  <2>2. DOMAIN timers' = {} /\ timers' \in [DOMAIN timers' -> Timers]
    BY <2>1
  <2>3. AppliesInv'
    BY <2>1, NoApply_Facts DEF AppliesInv
  <2>4. HostInv' /\ TimersInv'
    BY <2>1, <2>2 DEF NetInv, HostInv, TimersInv
  <2> QED
    BY <2>1, <2>2, <2>3, <2>4, Zenon DEF NetInv, Armed
<1>3. CASE SettingsStep \/ WatchStep \/ TimeStep \/ UNCHANGED vars
  <2>1. UNCHANGED netVars
    BY <1>3, Zenon DEF SettingsStep, WatchStep, TimeStep, vars
  <2> QED
    BY <2>1 DEF netVars, hostVars, NetInv, HostInv, AppliesInv, TimersInv, Armed
<1> QED
  BY <1>1, <1>2, <1>3 DEF Next

LEMMA NetInvAlways == Spec => []NetInv
<1>1. Init => NetInv
  BY NetInit_Inv DEF Init
<1> QED
  BY <1>1, NetStep_Inv, PTL DEF Spec

\* Service.timer is the timer of every change that waits for its confirmation
\* (Confirmable), for every number of handlers and timers: applyAndArm stops the
\* timer it replaces, and Confirm and revert leave none behind.
THEOREM ChangeCanBeConfirmed == Spec => []Confirmable
BY NetInvAlways, NetInv_Goals, PTL

\* A revert takes the interface of its snapshot back to how it was addressed when
\* the change was asked for (RevertRestores), for every number of interfaces,
\* addresses, handlers and timers, whatever they interleave with and whatever
\* fails: applyAndArm, Current, the con mod of ApplyStatic and of ApplyDHCP, and
\* revert.
THEOREM NetworkIsRestored == Spec => []RevertRestores
BY NetInvAlways, NetInv_Goals, PTL

(***************************************************************************)
(* The settings page.                                                      *)
(***************************************************************************)

\* A handler of saveSettings between its checks and config.Save, and in it.
Saves ==
    [pc : {"idle"}]
    \cup [pc : {"test", "commit", "mqtt", "save"}, form : Submission,
          mqtt : {"broker", "junk", ""} \X {"p", "p$x", ""}]
    \cup [pc : {"write"}, data : Config]

\* A configuration that, if its switch is on, a process can start with: what
\* buildAdapter knows, and what a broker has accepted.
Startable(c, accepted) ==
    c.on => /\ c.transport \in {"http", "mqtt"}
            /\ c.transport = "mqtt" => Mqtt(c) \in accepted

\* How far a save has come and what holds by then.
SaveSound(s) ==
    /\ s.pc \in {"test", "commit", "mqtt", "save"} => Accepted(s.form)
    /\ s.pc \in {"commit", "mqtt", "save"} =>
          (s.form.on /\ s.form.transport = "mqtt" => s.mqtt \in tested)
    /\ s.pc \in {"mqtt", "save"} /\ ~mixed =>
          cfg.on = s.form.on /\ cfg.transport = s.form.transport
    /\ s.pc = "save" /\ ~mixed => Mqtt(cfg) = s.mqtt
    /\ s.pc = "write" /\ ~mixed => Startable(s.data, tested)

\* Unless their changes mixed, one handler at a time is between its first
\* assignment to cfg and the end of config.Save.
SettingsInv ==
    /\ file \in Config /\ cfg \in Config
    /\ queue \in BOOLEAN /\ exiting \in BOOLEAN /\ mixed \in BOOLEAN
    /\ saves \in [Savers -> Saves]
    /\ \A x \in Savers : SaveSound(saves[x])
    /\ ~mixed => \A x, y \in Savers : Changing(x) /\ Changing(y) => x = y
    /\ SavedStarts

LEMMA SettingsInv_Goals == SettingsInv => SettingsTypeOK /\ SavedStarts
BY Zenon DEF SettingsInv, SettingsTypeOK, Saves

LEMMA LoadType ==
    ASSUME NEW c \in Config
    PROVE  /\ Load(c) \in Config
           /\ Load(c).on = c.on /\ Load(c).url = c.url /\ Load(c).pass = Expanded(c.pass)
           /\ Load(c).transport = IF c.transport = "" THEN "http" ELSE c.transport
BY Zenon DEF Load, Config, Expanded

LEMMA SettingsInit_Inv == SettingsInit => SettingsInv
<1> SUFFICES ASSUME SettingsInit PROVE SettingsInv
  OBVIOUS
<1>1. file \in Config /\ cfg = Load(file)
  BY SettingsAssumption DEF SettingsInit
<1>2. cfg \in Config /\ cfg.on \in BOOLEAN /\ Load(file).transport \in {"http", "mqtt"}
  BY <1>1, LoadType, Zenon DEF Config
<1>3. saves = [x \in Savers |-> NoSave] /\ NoSave \in Saves /\ NoSave.pc = "idle"
  BY DEF SettingsInit, NoSave, Saves
<1>4. SavedStarts
  BY <1>1, <1>2 DEF SavedStarts, SettingsInit
<1>5. queue \in BOOLEAN /\ exiting \in BOOLEAN /\ mixed \in BOOLEAN
  BY <1>2, Zenon DEF SettingsInit
<1>6. /\ saves \in [Savers -> Saves]
      /\ \A x \in Savers : SaveSound(saves[x]) /\ ~Changing(x)
  BY <1>3 DEF SaveSound, Changing
<1> QED
  BY <1>1, <1>2, <1>4, <1>5, <1>6 DEF SettingsInv

\* A step of one handler that leaves what the others look at as it is.
LEMMA OneSaver ==
    ASSUME SettingsInv, NEW x \in Savers, NEW s \in Saves,
           saves' = [saves EXCEPT ![x] = s], UNCHANGED <<cfg, mixed>>,
           tested \subseteq tested', SaveSound(s)',
           s.pc \in {"mqtt", "save", "write"} => Changing(x)
    PROVE  /\ saves' \in [Savers -> Saves]
           /\ \A y \in Savers : SaveSound(saves[y])'
           /\ ~mixed' => \A y, z \in Savers : Changing(y)' /\ Changing(z)' => y = z
<1>1. /\ saves' \in [Savers -> Saves] /\ saves'[x] = s
      /\ \A y \in Savers \ {x} : saves'[y] = saves[y]
  BY DEF SettingsInv
<1>2. ASSUME NEW y \in Savers PROVE SaveSound(saves[y])'
  <2>1. CASE y = x
    BY <1>1, <2>1, Zenon DEF SaveSound
  <2>2. CASE y # x
    <3>1. saves'[y] = saves[y] /\ SaveSound(saves[y])
      BY <1>1, <2>2 DEF SettingsInv
    <3> QED
      BY <3>1, Zenon DEF SaveSound, Startable
  <2> QED
    BY <2>1, <2>2
<1>3. \A y \in Savers : Changing(y)' => Changing(y)
  BY <1>1 DEF Changing
<1>4. ~mixed => \A y, z \in Savers : Changing(y) /\ Changing(z) => y = z
  BY Zenon DEF SettingsInv
<1> QED
  BY <1>1, <1>2, <1>3, <1>4

LEMMA PairEta == ASSUME NEW A, NEW B, NEW m \in A \X B PROVE m = <<m[1], m[2]>>
OBVIOUS

LEMMA NewMqttType ==
    ASSUME cfg \in Config, NEW form \in Submission
    PROVE  NewMqtt(form) \in {"broker", "junk", ""} \X {"p", "p$x", ""}
<1>1. Trimmed(form.url) \in {"broker", "junk", ""}
  BY Zenon DEF Submission, Trimmed
<1>2. (IF form.pass = "" THEN cfg.pass ELSE form.pass) \in {"p", "p$x", ""}
  BY Zenon DEF Submission, Config
<1> QED
  BY <1>1, <1>2, Zenon DEF NewMqtt

LEMMA Submit_Inv ==
    ASSUME SettingsInv, NEW x \in Savers, NEW form \in Forms, Submit(x, form)
    PROVE  SettingsInv'
<1>1. form \in Submission /\ Accepted(form)
  BY SettingsAssumption DEF Submit
<1>2. PICK p \in {"test", "commit"} :
         p = IF form.on /\ form.transport = "mqtt" THEN "test" ELSE "commit"
  OBVIOUS
<1>3. PICK s : s = [pc |-> p, form |-> form, mqtt |-> NewMqtt(form)]
  OBVIOUS
<1>4. saves' = [saves EXCEPT ![x] = s] /\ UNCHANGED <<file, cfg, queue, exiting, tested, mixed>>
  BY <1>2, <1>3 DEF Submit
<1>5. s \in Saves /\ s.pc = p /\ s.form = form
  BY <1>1, <1>3, NewMqttType, Zenon DEF SettingsInv, Saves
<1>6. SaveSound(s)'
  BY <1>1, <1>2, <1>5, Zenon DEF SaveSound
<1>7. /\ saves' \in [Savers -> Saves]
      /\ \A y \in Savers : SaveSound(saves[y])'
      /\ ~mixed' => \A y, z \in Savers : Changing(y)' /\ Changing(z)' => y = z
  BY <1>2, <1>4, <1>5, <1>6, OneSaver, Zenon
<1>8. SavedStarts'
  BY <1>4 DEF SettingsInv, SavedStarts
<1> QED
  BY <1>4, <1>7, <1>8 DEF SettingsInv

\* A handler that stops.
LEMMA GivesUp ==
    ASSUME SettingsInv, NEW x \in Savers, saves' = [saves EXCEPT ![x] = NoSave],
           UNCHANGED <<file, cfg, queue, exiting, tested, mixed>>
    PROVE  SettingsInv'
<1>1. NoSave \in Saves /\ NoSave.pc = "idle"
  BY DEF NoSave, Saves
<1>2. SaveSound(NoSave)'
  BY <1>1 DEF SaveSound
<1>3. /\ saves' \in [Savers -> Saves]
      /\ \A y \in Savers : SaveSound(saves[y])'
      /\ ~mixed' => \A y, z \in Savers : Changing(y)' /\ Changing(z)' => y = z
  BY <1>1, <1>2, OneSaver, Zenon
<1>4. SavedStarts'
  BY DEF SettingsInv, SavedStarts
<1> QED
  BY <1>3, <1>4 DEF SettingsInv

LEMMA TestConnect_Inv ==
    ASSUME SettingsInv, NEW x \in Savers, TestConnect(x)
    PROVE  SettingsInv'
<1>1. CASE saves' = [saves EXCEPT ![x] = NoSave] /\ UNCHANGED tested
  <2>1. UNCHANGED <<file, cfg, queue, exiting, tested, mixed>>
    BY <1>1 DEF TestConnect
  <2> QED
    BY <1>1, <2>1, GivesUp, Zenon
<1>2. CASE /\ tested' = tested \cup {saves[x].mqtt}
           /\ saves' = [saves EXCEPT ![x].pc = "commit"]
  <2>1. PICK s : s = [saves[x] EXCEPT !.pc = "commit"]
    OBVIOUS
  <2>2. saves[x] \in Saves /\ saves[x].pc = "test" /\ SaveSound(saves[x])
    BY DEF TestConnect, SettingsInv
  <2>3. /\ s \in Saves /\ s.pc = "commit" /\ s.form = saves[x].form
        /\ s.mqtt = saves[x].mqtt
    BY <2>1, <2>2, Zenon DEF Saves
  <2>4. saves' = [saves EXCEPT ![x] = s] /\ UNCHANGED <<file, cfg, queue, exiting, mixed>>
    BY <1>2, <2>1 DEF TestConnect
  <2>5. Accepted(s.form)
    BY <2>2, <2>3 DEF SaveSound
  <2>6. SaveSound(s)'
    BY <1>2, <2>3, <2>5 DEF SaveSound
  <2>7. /\ saves' \in [Savers -> Saves]
        /\ \A y \in Savers : SaveSound(saves[y])'
        /\ ~mixed' => \A y, z \in Savers : Changing(y)' /\ Changing(z)' => y = z
    BY <1>2, <2>3, <2>4, <2>6, OneSaver, Zenon
  <2>8. SavedStarts'
    BY <1>2, <2>4 DEF SettingsInv, SavedStarts
  <2> QED
    BY <2>4, <2>7, <2>8 DEF SettingsInv
<1> QED
  BY <1>1, <1>2 DEF TestConnect

\* The switches.  A handler that finds another one changing cfg has mixed.
LEMMA Commit_Inv ==
    ASSUME SettingsInv, NEW x \in Savers, Commit(x)
    PROVE  SettingsInv'
<1>1. /\ saves[x] \in Saves /\ saves[x].pc = "commit" /\ SaveSound(saves[x])
      /\ cfg \in Config /\ mixed \in BOOLEAN
  BY DEF Commit, SettingsInv
<1>2. PICK s : s = [saves[x] EXCEPT !.pc = "mqtt"]
  OBVIOUS
<1>3. /\ s \in Saves /\ s.pc = "mqtt" /\ s.form = saves[x].form /\ s.form \in Submission
      /\ s.mqtt = saves[x].mqtt
  BY <1>1, <1>2, Zenon DEF Saves
<1>4. /\ saves' = [saves EXCEPT ![x] = s] /\ UNCHANGED <<file, queue, exiting, tested>>
      /\ cfg' = [cfg EXCEPT !.on = s.form.on, !.transport = s.form.transport]
  BY <1>2, <1>3 DEF Commit
<1>5. /\ saves' \in [Savers -> Saves] /\ saves'[x] = s
      /\ \A y \in Savers \ {x} : saves'[y] = saves[y]
  BY <1>3, <1>4 DEF SettingsInv
<1>6. cfg' \in Config /\ cfg'.on = s.form.on /\ cfg'.transport = s.form.transport
  BY <1>1, <1>3, <1>4, Zenon DEF Config, Submission
<1>7. mixed' \in BOOLEAN /\ (~mixed' => ~mixed /\ \A y \in Savers : ~Changing(y))
  BY Zenon DEF Commit
<1>8. SaveSound(s)'
  <2>1. Accepted(s.form) /\ (s.form.on /\ s.form.transport = "mqtt" => s.mqtt \in tested)
    BY <1>1, <1>3, Zenon DEF SaveSound
  <2> QED
    BY <1>3, <1>4, <1>6, <2>1 DEF SaveSound
<1>9. ASSUME NEW y \in Savers PROVE SaveSound(saves[y])'
  <2>1. CASE y = x
    BY <1>5, <1>8, <2>1, Zenon DEF SaveSound
  <2>2. CASE y # x
    <3>1. saves'[y] = saves[y] /\ SaveSound(saves[y])
      BY <1>5, <2>2 DEF SettingsInv
    <3>2. ~mixed' => saves[y].pc \notin {"mqtt", "save", "write"}
      BY <1>7 DEF Changing
    <3> QED
      BY <1>4, <3>1, <3>2 DEF SaveSound
  <2> QED
    BY <2>1, <2>2, Zenon
<1>10. ~mixed' => \A y \in Savers \ {x} : ~Changing(y)'
  BY <1>5, <1>7 DEF Changing
<1>11. SavedStarts'
  BY <1>4, <1>7 DEF SettingsInv, SavedStarts
<1> QED
  BY <1>4, <1>5, <1>6, <1>7, <1>9, <1>10, <1>11 DEF SettingsInv

\* The MQTT section; the save goes on, or is rejected.
LEMMA CommitMqtt_Inv ==
    ASSUME SettingsInv, NEW x \in Savers, CommitMqtt(x)
    PROVE  SettingsInv'
<1>1. /\ saves[x] \in Saves /\ saves[x].pc = "mqtt" /\ SaveSound(saves[x]) /\ cfg \in Config
  BY DEF CommitMqtt, SettingsInv
<1>2. /\ saves[x].form \in Submission
      /\ saves[x].mqtt \in {"broker", "junk", ""} \X {"p", "p$x", ""}
  BY <1>1, Zenon DEF Saves
<1>3. PICK s : s = IF saves[x].form.ntp THEN [saves[x] EXCEPT !.pc = "save"] ELSE NoSave
  OBVIOUS
<1>4. /\ saves' = [saves EXCEPT ![x] = s]
      /\ UNCHANGED <<file, queue, exiting, tested, mixed>>
      /\ cfg' = [cfg EXCEPT !.url = saves[x].mqtt[1], !.pass = saves[x].mqtt[2]]
  BY <1>3 DEF CommitMqtt
<1>5. /\ s \in Saves /\ s.pc \in {"save", "idle"}
      /\ s.pc = "save" => s.form = saves[x].form /\ s.mqtt = saves[x].mqtt
  BY <1>1, <1>3, Zenon DEF Saves, NoSave
<1>6. /\ saves' \in [Savers -> Saves] /\ saves'[x] = s
      /\ \A y \in Savers \ {x} : saves'[y] = saves[y]
  BY <1>4, <1>5 DEF SettingsInv
<1>7. /\ cfg' \in Config /\ cfg'.on = cfg.on /\ cfg'.transport = cfg.transport
      /\ cfg'.url = saves[x].mqtt[1] /\ cfg'.pass = saves[x].mqtt[2]
  BY <1>1, <1>2, <1>4, Zenon DEF Config
<1>8. Mqtt(cfg)' = saves[x].mqtt
  <2>1. PICK m \in {"broker", "junk", ""} \X {"p", "p$x", ""} : m = saves[x].mqtt
    BY <1>2, Zenon
  <2>2. m = <<m[1], m[2]>>
    BY PairEta, Zenon
  <2> QED
    BY <1>7, <2>1, <2>2, Zenon DEF Mqtt
<1>9. ~mixed => \A y \in Savers \ {x} : ~Changing(y)
  <2>1. Changing(x)
    BY <1>1 DEF Changing
  <2> QED
    BY <2>1 DEF SettingsInv
<1>10. SaveSound(s)'
  <2>1. CASE s.pc = "save"
    BY <1>1, <1>4, <1>5, <1>7, <1>8, <2>1 DEF SaveSound
  <2>2. CASE s.pc = "idle"
    BY <2>2, Zenon DEF SaveSound
  <2> QED
    BY <1>5, <2>1, <2>2
<1>11. ASSUME NEW y \in Savers PROVE SaveSound(saves[y])'
  <2>1. CASE y = x
    BY <1>6, <1>10, <2>1 DEF SaveSound
  <2>2. CASE y # x
    <3>1. saves'[y] = saves[y] /\ SaveSound(saves[y])
      BY <1>6, <2>2 DEF SettingsInv
    <3>2. ~mixed => saves[y].pc \notin {"mqtt", "save", "write"}
      BY <1>9, <2>2 DEF Changing
    <3> QED
      BY <1>4, <3>1, <3>2 DEF SaveSound
  <2> QED
    BY <2>1, <2>2
<1>12. ~mixed => \A y \in Savers \ {x} : ~Changing(y)'
  BY <1>6, <1>9 DEF Changing
<1>13. SavedStarts'
  BY <1>4 DEF SettingsInv, SavedStarts
<1> QED
  BY <1>4, <1>6, <1>7, <1>11, <1>12, <1>13 DEF SettingsInv

\* What is marshalled is what was committed.
LEMMA SaveOpen_Inv ==
    ASSUME SettingsInv, NEW x \in Savers, SaveOpen(x)
    PROVE  SettingsInv'
<1>1. /\ saves[x] \in Saves /\ saves[x].pc = "save" /\ SaveSound(saves[x]) /\ cfg \in Config
  BY DEF SaveOpen, SettingsInv
<1>2. PICK s : s = [pc |-> "write", data |-> cfg]
  OBVIOUS
<1>3. s \in Saves /\ s.pc = "write" /\ s.data = cfg
  BY <1>1, <1>2, Zenon DEF Saves
<1>4. /\ saves' = [saves EXCEPT ![x] = s] /\ file' = Truncated
      /\ UNCHANGED <<cfg, queue, exiting, tested, mixed>>
  BY <1>2 DEF SaveOpen
<1>5. ~mixed => Startable(cfg, tested)
  <2>1. /\ Accepted(saves[x].form)
        /\ saves[x].form.on /\ saves[x].form.transport = "mqtt" => saves[x].mqtt \in tested
        /\ ~mixed => /\ cfg.on = saves[x].form.on /\ cfg.transport = saves[x].form.transport
                     /\ Mqtt(cfg) = saves[x].mqtt
    BY <1>1, Zenon DEF SaveSound
  <2>2. saves[x].form.on => saves[x].form.transport \in {"http", "mqtt"}
    BY <2>1 DEF Accepted
  <2> QED
    BY <2>1, <2>2, Zenon DEF Startable
<1>6. SaveSound(s)'
  BY <1>3, <1>4, <1>5 DEF SaveSound
<1>7. Changing(x)
  BY <1>1 DEF Changing
<1>8. /\ saves' \in [Savers -> Saves]
      /\ \A y \in Savers : SaveSound(saves[y])'
      /\ ~mixed' => \A y, z \in Savers : Changing(y)' /\ Changing(z)' => y = z
  BY <1>3, <1>4, <1>6, <1>7, OneSaver, Zenon
<1>9. Truncated \in Config /\ ~Truncated.whole
  BY DEF Truncated, Config
<1>10. SavedStarts'
  BY <1>4, <1>9 DEF SavedStarts
<1> QED
  BY <1>4, <1>8, <1>9, <1>10 DEF SettingsInv

LEMMA SaveWrite_Inv ==
    ASSUME SettingsInv, NEW x \in Savers, SaveWrite(x)
    PROVE  SettingsInv'
<1>1. saves[x] \in Saves /\ saves[x].pc = "write" /\ SaveSound(saves[x])
  BY DEF SaveWrite, SettingsInv
<1>2. saves[x].data \in Config /\ (~mixed => Startable(saves[x].data, tested))
  BY <1>1, Zenon DEF Saves, SaveSound
<1>3. PICK d \in Config : d = saves[x].data
  BY <1>2
<1>4. /\ saves' = [saves EXCEPT ![x] = NoSave] /\ file' = [d EXCEPT !.whole = TRUE]
      /\ exiting' = TRUE /\ UNCHANGED <<cfg, queue, tested, mixed>>
  BY <1>3 DEF SaveWrite
<1>5. /\ file' \in Config /\ file'.on = d.on /\ file'.transport = d.transport
      /\ file'.url = d.url /\ file'.pass = d.pass
  BY <1>4, Zenon DEF Config
<1>6. NoSave \in Saves /\ NoSave.pc = "idle"
  BY DEF NoSave, Saves
<1>7. SaveSound(NoSave)'
  BY <1>6 DEF SaveSound
<1>8. /\ saves' \in [Savers -> Saves]
      /\ \A y \in Savers : SaveSound(saves[y])'
      /\ ~mixed' => \A y, z \in Savers : Changing(y)' /\ Changing(z)' => y = z
  BY <1>4, <1>6, <1>7, OneSaver, Zenon
<1>9. SavedStarts'
  <2>1. PICK f \in Config : f = file'
    BY <1>5
  <2>2. /\ Load(f).url = d.url /\ Load(f).pass = Expanded(d.pass)
        /\ Load(f).transport = IF d.transport = "" THEN "http" ELSE d.transport
    BY <1>5, <2>1, LoadType, Zenon
  <2>3. ASSUME f.on, ~mixed
        PROVE  /\ Load(f).transport \in {"http", "mqtt"}
               /\ f.transport = "mqtt" /\ Expanded(f.pass) = f.pass => Mqtt(Load(f)) \in tested
    <3>1. /\ d.transport \in {"http", "mqtt"}
          /\ d.transport = "mqtt" => Mqtt(d) \in tested
      BY <1>2, <1>3, <1>5, <2>1, <2>3 DEF Startable
    <3> QED
      BY <1>5, <2>1, <2>2, <3>1, Zenon DEF Mqtt
  <2> QED
    BY <1>4, <2>1, <2>3 DEF SavedStarts
<1> QED
  BY <1>4, <1>5, <1>8, <1>9 DEF SettingsInv

LEMMA SettingsStep_Inv == SettingsInv /\ [Next]_vars => SettingsInv'
<1> SUFFICES ASSUME SettingsInv, [Next]_vars PROVE SettingsInv'
  OBVIOUS
<1>1. CASE SettingsStep
  <2>1. PICK x \in Savers :
          \/ \E form \in Forms : Submit(x, form)
          \/ SaveFails(x)
          \/ TestConnect(x) \/ Commit(x) \/ CommitMqtt(x) \/ SaveOpen(x) \/ SaveWrite(x)
    BY <1>1 DEF SettingsStep
  <2>2. CASE SaveFails(x)
    BY <2>2, GivesUp, Zenon DEF SaveFails
  <2> QED
    BY <2>1, <2>2, Submit_Inv, TestConnect_Inv, Commit_Inv, CommitMqtt_Inv, SaveOpen_Inv,
       SaveWrite_Inv
<1>2. CASE Restart
  <2>1. /\ cfg' = Load(file) /\ queue' = cfg'.on /\ exiting' = FALSE
        /\ saves' = [x \in Savers |-> NoSave] /\ UNCHANGED <<file, tested, mixed>>
    BY <1>2 DEF Restart, SettingsRestart
  <2>2. cfg' \in Config /\ cfg'.on \in BOOLEAN
    BY <2>1, LoadType, Zenon DEF SettingsInv, Config
  <2>3. NoSave \in Saves /\ NoSave.pc = "idle"
    BY Zenon DEF NoSave, Saves
  <2>4. /\ saves' \in [Savers -> Saves]
        /\ \A x \in Savers : SaveSound(saves[x])' /\ ~Changing(x)'
    BY <2>1, <2>3, Zenon DEF SaveSound, Changing
  <2>5. SavedStarts'
    BY <2>1, Zenon DEF SettingsInv, SavedStarts
  <2> QED
    BY <2>1, <2>2, <2>4, <2>5, Zenon DEF SettingsInv
<1>3. CASE NetStep \/ WatchStep \/ TimeStep \/ UNCHANGED vars
  <2>1. UNCHANGED settingsVars
    BY <1>3, Zenon DEF NetStep, WatchStep, TimeStep, vars
  <2> QED
    BY <2>1, Zenon DEF settingsVars, SettingsInv, SaveSound, Changing, SavedStarts, Startable
<1> QED
  BY <1>1, <1>2, <1>3 DEF Next

LEMMA SettingsInvAlways == Spec => []SettingsInv
<1>1. Init => SettingsInv
  BY SettingsInit_Inv DEF Init
<1> QED
  BY <1>1, SettingsStep_Inv, PTL DEF Spec

\* Saved settings start (SavedStarts), for every number of handlers and
\* whatever they are sent: saveSettings tests the broker before its first
\* assignment, and what config.Save marshals is what was tested.
THEOREM SettingsStart == Spec => []SavedStarts
BY SettingsInvAlways, SettingsInv_Goals, PTL

(***************************************************************************)
(* Types.                                                                  *)
(***************************************************************************)

\* Status of the Time Service.
Statuses == [quality : {"SYNCED", "RTC", "UNSYNCED", "INVALID"},
             synced : BOOLEAN, rtcAvailable : BOOLEAN]

\* The variables that the invariants above leave out.
RestInv ==
    /\ WatchTypeOK
    /\ server \in BOOLEAN /\ real \in 0 .. MaxReal /\ rtc \in Int
    /\ status \in Statuses
    /\ events \in 0 .. MaxEvents

LEMMA Spawn_Type ==
    ASSUME WatchTypeOK, NEW kind \in {"connect", "lost"}, Spawn(kind)
    PROVE  (callbacks \in [{"connect", "lost"} -> 0 .. MaxCallbacks])'
BY WatchAssumption DEF WatchTypeOK, Spawn

LEMMA Ran_Type ==
    ASSUME WatchTypeOK, NEW kind \in {"connect", "lost"}, Ran(kind)
    PROVE  (callbacks \in [{"connect", "lost"} -> 0 .. MaxCallbacks])'
BY WatchAssumption DEF WatchTypeOK, Ran

LEMMA NoCallbacks_Type == NoCallbacks \in [{"connect", "lost"} -> 0 .. MaxCallbacks]
BY WatchAssumption DEF NoCallbacks

LEMMA Watch_Type ==
    ASSUME WatchTypeOK, LinkUp \/ Adapter \/ LinkLost \/ Stall \/ ForceReconnect(TRUE)
    PROVE  WatchTypeOK'
<1>1. CASE LinkUp
  BY <1>1, Spawn_Type DEF LinkUp, WatchTypeOK
<1>2. CASE LinkLost
  BY <1>2, Spawn_Type DEF LinkLost, WatchTypeOK
<1>3. CASE Stall
  BY <1>3 DEF Stall, WatchTypeOK
<1>4. CASE OnConnect
  <2>1. late' \in BOOLEAN /\ since' = "zero" /\ link' = link /\ watch' = watch
    BY <1>4 DEF OnConnect
  <2>2. (callbacks \in [{"connect", "lost"} -> 0 .. MaxCallbacks])'
    BY <1>4, Ran_Type DEF OnConnect
  <2> QED
    BY <2>1, <2>2 DEF WatchTypeOK
<1>5. CASE OnConnectionLost
  BY <1>5, Ran_Type, Zenon DEF OnConnectionLost, WatchTypeOK
<1>6. CASE Age \/ (\E fails \in BOOLEAN : ForceReconnect(fails)) \/ Look \/ Push
  BY <1>6, Zenon DEF Age, ForceReconnect, Look, Push, WatchTypeOK
<1> QED
  BY <1>1, <1>2, <1>3, <1>4, <1>5, <1>6, Zenon DEF Adapter

LEMMA Event_Type ==
    ASSUME events \in 0 .. MaxEvents, Event
    PROVE  events' \in 0 .. MaxEvents
BY ServicesAssumption DEF Event

LEMMA Events_Type ==
    ASSUME events \in 0 .. MaxEvents, Next
    PROVE  events' \in 0 .. MaxEvents
<1>1. Event \/ UNCHANGED events
  <2>1. CASE NetStep
    BY <2>1 DEF NetStep, Operator, Timer, Works
  <2>2. CASE SettingsStep
    BY <2>2 DEF SettingsStep
  <2>3. CASE WatchStep \/ TimeStep \/ Restart
    BY <2>3, Zenon DEF WatchStep, TimeStep, Restart
  <2> QED
    BY <2>1, <2>2, <2>3 DEF Next
<1> QED
  BY <1>1, Event_Type

LEMMA Status_Type ==
    ASSUME status \in Statuses, SyncOnce
    PROVE  status' \in Statuses
<1>1. ASSUME NEW b \in BOOLEAN, Begin(b) PROVE status' \in Statuses
  BY <1>1 DEF Begin, Statuses
<1>2. CASE Degrade
  <2>1. PICK q \in {"RTC", "UNSYNCED", "INVALID"} :
          q = IF status.rtcAvailable THEN "RTC"
              ELSE IF Plausible THEN "UNSYNCED" ELSE "INVALID"
    OBVIOUS
  <2>2. status' = [status EXCEPT !.synced = FALSE, !.quality = q]
    BY <1>2, <2>1 DEF Degrade
  <2> QED
    BY <2>2, Zenon DEF Statuses
<1>3. CASE Synced
  BY <1>3, Zenon DEF Synced, Statuses
<1>4. CASE UNCHANGED status
  BY <1>4
<1> QED
  BY <1>1, <1>2, <1>3, <1>4, Zenon DEF SyncOnce, SetClock, WriteRTC, Receive, Transmit, Answer,
     NoAnswer

LEMMA Time_Type ==
    ASSUME TimeInv, RestInv, Tick \/ SyncOnce
    PROVE  /\ server' = server /\ real' \in 0 .. MaxReal /\ rtc' \in Int
           /\ status' \in Statuses
<1>1. status \in Statuses
  BY DEF RestInv, Statuses
<1>2. real \in 0 .. MaxReal /\ rtc \in Int /\ MaxReal \in Nat
  BY TimeAssumption DEF RestInv
<1>3. CASE Tick
  BY <1>1, <1>2, <1>3 DEF Tick
<1>4. CASE SyncOnce
  <2>1. real' = real /\ server' = server
    BY <1>4 DEF SyncOnce, Begin, SetClock, WriteRTC, Receive, Transmit, Answer, NoAnswer,
       Degrade, Synced
  <2>2. rtc' \in Int
    <3>1. ASSUME NEW b \in BOOLEAN, WriteRTC(b) PROVE rtc' \in Int
      <4>1. sync.pc = "rtc" /\ rtc' = IF b THEN sync.corrected - real ELSE rtc
        BY <3>1 DEF WriteRTC
      <4>2. sync.corrected \in Int
        BY <4>1 DEF TimeInv, Syncs
      <4> QED
        BY <1>2, <4>1, <4>2
    <3>2. CASE rtc' = rtc
      BY <1>2, <3>2
    <3> QED
      BY <1>4, <3>1, <3>2 DEF SyncOnce, Begin, SetClock, Receive, Transmit, Answer,
         NoAnswer, Degrade, Synced
  <2> QED
    BY <1>1, <1>2, <1>4, <2>1, <2>2, Status_Type
<1> QED
  BY <1>3, <1>4

LEMMA RestStep == TimeInv /\ RestInv /\ [Next]_vars => RestInv'
<1> SUFFICES ASSUME TimeInv, RestInv, [Next]_vars PROVE RestInv'
  OBVIOUS
<1>1. CASE UNCHANGED vars
  BY <1>1 DEF vars, watchVars, timeVars, RestInv, WatchTypeOK
<1>2. CASE Next
  <2>1. events' \in 0 .. MaxEvents
    BY <1>2, Events_Type DEF RestInv
  <2>2. CASE NetStep \/ SettingsStep
    <3>1. UNCHANGED <<watchVars, timeVars>>
      BY <2>2 DEF NetStep, SettingsStep
    <3> QED
      BY <2>1, <3>1 DEF watchVars, timeVars, RestInv, WatchTypeOK
  <2>3. CASE WatchStep
    <3>1. WatchTypeOK' /\ UNCHANGED timeVars
      BY <2>3, Watch_Type, Zenon DEF WatchStep, RestInv
    <3> QED
      BY <2>1, <3>1 DEF timeVars, RestInv
  <2>4. CASE TimeStep
    <3>1. UNCHANGED watchVars
      BY <2>4 DEF TimeStep
    <3>2. /\ server' = server /\ real' \in 0 .. MaxReal /\ rtc' \in Int
          /\ status' \in Statuses
      BY <2>4, Time_Type DEF TimeStep
    <3> QED
      BY <2>1, <3>1, <3>2 DEF watchVars, RestInv, WatchTypeOK, Statuses
  <2>5. CASE Restart
    <3>1. WatchTypeOK'
      BY <2>5, NoCallbacks_Type, Zenon DEF Restart, WatchRestart, WatchTypeOK, DisconnectedNow
    <3>2. /\ server' \in BOOLEAN /\ UNCHANGED <<real, skew, rtc>>
          /\ status' \in Statuses
      BY <2>5 DEF Restart, TimeRestart, Statuses
    <3> QED
      BY <2>1, <3>1, <3>2 DEF RestInv, Statuses
  <2> QED
    BY <1>2, <2>2, <2>3, <2>4, <2>5 DEF Next
<1> QED
  BY <1>1, <1>2

LEMMA RestInit == Init => RestInv
<1> SUFFICES ASSUME Init PROVE RestInv
  OBVIOUS
<1>1. WatchTypeOK
  BY NoCallbacks_Type, Zenon DEF Init, WatchInit, WatchTypeOK, DisconnectedNow
<1>2. /\ server \in BOOLEAN /\ real \in 0 .. MaxReal /\ rtc \in Int
      /\ status = [quality |-> "UNSYNCED", synced |-> FALSE, rtcAvailable |-> FALSE]
  BY TimeAssumption DEF Init, TimeInit
<1>3. events \in 0 .. MaxEvents
  BY ServicesAssumption DEF Init
<1> QED
  BY <1>1, <1>2, <1>3 DEF RestInv, Statuses

LEMMA Types_Goal == NetInv /\ SettingsInv /\ TimeInv /\ RestInv => TypeOK
<1> SUFFICES ASSUME NetInv, SettingsInv, TimeInv, RestInv PROVE TypeOK
  OBVIOUS
<1>1. NetTypeOK
  <2>1. \A t \in DOMAIN timers : timers[t].pc \in {"armed", "mod", "up", "clear"}
    BY DEF NetInv, TimersInv, Timers
  <2>2. \A o \in Operators : applies[o].pc \in {"idle", "mod", "up", "arm"}
    BY DEF NetInv, AppliesInv, Waiting, NoApply
  <2>3. timer \in TimerIds \cup {0} /\ DOMAIN timers \subseteq TimerIds
    BY DEF NetInv, TimersInv
  <2> QED
    BY <2>1, <2>2, <2>3, Zenon DEF NetInv, HostInv, NetTypeOK
<1>2. TimeTypeOK
  <2>1. sync.pc \in {"idle", "sent", "served", "answered", "degrade", "set", "status", "rtc"}
    BY DEF TimeInv, Syncs
  <2> QED
    BY <2>1 DEF TimeInv, RestInv, TimeTypeOK, Statuses
<1> QED
  BY <1>1, <1>2, SettingsInv_Goals DEF RestInv, TypeOK

\* The types of the services' variables (TypeOK), for every number of handlers,
\* timers, callbacks, requests and faults: each step of netconfig, settings.go,
\* the watchdog and syncOnce keeps them.
THEOREM ServicesTypeCorrect == Spec => []TypeOK
<1>1. Spec => []RestInv
  BY RestInit, RestStep, TimeInvAlways, PTL DEF Spec
<1> QED
  BY <1>1, NetInvAlways, SettingsInvAlways, TimeInvAlways, Types_Goal, PTL
=============================================================================
