---------------------------- MODULE ConfigProofs ----------------------------
(***************************************************************************)
(* Proofs about ConfigApi, for every number of rows, handlers, pollers and *)
(* requests: the tables, the pollers that Reload starts and cancels, and   *)
(* the values they leave behind.                                           *)
(***************************************************************************)
EXTENDS ConfigApi, WellFoundedInduction, TLAPS

\* A nonempty set of naturals with an upper bound has a largest element, the
\* one Max picks, the last id that was given.
LEMMA MaxOfBounded ==
    ASSUME NEW N \in Nat, NEW S \in SUBSET (0 .. N), S # {}
    PROVE  /\ Max(S) \in S
           /\ \A y \in S : Max(S) >= y
<1> DEFINE T == {N - x : x \in S}
<1>1. T \subseteq Nat
  OBVIOUS
<1>2. T # {}
  <2>1. PICK x \in S : TRUE
    BY Zenon
  <2>2. N - x \in T
    BY <2>1
  <2> QED BY <2>2
<1>3. PICK t \in T : \A u \in T : <<u, t>> \notin OpToRel(<, Nat)
  <2> HIDE DEF T
  <2> QED BY <1>1, <1>2, NatLessThanWellFounded, WFMin, Zenon
<1>4. \A u \in T : ~(u < t)
  BY <1>1, <1>3, Zenon DEF OpToRel
<1>5. \E x \in S : \A y \in S : x >= y
  <2>1. PICK x \in S : t = N - x
    OBVIOUS
  <2>2. \A y \in S : x >= y
    BY <1>4, <2>1
  <2> QED BY <2>1, <2>2
<1> QED BY <1>5, Zenon DEF Max

\* A nonempty set of naturals has a smallest element, the one Min picks: lists
\* are in the order of their ids.
LEMMA MinOfNaturals ==
    ASSUME NEW S \in SUBSET Nat, S # {}
    PROVE  /\ Min(S) \in S
           /\ \A y \in S : Min(S) =< y
<1>1. PICK t \in S : \A u \in S : <<u, t>> \notin OpToRel(<, Nat)
  BY NatLessThanWellFounded, WFMin, Zenon
<1>2. \A u \in S : ~(u < t)
  BY <1>1, Zenon DEF OpToRel
<1>3. \E x \in S : \A y \in S : x =< y
  BY <1>2
<1> QED BY <1>3, Zenon DEF Min

(***************************************************************************)
(* The tables.                                                             *)
(***************************************************************************)

LEMMA ExecKeepsReferences ==
    ASSUME ReferentialIntegrity, NEW st, Exec(st)
    PROVE  ReferentialIntegrity'
<1>1. Accepts(st)
  BY DEF Exec
<1>2. CASE st.op = "createConnection" /\ CreateConnection(st.row)
  BY <1>2 DEF CreateConnection, WithRow, ReferentialIntegrity
<1>3. CASE st.op = "updateConnection" /\ UpdateConnection(st.id, st.row)
  BY <1>3 DEF UpdateConnection, WithRow, ReferentialIntegrity
<1>4. CASE st.op = "deleteConnection" /\ DeleteConnection(st.id)
  BY <1>1, <1>4 DEF DeleteConnection, Without, ReferentialIntegrity, Accepts,
                    ForeignKeysHold, InUse
<1>5. CASE st.op = "createDevice" /\ CreateDevice(st.row)
  BY <1>1, <1>5 DEF CreateDevice, WithRow, ReferentialIntegrity, Accepts, ForeignKeysHold
<1>6. CASE st.op = "updateDevice" /\ UpdateDevice(st.id, st.row)
  BY <1>1, <1>6 DEF UpdateDevice, WithRow, ReferentialIntegrity, Accepts, ForeignKeysHold
<1>7. CASE st.op = "deleteDevice" /\ DeleteDevice(st.id)
  BY <1>7 DEF DeleteDevice, Without, ReferentialIntegrity
<1>8. CASE st.op = "createDataPoint" /\ CreateDataPoint(st.row)
  BY <1>1, <1>8 DEF CreateDataPoint, WithRow, ReferentialIntegrity, Accepts, ForeignKeysHold
<1>9. CASE st.op = "updateDataPoint" /\ UpdateDataPoint(st.id, st.row)
  BY <1>1, <1>9 DEF UpdateDataPoint, WithRow, ReferentialIntegrity, Accepts, RowsAffected,
                    OnDataPoint
<1>10. CASE st.op = "deleteDataPoint" /\ DeleteDataPoint(st.id)
  BY <1>10 DEF DeleteDataPoint, Without, ReferentialIntegrity
<1> QED
  BY <1>2, <1>3, <1>4, <1>5, <1>6, <1>7, <1>8, <1>9, <1>10 DEF Exec

\* Every step changes the tables by one statement or not at all.
LEMMA OneStatementPerStep ==
    ASSUME [Next]_vars
    PROVE  UNCHANGED dbVars \/ \E st : Exec(st)
<1>1. ASSUME NEW x \in Handlers, Handle(x)
      PROVE  UNCHANGED dbVars \/ \E st : Exec(st)
  <2>1. ASSUME NEW st, Write(x, st) PROVE UNCHANGED dbVars \/ \E t : Exec(t)
    BY <2>1, Zenon DEF Write
  <2>2. CASE \E st \in Requests : OneStatement(x, st)
    BY <2>1, <2>2, Zenon DEF OneStatement
  <2>3. CASE \E st \in Requests : Look(x, st)
    BY <2>3, Zenon DEF Look
  <2>4. CASE AfterLook(x)
    BY <2>1, <2>4, Zenon DEF AfterLook
  <2>5. CASE ImportPut(x)
    BY <2>5, Zenon DEF ImportPut, dbVars
  <2>6. CASE ExportConns(x) \/ ExportDevs(x) \/ ExportPoints(x) \/ ExportFails(x)
    BY <2>6, Zenon DEF ExportConns, ExportDevs, ExportPoints, ExportFails
  <2>7. CASE Import(x) \/ ImportGet(x) \/ ImportDone(x)
    BY <2>7, Zenon DEF Import, ImportGet, ImportDone
  <2> QED
    BY <1>1, <2>2, <2>3, <2>4, <2>5, <2>6, <2>7, Zenon DEF Handle
<1>2. ASSUME NEW x \in Callers, Reload(x) PROVE UNCHANGED dbVars
  BY <1>2, Zenon DEF Reload, ReloadDevs, ReloadConns, ReloadPoints, ReloadFails, ReloadApply
<1>3. ASSUME NEW s, Poll(s) PROVE UNCHANGED dbVars
  BY <1>3, Zenon DEF Poll
<1>4. CASE Serve \/ Stop \/ Shutdown \/ Wait
  BY <1>4, Zenon DEF Serve, Stop, Shutdown, Wait
<1>5. CASE Restart
  BY <1>5, Zenon DEF Restart
<1>6. CASE UNCHANGED vars
  BY <1>6 DEF vars
<1> QED
  BY <1>1, <1>2, <1>3, <1>4, <1>5, <1>6, Zenon DEF Next

\* No device without its connection and no data point without its device
\* (ReferentialIntegrity), whatever statements the handlers, an import and
\* connection.Delete interleave.
THEOREM ReferencesHold == Spec => []ReferentialIntegrity
<1>1. Init => ReferentialIntegrity
  BY DEF Init, DbInit, ReferentialIntegrity
<1>2. ReferentialIntegrity /\ [Next]_vars => ReferentialIntegrity'
  <2> SUFFICES ASSUME ReferentialIntegrity, [Next]_vars PROVE ReferentialIntegrity'
    OBVIOUS
  <2>1. CASE UNCHANGED dbVars
    BY <2>1 DEF dbVars, ReferentialIntegrity
  <2>2. CASE \E st : Exec(st)
    BY <2>2, ExecKeepsReferences
  <2> QED
    BY <2>1, <2>2, OneStatementPerStep
<1> QED
  BY <1>1, <1>2, PTL DEF Spec

(***************************************************************************)
(* The pollers and the values they leave behind.                           *)
(***************************************************************************)

\* p is, or was, a data point of d.
PointOf(p, d) == p \in 1 .. dpSeq /\ (p \in DOMAIN dps => dps[p].dev = d)

IsLocals(l) == l = [since |-> l.since, devs |-> l.devs, conns |-> l.conns, pts |-> l.pts]

IsPoller(q) ==
    q = [id |-> q.id, conn |-> q.conn, devices |-> q.devices, cancelled |-> q.cancelled,
         connected |-> q.connected, pc |-> q.pc, at |-> q.at]

DbInv ==
    /\ dpSeq \in Nat
    /\ DOMAIN dps \subseteq 1 .. dpSeq
    /\ DOMAIN devs \subseteq Nat

LocInv(l) ==
    /\ IsLocals(l)
    /\ DOMAIN l.devs \subseteq Nat /\ DOMAIN l.pts \subseteq Nat
    /\ \A d \in DOMAIN l.pts : \A p \in DOMAIN l.pts[d] : PointOf(p, d)

PollerInv(q) ==
    /\ IsPoller(q)
    /\ DOMAIN q.devices \subseteq Nat /\ DOMAIN q.devices # {}
    /\ q.pc \in {"device", "read"} => q.at \in DOMAIN q.devices
    /\ \A d \in DOMAIN q.devices : \A p \in DOMAIN q.devices[d].pts : PointOf(p, d)

LatestInv == \A p \in DOMAIN latest : PointOf(p, latest[p])

PhaseInv ==
    /\ phase \in {"waiting", "closed"} => stopped
    /\ QuietAfterWait

AcqInv ==
    /\ DbInv
    /\ DOMAIN loc = Callers /\ \A x \in Callers : LocInv(loc[x])
    /\ \A s \in DOMAIN pollers : PollerInv(pollers[s])
    /\ LatestInv
    /\ PhaseInv

LEMMA AcqInv_Goals == AcqInv => LatestIsOwn /\ QuietAfterWait
BY DEF AcqInv, LatestIsOwn, LatestInv, PointOf, PhaseInv

LEMMA NoLocals_Inv == LocInv(NoLocals)
<1>1. DOMAIN NoLocals.devs = {} /\ DOMAIN NoLocals.pts = {}
  BY DEF NoLocals
<1>2. IsLocals(NoLocals)
  BY DEF NoLocals, IsLocals
<1> QED
  BY <1>1, <1>2 DEF LocInv

LEMMA ForgetLocals ==
    ASSUME NEW x \in Callers, loc'[x] = NoLocals
    PROVE  LocInv(loc[x])'
<1>1. DOMAIN NoLocals.devs = {} /\ DOMAIN NoLocals.pts = {} /\ IsLocals(NoLocals)
  BY DEF NoLocals, IsLocals
<1> QED
  BY <1>1 DEF LocInv, IsLocals

LEMMA Init_AcqInv == Init => AcqInv
<1> SUFFICES ASSUME Init PROVE AcqInv
  OBVIOUS
<1>1. DbInv
  <2>1. DOMAIN dps \in SUBSET (1 .. MaxDp) /\ DOMAIN devs \in SUBSET (1 .. MaxDev)
    BY DEF Init, DbInit, DpIds, DevIds
  <2>2. DOMAIN dps \cup {0} \in SUBSET (0 .. MaxDp)
    BY <2>1, DbAssumption
  <2>3. dpSeq \in 0 .. MaxDp /\ \A p \in DOMAIN dps : dpSeq >= p
    BY <2>2, MaxOfBounded, DbAssumption, Zenon DEF Init, DbInit
  <2> QED
    BY <2>1, <2>3, DbAssumption DEF DbInv
<1>2. DOMAIN loc = Callers /\ \A x \in Callers : LocInv(loc[x])
  BY NoLocals_Inv DEF Init, AcqInit
<1>3. DOMAIN pollers = {} /\ DOMAIN latest = {}
  BY DEF Init, AcqInit
<1>4. PhaseInv
  BY DEF Init, AcqInit, PhaseInv, QuietAfterWait
<1> QED
  BY <1>1, <1>2, <1>3, <1>4 DEF AcqInv, LatestInv

\* A statement gives no id twice and moves no point to another device.
LEMMA Exec_DbInv ==
    ASSUME DbInv, NEW st, Exec(st)
    PROVE  DbInv' /\ \A p, d : PointOf(p, d) => PointOf(p, d)'
<1>1. Accepts(st)
  BY DEF Exec
<1>2. CASE UNCHANGED <<devs, dps, dpSeq>>
  BY <1>2 DEF DbInv, PointOf
<1>3. CASE st.op = "createDevice" /\ CreateDevice(st.row)
  BY <1>1, <1>3 DEF CreateDevice, WithRow, DbInv, PointOf, Accepts, IdsLeft, DevIds
<1>4. CASE st.op = "updateDevice" /\ UpdateDevice(st.id, st.row)
  BY <1>1, <1>4 DEF UpdateDevice, WithRow, DbInv, PointOf, Accepts, RowsAffected, OnDevice
<1>5. CASE st.op = "deleteDevice" /\ DeleteDevice(st.id)
  BY <1>5 DEF DeleteDevice, Without, DbInv, PointOf
<1>6. CASE st.op = "createDataPoint" /\ CreateDataPoint(st.row)
  BY <1>6 DEF CreateDataPoint, WithRow, DbInv, PointOf, NewDpId
<1>7. CASE st.op = "updateDataPoint" /\ UpdateDataPoint(st.id, st.row)
  BY <1>1, <1>7 DEF UpdateDataPoint, WithRow, DbInv, PointOf, Accepts, RowsAffected, OnDataPoint
<1>8. CASE st.op = "deleteDataPoint" /\ DeleteDataPoint(st.id)
  BY <1>8 DEF DeleteDataPoint, Without, DbInv, PointOf
<1> QED
  BY <1>2, <1>3, <1>4, <1>5, <1>6, <1>7, <1>8
  DEF Exec, CreateConnection, UpdateConnection, DeleteConnection

\* The rest of the state does not notice the statement.
LEMMA Tables_Inv ==
    ASSUME AcqInv, [Next]_vars,
           UNCHANGED <<phase, stopped, pollers, latest>>, DOMAIN loc' = Callers,
           \A x \in Callers : LocInv(loc[x])' \/ loc'[x] = loc[x]
    PROVE  AcqInv'
<1>1. DbInv' /\ \A p, d : PointOf(p, d) => PointOf(p, d)'
  <2>1. CASE UNCHANGED dbVars
    BY <2>1 DEF dbVars, AcqInv, DbInv, PointOf
  <2>2. CASE \E st : Exec(st)
    BY <2>2, Exec_DbInv DEF AcqInv
  <2> QED
    BY <2>1, <2>2, OneStatementPerStep
<1>2. \A x \in Callers : LocInv(loc[x])'
  BY <1>1 DEF AcqInv, LocInv, IsLocals
<1>3. \A s \in DOMAIN pollers : PollerInv(pollers[s])'
  BY <1>1 DEF AcqInv, PollerInv, IsPoller
<1>4. LatestInv' /\ PhaseInv'
  BY <1>1 DEF AcqInv, LatestInv, PhaseInv, QuietAfterWait
<1> QED
  BY <1>1, <1>2, <1>3, <1>4 DEF AcqInv

\* What is read of a device's points.
LEMMA Listed ==
    ASSUME AcqInv, NEW d
    PROVE  /\ \A p \in DOMAIN ListByDevice(d) : PointOf(p, d)
           /\ \A p \in DOMAIN ListEnabledByDevice(d) : PointOf(p, d)
BY DEF AcqInv, DbInv, ListByDevice, ListEnabledByDevice, Only, PointOf

LEMMA PointsRead ==
    ASSUME AcqInv, NEW x \in Callers, NEW d \in Nat, NEW pts,
           \A p \in DOMAIN pts : PointOf(p, d),
           UNCHANGED dbVars, DOMAIN loc' = Callers,
           loc'[x] = [loc[x] EXCEPT !.pts = WithRow(loc[x].pts, d, pts)]
    PROVE  LocInv(loc[x])'
<1>1. LocInv(loc[x])
  BY DEF AcqInv
<1>2. /\ loc'[x].since = loc[x].since /\ loc'[x].devs = loc[x].devs
      /\ loc'[x].conns = loc[x].conns /\ loc'[x].pts = WithRow(loc[x].pts, d, pts)
      /\ IsLocals(loc'[x])
  BY <1>1 DEF LocInv, IsLocals
<1>3. \A e, p : PointOf(p, e)' = PointOf(p, e)
  BY DEF PointOf, dbVars
<1> QED
  BY <1>1, <1>2, <1>3 DEF LocInv, IsLocals, WithRow

\* The queries of Reload, before it takes Manager.mu.
LEMMA ReloadReads_Inv ==
    ASSUME AcqInv, [Next]_vars, NEW x \in Callers,
           ReloadDevs(x) \/ ReloadConns(x) \/ ReloadPoints(x) \/ ReloadFails(x)
    PROVE  AcqInv'
<1>1. DOMAIN loc = Callers /\ LocInv(loc[x])
  BY DEF AcqInv
<1>2. /\ UNCHANGED <<phase, stopped, pollers, latest>> /\ UNCHANGED dbVars
      /\ \E l : loc' = [loc EXCEPT ![x] = l]
  <2>1. CASE ReloadDevs(x)
    BY <2>1, Zenon DEF ReloadDevs
  <2>2. CASE ReloadConns(x)
    BY <2>2, Zenon DEF ReloadConns
  <2>3. CASE ReloadPoints(x)
    BY <2>3, Zenon DEF ReloadPoints
  <2>4. CASE ReloadFails(x)
    BY <2>4, Zenon DEF ReloadFails
  <2> QED
    BY <2>1, <2>2, <2>3, <2>4
<1>3. DOMAIN loc' = Callers /\ \A y \in Callers \ {x} : loc'[y] = loc[y]
  BY <1>1, <1>2
<1>4. LocInv(loc[x])'
  <2>1. CASE ReloadDevs(x)
    <3>1. loc'[x] = [NoLocals EXCEPT !.since = version, !.devs = ListEnabled(devs)]
      BY <1>1, <2>1 DEF ReloadDevs
    <3>2. /\ loc'[x].devs = ListEnabled(devs) /\ loc'[x].pts = <<>> /\ IsLocals(loc'[x])
      BY <3>1, Zenon DEF NoLocals, IsLocals
    <3>3. DOMAIN ListEnabled(devs) \subseteq Nat
      BY DEF AcqInv, DbInv, ListEnabled, Only
    <3>4. DOMAIN loc'[x].pts = {}
      BY <3>2
    <3> QED
      BY <3>2, <3>3, <3>4 DEF LocInv, IsLocals
  <2>2. CASE ReloadConns(x)
    <3>1. loc'[x] = [loc[x] EXCEPT !.conns = ListEnabled(conns)]
      BY <1>1, <2>2 DEF ReloadConns
    <3>2. loc'[x].devs = loc[x].devs /\ loc'[x].pts = loc[x].pts /\ IsLocals(loc'[x])
      BY <1>1, <3>1 DEF LocInv, IsLocals
    <3> QED
      BY <1>1, <1>2, <3>2 DEF LocInv, IsLocals, PointOf, dbVars
  <2>3. CASE ReloadPoints(x)
    <3> DEFINE d == Min(ToRead(loc[x]))
    <3>1. d \in Nat
      <4>1. ToRead(loc[x]) \in SUBSET Nat /\ ToRead(loc[x]) # {}
        BY <1>1, <2>3 DEF ReloadPoints, ToRead, LocInv
      <4> QED
        BY <4>1, MinOfNaturals
    <3>2. loc'[x] = [loc[x] EXCEPT !.pts = WithRow(loc[x].pts, d, ListEnabledByDevice(d))]
      BY <1>1, <2>3 DEF ReloadPoints
    <3> HIDE DEF d
    <3> QED
      BY <1>2, <1>3, <3>1, <3>2, Listed, PointsRead
  <2>4. CASE ReloadFails(x)
    <3>1. loc'[x] = NoLocals
      BY <1>1, <2>4 DEF ReloadFails
    <3> QED
      BY <3>1, ForgetLocals
  <2> QED
    BY <2>1, <2>2, <2>3, <2>4
<1> QED
  BY <1>2, <1>3, <1>4, Tables_Inv, Zenon

\* Under Manager.mu: the new pollers scan what Reload has read, from the top.
LEMMA ReloadApply_Inv ==
    ASSUME AcqInv, NEW x \in Callers, ReloadApply(x)
    PROVE  AcqInv'
<1> DEFINE l == loc[x]
           wanted == Grouped(l.conns, l.devs, l.pts)
           kept == Kept(wanted)
           new == DOMAIN wanted \ kept
           free == Slots \ (DOMAIN pollers \cup {running[c].slot : c \in DOMAIN running})
           slot == CHOOSE f \in Injections(new, free) : TRUE
           dropped == {running[c].slot : c \in DOMAIN running \ kept}
           old(s) == [pollers[s] EXCEPT !.cancelled = @ \/ s \in dropped]
           owner(s) == CHOOSE c \in new : slot[c] = s
<1>1. /\ pollers' = [s \in DOMAIN pollers \cup {slot[c] : c \in new} |->
                       IF s \in DOMAIN pollers THEN old(s)
                       ELSE NewPoller(owner(s), wanted[owner(s)])]
      /\ loc' = [loc EXCEPT ![x] = NoLocals]
      /\ UNCHANGED dbVars /\ UNCHANGED <<phase, stopped, latest>>
  BY Zenon DEF ReloadApply
<1>2. DOMAIN loc = Callers /\ LocInv(l)
  BY Zenon DEF AcqInv
<1>3. \A p, d : PointOf(p, d)' = PointOf(p, d)
  BY <1>1, Zenon DEF PointOf, dbVars
<1>4. \A c \in new :
        LET q == NewPoller(c, wanted[c])
        IN  /\ IsPoller(q) /\ q.pc = "top"
            /\ DOMAIN q.devices \subseteq Nat /\ DOMAIN q.devices # {}
            /\ \A d \in DOMAIN q.devices : q.devices[d].pts = l.pts[d] /\ d \in DOMAIN l.pts
  <2> SUFFICES ASSUME NEW c \in DOMAIN wanted
               PROVE  LET q == NewPoller(c, wanted[c])
                      IN  /\ IsPoller(q) /\ q.pc = "top"
                          /\ DOMAIN q.devices \subseteq Nat /\ DOMAIN q.devices # {}
                          /\ \A d \in DOMAIN q.devices :
                                q.devices[d].pts = l.pts[d] /\ d \in DOMAIN l.pts
    OBVIOUS
  <2> DEFINE q == NewPoller(c, wanted[c])
             mine == {e \in DOMAIN l.pts : l.devs[e].conn = c}
  <2>1. /\ IsPoller(q) /\ q.pc = "top" /\ q.devices = wanted[c].devices
    BY DEF NewPoller, IsPoller
  <2>2. c \in {l.devs[d].conn : d \in DOMAIN l.pts}
    BY DEF Grouped
  <2>3. wanted[c].devices = [d \in mine |-> [dev |-> l.devs[d], pts |-> l.pts[d]]]
    BY <2>2 DEF Grouped
  <2>4. mine # {} /\ mine \subseteq Nat
    BY <1>2, <2>2 DEF LocInv
  <2>5. \A d \in mine : d \in DOMAIN l.pts
    OBVIOUS
  <2> HIDE DEF wanted, q, mine
  <2>6. DOMAIN q.devices = mine /\ \A d \in mine : q.devices[d].pts = l.pts[d]
    BY <2>1, <2>3
  <2>7. /\ IsPoller(q) /\ q.pc = "top"
        /\ DOMAIN q.devices \subseteq Nat /\ DOMAIN q.devices # {}
        /\ \A d \in DOMAIN q.devices :
              q.devices[d].pts = l.pts[d] /\ d \in DOMAIN l.pts
    BY <2>1, <2>4, <2>5, <2>6, Zenon
  <2> QED
    BY <2>7, Zenon DEF q
<1> HIDE DEF wanted, new, slot, dropped, kept, free
<1>5. \A s \in DOMAIN pollers' \ DOMAIN pollers :
        owner(s) \in new /\ pollers'[s] = NewPoller(owner(s), wanted[owner(s)])
  BY <1>1
<1>6. \A s \in DOMAIN pollers :
        /\ s \in DOMAIN pollers' /\ IsPoller(pollers'[s])
        /\ pollers'[s].pc = pollers[s].pc /\ pollers'[s].at = pollers[s].at
        /\ pollers'[s].devices = pollers[s].devices
  <2> SUFFICES ASSUME NEW s \in DOMAIN pollers
               PROVE  /\ s \in DOMAIN pollers' /\ IsPoller(pollers'[s])
                      /\ pollers'[s].pc = pollers[s].pc /\ pollers'[s].at = pollers[s].at
                      /\ pollers'[s].devices = pollers[s].devices
    OBVIOUS
  <2>1. s \in DOMAIN pollers' /\ pollers'[s] = old(s)
    BY <1>1
  <2>2. IsPoller(pollers[s])
    BY DEF AcqInv, PollerInv
  <2>3. PICK b : old(s) = [pollers[s] EXCEPT !.cancelled = b]
    BY <2>2, Zenon DEF IsPoller
  <2> HIDE DEF old
  <2> QED
    BY <2>1, <2>2, <2>3 DEF IsPoller
<1> HIDE DEF owner, old
<1>7. \A s \in DOMAIN pollers' : PollerInv(pollers[s])'
  <2> SUFFICES ASSUME NEW s \in DOMAIN pollers' PROVE PollerInv(pollers[s])'
    OBVIOUS
  <2>1. CASE s \in DOMAIN pollers
    BY <1>3, <1>6, <2>1, Zenon DEF AcqInv, PollerInv, IsPoller
  <2>2. CASE s \notin DOMAIN pollers
    <3> DEFINE q == pollers'[s]
    <3>1. /\ IsPoller(q) /\ q.pc = "top"
          /\ DOMAIN q.devices \subseteq Nat /\ DOMAIN q.devices # {}
          /\ \A d \in DOMAIN q.devices : q.devices[d].pts = l.pts[d] /\ d \in DOMAIN l.pts
      BY <1>4, <1>5, <2>2
    <3>2. \A d \in DOMAIN q.devices : \A p \in DOMAIN q.devices[d].pts : PointOf(p, d)'
      BY <1>2, <1>3, <3>1 DEF LocInv
    <3> QED
      BY <3>1, <3>2 DEF PollerInv, IsPoller
  <2> QED
    BY <2>1, <2>2
<1>8. PhaseInv'
  <2>1. ASSUME phase = "closed", NEW s \in DOMAIN pollers' PROVE pollers'[s].pc = "top"
    BY <1>4, <1>5, <1>6, <2>1 DEF AcqInv, PhaseInv, QuietAfterWait
  <2> QED
    BY <1>1, <2>1 DEF AcqInv, PhaseInv, QuietAfterWait
<1>9. DOMAIN loc' = Callers /\ \A y \in Callers : LocInv(loc[y])'
  <2>1. DOMAIN loc' = Callers /\ loc'[x] = NoLocals /\ \A y \in Callers \ {x} : loc'[y] = loc[y]
    BY <1>1, <1>2
  <2>2. LocInv(loc[x])'
    BY <2>1, ForgetLocals
  <2>3. \A y \in Callers \ {x} : LocInv(loc[y])'
    BY <1>3, <2>1, Zenon DEF AcqInv, LocInv, IsLocals
  <2> QED
    BY <2>1, <2>2, <2>3
<1>10. DbInv' /\ LatestInv'
  BY <1>1, <1>3 DEF AcqInv, DbInv, LatestInv, dbVars
<1> QED
  BY <1>7, <1>8, <1>9, <1>10 DEF AcqInv

\* What OnReading leaves in LatestStore was read from the point's own device.
LEMMA Emit_Inv ==
    ASSUME AcqInv, NEW s \in DOMAIN pollers, NEW ds \in SUBSET DOMAIN pollers[s].devices,
           Emit(s, ds), UNCHANGED dbVars
    PROVE  LatestInv'
<1> DEFINE pts(d) == DOMAIN pollers[s].devices[d].pts
           all == UNION {pts(d) : d \in ds}
           from(p) == CHOOSE d \in ds : p \in pts(d)
<1>1. latest' = [p \in DOMAIN latest \cup all |-> IF p \in all THEN from(p) ELSE latest[p]]
  BY Zenon DEF Emit
<1>2. \A p, d : PointOf(p, d)' = PointOf(p, d)
  BY DEF PointOf, dbVars
<1>3. \A d \in ds : \A p \in pts(d) : PointOf(p, d)
  BY DEF AcqInv, PollerInv
<1> HIDE DEF pts
<1>4. \A p \in all : PointOf(p, from(p))
  <2> SUFFICES ASSUME NEW d \in ds, NEW p \in pts(d) PROVE PointOf(p, from(p))
    OBVIOUS
  <2>1. from(p) \in ds /\ p \in pts(from(p))
    OBVIOUS
  <2> HIDE DEF from
  <2> QED
    BY <1>3, <2>1
<1> HIDE DEF all, from
<1>5. \A p \in DOMAIN latest' : PointOf(p, latest'[p])
  BY <1>1, <1>4 DEF AcqInv, LatestInv
<1> QED
  BY <1>2, <1>5 DEF LatestInv

\* A poller that goes on keeps what it scans.
LEMMA Goes_Inv ==
    ASSUME AcqInv, UNCHANGED dbVars, UNCHANGED <<phase, stopped, loc>>, LatestInv',
           NEW s \in DOMAIN pollers, NEW q,
           pollers' = [pollers EXCEPT ![s] = q], IsPoller(q), q.devices = pollers[s].devices,
           q.pc \in {"device", "read"} => q.at \in DOMAIN q.devices,
           phase # "closed"
    PROVE  AcqInv'
<1>1. \A p, d : PointOf(p, d)' = PointOf(p, d)
  BY DEF PointOf, dbVars
<1>2. /\ DOMAIN pollers' = DOMAIN pollers /\ pollers'[s] = q
      /\ \A t \in DOMAIN pollers \ {s} : pollers'[t] = pollers[t]
  OBVIOUS
<1>3. PollerInv(pollers[s])'
  BY <1>1, <1>2 DEF AcqInv, PollerInv, IsPoller
<1>4. \A t \in DOMAIN pollers \ {s} : PollerInv(pollers[t])'
  BY <1>1, <1>2 DEF AcqInv, PollerInv, IsPoller
<1>5. \A x \in Callers : LocInv(loc[x])'
  BY <1>1 DEF AcqInv, LocInv, IsLocals
<1>6. DbInv' /\ PhaseInv'
  BY DEF AcqInv, DbInv, dbVars, PhaseInv, QuietAfterWait
<1> QED
  BY <1>2, <1>3, <1>4, <1>5, <1>6 DEF AcqInv

LEMMA Goto_Inv ==
    ASSUME AcqInv, UNCHANGED dbVars, UNCHANGED <<phase, stopped, loc>>, LatestInv',
           NEW s \in DOMAIN pollers, NEW p, NEW d, Goto(s, p, d),
           p \in {"device", "read"} => d \in DOMAIN pollers[s].devices,
           phase # "closed"
    PROVE  AcqInv'
<1> DEFINE r == [pollers[s] EXCEPT !.pc = p]
           q == [r EXCEPT !.at = d]
<1>1. pollers' = [pollers EXCEPT ![s] = q]
  BY Zenon DEF Goto
<1>2. IsPoller(pollers[s])
  BY DEF AcqInv, PollerInv
<1>3. IsPoller(r) /\ r.devices = pollers[s].devices /\ r.pc = p
  BY <1>2 DEF IsPoller
<1> HIDE DEF r
<1>4. IsPoller(q) /\ q.devices = pollers[s].devices /\ q.pc = p /\ q.at = d
  BY <1>3 DEF IsPoller
<1> HIDE DEF q
<1> QED
  BY <1>1, <1>4, Goes_Inv, Zenon

LEMMA Poll_Inv ==
    ASSUME AcqInv, NEW s \in DOMAIN pollers, Poll(s)
    PROVE  AcqInv'
<1>1. UNCHANGED dbVars /\ UNCHANGED <<phase, stopped, loc>>
  BY DEF Poll
<1>2. PollerInv(pollers[s])
  BY DEF AcqInv
<1>3. \A p, d : PointOf(p, d)' = PointOf(p, d)
  BY <1>1 DEF PointOf, dbVars
<1>4. latest' = latest => LatestInv'
  BY <1>3 DEF AcqInv, LatestInv
<1>5. pollers[s].pc # "top" => phase # "closed"
  BY DEF AcqInv, PhaseInv, QuietAfterWait
<1>6. FirstDevice(s) \in DOMAIN pollers[s].devices
  BY <1>2, MinOfNaturals DEF FirstDevice, PollerInv
<1>7. ASSUME End(s) PROVE AcqInv'
  <2>1. /\ DOMAIN pollers' = DOMAIN pollers \ {s} /\ latest' = latest
        /\ \A t \in DOMAIN pollers' : pollers'[t] = pollers[t]
    BY <1>7 DEF End, Without
  <2>2. \A t \in DOMAIN pollers' : PollerInv(pollers[t])'
    BY <1>3, <2>1 DEF AcqInv, PollerInv, IsPoller
  <2>3. \A x \in Callers : LocInv(loc[x])'
    BY <1>1, <1>3 DEF AcqInv, LocInv, IsLocals
  <2>4. DbInv' /\ PhaseInv'
    BY <1>1, <2>1 DEF AcqInv, DbInv, dbVars, PhaseInv, QuietAfterWait
  <2> QED
    BY <1>1, <1>4, <2>1, <2>2, <2>3, <2>4 DEF AcqInv
<1>8. CASE PollTop(s)
  <2>1. CASE End(s)
    BY <1>7, <2>1
  <2>2. CASE ~Cancelled(s) /\ latest' = latest
             /\ (Goto(s, "device", FirstDevice(s)) \/ Goto(s, "connect", 0))
    <3>1. phase # "closed"
      BY <2>2 DEF AcqInv, PhaseInv, Cancelled
    <3> QED
      BY <1>1, <1>4, <1>6, <2>2, <3>1, Goto_Inv
  <2> QED
    BY <1>8, <2>1, <2>2 DEF PollTop
<1>9. CASE Connect(s)
  <2>0. PICK v : v = TRUE
    OBVIOUS
  <2> DEFINE up == [pollers[s] EXCEPT !.connected = v]
             r == [up EXCEPT !.pc = "device"]
             q == [r EXCEPT !.at = FirstDevice(s)]
  <2>1. pollers' = [pollers EXCEPT ![s] = q] /\ latest' = latest /\ pollers[s].pc = "connect"
    BY <1>9, <2>0, Zenon DEF Connect
  <2>2. IsPoller(up) /\ up.devices = pollers[s].devices
    <3>1. IsPoller(pollers[s])
      BY <1>2 DEF PollerInv
    <3> QED
      BY <3>1 DEF IsPoller
  <2> HIDE DEF up
  <2>3. IsPoller(r) /\ r.devices = pollers[s].devices /\ r.pc = "device"
    BY <2>2 DEF IsPoller
  <2> HIDE DEF r
  <2>4. /\ IsPoller(q) /\ q.devices = pollers[s].devices /\ q.pc = "device"
        /\ q.at = FirstDevice(s)
    BY <2>3 DEF IsPoller
  <2> HIDE DEF q
  <2> QED
    BY <1>1, <1>4, <1>5, <1>6, <2>1, <2>4, Goes_Inv, Zenon
<1>10. CASE ConnectFails(s)
  BY <1>1, <1>5, <1>10, Emit_Inv, Goto_Inv DEF ConnectFails
<1>11. CASE PollDevice(s)
  <2>1. CASE End(s)
    BY <1>7, <2>1
  <2>2. CASE Goto(s, "read", pollers[s].at) /\ latest' = latest
    BY <1>1, <1>2, <1>4, <1>5, <1>11, <2>2, Goto_Inv DEF PollDevice, PollerInv
  <2> QED
    BY <1>11, <2>1, <2>2 DEF PollDevice
<1>12. CASE ReadDevice(s)
  <2>1. pollers[s].pc = "read" /\ Emit(s, {pollers[s].at}) /\ NextDevice(s)
    BY <1>12 DEF ReadDevice
  <2>2. LatestInv'
    BY <1>1, <1>2, <2>1, Emit_Inv DEF PollerInv
  <2>3. LaterDevices(s) # {} => Min(LaterDevices(s)) \in DOMAIN pollers[s].devices
    <3>1. LaterDevices(s) \subseteq Nat /\ LaterDevices(s) \subseteq DOMAIN pollers[s].devices
      BY <1>2 DEF LaterDevices, PollerInv
    <3> QED
      BY <3>1, MinOfNaturals
  <2>4. CASE LaterDevices(s) = {} /\ Goto(s, "top", 0)
    BY <1>1, <1>5, <2>1, <2>2, <2>4, Goto_Inv
  <2>5. CASE LaterDevices(s) # {} /\ Goto(s, "device", Min(LaterDevices(s)))
    BY <1>1, <1>5, <2>1, <2>2, <2>3, <2>5, Goto_Inv
  <2> QED
    BY <2>1, <2>4, <2>5 DEF NextDevice
<1> QED
  BY <1>8, <1>9, <1>10, <1>11, <1>12 DEF Poll

\* A handler touches the tables and its own locals.
LEMMA Handle_Inv ==
    ASSUME AcqInv, [Next]_vars, NEW x \in Handlers, Handle(x)
    PROVE  AcqInv'
<1>1. x \in Callers /\ DOMAIN loc = Callers /\ LocInv(loc[x])
  BY DEF AcqInv, Callers
<1>2. ASSUME NEW l, loc' = [loc EXCEPT ![x] = l], LocInv(loc[x])',
             UNCHANGED <<phase, stopped, pollers, latest>>
      PROVE  AcqInv'
  <2>1. DOMAIN loc' = Callers /\ \A y \in Callers \ {x} : loc'[y] = loc[y]
    BY <1>1, <1>2
  <2> QED
    BY <1>2, <2>1, Tables_Inv, Zenon
<1>3. CASE UNCHANGED <<phase, stopped, pollers, latest, loc>>
  BY <1>1, <1>3, Tables_Inv
<1>4. CASE ExportConns(x)
  <2>1. /\ loc' = [loc EXCEPT ![x] = [NoLocals EXCEPT !.since = version, !.conns = conns]]
        /\ UNCHANGED <<phase, stopped, pollers, latest>>
    BY <1>4, Zenon DEF ExportConns, rest
  <2>2. loc'[x] = [NoLocals EXCEPT !.since = version, !.conns = conns]
    BY <1>1, <2>1
  <2>3. loc'[x].devs = <<>> /\ loc'[x].pts = <<>> /\ IsLocals(loc'[x])
    BY <2>2, Zenon DEF NoLocals, IsLocals
  <2>4. DOMAIN loc'[x].devs = {} /\ DOMAIN loc'[x].pts = {}
    BY <2>3
  <2>5. LocInv(loc[x])'
    BY <2>3, <2>4 DEF LocInv, IsLocals
  <2> QED
    BY <1>2, <2>1, <2>5, Zenon
<1>5. CASE ExportDevs(x)
  <2>1. /\ loc' = [loc EXCEPT ![x] = [loc[x] EXCEPT !.devs = devs]]
        /\ UNCHANGED <<phase, stopped, pollers, latest>> /\ UNCHANGED dbVars
    BY <1>5 DEF ExportDevs, rest
  <2>2. loc'[x] = [loc[x] EXCEPT !.devs = devs]
    BY <1>1, <2>1
  <2>3. loc'[x].devs = devs /\ loc'[x].pts = loc[x].pts /\ IsLocals(loc'[x])
    BY <1>1, <2>2 DEF LocInv, IsLocals
  <2>4. LocInv(loc[x])'
    BY <1>1, <2>1, <2>3 DEF AcqInv, DbInv, LocInv, IsLocals, PointOf, dbVars
  <2> QED
    BY <1>2, <2>1, <2>4, Zenon
<1>6. CASE ExportPoints(x)
  <2> DEFINE left == DOMAIN loc[x].devs \ DOMAIN loc[x].pts
             d == Min(left)
  <2>1. UNCHANGED <<phase, stopped, pollers, latest>> /\ UNCHANGED dbVars
    BY <1>6 DEF ExportPoints, rest
  <2>2. CASE left # {} /\ loc' = [loc EXCEPT ![x] =
                [loc[x] EXCEPT !.pts = WithRow(loc[x].pts, d, ListByDevice(d))]]
    <3>1. d \in Nat
      <4>1. left \in SUBSET Nat
        BY <1>1 DEF LocInv
      <4> QED
        BY <2>2, <4>1, MinOfNaturals
    <3> HIDE DEF d
    <3>2. /\ loc'[x] = [loc[x] EXCEPT !.pts = WithRow(loc[x].pts, d, ListByDevice(d))]
          /\ DOMAIN loc' = Callers
      BY <1>1, <2>2
    <3>3. LocInv(loc[x])'
      BY <1>1, <2>1, <3>1, <3>2, Listed, PointsRead
    <3> QED
      BY <1>2, <2>1, <2>2, <3>3, Zenon
  <2>3. CASE loc' = [loc EXCEPT ![x] = NoLocals]
    <3>1. loc'[x] = NoLocals
      BY <1>1, <2>3
    <3>2. LocInv(loc[x])'
      BY <1>1, <3>1, ForgetLocals
    <3> QED
      BY <1>2, <2>1, <2>3, <3>2, Zenon
  <2> QED
    BY <1>6, <2>2, <2>3 DEF ExportPoints
<1>7. CASE ExportFails(x)
  <2>1. /\ loc' = [loc EXCEPT ![x] = NoLocals]
        /\ UNCHANGED <<phase, stopped, pollers, latest>>
    BY <1>7, Zenon DEF ExportFails, rest
  <2>2. loc'[x] = NoLocals
    BY <1>1, <2>1
  <2>3. LocInv(loc[x])'
    BY <1>1, <2>2, ForgetLocals
  <2> QED
    BY <1>2, <2>1, <2>3, Zenon
<1>8. CASE \E st \in Requests : OneStatement(x, st) \/ Look(x, st)
  BY <1>3, <1>8, Zenon DEF OneStatement, Write, Look, rest
<1>9. CASE AfterLook(x)
  BY <1>3, <1>9, Zenon DEF AfterLook, Write, rest
<1>10. CASE Import(x) \/ ImportGet(x) \/ ImportPut(x) \/ ImportDone(x)
  BY <1>3, <1>10, Zenon DEF Import, ImportGet, ImportPut, ImportDone, rest
<1> QED
  BY <1>4, <1>5, <1>6, <1>7, <1>8, <1>9, <1>10, Zenon DEF Handle

LEMMA Main_Inv ==
    ASSUME AcqInv, Serve \/ Stop \/ Shutdown \/ Wait
    PROVE  AcqInv'
<1>1. UNCHANGED dbVars /\ UNCHANGED <<loc, pollers, latest>>
  BY DEF Serve, Stop, Shutdown, Wait
<1>2. PhaseInv'
  BY DEF Serve, Stop, Shutdown, Wait, AcqInv, PhaseInv, QuietAfterWait
<1>3. \A p, d : PointOf(p, d)' = PointOf(p, d)
  BY <1>1 DEF PointOf, dbVars
<1>4. DbInv' /\ LatestInv'
  BY <1>1, <1>3 DEF AcqInv, DbInv, dbVars, LatestInv
<1>5. \A x \in Callers : LocInv(loc[x])'
  BY <1>1, <1>3 DEF AcqInv, LocInv, IsLocals
<1>6. \A s \in DOMAIN pollers : PollerInv(pollers[s])'
  BY <1>1, <1>3 DEF AcqInv, PollerInv, IsPoller
<1> QED
  BY <1>1, <1>2, <1>4, <1>5, <1>6 DEF AcqInv

LEMMA Restart_Inv == AcqInv /\ Restart => AcqInv'
<1> SUFFICES ASSUME AcqInv, Restart PROVE AcqInv'
  OBVIOUS
<1>1. DbInv'
  BY DEF Restart, AcqInv, DbInv, dbVars
<1>2. DOMAIN loc' = Callers /\ \A x \in Callers : loc'[x] = NoLocals
  BY DEF Restart
<1>3. \A x \in Callers : LocInv(loc[x])'
  BY <1>2, ForgetLocals
<1>4. DOMAIN pollers' = {} /\ DOMAIN latest' = {}
  BY DEF Restart
<1>5. PhaseInv'
  BY DEF Restart, PhaseInv, QuietAfterWait
<1> QED
  BY <1>1, <1>2, <1>3, <1>4, <1>5 DEF AcqInv, LatestInv

\* The invariant of the pollers holds throughout.
LEMMA AcqInvAlways == Spec => []AcqInv
<1>1. AcqInv /\ [Next]_vars => AcqInv'
  <2> SUFFICES ASSUME AcqInv, [Next]_vars PROVE AcqInv'
    OBVIOUS
  <2>1. CASE \E x \in Handlers : Handle(x)
    BY <2>1, Handle_Inv
  <2>2. CASE \E x \in Callers : Reload(x)
    BY <2>2, ReloadReads_Inv, ReloadApply_Inv DEF Reload
  <2>3. CASE \E s \in DOMAIN pollers : Poll(s)
    BY <2>3, Poll_Inv
  <2>4. CASE Serve \/ Stop \/ Shutdown \/ Wait
    BY <2>4, Main_Inv
  <2>5. CASE Restart
    BY <2>5, Restart_Inv
  <2>6. CASE UNCHANGED vars
    <3>1. UNCHANGED <<phase, stopped, pollers, latest, loc>>
      BY <2>6 DEF vars, acqVars
    <3> QED
      BY <3>1, Tables_Inv DEF AcqInv
  <2> QED
    BY <2>1, <2>2, <2>3, <2>4, <2>5, <2>6 DEF Next
<1> QED
  BY Init_AcqInv, <1>1, PTL DEF Spec

\* The Web UI's latest value of a data point comes from the point's own device
\* (LatestIsOwn), for every number of handlers and pollers, however Reload,
\* cancelled pollers, imports and deletions interleave.
THEOREM LatestComesFromItsDevice == Spec => []LatestIsOwn
BY AcqInvAlways, AcqInv_Goals, PTL

\* After Manager.Wait no poller is in the middle of a scan (QuietAfterWait), even if a
\* handler that outlived srv.Shutdown still reloads.
THEOREM WaitLeavesQuiet == Spec => []QuietAfterWait
BY AcqInvAlways, AcqInv_Goals, PTL

-----------------------------------------------------------------------------
(***************************************************************************)
(* What Reload has read, and what it makes of it.                          *)
(***************************************************************************)

\* Reload reads the points of devices it has read, on connections it has read.
SnapOK(x) ==
    /\ pc[x] = "reloadConns" => DOMAIN loc[x].pts = {}
    /\ pc[x] = "reloadPoints" =>
          \A d \in DOMAIN loc[x].pts :
              d \in DOMAIN loc[x].devs /\ loc[x].devs[d].conn \in DOMAIN loc[x].conns

\* As long as no statement has changed gateway.db, what it has read is current.
SnapCurrent(x) ==
    loc[x].since = version =>
        /\ pc[x] \in {"reloadConns", "reloadPoints"} => loc[x].devs = ListEnabled(devs)
        /\ pc[x] = "reloadPoints" =>
              /\ loc[x].conns = ListEnabled(conns)
              /\ \A d \in DOMAIN loc[x].pts : loc[x].pts[d] = ListEnabledByDevice(d)

SnapInv ==
    /\ version \in Nat /\ applied \in Int /\ applied <= version
    /\ DOMAIN pc = Callers /\ DOMAIN loc = Callers
    /\ \A x \in Callers : /\ loc[x].since \in Nat /\ loc[x].since <= version
                          /\ SnapOK(x) /\ SnapCurrent(x)

\* A statement that changes the tables counts as a new version.
LEMMA StepVersion ==
    ASSUME [Next]_vars
    PROVE  (UNCHANGED dbVars /\ version' = version) \/ version' = version + 1
<1>1. ASSUME NEW x \in Handlers, Handle(x)
      PROVE  (UNCHANGED dbVars /\ version' = version) \/ version' = version + 1
  <2>1. ASSUME NEW st, Write(x, st)
        PROVE  (UNCHANGED dbVars /\ version' = version) \/ version' = version + 1
    BY <2>1, Zenon DEF Write
  <2>2. CASE \E st \in Requests : OneStatement(x, st)
    BY <2>1, <2>2, Zenon DEF OneStatement
  <2>3. CASE \E st \in Requests : Look(x, st)
    BY <2>3, Zenon DEF Look
  <2>4. CASE AfterLook(x)
    BY <2>1, <2>4, Zenon DEF AfterLook
  <2>5. CASE ImportPut(x)
    BY <2>5, Zenon DEF ImportPut
  <2>6. CASE ExportConns(x) \/ ExportDevs(x) \/ ExportPoints(x) \/ ExportFails(x)
    BY <2>6, Zenon DEF ExportConns, ExportDevs, ExportPoints, ExportFails
  <2>7. CASE Import(x) \/ ImportGet(x) \/ ImportDone(x)
    BY <2>7, Zenon DEF Import, ImportGet, ImportDone
  <2> QED
    BY <1>1, <2>2, <2>3, <2>4, <2>5, <2>6, <2>7, Zenon DEF Handle
<1>2. ASSUME NEW x \in Callers, Reload(x) PROVE UNCHANGED dbVars /\ version' = version
  BY <1>2, Zenon DEF Reload, ReloadDevs, ReloadConns, ReloadPoints, ReloadFails, ReloadApply
<1>3. ASSUME NEW s, Poll(s) PROVE UNCHANGED dbVars /\ version' = version
  BY <1>3, Zenon DEF Poll
<1>4. CASE Serve \/ Stop \/ Shutdown \/ Wait
  BY <1>4, Zenon DEF Serve, Stop, Shutdown, Wait
<1>5. CASE Restart
  BY <1>5, Zenon DEF Restart
<1>6. CASE UNCHANGED vars
  BY <1>6 DEF vars, acqVars
<1> QED
  BY <1>1, <1>2, <1>3, <1>4, <1>5, <1>6, Zenon DEF Next

\* The queries give the same on the same tables.
LEMMA SameTables ==
    ASSUME UNCHANGED dbVars
    PROVE  /\ ListEnabled(devs)' = ListEnabled(devs) /\ ListEnabled(conns)' = ListEnabled(conns)
           /\ \A d : ListEnabledByDevice(d)' = ListEnabledByDevice(d)
           /\ \A d : ListByDevice(d)' = ListByDevice(d)
BY DEF dbVars, ListEnabled, ListEnabledByDevice, ListByDevice, Only

\* A caller that takes no step keeps what it has read.
LEMMA SnapStays ==
    ASSUME SnapInv, NEW x \in Callers, loc'[x] = loc[x], pc'[x] = pc[x],
           (UNCHANGED dbVars /\ version' = version) \/ version' = version + 1
    PROVE  /\ loc'[x].since \in Nat /\ loc'[x].since <= version'
           /\ SnapOK(x)' /\ SnapCurrent(x)'
<1>1. loc[x].since \in Nat /\ loc[x].since <= version /\ version \in Nat
  BY DEF SnapInv
<1>2. SnapOK(x)'
  BY DEF SnapInv, SnapOK
<1>3. CASE UNCHANGED dbVars /\ version' = version
  BY <1>1, <1>2, <1>3, SameTables DEF SnapInv, SnapCurrent
<1>4. CASE version' = version + 1
  BY <1>1, <1>2, <1>4 DEF SnapCurrent
<1> QED BY <1>3, <1>4

\* A caller that is not past the first query has nothing to keep.
LEMMA SnapStarts ==
    ASSUME NEW x \in Callers, pc'[x] \notin {"reloadConns", "reloadPoints"}
    PROVE  SnapOK(x)' /\ SnapCurrent(x)'
BY DEF SnapOK, SnapCurrent

\* A handler's step is its own, and it is none of Reload's.
LEMMA HandlerFrame ==
    ASSUME SnapInv, NEW x \in Handlers, Handle(x)
    PROVE  /\ DOMAIN pc' = Callers /\ DOMAIN loc' = Callers
           /\ pc'[x] \notin {"reloadConns", "reloadPoints"}
           /\ loc'[x].since \in {loc[x].since, version, 0}
           /\ \A y \in Callers \ {x} : pc'[y] = pc[y] /\ loc'[y] = loc[y]
           /\ UNCHANGED <<phase, stopped, running, applied, pollers, latest>>
<1>1. x \in Callers /\ DOMAIN pc = Callers /\ DOMAIN loc = Callers
  BY DEF SnapInv, Callers
<1>2. ASSUME NEW p \in {"idle", "write", "reloadDevs", "exportDevs", "exportPoints", "import",
                        "importPut"},
             pc' = [pc EXCEPT ![x] = p]
      PROVE  /\ DOMAIN pc' = Callers /\ pc'[x] \notin {"reloadConns", "reloadPoints"}
             /\ \A y \in Callers \ {x} : pc'[y] = pc[y]
  BY <1>1, <1>2
<1>3. ASSUME NEW l, loc' = [loc EXCEPT ![x] = l]
      PROVE  DOMAIN loc' = Callers /\ loc'[x] = l /\ \A y \in Callers \ {x} : loc'[y] = loc[y]
  BY <1>1, <1>3
<1>4. ASSUME NEW st, Write(x, st) PROVE /\ UNCHANGED <<rest, loc>>
                                        /\ \/ pc' = [pc EXCEPT ![x] = "reloadDevs"]
                                           \/ pc' = [pc EXCEPT ![x] = "idle"]
  BY <1>4, Zenon DEF Write
<1>5. CASE \E st \in Requests : OneStatement(x, st)
  BY <1>1, <1>2, <1>4, <1>5 DEF OneStatement, rest
<1>6. CASE AfterLook(x)
  BY <1>1, <1>2, <1>4, <1>6 DEF AfterLook, rest
<1>7. CASE \E st \in Requests : Look(x, st)
  BY <1>1, <1>2, <1>7 DEF Look, rest
<1>8. CASE ExportConns(x)
  <2>1. /\ loc' = [loc EXCEPT ![x] = [NoLocals EXCEPT !.since = version, !.conns = conns]]
        /\ UNCHANGED rest /\ pc' = [pc EXCEPT ![x] = "exportDevs"]
    BY <1>8 DEF ExportConns
  <2>2. loc'[x].since = version
    BY <1>3, <2>1, Zenon DEF NoLocals
  <2> QED BY <1>2, <1>3, <2>1, <2>2, Zenon DEF rest
<1>9. CASE ExportDevs(x)
  <2>1. /\ loc' = [loc EXCEPT ![x] = [loc[x] EXCEPT !.devs = devs]]
        /\ UNCHANGED rest /\ pc' = [pc EXCEPT ![x] = "exportPoints"]
    BY <1>9 DEF ExportDevs
  <2>2. loc'[x].since = loc[x].since
    BY <1>3, <2>1
  <2> QED BY <1>2, <1>3, <2>1, <2>2, Zenon DEF rest
<1>10. CASE ExportPoints(x)
  <2> DEFINE left == DOMAIN loc[x].devs \ DOMAIN loc[x].pts
             read == WithRow(loc[x].pts, Min(left), ListByDevice(Min(left)))
  <2>1. UNCHANGED rest /\ pc[x] = "exportPoints"
    BY <1>10 DEF ExportPoints
  <2>2. CASE loc' = [loc EXCEPT ![x] = [loc[x] EXCEPT !.pts = read]] /\ pc' = pc
    <3> HIDE DEF read
    <3>1. loc'[x].since = loc[x].since
      BY <1>3, <2>2
    <3> QED BY <1>1, <1>3, <2>1, <2>2, <3>1 DEF rest
  <2>3. CASE loc' = [loc EXCEPT ![x] = NoLocals] /\ pc' = [pc EXCEPT ![x] = "idle"]
    <3>1. loc'[x].since = 0
      BY <1>3, <2>3, Zenon DEF NoLocals
    <3> QED BY <1>2, <1>3, <2>1, <2>3, <3>1, Zenon DEF rest
  <2> QED BY <1>10, <2>2, <2>3 DEF ExportPoints
<1>11. CASE ExportFails(x)
  <2>1. /\ loc' = [loc EXCEPT ![x] = NoLocals]
        /\ UNCHANGED rest /\ pc' = [pc EXCEPT ![x] = "idle"]
    BY <1>11 DEF ExportFails
  <2>2. loc'[x].since = 0
    BY <1>3, <2>1, Zenon DEF NoLocals
  <2> QED BY <1>2, <1>3, <2>1, <2>2, Zenon DEF rest
<1>12. CASE Import(x)
  BY <1>1, <1>2, <1>12 DEF Import, rest
<1>13. CASE ImportGet(x)
  <2>1. /\ UNCHANGED <<rest, loc>>
        /\ (pc' = pc /\ pc[x] = "import") \/ pc' = [pc EXCEPT ![x] = "importPut"]
    BY <1>13, Zenon DEF ImportGet
  <2> QED BY <1>1, <1>2, <2>1 DEF rest
<1>14. CASE ImportPut(x)
  BY <1>1, <1>2, <1>14 DEF ImportPut, rest
<1>15. CASE ImportDone(x)
  BY <1>1, <1>2, <1>15 DEF ImportDone, rest
<1> QED
  BY <1>5, <1>6, <1>7, <1>8, <1>9, <1>10, <1>11, <1>12, <1>13, <1>14, <1>15, Zenon DEF Handle

\* Reload's queries: each is current when it is made.
LEMMA ReloadSnap ==
    ASSUME AcqInv, SnapInv, NEW x \in Callers,
           ReloadDevs(x) \/ ReloadConns(x) \/ ReloadPoints(x) \/ ReloadFails(x)
    PROVE  /\ DOMAIN pc' = Callers /\ DOMAIN loc' = Callers
           /\ loc'[x].since \in Nat /\ loc'[x].since <= version
           /\ SnapOK(x)' /\ SnapCurrent(x)'
           /\ \A y \in Callers \ {x} : pc'[y] = pc[y] /\ loc'[y] = loc[y]
           /\ UNCHANGED <<phase, stopped, running, applied, pollers, latest>>
           /\ UNCHANGED dbVars /\ version' = version
<1>1. /\ DOMAIN pc = Callers /\ DOMAIN loc = Callers /\ LocInv(loc[x])
      /\ loc[x].since \in Nat /\ loc[x].since <= version /\ version \in Nat
      /\ SnapOK(x) /\ SnapCurrent(x)
  BY Zenon DEF SnapInv, AcqInv
<1>2. ASSUME NEW p, NEW l, pc' = [pc EXCEPT ![x] = p], loc' = [loc EXCEPT ![x] = l]
      PROVE  /\ DOMAIN pc' = Callers /\ DOMAIN loc' = Callers /\ pc'[x] = p /\ loc'[x] = l
             /\ \A y \in Callers \ {x} : pc'[y] = pc[y] /\ loc'[y] = loc[y]
  BY <1>1, <1>2
<1>3. CASE ReloadDevs(x)
  <2>1. /\ loc' = [loc EXCEPT ![x] = [NoLocals EXCEPT !.since = version,
                                                      !.devs = ListEnabled(devs)]]
        /\ pc' = [pc EXCEPT ![x] = "reloadConns"]
        /\ UNCHANGED dbVars /\ UNCHANGED <<phase, stopped, mgrVars, pollers, latest, version>>
    BY <1>3 DEF ReloadDevs
  <2>2. loc'[x] = [NoLocals EXCEPT !.since = version, !.devs = ListEnabled(devs)]
    BY <1>2, <2>1, Zenon
  <2>3. /\ loc'[x].since = version /\ loc'[x].devs = ListEnabled(devs) /\ loc'[x].pts = <<>>
    BY <2>2 DEF NoLocals
  <2>4. DOMAIN loc'[x].pts = {}
    BY <2>3
  <2>5. SnapOK(x)' /\ SnapCurrent(x)'
    BY <1>1, <2>1, <2>3, <2>4, SameTables DEF SnapOK, SnapCurrent
  <2> QED BY <1>1, <1>2, <2>1, <2>3, <2>5 DEF mgrVars
<1>4. CASE ReloadConns(x)
  <2>1. /\ loc' = [loc EXCEPT ![x] = [loc[x] EXCEPT !.conns = ListEnabled(conns)]]
        /\ pc' = [pc EXCEPT ![x] = "reloadPoints"] /\ pc[x] = "reloadConns"
        /\ UNCHANGED dbVars /\ UNCHANGED <<phase, stopped, mgrVars, pollers, latest, version>>
    BY <1>4 DEF ReloadConns
  <2>2. loc'[x] = [loc[x] EXCEPT !.conns = ListEnabled(conns)] /\ pc'[x] = "reloadPoints"
    BY <1>2, <2>1, Zenon
  <2>3. /\ loc'[x].since = loc[x].since /\ loc'[x].devs = loc[x].devs
        /\ loc'[x].pts = loc[x].pts /\ loc'[x].conns = ListEnabled(conns)
    BY <1>1, <2>2 DEF LocInv, IsLocals
  <2>4. DOMAIN loc'[x].pts = {}
    BY <1>1, <2>1, <2>3 DEF SnapOK
  <2>5. SnapOK(x)' /\ SnapCurrent(x)'
    BY <1>1, <2>1, <2>2, <2>3, <2>4, SameTables DEF SnapOK, SnapCurrent
  <2> QED BY <1>1, <1>2, <2>1, <2>3, <2>5 DEF mgrVars
<1>5. CASE ReloadPoints(x)
  <2> DEFINE d == Min(ToRead(loc[x]))
             read == WithRow(loc[x].pts, d, ListEnabledByDevice(d))
  <2>1. /\ loc' = [loc EXCEPT ![x] = [loc[x] EXCEPT !.pts = read]] /\ pc' = pc
        /\ pc[x] = "reloadPoints" /\ ToRead(loc[x]) # {}
        /\ UNCHANGED dbVars /\ UNCHANGED <<phase, stopped, mgrVars, pollers, latest, version>>
    BY <1>5 DEF ReloadPoints
  <2>2. d \in DOMAIN loc[x].devs /\ loc[x].devs[d].conn \in DOMAIN loc[x].conns
    <3>1. ToRead(loc[x]) \in SUBSET Nat
      BY <1>1 DEF ToRead, LocInv
    <3>2. d \in ToRead(loc[x])
      BY <2>1, <3>1, MinOfNaturals
    <3> QED BY <3>2, Zenon DEF ToRead
  <2>3. /\ DOMAIN read = DOMAIN loc[x].pts \cup {d}
        /\ \A e \in DOMAIN read : read[e] = IF e = d THEN ListEnabledByDevice(d)
                                           ELSE loc[x].pts[e]
    BY DEF WithRow
  <2> HIDE DEF d, read
  <2>4. loc'[x] = [loc[x] EXCEPT !.pts = read]
    BY <1>1, <2>1
  <2>5. /\ loc'[x].since = loc[x].since /\ loc'[x].devs = loc[x].devs
        /\ loc'[x].conns = loc[x].conns /\ loc'[x].pts = read
    BY <1>1, <2>4 DEF LocInv, IsLocals
  <2>6. SnapOK(x)'
    BY <1>1, <2>1, <2>2, <2>3, <2>5 DEF SnapOK
  <2>7. SnapCurrent(x)'
    BY <1>1, <2>1, <2>3, <2>5, SameTables DEF SnapCurrent
  <2> QED BY <1>1, <2>1, <2>5, <2>6, <2>7 DEF mgrVars
<1>6. CASE ReloadFails(x)
  <2>1. /\ loc' = [loc EXCEPT ![x] = NoLocals] /\ pc' = [pc EXCEPT ![x] = "idle"]
        /\ UNCHANGED dbVars /\ UNCHANGED <<phase, stopped, mgrVars, pollers, latest, version>>
    BY <1>6 DEF ReloadFails
  <2>2. loc'[x].since = 0 /\ pc'[x] = "idle"
    BY <1>2, <2>1, Zenon DEF NoLocals
  <2>3. SnapOK(x)' /\ SnapCurrent(x)'
    <3>1. x \in Callers /\ pc'[x] \notin {"reloadConns", "reloadPoints"}
      BY <1>1, <2>2
    <3> QED BY <3>1, SnapStarts, Zenon
  <2>4. /\ DOMAIN pc' = Callers /\ DOMAIN loc' = Callers
        /\ \A y \in Callers \ {x} : pc'[y] = pc[y] /\ loc'[y] = loc[y]
    BY <1>2, <2>1, Zenon
  <2>5. loc'[x].since \in Nat /\ loc'[x].since <= version
    BY <1>1, <2>2
  <2>6. /\ UNCHANGED <<phase, stopped, running, applied, pollers, latest>>
        /\ UNCHANGED dbVars /\ version' = version
    BY <2>1, Zenon DEF mgrVars
  <2> QED BY <2>3, <2>4, <2>5, <2>6, Zenon
<1> QED BY <1>3, <1>4, <1>5, <1>6

\* A step of anyone leaves what Reload has read current or out of date.
LEMMA SnapStep == AcqInv /\ SnapInv /\ [Next]_vars => SnapInv'
<1> SUFFICES ASSUME AcqInv, SnapInv, [Next]_vars PROVE SnapInv'
  OBVIOUS
<1>1. version \in Nat /\ applied \in Int /\ applied <= version
  BY DEF SnapInv
<1>2. (UNCHANGED dbVars /\ version' = version) \/ version' = version + 1
  BY StepVersion
<1>3. version' \in Nat /\ version <= version'
  BY <1>1, <1>2
<1>4. \A y \in Callers : loc[y].since \in Nat /\ loc[y].since <= version
  BY DEF SnapInv
<1>5. ASSUME NEW x \in Callers, DOMAIN pc' = Callers, DOMAIN loc' = Callers,
             applied' \in Int, applied' <= version',
             loc'[x].since \in Nat, loc'[x].since <= version', SnapOK(x)', SnapCurrent(x)',
             \A y \in Callers \ {x} : pc'[y] = pc[y] /\ loc'[y] = loc[y]
      PROVE  SnapInv'
  <2>1. \A y \in Callers \ {x} : /\ loc'[y].since \in Nat /\ loc'[y].since <= version'
                                 /\ SnapOK(y)' /\ SnapCurrent(y)'
    BY <1>2, <1>5, SnapStays
  <2> QED BY <1>3, <1>5, <2>1 DEF SnapInv
<1>6. ASSUME UNCHANGED <<pc, loc, applied>> PROVE SnapInv'
  <2>1. DOMAIN pc' = Callers /\ DOMAIN loc' = Callers
    BY <1>6 DEF SnapInv
  <2>2. \A y \in Callers : /\ loc'[y].since \in Nat /\ loc'[y].since <= version'
                           /\ SnapOK(y)' /\ SnapCurrent(y)'
    BY <1>2, <1>6, SnapStays
  <2>3. applied' \in Int /\ applied' <= version'
    BY <1>1, <1>3, <1>6
  <2> QED BY <1>3, <2>1, <2>2, <2>3 DEF SnapInv
<1>7. CASE \E x \in Handlers : Handle(x)
  <2>1. PICK x \in Handlers : Handle(x)
    BY <1>7
  <2>2. x \in Callers
    BY DEF Callers
  <2>3. /\ DOMAIN pc' = Callers /\ DOMAIN loc' = Callers
        /\ pc'[x] \notin {"reloadConns", "reloadPoints"}
        /\ loc'[x].since \in {loc[x].since, version, 0}
        /\ \A y \in Callers \ {x} : pc'[y] = pc[y] /\ loc'[y] = loc[y]
        /\ applied' = applied
    BY <2>1, HandlerFrame
  <2>4. loc'[x].since \in Nat /\ loc'[x].since <= version'
    BY <1>1, <1>3, <1>4, <2>2, <2>3
  <2>5. applied' \in Int /\ applied' <= version'
    BY <1>1, <1>3, <2>3
  <2>6. SnapOK(x)' /\ SnapCurrent(x)'
    BY <2>2, <2>3, SnapStarts
  <2> QED BY <1>5, <2>2, <2>3, <2>4, <2>5, <2>6
<1>8. CASE \E x \in Callers : ReloadDevs(x) \/ ReloadConns(x) \/ ReloadPoints(x) \/ ReloadFails(x)
  <2>1. PICK x \in Callers : ReloadDevs(x) \/ ReloadConns(x) \/ ReloadPoints(x) \/ ReloadFails(x)
    BY <1>8
  <2>2. /\ DOMAIN pc' = Callers /\ DOMAIN loc' = Callers
        /\ loc'[x].since \in Nat /\ loc'[x].since <= version
        /\ SnapOK(x)' /\ SnapCurrent(x)'
        /\ \A y \in Callers \ {x} : pc'[y] = pc[y] /\ loc'[y] = loc[y]
        /\ applied' = applied /\ version' = version
    BY <2>1, ReloadSnap
  <2> QED BY <1>1, <1>5, <2>2
<1>9. CASE \E x \in Callers : ReloadApply(x)
  <2>1. PICK x \in Callers : ReloadApply(x)
    BY <1>9
  <2>2. /\ applied' = loc[x].since /\ version' = version
        /\ pc' = [pc EXCEPT ![x] = "idle"] /\ loc' = [loc EXCEPT ![x] = NoLocals]
    BY <2>1, Zenon DEF ReloadApply
  <2>3. /\ DOMAIN pc' = Callers /\ DOMAIN loc' = Callers /\ pc'[x] = "idle"
        /\ loc'[x] = NoLocals
        /\ \A y \in Callers \ {x} : pc'[y] = pc[y] /\ loc'[y] = loc[y]
    BY <2>2 DEF SnapInv
  <2>4. loc'[x].since = 0
    BY <2>3 DEF NoLocals
  <2>5. SnapOK(x)' /\ SnapCurrent(x)'
    BY <2>3, SnapStarts
  <2>6. applied' \in Int /\ applied' <= version'
    BY <1>4, <2>2
  <2> QED BY <1>3, <1>5, <2>3, <2>4, <2>5, <2>6
<1>10. CASE \E s \in DOMAIN pollers : Poll(s)
  BY <1>6, <1>10, Zenon DEF Poll, mgrVars
<1>11. CASE Serve \/ Stop \/ Shutdown \/ Wait
  BY <1>6, <1>11 DEF Serve, Stop, Shutdown, Wait, mgrVars
<1>12. CASE Restart
  <2>1. /\ pc' = [x \in Callers |-> IF x = Main THEN "reloadDevs" ELSE "idle"]
        /\ loc' = [x \in Callers |-> NoLocals] /\ applied' = -1
    BY <1>12 DEF Restart
  <2>2. \A x \in Callers : loc'[x].since = 0 /\ SnapOK(x)' /\ SnapCurrent(x)'
    BY <2>1, SnapStarts DEF NoLocals
  <2>3. applied' \in Int /\ applied' <= version'
    BY <1>3, <2>1
  <2> QED BY <1>3, <2>1, <2>2, <2>3 DEF SnapInv
<1>13. CASE UNCHANGED vars
  BY <1>6, <1>13 DEF vars, acqVars
<1> QED BY <1>7, <1>8, <1>9, <1>10, <1>11, <1>12, <1>13 DEF Next, Reload

LEMMA SnapInit == Init => SnapInv
<1> SUFFICES ASSUME Init PROVE SnapInv
  OBVIOUS
<1>1. /\ pc = [x \in Callers |-> IF x = Main THEN "reloadDevs" ELSE "idle"]
      /\ loc = [x \in Callers |-> NoLocals] /\ applied = -1 /\ version = 0
  BY DEF Init, AcqInit
<1>2. \A x \in Callers : loc[x].since = 0 /\ SnapOK(x) /\ SnapCurrent(x)
  BY <1>1, Zenon DEF NoLocals, SnapOK, SnapCurrent
<1> QED BY <1>1, <1>2 DEF SnapInv

\* Grouped looks at the devices it is given points of, and at nothing else.
LEMMA GroupedSame ==
    ASSUME NEW cs, NEW ds, NEW ps, NEW qs, DOMAIN ps = DOMAIN qs, \A d \in DOMAIN ps : ps[d] = qs[d]
    PROVE  Grouped(cs, ds, ps) = Grouped(cs, ds, qs)
<1>1. \A c : {e \in DOMAIN ps : ds[e].conn = c} = {e \in DOMAIN qs : ds[e].conn = c}
  OBVIOUS
<1>2. \A c : [d \in {e \in DOMAIN ps : ds[e].conn = c} |-> [dev |-> ds[d], pts |-> ps[d]]]
             = [d \in {e \in DOMAIN qs : ds[e].conn = c} |-> [dev |-> ds[d], pts |-> qs[d]]]
  BY <1>1, Zenon
<1> QED BY <1>2, Zenon DEF Grouped

\* A Reload that nothing has overtaken wants what the tables ask for.
LEMMA WantedIsDesired ==
    ASSUME AcqInv, SnapInv, NEW x \in Callers, pc[x] = "reloadPoints", ToRead(loc[x]) = {},
           loc[x].since = version
    PROVE  Grouped(loc[x].conns, loc[x].devs, loc[x].pts) = Desired
<1> DEFINE l == loc[x]
           ds == ListEnabled(devs)
           cs == ListEnabled(conns)
           on == {d \in DOMAIN ds : ds[d].conn \in DOMAIN cs}
           qs == [d \in on |-> ListEnabledByDevice(d)]
<1>1. /\ l.devs = ds /\ l.conns = cs
      /\ \A d \in DOMAIN l.pts : l.pts[d] = ListEnabledByDevice(d)
      /\ \A d \in DOMAIN l.pts : d \in DOMAIN l.devs /\ l.devs[d].conn \in DOMAIN l.conns
  BY DEF SnapInv, SnapCurrent, SnapOK
<1>2. \A d \in DOMAIN l.devs : l.devs[d].conn \in DOMAIN l.conns => d \in DOMAIN l.pts
  BY DEF ToRead
<1> HIDE DEF ds, cs, l
<1>3. DOMAIN l.pts = on
  BY <1>1, <1>2
<1>4. DOMAIN l.pts = DOMAIN qs /\ \A d \in DOMAIN l.pts : l.pts[d] = qs[d]
  BY <1>1, <1>3
<1> HIDE DEF qs
<1>5. Grouped(cs, ds, l.pts) = Grouped(cs, ds, qs)
  BY <1>4, GroupedSame
<1>6. Desired = Grouped(cs, ds, qs)
  BY DEF Desired, qs, cs, ds
<1>7. Grouped(loc[x].conns, loc[x].devs, loc[x].pts) = Grouped(cs, ds, l.pts)
  BY <1>1 DEF l
<1> QED BY <1>5, <1>6, <1>7

\* What Reload runs is what it wants: an entry it keeps says the same.
LEMMA RunsWanted ==
    ASSUME NEW x \in Callers, ReloadApply(x)
    PROVE  [c \in DOMAIN running' |-> [conn |-> running'[c].conn, devices |-> running'[c].devices]]
              = Grouped(loc[x].conns, loc[x].devs, loc[x].pts)
<1> DEFINE wanted == Grouped(loc[x].conns, loc[x].devs, loc[x].pts)
           kept == Kept(wanted)
           new == DOMAIN wanted \ kept
           free == Slots \ (DOMAIN pollers \cup {running[c].slot : c \in DOMAIN running})
           slot == CHOOSE f \in Injections(new, free) : TRUE
<1>1. running' = [c \in DOMAIN wanted |->
                    IF c \in kept THEN running[c]
                    ELSE [slot |-> slot[c], conn |-> wanted[c].conn,
                          devices |-> wanted[c].devices]]
  BY Zenon DEF ReloadApply
<1>2. \A c \in kept : running[c].conn = wanted[c].conn /\ running[c].devices = wanted[c].devices
  BY Zenon DEF Kept
<1>3. /\ wanted = [c \in DOMAIN wanted |-> wanted[c]]
      /\ \A c \in DOMAIN wanted :
            wanted[c] = [conn |-> wanted[c].conn, devices |-> wanted[c].devices]
  BY Zenon DEF Grouped
<1> HIDE DEF wanted, kept, slot
<1>4. /\ DOMAIN running' = DOMAIN wanted
      /\ \A c \in DOMAIN wanted : running'[c].conn = wanted[c].conn
                                  /\ running'[c].devices = wanted[c].devices
  BY <1>1, <1>2, Zenon
<1>5. [c \in DOMAIN running' |-> [conn |-> running'[c].conn, devices |-> running'[c].devices]]
        = [c \in DOMAIN wanted |-> [conn |-> wanted[c].conn, devices |-> wanted[c].devices]]
  BY <1>4
<1>6. [c \in DOMAIN wanted |-> [conn |-> wanted[c].conn, devices |-> wanted[c].devices]] = wanted
  BY <1>3, Zenon
<1> QED BY <1>5, <1>6 DEF wanted

LEMMA SameDesired ==
    ASSUME UNCHANGED dbVars
    PROVE  Desired' = Desired
<1> DEFINE ds == ListEnabled(devs)
           on == {d \in DOMAIN ds : ds[d].conn \in DOMAIN ListEnabled(conns)}
           ps == [d \in on |-> ListEnabledByDevice(d)]
<1>1. ListEnabled(devs)' = ListEnabled(devs) /\ ListEnabled(conns)' = ListEnabled(conns)
  BY SameTables, Zenon
<1>2. on' = on
  BY <1>1, Zenon
<1>3. ps' = ps
  <2>1. \A d : ListEnabledByDevice(d)' = ListEnabledByDevice(d)
    BY SameTables, Zenon
  <2> HIDE DEF on
  <2> QED BY <1>2, <2>1, Zenon
<1>4. Desired = Grouped(ListEnabled(conns), ListEnabled(devs), ps)
  BY Zenon DEF Desired
<1>5. Desired' = Grouped(ListEnabled(conns)', ListEnabled(devs)', ps')
  BY Zenon DEF Desired, Grouped
<1> HIDE DEF ps
<1> QED BY <1>1, <1>3, <1>4, <1>5, Zenon

\* Only Reload, when it has read all, touches Manager.running.
LEMMA StepManager ==
    ASSUME SnapInv, AcqInv, [Next]_vars
    PROVE  \/ UNCHANGED <<running, applied>>
           \/ \E x \in Callers : ReloadApply(x)
           \/ Restart
<1>1. CASE \E x \in Handlers : Handle(x)
  BY <1>1, HandlerFrame
<1>2. CASE \E x \in Callers : ReloadDevs(x) \/ ReloadConns(x) \/ ReloadPoints(x) \/ ReloadFails(x)
  BY <1>2, ReloadSnap, Zenon
<1>3. CASE \E s \in DOMAIN pollers : Poll(s)
  BY <1>3, Zenon DEF Poll, mgrVars
<1>4. CASE Serve \/ Stop \/ Shutdown \/ Wait
  BY <1>4 DEF Serve, Stop, Shutdown, Wait, mgrVars
<1>5. CASE UNCHANGED vars
  BY <1>5 DEF vars, acqVars
<1> QED BY <1>1, <1>2, <1>3, <1>4, <1>5 DEF Next, Reload

\* Reload makes the running set match the configuration (ReloadedMatches), for every
\* number of rows and callers of Reload, however their statements interleave: what is
\* applied is what the tables ask for unless they changed after its first query.
THEOREM ReloadMatches == Spec => []ReloadedMatches
<1>1. Init => ReloadedMatches
  BY DEF Init, AcqInit, ReloadedMatches
<1>2. AcqInv /\ SnapInv /\ ReloadedMatches /\ [Next]_vars => ReloadedMatches'
  <2> SUFFICES ASSUME AcqInv, SnapInv, ReloadedMatches, [Next]_vars, applied' = version'
               PROVE  [c \in DOMAIN running' |->
                         [conn |-> running'[c].conn, devices |-> running'[c].devices]] = Desired'
    BY DEF ReloadedMatches
  <2>1. version \in Nat /\ applied \in Int /\ applied <= version
    BY DEF SnapInv
  <2>2. (UNCHANGED dbVars /\ version' = version) \/ version' = version + 1
    BY StepVersion
  <2>3. CASE UNCHANGED <<running, applied>>
    <3>1. UNCHANGED dbVars /\ version' = version
      BY <2>1, <2>2, <2>3
    <3> QED BY <2>3, <3>1, SameDesired, Zenon DEF ReloadedMatches
  <2>4. ASSUME NEW x \in Callers, ReloadApply(x)
        PROVE  [c \in DOMAIN running' |->
                  [conn |-> running'[c].conn, devices |-> running'[c].devices]] = Desired'
    <3>1. /\ applied' = loc[x].since /\ UNCHANGED dbVars /\ version' = version
          /\ pc[x] = "reloadPoints" /\ ToRead(loc[x]) = {}
      BY <2>4, Zenon DEF ReloadApply
    <3> QED BY <2>4, <3>1, RunsWanted, WantedIsDesired, SameDesired, Zenon
  <2>5. CASE Restart
    BY <2>1, <2>2, <2>5 DEF Restart
  <2> QED BY <2>3, <2>4, <2>5, StepManager
<1> QED BY <1>1, <1>2, AcqInvAlways, SnapInit, SnapStep, PTL DEF Spec

-----------------------------------------------------------------------------
(***************************************************************************)
(* Manager.running and the goroutines.                                     *)
(***************************************************************************)

IsImport(i) ==
    i = [file |-> i.file, conns |-> i.conns, map |-> i.map, devs |-> i.devs, dev |-> i.dev,
         as |-> i.as, pts |-> i.pts, found |-> i.found, start |-> i.start, alone |-> i.alone]

\* A poller must not find its connection invalid, for then it returns and its entry stays.
\* No invalid connection gets into gateway.db: the requests that write one are validated,
\* and so is a file before it is imported.
ValidConns(t) == \A c \in DOMAIN t : c \in Nat /\ Validate(t[c])
ImportValid(i) ==
    IsImport(i) /\ i.conns \subseteq Nat /\ \A c \in i.conns : Validate(i.file.conns[c])
ValidInv ==
    /\ ValidConns(conns)
    /\ DOMAIN file.conns \subseteq Nat
    /\ \A x \in Callers : ValidConns(loc[x].conns)
    /\ DOMAIN req = Handlers /\ \A x \in Handlers : pc[x] = "write" => Looks(req[x].op)
    /\ DOMAIN imp = Handlers /\ \A x \in Handlers : ImportValid(imp[x])
    /\ \A x \in Handlers : pc[x] = "importPut" => Item(imp[x]) # "none"
    /\ \A s \in DOMAIN pollers : Validate(pollers[s].conn)

\* A statement writes a valid connection or none.
Harmless(st) == st.op \in {"createConnection", "updateConnection"} => Validate(st.row)

LEMMA ExecValid ==
    ASSUME ValidConns(conns), NEW st, Harmless(st), Exec(st)
    PROVE  ValidConns(conns)'
<1>1. Accepts(st)
  BY DEF Exec
<1>2. CASE st.op = "createConnection" /\ CreateConnection(st.row)
  <2>1. NewConnId \in Nat
    BY <1>1, <1>2 DEF Accepts, IdsLeft, ConnIds
  <2>2. DOMAIN conns' = DOMAIN conns \cup {NewConnId}
        /\ \A c \in DOMAIN conns' : conns'[c] = IF c = NewConnId THEN st.row ELSE conns[c]
    BY <1>2 DEF CreateConnection, WithRow
  <2> QED BY <1>2, <2>1, <2>2, Zenon DEF ValidConns, Harmless
<1>3. CASE st.op = "updateConnection" /\ UpdateConnection(st.id, st.row)
  <2>1. st.id \in DOMAIN conns
    BY <1>1, <1>3, Zenon DEF Accepts, RowsAffected, OnConnection
  <2>2. DOMAIN conns' = DOMAIN conns
        /\ \A c \in DOMAIN conns' : conns'[c] = IF c = st.id THEN st.row ELSE conns[c]
    BY <1>3, <2>1 DEF UpdateConnection, WithRow
  <2> QED BY <1>3, <2>1, <2>2, Zenon DEF ValidConns, Harmless
<1>4. CASE st.op = "deleteConnection" /\ DeleteConnection(st.id)
  BY <1>4 DEF DeleteConnection, Without, ValidConns
<1>5. CASE conns' = conns
  BY <1>5 DEF ValidConns
<1> QED
  BY <1>2, <1>3, <1>4, <1>5, Zenon DEF Exec, CreateDevice, UpdateDevice, DeleteDevice,
     CreateDataPoint, UpdateDataPoint, DeleteDataPoint

\* What an import is asked to write of a valid file is valid.
LEMMA ImportHarmless ==
    ASSUME NEW i, ImportValid(i), Item(i) # "none"
    PROVE  Harmless(Statement(i))
<1>1. CASE Item(i) = "connection"
  <2>1. i.conns # {} /\ i.conns \in SUBSET Nat
    BY <1>1 DEF Item, ImportValid
  <2>2. Min(i.conns) \in i.conns
    BY <2>1, MinOfNaturals
  <2>3. Statement(i).row = i.file.conns[Min(i.conns)]
    BY <1>1 DEF Statement
  <2> QED BY <2>2, <2>3 DEF Harmless, ImportValid
<1>2. CASE Item(i) = "point"
  <2>1. Statement(i).op \in {"updateDataPoint", "createDataPoint"}
    BY <1>2 DEF Statement
  <2> QED BY <2>1 DEF Harmless
<1>3. CASE Item(i) = "device"
  <2>1. Statement(i).op \in {"updateDevice", "createDevice"}
    BY <1>3 DEF Statement
  <2> QED BY <2>1 DEF Harmless
<1> QED BY <1>1, <1>2, <1>3 DEF Item

\* The list of connections to import only gets shorter.
LEMMA ImportGoesOn ==
    ASSUME NEW i, ImportValid(i), Item(i) # "none"
    PROVE  /\ ImportValid(Skip(i)) /\ \A id : ImportValid(Written(i, id))
           /\ \A b : ImportValid([i EXCEPT !.found = b])
           /\ \A j, a : ImportValid(j) => ImportValid([j EXCEPT !.alone = a])
<1>1. \A j, S : ImportValid(j) /\ S \subseteq j.conns => ImportValid([j EXCEPT !.conns = S])
  BY DEF ImportValid, IsImport
<1>2. \A j, S : ImportValid(j) => /\ ImportValid([j EXCEPT !.pts = S])
                                  /\ ImportValid([j EXCEPT !.devs = S])
                                  /\ ImportValid([j EXCEPT !.map = S])
                                  /\ ImportValid([j EXCEPT !.dev = S])
                                  /\ ImportValid([j EXCEPT !.as = S])
                                  /\ ImportValid([j EXCEPT !.found = S])
                                  /\ ImportValid([j EXCEPT !.alone = S])
  BY DEF ImportValid, IsImport
<1>3. ImportValid(Skip(i))
  <2>1. CASE Item(i) = "connection"
    BY <1>1, <2>1 DEF Skip
  <2>2. CASE Item(i) = "point"
    BY <1>2, <2>2, Zenon DEF Skip
  <2>3. CASE Item(i) = "device"
    BY <1>2, <2>3, Zenon DEF Skip
  <2> QED BY <2>1, <2>2, <2>3 DEF Item
<1>4. ASSUME NEW id PROVE ImportValid(Written(i, id))
  <2>1. CASE Item(i) = "connection"
    BY <1>2, <1>3, <2>1, Zenon DEF Written
  <2>2. CASE Item(i) = "point"
    BY <1>3, <2>2 DEF Written
  <2>3. CASE Item(i) = "device"
    BY <1>2, <1>3, <2>3, Zenon DEF Written
  <2> QED BY <2>1, <2>2, <2>3 DEF Item
<1> QED BY <1>2, <1>3, <1>4, Zenon

\* What a handler's step needs to keep of this: the rest is not its own.
LEMMA HandlerValid ==
    ASSUME ValidInv, SnapInv, NEW x \in Handlers, Handle(x), ValidConns(conns)',
           DOMAIN file'.conns \subseteq Nat, ValidConns(loc[x].conns)',
           DOMAIN req' = Handlers, DOMAIN imp' = Handlers,
           \A y \in Handlers \ {x} : req'[y] = req[y] /\ imp'[y] = imp[y],
           pc'[x] = "write" => Looks(req'[x].op), ImportValid(imp[x])',
           pc'[x] = "importPut" => Item(imp'[x]) # "none"
    PROVE  ValidInv'
<1>1. /\ \A y \in Callers \ {x} : pc'[y] = pc[y] /\ loc'[y] = loc[y]
      /\ UNCHANGED <<phase, stopped, running, applied, pollers, latest>>
  BY HandlerFrame, Zenon
<1>2. \A y \in Callers : ValidConns(loc[y].conns)'
  BY <1>1, Zenon DEF ValidInv, ValidConns
<1>3. \A y \in Handlers \ {x} : /\ pc'[y] = "write" => Looks(req'[y].op)
                                /\ ImportValid(imp[y])'
                                /\ pc'[y] = "importPut" => Item(imp'[y]) # "none"
  <2>1. \A y \in Handlers \ {x} : pc'[y] = pc[y] /\ req'[y] = req[y] /\ imp'[y] = imp[y]
    BY <1>1, Zenon DEF Callers
  <2> QED BY <2>1, Zenon DEF ValidInv, ImportValid, IsImport
<1>4. \A s \in DOMAIN pollers' : Validate(pollers'[s].conn)
  BY <1>1, Zenon DEF ValidInv
<1> QED BY <1>2, <1>3, <1>4 DEF ValidInv

LEMMA HandleKeepsValid ==
    ASSUME ValidInv, SnapInv, AcqInv, NEW x \in Handlers, Handle(x)
    PROVE  ValidInv'
<1>1. /\ x \in Callers /\ DOMAIN pc = Callers /\ DOMAIN loc = Callers
      /\ DOMAIN req = Handlers /\ DOMAIN imp = Handlers
      /\ ValidConns(conns) /\ DOMAIN file.conns \subseteq Nat /\ ValidConns(loc[x].conns)
      /\ ImportValid(imp[x]) /\ IsLocals(loc[x])
  BY Zenon DEF SnapInv, ValidInv, Callers, AcqInv, LocInv
<1>2. UNCHANGED conns => ValidConns(conns)'
  BY <1>1 DEF ValidConns
<1>3. UNCHANGED loc => ValidConns(loc[x].conns)'
  BY <1>1 DEF ValidConns
<1>4. UNCHANGED imp => ImportValid(imp[x])'
  BY <1>1, Zenon DEF ImportValid, IsImport
<1>5. ValidConns(NoLocals.conns)
  <2>1. DOMAIN NoLocals.conns = {}
    BY DEF NoLocals
  <2> QED BY <2>1 DEF ValidConns
<1>6. ASSUME NEW p, pc' = [pc EXCEPT ![x] = p] PROVE pc'[x] = p
  BY <1>1, <1>6, Zenon
<1>7. ASSUME NEW st, Harmless(st), Write(x, st) PROVE ValidInv'
  <2>1. /\ req' = [req EXCEPT ![x] = NoReq] /\ UNCHANGED <<rest, loc, imp, file>>
        /\ Exec(st) \/ UNCHANGED conns
        /\ pc' = [pc EXCEPT ![x] = "reloadDevs"] \/ pc' = [pc EXCEPT ![x] = "idle"]
    BY <1>7, Zenon DEF Write, dbVars
  <2>2. ValidConns(conns)'
    BY <1>1, <1>2, <1>7, <2>1, ExecValid, Zenon
  <2>3. pc'[x] \notin {"write", "importPut"}
    BY <1>6, <2>1, Zenon
  <2> QED BY <1>1, <1>3, <1>4, <2>1, <2>2, <2>3, HandlerValid
<1>8. CASE \E st \in Requests : OneStatement(x, st)
  <2>1. PICK st \in Requests : OneStatement(x, st)
    BY <1>8
  <2>2. Harmless(st)
    BY <2>1 DEF OneStatement, Receives, Harmless
  <2> QED BY <1>7, <2>1, <2>2 DEF OneStatement
<1>9. CASE AfterLook(x)
  <2>1. Harmless(req[x])
    BY <1>9 DEF AfterLook, ValidInv, Looks, Harmless
  <2> QED BY <1>7, <1>9, <2>1 DEF AfterLook
<1>10. CASE \E st \in Requests : Look(x, st)
  <2>1. PICK st \in Requests : Look(x, st)
    BY <1>10
  <2>2. /\ req' = [req EXCEPT ![x] = st] /\ pc' = [pc EXCEPT ![x] = "write"] /\ Looks(st.op)
        /\ UNCHANGED <<conns, loc, imp, file>>
    BY <2>1 DEF Look, dbVars
  <2>3. pc'[x] = "write" /\ req'[x] = st
    BY <1>1, <2>2, Zenon
  <2> QED BY <1>1, <1>2, <1>3, <1>4, <2>2, <2>3, HandlerValid, Zenon
<1>11. CASE ExportConns(x)
  <2>1. /\ loc' = [loc EXCEPT ![x] = [NoLocals EXCEPT !.since = version, !.conns = conns]]
        /\ pc' = [pc EXCEPT ![x] = "exportDevs"] /\ UNCHANGED <<conns, req, imp, file>>
    BY <1>11 DEF ExportConns, dbVars
  <2>2. loc'[x].conns = conns
    BY <1>1, <2>1, Zenon DEF NoLocals
  <2>3. ValidConns(loc[x].conns)'
    BY <1>1, <2>2 DEF ValidConns
  <2>4. pc'[x] = "exportDevs"
    BY <1>6, <2>1, Zenon
  <2> QED BY <1>1, <1>2, <1>4, <2>1, <2>3, <2>4, HandlerValid
<1>12. CASE ExportDevs(x)
  <2>1. /\ loc' = [loc EXCEPT ![x] = [loc[x] EXCEPT !.devs = devs]]
        /\ pc' = [pc EXCEPT ![x] = "exportPoints"] /\ UNCHANGED <<conns, req, imp, file>>
    BY <1>12 DEF ExportDevs, dbVars
  <2>2. loc'[x].conns = loc[x].conns
    BY <1>1, <2>1 DEF IsLocals
  <2>3. ValidConns(loc[x].conns)'
    BY <1>1, <2>2 DEF ValidConns
  <2>4. pc'[x] = "exportPoints"
    BY <1>6, <2>1, Zenon
  <2> QED BY <1>1, <1>2, <1>4, <2>1, <2>3, <2>4, HandlerValid
<1>13. CASE ExportPoints(x)
  <2> DEFINE left == DOMAIN loc[x].devs \ DOMAIN loc[x].pts
             read == WithRow(loc[x].pts, Min(left), ListByDevice(Min(left)))
             made == AsFile(loc[x], IF loc[x].since = version THEN version ELSE -1)
  <2>1. UNCHANGED <<conns, req, imp>> /\ pc[x] = "exportPoints"
    BY <1>13 DEF ExportPoints, dbVars
  <2>2. CASE loc' = [loc EXCEPT ![x] = [loc[x] EXCEPT !.pts = read]] /\ UNCHANGED <<pc, file>>
    <3> HIDE DEF read
    <3>1. loc'[x].conns = loc[x].conns
      BY <1>1, <2>2, Zenon DEF IsLocals
    <3>2. ValidConns(loc[x].conns)'
      BY <1>1, <3>1 DEF ValidConns
    <3> QED BY <1>1, <1>2, <1>4, <2>1, <2>2, <3>2, HandlerValid
  <2>3. CASE /\ loc' = [loc EXCEPT ![x] = NoLocals] /\ pc' = [pc EXCEPT ![x] = "idle"]
             /\ file' = made
    <3>1. file'.conns = loc[x].conns
      BY <2>3, Zenon DEF AsFile
    <3>2. DOMAIN file'.conns \subseteq Nat
      BY <1>1, <3>1, Zenon DEF ValidConns
    <3>3. loc'[x] = NoLocals /\ pc'[x] = "idle"
      BY <1>1, <2>3
    <3>4. ValidConns(loc[x].conns)'
      BY <1>5, <3>3 DEF ValidConns
    <3> QED BY <1>1, <1>2, <1>4, <2>1, <3>2, <3>3, <3>4, HandlerValid
  <2> QED BY <1>13, <2>2, <2>3 DEF ExportPoints
<1>14. CASE ExportFails(x)
  <2>1. /\ loc' = [loc EXCEPT ![x] = NoLocals] /\ pc' = [pc EXCEPT ![x] = "idle"]
        /\ UNCHANGED <<conns, req, imp, file>>
    BY <1>14 DEF ExportFails, dbVars
  <2>2. loc'[x] = NoLocals /\ pc'[x] = "idle"
    BY <1>1, <2>1, Zenon
  <2>3. ValidConns(loc[x].conns)'
    BY <1>5, <2>2 DEF ValidConns
  <2> QED BY <1>1, <1>2, <1>4, <2>1, <2>2, <2>3, HandlerValid, Zenon
<1>15. ASSUME NEW i, imp' = [imp EXCEPT ![x] = i], ImportValid(i), ValidConns(conns)',
              UNCHANGED <<req, loc, file>>, pc'[x] # "write",
              pc'[x] = "importPut" => Item(i) # "none"
       PROVE  ValidInv'
  <2>1. /\ DOMAIN imp' = Handlers /\ imp'[x] = i
        /\ \A y \in Handlers \ {x} : imp'[y] = imp[y]
    BY <1>1, <1>15, Zenon
  <2>2. ImportValid(imp[x])'
    BY <1>15, <2>1 DEF ImportValid, IsImport
  <2> QED BY <1>1, <1>3, <1>15, <2>1, <2>2, HandlerValid, Zenon
<1>16. CASE Import(x)
  <2> DEFINE a == [NoImport EXCEPT !.file = file]
             b == [a EXCEPT !.conns = DOMAIN file.conns]
             c == [b EXCEPT !.devs = DOMAIN file.devs]
             d == [c EXCEPT !.start = version]
             i == [d EXCEPT !.alone = version]
  <2>1. /\ imp' = [imp EXCEPT ![x] = i] /\ pc' = [pc EXCEPT ![x] = "import"] /\ Valid(file)
        /\ UNCHANGED <<conns, req, loc, file>>
    BY <1>16 DEF Import, dbVars
  <2>2. IsImport(NoImport)
    BY Zenon DEF NoImport, IsImport
  <2>3. IsImport(a) /\ a.file = file
    BY <2>2 DEF IsImport
  <2> HIDE DEF a
  <2>4. IsImport(b) /\ b.file = file /\ b.conns = DOMAIN file.conns
    BY <2>3 DEF IsImport
  <2> HIDE DEF b
  <2>5. IsImport(c) /\ c.file = file /\ c.conns = DOMAIN file.conns
    BY <2>4 DEF IsImport
  <2> HIDE DEF c
  <2>6. IsImport(d) /\ d.file = file /\ d.conns = DOMAIN file.conns
    BY <2>5 DEF IsImport
  <2> HIDE DEF d
  <2>7. IsImport(i) /\ i.file = file /\ i.conns = DOMAIN file.conns
    BY <2>6 DEF IsImport
  <2> HIDE DEF i
  <2>8. ImportValid(i)
    BY <1>1, <2>1, <2>7, Zenon DEF ImportValid, Valid
  <2> QED BY <1>2, <1>6, <1>15, <2>1, <2>8, Zenon
<1>17. CASE ImportGet(x)
  <2>1. Item(imp[x]) # "none" /\ pc[x] = "import" /\ UNCHANGED <<conns, req, loc, file>>
    BY <1>17 DEF ImportGet, dbVars
  <2>2. CASE imp' = [imp EXCEPT ![x] = Skip(imp[x])] /\ pc' = pc
    BY <1>1, <1>2, <1>15, <2>1, <2>2, ImportGoesOn, Zenon
  <2>3. ASSUME NEW i, ImportValid(i), Item(i) = Item(imp[x]), imp' = [imp EXCEPT ![x] = i],
               pc' = [pc EXCEPT ![x] = "importPut"]
        PROVE  ValidInv'
    BY <1>2, <1>6, <1>15, <2>1, <2>3, Zenon
  <2>4. ASSUME NEW b, imp' = [imp EXCEPT ![x] = [imp[x] EXCEPT !.found = b]],
               pc' = [pc EXCEPT ![x] = "importPut"]
        PROVE  ValidInv'
    <3> DEFINE i == [imp[x] EXCEPT !.found = b]
    <3>1. i.conns = imp[x].conns /\ i.pts = imp[x].pts /\ i.devs = imp[x].devs
      BY <1>1 DEF ImportValid, IsImport
    <3>2. Item(i) = Item(imp[x])
      BY <3>1 DEF Item
    <3>3. ImportValid(i)
      BY <1>1, <2>1, ImportGoesOn
    <3> QED BY <2>3, <2>4, <3>2, <3>3, Zenon
  <2>5. CASE /\ imp' = [imp EXCEPT ![x].found = FALSE, ![x].alone = -1]
             /\ pc' = [pc EXCEPT ![x] = "importPut"]
    <3>0. PICK n : n = FALSE
      BY Zenon
    <3> DEFINE j == [imp[x] EXCEPT !.found = n]
               i == [j EXCEPT !.alone = -1]
    <3>1. imp' = [imp EXCEPT ![x] = i]
      BY <1>1, <2>5, <3>0, Zenon
    <3>2. ImportValid(j) /\ j.conns = imp[x].conns /\ j.pts = imp[x].pts /\ j.devs = imp[x].devs
      <4>1. ImportValid(j)
        BY <1>1, <2>1, ImportGoesOn
      <4>2. IsImport(imp[x])
        BY <1>1 DEF ImportValid
      <4> QED BY <4>1, <4>2 DEF IsImport
    <3> HIDE DEF j
    <3>3. ImportValid(i) /\ i.conns = imp[x].conns /\ i.pts = imp[x].pts /\ i.devs = imp[x].devs
      BY <1>1, <2>1, <3>2, ImportGoesOn DEF ImportValid, IsImport
    <3>4. Item(i) = Item(imp[x])
      BY <3>3 DEF Item
    <3> QED BY <2>3, <2>5, <3>1, <3>3, <3>4, Zenon
  <2> QED BY <1>17, <2>2, <2>4, <2>5 DEF ImportGet
<1>18. CASE ImportPut(x)
  <2> DEFINE i == imp[x]
             st == Statement(i)
  <2>1. /\ Item(i) # "none" /\ pc' = [pc EXCEPT ![x] = "import"] /\ UNCHANGED <<req, loc, file>>
    BY <1>18 DEF ImportPut, ValidInv
  <2>2. ValidConns(conns)'
    <3>1. Exec(st) \/ UNCHANGED conns
      BY <1>18 DEF ImportPut, dbVars
    <3>2. Harmless(st)
      BY <1>1, <2>1, ImportHarmless
    <3> HIDE DEF st
    <3> QED BY <1>1, <1>2, <3>1, <3>2, ExecValid
  <2>3. PICK j, a : /\ ImportValid(j)
                    /\ \/ imp' = [imp EXCEPT ![x] = j]
                       \/ imp' = [imp EXCEPT ![x] = [j EXCEPT !.alone = a]]
    <3>1. ImportValid(Skip(i)) /\ ImportValid(Written(i, IdOf(st)))
      BY <1>1, <2>1, ImportGoesOn
    <3> QED BY <1>18, <3>1 DEF ImportPut
  <2>4. ImportValid([j EXCEPT !.alone = a])
    BY <1>1, <2>1, <2>3, ImportGoesOn, Zenon
  <2> QED BY <1>6, <1>15, <2>1, <2>2, <2>3, <2>4, Zenon
<1>19. CASE ImportDone(x)
  <2>1. /\ imp' = [imp EXCEPT ![x] = NoImport] /\ pc' = [pc EXCEPT ![x] = "reloadDevs"]
        /\ UNCHANGED <<conns, req, loc, file>>
    BY <1>19 DEF ImportDone, dbVars
  <2>2. ImportValid(NoImport)
    BY Zenon DEF NoImport, ImportValid, IsImport
  <2> QED BY <1>2, <1>6, <1>15, <2>1, <2>2, Zenon
<1> QED
  BY <1>8, <1>9, <1>10, <1>11, <1>12, <1>13, <1>14, <1>16, <1>17, <1>18, <1>19, Zenon DEF Handle

\* A poller's step ends it, if it is cancelled or its connection is invalid, or leaves
\* what it is and whether it is cancelled alone.
LEMMA PollFrame ==
    ASSUME AcqInv, NEW s \in DOMAIN pollers, Poll(s)
    PROVE  \/ /\ Cancelled(s) \/ ~Validate(pollers[s].conn)
              /\ DOMAIN pollers' = DOMAIN pollers \ {s}
              /\ \A t \in DOMAIN pollers' : pollers'[t] = pollers[t]
           \/ /\ DOMAIN pollers' = DOMAIN pollers
              /\ \A t \in DOMAIN pollers :
                    /\ pollers'[t].id = pollers[t].id /\ pollers'[t].conn = pollers[t].conn
                    /\ pollers'[t].devices = pollers[t].devices
                    /\ pollers'[t].cancelled = pollers[t].cancelled
<1> DEFINE Ends == /\ Cancelled(s) \/ ~Validate(pollers[s].conn)
                   /\ DOMAIN pollers' = DOMAIN pollers \ {s}
                   /\ \A t \in DOMAIN pollers' : pollers'[t] = pollers[t]
           Goes == /\ DOMAIN pollers' = DOMAIN pollers
                   /\ \A t \in DOMAIN pollers :
                        /\ pollers'[t].id = pollers[t].id /\ pollers'[t].conn = pollers[t].conn
                        /\ pollers'[t].devices = pollers[t].devices
                        /\ pollers'[t].cancelled = pollers[t].cancelled
<1>1. IsPoller(pollers[s])
  BY Zenon DEF AcqInv, PollerInv
<1>2. ASSUME End(s), Cancelled(s) \/ ~Validate(pollers[s].conn) PROVE Ends
  BY <1>2 DEF End, Without
<1>3. ASSUME NEW q, pollers' = [pollers EXCEPT ![s] = q], q.id = pollers[s].id,
             q.conn = pollers[s].conn, q.devices = pollers[s].devices,
             q.cancelled = pollers[s].cancelled
      PROVE  Goes
  BY <1>3
<1>4. ASSUME NEW p, NEW d, Goto(s, p, d) PROVE Goes
  <2> DEFINE r == [pollers[s] EXCEPT !.pc = p]
             q == [r EXCEPT !.at = d]
  <2>1. pollers' = [pollers EXCEPT ![s] = q]
    BY <1>4, Zenon DEF Goto
  <2>2. /\ IsPoller(r) /\ r.id = pollers[s].id /\ r.conn = pollers[s].conn
        /\ r.devices = pollers[s].devices /\ r.cancelled = pollers[s].cancelled
    BY <1>1 DEF IsPoller
  <2> HIDE DEF r
  <2>3. /\ q.id = pollers[s].id /\ q.conn = pollers[s].conn
        /\ q.devices = pollers[s].devices /\ q.cancelled = pollers[s].cancelled
    BY <2>2 DEF IsPoller
  <2> HIDE DEF q
  <2> QED BY <1>3, <2>1, <2>3
<1>5. CASE Connect(s)
  <2>0. PICK v : v = TRUE
    OBVIOUS
  <2> DEFINE up == [pollers[s] EXCEPT !.connected = v]
             r == [up EXCEPT !.pc = "device"]
             q == [r EXCEPT !.at = FirstDevice(s)]
  <2>1. pollers' = [pollers EXCEPT ![s] = q]
    BY <1>5, <2>0, Zenon DEF Connect
  <2>2. /\ IsPoller(up) /\ up.id = pollers[s].id /\ up.conn = pollers[s].conn
        /\ up.devices = pollers[s].devices /\ up.cancelled = pollers[s].cancelled
    BY <1>1 DEF IsPoller
  <2> HIDE DEF up
  <2>3. /\ IsPoller(r) /\ r.id = pollers[s].id /\ r.conn = pollers[s].conn
        /\ r.devices = pollers[s].devices /\ r.cancelled = pollers[s].cancelled
    BY <2>2 DEF IsPoller
  <2> HIDE DEF r
  <2>4. /\ q.id = pollers[s].id /\ q.conn = pollers[s].conn
        /\ q.devices = pollers[s].devices /\ q.cancelled = pollers[s].cancelled
    BY <2>3 DEF IsPoller
  <2> HIDE DEF q
  <2> QED BY <1>3, <2>1, <2>4
<1>6. CASE PollTop(s)
  BY <1>2, <1>4, <1>6, Zenon DEF PollTop
<1>7. CASE ConnectFails(s)
  BY <1>4, <1>7 DEF ConnectFails
<1>8. CASE PollDevice(s)
  BY <1>2, <1>4, <1>8, Zenon DEF PollDevice
<1>9. CASE ReadDevice(s)
  BY <1>4, <1>9, Zenon DEF ReadDevice, NextDevice
<1>10. Ends \/ Goes
  BY <1>5, <1>6, <1>7, <1>8, <1>9, Zenon DEF Poll
<1> QED BY <1>10

\* What a caller of Reload wants to run, and the entries it leaves alone.
Wanted(x) == Grouped(loc[x].conns, loc[x].devs, loc[x].pts)
KeptBy(x) == Kept(Wanted(x))

\* Under Manager.mu: what becomes of the pollers and which ones are new.
LEMMA AppliedPollers ==
    ASSUME AcqInv, NEW x \in Callers, ReloadApply(x)
    PROVE  /\ DOMAIN running' = DOMAIN Wanted(x)
           /\ \A c \in KeptBy(x) : running'[c] = running[c]
           /\ \A s \in DOMAIN pollers :
                 /\ s \in DOMAIN pollers' /\ pollers'[s].id = pollers[s].id
                 /\ pollers'[s].conn = pollers[s].conn
                 /\ pollers'[s].devices = pollers[s].devices
                 /\ pollers'[s].cancelled <=>
                       pollers[s].cancelled
                       \/ \E c \in DOMAIN running \ KeptBy(x) : running[c].slot = s
           /\ \A c \in DOMAIN Wanted(x) \ KeptBy(x) :
                 /\ running'[c].slot \in DOMAIN pollers' \ DOMAIN pollers
                 /\ pollers'[running'[c].slot].id = c
                 /\ \A d \in DOMAIN running : running[d].slot # running'[c].slot
           /\ \A s \in DOMAIN pollers' \ DOMAIN pollers :
                 /\ pollers'[s].id \in DOMAIN Wanted(x) \ KeptBy(x) /\ ~pollers'[s].cancelled
                 /\ pollers'[s].conn = Wanted(x)[pollers'[s].id].conn
                 /\ running'[pollers'[s].id] = [slot |-> s, conn |-> pollers'[s].conn,
                                                devices |-> pollers'[s].devices]
<1> DEFINE wanted == Wanted(x)
           kept == KeptBy(x)
           new == DOMAIN wanted \ kept
           free == Slots \ (DOMAIN pollers \cup {running[c].slot : c \in DOMAIN running})
           slot == CHOOSE f \in Injections(new, free) : TRUE
           dropped == {running[c].slot : c \in DOMAIN running \ kept}
           old(s) == [pollers[s] EXCEPT !.cancelled = @ \/ s \in dropped]
           owner(s) == CHOOSE c \in new : slot[c] = s
<1>1. /\ Injections(new, free) # {}
      /\ running' = [c \in DOMAIN wanted |->
                       IF c \in kept THEN running[c]
                       ELSE [slot |-> slot[c], conn |-> wanted[c].conn,
                             devices |-> wanted[c].devices]]
      /\ pollers' = [s \in DOMAIN pollers \cup {slot[c] : c \in new} |->
                       IF s \in DOMAIN pollers THEN old(s)
                       ELSE NewPoller(owner(s), wanted[owner(s)])]
  BY Zenon DEF ReloadApply, Wanted, KeptBy
<1>2. /\ slot \in [new -> free] /\ \A a, b \in new : slot[a] = slot[b] => a = b
  BY <1>1, Zenon DEF Injections
<1>3. kept \subseteq DOMAIN wanted
  BY Zenon DEF Kept, KeptBy
<1>4. ASSUME NEW s \in DOMAIN pollers
      PROVE  /\ old(s).id = pollers[s].id /\ old(s).conn = pollers[s].conn
             /\ old(s).devices = pollers[s].devices
             /\ old(s).cancelled <=> pollers[s].cancelled \/ s \in dropped
  <2>1. IsPoller(pollers[s])
    BY DEF AcqInv, PollerInv
  <2>2. PICK b : b = (pollers[s].cancelled \/ s \in dropped)
    OBVIOUS
  <2>3. old(s) = [pollers[s] EXCEPT !.cancelled = b]
    BY <2>1, <2>2 DEF IsPoller
  <2> HIDE DEF old, dropped
  <2>4. /\ old(s).id = pollers[s].id /\ old(s).conn = pollers[s].conn
        /\ old(s).devices = pollers[s].devices /\ old(s).cancelled = b
    BY <2>1, <2>3 DEF IsPoller
  <2> QED BY <2>2, <2>4, Zenon
<1>5. ASSUME NEW c, NEW w
      PROVE  /\ NewPoller(c, w).id = c /\ NewPoller(c, w).conn = w.conn
             /\ NewPoller(c, w).devices = w.devices /\ ~NewPoller(c, w).cancelled
  BY DEF NewPoller
<1>6. \A c \in new : owner(slot[c]) = c
  BY <1>2
<1> HIDE DEF old, owner, slot, wanted, kept
<1>7. /\ DOMAIN running' = DOMAIN wanted
      /\ \A c \in kept : running'[c] = running[c]
  BY <1>1, <1>3, Zenon
<1>8. \A s \in DOMAIN pollers : s \in DOMAIN pollers' /\ pollers'[s] = old(s)
  BY <1>1, Zenon
<1>9. \A c \in new : /\ slot[c] \in DOMAIN pollers' \ DOMAIN pollers
                     /\ pollers'[slot[c]] = NewPoller(c, wanted[c])
                     /\ running'[c] = [slot |-> slot[c], conn |-> wanted[c].conn,
                                       devices |-> wanted[c].devices]
                     /\ slot[c] \notin {running[d].slot : d \in DOMAIN running}
  BY <1>1, <1>2, <1>6, Zenon
<1>10. \A s \in DOMAIN pollers' \ DOMAIN pollers : \E c \in new : s = slot[c]
  BY <1>1, Zenon
<1>11. ASSUME NEW s \in DOMAIN pollers PROVE
         /\ s \in DOMAIN pollers' /\ pollers'[s].id = pollers[s].id
         /\ pollers'[s].conn = pollers[s].conn
         /\ pollers'[s].devices = pollers[s].devices
         /\ pollers'[s].cancelled <=>
               pollers[s].cancelled \/ \E c \in DOMAIN running \ kept : running[c].slot = s
  <2>1. s \in DOMAIN pollers' /\ pollers'[s] = old(s)
    BY <1>8
  <2>2. s \in dropped <=> \E c \in DOMAIN running \ kept : running[c].slot = s
    OBVIOUS
  <2> HIDE DEF dropped
  <2>3. pollers'[s].cancelled <=> pollers[s].cancelled \/ s \in dropped
    BY <1>4, <2>1, Zenon
  <2> QED BY <1>4, <2>1, <2>2, <2>3
<1>12. ASSUME NEW c \in new
       PROVE  /\ running'[c].slot \in DOMAIN pollers' \ DOMAIN pollers
              /\ pollers'[running'[c].slot].id = c
              /\ \A d \in DOMAIN running : running[d].slot # running'[c].slot
  <2>1. /\ slot[c] \in DOMAIN pollers' \ DOMAIN pollers
        /\ pollers'[slot[c]] = NewPoller(c, wanted[c])
        /\ running'[c] = [slot |-> slot[c], conn |-> wanted[c].conn,
                          devices |-> wanted[c].devices]
        /\ slot[c] \notin {running[d].slot : d \in DOMAIN running}
    BY <1>9, Zenon
  <2>2. running'[c].slot = slot[c]
    BY <2>1
  <2>3. pollers'[slot[c]].id = c
    BY <1>5, <2>1
  <2> QED BY <2>1, <2>2, <2>3
<1>13. ASSUME NEW s \in DOMAIN pollers' \ DOMAIN pollers
       PROVE  /\ pollers'[s].id \in new /\ ~pollers'[s].cancelled
              /\ pollers'[s].conn = wanted[pollers'[s].id].conn
              /\ running'[pollers'[s].id] = [slot |-> s, conn |-> pollers'[s].conn,
                                             devices |-> pollers'[s].devices]
  <2>1. PICK c \in new : s = slot[c]
    BY <1>10
  <2>2. /\ pollers'[s] = NewPoller(c, wanted[c])
        /\ running'[c] = [slot |-> s, conn |-> wanted[c].conn, devices |-> wanted[c].devices]
    BY <1>9, <2>1
  <2>3. /\ pollers'[s].id = c /\ pollers'[s].conn = wanted[c].conn
        /\ pollers'[s].devices = wanted[c].devices /\ ~pollers'[s].cancelled
    BY <1>5, <2>2
  <2> QED BY <2>1, <2>2, <2>3
<1> QED BY <1>7, <1>11, <1>12, <1>13, Zenon DEF wanted, kept
LEMMA ValidStep == AcqInv /\ SnapInv /\ ValidInv /\ [Next]_vars => ValidInv'
<1> SUFFICES ASSUME AcqInv, SnapInv, ValidInv, [Next]_vars PROVE ValidInv'
  OBVIOUS
<1>1. CASE \E x \in Handlers : Handle(x)
  BY <1>1, HandleKeepsValid, Zenon
<1>2. ASSUME UNCHANGED dbVars, UNCHANGED apiVars,
             \A x \in Callers : ValidConns(loc[x].conns)',
             \A x \in Handlers : pc'[x] = pc[x] \/ pc'[x] \notin {"write", "importPut"},
             \A s \in DOMAIN pollers' : Validate(pollers'[s].conn)
      PROVE  ValidInv'
  BY <1>2, Zenon DEF ValidInv, dbVars, apiVars, ValidConns, ImportValid, IsImport
<1>3. ASSUME UNCHANGED loc PROVE \A x \in Callers : ValidConns(loc[x].conns)'
  BY <1>3, Zenon DEF ValidInv, ValidConns
<1>4. DOMAIN pc = Callers /\ DOMAIN loc = Callers /\ Handlers \subseteq Callers
  BY Zenon DEF SnapInv, Callers
<1>5. ASSUME NEW x \in Callers, NEW p, NEW l, pc' = [pc EXCEPT ![x] = p],
             p \notin {"write", "importPut"}, loc' = [loc EXCEPT ![x] = l], ValidConns(l.conns)
      PROVE  /\ \A y \in Callers : ValidConns(loc[y].conns)'
             /\ \A y \in Handlers : pc'[y] = pc[y] \/ pc'[y] \notin {"write", "importPut"}
  BY <1>4, <1>5 DEF ValidInv, ValidConns
<1>6. ValidConns(NoLocals.conns)
  <2>1. DOMAIN NoLocals.conns = {}
    BY DEF NoLocals
  <2> QED BY <2>1 DEF ValidConns
<1>7. UNCHANGED pollers => \A s \in DOMAIN pollers' : Validate(pollers'[s].conn)
  BY DEF ValidInv
<1>8. ASSUME NEW x \in Callers, ReloadDevs(x), UNCHANGED apiVars PROVE ValidInv'
  <2> DEFINE l == [NoLocals EXCEPT !.since = version, !.devs = ListEnabled(devs)]
  <2>1. /\ loc' = [loc EXCEPT ![x] = l] /\ pc' = [pc EXCEPT ![x] = "reloadConns"]
        /\ UNCHANGED dbVars /\ UNCHANGED pollers
    BY <1>8 DEF ReloadDevs
  <2>2. l.conns = NoLocals.conns
    BY DEF NoLocals
  <2> HIDE DEF l
  <2>3. /\ \A y \in Callers : ValidConns(loc[y].conns)'
        /\ \A y \in Handlers : pc'[y] = pc[y] \/ pc'[y] \notin {"write", "importPut"}
    <3>1. ValidConns(l.conns)
      BY <1>6, <2>2
    <3>2. "reloadConns" \notin {"write", "importPut"}
      OBVIOUS
    <3> QED BY <1>5, <1>8, <2>1, <3>1, <3>2, Zenon
  <2> QED BY <1>2, <1>7, <1>8, <2>1, <2>3
<1>9. ASSUME NEW x \in Callers, ReloadConns(x), UNCHANGED apiVars PROVE ValidInv'
  <2> DEFINE l == [loc[x] EXCEPT !.conns = ListEnabled(conns)]
  <2>1. /\ loc' = [loc EXCEPT ![x] = l] /\ pc' = [pc EXCEPT ![x] = "reloadPoints"]
        /\ UNCHANGED dbVars /\ UNCHANGED pollers
    BY <1>9 DEF ReloadConns
  <2>2. l.conns = ListEnabled(conns)
    BY DEF AcqInv, LocInv, IsLocals
  <2>3. ValidConns(l.conns)
    BY <2>2 DEF ValidInv, ValidConns, ListEnabled, Only
  <2> HIDE DEF l
  <2>4. /\ \A y \in Callers : ValidConns(loc[y].conns)'
        /\ \A y \in Handlers : pc'[y] = pc[y] \/ pc'[y] \notin {"write", "importPut"}
    <3>1. "reloadPoints" \notin {"write", "importPut"}
      OBVIOUS
    <3> QED BY <1>5, <1>9, <2>1, <2>3, <3>1, Zenon
  <2> QED BY <1>2, <1>7, <1>9, <2>1, <2>4
<1>10. ASSUME NEW x \in Callers, ReloadPoints(x), UNCHANGED apiVars PROVE ValidInv'
  <2> DEFINE d == Min(ToRead(loc[x]))
             read == WithRow(loc[x].pts, d, ListEnabledByDevice(d))
             l == [loc[x] EXCEPT !.pts = read]
  <2>1. /\ loc' = [loc EXCEPT ![x] = l] /\ pc' = pc /\ UNCHANGED dbVars /\ UNCHANGED pollers
    BY <1>10 DEF ReloadPoints
  <2> HIDE DEF read
  <2>2. l.conns = loc[x].conns
    BY DEF AcqInv, LocInv, IsLocals
  <2> HIDE DEF l
  <2>3. \A y \in Callers : loc'[y].conns = loc[y].conns
    BY <1>4, <2>1, <2>2
  <2>4. \A y \in Callers : ValidConns(loc[y].conns)'
    BY <2>3 DEF ValidInv, ValidConns
  <2> QED BY <1>2, <1>7, <1>10, <2>1, <2>4
<1>11. ASSUME NEW x \in Callers, ReloadFails(x), UNCHANGED apiVars PROVE ValidInv'
  BY <1>2, <1>5, <1>6, <1>7, <1>11, Zenon DEF ReloadFails
<1>12. ASSUME NEW x \in Callers, ReloadApply(x), UNCHANGED apiVars PROVE ValidInv'
  <2>1. /\ loc' = [loc EXCEPT ![x] = NoLocals] /\ pc' = [pc EXCEPT ![x] = "idle"]
        /\ UNCHANGED dbVars /\ pc[x] = "reloadPoints"
    BY <1>12, Zenon DEF ReloadApply
  <2>2. /\ \A s \in DOMAIN pollers : pollers'[s].conn = pollers[s].conn
        /\ \A s \in DOMAIN pollers' \ DOMAIN pollers :
              /\ pollers'[s].id \in DOMAIN Wanted(x)
              /\ pollers'[s].conn = Wanted(x)[pollers'[s].id].conn
    <3>1. ASSUME NEW s \in DOMAIN pollers PROVE pollers'[s].conn = pollers[s].conn
      BY <1>12, <3>1, AppliedPollers, Zenon
    <3>2. ASSUME NEW s \in DOMAIN pollers' \ DOMAIN pollers
          PROVE  /\ pollers'[s].id \in DOMAIN Wanted(x) \ KeptBy(x) /\ ~pollers'[s].cancelled
                 /\ pollers'[s].conn = Wanted(x)[pollers'[s].id].conn
                 /\ running'[pollers'[s].id] = [slot |-> s, conn |-> pollers'[s].conn,
                                                devices |-> pollers'[s].devices]
      BY <1>12, <3>2, AppliedPollers, Zenon
    <3> QED BY <3>1, <3>2, Zenon
  <2>3. ASSUME NEW s \in DOMAIN pollers' \ DOMAIN pollers PROVE Validate(pollers'[s].conn)
    <3> DEFINE c == pollers'[s].id
    <3>1. c \in DOMAIN Wanted(x) /\ pollers'[s].conn = Wanted(x)[c].conn
      BY <2>2, <2>3, Zenon
    <3> HIDE DEF c
    <3>2. /\ Wanted(x)[c].conn = loc[x].conns[c]
          /\ \E d \in DOMAIN loc[x].pts : loc[x].devs[d].conn = c
      BY <3>1, Zenon DEF Wanted, Grouped
    <3>3. c \in DOMAIN loc[x].conns
      BY <2>1, <3>2, Zenon DEF SnapInv, SnapOK
    <3> QED BY <3>1, <3>2, <3>3, Zenon DEF ValidInv, ValidConns
  <2>4. \A s \in DOMAIN pollers' : Validate(pollers'[s].conn)
    BY <2>2, <2>3, Zenon DEF ValidInv
  <2> QED BY <1>2, <1>5, <1>6, <1>12, <2>1, <2>4, Zenon
<1>13. ASSUME NEW s \in DOMAIN pollers, Poll(s), UNCHANGED apiVars PROVE ValidInv'
  <2>1. \A t \in DOMAIN pollers' : Validate(pollers'[t].conn)
    BY <1>13, PollFrame, Zenon DEF ValidInv
  <2>2. UNCHANGED dbVars /\ UNCHANGED <<pc, loc>>
    BY <1>13, Zenon DEF Poll
  <2> QED BY <1>2, <1>3, <1>13, <2>1, <2>2, Zenon
<1>14. CASE (Serve \/ Stop \/ Shutdown \/ Wait) /\ UNCHANGED apiVars
  BY <1>2, <1>3, <1>7, <1>14 DEF Serve, Stop, Shutdown, Wait
<1>15. CASE Restart
  <2>1. /\ pc' = [x \in Callers |-> IF x = Main THEN "reloadDevs" ELSE "idle"]
        /\ loc' = [x \in Callers |-> NoLocals] /\ DOMAIN pollers' = {}
        /\ req' = [x \in Handlers |-> NoReq] /\ imp' = [x \in Handlers |-> NoImport]
        /\ UNCHANGED <<conns, file>>
    BY <1>15 DEF Restart, dbVars
  <2>2. \A x \in Callers : ValidConns(loc[x].conns)'
    BY <1>6, <2>1, Zenon DEF ValidConns
  <2>3. ImportValid(NoImport)
    BY Zenon DEF NoImport, ImportValid, IsImport
  <2>4. \A x \in Handlers : ImportValid(imp[x])' /\ pc'[x] \notin {"write", "importPut"}
    BY <1>4, <2>1, <2>3 DEF ImportValid, IsImport
  <2> QED BY <2>1, <2>2, <2>4, Zenon DEF ValidInv, ValidConns
<1>16. CASE UNCHANGED vars
  BY <1>2, <1>3, <1>7, <1>16 DEF vars, acqVars
<1> QED
  BY <1>1, <1>8, <1>9, <1>10, <1>11, <1>12, <1>13, <1>14, <1>15, <1>16 DEF Next, Reload

LEMMA ValidInit == Init => ValidInv
<1> SUFFICES ASSUME Init PROVE ValidInv
  OBVIOUS
<1>1. ValidConns(conns)
  <2>1. PICK S \in SUBSET ConnIds : conns \in [S -> {row \in ConnRow : Validate(row)}]
    BY DEF Init, DbInit
  <2> QED BY <2>1 DEF ValidConns, ConnIds
<1>2. DOMAIN file.conns \subseteq Nat
  BY FilesAssumption DEF Init, ApiInit, IsTable
<1>3. DOMAIN NoLocals.conns = {}
  BY DEF NoLocals
<1>4. \A x \in Callers : ValidConns(loc[x].conns)
  BY <1>3 DEF Init, AcqInit, ValidConns
<1>5. ImportValid(NoImport)
  BY Zenon DEF NoImport, ImportValid, IsImport
<1>6. /\ DOMAIN req = Handlers /\ DOMAIN imp = Handlers
      /\ \A x \in Handlers : ImportValid(imp[x])
  BY <1>5 DEF Init, ApiInit
<1>7. \A x \in Handlers : pc[x] \notin {"write", "importPut"}
  BY DEF Init, AcqInit, Callers
<1>8. DOMAIN pollers = {}
  BY DEF Init, AcqInit
<1> QED BY <1>1, <1>2, <1>4, <1>6, <1>7, <1>8 DEF ValidInv

\* What OnePollerPerConnection needs to be inductive: the poller of an entry is the entry's
\* own, and whoever cancels it takes the entry away in the same step.
EntryInv ==
    /\ \A c \in DOMAIN running : running[c].slot \in DOMAIN pollers =>
          /\ ~pollers[running[c].slot].cancelled /\ pollers[running[c].slot].id = c
    /\ OnePollerPerConnection

\* Reload keeps an entry with its poller, or takes it away and cancels its poller.
LEMMA EntryApply ==
    ASSUME AcqInv, EntryInv, NEW x \in Callers, ReloadApply(x)
    PROVE  EntryInv'
<1>1. stopped' = stopped
  BY Zenon DEF ReloadApply
<1>2. /\ DOMAIN running' = DOMAIN Wanted(x)
      /\ \A c \in KeptBy(x) : running'[c] = running[c]
  BY AppliedPollers, Zenon
<1>3. KeptBy(x) \subseteq DOMAIN running
  BY DEF KeptBy, Kept
<1>4. \A s \in DOMAIN pollers :
         /\ s \in DOMAIN pollers' /\ pollers'[s].id = pollers[s].id
         /\ pollers'[s].conn = pollers[s].conn
         /\ pollers'[s].devices = pollers[s].devices
         /\ pollers'[s].cancelled <=>
               pollers[s].cancelled \/ \E c \in DOMAIN running \ KeptBy(x) : running[c].slot = s
  BY AppliedPollers, Zenon
<1>5. ASSUME NEW c \in DOMAIN Wanted(x) \ KeptBy(x)
      PROVE  /\ running'[c].slot \in DOMAIN pollers' \ DOMAIN pollers
             /\ pollers'[running'[c].slot].id = c
             /\ \A d \in DOMAIN running : running[d].slot # running'[c].slot
  BY <1>5, AppliedPollers, Zenon
<1>6. ASSUME NEW s \in DOMAIN pollers' \ DOMAIN pollers
      PROVE  /\ pollers'[s].id \in DOMAIN Wanted(x) \ KeptBy(x) /\ ~pollers'[s].cancelled
             /\ pollers'[s].conn = Wanted(x)[pollers'[s].id].conn
             /\ running'[pollers'[s].id] = [slot |-> s, conn |-> pollers'[s].conn,
                                            devices |-> pollers'[s].devices]
  BY <1>6, AppliedPollers, Zenon
<1>7. ASSUME NEW c \in DOMAIN running', running'[c].slot \in DOMAIN pollers'
      PROVE  ~pollers'[running'[c].slot].cancelled /\ pollers'[running'[c].slot].id = c
  <2> DEFINE s == running'[c].slot
  <2>1. CASE c \in KeptBy(x) /\ s \in DOMAIN pollers
    <3>1. running[c].slot = s /\ c \in DOMAIN running
      BY <1>2, <1>3, <2>1
    <3>2. ~pollers[s].cancelled /\ pollers[s].id = c
      BY <2>1, <3>1 DEF EntryInv
    <3>3. \A d \in DOMAIN running \ KeptBy(x) : running[d].slot # s
      <4> SUFFICES ASSUME NEW d \in DOMAIN running \ KeptBy(x), running[d].slot = s PROVE FALSE
        OBVIOUS
      <4>1. pollers[s].id = d
        BY <2>1 DEF EntryInv
      <4> QED BY <2>1, <3>2, <4>1
    <3> HIDE DEF s
    <3>4. ~pollers'[s].cancelled
      BY <1>4, <2>1, <3>2, <3>3
    <3>5. pollers'[s].id = c
      BY <1>4, <2>1, <3>2
    <3> QED BY <3>4, <3>5 DEF s
  <2>2. CASE c \in KeptBy(x) /\ s \notin DOMAIN pollers
    <3>1. running[c].slot = s /\ c \in DOMAIN running
      BY <1>2, <1>3, <2>2
    <3>2. s \in DOMAIN pollers' \ DOMAIN pollers
      BY <1>7, <2>2
    <3> HIDE DEF s
    <3> DEFINE r == [slot |-> s, conn |-> pollers'[s].conn, devices |-> pollers'[s].devices]
    <3>3. r.slot = s
      OBVIOUS
    <3>4. pollers'[s].id \in DOMAIN Wanted(x) \ KeptBy(x) /\ running'[pollers'[s].id] = r
      BY <1>6, <3>2, Zenon
    <3>5. /\ pollers'[s].id \in DOMAIN Wanted(x) \ KeptBy(x)
          /\ running'[pollers'[s].id].slot = s
      BY <3>3, <3>4, Zenon
    <3>6. \A d \in DOMAIN running : running[d].slot # running'[pollers'[s].id].slot
      BY <1>5, <3>5
    <3> QED BY <3>1, <3>5, <3>6
  <2>3. CASE c \notin KeptBy(x)
    <3>1. c \in DOMAIN Wanted(x) \ KeptBy(x)
      BY <1>2, <1>7, <2>3, Zenon
    <3>2. s \in DOMAIN pollers' \ DOMAIN pollers /\ pollers'[s].id = c
      BY <1>5, <3>1
    <3> QED BY <1>6, <3>2, Zenon
  <2> QED BY <2>1, <2>2, <2>3
<1>8. ASSUME ~stopped, NEW c \in DOMAIN running' PROVE running'[c].slot \in DOMAIN pollers'
  <2>1. CASE c \in KeptBy(x)
    <3>1. running'[c] = running[c] /\ c \in DOMAIN running
      BY <1>2, <1>3, <2>1, Zenon
    <3>2. running[c].slot \in DOMAIN pollers
      BY <1>8, <3>1, Zenon DEF EntryInv, OnePollerPerConnection
    <3> QED BY <1>4, <3>1, <3>2
  <2>2. CASE c \notin KeptBy(x)
    BY <1>2, <1>5, <1>8, <2>2, Zenon
  <2> QED BY <2>1, <2>2
<1>9. ASSUME NEW s \in DOMAIN pollers', ~pollers'[s].cancelled
      PROVE  /\ pollers'[s].id \in DOMAIN running'
             /\ running'[pollers'[s].id] = [slot |-> s, conn |-> pollers'[s].conn,
                                            devices |-> pollers'[s].devices]
  <2>1. CASE s \in DOMAIN pollers
    <3> DEFINE c == pollers[s].id
    <3>1. /\ pollers'[s].id = c /\ pollers'[s].conn = pollers[s].conn
          /\ pollers'[s].devices = pollers[s].devices /\ ~pollers[s].cancelled
          /\ \A d \in DOMAIN running \ KeptBy(x) : running[d].slot # s
      BY <1>4, <1>9, <2>1, Zenon
    <3>2. /\ c \in DOMAIN running
          /\ running[c] = [slot |-> s, conn |-> pollers[s].conn, devices |-> pollers[s].devices]
      BY <2>1, <3>1, Zenon DEF EntryInv, OnePollerPerConnection
    <3> HIDE DEF c
    <3>3. running[c].slot = s
      BY <3>2
    <3>4. c \in KeptBy(x)
      BY <3>1, <3>2, <3>3, Zenon
    <3>5. running'[c] = running[c] /\ c \in DOMAIN running'
      BY <1>2, <3>4, Zenon DEF KeptBy, Kept
    <3> QED BY <3>1, <3>2, <3>5
  <2>2. CASE s \notin DOMAIN pollers
    BY <1>2, <1>6, <1>9, <2>2
  <2> QED BY <2>1, <2>2, Zenon
<1> QED BY <1>1, <1>7, <1>8, <1>9, Zenon DEF EntryInv, OnePollerPerConnection

\* A poller ends when it is cancelled, as its entry was, or when main stops.
LEMMA EntryPoll ==
    ASSUME AcqInv, ValidInv, EntryInv, NEW s \in DOMAIN pollers, Poll(s)
    PROVE  EntryInv'
<1>1. UNCHANGED <<running, stopped>>
  BY Zenon DEF Poll, mgrVars
<1>2. CASE /\ Cancelled(s) /\ DOMAIN pollers' = DOMAIN pollers \ {s}
           /\ \A t \in DOMAIN pollers' : pollers'[t] = pollers[t]
  <2>1. ASSUME NEW c \in DOMAIN running, ~stopped PROVE running[c].slot \in DOMAIN pollers'
    <3>1. running[c].slot \in DOMAIN pollers /\ pollers[s].cancelled
      BY <1>2, <2>1, Zenon DEF Cancelled, EntryInv, OnePollerPerConnection
    <3>2. running[c].slot # s
      BY <2>1, <3>1, Zenon DEF EntryInv
    <3> QED BY <1>2, <3>1, <3>2, Zenon
  <2>2. ASSUME NEW c \in DOMAIN running, running[c].slot \in DOMAIN pollers'
        PROVE  ~pollers'[running[c].slot].cancelled /\ pollers'[running[c].slot].id = c
    BY <1>2, <2>2 DEF EntryInv
  <2>3. ASSUME NEW t \in DOMAIN pollers', ~pollers'[t].cancelled
        PROVE  /\ pollers'[t].id \in DOMAIN running
               /\ running[pollers'[t].id] = [slot |-> t, conn |-> pollers'[t].conn,
                                             devices |-> pollers'[t].devices]
    BY <1>2, <2>3, Zenon DEF EntryInv, OnePollerPerConnection
  <2> QED BY <1>1, <2>1, <2>2, <2>3, Zenon DEF EntryInv, OnePollerPerConnection
<1>3. CASE /\ DOMAIN pollers' = DOMAIN pollers
           /\ \A t \in DOMAIN pollers :
                 /\ pollers'[t].id = pollers[t].id /\ pollers'[t].conn = pollers[t].conn
                 /\ pollers'[t].devices = pollers[t].devices
                 /\ pollers'[t].cancelled = pollers[t].cancelled
  <2>1. ASSUME NEW t \in DOMAIN pollers', ~pollers'[t].cancelled
        PROVE  /\ pollers'[t].id \in DOMAIN running
               /\ running[pollers'[t].id] = [slot |-> t, conn |-> pollers'[t].conn,
                                             devices |-> pollers'[t].devices]
    <3>1. t \in DOMAIN pollers /\ ~pollers[t].cancelled
      BY <1>3, <2>1, Zenon
    <3>2. /\ pollers[t].id \in DOMAIN running
          /\ running[pollers[t].id] = [slot |-> t, conn |-> pollers[t].conn,
                                       devices |-> pollers[t].devices]
      BY <3>1, Zenon DEF EntryInv, OnePollerPerConnection
    <3> QED BY <1>3, <3>1, <3>2, Zenon
  <2>2. ASSUME NEW c \in DOMAIN running, running[c].slot \in DOMAIN pollers'
        PROVE  ~pollers'[running[c].slot].cancelled /\ pollers'[running[c].slot].id = c
    BY <1>3, <2>2, Zenon DEF EntryInv
  <2>3. ~stopped => \A c \in DOMAIN running : running[c].slot \in DOMAIN pollers'
    BY <1>3, Zenon DEF EntryInv, OnePollerPerConnection
  <2> QED BY <1>1, <2>1, <2>2, <2>3, Zenon DEF EntryInv, OnePollerPerConnection
<1>4. Validate(pollers[s].conn)
  BY Zenon DEF ValidInv
<1> QED BY <1>2, <1>3, <1>4, PollFrame, Zenon

LEMMA EntryStep == AcqInv /\ SnapInv /\ ValidInv /\ EntryInv /\ [Next]_vars => EntryInv'
<1> SUFFICES ASSUME AcqInv, SnapInv, ValidInv, EntryInv, [Next]_vars PROVE EntryInv'
  OBVIOUS
<1>1. ASSUME UNCHANGED <<running, pollers>>, ~stopped' => ~stopped PROVE EntryInv'
  BY <1>1, Zenon DEF EntryInv, OnePollerPerConnection
<1>2. CASE \E x \in Handlers : Handle(x)
  BY <1>1, <1>2, HandlerFrame
<1>3. CASE \E x \in Callers : ReloadDevs(x) \/ ReloadConns(x) \/ ReloadPoints(x) \/ ReloadFails(x)
  BY <1>1, <1>3, ReloadSnap, Zenon
<1>4. CASE \E x \in Callers : ReloadApply(x)
  BY <1>4, EntryApply
<1>5. CASE \E s \in DOMAIN pollers : Poll(s)
  BY <1>5, EntryPoll
<1>6. CASE Serve \/ Stop \/ Shutdown \/ Wait
  BY <1>1, <1>6 DEF Serve, Stop, Shutdown, Wait, mgrVars
<1>7. CASE Restart
  <2>1. DOMAIN running' = {} /\ DOMAIN pollers' = {}
    BY <1>7 DEF Restart
  <2> QED BY <2>1, Zenon DEF EntryInv, OnePollerPerConnection
<1>8. CASE UNCHANGED vars
  BY <1>1, <1>8 DEF vars, acqVars
<1> QED BY <1>2, <1>3, <1>4, <1>5, <1>6, <1>7, <1>8 DEF Next, Reload

\* Manager.running and the goroutines agree (OnePollerPerConnection): until main stops, an
\* entry's poller is alive and scans what the entry says, and a poller that no entry has is
\* cancelled, for every number of connections, pollers and callers of Reload.
THEOREM OnePollerEach == Spec => []OnePollerPerConnection
<1>1. Init => EntryInv
  <2> SUFFICES ASSUME Init PROVE EntryInv
    OBVIOUS
  <2>1. DOMAIN running = {} /\ DOMAIN pollers = {}
    BY DEF Init, AcqInit
  <2> QED BY <2>1 DEF EntryInv, OnePollerPerConnection
<1>2. EntryInv => OnePollerPerConnection
  BY DEF EntryInv
<1> QED
  BY <1>1, <1>2, AcqInvAlways, SnapInit, SnapStep, ValidInit, ValidStep, EntryStep, PTL DEF Spec
=============================================================================
