-------------------------- MODULE RoundTripProofs ---------------------------
(***************************************************************************)
(* Proofs about ConfigApi, continued: an import brings back what was       *)
(* exported, and the types of all variables.                               *)
(***************************************************************************)
EXTENDS ConfigProofs

(***************************************************************************)
(* Export and import.                                                      *)
(***************************************************************************)

\* The tables, with rows of their types.
IsTyped(t, I, R) == DOMAIN t \subseteq I /\ t \in [DOMAIN t -> R]
TablesInv ==
    /\ IsTyped(conns, ConnIds, ConnRow) /\ IsTyped(devs, DevIds, DevRow)
    /\ IsTyped(dps, DpIds, DpRow)
    /\ connSeq \in 0 .. MaxConn /\ dpSeq \in 0 .. MaxDp

StatementOK(st) ==
    /\ st.op \in {"createConnection", "updateConnection"} => st.row \in ConnRow
    /\ st.op \in {"createDevice", "updateDevice"} => st.row \in DeviceJSON
    /\ st.op \in {"createDataPoint", "updateDataPoint"} => st.row \in DataPointJSON

\* A file has rows of these types, and so have the lists an export has read.
FileOK(f) ==
    /\ IsTable(f.conns, Nat, ConnRow) /\ IsTable(f.devs, Nat, DeviceJSON)
    /\ DOMAIN f.pts = DOMAIN f.devs
    /\ \A d \in DOMAIN f.pts : IsTable(f.pts[d], Nat, DataPointJSON)

\* f is what the tables hold.
Shows(f) ==
    /\ f.conns = conns /\ f.devs = devs
    /\ f.pts = [d \in DOMAIN devs |-> ListByDevice(d)]

FileInv ==
    /\ FileOK(file) /\ file.of \in Int /\ file.of <= version
    /\ file.of = version => Shows(file)

\* Every list was read from the tables, and as long as no statement has changed them since
\* the first query it is what they hold.
ExportInv(x) ==
    /\ IsTable(loc[x].conns, Nat, ConnRow)
    /\ loc[x].pts = [d \in DOMAIN loc[x].pts |-> loc[x].pts[d]]
    /\ pc[x] = "exportDevs" => DOMAIN loc[x].pts = {}
    /\ pc[x] = "exportPoints" =>
          /\ IsTable(loc[x].devs, Nat, DeviceJSON) /\ DOMAIN loc[x].pts \subseteq DOMAIN loc[x].devs
          /\ \A d \in DOMAIN loc[x].pts : IsTable(loc[x].pts[d], Nat, DataPointJSON)
    /\ loc[x].since = version =>
          /\ loc[x].conns = conns
          /\ pc[x] = "exportPoints" =>
                /\ loc[x].devs = devs
                /\ \A d \in DOMAIN loc[x].pts : loc[x].pts[d] = ListByDevice(d)

\* What is left to import is in the file, and the ids restored so far are ids.
ImportOK(i) ==
    /\ FileOK(i.file)
    /\ i.conns \subseteq DOMAIN i.file.conns /\ i.devs \subseteq DOMAIN i.file.devs
    /\ \A c \in DOMAIN i.map : i.map[c] \in ConnIds
    /\ i.pts # {} => /\ i.dev \in DOMAIN i.file.devs /\ i.pts \subseteq DOMAIN i.file.pts[i.dev]
                     /\ i.as \in DevIds

\* An import that puts back what is there finds each item under its own id.
SameIds(i) ==
    /\ \A c \in DOMAIN i.map : i.map[c] = c
    /\ i.pts # {} => i.as = i.dev
Undisturbed(i) == i.alone = version /\ i.file.of = i.start
ImportInv(x) ==
    LET i == imp[x] IN
    /\ ImportOK(i)
    /\ i.alone \in Int /\ i.alone <= version
    /\ pc[x] = "importPut" /\ Item(i) = "device" => ~Dangling(i)
    /\ Undisturbed(i) => Shows(i.file) /\ SameIds(i) /\ (pc[x] = "importPut" => i.found = TRUE)

RoundInv ==
    /\ TablesInv
    /\ FileInv
    /\ \A x \in Handlers :
          /\ pc[x] = "write" => StatementOK(req[x])
          /\ pc[x] \in {"exportDevs", "exportPoints"} => ExportInv(x)
          /\ pc[x] \in {"import", "importPut"} => ImportInv(x)

\* Rewriting a row as it is changes nothing.
LEMMA SameRow ==
    ASSUME NEW t, NEW R, t \in [DOMAIN t -> R], NEW id \in DOMAIN t
    PROVE  WithRow(t, id, t[id]) = t
BY DEF WithRow

LEMMA RowAdded ==
    ASSUME NEW t, NEW I, NEW R, IsTyped(t, I, R), NEW id \in I, NEW row \in R
    PROVE  IsTyped(WithRow(t, id, row), I, R)
BY DEF IsTyped, WithRow

LEMMA RowsRemoved ==
    ASSUME NEW t, NEW I, NEW R, IsTyped(t, I, R), NEW S
    PROVE  IsTyped(Without(t, S), I, R)
BY DEF IsTyped, Without

\* A statement leaves rows of their types: what it refers to exists.
LEMMA ExecTables ==
    ASSUME TablesInv, NEW st, StatementOK(st), Exec(st)
    PROVE  TablesInv'
<1>1. Accepts(st)
  BY DEF Exec
<1>2. /\ IsTyped(conns, ConnIds, ConnRow) /\ IsTyped(devs, DevIds, DevRow)
      /\ IsTyped(dps, DpIds, DpRow) /\ connSeq \in 0 .. MaxConn /\ dpSeq \in 0 .. MaxDp
  BY DEF TablesInv
<1>3. ASSUME IsTyped(conns', ConnIds, ConnRow), connSeq' \in 0 .. MaxConn,
             IsTyped(devs', DevIds, DevRow), IsTyped(dps', DpIds, DpRow), dpSeq' \in 0 .. MaxDp
      PROVE  TablesInv'
  BY <1>3 DEF TablesInv, IsTyped, ConnIds, ConnRow, DevIds, DevRow, DpIds, DpRow
<1>4. CASE st.op = "createConnection" /\ CreateConnection(st.row)
  <2>1. NewConnId \in ConnIds /\ st.row \in ConnRow
    BY <1>1, <1>4 DEF Accepts, IdsLeft, StatementOK
  <2>2. IsTyped(conns', ConnIds, ConnRow)
    BY <1>2, <1>4, <2>1, RowAdded DEF CreateConnection
  <2>3. connSeq' \in 0 .. MaxConn
    BY <1>4, <2>1 DEF CreateConnection, ConnIds
  <2> QED BY <1>2, <1>3, <1>4, <2>2, <2>3 DEF CreateConnection
<1>5. CASE st.op = "updateConnection" /\ UpdateConnection(st.id, st.row)
  <2>1. st.id \in ConnIds /\ st.row \in ConnRow
    BY <1>1, <1>2, <1>5 DEF Accepts, RowsAffected, OnConnection, StatementOK, IsTyped
  <2>2. IsTyped(conns', ConnIds, ConnRow)
    BY <1>2, <1>5, <2>1, RowAdded DEF UpdateConnection
  <2> QED BY <1>2, <1>3, <1>5, <2>2 DEF UpdateConnection
<1>6. CASE st.op = "deleteConnection" /\ DeleteConnection(st.id)
  <2>1. IsTyped(conns', ConnIds, ConnRow)
    BY <1>2, <1>6, RowsRemoved DEF DeleteConnection
  <2> QED BY <1>2, <1>3, <1>6, <2>1 DEF DeleteConnection
<1>7. ASSUME st.op \in {"createDevice", "updateDevice"} PROVE st.row \in DevRow
  <2>1. st.row \in DeviceJSON /\ st.row.conn \in ConnIds
    BY <1>1, <1>2, <1>7 DEF Accepts, ForeignKeysHold, StatementOK, IsTyped
  <2> QED BY <2>1 DEF DeviceJSON, DevRow
<1>8. CASE st.op = "createDevice" /\ CreateDevice(st.row)
  <2>1. NewDevId \in DevIds
    BY <1>1, <1>8 DEF Accepts, IdsLeft
  <2>2. IsTyped(devs', DevIds, DevRow)
    BY <1>2, <1>7, <1>8, <2>1, RowAdded DEF CreateDevice
  <2> QED BY <1>2, <1>3, <1>8, <2>2 DEF CreateDevice
<1>9. CASE st.op = "updateDevice" /\ UpdateDevice(st.id, st.row)
  <2>1. st.id \in DevIds
    BY <1>1, <1>2, <1>9 DEF Accepts, RowsAffected, OnDevice, IsTyped
  <2>2. IsTyped(devs', DevIds, DevRow)
    BY <1>2, <1>7, <1>9, <2>1, RowAdded DEF UpdateDevice
  <2> QED BY <1>2, <1>3, <1>9, <2>2 DEF UpdateDevice
<1>10. CASE st.op = "deleteDevice" /\ DeleteDevice(st.id)
  <2>1. IsTyped(devs', DevIds, DevRow) /\ IsTyped(dps', DpIds, DpRow)
    BY <1>2, <1>10, RowsRemoved DEF DeleteDevice
  <2> QED BY <1>2, <1>3, <1>10, <2>1 DEF DeleteDevice
<1>11. CASE st.op = "createDataPoint" /\ CreateDataPoint(st.row)
  <2>1. NewDpId \in DpIds /\ st.row \in DataPointJSON /\ st.row.dev \in DevIds
    BY <1>1, <1>2, <1>11 DEF Accepts, IdsLeft, ForeignKeysHold, StatementOK, IsTyped
  <2>2. st.row \in DpRow
    BY <2>1 DEF DataPointJSON, DpRow
  <2>3. IsTyped(dps', DpIds, DpRow)
    BY <1>2, <1>11, <2>1, <2>2, RowAdded DEF CreateDataPoint
  <2>4. dpSeq' \in 0 .. MaxDp
    BY <1>11, <2>1 DEF CreateDataPoint, DpIds
  <2> QED BY <1>2, <1>3, <1>11, <2>3, <2>4 DEF CreateDataPoint
<1>12. CASE st.op = "updateDataPoint" /\ UpdateDataPoint(st.id, st.row)
  <2> DEFINE row == [dev |-> dps[st.id].dev, enabled |-> st.row.enabled, cfg |-> st.row.cfg]
  <2>1. st.id \in DOMAIN dps /\ st.id \in DpIds /\ st.row \in DataPointJSON
    BY <1>1, <1>2, <1>12 DEF Accepts, RowsAffected, OnDataPoint, StatementOK, IsTyped
  <2>2. dps[st.id] \in DpRow
    BY <1>2, <2>1 DEF IsTyped
  <2>3. row \in DpRow
    BY <2>1, <2>2 DEF DataPointJSON, DpRow
  <2>4. IsTyped(dps', DpIds, DpRow)
    BY <1>2, <1>12, <2>1, <2>3, RowAdded DEF UpdateDataPoint
  <2> QED BY <1>2, <1>3, <1>12, <2>4 DEF UpdateDataPoint
<1>13. CASE st.op = "deleteDataPoint" /\ DeleteDataPoint(st.id)
  <2>1. IsTyped(dps', DpIds, DpRow)
    BY <1>2, <1>13, RowsRemoved DEF DeleteDataPoint
  <2> QED BY <1>2, <1>3, <1>13, <2>1 DEF DeleteDataPoint
<1> QED
  BY <1>4, <1>5, <1>6, <1>8, <1>9, <1>10, <1>11, <1>12, <1>13 DEF Exec

\* What the tables hold, in the form of a file.
LEMMA SamePoints ==
    ASSUME UNCHANGED dbVars
    PROVE  [d \in DOMAIN devs' |-> ListByDevice(d)'] = [d \in DOMAIN devs |-> ListByDevice(d)]
BY SameTables DEF dbVars

\* The step to the next item, field by field.
LEMMA Skipped ==
    ASSUME NEW i, IsImport(i), Item(i) # "none"
    PROVE  /\ IsImport(Skip(i)) /\ Skip(i).file = i.file /\ Skip(i).map = i.map
           /\ Skip(i).dev = i.dev /\ Skip(i).as = i.as
           /\ Skip(i).start = i.start /\ Skip(i).alone = i.alone
           /\ Skip(i).conns \subseteq i.conns /\ Skip(i).devs \subseteq i.devs
           /\ Skip(i).pts \subseteq i.pts
<1>1. CASE Item(i) = "connection"
  <2>1. Skip(i) = [i EXCEPT !.conns = i.conns \ {Min(i.conns)}]
    BY <1>1 DEF Skip
  <2> QED BY <2>1 DEF IsImport
<1>2. CASE Item(i) = "point"
  <2>1. Skip(i) = [i EXCEPT !.pts = i.pts \ {Min(i.pts)}]
    BY <1>2 DEF Skip
  <2> QED BY <2>1 DEF IsImport
<1>3. CASE Item(i) = "device"
  <2>1. Skip(i) = [i EXCEPT !.devs = i.devs \ {Min(i.devs)}]
    BY <1>3 DEF Skip
  <2> QED BY <2>1 DEF IsImport
<1> QED BY <1>1, <1>2, <1>3 DEF Item

LEMMA WrittenFields ==
    ASSUME NEW i, IsImport(i), Item(i) # "none", NEW id
    PROVE  LET w == Written(i, id) IN
           /\ IsImport(w) /\ w.file = i.file /\ w.start = i.start /\ w.alone = i.alone
           /\ w.conns \subseteq i.conns /\ w.devs \subseteq i.devs
           /\ IF Item(i) = "connection" THEN w.map = WithRow(i.map, Min(i.conns), id)
                                        ELSE w.map = i.map
           /\ IF Item(i) = "device"
              THEN w.dev = Min(i.devs) /\ w.as = id /\ w.pts = DOMAIN i.file.pts[Min(i.devs)]
              ELSE w.dev = i.dev /\ w.as = i.as /\ w.pts \subseteq i.pts
<1> DEFINE s == Skip(i)
<1>1. /\ IsImport(s) /\ s.file = i.file /\ s.map = i.map /\ s.dev = i.dev /\ s.as = i.as
      /\ s.start = i.start /\ s.alone = i.alone
      /\ s.conns \subseteq i.conns /\ s.devs \subseteq i.devs /\ s.pts \subseteq i.pts
  BY Skipped
<1>2. CASE Item(i) = "connection"
  <2>1. Written(i, id) = [s EXCEPT !.map = WithRow(i.map, Min(i.conns), id)]
    BY <1>1, <1>2 DEF Written
  <2> HIDE DEF s
  <2> QED BY <1>1, <1>2, <2>1 DEF IsImport
<1>3. CASE Item(i) = "point"
  BY <1>1, <1>3 DEF Written
<1>4. CASE Item(i) = "device"
  <2> DEFINE a == [s EXCEPT !.dev = Min(i.devs)]
             b == [a EXCEPT !.as = id]
             c == [b EXCEPT !.pts = DOMAIN i.file.pts[Min(i.devs)]]
  <2>1. Written(i, id) = c
    BY <1>4 DEF Written
  <2> HIDE DEF s
  <2>2. /\ IsImport(a) /\ a.dev = Min(i.devs)
        /\ a.file = i.file /\ a.map = i.map /\ a.start = i.start /\ a.alone = i.alone
        /\ a.conns = s.conns /\ a.devs = s.devs
    BY <1>1 DEF IsImport
  <2> HIDE DEF a
  <2>3. /\ IsImport(b) /\ b.dev = Min(i.devs) /\ b.as = id
        /\ b.file = i.file /\ b.map = i.map /\ b.start = i.start /\ b.alone = i.alone
        /\ b.conns = s.conns /\ b.devs = s.devs
    BY <2>2 DEF IsImport
  <2> HIDE DEF b
  <2>4. /\ IsImport(c) /\ c.dev = Min(i.devs) /\ c.as = id
        /\ c.pts = DOMAIN i.file.pts[Min(i.devs)]
        /\ c.file = i.file /\ c.map = i.map /\ c.start = i.start /\ c.alone = i.alone
        /\ c.conns = s.conns /\ c.devs = s.devs
    BY <2>3 DEF IsImport
  <2> HIDE DEF c
  <2> QED BY <1>1, <1>4, <2>1, <2>4
<1> QED BY <1>2, <1>3, <1>4 DEF Item

\* The item at hand is one of the file's.
LEMMA ItemAtHand ==
    ASSUME NEW i, ImportOK(i)
    PROVE  /\ Item(i) = "connection" => Min(i.conns) \in DOMAIN i.file.conns
           /\ Item(i) = "device" => Min(i.devs) \in DOMAIN i.file.devs
           /\ Item(i) = "point" => /\ i.pts # {} /\ i.dev \in DOMAIN i.file.devs
                                   /\ Min(i.pts) \in DOMAIN i.file.pts[i.dev]
<1>1. /\ DOMAIN i.file.conns \subseteq Nat /\ DOMAIN i.file.devs \subseteq Nat
      /\ \A d \in DOMAIN i.file.devs : DOMAIN i.file.pts[d] \subseteq Nat
  BY DEF ImportOK, FileOK, IsTable
<1>2. ASSUME Item(i) = "connection" PROVE Min(i.conns) \in DOMAIN i.file.conns
  <2>1. i.conns # {} /\ i.conns \in SUBSET Nat
    BY <1>1, <1>2 DEF Item, ImportOK
  <2> QED BY <2>1, MinOfNaturals DEF ImportOK
<1>3. ASSUME Item(i) = "device" PROVE Min(i.devs) \in DOMAIN i.file.devs
  <2>1. i.devs # {} /\ i.devs \in SUBSET Nat
    BY <1>1, <1>3 DEF Item, ImportOK
  <2> QED BY <2>1, MinOfNaturals DEF ImportOK
<1>4. ASSUME Item(i) = "point"
      PROVE  /\ i.pts # {} /\ i.dev \in DOMAIN i.file.devs
             /\ Min(i.pts) \in DOMAIN i.file.pts[i.dev]
  <2>1. i.pts # {}
    BY <1>4 DEF Item
  <2>2. i.dev \in DOMAIN i.file.devs /\ i.pts \subseteq DOMAIN i.file.pts[i.dev]
    BY <2>1 DEF ImportOK
  <2>3. i.pts \in SUBSET Nat
    BY <1>1, <2>2
  <2> QED BY <2>1, <2>2, <2>3, MinOfNaturals
<1> QED BY <1>2, <1>3, <1>4

\* An item is skipped, or written under an id of its table.
LEMMA SkipOK ==
    ASSUME NEW i, IsImport(i), Item(i) # "none", ImportOK(i)
    PROVE  ImportOK(Skip(i)) /\ (SameIds(i) => SameIds(Skip(i)))
<1> DEFINE s == Skip(i)
<1>1. /\ s.file = i.file /\ s.map = i.map /\ s.dev = i.dev /\ s.as = i.as
      /\ s.conns \subseteq i.conns /\ s.devs \subseteq i.devs /\ s.pts \subseteq i.pts
  BY Skipped
<1> HIDE DEF s
<1>2. ImportOK(s)
  BY <1>1 DEF ImportOK
<1>3. SameIds(i) => SameIds(s)
  BY <1>1 DEF SameIds
<1> QED BY <1>2, <1>3 DEF s

LEMMA WrittenOK ==
    ASSUME NEW i, IsImport(i), Item(i) # "none", ImportOK(i), NEW id,
           Item(i) = "connection" => id \in ConnIds,
           Item(i) = "device" => id \in DevIds
    PROVE  /\ ImportOK(Written(i, id))
           /\ SameIds(i) /\ (Item(i) = "connection" => id = Min(i.conns))
                /\ (Item(i) = "device" => id = Min(i.devs)) => SameIds(Written(i, id))
<1> DEFINE w == Written(i, id)
<1>1. /\ w.file = i.file /\ w.conns \subseteq i.conns /\ w.devs \subseteq i.devs
      /\ IF Item(i) = "connection" THEN w.map = WithRow(i.map, Min(i.conns), id)
                                   ELSE w.map = i.map
      /\ IF Item(i) = "device"
         THEN w.dev = Min(i.devs) /\ w.as = id /\ w.pts = DOMAIN i.file.pts[Min(i.devs)]
         ELSE w.dev = i.dev /\ w.as = i.as /\ w.pts \subseteq i.pts
  BY WrittenFields
<1> HIDE DEF w
<1>2. \A c \in DOMAIN w.map : \/ c \in DOMAIN i.map /\ w.map[c] = i.map[c]
                              \/ Item(i) = "connection" /\ c = Min(i.conns) /\ w.map[c] = id
  <2>1. CASE Item(i) = "connection"
    BY <1>1, <2>1 DEF WithRow
  <2>2. CASE Item(i) # "connection"
    BY <1>1, <2>2
  <2> QED BY <2>1, <2>2
<1>3. \A c \in DOMAIN w.map : w.map[c] \in ConnIds
  BY <1>2 DEF ImportOK
<1>4. w.pts # {} => /\ w.dev \in DOMAIN i.file.devs /\ w.pts \subseteq DOMAIN i.file.pts[w.dev]
                    /\ w.as \in DevIds
  <2>1. CASE Item(i) = "device"
    BY <1>1, <2>1, ItemAtHand
  <2>2. CASE Item(i) # "device"
    BY <1>1, <2>2 DEF ImportOK
  <2> QED BY <2>1, <2>2
<1>5. ImportOK(w)
  BY <1>1, <1>3, <1>4 DEF ImportOK
<1>6. ASSUME SameIds(i), Item(i) = "connection" => id = Min(i.conns),
             Item(i) = "device" => id = Min(i.devs)
      PROVE  SameIds(w)
  <2>1. \A c \in DOMAIN w.map : w.map[c] = c
    BY <1>2, <1>6 DEF SameIds
  <2>2. w.pts # {} => w.as = w.dev
    <3>1. CASE Item(i) = "device"
      BY <1>1, <1>6, <3>1
    <3>2. CASE Item(i) # "device"
      BY <1>1, <1>6, <3>2 DEF SameIds
    <3> QED BY <3>1, <3>2
  <2> QED BY <2>1, <2>2 DEF SameIds
<1> QED BY <1>5, <1>6 DEF w

\* The statement an import makes of its item has a row of its table's type.
LEMMA ImportStatementOK ==
    ASSUME NEW i, ImportOK(i), Item(i) # "none", Item(i) = "device" => ~Dangling(i)
    PROVE  StatementOK(Statement(i))
<1> DEFINE st == Statement(i)
<1>1. CASE Item(i) = "connection"
  <2>1. st.op \in {"updateConnection", "createConnection"}
        /\ st.row = i.file.conns[Min(i.conns)]
    BY <1>1 DEF Statement
  <2>2. st.row \in ConnRow
    BY <1>1, <2>1, ItemAtHand DEF ImportOK, FileOK, IsTable
  <2> HIDE DEF st
  <2>3. StatementOK(st)
    BY <2>1, <2>2 DEF StatementOK
  <2> QED BY <2>3 DEF st
<1>2. CASE Item(i) = "point"
  <2> DEFINE row == i.file.pts[i.dev][Min(i.pts)]
  <2>1. st.op \in {"updateDataPoint", "createDataPoint"} /\ st.row = [row EXCEPT !.dev = i.as]
    BY <1>2 DEF Statement
  <2>2. row \in DataPointJSON /\ i.as \in DevIds
    BY <1>2, ItemAtHand DEF ImportOK, FileOK, IsTable
  <2> HIDE DEF st, row
  <2>3. st.row \in DataPointJSON
    BY <2>1, <2>2 DEF DataPointJSON, DevIds
  <2>4. StatementOK(st)
    BY <2>1, <2>3 DEF StatementOK
  <2> QED BY <2>4 DEF st
<1>3. CASE Item(i) = "device"
  <2> DEFINE row == i.file.devs[Min(i.devs)]
  <2>1. st.op \in {"updateDevice", "createDevice"} /\ st.row = [row EXCEPT !.conn = i.map[row.conn]]
    BY <1>3 DEF Statement
  <2>2. row \in DeviceJSON
    BY <1>3, ItemAtHand DEF ImportOK, FileOK, IsTable
  <2>3. i.map[row.conn] \in ConnIds
    BY <1>3 DEF Dangling, ImportOK
  <2> HIDE DEF st, row
  <2>4. st.row \in DeviceJSON
    BY <2>1, <2>2, <2>3 DEF DeviceJSON, ConnIds
  <2>5. StatementOK(st)
    BY <2>1, <2>4 DEF StatementOK
  <2> QED BY <2>5 DEF st
<1> QED BY <1>1, <1>2, <1>3 DEF Item

\* The id it gives the item.
LEMMA ImportIdOf ==
    ASSUME TablesInv, NEW i, Item(i) # "none", Accepts(Statement(i))
    PROVE  LET id == IdOf(Statement(i)) IN
           /\ Item(i) = "connection" => id \in ConnIds /\ (i.found = TRUE => id = Min(i.conns))
           /\ Item(i) = "device" => id \in DevIds /\ (i.found = TRUE => id = Min(i.devs))
<1> DEFINE st == Statement(i)
<1>0. DOMAIN conns \subseteq ConnIds /\ DOMAIN devs \subseteq DevIds
  BY DEF TablesInv, IsTyped
<1>1. ASSUME Item(i) = "connection"
      PROVE  IdOf(st) \in ConnIds /\ (i.found = TRUE => IdOf(st) = Min(i.conns))
  <2>1. st.id = Min(i.conns) /\ (i.found = TRUE => st.op = "updateConnection")
        /\ st.op \in {"updateConnection", "createConnection"}
    BY <1>1 DEF Statement
  <2> HIDE DEF st
  <2>2. Accepts(st)
    BY DEF st
  <2>3. CASE st.op = "updateConnection"
    <3>1. IdOf(st) = st.id /\ st.id \in DOMAIN conns
      BY <2>2, <2>3 DEF IdOf, Accepts, RowsAffected, OnConnection
    <3> QED BY <1>0, <2>1, <3>1
  <2>4. CASE st.op = "createConnection"
    <3>1. IdOf(st) = NewConnId /\ NewConnId \in ConnIds
      BY <2>2, <2>4 DEF IdOf, Accepts, IdsLeft
    <3> QED BY <2>1, <2>4, <3>1
  <2> QED BY <2>1, <2>3, <2>4, Zenon
<1>2. ASSUME Item(i) = "device"
      PROVE  IdOf(st) \in DevIds /\ (i.found = TRUE => IdOf(st) = Min(i.devs))
  <2>1. st.id = Min(i.devs) /\ (i.found = TRUE => st.op = "updateDevice")
        /\ st.op \in {"updateDevice", "createDevice"}
    BY <1>2, Zenon DEF Statement
  <2> HIDE DEF st
  <2>2. Accepts(st)
    BY DEF st
  <2>3. CASE st.op = "updateDevice"
    <3>1. IdOf(st) = st.id /\ st.id \in DOMAIN devs
      BY <2>2, <2>3 DEF IdOf, Accepts, RowsAffected, OnDevice
    <3> QED BY <1>0, <2>1, <3>1
  <2>4. CASE st.op = "createDevice"
    <3>1. IdOf(st) = NewDevId /\ NewDevId \in DevIds
      BY <2>2, <2>4 DEF IdOf, Accepts, IdsLeft
    <3> QED BY <2>1, <2>4, <3>1
  <2> QED BY <2>1, <2>3, <2>4, Zenon
<1> QED BY <1>1, <1>2, Zenon

\* Putting an item back where it is changes no table.
LEMMA PutsBack ==
    ASSUME TablesInv, NEW i, ImportOK(i), Item(i) # "none", Item(i) = "device" => ~Dangling(i),
           Shows(i.file), SameIds(i), i.found = TRUE, Exec(Statement(i))
    PROVE  UNCHANGED dbVars
<1> DEFINE st == Statement(i)
<1>1. /\ conns \in [DOMAIN conns -> ConnRow] /\ devs \in [DOMAIN devs -> DevRow]
      /\ dps \in [DOMAIN dps -> DpRow]
  BY DEF TablesInv, IsTyped
<1>2. CASE Item(i) = "connection"
  <2>1. /\ st.op = "updateConnection" /\ st.id = Min(i.conns)
        /\ st.row = i.file.conns[Min(i.conns)]
    BY <1>2 DEF Statement
  <2>2. st.id \in DOMAIN conns /\ st.row = conns[st.id]
    BY <1>2, <2>1, ItemAtHand DEF Shows
  <2> HIDE DEF st
  <2>3. UpdateConnection(st.id, st.row)
    <3>1. Exec(st)
      BY DEF st
    <3> QED BY <2>1, <3>1 DEF Exec
  <2> QED BY <1>1, <2>2, <2>3, SameRow DEF UpdateConnection, dbVars
<1>3. CASE Item(i) = "device"
  <2> DEFINE row == i.file.devs[Min(i.devs)]
  <2>1. /\ st.op = "updateDevice" /\ st.id = Min(i.devs)
        /\ st.row = [row EXCEPT !.conn = i.map[row.conn]]
    BY <1>3, Zenon DEF Statement
  <2>2. st.id \in DOMAIN devs /\ row = devs[st.id]
    BY <1>3, <2>1, ItemAtHand DEF Shows
  <2>3. i.map[row.conn] = row.conn
    BY <1>3 DEF Dangling, SameIds
  <2> HIDE DEF st, row
  <2>4. st.row = devs[st.id]
    BY <1>1, <2>1, <2>2, <2>3 DEF DevRow
  <2>5. UpdateDevice(st.id, st.row)
    <3>1. Exec(st)
      BY DEF st
    <3> QED BY <2>1, <3>1 DEF Exec
  <2> QED BY <1>1, <2>2, <2>4, <2>5, SameRow, Zenon DEF UpdateDevice, dbVars
<1>4. CASE Item(i) = "point"
  <2> DEFINE row == i.file.pts[i.dev][Min(i.pts)]
  <2>1. /\ st.op = "updateDataPoint" /\ st.id = Min(i.pts)
        /\ st.row = [row EXCEPT !.dev = i.as]
    BY <1>4 DEF Statement
  <2>2. /\ i.dev \in DOMAIN devs /\ i.file.pts[i.dev] = ListByDevice(i.dev)
        /\ Min(i.pts) \in DOMAIN ListByDevice(i.dev)
    BY <1>4, ItemAtHand DEF Shows
  <2>3. st.id \in DOMAIN dps /\ row = dps[st.id]
    BY <2>1, <2>2 DEF ListByDevice, Only
  <2>4. dps[st.id] \in DpRow
    BY <1>1, <2>3
  <2> HIDE DEF st, row
  <2>5. st.row.enabled = dps[st.id].enabled /\ st.row.cfg = dps[st.id].cfg
    BY <2>1, <2>3, <2>4 DEF DpRow
  <2>6. [dev |-> dps[st.id].dev, enabled |-> st.row.enabled, cfg |-> st.row.cfg] = dps[st.id]
    BY <2>4, <2>5 DEF DpRow
  <2>7. UpdateDataPoint(st.id, st.row)
    <3>1. Exec(st)
      BY DEF st
    <3> QED BY <2>1, <3>1 DEF Exec
  <2> QED BY <1>1, <2>3, <2>6, <2>7, SameRow, Zenon DEF UpdateDataPoint, dbVars
<1> QED BY <1>2, <1>3, <1>4 DEF Item

LEMMA FileStays ==
    ASSUME FileInv, version \in Nat, file' = file,
           (UNCHANGED dbVars /\ version' = version) \/ version' = version + 1
    PROVE  FileInv'
<1>1. FileOK(file)'
  BY DEF FileInv, FileOK, IsTable, ConnRow, DeviceJSON, DataPointJSON
<1>2. CASE UNCHANGED dbVars /\ version' = version
  <2>1. Shows(file) => Shows(file)'
    BY <1>2, SamePoints DEF Shows, dbVars
  <2> QED BY <1>1, <1>2, <2>1 DEF FileInv
<1>3. CASE version' = version + 1
  BY <1>1, <1>3 DEF FileInv
<1> QED BY <1>2, <1>3

LEMMA ExportStays ==
    ASSUME SnapInv, NEW x \in Callers, ExportInv(x), loc'[x] = loc[x], pc'[x] = pc[x],
           (UNCHANGED dbVars /\ version' = version) \/ version' = version + 1
    PROVE  ExportInv(x)'
<1>1. loc[x].since \in Nat /\ loc[x].since <= version /\ version \in Nat
  BY DEF SnapInv
<1>2. IsTable(loc[x].conns, Nat, ConnRow)'
  BY DEF ExportInv, IsTable, ConnRow
<1>3. (loc[x].pts = [d \in DOMAIN loc[x].pts |-> loc[x].pts[d]])'
  BY DEF ExportInv
<1>4. (pc[x] = "exportPoints" =>
          /\ IsTable(loc[x].devs, Nat, DeviceJSON) /\ DOMAIN loc[x].pts \subseteq DOMAIN loc[x].devs
          /\ \A d \in DOMAIN loc[x].pts : IsTable(loc[x].pts[d], Nat, DataPointJSON))'
  BY DEF ExportInv, IsTable, DeviceJSON, DataPointJSON
<1>5. (loc[x].since = version =>
          /\ loc[x].conns = conns
          /\ pc[x] = "exportPoints" =>
                /\ loc[x].devs = devs
                /\ \A d \in DOMAIN loc[x].pts : loc[x].pts[d] = ListByDevice(d))'
  <2>1. CASE UNCHANGED dbVars /\ version' = version
    BY <2>1, SameTables DEF ExportInv, dbVars
  <2>2. CASE version' = version + 1
    BY <1>1, <2>2
  <2> QED BY <2>1, <2>2
<1> QED BY <1>2, <1>3, <1>4, <1>5 DEF ExportInv

\* What an import's locals say for themselves.
LEMMA ImportSame ==
    ASSUME NEW x \in Handlers, imp'[x] = imp[x]
    PROVE  /\ ImportOK(imp[x]) => ImportOK(imp[x])'
           /\ Item(imp[x])' = Item(imp[x]) /\ Dangling(imp[x])' = Dangling(imp[x])
           /\ SameIds(imp[x])' = SameIds(imp[x])
<1>1. ImportOK(imp[x]) => ImportOK(imp[x])'
  BY Zenon DEF ImportOK, FileOK, IsTable, ConnRow, DeviceJSON, DataPointJSON, ConnIds, DevIds
<1>2. Item(imp[x])' = Item(imp[x]) /\ Dangling(imp[x])' = Dangling(imp[x])
  BY DEF Item, Dangling
<1>3. SameIds(imp[x])' = SameIds(imp[x])
  BY DEF SameIds
<1> QED BY <1>1, <1>2, <1>3

LEMMA ImportStays ==
    ASSUME version \in Nat, NEW x \in Handlers, ImportInv(x), imp'[x] = imp[x], pc'[x] = pc[x],
           (UNCHANGED dbVars /\ version' = version) \/ version' = version + 1
    PROVE  ImportInv(x)'
<1>1. /\ ImportOK(imp[x]) /\ imp[x].alone \in Int /\ imp[x].alone <= version
      /\ pc[x] = "importPut" /\ Item(imp[x]) = "device" => ~Dangling(imp[x])
      /\ Undisturbed(imp[x]) => /\ Shows(imp[x].file) /\ SameIds(imp[x])
                                /\ pc[x] = "importPut" => imp[x].found = TRUE
  BY DEF ImportInv
<1>2. /\ ImportOK(imp[x])' /\ Item(imp[x])' = Item(imp[x])
      /\ Dangling(imp[x])' = Dangling(imp[x]) /\ SameIds(imp[x])' = SameIds(imp[x])
  BY <1>1, ImportSame
<1>3. ASSUME Undisturbed(imp[x])' PROVE Undisturbed(imp[x]) /\ UNCHANGED dbVars
  BY <1>1, <1>3 DEF Undisturbed
<1>4. UNCHANGED dbVars /\ Shows(imp[x].file) => Shows(imp[x].file)'
  BY SamePoints DEF Shows, dbVars
<1>5. imp'[x].alone \in Int /\ imp'[x].alone <= version'
  BY <1>1
<1>6. (pc[x] = "importPut" /\ Item(imp[x]) = "device" => ~Dangling(imp[x]))'
  BY <1>1, <1>2
<1>7. (Undisturbed(imp[x]) => /\ Shows(imp[x].file) /\ SameIds(imp[x])
                              /\ pc[x] = "importPut" => imp[x].found = TRUE)'
  BY <1>1, <1>2, <1>3, <1>4
<1> QED BY <1>2, <1>5, <1>6, <1>7 DEF ImportInv

\* What a step needs to keep, for a handler that does not take it.
RoundOf(x) ==
    /\ pc[x] = "write" => StatementOK(req[x])
    /\ pc[x] \in {"exportDevs", "exportPoints"} => ExportInv(x)
    /\ pc[x] \in {"import", "importPut"} => ImportInv(x)

LEMMA OtherHandler ==
    ASSUME RoundInv, SnapInv, NEW y \in Handlers, pc'[y] = pc[y], loc'[y] = loc[y],
           req'[y] = req[y], imp'[y] = imp[y],
           (UNCHANGED dbVars /\ version' = version) \/ version' = version + 1
    PROVE  RoundOf(y)'
<1>1. version \in Nat /\ y \in Callers
  BY DEF SnapInv, Callers
<1>2. pc'[y] = "write" => StatementOK(req[y])'
  BY Zenon DEF RoundInv, StatementOK, ConnRow, DeviceJSON, DataPointJSON
<1>3. pc'[y] \in {"exportDevs", "exportPoints"} => ExportInv(y)'
  BY <1>1, ExportStays DEF RoundInv
<1>4. pc'[y] \in {"import", "importPut"} => ImportInv(y)'
  BY <1>1, ImportStays DEF RoundInv
<1> QED BY <1>2, <1>3, <1>4 DEF RoundOf

LEMMA HandlerRound ==
    ASSUME RoundInv, SnapInv, [Next]_vars, NEW x \in Handlers, Handle(x), TablesInv', FileInv',
           \A y \in Handlers \ {x} : req'[y] = req[y] /\ imp'[y] = imp[y],
           RoundOf(x)'
    PROVE  RoundInv'
<1>1. \A y \in Callers \ {x} : pc'[y] = pc[y] /\ loc'[y] = loc[y]
  BY HandlerFrame
<1>2. \A y \in Handlers \ {x} : RoundOf(y)'
  <2> SUFFICES ASSUME NEW y \in Handlers \ {x} PROVE RoundOf(y)'
    OBVIOUS
  <2>1. pc'[y] = pc[y] /\ loc'[y] = loc[y] /\ req'[y] = req[y] /\ imp'[y] = imp[y]
    BY <1>1 DEF Callers
  <2> QED BY <2>1, StepVersion, OtherHandler
<1>3. \A y \in Handlers : RoundOf(y)'
  BY <1>2
<1> QED BY <1>3 DEF RoundInv, RoundOf

\* The rows that the queries of an export give.
LEMMA ListedRows ==
    ASSUME TablesInv
    PROVE  /\ IsTable(conns, Nat, ConnRow) /\ IsTable(devs, Nat, DeviceJSON)
           /\ \A d : IsTable(ListByDevice(d), Nat, DataPointJSON)
<1>1. IsTable(conns, Nat, ConnRow)
  BY DEF TablesInv, IsTyped, IsTable, ConnIds
<1>2. IsTable(devs, Nat, DeviceJSON)
  <2>1. DevRow \subseteq DeviceJSON
    BY DEF DevRow, DeviceJSON, ConnIds
  <2> QED BY <2>1 DEF TablesInv, IsTyped, IsTable, DevIds
<1>3. ASSUME NEW d PROVE IsTable(ListByDevice(d), Nat, DataPointJSON)
  <2>1. DpRow \subseteq DataPointJSON
    BY DEF DpRow, DataPointJSON, DevIds
  <2>2. DOMAIN dps \subseteq Nat /\ \A p \in DOMAIN dps : dps[p] \in DpRow
    BY DEF TablesInv, IsTyped, DpIds
  <2> QED BY <2>1, <2>2 DEF IsTable, ListByDevice, Only
<1> QED BY <1>1, <1>2, <1>3

\* exportConfig reads connections, devices and points, and makes a file of them.
LEMMA ExportRound ==
    ASSUME RoundInv, SnapInv, AcqInv, [Next]_vars, NEW x \in Handlers, Handle(x),
           ExportConns(x) \/ ExportDevs(x) \/ ExportPoints(x) \/ ExportFails(x)
    PROVE  RoundInv'
<1>1. /\ x \in Callers /\ DOMAIN pc = Callers /\ DOMAIN loc = Callers /\ version \in Nat
      /\ TablesInv /\ FileInv /\ IsLocals(loc[x]) /\ DOMAIN loc[x].devs \subseteq Nat
      /\ loc[x].since \in Nat /\ loc[x].since <= version
  BY DEF SnapInv, RoundInv, AcqInv, LocInv, Callers
<1>2. UNCHANGED <<dbVars, version, req, imp>>
  BY DEF ExportConns, ExportDevs, ExportPoints, ExportFails
<1>3. TablesInv'
  BY <1>1, <1>2 DEF dbVars, TablesInv, IsTyped, ConnIds, ConnRow, DevIds, DevRow, DpIds, DpRow
<1>4. file' = file => FileInv'
  BY <1>1, <1>2, FileStays
<1>5. ASSUME FileInv', RoundOf(x)' PROVE RoundInv'
  BY <1>2, <1>3, <1>5, HandlerRound
<1>6. \A d : ListByDevice(d)' = ListByDevice(d)
  BY <1>2, SameTables
<1>7. /\ IsTable(conns, Nat, ConnRow) /\ IsTable(devs, Nat, DeviceJSON)
      /\ \A d : IsTable(ListByDevice(d), Nat, DataPointJSON)
  BY <1>1, ListedRows
<1>8. pc'[x] = "idle" => RoundOf(x)'
  BY DEF RoundOf
<1>9. CASE ExportConns(x)
  <2> DEFINE a == [NoLocals EXCEPT !.since = version]
             b == [a EXCEPT !.conns = conns]
  <2>1. loc' = [loc EXCEPT ![x] = b] /\ pc' = [pc EXCEPT ![x] = "exportDevs"] /\ file' = file
    BY <1>9 DEF ExportConns
  <2>2. b.conns = conns /\ b.pts = <<>>
    BY DEF NoLocals
  <2> HIDE DEF b
  <2>3. loc'[x].conns = conns' /\ loc'[x].pts = <<>> /\ pc'[x] = "exportDevs"
    BY <1>1, <1>2, <2>1, <2>2 DEF dbVars
  <2>4. DOMAIN loc'[x].pts = {} /\ loc'[x].pts = [d \in DOMAIN loc'[x].pts |-> loc'[x].pts[d]]
    BY <2>3
  <2>5. IsTable(loc[x].conns, Nat, ConnRow)'
    BY <1>2, <1>7, <2>3 DEF dbVars, IsTable, ConnRow
  <2>6. ExportInv(x)'
    BY <2>3, <2>4, <2>5 DEF ExportInv
  <2> QED BY <1>4, <1>5, <2>1, <2>3, <2>6 DEF RoundOf
<1>10. CASE ExportDevs(x)
  <2>1. /\ loc' = [loc EXCEPT ![x] = [loc[x] EXCEPT !.devs = devs]] /\ pc[x] = "exportDevs"
        /\ pc' = [pc EXCEPT ![x] = "exportPoints"] /\ file' = file
    BY <1>10 DEF ExportDevs
  <2>2. /\ loc'[x].conns = loc[x].conns /\ loc'[x].pts = loc[x].pts
        /\ loc'[x].since = loc[x].since /\ loc'[x].devs = devs /\ pc'[x] = "exportPoints"
    BY <1>1, <2>1 DEF IsLocals
  <2>3. ExportInv(x)
    BY <2>1 DEF RoundInv
  <2>4. DOMAIN loc'[x].pts = {} /\ loc'[x].pts = [d \in DOMAIN loc'[x].pts |-> loc'[x].pts[d]]
    BY <2>1, <2>2, <2>3 DEF ExportInv
  <2>5. IsTable(loc[x].conns, Nat, ConnRow)' /\ IsTable(loc[x].devs, Nat, DeviceJSON)'
    BY <1>7, <2>2, <2>3 DEF ExportInv, IsTable, ConnRow, DeviceJSON
  <2>6. loc'[x].since = version' => loc'[x].conns = conns' /\ loc'[x].devs = devs'
    BY <1>2, <2>2, <2>3 DEF ExportInv, dbVars
  <2>7. ExportInv(x)'
    BY <2>2, <2>4, <2>5, <2>6 DEF ExportInv
  <2> QED BY <1>4, <1>5, <2>1, <2>2, <2>7 DEF RoundOf
<1>11. CASE ExportPoints(x)
  <2> DEFINE left == DOMAIN loc[x].devs \ DOMAIN loc[x].pts
             read == WithRow(loc[x].pts, Min(left), ListByDevice(Min(left)))
             made == AsFile(loc[x], IF loc[x].since = version THEN version ELSE -1)
  <2>1. pc[x] = "exportPoints" /\ ExportInv(x)
    BY <1>11 DEF ExportPoints, RoundInv
  <2>2. CASE /\ loc' = [loc EXCEPT ![x] = [loc[x] EXCEPT !.pts = read]] /\ UNCHANGED <<pc, file>>
             /\ left # {}
    <3>1. Min(left) \in DOMAIN loc[x].devs
      <4>1. left \in SUBSET Nat
        BY <1>1
      <4>2. Min(left) \in left
        BY <2>2, <4>1, MinOfNaturals
      <4> QED BY <4>2
    <3>2. /\ DOMAIN read = DOMAIN loc[x].pts \cup {Min(left)}
          /\ read = [d \in DOMAIN read |-> read[d]]
          /\ \A d \in DOMAIN read :
                read[d] = IF d = Min(left) THEN ListByDevice(d) ELSE loc[x].pts[d]
      BY Zenon DEF WithRow
    <3> HIDE DEF read, left
    <3>3. /\ loc'[x].conns = loc[x].conns /\ loc'[x].devs = loc[x].devs
          /\ loc'[x].since = loc[x].since /\ loc'[x].pts = read
      BY <1>1, <2>2 DEF IsLocals
    <3>4. IsTable(loc[x].conns, Nat, ConnRow)' /\ IsTable(loc[x].devs, Nat, DeviceJSON)'
      BY <2>1, <3>3 DEF ExportInv, IsTable, ConnRow, DeviceJSON
    <3>5. DOMAIN loc'[x].pts \subseteq DOMAIN loc'[x].devs
      BY <2>1, <3>1, <3>2, <3>3 DEF ExportInv
    <3>6. \A d \in DOMAIN read : IsTable(read[d], Nat, DataPointJSON)
      BY <1>7, <2>1, <3>2 DEF ExportInv
    <3>7. \A d \in DOMAIN loc'[x].pts : IsTable(loc[x].pts[d], Nat, DataPointJSON)'
      BY <3>3, <3>6 DEF IsTable, DataPointJSON
    <3>8. ASSUME loc'[x].since = version'
          PROVE  /\ loc'[x].conns = conns' /\ loc'[x].devs = devs'
                 /\ \A d \in DOMAIN loc'[x].pts : loc'[x].pts[d] = ListByDevice(d)'
      <4>1. loc[x].since = version
        BY <1>2, <3>3, <3>8
      <4>2. /\ loc[x].conns = conns /\ loc[x].devs = devs
            /\ \A d \in DOMAIN loc[x].pts : loc[x].pts[d] = ListByDevice(d)
        BY <2>1, <4>1 DEF ExportInv
      <4>3. \A d \in DOMAIN read : read[d] = ListByDevice(d)
        BY <3>2, <4>2
      <4> QED BY <1>2, <1>6, <3>3, <4>2, <4>3 DEF dbVars
    <3>9. pc'[x] = "exportPoints" /\ (loc[x].pts = [d \in DOMAIN loc[x].pts |-> loc[x].pts[d]])'
      BY <2>1, <2>2, <3>2, <3>3
    <3>10. ExportInv(x)'
      BY <3>4, <3>5, <3>7, <3>8, <3>9 DEF ExportInv
    <3> QED BY <1>4, <1>5, <2>2, <3>9, <3>10 DEF RoundOf
  <2>3. CASE /\ pc' = [pc EXCEPT ![x] = "idle"] /\ file' = made /\ left = {}
    <3>1. /\ made.conns = loc[x].conns /\ made.devs = loc[x].devs /\ made.pts = loc[x].pts
          /\ made.of = IF loc[x].since = version THEN version ELSE -1
      BY DEF AsFile
    <3>2. DOMAIN loc[x].pts = DOMAIN loc[x].devs
      BY <2>1, <2>3 DEF ExportInv
    <3> HIDE DEF made
    <3>3. FileOK(made)
      BY <2>1, <3>1, <3>2 DEF FileOK, ExportInv
    <3>4. FileOK(file)'
      BY <2>3, <3>3 DEF FileOK, IsTable, ConnRow, DeviceJSON, DataPointJSON
    <3>5. file'.of \in Int /\ file'.of <= version'
      BY <1>1, <1>2, <2>3, <3>1
    <3>6. ASSUME file'.of = version' PROVE Shows(file)'
      <4>1. loc[x].since = version
        BY <1>1, <1>2, <2>3, <3>1, <3>6
      <4>2. /\ loc[x].conns = conns /\ loc[x].devs = devs
            /\ \A d \in DOMAIN loc[x].pts : loc[x].pts[d] = ListByDevice(d)
            /\ loc[x].pts = [d \in DOMAIN loc[x].pts |-> loc[x].pts[d]]
        BY <2>1, <4>1 DEF ExportInv
      <4>3. loc[x].pts = [d \in DOMAIN devs |-> ListByDevice(d)]
        BY <3>2, <4>2
      <4>4. [d \in DOMAIN devs' |-> ListByDevice(d)'] = [d \in DOMAIN devs |-> ListByDevice(d)]
        BY <1>2, SamePoints
      <4> QED BY <1>2, <2>3, <3>1, <4>2, <4>3, <4>4 DEF Shows, dbVars
    <3>7. FileInv'
      BY <3>4, <3>5, <3>6 DEF FileInv
    <3>8. pc'[x] = "idle"
      BY <1>1, <2>3
    <3> QED BY <1>5, <1>8, <3>7, <3>8
  <2> QED BY <1>11, <2>2, <2>3 DEF ExportPoints
<1>12. CASE ExportFails(x)
  <2>1. pc'[x] = "idle" /\ file' = file
    BY <1>1, <1>12 DEF ExportFails
  <2> QED BY <1>4, <1>5, <1>8, <2>1
<1> QED BY <1>9, <1>10, <1>11, <1>12

\* What an import's locals must say after a step.
LEMMA ImportNow ==
    ASSUME NEW x \in Handlers, NEW i, imp'[x] = i, ImportOK(i), i.alone \in Int,
           i.alone <= version', pc'[x] = "importPut" /\ Item(i) = "device" => ~Dangling(i),
           i.alone = version' /\ i.file.of = i.start =>
               /\ i.file.conns = conns' /\ i.file.devs = devs'
               /\ i.file.pts = [d \in DOMAIN devs' |-> ListByDevice(d)']
               /\ SameIds(i) /\ (pc'[x] = "importPut" => i.found = TRUE)
    PROVE  ImportInv(x)'
<1>1. ImportOK(imp[x])'
  BY DEF ImportOK, FileOK, IsTable, ConnRow, DeviceJSON, DataPointJSON, ConnIds, DevIds
<1>2. (pc[x] = "importPut" /\ Item(imp[x]) = "device" => ~Dangling(imp[x]))'
  BY Zenon DEF Item, Dangling
<1>3. SameIds(i) => SameIds(imp[x])'
  BY DEF SameIds
<1>4. (Undisturbed(imp[x]) => Shows(imp[x].file))'
  BY DEF Undisturbed, Shows
<1>5. (Undisturbed(imp[x]) => SameIds(imp[x]) /\ (pc[x] = "importPut" => imp[x].found = TRUE))'
  BY <1>3 DEF Undisturbed
<1>6. imp'[x].alone \in Int /\ imp'[x].alone <= version'
  OBVIOUS
<1> QED BY <1>1, <1>2, <1>4, <1>5, <1>6 DEF ImportInv

\* Records that differ in found or alone only.
LEMMA SameItems ==
    ASSUME NEW i, NEW j, j.file = i.file, j.conns = i.conns, j.map = i.map, j.devs = i.devs,
           j.dev = i.dev, j.as = i.as, j.pts = i.pts
    PROVE  /\ Item(j) = Item(i) /\ (Dangling(j) <=> Dangling(i))
           /\ (ImportOK(i) => ImportOK(j)) /\ (SameIds(i) => SameIds(j))
<1>1. Item(j) = Item(i) /\ (Dangling(j) <=> Dangling(i))
  BY DEF Item, Dangling
<1>2. ImportOK(i) => ImportOK(j)
  BY DEF ImportOK
<1>3. SameIds(i) => SameIds(j)
  BY DEF SameIds
<1> QED BY <1>1, <1>2, <1>3

LEMMA WithFound ==
    ASSUME NEW i, IsImport(i), NEW a, NEW j, j = [i EXCEPT !.found = a]
    PROVE  /\ IsImport(j) /\ j.found = a /\ j.file = i.file /\ j.start = i.start
           /\ j.alone = i.alone /\ Item(j) = Item(i) /\ (Dangling(j) <=> Dangling(i))
           /\ (ImportOK(i) => ImportOK(j)) /\ (SameIds(i) => SameIds(j))
<1>1. /\ IsImport(j) /\ j.found = a /\ j.file = i.file /\ j.start = i.start
      /\ j.alone = i.alone /\ j.conns = i.conns /\ j.map = i.map /\ j.devs = i.devs
      /\ j.dev = i.dev /\ j.as = i.as /\ j.pts = i.pts
  BY DEF IsImport
<1> QED BY <1>1, SameItems, Zenon

LEMMA WithAlone ==
    ASSUME NEW i, IsImport(i), NEW a, NEW j, j = [i EXCEPT !.alone = a]
    PROVE  /\ IsImport(j) /\ j.alone = a /\ j.file = i.file /\ j.start = i.start
           /\ j.found = i.found /\ Item(j) = Item(i) /\ (Dangling(j) <=> Dangling(i))
           /\ (ImportOK(i) => ImportOK(j)) /\ (SameIds(i) => SameIds(j))
<1>1. /\ IsImport(j) /\ j.alone = a /\ j.file = i.file /\ j.start = i.start
      /\ j.found = i.found /\ j.conns = i.conns /\ j.map = i.map /\ j.devs = i.devs
      /\ j.dev = i.dev /\ j.as = i.as /\ j.pts = i.pts
  BY DEF IsImport
<1> QED BY <1>1, SameItems, Zenon

\* An import that puts back what is there finds what it looks for.
LEMMA FindsItself ==
    ASSUME NEW i, ImportOK(i), Item(i) # "none", Shows(i.file)
    PROVE  Exists(i) = TRUE
<1>1. CASE Item(i) = "connection"
  BY <1>1, ItemAtHand DEF Shows, Exists
<1>2. CASE Item(i) = "device"
  BY <1>2, ItemAtHand DEF Shows, Exists
<1>3. CASE Item(i) = "point"
  <2>1. i.dev \in DOMAIN devs /\ Min(i.pts) \in DOMAIN ListByDevice(i.dev)
    BY <1>3, ItemAtHand DEF Shows
  <2>2. Min(i.pts) \in DOMAIN dps
    BY <2>1 DEF ListByDevice, Only
  <2> QED BY <1>3, <2>2 DEF Exists
<1> QED BY <1>1, <1>2, <1>3 DEF Item

\* importConfig takes the operator's file as it is.
LEMMA ImportStarts ==
    ASSUME RoundInv, SnapInv, ValidInv, NEW x \in Handlers, Import(x)
    PROVE  RoundOf(x)'
<1>1. /\ x \in Callers /\ DOMAIN pc = Callers /\ DOMAIN imp = Handlers /\ version \in Nat
      /\ FileInv
  BY Zenon DEF SnapInv, RoundInv, ValidInv, Callers
<1>2. /\ UNCHANGED <<dbVars, version>> /\ pc' = [pc EXCEPT ![x] = "import"]
  BY DEF Import
<1> DEFINE a == [NoImport EXCEPT !.file = file]
           b == [a EXCEPT !.conns = DOMAIN file.conns]
           c == [b EXCEPT !.devs = DOMAIN file.devs]
           d == [c EXCEPT !.start = version]
           i == [d EXCEPT !.alone = version]
<1>3. imp' = [imp EXCEPT ![x] = i]
  BY DEF Import
<1>4. IsImport(NoImport) /\ NoImport.map = <<>> /\ NoImport.pts = {}
  BY Zenon DEF NoImport, IsImport
<1>5. IsImport(a) /\ a.file = file /\ a.map = <<>> /\ a.pts = {}
  BY <1>4 DEF IsImport
<1> HIDE DEF a
<1>6. IsImport(b) /\ b.file = file /\ b.map = <<>> /\ b.pts = {} /\ b.conns = DOMAIN file.conns
  BY <1>5 DEF IsImport
<1> HIDE DEF b
<1>7. /\ IsImport(c) /\ c.file = file /\ c.map = <<>> /\ c.pts = {}
      /\ c.conns = DOMAIN file.conns /\ c.devs = DOMAIN file.devs
  BY <1>6 DEF IsImport
<1> HIDE DEF c
<1>8. /\ IsImport(d) /\ d.file = file /\ d.map = <<>> /\ d.pts = {}
      /\ d.conns = DOMAIN file.conns /\ d.devs = DOMAIN file.devs /\ d.start = version
  BY <1>7 DEF IsImport
<1> HIDE DEF d
<1>9. /\ i.file = file /\ i.map = <<>> /\ i.pts = {} /\ i.start = version /\ i.alone = version
      /\ i.conns = DOMAIN file.conns /\ i.devs = DOMAIN file.devs
  BY <1>8 DEF IsImport
<1> HIDE DEF i
<1>10. imp'[x] = i /\ pc'[x] = "import"
  BY <1>1, <1>2, <1>3
<1>11. DOMAIN i.map = {}
  BY <1>9
<1>12. ImportOK(i) /\ SameIds(i)
  BY <1>1, <1>9, <1>11 DEF ImportOK, SameIds, FileInv
<1>13. ASSUME i.file.of = i.start
       PROVE  /\ i.file.conns = conns' /\ i.file.devs = devs'
              /\ i.file.pts = [e \in DOMAIN devs' |-> ListByDevice(e)']
  <2>1. Shows(file)
    BY <1>1, <1>9, <1>13 DEF FileInv
  <2>2. [e \in DOMAIN devs' |-> ListByDevice(e)'] = [e \in DOMAIN devs |-> ListByDevice(e)]
    BY <1>2, SamePoints
  <2> QED BY <1>2, <1>9, <2>1, <2>2 DEF Shows, dbVars
<1>14. ImportInv(x)'
  <2>1. i.alone \in Int /\ i.alone <= version'
    BY <1>1, <1>2, <1>9
  <2> QED BY <1>10, <1>12, <1>13, <2>1, ImportNow, Zenon
<1> QED BY <1>10, <1>14 DEF RoundOf

\* It looks an item up.
LEMMA ImportGets ==
    ASSUME RoundInv, SnapInv, ValidInv, NEW x \in Handlers, ImportGet(x)
    PROVE  RoundOf(x)'
<1> DEFINE i == imp[x]
<1>1. /\ x \in Callers /\ DOMAIN pc = Callers /\ DOMAIN imp = Handlers /\ version \in Nat
      /\ IsImport(i)
  BY DEF SnapInv, ValidInv, ImportValid, Callers
<1>2. /\ UNCHANGED <<dbVars, version>> /\ pc[x] = "import" /\ Item(i) # "none"
  BY DEF ImportGet
<1>3. /\ ImportOK(i) /\ i.alone \in Int /\ i.alone <= version
      /\ Undisturbed(i) => Shows(i.file) /\ SameIds(i)
  BY <1>2 DEF RoundInv, ImportInv
<1>4. Shows(i.file) => /\ i.file.conns = conns' /\ i.file.devs = devs'
                       /\ i.file.pts = [d \in DOMAIN devs' |-> ListByDevice(d)']
  BY <1>2, SamePoints DEF Shows, dbVars
<1>5. ASSUME NEW j, imp' = [imp EXCEPT ![x] = j], ImportOK(j), j.file = i.file, j.start = i.start,
             j.alone \in {i.alone, -1}, SameIds(i) => SameIds(j),
             NEW p \in {"import", "importPut"}, pc'[x] = p,
             p = "importPut" /\ Item(j) = "device" => ~Dangling(j),
             p = "importPut" /\ Undisturbed(i) /\ j.alone = i.alone => j.found = TRUE
      PROVE  RoundOf(x)'
  <2>1. imp'[x] = j
    BY <1>1, <1>5
  <2>2. j.alone \in Int /\ j.alone <= version'
    BY <1>1, <1>2, <1>3, <1>5
  <2>3. ASSUME j.alone = version' /\ j.file.of = j.start
        PROVE  /\ j.file.conns = conns' /\ j.file.devs = devs'
               /\ j.file.pts = [d \in DOMAIN devs' |-> ListByDevice(d)']
               /\ SameIds(j) /\ (pc'[x] = "importPut" => j.found = TRUE)
    <3>1. Undisturbed(i) /\ j.alone = i.alone
      BY <1>1, <1>2, <1>5, <2>3 DEF Undisturbed
    <3> QED BY <1>3, <1>4, <1>5, <2>1, <3>1
  <2>4. ImportInv(x)'
    BY <1>5, <2>1, <2>2, <2>3, ImportNow, Zenon
  <2> QED BY <1>5, <2>1, <2>4 DEF RoundOf
<1>6. CASE imp' = [imp EXCEPT ![x] = Skip(i)] /\ pc' = pc
  <2>1. pc'[x] = "import"
    BY <1>2, <1>6
  <2>2. /\ Skip(i).file = i.file /\ Skip(i).start = i.start /\ Skip(i).alone = i.alone
    BY <1>1, <1>2, Skipped
  <2>3. ImportOK(Skip(i)) /\ (SameIds(i) => SameIds(Skip(i)))
    BY <1>1, <1>2, <1>3, SkipOK
  <2> QED BY <1>5, <1>6, <2>1, <2>2, <2>3, Zenon
<1>7. CASE /\ ~(Item(i) = "device" /\ Dangling(i)) /\ pc' = [pc EXCEPT ![x] = "importPut"]
           /\ imp' = [imp EXCEPT ![x] = [i EXCEPT !.found = Exists(i)]]
  <2>0. PICK f : f = Exists(i)
    OBVIOUS
  <2> DEFINE j == [i EXCEPT !.found = f]
  <2>1. /\ j.found = f /\ j.file = i.file /\ j.start = i.start
        /\ j.alone = i.alone /\ Item(j) = Item(i) /\ (Dangling(j) <=> Dangling(i))
        /\ (ImportOK(i) => ImportOK(j)) /\ (SameIds(i) => SameIds(j))
    BY <1>1, WithFound
  <2>2. Undisturbed(i) => Exists(i) = TRUE
    BY <1>2, <1>3, FindsItself, Zenon
  <2> HIDE DEF j
  <2>3. imp' = [imp EXCEPT ![x] = j]
    BY <1>7, <2>0 DEF j
  <2>4. ImportOK(j) /\ (Item(j) = "device" => ~Dangling(j)) /\ pc'[x] = "importPut"
    BY <1>1, <1>3, <1>7, <2>1
  <2>5. Undisturbed(i) => j.found = TRUE
    BY <2>0, <2>1, <2>2
  <2> HIDE DEF i
  <2> QED BY <1>5, <2>1, <2>3, <2>4, <2>5, Zenon
<1>8. CASE /\ ~(Item(i) = "device" /\ Dangling(i)) /\ pc' = [pc EXCEPT ![x] = "importPut"]
           /\ imp' = [imp EXCEPT ![x].found = FALSE, ![x].alone = -1]
  <2>0. PICK n : n = FALSE
    BY Zenon
  <2> DEFINE k == [i EXCEPT !.found = n]
             j == [k EXCEPT !.alone = -1]
  <2>1. imp' = [imp EXCEPT ![x] = j]
    BY <1>1, <1>8, <2>0
  <2>2. /\ IsImport(k) /\ k.file = i.file /\ k.start = i.start
        /\ Item(k) = Item(i) /\ (Dangling(k) <=> Dangling(i))
        /\ (ImportOK(i) => ImportOK(k)) /\ (SameIds(i) => SameIds(k))
    BY <1>1, WithFound
  <2> HIDE DEF k
  <2>3. /\ j.alone = -1 /\ j.file = k.file /\ j.start = k.start
        /\ Item(j) = Item(k) /\ (Dangling(j) <=> Dangling(k))
        /\ (ImportOK(k) => ImportOK(j)) /\ (SameIds(k) => SameIds(j))
    BY <2>2, WithAlone
  <2> HIDE DEF j
  <2>4. Undisturbed(i) /\ j.alone = i.alone => FALSE
    BY <1>1, <2>3 DEF Undisturbed
  <2>5. /\ ImportOK(j) /\ (Item(j) = "device" => ~Dangling(j)) /\ pc'[x] = "importPut"
        /\ (SameIds(i) => SameIds(j)) /\ j.file = i.file /\ j.start = i.start
    BY <1>1, <1>3, <1>8, <2>2, <2>3
  <2> HIDE DEF i
  <2> QED BY <1>5, <2>1, <2>3, <2>4, <2>5, Zenon
<1> QED BY <1>6, <1>7, <1>8 DEF ImportGet

\* It writes an item, and nothing changes where it puts back what is there.
LEMMA ImportPuts ==
    ASSUME RoundInv, SnapInv, ValidInv, NEW x \in Handlers, ImportPut(x)
    PROVE  RoundOf(x)' /\ TablesInv'
<1> DEFINE i == imp[x]
           st == Statement(i)
<1>1. /\ x \in Callers /\ DOMAIN pc = Callers /\ DOMAIN imp = Handlers /\ version \in Nat
      /\ IsImport(i) /\ TablesInv
  BY DEF SnapInv, ValidInv, RoundInv, ImportValid, Callers
<1>2. pc[x] = "importPut" /\ Item(i) # "none" /\ pc'[x] = "import"
  BY <1>1 DEF ImportPut, ValidInv
<1>3. /\ ImportOK(i) /\ i.alone \in Int /\ i.alone <= version
      /\ Item(i) = "device" => ~Dangling(i)
      /\ Undisturbed(i) => Shows(i.file) /\ SameIds(i) /\ i.found = TRUE
  BY <1>2, Zenon DEF RoundInv, ImportInv
<1>4. UNCHANGED dbVars => TablesInv'
  BY <1>1 DEF dbVars, TablesInv, IsTyped, ConnIds, ConnRow, DevIds, DevRow, DpIds, DpRow
<1>5. UNCHANGED dbVars /\ Shows(i.file) =>
        /\ i.file.conns = conns' /\ i.file.devs = devs'
        /\ i.file.pts = [d \in DOMAIN devs' |-> ListByDevice(d)']
  BY SamePoints DEF Shows, dbVars
<1>6. ASSUME NEW j, imp' = [imp EXCEPT ![x] = j], ImportOK(j), j.file = i.file, j.start = i.start,
             j.alone \in Int, j.alone <= version',
             j.alone = version' => i.alone = version,
             Undisturbed(i) => UNCHANGED dbVars /\ SameIds(j)
      PROVE  RoundOf(x)'
  <2>1. imp'[x] = j
    BY <1>1, <1>6
  <2>2. ASSUME j.alone = version' /\ j.file.of = j.start
        PROVE  /\ j.file.conns = conns' /\ j.file.devs = devs'
               /\ j.file.pts = [d \in DOMAIN devs' |-> ListByDevice(d)'] /\ SameIds(j)
    <3>1. Undisturbed(i)
      BY <1>6, <2>2 DEF Undisturbed
    <3> QED BY <1>3, <1>5, <1>6, <3>1
  <2>3. ImportInv(x)'
    BY <1>2, <1>6, <2>1, <2>2, ImportNow, Zenon
  <2> QED BY <1>2, <2>3 DEF RoundOf
<1>7. CASE /\ Exec(st) /\ version' = version + 1
           /\ imp' = [imp EXCEPT ![x] = [Written(i, IdOf(st)) EXCEPT
                            !.alone = IF @ = version THEN version + 1 ELSE -1]]
  <2> DEFINE id == IdOf(st)
             w == Written(i, id)
             a == IF w.alone = version THEN version + 1 ELSE -1
             j == [w EXCEPT !.alone = a]
  <2>1. StatementOK(st) /\ Accepts(st)
    <3>1. StatementOK(st)
      BY <1>2, <1>3, ImportStatementOK
    <3>2. Accepts(st)
      BY <1>7 DEF Exec
    <3> QED BY <3>1, <3>2
  <2>2. /\ Item(i) = "connection" => id \in ConnIds /\ (i.found = TRUE => id = Min(i.conns))
        /\ Item(i) = "device" => id \in DevIds /\ (i.found = TRUE => id = Min(i.devs))
    BY <1>1, <1>2, <2>1, ImportIdOf, Zenon
  <2>3. imp' = [imp EXCEPT ![x] = j]
    BY <1>7
  <2>4. Undisturbed(i) => UNCHANGED dbVars
    BY <1>1, <1>2, <1>3, <1>7, PutsBack
  <2>5. TablesInv'
    <3> HIDE DEF st
    <3> QED BY <1>1, <1>7, <2>1, ExecTables
  <2> HIDE DEF id, st
  <2>6. /\ IsImport(w) /\ w.file = i.file /\ w.start = i.start /\ w.alone = i.alone
    BY <1>1, <1>2, WrittenFields
  <2>7. ImportOK(w)
    BY <1>1, <1>2, <1>3, <2>2, WrittenOK
  <2>8. Undisturbed(i) => SameIds(w)
    BY <1>1, <1>2, <1>3, <2>2, WrittenOK, Zenon
  <2> HIDE DEF i, w, a
  <2>9. j = [w EXCEPT !.alone = a]
    OBVIOUS
  <2> HIDE DEF j
  <2>10. /\ j.alone = a /\ j.file = w.file /\ j.start = w.start
         /\ (ImportOK(w) => ImportOK(j)) /\ (SameIds(w) => SameIds(j))
    BY <2>6, <2>9, WithAlone
  <2>11. /\ j.alone \in Int /\ j.alone <= version' /\ (j.alone = version' => i.alone = version)
    BY <1>1, <1>7, <2>6, <2>10 DEF a
  <2>12. /\ ImportOK(j) /\ j.file = i.file /\ j.start = i.start
         /\ Undisturbed(i) => UNCHANGED dbVars /\ SameIds(j)
    BY <2>4, <2>6, <2>7, <2>8, <2>10
  <2>13. RoundOf(x)'
    BY <1>6, <2>3, <2>11, <2>12
  <2> QED BY <2>5, <2>13
<1>8. /\ Skip(i).file = i.file /\ Skip(i).start = i.start /\ Skip(i).alone = i.alone
      /\ IsImport(Skip(i)) /\ ImportOK(Skip(i)) /\ (SameIds(i) => SameIds(Skip(i)))
  BY <1>1, <1>2, <1>3, SkipOK, Skipped, Zenon
<1>9. CASE imp' = [imp EXCEPT ![x] = Skip(i)] /\ UNCHANGED <<dbVars, version>>
  <2> DEFINE j == Skip(i)
  <2>1. /\ imp' = [imp EXCEPT ![x] = j] /\ ImportOK(j) /\ j.file = i.file /\ j.start = i.start
        /\ j.alone = i.alone /\ (SameIds(i) => SameIds(j))
    BY <1>8, <1>9
  <2> HIDE DEF i, j
  <2>2. /\ j.alone \in Int /\ j.alone <= version' /\ (j.alone = version' => i.alone = version)
    BY <1>3, <1>9, <2>1
  <2>3. Undisturbed(i) => UNCHANGED dbVars /\ SameIds(j)
    BY <1>3, <1>9, <2>1
  <2> QED BY <1>4, <1>6, <1>9, <2>1, <2>2, <2>3
<1>10. CASE /\ imp' = [imp EXCEPT ![x] = [Skip(i) EXCEPT !.alone = -1]]
            /\ UNCHANGED <<dbVars, version>>
  <2> DEFINE s == Skip(i)
             j == [s EXCEPT !.alone = -1]
  <2>1. /\ imp' = [imp EXCEPT ![x] = j] /\ IsImport(s) /\ ImportOK(s) /\ s.file = i.file
        /\ s.start = i.start /\ (SameIds(i) => SameIds(s))
    BY <1>8, <1>10
  <2> HIDE DEF i, s
  <2>2. /\ j.alone = -1 /\ j.file = s.file /\ j.start = s.start
        /\ (ImportOK(s) => ImportOK(j)) /\ (SameIds(s) => SameIds(j))
    BY <2>1, WithAlone
  <2> HIDE DEF j
  <2>3. /\ j.alone \in Int /\ j.alone <= version' /\ (j.alone = version' => i.alone = version)
    BY <1>1, <1>10, <2>2
  <2>4. Undisturbed(i) => UNCHANGED dbVars /\ SameIds(j)
    BY <1>3, <1>10, <2>1, <2>2
  <2>5. ImportOK(j) /\ j.file = i.file /\ j.start = i.start
    BY <2>1, <2>2
  <2> QED BY <1>4, <1>6, <1>10, <2>1, <2>3, <2>4, <2>5, Zenon
<1> QED BY <1>7, <1>9, <1>10 DEF ImportPut

LEMMA HandleKeepsRound ==
    ASSUME RoundInv, SnapInv, ValidInv, AcqInv, [Next]_vars, NEW x \in Handlers, Handle(x)
    PROVE  RoundInv'
<1>1. /\ x \in Callers /\ DOMAIN pc = Callers /\ DOMAIN req = Handlers /\ DOMAIN imp = Handlers
      /\ version \in Nat /\ TablesInv /\ FileInv
  BY DEF SnapInv, ValidInv, RoundInv, Callers
<1>2. file' = file => FileInv'
  BY <1>1, StepVersion, FileStays
<1>3. UNCHANGED dbVars => TablesInv'
  BY <1>1 DEF dbVars, TablesInv, IsTyped, ConnIds, ConnRow, DevIds, DevRow, DpIds, DpRow
<1>4. ASSUME NEW st, StatementOK(st), Write(x, st) PROVE RoundInv'
  <2>1. /\ req' = [req EXCEPT ![x] = NoReq] /\ UNCHANGED <<imp, file>>
        /\ Exec(st) \/ UNCHANGED dbVars
        /\ pc' = [pc EXCEPT ![x] = "reloadDevs"] \/ pc' = [pc EXCEPT ![x] = "idle"]
    BY <1>4, Zenon DEF Write
  <2>2. TablesInv'
    BY <1>1, <1>3, <1>4, <2>1, ExecTables
  <2>3. pc'[x] \in {"reloadDevs", "idle"} /\ \A y \in Handlers \ {x} : req'[y] = req[y]
    BY <1>1, <2>1
  <2>4. RoundOf(x)'
    BY <2>3 DEF RoundOf
  <2> QED BY <1>2, <2>1, <2>2, <2>3, <2>4, HandlerRound
<1>5. \A st \in Requests : StatementOK(st)
  BY RequestsAssumption DEF StatementOK
<1>6. CASE \E st \in Requests : OneStatement(x, st)
  BY <1>4, <1>5, <1>6 DEF OneStatement
<1>7. CASE AfterLook(x)
  <2>1. StatementOK(req[x])
    BY <1>7 DEF AfterLook, RoundInv
  <2> QED BY <1>4, <1>7, <2>1 DEF AfterLook
<1>8. CASE \E st \in Requests : Look(x, st)
  <2>1. PICK st \in Requests : Look(x, st)
    BY <1>8
  <2>2. /\ req' = [req EXCEPT ![x] = st] /\ pc' = [pc EXCEPT ![x] = "write"]
        /\ UNCHANGED <<dbVars, imp, file>>
    BY <2>1 DEF Look
  <2>3. pc'[x] = "write" /\ req'[x] = st /\ \A y \in Handlers \ {x} : req'[y] = req[y]
    BY <1>1, <2>2
  <2>4. StatementOK(st)
    BY <1>5
  <2>5. StatementOK(req[x])'
    BY <2>3, <2>4 DEF StatementOK, ConnRow, DeviceJSON, DataPointJSON
  <2>6. RoundOf(x)'
    BY <2>3, <2>5 DEF RoundOf
  <2> QED BY <1>2, <1>3, <2>2, <2>3, <2>6, HandlerRound
<1>9. CASE ExportConns(x) \/ ExportDevs(x) \/ ExportPoints(x) \/ ExportFails(x)
  BY <1>9, ExportRound
<1>10. ASSUME NEW i, imp' = [imp EXCEPT ![x] = i], UNCHANGED <<req, file>>, TablesInv', RoundOf(x)'
       PROVE  RoundInv'
  <2>1. \A y \in Handlers \ {x} : imp'[y] = imp[y]
    BY <1>1, <1>10
  <2> QED BY <1>2, <1>10, <2>1, HandlerRound
<1>11. CASE Import(x)
  <2>1. (\E i : imp' = [imp EXCEPT ![x] = i]) /\ UNCHANGED <<req, file, dbVars>>
    BY <1>11, Zenon DEF Import
  <2> QED BY <1>3, <1>10, <1>11, <2>1, ImportStarts, Zenon
<1>12. CASE ImportGet(x)
  <2>1. UNCHANGED <<req, file, dbVars>> /\ RoundOf(x)' /\ TablesInv'
    BY <1>3, <1>12, ImportGets DEF ImportGet
  <2>2. ASSUME NEW a, NEW b, imp' = [imp EXCEPT ![x].found = a, ![x].alone = b]
        PROVE  imp' = [imp EXCEPT ![x] = [[imp[x] EXCEPT !.found = a] EXCEPT !.alone = b]]
    BY <1>1, <2>2, Zenon
  <2>3. \E i : imp' = [imp EXCEPT ![x] = i]
    BY <1>12, <2>2, Zenon DEF ImportGet
  <2> QED BY <1>10, <2>1, <2>3, Zenon
<1>13. CASE ImportPut(x)
  <2>1. (\E i : imp' = [imp EXCEPT ![x] = i]) /\ UNCHANGED <<req, file>>
    BY <1>13 DEF ImportPut
  <2> QED BY <1>10, <1>13, <2>1, ImportPuts, Zenon
<1>14. CASE ImportDone(x)
  <2>1. /\ imp' = [imp EXCEPT ![x] = NoImport] /\ pc' = [pc EXCEPT ![x] = "reloadDevs"]
        /\ UNCHANGED <<req, file, dbVars>>
    BY <1>14 DEF ImportDone
  <2>2. pc'[x] = "reloadDevs"
    BY <1>1, <2>1
  <2>3. RoundOf(x)'
    BY <2>2 DEF RoundOf
  <2> QED BY <1>3, <1>10, <2>1, <2>3, Zenon
<1> QED
  BY <1>6, <1>7, <1>8, <1>9, <1>11, <1>12, <1>13, <1>14, Zenon DEF Handle

LEMMA RoundStep == AcqInv /\ SnapInv /\ ValidInv /\ RoundInv /\ [Next]_vars => RoundInv'
<1> SUFFICES ASSUME AcqInv, SnapInv, ValidInv, RoundInv, [Next]_vars PROVE RoundInv'
  OBVIOUS
<1>1. /\ DOMAIN pc = Callers /\ DOMAIN loc = Callers /\ version \in Nat /\ TablesInv /\ FileInv
  BY DEF SnapInv, RoundInv
<1>2. UNCHANGED dbVars => TablesInv'
  BY <1>1 DEF dbVars, TablesInv, IsTyped, ConnIds, ConnRow, DevIds, DevRow, DpIds, DpRow
<1>3. file' = file => FileInv'
  BY <1>1, StepVersion, FileStays
  \* Reload, a poller and main leave the handlers' files and imports alone.
<1>4. ASSUME UNCHANGED <<dbVars, req, imp, file>>,
             \A y \in Handlers : (pc'[y] = pc[y] /\ loc'[y] = loc[y])
                                 \/ pc'[y] \in ReloadPCs \cup {"idle"}
      PROVE  RoundInv'
  <2>1. ASSUME NEW y \in Handlers PROVE RoundOf(y)'
    <3>1. CASE pc'[y] = pc[y] /\ loc'[y] = loc[y]
      BY <1>4, <3>1, StepVersion, OtherHandler
    <3>2. CASE pc'[y] \in ReloadPCs \cup {"idle"}
      BY <3>2 DEF RoundOf, ReloadPCs
    <3> QED BY <1>4, <3>1, <3>2
  <2> QED BY <1>2, <1>3, <1>4, <2>1 DEF RoundInv, RoundOf
<1>5. CASE \E x \in Handlers : Handle(x)
  BY <1>5, HandleKeepsRound
<1>6. CASE \E x \in Callers : Reload(x) /\ UNCHANGED apiVars
  <2>1. PICK x \in Callers : Reload(x) /\ UNCHANGED apiVars
    BY <1>6
  <2>2. /\ UNCHANGED dbVars
        /\ \E l : loc' = [loc EXCEPT ![x] = l]
        /\ \/ pc' = pc /\ pc[x] = "reloadPoints"
           \/ \E p \in {"reloadConns", "reloadPoints", "idle"} : pc' = [pc EXCEPT ![x] = p]
    <3>1. CASE ReloadDevs(x)
      BY <3>1, Zenon DEF ReloadDevs
    <3>2. CASE ReloadConns(x)
      BY <3>2, Zenon DEF ReloadConns
    <3>3. CASE ReloadPoints(x)
      BY <3>3, Zenon DEF ReloadPoints
    <3>4. CASE ReloadFails(x)
      BY <3>4, Zenon DEF ReloadFails
    <3>5. CASE ReloadApply(x)
      BY <3>5, Zenon DEF ReloadApply
    <3> QED BY <2>1, <3>1, <3>2, <3>3, <3>4, <3>5 DEF Reload
  <2>3. \A y \in Callers \ {x} : pc'[y] = pc[y] /\ loc'[y] = loc[y]
    BY <1>1, <2>2
  <2>4. pc'[x] \in ReloadPCs \cup {"idle"}
    BY <1>1, <2>2 DEF ReloadPCs
  <2> QED BY <1>4, <2>1, <2>2, <2>3, <2>4 DEF apiVars, Callers
<1>7. CASE \E s \in DOMAIN pollers : Poll(s) /\ UNCHANGED apiVars
  BY <1>4, <1>7, Zenon DEF Poll, apiVars
<1>8. CASE (Serve \/ Stop \/ Shutdown \/ Wait) /\ UNCHANGED apiVars
  BY <1>4, <1>8, Zenon DEF Serve, Stop, Shutdown, Wait, apiVars
<1>9. CASE Restart
  <2>1. /\ UNCHANGED <<dbVars, version, file>>
        /\ pc' = [x \in Callers |-> IF x = Main THEN "reloadDevs" ELSE "idle"]
    BY <1>9 DEF Restart
  <2>2. \A y \in Handlers : RoundOf(y)'
    BY <2>1 DEF RoundOf, Callers
  <2> QED BY <1>2, <1>3, <2>1, <2>2 DEF RoundInv, RoundOf
<1>10. CASE UNCHANGED vars
  BY <1>4, <1>10 DEF vars, acqVars, apiVars
<1> QED BY <1>5, <1>6, <1>7, <1>8, <1>9, <1>10 DEF Next

LEMMA RoundInit == Init => RoundInv
<1> SUFFICES ASSUME Init PROVE RoundInv
  OBVIOUS
<1>1. /\ IsTyped(conns, ConnIds, ConnRow) /\ IsTyped(devs, DevIds, DevRow)
      /\ IsTyped(dps, DpIds, DpRow)
  BY DEF Init, DbInit, IsTyped
<1>2. connSeq \in 0 .. MaxConn /\ dpSeq \in 0 .. MaxDp
  <2>1. /\ DOMAIN conns \cup {0} \in SUBSET (0 .. MaxConn)
        /\ DOMAIN dps \cup {0} \in SUBSET (0 .. MaxDp)
    BY <1>1, DbAssumption DEF IsTyped, ConnIds, DpIds
  <2> QED BY <2>1, MaxOfBounded, DbAssumption, Zenon DEF Init, DbInit
<1>3. FileInv
  <2>1. file \in Files /\ version = 0
    BY DEF Init, ApiInit, AcqInit
  <2>2. FileOK(file) /\ file.of = -1
    BY <2>1, FilesAssumption DEF FileOK
  <2> QED BY <2>1, <2>2 DEF FileInv
<1>4. \A x \in Handlers : pc[x] \in ReloadPCs \cup {"idle"}
  BY DEF Init, AcqInit, Callers, ReloadPCs
<1> QED BY <1>1, <1>2, <1>3, <1>4, Zenon DEF RoundInv, TablesInv, ReloadPCs

\* A restore of what was exported changes nothing (RoundTrip): while an import of a file that
\* shows the tables as they are runs undisturbed, they hold what the file says, for every
\* number of connections, devices and data points and every interleaving of the handlers.
THEOREM ImportRestores == Spec => []RoundTrip
<1>1. RoundInv => RoundTrip
  <2> SUFFICES ASSUME RoundInv, NEW x \in Handlers, pc[x] \in {"import", "importPut"},
                      imp[x].alone = version, imp[x].file.of = imp[x].start
               PROVE  /\ conns = imp[x].file.conns /\ devs = imp[x].file.devs
                      /\ [d \in DOMAIN devs |-> ListByDevice(d)] = imp[x].file.pts
    BY DEF RoundTrip
  <2>1. Shows(imp[x].file)
    BY DEF RoundInv, ImportInv, Undisturbed
  <2> QED BY <2>1 DEF Shows
<1> QED
  BY <1>1, AcqInvAlways, SnapInit, SnapStep, ValidInit, ValidStep, RoundInit, RoundStep, PTL
  DEF Spec

(***************************************************************************)
(* Types.                                                                  *)
(***************************************************************************)

CallerPCs == {"idle", "write", "exportDevs", "exportPoints", "import", "importPut"} \cup ReloadPCs
PollerPCs == {"top", "connect", "device", "read"}
CallerOK(x) ==
    /\ pc[x] \in CallerPCs
    /\ pc[x] = "reloadPoints" => DOMAIN loc[x].conns \subseteq ConnIds
ManagerOK ==
    /\ DOMAIN running \subseteq ConnIds /\ \A c \in DOMAIN running : running[c].slot \in Slots
    /\ DOMAIN pollers \subseteq Slots /\ \A s \in DOMAIN pollers : pollers[s].pc \in PollerPCs
TypeInv ==
    /\ phase \in {"starting", "serving", "waiting", "closed"} /\ stopped \in BOOLEAN
    /\ events \in 0 .. MaxEvents
    /\ pc = [x \in Callers |-> pc[x]] /\ \A x \in Callers : CallerOK(x)
    /\ ManagerOK
    /\ applied \in Int /\ applied >= -1

LEMMA StepEvents == ASSUME [Next]_vars PROVE Event \/ events' = events
<1>1. ASSUME NEW x \in Handlers, Handle(x) PROVE Event \/ events' = events
  <2>1. CASE \E st \in Requests : OneStatement(x, st) \/ Look(x, st)
    BY <2>1, Zenon DEF OneStatement, Look
  <2>2. CASE AfterLook(x)
    BY <2>2, Zenon DEF AfterLook
  <2>3. CASE ExportConns(x) \/ ExportDevs(x) \/ ExportPoints(x) \/ ExportFails(x)
    BY <2>3, Zenon DEF ExportConns, ExportDevs, ExportPoints, ExportFails
  <2>4. CASE Import(x) \/ ImportGet(x) \/ ImportDone(x)
    BY <2>4, Zenon DEF Import, ImportGet, ImportDone
  <2>5. CASE ImportPut(x)
    BY <2>5, Zenon DEF ImportPut
  <2> QED BY <1>1, <2>1, <2>2, <2>3, <2>4, <2>5, Zenon DEF Handle
<1>2. ASSUME NEW x \in Callers, Reload(x) PROVE Event \/ events' = events
  BY <1>2, Zenon DEF Reload, ReloadDevs, ReloadConns, ReloadPoints, ReloadFails, ReloadApply
<1>3. ASSUME NEW s, Poll(s) PROVE events' = events
  BY <1>3, Zenon DEF Poll
<1>4. CASE Serve \/ Stop \/ Shutdown \/ Wait
  BY <1>4, Zenon DEF Serve, Stop, Shutdown, Wait
<1>5. CASE Restart
  BY <1>5, Zenon DEF Restart
<1>6. CASE UNCHANGED vars
  BY <1>6 DEF vars, acqVars
<1> QED BY <1>1, <1>2, <1>3, <1>4, <1>5, <1>6, Zenon DEF Next

\* Where a handler goes.
LEMMA HandlerGoes ==
    ASSUME NEW x \in Handlers, Handle(x)
    PROVE  pc' = pc \/ \E p \in CallerPCs \ {"reloadPoints"} : pc' = [pc EXCEPT ![x] = p]
<1> DEFINE To(p) == pc' = [pc EXCEPT ![x] = p]
<1>1. {"idle", "write", "exportDevs", "exportPoints", "import", "importPut", "reloadDevs"}
         \subseteq CallerPCs \ {"reloadPoints"}
  BY DEF CallerPCs, ReloadPCs
<1>2. CASE \E st \in Requests : OneStatement(x, st)
  <2>1. To("reloadDevs") \/ To("idle")
    BY <1>2, Zenon DEF OneStatement, Write
  <2> QED BY <1>1, <2>1
<1>3. CASE AfterLook(x)
  <2>1. To("reloadDevs") \/ To("idle")
    BY <1>3, Zenon DEF AfterLook, Write
  <2> QED BY <1>1, <2>1
<1>4. CASE \E st \in Requests : Look(x, st)
  <2>1. To("write")
    BY <1>4, Zenon DEF Look
  <2> QED BY <1>1, <2>1
<1>5. CASE ExportConns(x) \/ ExportDevs(x) \/ ExportPoints(x) \/ ExportFails(x)
  <2>1. To("exportDevs") \/ To("exportPoints") \/ To("idle") \/ pc' = pc
    BY <1>5, Zenon DEF ExportConns, ExportDevs, ExportPoints, ExportFails
  <2> QED BY <1>1, <2>1
<1>6. CASE Import(x) \/ ImportGet(x) \/ ImportDone(x)
  <2>1. To("import") \/ To("importPut") \/ To("reloadDevs") \/ pc' = pc
    BY <1>6, Zenon DEF Import, ImportGet, ImportDone
  <2> QED BY <1>1, <2>1
<1>7. CASE ImportPut(x)
  <2>1. To("import")
    BY <1>7, Zenon DEF ImportPut
  <2> QED BY <1>1, <2>1
<1> QED
  BY <1>2, <1>3, <1>4, <1>5, <1>6, <1>7, Zenon DEF Handle

LEMMA ReloadCallers ==
    ASSUME TypeInv, SnapInv, RoundInv, AcqInv, NEW x \in Callers, Reload(x)
    PROVE  pc' = [y \in Callers |-> pc'[y]] /\ \A y \in Callers : CallerOK(y)'
<1>1. /\ DOMAIN pc = Callers /\ DOMAIN loc = Callers /\ pc = [y \in Callers |-> pc[y]]
      /\ \A y \in Callers : CallerOK(y)
      /\ IsLocals(loc[x]) /\ DOMAIN conns \subseteq ConnIds
  BY DEF TypeInv, SnapInv, RoundInv, TablesInv, IsTyped, AcqInv, LocInv
<1>2. \A y \in Callers \ {x} : pc'[y] = pc[y] /\ loc'[y] = loc[y] => CallerOK(y)'
  BY <1>1 DEF CallerOK, CallerPCs, ReloadPCs, ConnIds
<1>3. ASSUME NEW p \in CallerPCs, NEW l, pc' = [pc EXCEPT ![x] = p], loc' = [loc EXCEPT ![x] = l],
             p = "reloadPoints" => DOMAIN l.conns \subseteq ConnIds
      PROVE  pc' = [y \in Callers |-> pc'[y]] /\ \A y \in Callers : CallerOK(y)'
  <2>1. /\ pc'[x] = p /\ loc'[x] = l
        /\ \A y \in Callers \ {x} : pc'[y] = pc[y] /\ loc'[y] = loc[y]
    BY <1>1, <1>3
  <2>2. CallerOK(x)'
    BY <1>3, <2>1 DEF CallerOK, CallerPCs, ReloadPCs, ConnIds
  <2>3. pc' = [y \in Callers |-> pc'[y]]
    BY <1>1, <1>3
  <2> QED BY <1>2, <2>1, <2>2, <2>3
<1>4. CASE ReloadDevs(x)
  <2>1. PICK l : loc' = [loc EXCEPT ![x] = l] /\ pc' = [pc EXCEPT ![x] = "reloadConns"]
    BY <1>4 DEF ReloadDevs
  <2> QED BY <1>3, <2>1 DEF CallerPCs, ReloadPCs
<1>5. CASE ReloadConns(x)
  <2> DEFINE l == [loc[x] EXCEPT !.conns = ListEnabled(conns)]
  <2>1. loc' = [loc EXCEPT ![x] = l] /\ pc' = [pc EXCEPT ![x] = "reloadPoints"]
    BY <1>5 DEF ReloadConns
  <2>2. l.conns = ListEnabled(conns)
    BY <1>1 DEF IsLocals
  <2>3. DOMAIN ListEnabled(conns) \subseteq ConnIds
    BY <1>1 DEF ListEnabled, Only
  <2> HIDE DEF l
  <2>4. "reloadPoints" \in CallerPCs
    BY DEF CallerPCs, ReloadPCs
  <2> QED BY <1>3, <2>1, <2>2, <2>3, <2>4
<1>6. CASE ReloadPoints(x)
  <2> DEFINE d == Min(ToRead(loc[x]))
             l == [loc[x] EXCEPT !.pts = WithRow(loc[x].pts, d, ListEnabledByDevice(d))]
  <2>1. loc' = [loc EXCEPT ![x] = l] /\ pc' = pc
    BY <1>6 DEF ReloadPoints
  <2>2. l.conns = loc[x].conns
    BY <1>1 DEF IsLocals
  <2> HIDE DEF l
  <2>3. loc'[x] = l /\ \A y \in Callers \ {x} : pc'[y] = pc[y] /\ loc'[y] = loc[y]
    BY <1>1, <2>1
  <2>4. CallerOK(x)'
    BY <1>1, <2>1, <2>2, <2>3 DEF CallerOK, CallerPCs, ReloadPCs, ConnIds
  <2> QED BY <1>1, <1>2, <2>1, <2>3, <2>4
<1>7. CASE ReloadFails(x) \/ ReloadApply(x)
  <2>1. loc' = [loc EXCEPT ![x] = NoLocals] /\ pc' = [pc EXCEPT ![x] = "idle"]
    BY <1>7, Zenon DEF ReloadFails, ReloadApply
  <2> QED BY <1>3, <2>1 DEF CallerPCs
<1> QED BY <1>4, <1>5, <1>6, <1>7 DEF Reload

\* Reload starts pollers in free slots, for connections that exist.
LEMMA ApplyManager ==
    ASSUME TypeInv, SnapInv, AcqInv, NEW x \in Callers, ReloadApply(x)
    PROVE  ManagerOK'
<1> DEFINE wanted == Wanted(x)
           kept == KeptBy(x)
           new == DOMAIN wanted \ kept
           free == Slots \ (DOMAIN pollers \cup {running[c].slot : c \in DOMAIN running})
           slot == CHOOSE f \in Injections(new, free) : TRUE
           dropped == {running[c].slot : c \in DOMAIN running \ kept}
           old(s) == [pollers[s] EXCEPT !.cancelled = @ \/ s \in dropped]
           owner(s) == CHOOSE c \in new : slot[c] = s
<1>1. /\ Injections(new, free) # {}
      /\ running' = [c \in DOMAIN wanted |->
                       IF c \in kept THEN running[c]
                       ELSE [slot |-> slot[c], conn |-> wanted[c].conn,
                             devices |-> wanted[c].devices]]
      /\ pollers' = [s \in DOMAIN pollers \cup {slot[c] : c \in new} |->
                       IF s \in DOMAIN pollers THEN old(s)
                       ELSE NewPoller(owner(s), wanted[owner(s)])]
      /\ pc[x] = "reloadPoints"
  BY Zenon DEF ReloadApply, Wanted, KeptBy
<1>2. slot \in [new -> free]
  BY <1>1 DEF Injections
<1>3. DOMAIN wanted \subseteq ConnIds
  <2>1. \A d \in DOMAIN loc[x].pts : loc[x].devs[d].conn \in DOMAIN loc[x].conns
    BY <1>1 DEF SnapInv, SnapOK
  <2>2. DOMAIN loc[x].conns \subseteq ConnIds
    BY <1>1 DEF TypeInv, CallerOK
  <2> QED BY <2>1, <2>2 DEF Wanted, Grouped
<1>4. kept \subseteq DOMAIN running
  BY DEF Kept, KeptBy
<1>5. free \subseteq Slots
  OBVIOUS
<1>6. \A s \in DOMAIN pollers : old(s).pc = pollers[s].pc
  <2> SUFFICES ASSUME NEW s \in DOMAIN pollers PROVE old(s).pc = pollers[s].pc
    OBVIOUS
  <2>1. PICK v : v = (pollers[s].cancelled \/ s \in dropped)
    OBVIOUS
  <2>2. old(s) = [pollers[s] EXCEPT !.cancelled = v]
    BY <2>1
  <2>3. IsPoller(pollers[s])
    BY DEF AcqInv, PollerInv
  <2> HIDE DEF old
  <2> QED BY <2>2, <2>3 DEF IsPoller
<1>7. \A c, w : NewPoller(c, w).pc = "top"
  BY DEF NewPoller
<1> HIDE DEF wanted, kept, free, slot, dropped, old, owner
<1>8. DOMAIN running' \subseteq ConnIds
  BY <1>1, <1>3
<1>9. ASSUME NEW c \in DOMAIN running' PROVE running'[c].slot \in Slots
  <2>1. CASE c \in kept
    <3>1. running'[c] = running[c] /\ c \in DOMAIN running
      BY <1>1, <1>4, <1>9, <2>1
    <3> QED BY <3>1 DEF TypeInv, ManagerOK
  <2>2. CASE c \notin kept
    <3>1. running'[c].slot = slot[c] /\ c \in new
      BY <1>1, <1>9, <2>2
    <3> QED BY <1>2, <1>5, <3>1
  <2> QED BY <2>1, <2>2
<1>10. DOMAIN pollers' \subseteq Slots
  <2>1. DOMAIN pollers' = DOMAIN pollers \cup {slot[c] : c \in new}
    BY <1>1
  <2> QED BY <1>2, <1>5, <2>1 DEF TypeInv, ManagerOK
<1>11. ASSUME NEW s \in DOMAIN pollers' PROVE pollers'[s].pc \in PollerPCs
  <2>1. CASE s \in DOMAIN pollers
    <3>1. pollers'[s] = old(s)
      BY <1>1, <1>11, <2>1
    <3> QED BY <1>6, <2>1, <3>1 DEF TypeInv, ManagerOK
  <2>2. CASE s \notin DOMAIN pollers
    <3>1. pollers'[s] = NewPoller(owner(s), wanted[owner(s)])
      BY <1>1, <1>11, <2>2
    <3> QED BY <1>7, <3>1 DEF PollerPCs
  <2> QED BY <2>1, <2>2
<1> QED BY <1>8, <1>9, <1>10, <1>11 DEF ManagerOK, ConnIds, Slots, PollerPCs

\* A poller goes on at one of its places, or ends.
LEMMA PollManager ==
    ASSUME TypeInv, AcqInv, NEW s \in DOMAIN pollers, Poll(s)
    PROVE  ManagerOK'
<1>1. IsPoller(pollers[s]) /\ running' = running
  BY DEF AcqInv, PollerInv, Poll, mgrVars
<1>2. ASSUME End(s) PROVE ManagerOK'
  <2>1. /\ DOMAIN pollers' \subseteq DOMAIN pollers
        /\ \A t \in DOMAIN pollers' : pollers'[t] = pollers[t]
    BY <1>2 DEF End, Without
  <2> QED BY <1>1, <2>1 DEF TypeInv, ManagerOK, ConnIds, Slots, PollerPCs
<1>3. ASSUME NEW q, pollers' = [pollers EXCEPT ![s] = q], q.pc \in PollerPCs PROVE ManagerOK'
  <2>1. /\ DOMAIN pollers' = DOMAIN pollers /\ pollers'[s] = q
        /\ \A t \in DOMAIN pollers \ {s} : pollers'[t] = pollers[t]
    BY <1>3
  <2> QED BY <1>1, <1>3, <2>1 DEF TypeInv, ManagerOK, ConnIds, Slots, PollerPCs
<1>4. ASSUME NEW p \in PollerPCs, NEW d, Goto(s, p, d) PROVE ManagerOK'
  <2> DEFINE r == [pollers[s] EXCEPT !.pc = p]
             q == [r EXCEPT !.at = d]
  <2>1. pollers' = [pollers EXCEPT ![s] = q]
    BY <1>4 DEF Goto
  <2>2. IsPoller(r) /\ r.pc = p
    BY <1>1 DEF IsPoller
  <2> HIDE DEF r
  <2>3. q.pc = p
    BY <2>2 DEF IsPoller
  <2> HIDE DEF q
  <2> QED BY <1>3, <1>4, <2>1, <2>3
<1>5. /\ "top" \in PollerPCs /\ "connect" \in PollerPCs
      /\ "device" \in PollerPCs /\ "read" \in PollerPCs
  BY DEF PollerPCs
<1>6. CASE Connect(s)
  <2>0. PICK v : v = TRUE
    OBVIOUS
  <2> DEFINE up == [pollers[s] EXCEPT !.connected = v]
             r == [up EXCEPT !.pc = "device"]
             q == [r EXCEPT !.at = FirstDevice(s)]
  <2>1. pollers' = [pollers EXCEPT ![s] = q]
    BY <1>6, <2>0 DEF Connect
  <2>2. IsPoller(up)
    BY <1>1 DEF IsPoller
  <2> HIDE DEF up
  <2>3. IsPoller(r) /\ r.pc = "device"
    BY <2>2 DEF IsPoller
  <2> HIDE DEF r
  <2>4. q.pc = "device"
    BY <2>3 DEF IsPoller
  <2> HIDE DEF q
  <2> QED BY <1>3, <1>5, <2>1, <2>4
<1>7. CASE PollTop(s)
  BY <1>2, <1>4, <1>5, <1>7 DEF PollTop
<1>8. CASE ConnectFails(s)
  BY <1>4, <1>5, <1>8 DEF ConnectFails
<1>9. CASE PollDevice(s)
  BY <1>2, <1>4, <1>5, <1>9 DEF PollDevice
<1>10. CASE ReadDevice(s)
  BY <1>4, <1>5, <1>10 DEF ReadDevice, NextDevice
<1> QED BY <1>6, <1>7, <1>8, <1>9, <1>10 DEF Poll

LEMMA TypeStep == AcqInv /\ SnapInv /\ RoundInv /\ TypeInv /\ [Next]_vars => TypeInv'
<1> SUFFICES ASSUME AcqInv, SnapInv, RoundInv, TypeInv, [Next]_vars PROVE TypeInv'
  OBVIOUS
<1>1. events' \in 0 .. MaxEvents
  BY StepEvents, AcquisitionAssumption DEF TypeInv, Event
<1>2. running' = running /\ pollers' = pollers => ManagerOK'
  BY DEF TypeInv, ManagerOK, ConnIds, Slots, PollerPCs
<1>3. ASSUME pc' = pc, loc' = loc
      PROVE  pc' = [y \in Callers |-> pc'[y]] /\ \A y \in Callers : CallerOK(y)'
  BY <1>3 DEF TypeInv, CallerOK, CallerPCs, ReloadPCs, ConnIds
<1>4. ASSUME UNCHANGED <<phase, stopped, applied>>, ManagerOK',
             pc' = [y \in Callers |-> pc'[y]] /\ \A y \in Callers : CallerOK(y)'
      PROVE  TypeInv'
  BY <1>1, <1>4 DEF TypeInv
<1>5. CASE \E x \in Handlers : Handle(x)
  <2>1. PICK x \in Handlers : Handle(x)
    BY <1>5
  <2>2. /\ \A y \in Callers \ {x} : pc'[y] = pc[y] /\ loc'[y] = loc[y]
        /\ pc'[x] \notin {"reloadConns", "reloadPoints"}
        /\ UNCHANGED <<phase, stopped, running, applied, pollers>>
    BY <2>1, HandlerFrame
  <2>3. x \in Callers /\ DOMAIN pc = Callers /\ pc = [y \in Callers |-> pc[y]]
    BY DEF Callers, SnapInv, TypeInv
  <2>4. pc' = [y \in Callers |-> pc'[y]] /\ pc'[x] \in CallerPCs
    <3>1. CASE pc' = pc
      BY <2>3, <3>1 DEF TypeInv, CallerOK
    <3>2. ASSUME NEW p \in CallerPCs, pc' = [pc EXCEPT ![x] = p]
          PROVE  pc' = [y \in Callers |-> pc'[y]] /\ pc'[x] \in CallerPCs
      BY <2>3, <3>2
    <3> QED BY <2>1, <3>1, <3>2, HandlerGoes
  <2>5. \A y \in Callers \ {x} : CallerOK(y)'
    BY <2>2 DEF TypeInv, CallerOK, CallerPCs, ReloadPCs, ConnIds
  <2>6. CallerOK(x)'
    BY <2>2, <2>4 DEF CallerOK, CallerPCs, ReloadPCs
  <2> QED BY <1>2, <1>4, <2>2, <2>4, <2>5, <2>6
<1>6. CASE \E x \in Callers : ReloadDevs(x) \/ ReloadConns(x) \/ ReloadPoints(x) \/ ReloadFails(x)
  <2>1. PICK x \in Callers : ReloadDevs(x) \/ ReloadConns(x) \/ ReloadPoints(x) \/ ReloadFails(x)
    BY <1>6
  <2>2. UNCHANGED <<phase, stopped, running, applied, pollers>>
    BY <2>1, ReloadSnap
  <2>3. pc' = [y \in Callers |-> pc'[y]] /\ \A y \in Callers : CallerOK(y)'
    BY <2>1, ReloadCallers DEF Reload
  <2> QED BY <1>2, <1>4, <2>2, <2>3
<1>7. CASE \E x \in Callers : ReloadApply(x)
  <2>1. PICK x \in Callers : ReloadApply(x)
    BY <1>7
  <2>2. UNCHANGED <<phase, stopped>> /\ applied' = loc[x].since
    BY <2>1, Zenon DEF ReloadApply
  <2>3. applied' \in Int /\ applied' >= -1
    BY <2>2 DEF SnapInv
  <2>4. ManagerOK'
    BY <2>1, ApplyManager
  <2>5. pc' = [y \in Callers |-> pc'[y]] /\ \A y \in Callers : CallerOK(y)'
    BY <2>1, ReloadCallers DEF Reload
  <2> QED BY <1>1, <2>2, <2>3, <2>4, <2>5 DEF TypeInv
<1>8. CASE \E s \in DOMAIN pollers : Poll(s)
  <2>1. PICK s \in DOMAIN pollers : Poll(s)
    BY <1>8
  <2>2. UNCHANGED <<phase, stopped, applied, pc, loc>>
    BY <2>1, Zenon DEF Poll, mgrVars
  <2> QED BY <1>3, <1>4, <2>1, <2>2, PollManager
<1>9. CASE Serve \/ Stop \/ Shutdown \/ Wait
  <2>1. UNCHANGED <<pc, loc, applied, running, pollers>>
    BY <1>9, Zenon DEF Serve, Stop, Shutdown, Wait, mgrVars
  <2>2. phase' \in {"starting", "serving", "waiting", "closed"}
    BY <1>9 DEF Serve, Stop, Shutdown, Wait, TypeInv
  <2>3. stopped' \in BOOLEAN
    BY <1>9, Zenon DEF Serve, Stop, Shutdown, Wait, TypeInv
  <2> QED BY <1>1, <1>2, <1>3, <2>1, <2>2, <2>3 DEF TypeInv
<1>10. CASE Restart
  <2>1. /\ phase' = "starting" /\ stopped' = FALSE /\ applied' = -1
        /\ pc' = [x \in Callers |-> IF x = Main THEN "reloadDevs" ELSE "idle"]
        /\ running' = <<>> /\ pollers' = <<>>
    BY <1>10 DEF Restart
  <2>2. DOMAIN running' = {} /\ DOMAIN pollers' = {}
    BY <2>1
  <2>3. pc' = [y \in Callers |-> pc'[y]]
    BY <2>1
  <2>4. \A y \in Callers : CallerOK(y)'
    BY <2>1 DEF CallerOK, CallerPCs, ReloadPCs
  <2>5. stopped' \in BOOLEAN /\ phase' \in {"starting", "serving", "waiting", "closed"}
    BY <2>1, Zenon
  <2>6. applied' \in Int /\ applied' >= -1
    BY <2>1
  <2> QED BY <1>1, <2>2, <2>3, <2>4, <2>5, <2>6 DEF TypeInv, ManagerOK
<1>11. CASE UNCHANGED vars
  <2>1. UNCHANGED <<phase, stopped, applied, pc, loc, running, pollers>>
    BY <1>11 DEF vars, acqVars
  <2> QED BY <1>2, <1>3, <1>4, <2>1
<1> QED BY <1>5, <1>6, <1>7, <1>8, <1>9, <1>10, <1>11 DEF Next, Reload

LEMMA TypeInit == Init => TypeInv
<1> SUFFICES ASSUME Init PROVE TypeInv
  OBVIOUS
<1>1. /\ phase = "starting" /\ stopped = FALSE /\ applied = -1 /\ events = 0
      /\ pc = [x \in Callers |-> IF x = Main THEN "reloadDevs" ELSE "idle"]
      /\ running = <<>> /\ pollers = <<>>
  BY DEF Init, AcqInit
<1>2. DOMAIN running = {} /\ DOMAIN pollers = {}
  BY <1>1
<1>3. pc = [y \in Callers |-> pc[y]]
  BY <1>1
<1>4. \A y \in Callers : CallerOK(y)
  BY <1>1 DEF CallerOK, CallerPCs, ReloadPCs
<1>5. stopped \in BOOLEAN /\ phase \in {"starting", "serving", "waiting", "closed"}
  BY <1>1, Zenon
<1>6. applied \in Int /\ applied >= -1 /\ events \in 0 .. MaxEvents
  BY <1>1, AcquisitionAssumption
<1> QED BY <1>2, <1>3, <1>4, <1>5, <1>6 DEF TypeInv, ManagerOK

\* The tables keep rows of their types under ids of theirs, whatever the handlers, the
\* imports and SQLite's AUTOINCREMENT do, and every goroutine is at one of its places.
THEOREM ConfigTypeCorrect == Spec => []TypeOK
<1>1. RoundInv /\ SnapInv /\ TypeInv => TypeOK
  <2> SUFFICES ASSUME RoundInv, SnapInv, TypeInv PROVE TypeOK
    OBVIOUS
  <2>1. /\ IsTable(conns, ConnIds, ConnRow) /\ IsTable(devs, DevIds, DevRow)
        /\ IsTable(dps, DpIds, DpRow) /\ connSeq \in 0 .. MaxConn /\ dpSeq \in 0 .. MaxDp
    BY DEF RoundInv, TablesInv, IsTyped, IsTable
  <2>2. pc \in [Callers -> CallerPCs]
    <3>1. pc = [y \in Callers |-> pc[y]] /\ \A y \in Callers : pc[y] \in CallerPCs
      BY DEF TypeInv, CallerOK
    <3> QED BY <3>1
  <2>3. version \in Nat /\ applied \in -1 .. version
    BY DEF SnapInv, TypeInv
  <2>4. /\ DOMAIN running \subseteq ConnIds /\ \A c \in DOMAIN running : running[c].slot \in Slots
        /\ DOMAIN pollers \subseteq Slots /\ \A s \in DOMAIN pollers : pollers[s].pc \in PollerPCs
    BY DEF TypeInv, ManagerOK
  <2>5. /\ phase \in {"starting", "serving", "waiting", "closed"} /\ stopped \in BOOLEAN
        /\ events \in 0 .. MaxEvents
    BY DEF TypeInv
  <2> QED BY <2>1, <2>2, <2>3, <2>4, <2>5 DEF TypeOK, CallerPCs, PollerPCs
<1> QED
  BY <1>1, AcqInvAlways, SnapInit, SnapStep, ValidInit, ValidStep, RoundInit, RoundStep,
     TypeInit, TypeStep, PTL DEF Spec
=============================================================================
