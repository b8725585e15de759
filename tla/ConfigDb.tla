------------------------------ MODULE ConfigDb ------------------------------
(***************************************************************************)
(* gateway.db as the repositories of internal/connection, internal/device  *)
(* and internal/datapoint use it: three tables, one SQL statement per      *)
(* step.  The pool has several connections and no repository opens a       *)
(* transaction, so any other goroutine's statement may run between two of  *)
(* a handler's.                                                            *)
(*                                                                         *)
(* A row keeps its reference, its enabled flag and cfg, which stands for   *)
(* all its other columns; BadCfg is any value its Validate rejects.        *)
(* Foreign keys are enforced by SQLite (storage.Open sets the pragma): a   *)
(* statement that would break one fails and changes nothing.               *)
(***************************************************************************)
EXTENDS Integers, FiniteSetsExt

CONSTANTS
    MaxConn,    \* bound: connection ids
    MaxDev,     \* bound: device ids
    MaxDp,      \* bound: data point ids
    Cfgs,       \* contents of the other columns
    BadCfg      \* the contents that Validate rejects

ASSUME DbAssumption ==
    /\ MaxConn \in Nat /\ MaxDev \in Nat /\ MaxDp \in Nat
    /\ BadCfg \in Cfgs

VARIABLES
    conns,      \* table connection
    devs,       \* table device
    dps,        \* table datapoint
    connSeq,    \* sqlite_sequence of connection: the last id given
    dpSeq       \* sqlite_sequence of datapoint

dbVars == <<conns, devs, dps, connSeq, dpSeq>>

ConnIds == 1 .. MaxConn
DevIds == 1 .. MaxDev
DpIds == 1 .. MaxDp

ConnRow == [enabled : BOOLEAN, cfg : Cfgs]
DevRow == [conn : ConnIds, enabled : BOOLEAN, cfg : Cfgs]
DpRow == [dev : DevIds, enabled : BOOLEAN, cfg : Cfgs]

\* t has rows of R under ids of I.
IsTable(t, I, R) == DOMAIN t \subseteq I /\ \A i \in DOMAIN t : t[i] \in R

WithRow(t, id, row) == [i \in DOMAIN t \cup {id} |-> IF i = id THEN row ELSE t[i]]
Without(t, ids) == [i \in DOMAIN t \ ids |-> t[i]]
Only(t, ids) == [i \in DOMAIN t \cap ids |-> t[i]]

\* Connection.Validate, Device.Validate and DataPoint.Validate.
Validate(row) == row.cfg # BadCfg

DbInit ==
    /\ conns \in UNION {[S -> {row \in ConnRow : Validate(row)}] : S \in SUBSET ConnIds}
    /\ devs \in UNION {[S -> {row \in DevRow : Validate(row)}] : S \in SUBSET DevIds}
    /\ dps \in UNION {[S -> {row \in DpRow : Validate(row)}] : S \in SUBSET DpIds}
    /\ \A d \in DOMAIN devs : devs[d].conn \in DOMAIN conns
    /\ \A p \in DOMAIN dps : dps[p].dev \in DOMAIN devs
    /\ connSeq = Max(DOMAIN conns \cup {0})
    /\ dpSeq = Max(DOMAIN dps \cup {0})

---------------------------------------------------------------------------
(* Queries. *)

\* device.ListEnabled, connection.ListEnabled.
ListEnabled(t) == Only(t, {i \in DOMAIN t : t[i].enabled})

ListByDevice(d) == Only(dps, {p \in DOMAIN dps : dps[p].dev = d})
ListEnabledByDevice(d) == Only(dps, {p \in DOMAIN dps : dps[p].dev = d /\ dps[p].enabled})

\* SELECT COUNT(*) FROM device WHERE connection_id = ?
InUse(c) == \E d \in DOMAIN devs : devs[d].conn = c

---------------------------------------------------------------------------
(* What a statement does when SQLite accepts it.  connection and datapoint *)
(* ids are AUTOINCREMENT; device lost that keyword when migration 0004     *)
(* rebuilt the table, so its new id is one more than the largest present.  *)

\* Mutant: data point ids are reused like device ids.
ReusedDpId == Max(DOMAIN dps \cup {0}) + 1
NewConnId == connSeq + 1
NewDevId == Max(DOMAIN devs \cup {0}) + 1
NewDpId == dpSeq + 1

CreateConnection(row) ==
    /\ conns' = WithRow(conns, NewConnId, row)
    /\ connSeq' = NewConnId
    /\ UNCHANGED <<devs, dps, dpSeq>>

CreateDevice(row) ==
    /\ devs' = WithRow(devs, NewDevId, row)
    /\ UNCHANGED <<conns, dps, connSeq, dpSeq>>

CreateDataPoint(row) ==
    /\ dps' = WithRow(dps, NewDpId, row)
    /\ dpSeq' = NewDpId
    /\ UNCHANGED <<conns, devs, connSeq>>

UpdateConnection(id, row) ==
    /\ conns' = WithRow(conns, id, row)
    /\ UNCHANGED <<devs, dps, connSeq, dpSeq>>

UpdateDevice(id, row) ==
    /\ devs' = WithRow(devs, id, row)
    /\ UNCHANGED <<conns, dps, connSeq, dpSeq>>

\* Mutant: the row is replaced, and its device_id is lost.
ReplaceDataPoint(id, row) ==
    /\ dps' = WithRow(dps, id, [dev |-> 0, enabled |-> row.enabled, cfg |-> row.cfg])
    /\ UNCHANGED <<conns, devs, connSeq, dpSeq>>
\* Every column but device_id.
UpdateDataPoint(id, row) ==
    /\ dps' = WithRow(dps, id, [dev |-> dps[id].dev, enabled |-> row.enabled, cfg |-> row.cfg])
    /\ UNCHANGED <<conns, devs, connSeq, dpSeq>>

\* The second statement of connection.Delete; the first is InUse.
DeleteConnection(id) ==
    /\ conns' = Without(conns, {id})
    /\ UNCHANGED <<devs, dps, connSeq, dpSeq>>

\* ON DELETE CASCADE takes the device's data points along.
DeleteDevice(id) ==
    /\ devs' = Without(devs, {id})
    /\ dps' = Without(dps, {p \in DOMAIN dps : dps[p].dev = id})
    /\ UNCHANGED <<conns, connSeq, dpSeq>>

DeleteDataPoint(id) ==
    /\ dps' = Without(dps, {id})
    /\ UNCHANGED <<conns, devs, connSeq, dpSeq>>

---------------------------------------------------------------------------
(* A statement is [op, id, row]. *)

OnConnection(st) == st.op \in {"updateConnection", "deleteConnection"}
OnDevice(st) == st.op \in {"updateDevice", "deleteDevice"}
OnDataPoint(st) == st.op \in {"updateDataPoint", "deleteDataPoint"}

\* Mutant: the pragma is off.
ForeignKeysOff(st) == TRUE
\* device.connection_id REFERENCES connection, datapoint.device_id REFERENCES
\* device.
ForeignKeysHold(st) ==
    /\ st.op \in {"createDevice", "updateDevice"} => st.row.conn \in DOMAIN conns
    /\ st.op = "createDataPoint" => st.row.dev \in DOMAIN devs
    /\ st.op = "deleteConnection" => ~InUse(st.id)

\* checkRowsAffected turns zero rows into ErrNotFound.
RowsAffected(st) ==
    /\ OnConnection(st) => st.id \in DOMAIN conns
    /\ OnDevice(st) => st.id \in DOMAIN devs
    /\ OnDataPoint(st) => st.id \in DOMAIN dps

\* Not in the code: the ids of the instance run out.
IdsLeft(st) ==
    /\ st.op = "createConnection" => NewConnId \in ConnIds
    /\ st.op = "createDevice" => NewDevId \in DevIds
    /\ st.op = "createDataPoint" => NewDpId \in DpIds

Accepts(st) == IdsLeft(st) /\ RowsAffected(st) /\ ForeignKeysHold(st)

Exec(st) ==
    /\ Accepts(st)
    /\ \/ st.op = "createConnection" /\ CreateConnection(st.row)
       \/ st.op = "updateConnection" /\ UpdateConnection(st.id, st.row)
       \/ st.op = "deleteConnection" /\ DeleteConnection(st.id)
       \/ st.op = "createDevice" /\ CreateDevice(st.row)
       \/ st.op = "updateDevice" /\ UpdateDevice(st.id, st.row)
       \/ st.op = "deleteDevice" /\ DeleteDevice(st.id)
       \/ st.op = "createDataPoint" /\ CreateDataPoint(st.row)
       \/ st.op = "updateDataPoint" /\ UpdateDataPoint(st.id, st.row)
       \/ st.op = "deleteDataPoint" /\ DeleteDataPoint(st.id)

\* The id a statement writes to: LastInsertId of an INSERT.
IdOf(st) ==
    CASE st.op = "createConnection" -> NewConnId
      [] st.op = "createDevice" -> NewDevId
      [] st.op = "createDataPoint" -> NewDpId
      [] OTHER -> st.id

---------------------------------------------------------------------------
\* No statement of any interleaving leaves a device without its connection or
\* a data point without its device, although connection.Delete counts the
\* devices in one statement and deletes in another, and createDataPoint and
\* importConfig look a parent up before they insert under it.
ReferentialIntegrity ==
    /\ \A d \in DOMAIN devs : devs[d].conn \in DOMAIN conns
    /\ \A p \in DOMAIN dps : dps[p].dev \in DOMAIN devs
=============================================================================
