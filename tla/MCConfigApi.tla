---------------------------- MODULE MCConfigApi -----------------------------
(***************************************************************************)
(* Small instances of ConfigApi: a gateway that polls one data point of    *)
(* one device, and the requests that add, change and remove rows around    *)
(* it.                                                                     *)
(***************************************************************************)
EXTENDS ConfigApi, TLC

Conn(on, cfg) == [enabled |-> on, cfg |-> cfg]
Dev(c, on) == [conn |-> c, enabled |-> on, cfg |-> "a"]
Dp(d, on) == [dev |-> d, enabled |-> on, cfg |-> "a"]

Request(op, id, row) == [op |-> op, id |-> id, row |-> row]

MCRequests ==
    {Request("createConnection", 0, Conn(TRUE, "a")),
     Request("updateConnection", 1, Conn(TRUE, "b")),
     Request("updateConnection", 1, Conn(TRUE, "bad")),
     Request("deleteConnection", 2, <<>>),
     Request("createDevice", 0, Dev(2, TRUE)),
     Request("updateDevice", 2, Dev(1, TRUE)),
     Request("deleteDevice", 2, <<>>),
     Request("createDataPoint", 0, Dp(2, TRUE)),
     Request("updateDataPoint", 1, Dp(1, FALSE)),
     Request("deleteDataPoint", 1, <<>>)}

NoFile == AsFile(NoLocals, -1)

\* An export during which a device was moved to a new connection: the list of
\* connections is the older one.
TornFile ==
    [conns |-> 1 :> Conn(FALSE, "a"),
     devs |-> 1 :> Dev(1, TRUE) @@ 2 :> Dev(2, FALSE),
     pts |-> 1 :> (1 :> Dp(1, TRUE)) @@ 2 :> <<>>,
     of |-> -1]

MCFiles == {NoFile, TornFile}

---------------------------------------------------------------------------
(* New hardware: the file of a gateway whose second device got its data    *)
(* point first is imported into an empty gateway.                          *)

OldFile ==
    [conns |-> 1 :> Conn(TRUE, "a"),
     devs |-> 1 :> Dev(1, TRUE) @@ 2 :> Dev(1, TRUE),
     pts |-> 1 :> (2 :> Dp(1, TRUE)) @@ 2 :> (1 :> Dp(2, TRUE)),
     of |-> -1]

OldFiles == {OldFile}

EmptySpec ==
    /\ conns = <<>> /\ devs = <<>> /\ dps = <<>>
    /\ connSeq = 0 /\ dpSeq = 0
    /\ AcqInit /\ ApiInit
    /\ [][Next]_vars

\* configio.go: "restoring onto a different (empty) gateway therefore creates
\* everything fresh with new ids".  An import into the empty gateway that
\* nothing disturbed leaves as many data points as its file has.
RestoresAll ==
    \A x \in Handlers :
        LET i == imp[x]
        IN  pc[x] = "import" /\ Item(i) = "none" /\ i.start = 0 /\ i.alone = version
            => Cardinality(DOMAIN dps)
                 = Cardinality(UNION {DOMAIN i.file.pts[d] : d \in DOMAIN i.file.devs})

---------------------------------------------------------------------------

Polling ==
    /\ conns = 1 :> Conn(TRUE, "a") @@ 2 :> Conn(TRUE, "a")
    /\ file = NoFile
Paused == conns = 1 :> Conn(FALSE, "a") /\ file \in MCFiles

MCInit ==
    /\ Polling \/ Paused
    /\ devs = 1 :> Dev(1, TRUE) @@ 2 :> Dev(1, FALSE)
    /\ dps = 1 :> Dp(1, TRUE)
    /\ connSeq = Max(DOMAIN conns) /\ dpSeq = 1
    /\ AcqInit /\ ApiInit

\* Files are exchanged on the paused gateway, where no poller takes part, and
\* a request takes the first free handler: they are all alike.
Exchanging(x) == pc[x] \in {"exportDevs", "exportPoints", "import", "importPut"}

MCNext ==
    /\ Next
    /\ \A x \in Handlers :
          /\ Exchanging(x)' => Exchanging(x) \/ running = <<>>
          /\ pc[x] = "idle" /\ pc'[x] # "idle" => \A y \in 1 .. x - 1 : pc[y] # "idle"

MCSpec == MCInit /\ [][MCNext]_vars /\ Fairness
=============================================================================
