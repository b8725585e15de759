----------------------------- MODULE BlockPlan ------------------------------
(***************************************************************************)
(* planBlockReads: the data points of a device are put into as few Modbus  *)
(* requests as possible.  One step places one point.                       *)
(*                                                                         *)
(* Addresses and quantities are uint16.  Validate lets no point with an    *)
(* unknown data type or function code in, so that every point is placed.   *)
(* Groups come out of a map and are sorted by an unstable sort: points at  *)
(* the same address, and blocks, come in any order.                        *)
(***************************************************************************)
EXTENDS Integers

CONSTANTS
    Words,       \* values of a uint16
    Layouts      \* the points of a device: id -> [fc, addr, width, order]

\* modbus.RegisterCount: registers of a data type.
Widths == {1, 2, 4}

ASSUME PlanAssumption ==
    /\ Words \in Nat /\ Words > 300
    /\ \A d \in Layouts : \A p \in DOMAIN d :
          d[p].fc \in 1 .. 4 /\ d[p].addr \in 0 .. (Words - 1) /\ d[p].width \in Widths

VARIABLES
    dps,        \* the layout
    todo,       \* points not yet placed
    pending,    \* the block being built: a set of at most one
    blocks,     \* finished blocks that have not been read
    done        \* points whose block has been read in this pass

Points == DOMAIN dps

planVars == <<dps, todo, pending, blocks, done>>

maxRegistersPerBlock == 125
maxGapRegisters == 8

\* Arithmetic of uint16.
Word(n) == n % Words

Coils(fc) == fc \in {1, 2}

Single(p) ==
    [fc |-> dps[p].fc, start |-> dps[p].addr, quantity |-> dps[p].width, points |-> {p}]

PlanInit ==
    /\ dps \in Layouts
    /\ todo = {}
    /\ pending = {}
    /\ blocks = {}
    /\ done = Points

\* A pass over the device begins.
BeginPlan ==
    /\ todo = {} /\ pending = {} /\ blocks = {}
    /\ todo' = Points
    /\ done' = {}
    /\ UNCHANGED <<dps, pending, blocks>>

---------------------------------------------------------------------------

\* A group is finished before the next one begins, in the order of addresses.
MayPlace(p) ==
    /\ p \in todo
    /\ \A b \in pending : dps[p].fc = b.fc
    /\ \A q \in todo : dps[q].fc = dps[p].fc /\ ~Coils(dps[p].fc)
                          => dps[p].addr <= dps[q].addr

DpEnd(p) == Word(dps[p].addr + dps[p].width)

Mergeable(b, p) ==
    /\ dps[p].addr <= Word(b.start + b.quantity + maxGapRegisters)
    /\ Word(DpEnd(p) - b.start) <= maxRegistersPerBlock

\* Mutant: the gap before the point is forgotten.
GrownByWidth(b, p) ==
    IF DpEnd(p) > Word(b.start + b.quantity) THEN b.quantity + dps[p].width ELSE b.quantity
Grown(b, p) ==
    IF DpEnd(p) > Word(b.start + b.quantity) THEN Word(DpEnd(p) - b.start) ELSE b.quantity

Merged(b, p) ==
    [fc |-> b.fc, start |-> b.start, quantity |-> Grown(b, p), points |-> b.points \cup {p}]

\* Coils and discrete inputs are not batched.
PlaceCoil(p) ==
    /\ MayPlace(p) /\ Coils(dps[p].fc)
    /\ blocks' = blocks \cup {Single(p)}
    /\ todo' = todo \ {p}
    /\ UNCHANGED <<dps, pending, done>>

PlaceRegister(p) ==
    /\ MayPlace(p) /\ ~Coils(dps[p].fc)
    /\ \/ \E b \in pending :
             /\ Mergeable(b, p)
             /\ pending' = {Merged(b, p)}
             /\ UNCHANGED blocks
       \/ /\ \A b \in pending : ~Mergeable(b, p)
          /\ blocks' = blocks \cup pending
          /\ pending' = {Single(p)}
    /\ todo' = todo \ {p}
    /\ UNCHANGED <<dps, done>>

\* The last block of a group.
EndGroup ==
    /\ \E b \in pending : \A p \in todo : dps[p].fc # b.fc
    /\ blocks' = blocks \cup pending
    /\ pending' = {}
    /\ UNCHANGED <<dps, todo, done>>

Planning == (\E p \in Points : PlaceCoil(p) \/ PlaceRegister(p)) \/ EndGroup

\* readDevice goes on to the next block.
TakeBlock(b) ==
    /\ todo = {} /\ pending = {}
    /\ b \in blocks
    /\ blocks' = blocks \ {b}
    /\ done' = done \cup b.points
    /\ UNCHANGED <<dps, todo, pending>>

PlanNext == BeginPlan \/ Planning \/ \E b \in blocks : TakeBlock(b)

PlanSpec == PlanInit /\ [][PlanNext]_planVars

---------------------------------------------------------------------------

\* One past its last register, without the wrap.
End(p) == dps[p].addr + dps[p].width

Covers(b, p) == b.start <= dps[p].addr /\ End(p) <= b.start + b.quantity

\* Every point is placed once, and a block is one legal request for one kind of
\* register that covers all registers of all its points, so that no point is
\* cut in two.  The exception is a point that ends at the top of the address
\* space: its end is 0 as a uint16, and the block it joins does not grow.
PlanSound ==
    /\ Points = todo \cup done \cup UNION {b.points : b \in blocks \cup pending}
    /\ todo \cap done = {}
    /\ \A b \in blocks \cup pending :
          /\ b.quantity \in 1 .. maxRegistersPerBlock
          /\ b.points \cap (todo \cup done) = {}
          /\ \A c \in blocks \cup pending : b # c => b.points \cap c.points = {}
          /\ \A p \in b.points :
                /\ dps[p].fc = b.fc
                /\ End(p) < Words => Covers(b, p)
=============================================================================
