------------------------------ MODULE DataPath ------------------------------
(***************************************************************************)
(* The way of a value: readDevice reads the planned blocks of a device,    *)
(* cuts each point's bytes out of the answer, decodes them and hands the   *)
(* reading to the queue, which encodes it.  Next to it the Test Read of    *)
(* the web interface reads one point with a request of its own.            *)
(*                                                                         *)
(* The bytes of a register are named, not numbered: <<address, 0>> and     *)
(* <<address, 1>>.  A decoded value is the sequence of bytes it is made    *)
(* of, most significant first; the number that a data type makes of them,  *)
(* and the scale, are functions of that.                                   *)
(***************************************************************************)
EXTENDS BlockPlan, ChunkCodec, FiniteSets

CONSTANTS
    Holes,        \* which registers the device may lack: a set of sets
    Retry,        \* Connection.Retry
    Times,        \* what the clock may say, in half milliseconds
    MaxPasses,    \* bound: passes over the device
    MaxLineFaults \* bound: faults of the line

\* The points of a device are rows of a table; the clock is past 1970.
ASSUME PathAssumption ==
    /\ {Retry, MaxPasses, MaxLineFaults} \subseteq Nat
    /\ Times \subseteq Nat
    /\ \A d \in Layouts : IsFiniteSet(DOMAIN d)

VARIABLES
    holes,      \* the registers the device lacks
    now,        \* eventTime of the pass
    polled,     \* history: what became of each point of the pass
    buffer,     \* readings in the queue's memory
    chunk,      \* a chunk as it is stored
    sealed,     \* history: the readings of the chunk
    test,       \* the Test Read handler
    passes, lineFaults

pathVars == <<holes, now, polled, buffer, chunk, sealed, test, passes, lineFaults>>
dataVars == <<planVars, pathVars>>

NoTest == [pc |-> "idle"]

PathInit ==
    /\ PlanInit
    /\ holes \in Holes
    /\ now = 0
    /\ polled = {} /\ buffer = <<>> /\ chunk = <<>> /\ sealed = <<>>
    /\ test = NoTest
    /\ passes = 0 /\ lineFaults = 0

LineFault == lineFaults < MaxLineFaults /\ lineFaults' = lineFaults + 1

---------------------------------------------------------------------------
(* The device, and what the client makes of it. *)

Registers(b) == b.start .. (b.start + b.quantity - 1)

\* A device answers a legal request for registers it has.
Lacks(fc, a) == a >= Words \/ (~Coils(fc) /\ a \in holes)
Answers(b) == ~\E a \in Registers(b) : Lacks(b.fc, a)

\* The bytes of an answer; coils come eight in a byte.
Raw(b) ==
    IF Coils(b.fc) THEN [i \in 1 .. (b.quantity + 7) \div 8 |-> <<b.start, "bits">>]
    ELSE [i \in 1 .. 2 * b.quantity |-> <<b.start + (i - 1) \div 2, (i - 1) % 2>>]

Faults == {"timeout", "closed", "dns", "refused", "crc"}
ConnectFaults == {"timeout", "dns", "refused"}

\* Of an error; "expired" and "cancelled" are those of the context.
QualityFromError(err) ==
    CASE err \in {"timeout", "expired"} -> "TIMEOUT"
      [] err \in {"closed", "dns", "refused"} -> "DEVICE_OFFLINE"
      [] err = "crc" -> "CRC_ERROR"
      [] OTHER -> "INVALID"

Bad(quality) == [quality |-> quality, value |-> NoValue]

\* reorder: order lists positions; an empty one means the natural order.
Reorders(raw, order) ==
    order = <<>> \/ (Len(order) = Len(raw) /\ \A i \in DOMAIN order : order[i] \in DOMAIN raw)
Reorder(raw, order) == IF order = <<>> THEN raw ELSE [i \in DOMAIN order |-> raw[order[i]]]

ByteWidth(p) == 2 * dps[p].width

Decode(raw, p) ==
    IF Len(raw) = ByteWidth(p) /\ Reorders(raw, dps[p].order)
    THEN [quality |-> "GOOD", value |-> Reorder(raw, dps[p].order)]
    ELSE Bad("INVALID")

---------------------------------------------------------------------------
(* readDevice. *)

BeginPass ==
    /\ passes < MaxPasses /\ passes' = passes + 1
    /\ BeginPlan
    /\ now' \in Times
    /\ polled' = {}
    /\ UNCHANGED <<holes, buffer, chunk, sealed, test, lineFaults>>

Plan ==
    /\ Planning
    /\ UNCHANGED pathVars

\* Mutant: the offset is counted in registers.
OffsetRegisters(b, p) == Word(dps[p].addr - b.start)
ByteOffset(b, p) == 2 * Word(dps[p].addr - b.start)

\* decodeAndEmit.
DecodeAndEmit(b, p) ==
    IF ByteOffset(b, p) + ByteWidth(p) > Len(Raw(b)) THEN Bad("INVALID")
    ELSE Decode(SubSeq(Raw(b), ByteOffset(b, p) + 1, ByteOffset(b, p) + ByteWidth(p)), p)

Outcome(b, p, reply) ==
    IF reply = "ok" THEN DecodeAndEmit(b, p) ELSE Bad(QualityFromError(reply))

\* The points of a block in the order of their addresses.
Before(b, p) ==
    {q \in b.points : dps[q].addr < dps[p].addr \/ (dps[q].addr = dps[p].addr /\ q < p)}
InOrder(b) ==
    [i \in 1 .. Cardinality(b.points) |->
        CHOOSE p \in b.points : Cardinality(Before(b, p)) = i - 1]

\* Every point of the block gives a reading, which Process appends.
Emit(b, reply) ==
    /\ TakeBlock(b)
    /\ polled' = polled \cup {[point |-> p, block |-> b, reply |-> reply,
                               result |-> Outcome(b, p, reply)] : p \in b.points}
    /\ buffer' = buffer \o [i \in DOMAIN InOrder(b) |->
                    LET p == InOrder(b)[i]
                    IN  [point |-> p, device |-> 1, at |-> now,
                         quality |-> Outcome(b, p, reply).quality,
                         value |-> Outcome(b, p, reply).value]]
    /\ UNCHANGED <<holes, now, chunk, sealed, test, passes>>

\* ReadWithRetry without retries: the device answers or refuses, or the line
\* fails, or the poller is cancelled or out of time when it has failed.
ReadBlock(b) ==
    \/ Emit(b, IF Answers(b) THEN "ok" ELSE "exception") /\ UNCHANGED lineFaults
    \/ \E err \in Faults \cup {"expired", "cancelled"} : Emit(b, err) /\ LineFault

\* Flush: one chunk is looked at.
Seal ==
    /\ buffer # <<>> /\ chunk = <<>>
    /\ chunk' = encodeChunk(buffer)
    /\ sealed' = buffer
    /\ buffer' = <<>>
    /\ UNCHANGED <<planVars, holes, now, polled, test, passes, lineFaults>>

---------------------------------------------------------------------------
(* testDataPointRead and the loop of ReadWithRetry. *)

\* Mutant: one attempt too many.
RetriesPlusOne(attempts) == attempts <= Retry + 1
Retries(attempts) == attempts <= Retry

Dedicated(p) == IF Answers(Single(p)) THEN Decode(Raw(Single(p)), p) ELSE Bad("INVALID")

TestDone(p, attempts, sent, expired, result) ==
    test' = [pc |-> "done", point |-> p, attempts |-> attempts, sent |-> sent,
             expired |-> expired, result |-> result]

TestStart(p) ==
    /\ test = NoTest
    /\ \/ /\ test' = [pc |-> "read", point |-> p, attempts |-> 1, sent |-> 0]
          /\ UNCHANGED lineFaults
       \/ \E err \in ConnectFaults :
             TestDone(p, 0, 0, FALSE, Bad(QualityFromError(err))) /\ LineFault

\* After an error: the context is over, or another attempt, or the error.
TestFailed(err, sent) ==
    \/ TestDone(test.point, test.attempts, sent, TRUE, Bad(QualityFromError("expired")))
    \/ /\ Retries(test.attempts)
       /\ test' = [test EXCEPT !.pc = "reconnect", !.attempts = @ + 1, !.sent = sent]
    \/ /\ ~Retries(test.attempts)
       /\ TestDone(test.point, test.attempts, sent, FALSE, Bad(QualityFromError(err)))

TestRead ==
    /\ test.pc = "read"
    /\ \/ /\ Answers(Single(test.point))
          /\ TestDone(test.point, test.attempts, test.sent + 1, FALSE, Dedicated(test.point))
          /\ UNCHANGED lineFaults
       \/ /\ ~Answers(Single(test.point))
          /\ TestFailed("exception", test.sent + 1)
          /\ UNCHANGED lineFaults
       \/ \E err \in Faults : TestFailed(err, test.sent + 1) /\ LineFault

\* Close and Connect; after a failed Connect the context is not looked at.
TestReconnect ==
    /\ test.pc = "reconnect"
    /\ \/ /\ test' = [test EXCEPT !.pc = "read"]
          /\ UNCHANGED lineFaults
       \/ /\ LineFault
          /\ \/ /\ Retries(test.attempts)
                /\ test' = [test EXCEPT !.attempts = @ + 1]
             \/ /\ ~Retries(test.attempts)
                /\ \E err \in ConnectFaults :
                      TestDone(test.point, test.attempts, test.sent, FALSE,
                               Bad(QualityFromError(err)))

Test ==
    /\ (\E p \in Points : TestStart(p)) \/ TestRead \/ TestReconnect
    /\ UNCHANGED <<planVars, holes, now, polled, buffer, chunk, sealed, passes>>

PathNext ==
    \/ BeginPass
    \/ Plan
    \/ \E b \in blocks : ReadBlock(b)
    \/ Seal
    \/ Test

PathSpec == PathInit /\ [][PathNext]_dataVars

---------------------------------------------------------------------------

\* The block is refused because of a register that is not the point's: one in a
\* gap, or one of another point.
Spoilt(b, p) == \E a \in Registers(b) \ Registers(Single(p)) : Lacks(b.fc, a)

\* decodeAndEmit "decodes/scales/emits it exactly as a dedicated single-datapoint
\* read would have": a GOOD reading is what a request for this point alone
\* returns, and where the line works both say the same.  There are two
\* exceptions: the device refuses the block because of a register outside the
\* point, and a point that ends at the top of the address space has been merged.
PolledAsDedicated ==
    \A r \in polled :
        /\ r.result.quality = "GOOD" => r.result = Dedicated(r.point)
        /\ r.reply \in {"ok", "exception"} =>
              \/ r.result = Dedicated(r.point)
              \/ Spoilt(r.block, r.point)
              \/ End(r.point) = Words /\ r.block # Single(r.point)

\* A stored chunk gives back its readings, with times to the millisecond,
\* whatever the order of their times; and a chunk cut short does not decode.
ChunkRoundTrip ==
    chunk # <<>> =>
        /\ decodeChunk(chunk) =
             [ok |-> TRUE,
              readings |-> [i \in DOMAIN sealed |->
                 [point |-> sealed[i].point, device |-> sealed[i].device,
                  ms |-> UnixMilli(sealed[i].at), quality |-> sealed[i].quality,
                  value |-> sealed[i].value]]]
        /\ \A n \in 0 .. (Len(chunk) - 1) : ~decodeChunk(SubSeq(chunk, 1, n)).ok

\* A Test Read sends at most Retry + 1 requests, and gives up on a point that
\* could be read only if all attempts were used, or the time was over, or it was
\* never connected.
TestReadPersists ==
    test.pc = "done" =>
        /\ test.sent <= test.attempts /\ test.attempts <= Retry + 1
        /\ \/ test.result = Dedicated(test.point)
           \/ test.attempts \in {0, Retry + 1}
           \/ test.expired
=============================================================================
