----------------------------- MODULE ChunkCodec -----------------------------
(***************************************************************************)
(* encodeChunk and decodeChunk: the record list of a chunk, as the         *)
(* sequence of its fields.  Varints and DEFLATE are the library's; an      *)
(* error of theirs is an error of decodeChunk.                             *)
(*                                                                         *)
(* Ids come from SQLite and are positive.                                  *)
(***************************************************************************)
EXTENDS Integers, Sequences

\* Time is counted in half milliseconds.
UnixMilli(t) == t \div 2

qualityCodes ==
    [GOOD |-> 0, TIMEOUT |-> 1, CRC_ERROR |-> 2, DEVICE_OFFLINE |-> 3, INVALID |-> 4]
qualityOther == 127
hasValueBit == 128

\* A reading without a value.
NoValue == <<>>

\* One record: the delta is from the previous one.
Fields(r, prev) ==
    LET known == r.quality \in DOMAIN qualityCodes
        code == IF known THEN qualityCodes[r.quality] ELSE qualityOther
    IN  <<r.point, r.device, UnixMilli(r.at) - prev,
          IF r.value = NoValue THEN code ELSE code + hasValueBit>>
        \o (IF known THEN <<>> ELSE <<r.quality>>)
        \o (IF r.value = NoValue THEN <<>> ELSE <<r.value>>)

\* Mutant: prev stays at the base, the time of the first reading.
PrevBase(rs, i) == UnixMilli(rs[1].at)
Prev(rs, i) == UnixMilli(rs[IF i = 1 THEN 1 ELSE i - 1].at)

\* The records of the first k readings.
Records(rs) ==
    LET rec[k \in 0 .. Len(rs)] ==
            IF k = 0 THEN <<>> ELSE rec[k - 1] \o Fields(rs[k], Prev(rs, k))
    IN  rec

encodeChunk(rs) ==
    <<Len(rs), IF rs = <<>> THEN 0 ELSE UnixMilli(rs[1].at)>> \o Records(rs)[Len(rs)]

---------------------------------------------------------------------------

\* Where decodeChunk stands: the next field, the time before, the readings so far.
Failed == [ok |-> FALSE, next |-> 0, prev |-> 0, readings |-> <<>>]

Known(base) == \E q \in DOMAIN qualityCodes : qualityCodes[q] = base
qualityName(base) == CHOOSE q \in DOMAIN qualityCodes : qualityCodes[q] = base

\* One record; after an error there are no more.
DecodeRecord(ts, s) ==
    LET i == s.next
        ms == s.prev + ts[i + 2]
        base == ts[i + 3] % hasValueBit
        valued == ts[i + 3] >= hasValueBit
        named == base = qualityOther
        v == IF named THEN i + 5 ELSE i + 4
        next == IF valued THEN v + 1 ELSE v
    IN  IF ~s.ok \/ i + 3 > Len(ts) THEN Failed
        ELSE IF next - 1 > Len(ts) \/ ~(named \/ Known(base)) THEN Failed
        ELSE [ok |-> TRUE, next |-> next, prev |-> ms,
              readings |-> Append(s.readings,
                [point |-> ts[i], device |-> ts[i + 1], ms |-> ms,
                 quality |-> IF named THEN ts[i + 4] ELSE qualityName(base),
                 value |-> IF valued THEN ts[v] ELSE NoValue])]

\* The loop over the records; what follows them is not looked at.
Decoded(ts) ==
    LET loop[k \in 0 .. ts[1]] ==
            IF k = 0 THEN [ok |-> TRUE, next |-> 3, prev |-> ts[2], readings |-> <<>>]
            ELSE DecodeRecord(ts, loop[k - 1])
    IN  loop

decodeChunk(ts) ==
    LET end == IF Len(ts) < 2 \/ ts[1] > Len(ts) THEN Failed ELSE Decoded(ts)[ts[1]]
    IN  [ok |-> end.ok, readings |-> end.readings]
=============================================================================
