----------------------------- MODULE PathProofs -----------------------------
(***************************************************************************)
(* Proofs about DataPath, the way of a value from the planner of block     *)
(* reads to a stored chunk, for every device, every pattern of faults and  *)
(* any number of readings.                                                 *)
(***************************************************************************)
EXTENDS DataPath, FiniteSetTheorems, WellFoundedInduction, TLAPS

(***************************************************************************)
(* planBlockReads: any number of points, with any addresses and data       *)
(* types.                                                                  *)
(***************************************************************************)

Block ==
    [fc : 1 .. 4, start : 0 .. (Words - 1), quantity : 1 .. 125, points : SUBSET Points]

\* A block that begins at or below its points and covers all but those at the
\* top.  Coils are read by themselves.
Sound(b) ==
    /\ b \in Block
    /\ \A p \in b.points :
          /\ dps[p].fc = b.fc
          /\ b.start <= dps[p].addr
          /\ End(p) < Words => Covers(b, p)
          /\ Coils(b.fc) => b = Single(p)

Apart(bs) == \A b, c \in bs : b # c => b.points \cap c.points = {}

\* What PlanSound needs to be inductive: the block being built holds registers
\* and begins at or below every point of its group that is still to come, which
\* is what the sort is for.
PlanInv ==
    /\ dps \in Layouts
    /\ todo \subseteq Points /\ done \subseteq Points
    /\ \A b, c \in pending : b = c
    /\ \A b \in pending : \A p \in todo : dps[p].fc = b.fc => b.start <= dps[p].addr
    /\ Points = todo \cup done \cup UNION {b.points : b \in blocks \cup pending}
    /\ todo \cap done = {}
    /\ \A b \in blocks \cup pending : Sound(b) /\ b.points \cap (todo \cup done) = {}
    /\ Apart(blocks \cup pending)
    /\ blocks \cap pending = {}

\* Arithmetic of uint16, with the wrap made explicit.
LEMMA WordSame == ASSUME NEW n \in Int, 0 <= n, n < Words PROVE Word(n) = n
BY PlanAssumption DEF Word
LEMMA WordWraps == ASSUME NEW n \in Int, Words <= n, n < Words + Words PROVE Word(n) = n - Words
BY PlanAssumption DEF Word

\* A point that may be merged belongs above the start of the block.  The block
\* then keeps covering what it covered, and covers the point unless that ends at
\* the top of the address space; it stays within one request.
LEMMA MergeGrows ==
    ASSUME NEW s \in Nat, s < Words, NEW q \in 1 .. 125,
           NEW a \in Nat, a < Words, NEW w \in Widths,
           s <= a,
           a <= Word(s + q + 8),
           Word(Word(a + w) - s) <= 125,
           NEW g,
           g = IF Word(a + w) > Word(s + q) THEN Word(Word(a + w) - s) ELSE q
    PROVE  /\ g \in q .. 125
           /\ a + w < Words => a + w <= s + g
<1> USE PlanAssumption
<1>1. w \in 1 .. 4
  BY DEF Widths
<1>2. s + q + 8 < Words
  <2>1. SUFFICES ASSUME s + q + 8 >= Words PROVE FALSE
    OBVIOUS
  <2>2. Word(s + q + 8) = s + q + 8 - Words
    BY <2>1, WordWraps
  <2> QED
    BY <2>1, <2>2
<1>3. Word(s + q + 8) = s + q + 8 /\ Word(s + q) = s + q
  BY <1>2, WordSame
<1>4. CASE a + w < Words
  <2>1. Word(a + w) = a + w
    BY <1>1, <1>4, WordSame
  <2>2. Word(Word(a + w) - s) = a + w - s
    BY <1>1, <1>4, <2>1, WordSame
  <2> QED
    BY <1>1, <1>3, <1>4, <2>1, <2>2
<1>5. CASE a + w >= Words
  <2>1. Word(a + w) = a + w - Words
    BY <1>1, <1>5, WordWraps
  <2>2. a + w - Words <= s + q
    BY <1>1, <1>3, <1>5
  <2> QED
    BY <1>1, <1>3, <1>5, <2>1, <2>2
<1> QED
  BY <1>1, <1>4, <1>5

LEMMA PointTypes ==
    ASSUME PlanInv, NEW p \in Points
    PROVE  dps[p].fc \in 1 .. 4 /\ dps[p].addr \in 0 .. (Words - 1) /\ dps[p].width \in Widths
BY PlanAssumption DEF PlanInv, Points

LEMMA SingleSound ==
    ASSUME PlanInv, NEW p \in Points
    PROVE  Sound(Single(p))
<1>1. Single(p) \in Block
  BY PlanAssumption, PointTypes DEF Single, Block, Widths
<1>2. /\ Single(p).fc = dps[p].fc /\ Single(p).start = dps[p].addr
      /\ Single(p).points = {p} /\ Single(p).quantity = dps[p].width
  BY DEF Single
<1>3. dps[p].addr \in Int /\ Covers(Single(p), p)
  <2>1. dps[p].addr \in Int /\ dps[p].width \in Int
    BY PlanAssumption, PointTypes DEF Widths
  <2> QED BY <1>2, <2>1 DEF Covers, End
<1> QED BY <1>1, <1>2, <1>3 DEF Sound

LEMMA MergedSound ==
    ASSUME PlanInv, NEW b \in pending, NEW p \in Points, MayPlace(p), Mergeable(b, p),
           ~Coils(dps[p].fc)
    PROVE  Sound(Merged(b, p))
<1> USE PlanAssumption
<1>1. b \in Block /\ dps[p].fc = b.fc /\ b.start <= dps[p].addr
  BY DEF PlanInv, Sound, MayPlace
<1>2. \A r \in b.points :
         dps[r].fc = b.fc /\ b.start <= dps[r].addr /\ (End(r) < Words => Covers(b, r))
  BY DEF PlanInv, Sound
<1>3. dps[p].addr \in 0 .. (Words - 1) /\ dps[p].width \in Widths
  BY PointTypes
<1>4. /\ Grown(b, p) \in b.quantity .. 125
      /\ End(p) < Words => End(p) <= b.start + Grown(b, p)
  <2>1. /\ b.start \in Nat /\ b.start < Words /\ b.quantity \in 1 .. 125
        /\ dps[p].addr \in Nat /\ dps[p].addr < Words
    BY <1>1, <1>3 DEF Block
  <2>2. /\ dps[p].addr <= Word(b.start + b.quantity + 8)
        /\ Word(Word(dps[p].addr + dps[p].width) - b.start) <= 125
    BY DEF Mergeable, DpEnd, maxGapRegisters, maxRegistersPerBlock
  <2>3. Grown(b, p) = IF Word(dps[p].addr + dps[p].width) > Word(b.start + b.quantity)
                      THEN Word(Word(dps[p].addr + dps[p].width) - b.start)
                      ELSE b.quantity
    BY DEF Grown, DpEnd
  <2>4. b.start <= dps[p].addr
    BY <1>1, Zenon
  <2>5. /\ Grown(b, p) \in b.quantity .. 125
        /\ dps[p].addr + dps[p].width < Words
               => dps[p].addr + dps[p].width <= b.start + Grown(b, p)
    BY <1>3, <2>1, <2>2, <2>3, <2>4, MergeGrows, Zenon
  <2> QED
    BY <2>5 DEF End
<1>5. /\ Merged(b, p).quantity = Grown(b, p) /\ Merged(b, p).points = b.points \cup {p}
      /\ Merged(b, p).fc = b.fc /\ Merged(b, p).start = b.start
      /\ Merged(b, p) \in Block
  BY <1>1, <1>4 DEF Merged, Block
<1>6. ASSUME NEW r \in b.points, End(r) < Words PROVE Covers(Merged(b, p), r)
  <2>1. Covers(b, r) /\ r \in Points
    BY <1>1, <1>2, <1>6 DEF Block
  <2>2. dps[r].addr \in Int /\ dps[r].width \in Int
    BY <2>1, PointTypes DEF Widths
  <2> QED
    BY <1>1, <1>4, <1>5, <2>1, <2>2 DEF Covers, End, Block
<1>7. End(p) < Words => Covers(Merged(b, p), p)
  BY <1>1, <1>4, <1>5 DEF Covers
<1> QED
  BY <1>1, <1>2, <1>5, <1>6, <1>7 DEF Sound

LEMMA InvIsSound == PlanInv => PlanSound
BY DEF PlanInv, PlanSound, Sound, Apart, Block, maxRegistersPerBlock

\* No block changes when the layout does not.
LEMMA SoundKept ==
    ASSUME dps' = dps
    PROVE  /\ Points' = Points
           /\ \A b : Sound(b)' <=> Sound(b)
           /\ \A p : Single(p)' = Single(p)
BY DEF Points, Sound, Block, Covers, End, Single, Coils

---------------------------------------------------------------------------

LEMMA PlanInit_Inv == PlanInit => PlanInv
BY DEF PlanInit, PlanInv, Apart

LEMMA BeginPlan_Inv == PlanInv /\ BeginPlan => PlanInv'
<1> SUFFICES ASSUME PlanInv, BeginPlan PROVE PlanInv'
  OBVIOUS
<1>1. dps' = dps /\ todo' = Points /\ done' = {} /\ pending' = {} /\ blocks' = {}
  BY DEF BeginPlan
<1> QED
  BY <1>1, SoundKept DEF PlanInv, Apart

LEMMA PlaceCoil_Inv ==
    ASSUME PlanInv, NEW p \in Points, PlaceCoil(p)
    PROVE  PlanInv'
<1>1. /\ p \in todo /\ blocks' = blocks \cup {Single(p)} /\ todo' = todo \ {p}
      /\ dps' = dps /\ pending' = pending /\ done' = done
  BY DEF PlaceCoil, MayPlace
<1>2. Sound(Single(p)) /\ Single(p).points = {p}
  BY SingleSound DEF Single
<1>3. UNION {b.points : b \in blocks' \cup pending'} =
        {p} \cup UNION {b.points : b \in blocks \cup pending}
  BY <1>1, <1>2
<1>4. \A b \in blocks' \cup pending' : Sound(b) /\ b.points \cap (todo' \cup done') = {}
  BY <1>1, <1>2 DEF PlanInv
<1>5. Apart(blocks' \cup pending')
  BY <1>1, <1>2 DEF PlanInv, Apart
<1>6. blocks' \cap pending' = {}
  BY <1>1, <1>2 DEF PlanInv, PlaceCoil, MayPlace, Single
<1> QED
  BY <1>1, <1>3, <1>4, <1>5, <1>6, SoundKept DEF PlanInv, Apart

LEMMA PlaceRegister_Inv ==
    ASSUME PlanInv, NEW p \in Points, PlaceRegister(p)
    PROVE  PlanInv'
<1>1. p \in todo /\ MayPlace(p) /\ todo' = todo \ {p} /\ dps' = dps /\ done' = done
  BY DEF PlaceRegister, MayPlace
<1>2. Sound(Single(p)) /\ Single(p).points = {p} /\ Single(p).start = dps[p].addr
      /\ Single(p).fc = dps[p].fc
  BY SingleSound DEF Single
<1>3. \A q \in todo : dps[q].fc = dps[p].fc => dps[p].addr <= dps[q].addr
  BY DEF PlaceRegister, MayPlace
<1>4. CASE \E b \in pending :
             /\ Mergeable(b, p)
             /\ pending' = {Merged(b, p)}
             /\ UNCHANGED blocks
  <2> PICK b \in pending : Mergeable(b, p) /\ pending' = {Merged(b, p)} /\ blocks' = blocks
    BY <1>4
  <2> DEFINE m == Merged(b, p)
  <2>1. /\ Sound(m) /\ m.points = b.points \cup {p}
        /\ m.start = b.start /\ m.fc = b.fc
    BY <1>1, MergedSound DEF Merged, PlaceRegister
  <2>2. pending = {b}
    BY DEF PlanInv
  <2> HIDE DEF m
  <2>3. pending' = {m}
    BY DEF m
  <2>4. UNION {c.points : c \in blocks' \cup pending'} =
          {p} \cup UNION {c.points : c \in blocks \cup pending}
    BY <2>1, <2>2, <2>3
  <2>5. \A c \in blocks' \cup pending' : Sound(c) /\ c.points \cap (todo' \cup done') = {}
    BY <1>1, <2>1, <2>2, <2>3 DEF PlanInv
  <2>6. Apart(blocks' \cup pending')
    BY <1>1, <2>1, <2>2, <2>3 DEF PlanInv, Apart
  <2>7. /\ \A c, d \in pending' : c = d
        /\ \A c \in pending' : \A q \in todo' : dps[q].fc = c.fc => c.start <= dps[q].addr
    BY <1>1, <2>1, <2>2, <2>3 DEF PlanInv
  <2>8. blocks' \cap pending' = {}
    BY <1>1, <2>1, <2>3 DEF PlanInv
  <2> QED
    BY <1>1, <2>4, <2>5, <2>6, <2>7, <2>8, SoundKept DEF PlanInv, Apart
<1>5. CASE blocks' = blocks \cup pending /\ pending' = {Single(p)}
  <2>1. UNION {c.points : c \in blocks' \cup pending'} =
          {p} \cup UNION {c.points : c \in blocks \cup pending}
    BY <1>2, <1>5
  <2>2. \A c \in blocks' \cup pending' : Sound(c) /\ c.points \cap (todo' \cup done') = {}
    BY <1>1, <1>2, <1>5 DEF PlanInv
  <2>3. Apart(blocks' \cup pending')
    BY <1>1, <1>2, <1>5 DEF PlanInv, Apart
  <2>4. /\ \A c, d \in pending' : c = d
        /\ \A c \in pending' : \A q \in todo' : dps[q].fc = c.fc => c.start <= dps[q].addr
    BY <1>1, <1>2, <1>3, <1>5
  <2>5. blocks' \cap pending' = {}
    BY <1>1, <1>2, <1>5 DEF PlanInv
  <2> QED
    BY <1>1, <2>1, <2>2, <2>3, <2>4, <2>5, SoundKept DEF PlanInv, Apart
<1> QED
  BY <1>4, <1>5 DEF PlaceRegister

LEMMA EndGroup_Inv == PlanInv /\ EndGroup => PlanInv'
<1> SUFFICES ASSUME PlanInv, EndGroup PROVE PlanInv'
  OBVIOUS
<1>1. /\ blocks' = blocks \cup pending /\ pending' = {}
      /\ dps' = dps /\ todo' = todo /\ done' = done
  BY DEF EndGroup
<1>2. blocks' \cup pending' = blocks \cup pending
  BY <1>1
<1> QED
  BY <1>1, <1>2, SoundKept DEF PlanInv, Apart

LEMMA TakeBlock_Inv ==
    ASSUME PlanInv, NEW b \in blocks, TakeBlock(b)
    PROVE  PlanInv'
<1>1. /\ todo = {} /\ pending = {} /\ blocks' = blocks \ {b} /\ done' = done \cup b.points
      /\ dps' = dps /\ todo' = {} /\ pending' = {}
  BY DEF TakeBlock
<1>2. b.points \subseteq Points
  BY DEF PlanInv
<1>3. UNION {c.points : c \in blocks} = b.points \cup UNION {c.points : c \in blocks'}
  BY <1>1
<1>4. \A c \in blocks' : Sound(c) /\ c.points \cap done' = {}
  BY <1>1 DEF PlanInv, Apart
<1>5. Apart(blocks')
  BY <1>1 DEF PlanInv, Apart
<1> QED
  BY <1>1, <1>2, <1>3, <1>4, <1>5, SoundKept DEF PlanInv, Apart

\* Whatever the points of a device are, planBlockReads puts each of them into
\* exactly one request of legal size that covers it, unless it ends at the top
\* of the address space.
THEOREM PlanIsSound == PlanSpec => []PlanSound
<1>1. PlanInv /\ [PlanNext]_planVars => PlanInv'
  <2> SUFFICES ASSUME PlanInv, [PlanNext]_planVars PROVE PlanInv'
    OBVIOUS
  <2>1. CASE BeginPlan
    BY <2>1, BeginPlan_Inv
  <2>2. ASSUME NEW p \in Points, PlaceCoil(p) PROVE PlanInv'
    BY <2>2, PlaceCoil_Inv
  <2>3. ASSUME NEW p \in Points, PlaceRegister(p) PROVE PlanInv'
    BY <2>3, PlaceRegister_Inv
  <2>4. CASE EndGroup
    BY <2>4, EndGroup_Inv
  <2>5. ASSUME NEW b \in blocks, TakeBlock(b) PROVE PlanInv'
    BY <2>5, TakeBlock_Inv
  <2>6. CASE UNCHANGED planVars
    BY <2>6, SoundKept DEF planVars, PlanInv, Apart
  <2> QED
    BY <2>1, <2>2, <2>3, <2>4, <2>5, <2>6 DEF PlanNext, Planning
<1> QED
  BY PlanInit_Inv, <1>1, InvIsSound, PTL DEF PlanSpec

(***************************************************************************)
(* encodeChunk and decodeChunk: any number of readings, in any order of    *)
(* their times.                                                            *)
(***************************************************************************)

\* Induction up to a bound, over the set of the numbers that have a property.
LEMMA Reaches ==
    ASSUME NEW N \in Nat, NEW S, 0 \in S,
           \A n \in 0 .. N : n \in S /\ n < N => n + 1 \in S
    PROVE  \A n \in 0 .. N : n \in S
<1> DEFINE T == (0 .. N) \ S
<1>1. T = {}
  <2> SUFFICES ASSUME T # {} PROVE FALSE
    OBVIOUS
  <2>1. T \subseteq Nat
    OBVIOUS
  <2>2. PICK t \in T : \A u \in T : <<u, t>> \notin OpToRel(<, Nat)
    <3> HIDE DEF T
    <3> QED BY <2>1, NatLessThanWellFounded, WFMin, Zenon
  <2>3. \A u \in T : ~(u < t)
    BY <2>1, <2>2, Zenon DEF OpToRel
  <2>4. t \in 1 .. N
    OBVIOUS
  <2>5. t - 1 \in 0 .. N /\ t - 1 < t /\ t - 1 < N /\ (t - 1) + 1 = t
    BY <2>4
  <2>6. t - 1 \in S
    BY <2>3, <2>5
  <2>7. t \in S
    BY <2>5, <2>6
  <2> QED BY <2>7
<1> QED BY <1>1

\* The records of an encoded chunk, one after the other.
LEMMA RecordsAre ==
    ASSUME NEW rs, Len(rs) \in Nat
    PROVE  /\ DOMAIN Records(rs) = 0 .. Len(rs)
           /\ Records(rs)[0] = <<>>
           /\ \A k \in 1 .. Len(rs) :
                 Records(rs)[k] = Records(rs)[k - 1] \o Fields(rs[k], Prev(rs, k))
<1> DEFINE N == Len(rs)
           Put(k, x) == x \o Fields(rs[k], Prev(rs, k))
           Is(g, n) == g = [k \in 0 .. n |-> IF k = 0 THEN <<>> ELSE Put(k, g[k - 1])]
           S == {n \in 0 .. N : \E g : Is(g, n)}
<1>1. 0 \in S
  <2>1. Is([k \in 0 .. 0 |-> <<>>], 0)
    OBVIOUS
  <2>2. 0 \in 0 .. N
    OBVIOUS
  <2> HIDE DEF Is, N
  <2> QED BY <2>1, <2>2, Zenon
<1>2. ASSUME NEW n \in 0 .. N, n \in S, n < N PROVE n + 1 \in S
  <2>1. PICK g : Is(g, n)
    BY <1>2, Zenon
  <2> DEFINE h == [k \in 0 .. (n + 1) |-> IF k = n + 1 THEN Put(n + 1, g[n]) ELSE g[k]]
  <2> HIDE DEF Put
  <2>2. \A k \in 0 .. n : g[k] = IF k = 0 THEN <<>> ELSE Put(k, g[k - 1])
    BY <2>1
  <2>3. \A k \in 0 .. (n + 1) : h[k] = IF k = 0 THEN <<>> ELSE Put(k, h[k - 1])
    BY <2>2
  <2>4. h = [k \in 0 .. (n + 1) |-> h[k]]
    OBVIOUS
  <2>5. Is(h, n + 1)
    <3> HIDE DEF h
    <3> QED BY <2>3, <2>4, Zenon
  <2>6. n + 1 \in 0 .. N
    BY <1>2
  <2> HIDE DEF Is, N, h
  <2> QED BY <2>5, <2>6, Zenon
<1>3. N \in S
  <2> HIDE DEF S
  <2>1. N \in Nat /\ N \in 0 .. N
    OBVIOUS
  <2>2. \A n \in 0 .. N : n \in S /\ n < N => n + 1 \in S
    BY <1>2
  <2> HIDE DEF N
  <2>3. \A n \in 0 .. N : n \in S
    BY <1>1, <2>1, <2>2, Reaches
  <2> QED BY <2>1, <2>3
<1>4. PICK g : Is(g, N)
  BY <1>3, Zenon
<1>5. Is(Records(rs), N)
  BY <1>4, Zenon DEF Records
<1> HIDE DEF Put, S
<1>6. PICK r : r = Records(rs)
  BY Zenon
<1>7. DOMAIN r = 0 .. N /\ \A k \in 0 .. N : r[k] = IF k = 0 THEN <<>> ELSE Put(k, r[k - 1])
  BY <1>5, <1>6
<1>8. r[0] = <<>> /\ \A k \in 1 .. N : r[k] = Put(k, r[k - 1])
  <2> HIDE DEF Is
  <2>1. N \in Nat
    OBVIOUS
  <2> HIDE DEF N
  <2> QED BY <1>7, <2>1
<1> QED BY <1>6, <1>7, <1>8, Zenon DEF Put

\* The states of the decoding loop, one record after the other.
Start(ts) == [ok |-> TRUE, next |-> 3, prev |-> ts[2], readings |-> <<>>]
LEMMA DecodedAre ==
    ASSUME NEW ts, ts[1] \in Nat
    PROVE  /\ Decoded(ts)[0] = Start(ts)
           /\ \A k \in 1 .. ts[1] : Decoded(ts)[k] = DecodeRecord(ts, Decoded(ts)[k - 1])
<1> DEFINE N == ts[1]
           Get(x) == DecodeRecord(ts, x)
           Is(g, n) == g = [k \in 0 .. n |-> IF k = 0 THEN Start(ts) ELSE Get(g[k - 1])]
           S == {n \in 0 .. N : \E g : Is(g, n)}
<1>1. 0 \in S
  <2>1. Is([k \in 0 .. 0 |-> Start(ts)], 0)
    OBVIOUS
  <2>2. 0 \in 0 .. N
    OBVIOUS
  <2> HIDE DEF Is, N
  <2> QED BY <2>1, <2>2, Zenon
<1>2. ASSUME NEW n \in 0 .. N, n \in S, n < N PROVE n + 1 \in S
  <2>1. PICK g : Is(g, n)
    BY <1>2
  <2> DEFINE h == [k \in 0 .. (n + 1) |-> IF k = n + 1 THEN Get(g[n]) ELSE g[k]]
  <2> HIDE DEF Get
  <2>2. \A k \in 0 .. n : g[k] = IF k = 0 THEN Start(ts) ELSE Get(g[k - 1])
    BY <2>1
  <2>3. \A k \in 0 .. (n + 1) : h[k] = IF k = 0 THEN Start(ts) ELSE Get(h[k - 1])
    BY <2>2
  <2>4. h = [k \in 0 .. (n + 1) |-> h[k]]
    OBVIOUS
  <2>5. Is(h, n + 1)
    <3> HIDE DEF h
    <3> QED BY <2>3, <2>4, Zenon
  <2>6. n + 1 \in 0 .. N
    BY <1>2
  <2> HIDE DEF Is, N, h
  <2> QED BY <2>5, <2>6, Zenon
<1>3. N \in S
  <2> HIDE DEF S
  <2>1. N \in Nat /\ N \in 0 .. N
    OBVIOUS
  <2>2. \A n \in 0 .. N : n \in S /\ n < N => n + 1 \in S
    BY <1>2
  <2> HIDE DEF N
  <2>3. \A n \in 0 .. N : n \in S
    BY <1>1, <2>1, <2>2, Reaches
  <2> QED BY <2>1, <2>3
<1>4. PICK g : Is(g, N)
  BY <1>3
<1>5. Is(Decoded(ts), N)
  BY <1>4, Zenon DEF Decoded, Start
<1> HIDE DEF Get, S
<1>6. PICK r : r = Decoded(ts)
  BY Zenon
<1>7. \A k \in 0 .. N : r[k] = IF k = 0 THEN Start(ts) ELSE Get(r[k - 1])
  BY <1>5, <1>6
<1>8. r[0] = Start(ts) /\ \A k \in 1 .. N : r[k] = Get(r[k - 1])
  <2> HIDE DEF Is
  <2>1. N \in Nat
    OBVIOUS
  <2> HIDE DEF N
  <2> QED BY <1>7, <2>1
<1> QED BY <1>6, <1>8, Zenon DEF Get

\* The fields of a reading, by their places.
Valued(r) == r.value # NoValue
Named(r) == r.quality \notin DOMAIN qualityCodes
Code(r) ==
    (IF Named(r) THEN qualityOther ELSE qualityCodes[r.quality])
    + (IF Valued(r) THEN hasValueBit ELSE 0)
Width(r) == 4 + (IF Named(r) THEN 1 ELSE 0) + (IF Valued(r) THEN 1 ELSE 0)

\* What a field of a chunk may be.
Token(R) ==
    Int \cup {r.point : r \in R} \cup {r.device : r \in R} \cup {r.quality : r \in R}
        \cup {r.value : r \in R}

\* The quality codes are different from each other and from qualityOther.
LEMMA CodesAre ==
    /\ DOMAIN qualityCodes = {"GOOD", "TIMEOUT", "CRC_ERROR", "DEVICE_OFFLINE", "INVALID"}
    /\ \A q \in DOMAIN qualityCodes : qualityCodes[q] \in 0 .. 4
    /\ \A p, q \in DOMAIN qualityCodes : qualityCodes[p] = qualityCodes[q] => p = q
BY DEF qualityCodes

LEMMA Joined ==
    ASSUME NEW T, NEW s \in Seq(T), NEW t \in Seq(T)
    PROVE  /\ s \o t \in Seq(T) /\ Len(s) \in Nat /\ Len(t) \in Nat
           /\ Len(s \o t) = Len(s) + Len(t)
           /\ \A i \in 1 .. Len(s) : (s \o t)[i] = s[i]
           /\ \A i \in 1 .. Len(t) : (s \o t)[Len(s) + i] = t[i]
<1>1. Len(s) \in Nat /\ Len(t) \in Nat
  OBVIOUS
<1>2. /\ s \o t \in Seq(T) /\ Len(s \o t) = Len(s) + Len(t)
      /\ \A i \in 1 .. Len(s) + Len(t) :
            (s \o t)[i] = IF i <= Len(s) THEN s[i] ELSE t[i - Len(s)]
  OBVIOUS
<1>3. PICK u : u = s \o t
  OBVIOUS
<1>4. PICK m \in Nat, n \in Nat : m = Len(s) /\ n = Len(t)
  BY <1>1
<1>5. \A i \in 1 .. m + n : u[i] = IF i <= m THEN s[i] ELSE t[i - m]
  BY <1>2, <1>3, <1>4
<1>6. \A i \in 1 .. m : u[i] = s[i]
  BY <1>5
<1>7. ASSUME NEW i \in 1 .. n PROVE u[m + i] = t[i]
  <2>1. m + i \in 1 .. m + n /\ ~(m + i <= m) /\ (m + i) - m = i
    OBVIOUS
  <2> QED BY <1>5, <2>1
<1> QED BY <1>1, <1>2, <1>3, <1>4, <1>6, <1>7

\* A record has four fields, the name of an unknown quality, and the value.
LEMMA FieldsAre ==
    ASSUME NEW R, NEW r \in R, r.at \in Int, NEW prev \in Int
    PROVE  /\ Fields(r, prev) \in Seq(Token(R))
           /\ Len(Fields(r, prev)) = Width(r)
           /\ Fields(r, prev)[1] = r.point
           /\ Fields(r, prev)[2] = r.device
           /\ Fields(r, prev)[3] = UnixMilli(r.at) - prev
           /\ Fields(r, prev)[4] = Code(r)
           /\ Named(r) => Fields(r, prev)[5] = r.quality
           /\ Valued(r) => Fields(r, prev)[Width(r)] = r.value
<1> DEFINE T == Token(R)
           code == IF ~Named(r) THEN qualityCodes[r.quality] ELSE qualityOther
           c == IF ~Valued(r) THEN code ELSE code + hasValueBit
           d == UnixMilli(r.at) - prev
           a == <<r.point, r.device, d, c>>
           b == IF ~Named(r) THEN <<>> ELSE <<r.quality>>
           v == IF ~Valued(r) THEN <<>> ELSE <<r.value>>
<1>1. Fields(r, prev) = (a \o b) \o v
  BY Zenon DEF Fields, Named, Valued
<1>2. d \in Int
  BY DEF UnixMilli
<1>3. code \in Int /\ c \in Int /\ c = Code(r)
  BY CodesAre DEF Code, Named, Valued, qualityOther, hasValueBit
<1>4. /\ r.point \in T /\ r.device \in T /\ r.quality \in T /\ r.value \in T /\ d \in T
      /\ c \in T
  BY <1>2, <1>3 DEF Token
<1> HIDE DEF T, c, d, code
<1>5. a \in Seq(T) /\ Len(a) = 4 /\ a[1] = r.point /\ a[2] = r.device /\ a[3] = d /\ a[4] = c
  BY <1>4
<1>6. b \in Seq(T) /\ Len(b) = (IF Named(r) THEN 1 ELSE 0) /\ (Named(r) => b[1] = r.quality)
  BY <1>4
<1>7. v \in Seq(T) /\ Len(v) = (IF Valued(r) THEN 1 ELSE 0) /\ (Valued(r) => v[1] = r.value)
  BY <1>4
<1> HIDE DEF a, b, v
<1>8. PICK w : w = a \o b
  OBVIOUS
<1>9. /\ w \in Seq(T) /\ Len(w) = 4 + Len(b)
      /\ w[1] = r.point /\ w[2] = r.device /\ w[3] = d /\ w[4] = c
      /\ Named(r) => w[5] = r.quality
  <2>1. /\ w \in Seq(T) /\ Len(w) = Len(a) + Len(b)
        /\ \A i \in 1 .. Len(a) : w[i] = a[i]
        /\ \A i \in 1 .. Len(b) : w[Len(a) + i] = b[i]
    <3>1. a \in Seq(T) /\ b \in Seq(T)
      BY <1>5, <1>6
    <3> QED BY <3>1, <1>8, Joined
  <2> QED BY <1>5, <1>6, <2>1
<1>10. Len(w) \in Nat /\ Len(w) >= 4 /\ Len(v) \in Nat /\ Len(w) + Len(v) = Width(r)
  BY <1>6, <1>7, <1>9 DEF Width
<1>11. /\ w \o v \in Seq(T) /\ Len(w \o v) = Len(w) + Len(v)
       /\ \A i \in 1 .. Len(w) : (w \o v)[i] = w[i]
       /\ Valued(r) => (w \o v)[Len(w) + 1] = v[1]
  <2>1. /\ w \o v \in Seq(T) /\ Len(w \o v) = Len(w) + Len(v)
        /\ \A i \in 1 .. Len(w) : (w \o v)[i] = w[i]
        /\ \A i \in 1 .. Len(v) : (w \o v)[Len(w) + i] = v[i]
    <3>1. w \in Seq(T) /\ v \in Seq(T)
      BY <1>7, <1>9
    <3> QED BY <3>1, Joined
  <2>2. Valued(r) => 1 \in 1 .. Len(v)
    BY <1>7
  <2> QED BY <2>1, <2>2
<1>12. Named(r) => (w \o v)[5] = r.quality
  BY <1>6, <1>9, <1>11
<1>13. Valued(r) => (w \o v)[Width(r)] = r.value
  BY <1>7, <1>10, <1>11
<1>14. /\ (w \o v)[1] = r.point /\ (w \o v)[2] = r.device /\ (w \o v)[3] = d
       /\ (w \o v)[4] = c
  BY <1>9, <1>10, <1>11
<1>15. Fields(r, prev) = w \o v
  BY <1>1, <1>8
<1> QED BY <1>3, <1>10, <1>11, <1>12, <1>13, <1>14, <1>15, Zenon DEF T, d

\* A sequence put together from parts that are not empty: every stage is a
\* prefix of the last one.
Stages(T, N, E, F) ==
    /\ E[0] = <<>>
    /\ \A k \in 1 .. N : /\ F[k] \in Seq(T) /\ Len(F[k]) >= 1
                         /\ E[k] = E[k - 1] \o F[k]

Prefixes(T, N, E, F) ==
    /\ \A k \in 0 .. N : E[k] \in Seq(T) /\ Len(E[k]) \in Nat /\ Len(E[k]) >= k
    /\ \A k \in 1 .. N :
          /\ Len(E[k]) = Len(E[k - 1]) + Len(F[k])
          /\ \A j \in 1 .. Len(F[k]) : E[k][Len(E[k - 1]) + j] = F[k][j]
    /\ \A k \in 0 .. N :
          /\ Len(E[k]) <= Len(E[N])
          /\ \A j \in 1 .. Len(E[k]) : E[N][j] = E[k][j]

LEMMA PrefixesAre ==
    ASSUME NEW T, NEW N \in Nat, NEW E, NEW F, Stages(T, N, E, F)
    PROVE  Prefixes(T, N, E, F)
<1> DEFINE A == {n \in 0 .. N : E[n] \in Seq(T) /\ Len(E[n]) >= n}
<1>1. ASSUME NEW k \in 1 .. N, E[k - 1] \in Seq(T)
      PROVE  /\ E[k] \in Seq(T) /\ Len(E[k - 1]) \in Nat /\ Len(F[k]) \in Nat
             /\ Len(E[k]) = Len(E[k - 1]) + Len(F[k])
             /\ \A j \in 1 .. Len(E[k - 1]) : E[k][j] = E[k - 1][j]
             /\ \A j \in 1 .. Len(F[k]) : E[k][Len(E[k - 1]) + j] = F[k][j]
  <2>1. F[k] \in Seq(T) /\ E[k] = E[k - 1] \o F[k]
    BY Zenon DEF Stages
  <2>2. PICK s \in Seq(T), t \in Seq(T) : s = E[k - 1] /\ t = F[k]
    BY <1>1, <2>1
  <2>3. PICK u : u = s \o t
    OBVIOUS
  <2>4. /\ u \in Seq(T) /\ Len(s) \in Nat /\ Len(t) \in Nat
        /\ Len(u) = Len(s) + Len(t)
        /\ \A i \in 1 .. Len(s) : u[i] = s[i]
        /\ \A i \in 1 .. Len(t) : u[Len(s) + i] = t[i]
    BY <2>3, Joined
  <2>5. u = E[k]
    BY <2>1, <2>2, <2>3
  <2> QED BY <2>2, <2>4, <2>5, Zenon
<1>2. 0 \in A
  <2>1. <<>> \in Seq(T) /\ Len(<<>>) = 0 /\ 0 >= 0 /\ 0 \in 0 .. N
    OBVIOUS
  <2>2. E[0] = <<>>
    BY DEF Stages
  <2> QED BY <2>1, <2>2, Zenon
<1>3. ASSUME NEW n \in 0 .. N, n \in A, n < N PROVE n + 1 \in A
  <2>1. n + 1 \in 1 .. N /\ (n + 1) - 1 = n /\ n + 1 \in 0 .. N
    BY <1>3
  <2>2. E[n] \in Seq(T) /\ Len(E[n]) >= n
    BY <1>3
  <2>3. /\ E[n + 1] \in Seq(T) /\ Len(E[n]) \in Nat /\ Len(F[n + 1]) \in Nat
        /\ Len(E[n + 1]) = Len(E[n]) + Len(F[n + 1]) /\ Len(F[n + 1]) >= 1
    <3>1. Len(F[n + 1]) >= 1
      BY <2>1, Zenon DEF Stages
    <3> QED BY <1>1, <2>1, <2>2, <3>1, Zenon
  <2>4. Len(E[n + 1]) >= n + 1
    <3>1. PICK l, f, m : l = Len(E[n]) /\ f = Len(F[n + 1]) /\ m = Len(E[n + 1])
      OBVIOUS
    <3>2. l \in Nat /\ f \in Nat /\ m = l + f /\ f >= 1 /\ l >= n
      BY <2>2, <2>3, <3>1
    <3>3. m >= n + 1
      BY <3>2
    <3> QED BY <3>1, <3>3
  <2> QED BY <2>1, <2>3, <2>4, Zenon
<1>4. \A n \in 0 .. N : n \in A
  <2> HIDE DEF A
  <2> QED BY <1>2, <1>3, Reaches
<1>5. \A k \in 0 .. N : E[k] \in Seq(T) /\ Len(E[k]) \in Nat /\ Len(E[k]) >= k
  BY <1>4
<1>6. \A k \in 1 .. N :
         /\ Len(E[k]) = Len(E[k - 1]) + Len(F[k]) /\ Len(F[k]) \in Nat
         /\ \A j \in 1 .. Len(E[k - 1]) : E[k][j] = E[k - 1][j]
         /\ \A j \in 1 .. Len(F[k]) : E[k][Len(E[k - 1]) + j] = F[k][j]
  <2> TAKE k \in 1 .. N
  <2>1. k - 1 \in 0 .. N
    OBVIOUS
  <2>2. E[k - 1] \in Seq(T)
    BY <1>5, <2>1
  <2> QED BY <1>1, <2>2, Zenon
<1> HIDE DEF A
<1> DEFINE P(m, k) == /\ Len(E[k]) <= Len(E[m])
                      /\ \A j \in 1 .. Len(E[k]) : E[m][j] = E[k][j]
           B == {m \in 0 .. N : \A k \in 0 .. m : P(m, k)}
<1>7. 0 \in B
  <2>1. P(0, 0)
    BY <1>5
  <2>2. \A k \in 0 .. 0 : k = 0
    OBVIOUS
  <2> HIDE DEF P
  <2> QED BY <2>1, <2>2
<1>8. ASSUME NEW n \in 0 .. N, n \in B, n < N PROVE n + 1 \in B
  <2>1. n + 1 \in 1 .. N /\ (n + 1) - 1 = n /\ n + 1 \in 0 .. N
    BY <1>8
  <2>2. /\ Len(E[n + 1]) = Len(E[n]) + Len(F[n + 1]) /\ Len(F[n + 1]) \in Nat
        /\ \A j \in 1 .. Len(E[n]) : E[n + 1][j] = E[n][j]
    <3>1. PICK k \in 1 .. N : k = n + 1 /\ k - 1 = n
      BY <2>1
    <3>2. /\ Len(E[k]) = Len(E[k - 1]) + Len(F[k]) /\ Len(F[k]) \in Nat
          /\ \A j \in 1 .. Len(E[k - 1]) : E[k][j] = E[k - 1][j]
      BY <1>6, Zenon
    <3> QED BY <3>1, <3>2
  <2>3. \A k \in 0 .. n : P(n, k)
    <3> HIDE DEF P
    <3> QED BY <1>8
  <2>4. P(n + 1, n + 1)
    BY <1>5, <2>1
  <2>5. ASSUME NEW k \in 0 .. n PROVE P(n + 1, k)
    <3>1. Len(E[k]) \in Nat /\ Len(E[n]) \in Nat
      <4>1. k \in 0 .. N
        OBVIOUS
      <4> QED BY <1>5, <4>1
    <3>2. P(n, k)
      <4> HIDE DEF P
      <4> QED BY <2>3
    <3>3. PICK x, y, z : x = E[k] /\ y = E[n] /\ z = E[n + 1]
      OBVIOUS
    <3>4. PICK f \in Nat : Len(z) = Len(y) + f
      BY <2>2, <3>3, Zenon
    <3>5. /\ Len(x) \in Nat /\ Len(y) \in Nat /\ Len(x) <= Len(y)
          /\ \A j \in 1 .. Len(x) : y[j] = x[j]
          /\ \A j \in 1 .. Len(y) : z[j] = y[j]
      BY <2>2, <3>1, <3>2, <3>3
    <3>6. Len(x) <= Len(z) /\ \A j \in 1 .. Len(x) : z[j] = x[j]
      BY <3>4, <3>5
    <3> QED BY <3>3, <3>6
  <2>6. \A k \in 0 .. (n + 1) : k \in 0 .. n \/ k = n + 1
    OBVIOUS
  <2> HIDE DEF P
  <2> QED BY <2>1, <2>4, <2>5, <2>6
<1>9. \A n \in 0 .. N : n \in B
  <2> HIDE DEF B
  <2> QED BY <1>7, <1>8, Reaches
<1>10. \A k \in 0 .. N : P(N, k)
  <2> HIDE DEF P
  <2> QED BY <1>9
<1> QED BY <1>5, <1>6, <1>10, Zenon DEF Prefixes

\* A reading as decodeChunk returns it.
Shown(r) ==
    [point |-> r.point, device |-> r.device, ms |-> UnixMilli(r.at),
     quality |-> r.quality, value |-> r.value]

\* What the fourth field of a record says.
LEMMA CodeIs ==
    ASSUME NEW r
    PROVE  /\ Code(r) \in Nat
           /\ (Code(r) >= hasValueBit) = Valued(r)
           /\ (Code(r) % hasValueBit = qualityOther) = Named(r)
           /\ ~Named(r) => /\ Known(Code(r) % hasValueBit)
                           /\ qualityName(Code(r) % hasValueBit) = r.quality
<1> DEFINE q == IF Named(r) THEN qualityOther ELSE qualityCodes[r.quality]
<1>1. q \in 0 .. 127 /\ (q = 127) = Named(r)
  BY CodesAre DEF Named, qualityOther
<1>2. Code(r) = IF Valued(r) THEN q + 128 ELSE q
  BY <1>1 DEF Code, hasValueBit
<1>3. ~Named(r) => r.quality \in DOMAIN qualityCodes /\ q = qualityCodes[r.quality]
  BY DEF Named
<1> HIDE DEF q
<1>4. Code(r) \in Nat /\ Code(r) % 128 = q
  BY <1>1, <1>2
<1>5. (Code(r) >= 128) = Valued(r)
  BY <1>1, <1>2 DEF Valued
<1>6. ASSUME ~Named(r) PROVE Known(q) /\ qualityName(q) = r.quality
  <2>1. r.quality \in DOMAIN qualityCodes /\ qualityCodes[r.quality] = q
    BY <1>3, <1>6
  <2>2. \A p \in DOMAIN qualityCodes : qualityCodes[p] = q => p = r.quality
    BY <2>1, CodesAre, Zenon
  <2> QED BY <2>1, <2>2, Zenon DEF Known, qualityName
<1> QED BY <1>1, <1>4, <1>5, <1>6 DEF hasValueBit, qualityOther

\* decodeChunk reads a record as encodeChunk wrote it, or fails where the chunk
\* ends in it.
LEMMA DecodesRecord ==
    ASSUME NEW R, NEW r \in R, r.at \in Int, NEW ts, Len(ts) \in Nat,
           NEW s, s.ok = TRUE, s.next \in Nat \ {0}, s.prev \in Int,
           \A j \in 1 .. Width(r) :
              s.next - 1 + j <= Len(ts) => ts[s.next - 1 + j] = Fields(r, s.prev)[j]
    PROVE  DecodeRecord(ts, s) =
             IF s.next - 1 + Width(r) <= Len(ts)
             THEN [ok |-> TRUE, next |-> s.next + Width(r), prev |-> UnixMilli(r.at),
                   readings |-> Append(s.readings, Shown(r))]
             ELSE Failed
<1> DEFINE i == s.next
           ms == s.prev + ts[i + 2]
           base == ts[i + 3] % hasValueBit
           valued == ts[i + 3] >= hasValueBit
           named == base = qualityOther
           v == IF named THEN i + 5 ELSE i + 4
           next == IF valued THEN v + 1 ELSE v
           got == [point |-> ts[i], device |-> ts[i + 1], ms |-> ms,
                   quality |-> IF named THEN ts[i + 4] ELSE qualityName(base),
                   value |-> IF valued THEN ts[v] ELSE NoValue]
<1>1. DecodeRecord(ts, s) =
        IF ~s.ok \/ i + 3 > Len(ts) THEN Failed
        ELSE IF next - 1 > Len(ts) \/ ~(named \/ Known(base)) THEN Failed
        ELSE [ok |-> TRUE, next |-> next, prev |-> ms,
              readings |-> Append(s.readings, got)]
  BY Zenon DEF DecodeRecord
<1>2. PICK F : F = Fields(r, s.prev)
  BY Zenon
<1>3. /\ F[1] = r.point /\ F[2] = r.device /\ F[3] = UnixMilli(r.at) - s.prev
      /\ F[4] = Code(r) /\ (Named(r) => F[5] = r.quality)
      /\ (Valued(r) => F[Width(r)] = r.value)
  BY <1>2, FieldsAre
<1>4. PICK w \in Nat : w = Width(r)
  BY DEF Width
<1>5. w = 4 + (IF Named(r) THEN 1 ELSE 0) + (IF Valued(r) THEN 1 ELSE 0)
  BY <1>4 DEF Width
<1>6. ASSUME NEW j \in 1 .. w, i - 1 + j <= Len(ts) PROVE ts[i - 1 + j] = F[j]
  BY <1>2, <1>4, <1>6
<1>7. CASE i + 3 > Len(ts)
  <2>1. ~(i - 1 + w <= Len(ts))
    BY <1>5, <1>7
  <2>2. DecodeRecord(ts, s) = Failed
    <3> HIDE DEF next, named, base, ms, got
    <3> QED BY <1>1, <1>7, Zenon
  <2> QED BY <1>4, <2>1, <2>2
<1>8. CASE ~(i + 3 > Len(ts))
  <2>1. ts[i] = F[1] /\ ts[i + 1] = F[2] /\ ts[i + 2] = F[3] /\ ts[i + 3] = F[4]
    <3>1. \A j \in 1 .. 4 : j \in 1 .. w /\ i - 1 + j <= Len(ts)
      BY <1>5, <1>8
    <3>2. \A j \in 1 .. 4 : ts[i - 1 + j] = F[j]
      BY <1>6, <3>1
    <3>3. i - 1 + 1 = i /\ i - 1 + 2 = i + 1 /\ i - 1 + 3 = i + 2 /\ i - 1 + 4 = i + 3
      OBVIOUS
    <3>4. ts[i - 1 + 1] = F[1] /\ ts[i - 1 + 2] = F[2] /\ ts[i - 1 + 3] = F[3]
          /\ ts[i - 1 + 4] = F[4]
      BY <3>2
    <3> QED BY <3>3, <3>4
  <2>c. ts[i + 3] = Code(r)
    BY <1>3, <2>1
  <2>d. /\ (Code(r) >= hasValueBit) = Valued(r)
        /\ (Code(r) % hasValueBit = qualityOther) = Named(r)
        /\ ~Named(r) => /\ Known(Code(r) % hasValueBit)
                        /\ qualityName(Code(r) % hasValueBit) = r.quality
    BY CodeIs, Zenon
  <2>2. valued = Valued(r) /\ named = Named(r)
    BY <2>c, <2>d, Zenon
  <2>3. ~Named(r) => Known(base) /\ qualityName(base) = r.quality
    BY <2>c, <2>d, Zenon
  <2>4. ms = UnixMilli(r.at)
    <3>1. UnixMilli(r.at) \in Int
      BY DEF UnixMilli
    <3> QED BY <1>3, <2>1, <3>1
  <2>5. ts[i] = r.point /\ ts[i + 1] = r.device
    BY <1>3, <2>1
  <2> HIDE DEF base, ms, valued, named
  <2>6. next = i + w /\ next \in Int
    BY <1>5, <2>2
  <2>7. CASE i - 1 + w <= Len(ts)
    <3>1. named => ts[i + 4] = r.quality
      <4>1. SUFFICES ASSUME Named(r) PROVE ts[i + 4] = F[5]
        BY <1>3, <2>2
      <4>2. 5 \in 1 .. w /\ i - 1 + 5 <= Len(ts) /\ i - 1 + 5 = i + 4
        BY <1>5, <2>7, <4>1
      <4> QED BY <1>6, <4>2
    <3>2. valued => ts[v] = r.value
      <4>1. SUFFICES ASSUME Valued(r) PROVE ts[v] = F[w]
        BY <1>3, <1>4, <2>2
      <4>2. w \in 1 .. w /\ i - 1 + w <= Len(ts) /\ i - 1 + w = v
        BY <1>5, <2>2, <2>7, <4>1
      <4> QED BY <1>6, <4>2
    <3>3. ~valued => r.value = NoValue
      BY <2>2, Zenon DEF Valued
    <3>4. got = Shown(r)
      <4>1. (IF named THEN ts[i + 4] ELSE qualityName(base)) = r.quality
        BY <2>2, <2>3, <3>1
      <4>2. (IF valued THEN ts[v] ELSE NoValue) = r.value
        BY <3>2, <3>3
      <4> QED BY <2>4, <2>5, <4>1, <4>2, Zenon DEF Shown
    <3>5. ~(next - 1 > Len(ts)) /\ (named \/ Known(base))
      BY <2>2, <2>3, <2>6, <2>7
    <3> HIDE DEF next, got
    <3>6. DecodeRecord(ts, s) = [ok |-> TRUE, next |-> i + w, prev |-> UnixMilli(r.at),
                                 readings |-> Append(s.readings, Shown(r))]
      BY <1>1, <1>8, <2>4, <2>6, <3>4, <3>5
    <3> QED BY <1>4, <2>7, <3>6
  <2>8. CASE ~(i - 1 + w <= Len(ts))
    <3>1. next - 1 > Len(ts)
      BY <2>6, <2>8
    <3> HIDE DEF next, got
    <3>2. DecodeRecord(ts, s) = Failed
      BY <1>1, <1>8, <3>1
    <3> QED BY <1>4, <2>8, <3>2
  <2> QED BY <2>7, <2>8
<1> QED BY <1>7, <1>8

LEMMA AppendNext ==
    ASSUME NEW f, NEW k \in Nat
    PROVE  Append([i \in 1 .. k |-> f[i]], f[k + 1]) = [i \in 1 .. (k + 1) |-> f[i]]
<1> DEFINE S == {f[i] : i \in 1 .. (k + 1)}
           s == [i \in 1 .. k |-> f[i]]
<1>1. s \in Seq(S) /\ f[k + 1] \in S /\ Len(s) = k
  OBVIOUS
<1> HIDE DEF S
<1>2. PICK a : a = Append(s, f[k + 1])
  OBVIOUS
<1>3. a \in Seq(S) /\ Len(a) = k + 1 /\ a[k + 1] = f[k + 1] /\ \A i \in 1 .. k : a[i] = s[i]
  BY <1>1, <1>2
<1>4. \A i \in 1 .. (k + 1) : a[i] = f[i]
  BY <1>3
<1>5. a = [i \in 1 .. (k + 1) |-> a[i]]
  BY <1>3
<1> HIDE DEF s
<1>6. a = [i \in 1 .. (k + 1) |-> f[i]]
  BY <1>4, <1>5
<1> QED BY <1>2, <1>6 DEF s

Base(rs) == IF rs = <<>> THEN 0 ELSE UnixMilli(rs[1].at)

\* An encoded chunk, by its places.
LEMMA ChunkIs ==
    ASSUME NEW R, \A r \in R : r.at \in Int, NEW rs \in Seq(R)
    PROVE  LET N == Len(rs)
               E == Records(rs)
               C == encodeChunk(rs)
               F == [k \in 1 .. N |-> Fields(rs[k], Prev(rs, k))]
           IN  /\ Stages(Token(R), N, E, F)
               /\ \A k \in 1 .. N : Len(F[k]) = Width(rs[k]) /\ Prev(rs, k) \in Int
               /\ C \in Seq(Token(R)) /\ Len(C) = 2 + Len(E[N])
               /\ C[1] = N /\ C[2] = Base(rs)
               /\ \A j \in 1 .. Len(E[N]) : C[2 + j] = E[N][j]
<1> DEFINE N == Len(rs)
           E == Records(rs)
           C == encodeChunk(rs)
           F == [k \in 1 .. N |-> Fields(rs[k], Prev(rs, k))]
           T == Token(R)
<1>1. N \in Nat /\ \A k \in 1 .. N : rs[k] \in R /\ rs[k].at \in Int
  OBVIOUS
<1>2. ASSUME NEW k \in 1 .. N PROVE Prev(rs, k) \in Int
  <2>1. (IF k = 1 THEN 1 ELSE k - 1) \in 1 .. N
    BY <1>1
  <2>2. rs[IF k = 1 THEN 1 ELSE k - 1].at \in Int
    BY <1>1, <2>1
  <2> QED BY <2>2 DEF Prev, UnixMilli
<1>3. ASSUME NEW k \in 1 .. N
      PROVE  F[k] \in Seq(T) /\ Len(F[k]) = Width(rs[k]) /\ Width(rs[k]) >= 1
  <2>1. PICK r \in R, p \in Int : r = rs[k] /\ p = Prev(rs, k) /\ r.at \in Int
    BY <1>1, <1>2
  <2>2. F[k] = Fields(r, p)
    BY <2>1
  <2>3. Fields(r, p) \in Seq(T) /\ Len(Fields(r, p)) = Width(r)
    BY <2>1, FieldsAre
  <2>4. Width(r) >= 1
    BY DEF Width
  <2> QED BY <2>1, <2>2, <2>3, <2>4
<1>4. E[0] = <<>> /\ \A k \in 1 .. N : E[k] = E[k - 1] \o F[k]
  BY <1>1, RecordsAre, Zenon
<1>5. Stages(T, N, E, F)
  <2> HIDE DEF T, N, E, F
  <2> QED BY <1>3, <1>4, Zenon DEF Stages
<1>6. Base(rs) \in Int
  <2>1. rs # <<>> => 1 \in 1 .. N
    BY <1>1
  <2> QED BY <1>1, <2>1 DEF Base, UnixMilli
<1>7. PICK h, t : h = <<N, Base(rs)>> /\ t = E[N]
  OBVIOUS
<1>8. C = h \o t
  BY <1>7, Zenon DEF encodeChunk, Base
<1>9. t \in Seq(T)
  <2> HIDE DEF T, N, E, F
  <2>1. N \in Nat /\ N \in 0 .. N
    BY <1>1
  <2>2. \A k \in 0 .. N : E[k] \in Seq(T)
    BY <1>5, <2>1, PrefixesAre, Zenon DEF Prefixes
  <2> QED BY <1>7, <2>1, <2>2
<1>10. h \in Seq(T) /\ Len(h) = 2 /\ h[1] = N /\ h[2] = Base(rs)
  BY <1>1, <1>6, <1>7 DEF Token
<1> HIDE DEF T, N, E, C, F
<1>11. /\ C \in Seq(T) /\ Len(t) \in Nat /\ Len(C) = 2 + Len(t) /\ C[1] = h[1] /\ C[2] = h[2]
       /\ \A j \in 1 .. Len(t) : C[2 + j] = t[j]
  <2>1. /\ C \in Seq(T) /\ Len(t) \in Nat /\ Len(C) = Len(h) + Len(t)
        /\ \A i \in 1 .. Len(h) : C[i] = h[i]
        /\ \A i \in 1 .. Len(t) : C[Len(h) + i] = t[i]
    <3>1. h \in Seq(T) /\ t \in Seq(T)
      BY <1>9, <1>10
    <3> QED BY <1>8, <3>1, Joined
  <2>2. 1 \in 1 .. Len(h) /\ 2 \in 1 .. Len(h)
    BY <1>10
  <2> QED BY <1>10, <2>1, <2>2
<1>12. /\ C \in Seq(T) /\ Len(C) = 2 + Len(E[N]) /\ C[1] = N /\ C[2] = Base(rs)
       /\ \A j \in 1 .. Len(E[N]) : C[2 + j] = E[N][j]
  BY <1>7, <1>10, <1>11, Zenon
<1>13. \A k \in 1 .. N : Len(F[k]) = Width(rs[k]) /\ Prev(rs, k) \in Int
  BY <1>2, <1>3, Zenon
<1> QED BY <1>5, <1>12, <1>13, Zenon DEF N, E, C, F, T

Readings(rs, k) == [i \in 1 .. k |-> Shown(rs[i])]
PrevAt(rs, k) == IF k = 0 THEN Base(rs) ELSE UnixMilli(rs[k].at)

\* Where decodeChunk stands after k records, if the chunk has as many.
At(rs, k) ==
    [ok |-> TRUE, next |-> 3 + Len(Records(rs)[k]), prev |-> PrevAt(rs, k),
     readings |-> Readings(rs, k)]

\* ts is the chunk c, or its first fields.
Begins(ts, c) ==
    /\ Len(ts) \in Nat /\ Len(ts) <= Len(c)
    /\ \A j \in 1 .. Len(ts) : ts[j] = c[j]

\* The decoder's loop over a chunk, or over the first part of one.
LEMMA LoopIs ==
    ASSUME NEW R, \A r \in R : r.at \in Int, NEW rs \in Seq(R),
           NEW ts, Begins(ts, encodeChunk(rs)), Len(ts) >= 2
    PROVE  \A k \in 0 .. Len(rs) :
              Decoded(ts)[k] =
                IF 2 + Len(Records(rs)[k]) <= Len(ts) THEN At(rs, k) ELSE Failed
<1> DEFINE N == Len(rs)
           E == Records(rs)
           C == encodeChunk(rs)
           F == [k \in 1 .. N |-> Fields(rs[k], Prev(rs, k))]
           T == Token(R)
           D == Decoded(ts)
           L == Len(ts)
<1>2. /\ N \in Nat /\ L \in Nat /\ L >= 2
      /\ \A j \in 1 .. L : ts[j] = C[j]
      /\ \A k \in 1 .. N : rs[k] \in R /\ rs[k].at \in Int
  <2>1. N \in Nat /\ \A k \in 1 .. N : rs[k] \in R /\ rs[k].at \in Int
    OBVIOUS
  <2>2. L \in Nat /\ L >= 2 /\ \A j \in 1 .. L : ts[j] = C[j]
    BY Zenon DEF Begins
  <2> QED BY <2>1, <2>2
<1>3. /\ Stages(T, N, E, F)
      /\ \A k \in 1 .. N : Len(F[k]) = Width(rs[k]) /\ Prev(rs, k) \in Int
      /\ Len(C) = 2 + Len(E[N]) /\ C[1] = N /\ C[2] = Base(rs)
      /\ \A j \in 1 .. Len(E[N]) : C[2 + j] = E[N][j]
  BY ChunkIs, Zenon
<1>f. \A k \in 1 .. N : F[k] = Fields(rs[k], Prev(rs, k))
  OBVIOUS
<1> HIDE DEF N, E, C, F, T, D, L
<1>4. /\ \A k \in 0 .. N : Len(E[k]) \in Nat
      /\ \A k \in 1 .. N :
            /\ Len(E[k]) = Len(E[k - 1]) + Len(F[k])
            /\ \A j \in 1 .. Len(F[k]) : E[k][Len(E[k - 1]) + j] = F[k][j]
      /\ \A k \in 0 .. N :
            /\ Len(E[k]) <= Len(E[N])
            /\ \A j \in 1 .. Len(E[k]) : E[N][j] = E[k][j]
  <2>1. N \in Nat /\ Stages(T, N, E, F)
    BY <1>2, <1>3
  <2>2. Prefixes(T, N, E, F)
    BY <2>1, PrefixesAre, Zenon
  <2> QED BY <2>2, Zenon DEF Prefixes
<1>5. ts[1] = N /\ ts[2] = Base(rs)
  <2>1. 1 \in 1 .. L /\ 2 \in 1 .. L
    BY <1>2
  <2> QED BY <1>2, <1>3, <2>1
<1>6. D[0] = Start(ts) /\ \A k \in 1 .. N : D[k] = DecodeRecord(ts, D[k - 1])
  <2>1. ts[1] \in Nat
    BY <1>2, <1>5
  <2> QED BY <1>5, <2>1, DecodedAre DEF D
<1> DEFINE Is(k) == D[k] = IF 2 + Len(E[k]) <= L THEN At(rs, k) ELSE Failed
           S == {k \in 0 .. N : Is(k)}
<1>7. 0 \in S
  <2>1. E[0] = <<>> /\ Len(E[0]) = 0
    BY <1>3 DEF Stages
  <2>2. Readings(rs, 0) = <<>>
    BY DEF Readings
  <2>3. PrevAt(rs, 0) = ts[2]
    BY <1>5 DEF PrevAt
  <2>4. At(rs, 0) = Start(ts)
    <3>1. 3 + Len(Records(rs)[0]) = 3
      BY <2>1 DEF E
    <3> QED BY <2>2, <2>3, <3>1, Zenon DEF At, Start
  <2>5. 2 + Len(E[0]) <= L /\ 0 \in 0 .. N
    BY <1>2, <2>1
  <2> QED BY <1>6, <2>4, <2>5
<1>8. ASSUME NEW n \in 0 .. N, n \in S, n < N PROVE n + 1 \in S
  <2>1. PICK m \in 1 .. N : m = n + 1 /\ m - 1 = n /\ m \in 0 .. N
    BY <1>2, <1>8
  <2>2. PICK e \in Nat, w \in Nat, r \in R :
           e = Len(E[n]) /\ r = rs[m] /\ r.at \in Int /\ w = Width(r) /\ w >= 4
    <3>1. Width(rs[m]) \in Nat /\ Width(rs[m]) >= 4
      BY DEF Width
    <3> QED BY <1>2, <1>4, <3>1
  <2>3. Len(E[m]) = e + w /\ \A j \in 1 .. w : E[m][e + j] = F[m][j]
    <3>1. Len(F[m]) = w
      BY <1>3, <2>2
    <3>2. /\ Len(E[m]) = Len(E[m - 1]) + Len(F[m])
          /\ \A j \in 1 .. Len(F[m]) : E[m][Len(E[m - 1]) + j] = F[m][j]
      BY <1>4, Zenon
    <3>3. Len(E[m - 1]) = e
      BY <2>1, <2>2
    <3> QED BY <3>1, <3>2, <3>3, Zenon
  <2>4. e + w <= Len(E[N]) /\ \A j \in 1 .. (e + w) : E[N][j] = E[m][j]
    BY <1>4, <2>1, <2>3
  <2>5. Is(n)
    BY <1>8
  <2>6. D[m] = DecodeRecord(ts, D[n])
    BY <1>6, <2>1
  <2>7. CASE 2 + e <= L
    <3>1. PICK s : s = At(rs, n)
      BY Zenon
    <3>2. /\ s.ok = TRUE /\ s.next = 3 + e /\ s.prev = PrevAt(rs, n)
          /\ s.readings = Readings(rs, n)
      BY <2>2, <3>1 DEF At, E
    <3>3. PrevAt(rs, n) = Prev(rs, m)
      <4>1. rs # <<>>
        BY <1>2, <2>1 DEF N
      <4>2. n = 0 => m = 1
        BY <2>1
      <4>3. n # 0 => m # 1 /\ m - 1 = n
        BY <2>1
      <4> QED BY <4>1, <4>2, <4>3, Zenon DEF PrevAt, Prev, Base
    <3>4. Fields(r, s.prev) = F[m] /\ s.prev \in Int
      BY <1>3, <1>f, <2>1, <2>2, <3>2, <3>3
    <3>5. ASSUME NEW j \in 1 .. w, s.next - 1 + j <= L
          PROVE  ts[s.next - 1 + j] = F[m][j]
      <4>1. s.next - 1 + j = 2 + (e + j) /\ 2 + (e + j) \in 1 .. L
        BY <1>2, <3>2, <3>5
      <4>2. ts[2 + (e + j)] = C[2 + (e + j)]
        BY <1>2, <4>1
      <4>3. e + j \in 1 .. (e + w)
        OBVIOUS
      <4>4. e + j \in 1 .. Len(E[N])
        <5>1. Len(E[N]) \in Nat
          BY <1>2, <1>4
        <5> QED BY <2>4, <4>3, <5>1
      <4>5. C[2 + (e + j)] = E[N][e + j]
        BY <1>3, <4>4
      <4>6. E[N][e + j] = E[m][e + j] /\ E[m][e + j] = F[m][j]
        BY <2>3, <2>4, <4>3, Zenon
      <4> QED BY <4>1, <4>2, <4>5, <4>6
    <3>6. DecodeRecord(ts, s) =
            IF s.next - 1 + w <= L
            THEN [ok |-> TRUE, next |-> s.next + w, prev |-> UnixMilli(r.at),
                  readings |-> Append(s.readings, Shown(r))]
            ELSE Failed
      <4>1. s.next \in Nat \ {0} /\ s.prev \in Int /\ s.ok = TRUE /\ r.at \in Int
            /\ L = Len(ts) /\ L \in Nat /\ w = Width(r)
        BY <1>2, <2>2, <3>2, <3>4 DEF L
      <4>2. \A j \in 1 .. Width(r) :
               s.next - 1 + j <= Len(ts) => ts[s.next - 1 + j] = Fields(r, s.prev)[j]
        BY <3>4, <3>5, <4>1
      <4> QED BY <4>1, <4>2, DecodesRecord, Zenon
    <3>7. Append(Readings(rs, n), Shown(r)) = Readings(rs, m)
      <4>1. PICK f : f = [i \in 1 .. N |-> Shown(rs[i])]
        OBVIOUS
      <4>2. /\ Readings(rs, n) = [i \in 1 .. n |-> f[i]]
            /\ Readings(rs, m) = [i \in 1 .. (n + 1) |-> f[i]]
            /\ Shown(r) = f[n + 1] /\ n \in Nat
        BY <1>2, <1>8, <2>1, <2>2, <4>1 DEF Readings
      <4> QED BY <4>2, AppendNext
    <3>8. PrevAt(rs, m) = UnixMilli(r.at)
      BY <2>1, <2>2 DEF PrevAt
    <3>9. At(rs, m) = [ok |-> TRUE, next |-> s.next + w, prev |-> UnixMilli(r.at),
                       readings |-> Append(s.readings, Shown(r))]
      <4>1. 3 + Len(Records(rs)[m]) = s.next + w
        BY <2>3, <3>2 DEF E
      <4> QED BY <3>2, <3>7, <3>8, <4>1, Zenon DEF At
    <3>10. (s.next - 1 + w <= L) = (2 + Len(E[m]) <= L)
      <4>1. s.next - 1 + w = 2 + Len(E[m])
        BY <2>3, <3>2
      <4> QED BY <4>1
    <3>11. D[n] = s
      BY <2>2, <2>5, <2>7, <3>1, Zenon
    <3>12. Is(m)
      BY <2>6, <3>6, <3>9, <3>10, <3>11, Zenon
    <3> QED BY <2>1, <3>12
  <2>8. CASE ~(2 + e <= L)
    <3>1. D[n] = Failed
      BY <2>2, <2>5, <2>8
    <3>2. DecodeRecord(ts, Failed) = Failed
      <4>1. ~Failed.ok
        BY DEF Failed
      <4> HIDE DEF Failed
      <4> QED BY <4>1, Zenon DEF DecodeRecord
    <3>3. ~(2 + Len(E[m]) <= L)
      BY <1>2, <2>2, <2>3, <2>8
    <3>4. Is(m)
      BY <2>6, <3>1, <3>2, <3>3
    <3> QED BY <2>1, <3>4
  <2> QED BY <2>7, <2>8
<1>9. \A k \in 0 .. N : k \in S
  <2> HIDE DEF S
  <2> QED BY <1>2, <1>7, <1>8, Reaches, Zenon
<1>10. \A k \in 0 .. N : Is(k)
  BY <1>9
<1> QED BY <1>10, Zenon DEF N, E, D, L

\* decodeChunk gives the readings of a chunk back, and does not decode one that
\* is cut short.
LEMMA DecodesChunk ==
    ASSUME NEW R, \A r \in R : r.at \in Int, NEW rs \in Seq(R),
           NEW ts, Begins(ts, encodeChunk(rs))
    PROVE  decodeChunk(ts) =
             IF Len(ts) = Len(encodeChunk(rs))
             THEN [ok |-> TRUE, readings |-> [i \in DOMAIN rs |-> Shown(rs[i])]]
             ELSE [ok |-> FALSE, readings |-> <<>>]
<1> DEFINE N == Len(rs)
           E == Records(rs)
           C == encodeChunk(rs)
           L == Len(ts)
           end == IF L < 2 \/ ts[1] > L THEN Failed ELSE Decoded(ts)[ts[1]]
<1>1. N \in Nat /\ DOMAIN rs = 1 .. N
  OBVIOUS
<1>2. L \in Nat /\ L <= Len(C) /\ \A j \in 1 .. L : ts[j] = C[j]
  BY Zenon DEF Begins
<1>3. Len(C) = 2 + Len(E[N]) /\ C[1] = N
  BY ChunkIs, Zenon
<1>4. Len(E[N]) \in Nat /\ Len(E[N]) >= N
  <2> DEFINE F == [k \in 1 .. N |-> Fields(rs[k], Prev(rs, k))]
             T == Token(R)
  <2>1. Stages(T, N, E, F)
    BY ChunkIs, Zenon
  <2> HIDE DEF N, E, F, T
  <2>2. Prefixes(T, N, E, F)
    BY <1>1, <2>1, PrefixesAre, Zenon
  <2>3. N \in 0 .. N
    BY <1>1
  <2> QED BY <2>2, <2>3, Zenon DEF Prefixes
<1>5. decodeChunk(ts) = [ok |-> end.ok, readings |-> end.readings]
  BY Zenon DEF decodeChunk
<1>6. Failed.ok = FALSE /\ Failed.readings = <<>>
  BY Zenon DEF Failed
<1>7. CASE L < 2
  <2>1. L # Len(C)
    <3> HIDE DEF L, C, E, N
    <3> QED BY <1>2, <1>3, <1>4, <1>7
  <2>2. end = Failed
    BY <1>7
  <2> HIDE DEF end
  <2> QED BY <1>5, <1>6, <2>1, <2>2, Zenon
<1>8. CASE ~(L < 2)
  <2>1. L >= 2 /\ 1 \in 1 .. L
    <3> HIDE DEF L
    <3> QED BY <1>2, <1>8
  <2>2. ts[1] = N
    <3> HIDE DEF L, C, N
    <3> QED BY <1>2, <1>3, <2>1
  <2>3. Decoded(ts)[N] = IF 2 + Len(E[N]) <= L THEN At(rs, N) ELSE Failed
    <3>1. N \in 0 .. N
      BY <1>1
    <3>2. \A k \in 0 .. N :
             Decoded(ts)[k] = IF 2 + Len(E[k]) <= L THEN At(rs, k) ELSE Failed
      BY <2>1, LoopIs
    <3> HIDE DEF N, E, L
    <3> QED BY <3>1, <3>2
  <2>4. CASE L = Len(C)
    <3>1. ~(N > L) /\ 2 + Len(E[N]) <= L
      <4> HIDE DEF L, C, N, E
      <4> QED BY <1>1, <1>2, <1>3, <1>4, <2>4
    <3>2. end = At(rs, N)
      BY <1>8, <2>2, <2>3, <3>1
    <3>3. At(rs, N).ok = TRUE /\ At(rs, N).readings = [i \in DOMAIN rs |-> Shown(rs[i])]
      <4> HIDE DEF N
      <4> QED BY <1>1 DEF At, Readings
    <3> HIDE DEF end
    <3> QED BY <1>5, <2>4, <3>2, <3>3, Zenon
  <2>5. CASE L # Len(C)
    <3>1. ~(2 + Len(E[N]) <= L)
      <4> HIDE DEF L, C, N, E
      <4> QED BY <1>1, <1>2, <1>3, <1>4, <2>5
    <3>2. end = Failed
      BY <1>8, <2>2, <2>3, <3>1
    <3> HIDE DEF end
    <3> QED BY <1>5, <1>6, <2>5, <3>2, Zenon
  <2> QED BY <2>4, <2>5
<1> QED BY <1>7, <1>8

(***************************************************************************)
(* readDevice, Flush and testDataPointRead: any device, any line.          *)
(***************************************************************************)

LEMMA WidthIs ==
    ASSUME PlanInv, NEW p \in Points
    PROVE  /\ dps[p].addr \in Nat /\ dps[p].addr < Words /\ dps[p].width \in 1 .. 4
           /\ ByteWidth(p) \in 2 .. 8 /\ ByteWidth(p) = 2 * dps[p].width
           /\ End(p) = dps[p].addr + dps[p].width /\ Words \in Nat
BY PlanAssumption, PointTypes DEF Widths, ByteWidth, End

LEMMA BlockIs ==
    ASSUME NEW b, Sound(b)
    PROVE  /\ b.start \in Nat /\ b.start < Words /\ b.quantity \in 1 .. 125
           /\ b.points \subseteq Points
BY PlanAssumption DEF Sound, Block

\* The bytes of an answer to a request for registers.
LEMMA RawIs ==
    ASSUME NEW b, b.start \in Nat, b.quantity \in Nat, ~Coils(b.fc)
    PROVE  /\ Raw(b) \in Seq(Int \X Int) /\ Len(Raw(b)) = 2 * b.quantity
           /\ \A i \in 1 .. 2 * b.quantity :
                 Raw(b)[i] = <<b.start + (i - 1) \div 2, (i - 1) % 2>>
<1> PICK n \in Nat, s \in Nat : n = b.quantity /\ s = b.start
  OBVIOUS
<1>1. Raw(b) = [i \in 1 .. 2 * n |-> <<s + (i - 1) \div 2, (i - 1) % 2>>]
  BY DEF Raw
<1>2. \A i \in 1 .. 2 * n : <<s + (i - 1) \div 2, (i - 1) % 2>> \in Int \X Int
  OBVIOUS
<1>3. 2 * n \in Nat
  OBVIOUS
<1> PICK r : r = Raw(b)
  OBVIOUS
<1>4. r \in [1 .. 2 * n -> Int \X Int]
  BY <1>1, <1>2
<1>5. r \in Seq(Int \X Int) /\ Len(r) = 2 * n
  BY <1>3, <1>4
<1>6. \A i \in 1 .. 2 * n : r[i] = <<s + (i - 1) \div 2, (i - 1) % 2>>
  BY <1>1
<1> QED BY <1>5, <1>6, Zenon

LEMMA SameByte ==
    ASSUME NEW d \in Nat, NEW i \in Nat \ {0}
    PROVE  /\ (2 * d + i - 1) \div 2 = d + (i - 1) \div 2
           /\ (2 * d + i - 1) % 2 = (i - 1) % 2
OBVIOUS

LEMMA ItemIs == ASSUME NEW T, NEW x \in Seq(T), NEW i \in 1 .. Len(x) PROVE x[i] \in T
OBVIOUS

LEMMA SameItems ==
    ASSUME NEW T, NEW x \in Seq(T), NEW y \in Seq(T), Len(x) = Len(y),
           \A i \in 1 .. Len(x) : x[i] = y[i]
    PROVE  x = y
OBVIOUS

LEMMA SubSeqIs ==
    ASSUME NEW T, NEW x, NEW l \in Int, NEW h \in Int, l <= h, \A i \in l .. h : x[i] \in T
    PROVE  /\ SubSeq(x, l, h) \in Seq(T) /\ Len(SubSeq(x, l, h)) = h - l + 1
           /\ \A i \in 1 .. h - l + 1 : SubSeq(x, l, h)[i] = x[l + i - 1]
OBVIOUS

LEMMA CutBytes ==
    ASSUME NEW T, NEW x \in Seq(T), NEW n \in Nat, Len(x) = 2 * n,
           NEW d \in Nat, NEW m \in Nat \ {0}, d + m <= n, NEW z,
           z = SubSeq(x, 2 * d + 1, 2 * d + 2 * m)
    PROVE  /\ z \in Seq(T) /\ Len(z) = 2 * m
           /\ \A i \in 1 .. 2 * m : z[i] = x[2 * d + i] /\ 2 * d + i \in 1 .. 2 * n
<1>1. PICK l \in Int, h \in Int : l = 2 * d + 1 /\ h = 2 * d + 2 * m
  OBVIOUS
<1>2. l \in 1 .. (2 * n) /\ h \in 1 .. (2 * n) /\ l <= h /\ h - l + 1 = 2 * m
  BY <1>1
<1>3. \A i \in l .. h : x[i] \in T
  <2>1. \A i \in l .. h : i \in 1 .. Len(x)
    BY <1>2
  <2> QED BY <2>1, ItemIs, Zenon
<1>4. z = SubSeq(x, l, h)
  BY <1>1
<1>5. /\ z \in Seq(T) /\ Len(z) = h - l + 1
      /\ \A i \in 1 .. h - l + 1 : z[i] = x[l + i - 1]
  BY <1>2, <1>3, <1>4, SubSeqIs
<1>6. ASSUME NEW i \in 1 .. 2 * m
      PROVE  l + i - 1 = 2 * d + i /\ i \in 1 .. h - l + 1 /\ 2 * d + i \in 1 .. 2 * n
  BY <1>1
<1>7. Len(z) = 2 * m
  BY <1>2, <1>5
<1>8. ASSUME NEW i \in 1 .. 2 * m PROVE z[i] = x[2 * d + i]
  <2>1. z[i] = x[l + i - 1]
    BY <1>5, <1>6, Zenon
  <2> QED BY <1>6, <2>1, Zenon
<1> QED BY <1>5, <1>6, <1>7, <1>8

\* The bytes that decodeAndEmit cuts out of the answer for a block are the
\* answer to a request for the point alone.
IsPart(c, b, s, n, d, m) ==
    /\ ~Coils(b.fc) /\ b.start = s /\ b.quantity = n
    /\ ~Coils(c.fc) /\ c.start = s + d /\ c.quantity = m
    /\ d + m <= n

CutsOut(c, b, d, m) ==
    /\ ~(2 * d + 2 * m > Len(Raw(b)))
    /\ SubSeq(Raw(b), 2 * d + 1, 2 * d + 2 * m) = Raw(c)

LEMMA CutIsDedicated ==
    ASSUME NEW b, NEW c, NEW s \in Nat, NEW n \in Nat, NEW d \in Nat, NEW m \in Nat \ {0},
           IsPart(c, b, s, n, d, m)
    PROVE  CutsOut(c, b, d, m)
<1>2. PICK x, y : x = Raw(b) /\ y = Raw(c)
  OBVIOUS
<1>3. /\ x \in Seq(Int \X Int) /\ Len(x) = 2 * n
      /\ \A i \in 1 .. 2 * n : x[i] = <<s + (i - 1) \div 2, (i - 1) % 2>>
  <2>1. b.start \in Nat /\ b.quantity \in Nat /\ ~Coils(b.fc) /\ b.start = s /\ b.quantity = n
    BY DEF IsPart
  <2> QED BY <1>2, <2>1, RawIs, Zenon
<1>4. /\ y \in Seq(Int \X Int) /\ Len(y) = 2 * m
      /\ \A i \in 1 .. 2 * m : y[i] = <<s + d + (i - 1) \div 2, (i - 1) % 2>>
  <2>1. /\ c.start \in Nat /\ c.quantity \in Nat /\ ~Coils(c.fc)
        /\ c.start = s + d /\ c.quantity = m
    BY DEF IsPart
  <2>2. /\ y \in Seq(Int \X Int) /\ Len(y) = 2 * c.quantity
        /\ \A i \in 1 .. 2 * c.quantity : y[i] = <<c.start + (i - 1) \div 2, (i - 1) % 2>>
    BY <1>2, <2>1, RawIs, Zenon
  <2> QED BY <2>1, <2>2, Zenon
<1>8. PICK z : z = SubSeq(x, 2 * d + 1, 2 * d + 2 * m)
  OBVIOUS
<1>9. /\ z \in Seq(Int \X Int) /\ Len(z) = 2 * m
      /\ \A i \in 1 .. 2 * m : z[i] = x[2 * d + i] /\ 2 * d + i \in 1 .. 2 * n
  <2>1. PICK T : T = Int \X Int
    OBVIOUS
  <2>2. x \in Seq(T) /\ Len(x) = 2 * n
    BY <1>3, <2>1
  <2>3. /\ z \in Seq(T) /\ Len(z) = 2 * m
        /\ \A i \in 1 .. 2 * m : z[i] = x[2 * d + i] /\ 2 * d + i \in 1 .. 2 * n
    <3>1. d + m <= n
      BY DEF IsPart
    <3> QED BY <1>8, <2>2, <3>1, CutBytes
  <2> QED BY <2>1, <2>3
<1>10. ASSUME NEW i \in 1 .. 2 * m PROVE z[i] = y[i]
  <2>1. PICK j : j = 2 * d + i
    OBVIOUS
  <2>2. x[j] = <<s + (j - 1) \div 2, (j - 1) % 2>> /\ z[i] = x[j]
    BY <1>3, <1>9, <2>1, Zenon
  <2>3. (j - 1) \div 2 = d + (i - 1) \div 2 /\ (j - 1) % 2 = (i - 1) % 2
    BY <2>1, SameByte
  <2>4. s + (d + (i - 1) \div 2) = s + d + (i - 1) \div 2
    OBVIOUS
  <2> QED BY <1>4, <2>2, <2>3, <2>4, Zenon
<1>11. z = y
  <2>1. Len(z) = Len(y) /\ \A i \in 1 .. Len(z) : z[i] = y[i]
    BY <1>4, <1>9, <1>10
  <2> QED BY <1>4, <1>9, <2>1, SameItems, Zenon
<1>12. ~(2 * d + 2 * m > Len(x))
  BY <1>3 DEF IsPart
<1> QED BY <1>2, <1>8, <1>11, <1>12 DEF CutsOut

Replies == {"ok", "exception", "expired", "cancelled"} \cup Faults

\* What PolledAsDedicated says of one reading.
AsDedicated(r) ==
    /\ r.result.quality = "GOOD" => r.result = Dedicated(r.point)
    /\ r.reply \in {"ok", "exception"} =>
          \/ r.result = Dedicated(r.point)
          \/ Spoilt(r.block, r.point)
          \/ End(r.point) = Words /\ r.block # Single(r.point)

LEMMA SingleIs ==
    ASSUME NEW p
    PROVE  /\ Single(p).fc = dps[p].fc /\ Single(p).start = dps[p].addr
           /\ Single(p).quantity = dps[p].width /\ Single(p).points = {p}
BY DEF Single

\* A request for coils gives fewer bytes than a data type has.
LEMMA CoilsDoNotDecode ==
    ASSUME PlanInv, NEW p \in Points, Coils(dps[p].fc)
    PROVE  /\ Decode(Raw(Single(p)), p) = Bad("INVALID")
           /\ DecodeAndEmit(Single(p), p) = Bad("INVALID")
<1>1. /\ dps[p].addr \in Nat /\ dps[p].addr < Words /\ dps[p].width \in 1 .. 4
      /\ ByteWidth(p) \in 2 .. 8
  BY WidthIs
<1>2. Raw(Single(p)) = [i \in 1 .. (dps[p].width + 7) \div 8 |-> <<dps[p].addr, "bits">>]
  BY SingleIs, Zenon DEF Raw
<1>3. (dps[p].width + 7) \div 8 = 1
  BY <1>1
<1>4. Len(Raw(Single(p))) = 1
  BY <1>2, <1>3
<1>5. ByteOffset(Single(p), p) = 0
  <2>1. dps[p].addr - dps[p].addr = 0
    BY <1>1
  <2>2. Word(0) = 0
    BY WordSame, PlanAssumption
  <2> QED BY <2>1, <2>2, SingleIs DEF ByteOffset
<1>6. Len(Raw(Single(p))) # ByteWidth(p) /\ ByteOffset(Single(p), p) + ByteWidth(p) > 1
  BY <1>1, <1>4, <1>5
<1>7. Decode(Raw(Single(p)), p) = Bad("INVALID")
  BY <1>6, Zenon DEF Decode
<1>8. DecodeAndEmit(Single(p), p) = Bad("INVALID")
  BY <1>4, <1>6, Zenon DEF DecodeAndEmit
<1> QED BY <1>7, <1>8

\* A point that the block covers is decoded as if it had been read alone; the
\* bytes of another are not all in the answer.
LEMMA EmitIs ==
    ASSUME PlanInv, NEW b, Sound(b), NEW p \in b.points, ~Coils(b.fc)
    PROVE  /\ Covers(b, p) => DecodeAndEmit(b, p) = Decode(Raw(Single(p)), p)
           /\ ~Covers(b, p) => DecodeAndEmit(b, p) = Bad("INVALID")
<1>1. /\ b.start \in Nat /\ b.start < Words /\ b.quantity \in 1 .. 125 /\ p \in Points
      /\ dps[p].fc = b.fc /\ b.start <= dps[p].addr
  BY BlockIs DEF Sound
<1>2. /\ dps[p].addr \in Nat /\ dps[p].addr < Words /\ dps[p].width \in 1 .. 4
      /\ ByteWidth(p) = 2 * dps[p].width /\ End(p) = dps[p].addr + dps[p].width
  BY <1>1, WidthIs
<1>3. PICK s \in Nat, n \in Nat, d \in Nat, m \in Nat \ {0} :
         /\ s = b.start /\ n = b.quantity /\ d = dps[p].addr - b.start /\ m = dps[p].width
         /\ dps[p].addr = s + d
  <2>1. PICK s \in Nat, a \in Nat, n \in Nat, m \in Nat \ {0} :
           s = b.start /\ a = dps[p].addr /\ n = b.quantity /\ m = dps[p].width /\ s <= a
    <3>1. /\ b.start \in Nat /\ dps[p].addr \in Nat /\ b.quantity \in Nat
          /\ dps[p].width \in Nat \ {0} /\ b.start <= dps[p].addr
      BY <1>1, <1>2
    <3> QED BY <3>1, Zenon
  <2>2. a - s \in Nat /\ a = s + (a - s)
    BY <2>1
  <2> QED BY <2>1, <2>2
<1>4. ByteOffset(b, p) = 2 * d /\ ByteWidth(p) = 2 * m
  <2>1. Word(d) = d
    <3>1. d < Words
      BY <1>1, <1>2, <1>3, PlanAssumption
    <3> QED BY <3>1, WordSame
  <2> QED BY <1>2, <1>3, <2>1 DEF ByteOffset
<1>5. Covers(b, p) <=> d + m <= n
  BY <1>1, <1>2, <1>3 DEF Covers
<1>6. Len(Raw(b)) = 2 * n
  BY <1>3, RawIs
<1>7. ASSUME Covers(b, p) PROVE DecodeAndEmit(b, p) = Decode(Raw(Single(p)), p)
  <2>1. /\ Single(p).start = s + d /\ Single(p).quantity = m /\ ~Coils(Single(p).fc)
        /\ b.start = s /\ b.quantity = n /\ d + m <= n
    BY <1>1, <1>3, <1>5, <1>7, SingleIs, Zenon
  <2>2. PICK c : c = Single(p)
    BY Zenon
  <2>3. /\ ~(2 * d + 2 * m > Len(Raw(b)))
        /\ SubSeq(Raw(b), 2 * d + 1, 2 * d + 2 * m) = Raw(c)
    <3>1. IsPart(c, b, s, n, d, m)
      BY <2>1, <2>2, Zenon DEF IsPart
    <3>2. CutsOut(c, b, d, m)
      BY <3>1, CutIsDedicated
    <3> QED BY <3>2, Zenon DEF CutsOut
  <2> QED BY <1>4, <2>2, <2>3, Zenon DEF DecodeAndEmit
<1>8. ASSUME ~Covers(b, p) PROVE DecodeAndEmit(b, p) = Bad("INVALID")
  <2>1. 2 * d + 2 * m > 2 * n
    BY <1>5, <1>8
  <2> QED BY <1>4, <1>6, <2>1, Zenon DEF DecodeAndEmit
<1> QED BY <1>7, <1>8, Zenon

\* A device that answers for a block answers for a point that the block covers.
LEMMA AnswersPart ==
    ASSUME PlanInv, NEW b, Sound(b), NEW p \in b.points, Covers(b, p), Answers(b)
    PROVE  Answers(Single(p))
<1>1. /\ b.start \in Nat /\ b.quantity \in Nat /\ p \in Points /\ dps[p].fc = b.fc
  BY BlockIs DEF Sound
<1>2. dps[p].addr \in Nat /\ dps[p].width \in Nat /\ End(p) = dps[p].addr + dps[p].width
  BY <1>1, WidthIs
<1>3. Registers(Single(p)) \subseteq Registers(b)
  BY <1>1, <1>2, SingleIs DEF Registers, Covers
<1>4. Single(p).fc = b.fc
  BY <1>1, SingleIs
<1> QED BY <1>3, <1>4, Zenon DEF Answers

\* A point that goes past the top is not answered for.
LEMMA PastTop ==
    ASSUME PlanInv, NEW p \in Points, End(p) > Words
    PROVE  ~Answers(Single(p))
<1>1. /\ dps[p].addr \in Nat /\ dps[p].addr < Words /\ dps[p].width \in Nat
      /\ End(p) = dps[p].addr + dps[p].width /\ Words \in Nat
  BY WidthIs
<1>2. Words \in Registers(Single(p))
  BY <1>1, SingleIs DEF Registers
<1>3. Lacks(Single(p).fc, Words)
  BY <1>1 DEF Lacks
<1> QED BY <1>2, <1>3 DEF Answers

LEMMA OutcomeIsDedicated ==
    ASSUME PlanInv, NEW b, Sound(b), NEW p \in b.points, NEW reply \in Replies,
           reply = "ok" => Answers(b), reply = "exception" => ~Answers(b)
    PROVE  AsDedicated([point |-> p, block |-> b, reply |-> reply,
                        result |-> Outcome(b, p, reply)])
<1> DEFINE res == Outcome(b, p, reply)
<1>1. SUFFICES /\ res.quality = "GOOD" => res = Dedicated(p)
               /\ reply \in {"ok", "exception"} =>
                     \/ res = Dedicated(p)
                     \/ Spoilt(b, p)
                     \/ End(p) = Words /\ b # Single(p)
  <2> HIDE DEF res
  <2> QED BY Zenon DEF AsDedicated, res
<1>2. p \in Points /\ dps[p].fc = b.fc /\ (End(p) < Words => Covers(b, p))
  BY BlockIs, Zenon DEF Sound
<1>3. Bad("INVALID").quality = "INVALID"
  BY Zenon DEF Bad
<1>4. CASE reply = "ok"
  <2>1. res = DecodeAndEmit(b, p)
    BY <1>4, Zenon DEF Outcome
  <2>2. CASE Coils(b.fc)
    <3>1. b = Single(p)
      BY <2>2, Zenon DEF Sound
    <3>2. Answers(Single(p))
      BY <1>4, <3>1
    <3>3. res = Bad("INVALID") /\ Dedicated(p) = Bad("INVALID")
      BY <1>2, <2>1, <2>2, <3>1, <3>2, CoilsDoNotDecode, Zenon DEF Dedicated
    <3> QED BY <3>3, Zenon
  <2>3. CASE ~Coils(b.fc) /\ Covers(b, p)
    <3>1. Answers(Single(p))
      BY <1>4, <2>3, AnswersPart
    <3>2. res = Decode(Raw(Single(p)), p)
      BY <2>1, <2>3, EmitIs, Zenon
    <3>3. res = Dedicated(p)
      BY <3>1, <3>2, Zenon DEF Dedicated
    <3> QED BY <3>3, Zenon
  <2>4. CASE ~Coils(b.fc) /\ ~Covers(b, p)
    <3>1. res = Bad("INVALID")
      BY <2>1, <2>4, EmitIs, Zenon
    <3>2. res.quality # "GOOD"
      BY <1>3, <3>1
    <3>3. CASE End(p) = Words
      <4>1. Covers(Single(p), p)
        <5>1. /\ dps[p].addr \in Nat /\ dps[p].width \in Nat
              /\ End(p) = dps[p].addr + dps[p].width
          BY <1>2, WidthIs
        <5> QED BY <5>1, SingleIs DEF Covers
      <4>2. b # Single(p)
        BY <2>4, <4>1, Zenon
      <4> QED BY <3>2, <3>3, <4>2, Zenon
    <3>4. CASE End(p) # Words
      <4>1. End(p) > Words
        <5>1. End(p) \in Int /\ Words \in Int
          BY <1>2, WidthIs
        <5> QED BY <1>2, <2>4, <3>4, <5>1
      <4>2. Dedicated(p) = Bad("INVALID")
        BY <1>2, <4>1, PastTop, Zenon DEF Dedicated
      <4> QED BY <3>1, <3>2, <4>2, Zenon
    <3> QED BY <3>3, <3>4
  <2> QED BY <2>2, <2>3, <2>4, Zenon
<1>5. CASE reply = "exception"
  <2>1. res = Bad("INVALID")
    BY <1>5 DEF Outcome, QualityFromError
  <2>2. res.quality # "GOOD"
    BY <1>3, <2>1
  <2>3. CASE ~Answers(Single(p))
    <3>1. Dedicated(p) = Bad("INVALID")
      BY <2>3, Zenon DEF Dedicated
    <3> QED BY <2>1, <2>2, <3>1, Zenon
  <2>4. CASE Answers(Single(p))
    <3>1. PICK a \in Registers(b) : Lacks(b.fc, a)
      BY <1>5, Zenon DEF Answers
    <3>2. Single(p).fc = b.fc
      BY <1>2, SingleIs
    <3>3. a \notin Registers(Single(p))
      BY <2>4, <3>1, <3>2, Zenon DEF Answers
    <3>4. Spoilt(b, p)
      BY <3>1, <3>3, Zenon DEF Spoilt
    <3> QED BY <2>2, <3>4, Zenon
  <2> QED BY <2>3, <2>4
<1>6. CASE reply \notin {"ok", "exception"}
  <2>1. QualityFromError(reply) # "GOOD"
    BY <1>6, Zenon DEF QualityFromError, Replies, Faults
  <2>2. res = Bad(QualityFromError(reply))
    BY <1>6 DEF Outcome
  <2>3. res.quality # "GOOD"
    BY <2>1, <2>2 DEF Bad
  <2> QED BY <1>6, <2>3, Zenon
<1> QED BY <1>4, <1>5, <1>6, Zenon

\* A sequence of readings with times.
Timed(s) == \E R : s \in Seq(R) /\ \A r \in R : r.at \in Int

\* A Test Read under way has sent fewer requests than it has made attempts.
TestSound ==
    \/ test = NoTest
    \/ /\ test \in [pc : {"read", "reconnect"}, point : Points,
                    attempts : 1 .. (Retry + 1), sent : Nat]
       /\ test.sent < test.attempts
    \/ test.pc = "done" /\ TestReadPersists

\* What the three properties need to be inductive: the plan is sound, so that a
\* block holds the registers of its points; the stored chunk is the encoding of
\* the readings that were sealed, and these have times.
PathInv ==
    /\ PlanInv
    /\ PolledAsDedicated
    /\ now \in Int /\ Timed(buffer) /\ Timed(sealed)
    /\ chunk # <<>> => chunk = encodeChunk(sealed)
    /\ TestSound

LEMMA TimedEmpty == Timed(<<>>)
<1>1. PICK R : R = {}
  OBVIOUS
<1>2. <<>> \in Seq(R) /\ \A r \in R : r.at \in Int
  BY <1>1
<1> QED BY <1>2 DEF Timed

LEMMA TimedJoined ==
    ASSUME NEW s, Timed(s), NEW t, Timed(t)
    PROVE  Timed(s \o t)
<1>1. PICK R : s \in Seq(R) /\ \A r \in R : r.at \in Int
  BY Zenon DEF Timed
<1>2. PICK Q : t \in Seq(Q) /\ \A r \in Q : r.at \in Int
  BY Zenon DEF Timed
<1>3. PICK U : U = R \cup Q
  OBVIOUS
<1>4. s \in Seq(U) /\ t \in Seq(U)
  BY <1>1, <1>2, <1>3
<1>5. s \o t \in Seq(U)
  BY <1>4, Joined
<1>6. \A r \in U : r.at \in Int
  BY <1>1, <1>2, <1>3
<1> QED BY <1>5, <1>6, Zenon DEF Timed

\* A device has finitely many points, so that a block gives finitely many readings.
LEMMA InOrderDomain ==
    ASSUME PlanInv, NEW b, Sound(b)
    PROVE  \E n \in Nat : DOMAIN InOrder(b) = 1 .. n
<1>1. b.points \subseteq Points /\ IsFiniteSet(Points)
  BY BlockIs, PathAssumption DEF PlanInv, Points
<1>2. IsFiniteSet(b.points)
  BY <1>1, FS_Subset
<1>3. Cardinality(b.points) \in Nat
  BY <1>2, FS_CardinalityType
<1>4. DOMAIN InOrder(b) = 1 .. Cardinality(b.points)
  BY DEF InOrder
<1> QED BY <1>3, <1>4, Zenon

\* The invariant gives the properties of the data path.
LEMMA PathGoals ==
    ASSUME PathInv
    PROVE  PlanSound /\ PolledAsDedicated /\ ChunkRoundTrip /\ TestReadPersists
<1>1. PlanSound
  BY InvIsSound DEF PathInv
<1>2. PolledAsDedicated
  BY DEF PathInv
<1>3. TestReadPersists
  <2>1. CASE test = NoTest
    BY <2>1 DEF TestReadPersists, NoTest
  <2>2. CASE test.pc \in {"read", "reconnect"}
    BY <2>2 DEF TestReadPersists
  <2> QED BY <2>1, <2>2 DEF PathInv, TestSound
<1>4. ChunkRoundTrip
  <2>1. SUFFICES ASSUME chunk # <<>>
                 PROVE  /\ decodeChunk(chunk) =
                             [ok |-> TRUE, readings |-> [i \in DOMAIN sealed |-> Shown(sealed[i])]]
                        /\ \A n \in 0 .. (Len(chunk) - 1) : ~decodeChunk(SubSeq(chunk, 1, n)).ok
    BY Zenon DEF ChunkRoundTrip, Shown
  <2>2. PICK R, rs, c : /\ rs = sealed /\ rs \in Seq(R) /\ (\A r \in R : r.at \in Int)
                        /\ c = encodeChunk(rs) /\ c = chunk
    BY <2>1, Zenon DEF PathInv, Timed
  <2>3. PICK T : c \in Seq(T)
    BY <2>2, ChunkIs, Zenon
  <2>4. Len(c) \in Nat
    BY <2>3
  <2>5. decodeChunk(c) = [ok |-> TRUE, readings |-> [i \in DOMAIN rs |-> Shown(rs[i])]]
    <3>1. Begins(c, c)
      BY <2>4 DEF Begins
    <3>2. Begins(c, encodeChunk(rs)) /\ Len(c) = Len(encodeChunk(rs))
      BY <2>2, <3>1, Zenon
    <3> QED BY <2>2, <3>2, DecodesChunk, Zenon
  <2>6. ASSUME NEW n \in 0 .. (Len(c) - 1) PROVE decodeChunk(SubSeq(c, 1, n)).ok = FALSE
    <3>1. PICK ts : ts = SubSeq(c, 1, n)
      OBVIOUS
    <3>2. Len(ts) = n /\ \A j \in 1 .. n : ts[j] = c[j]
      BY <2>3, <2>4, <3>1
    <3>3. Begins(ts, c) /\ Len(ts) # Len(c)
      BY <2>4, <3>2 DEF Begins
    <3>4. Begins(ts, encodeChunk(rs)) /\ Len(ts) # Len(encodeChunk(rs))
      BY <2>2, <3>3, Zenon
    <3>5. decodeChunk(ts) = [ok |-> FALSE, readings |-> <<>>]
      BY <2>2, <3>4, DecodesChunk, Zenon
    <3> QED BY <3>1, <3>5
  <2> QED BY <2>2, <2>5, <2>6, Zenon
<1> QED BY <1>1, <1>2, <1>3, <1>4

\* What a request for a point alone returns depends on the layout and the holes.
LEMMA DedicatedKept ==
    ASSUME dps' = dps, holes' = holes
    PROVE  /\ \A p : Dedicated(p)' = Dedicated(p)
           /\ \A r : AsDedicated(r)' <=> AsDedicated(r)
<1>1. \A p : Dedicated(p)' = Dedicated(p)
  BY DEF Dedicated, Answers, Lacks, Registers, Single, Decode, Reorders, Reorder, ByteWidth
<1>2. \A b, p : Spoilt(b, p)' <=> Spoilt(b, p)
  BY DEF Spoilt, Lacks, Registers, Single
<1>3. \A p : End(p)' = End(p) /\ Single(p)' = Single(p)
  BY DEF End, Single
<1>4. \A r : AsDedicated(r)' <=> AsDedicated(r)
  BY <1>1, <1>2, <1>3 DEF AsDedicated
<1> QED BY <1>1, <1>4

LEMMA PolledIs == PolledAsDedicated <=> \A r \in polled : AsDedicated(r)
BY DEF PolledAsDedicated, AsDedicated

LEMMA PolledKept ==
    ASSUME PathInv, dps' = dps, holes' = holes, polled' = polled
    PROVE  PolledAsDedicated'
<1>1. \A r \in polled : AsDedicated(r)
  BY PolledIs DEF PathInv
<1>2. \A r \in polled' : AsDedicated(r)'
  BY <1>1, DedicatedKept
<1> QED BY <1>2 DEF PolledAsDedicated, AsDedicated

LEMMA TestKept ==
    ASSUME PathInv, dps' = dps, holes' = holes, test' = test
    PROVE  TestSound'
BY DedicatedKept DEF PathInv, TestSound, TestReadPersists, Points

LEMMA BeginPass_Inv == PathInv /\ BeginPass => PathInv'
<1> SUFFICES ASSUME PathInv, BeginPass PROVE PathInv'
  OBVIOUS
<1>1. /\ BeginPlan /\ now' \in Times /\ polled' = {} /\ holes' = holes /\ buffer' = buffer
      /\ chunk' = chunk /\ sealed' = sealed /\ test' = test /\ dps' = dps
  BY DEF BeginPass, BeginPlan
<1>2. PlanInv'
  BY <1>1, BeginPlan_Inv DEF PathInv
<1>3. TestSound'
  BY <1>1, TestKept
<1>4. PolledAsDedicated'
  BY <1>1 DEF PolledAsDedicated
<1>5. now' \in Int
  BY <1>1, PathAssumption
<1>6. /\ Timed(buffer') /\ Timed(sealed')
      /\ chunk' # <<>> => chunk' = encodeChunk(sealed')
  BY <1>1 DEF PathInv
<1> QED BY <1>2, <1>3, <1>4, <1>5, <1>6 DEF PathInv

LEMMA Plan_Inv == PathInv /\ Plan => PathInv'
<1> SUFFICES ASSUME PathInv, Plan PROVE PathInv'
  OBVIOUS
<1>1. /\ now' = now /\ polled' = polled /\ holes' = holes /\ buffer' = buffer
      /\ chunk' = chunk /\ sealed' = sealed /\ test' = test /\ dps' = dps
  BY DEF Plan, pathVars, Planning, PlaceCoil, PlaceRegister, EndGroup
<1>2. PlanInv'
  <2>1. ASSUME NEW p \in Points, PlaceCoil(p) PROVE PlanInv'
    BY <2>1, PlaceCoil_Inv DEF PathInv
  <2>2. ASSUME NEW p \in Points, PlaceRegister(p) PROVE PlanInv'
    BY <2>2, PlaceRegister_Inv DEF PathInv
  <2>3. CASE EndGroup
    BY <2>3, EndGroup_Inv DEF PathInv
  <2> QED BY <2>1, <2>2, <2>3 DEF Plan, Planning
<1>3. TestSound' /\ PolledAsDedicated'
  BY <1>1, TestKept, PolledKept
<1>4. /\ now' \in Int /\ Timed(buffer') /\ Timed(sealed')
      /\ chunk' # <<>> => chunk' = encodeChunk(sealed')
  BY <1>1 DEF PathInv
<1> QED BY <1>2, <1>3, <1>4, Zenon DEF PathInv

LEMMA Emit_Inv ==
    ASSUME PathInv, NEW b \in blocks, NEW reply \in Replies, Emit(b, reply),
           reply = "ok" => Answers(b), reply = "exception" => ~Answers(b)
    PROVE  PathInv'
<1> DEFINE Read(p) == [point |-> p, block |-> b, reply |-> reply,
                       result |-> Outcome(b, p, reply)]
           Reading(p) == [point |-> p, device |-> 1, at |-> now,
                          quality |-> Outcome(b, p, reply).quality,
                          value |-> Outcome(b, p, reply).value]
           new == [i \in DOMAIN InOrder(b) |-> Reading(InOrder(b)[i])]
<1>1. /\ TakeBlock(b) /\ polled' = polled \cup {Read(p) : p \in b.points}
      /\ buffer' = buffer \o new
      /\ holes' = holes /\ now' = now /\ chunk' = chunk /\ sealed' = sealed /\ test' = test
  BY Zenon DEF Emit
<1>2. dps' = dps /\ Sound(b) /\ PlanInv
  BY <1>1, Zenon DEF TakeBlock, PathInv, PlanInv
<1>3. PlanInv'
  BY <1>1, <1>2, TakeBlock_Inv, Zenon
<1>4. TestSound'
  BY <1>1, <1>2, TestKept, Zenon
<1>5. \A p \in b.points : AsDedicated(Read(p))
  BY <1>2, OutcomeIsDedicated, Zenon
<1>6. PolledAsDedicated'
  <2> HIDE DEF Read
  <2>1. \A r \in polled : AsDedicated(r)
    BY PolledIs DEF PathInv
  <2>2. \A r \in polled' : AsDedicated(r)
    BY <1>1, <1>5, <2>1, Zenon
  <2>3. \A r \in polled' : AsDedicated(r)'
    BY <1>1, <1>2, <2>2, DedicatedKept
  <2> QED BY <2>3 DEF PolledAsDedicated, AsDedicated
<1>7. Timed(new)
  <2>1. PICK n \in Nat : DOMAIN InOrder(b) = 1 .. n
    BY <1>2, InOrderDomain, Zenon
  <2>2. PICK R : R = {Reading(InOrder(b)[i]) : i \in 1 .. n}
    OBVIOUS
  <2>3. \A r \in R : r.at \in Int
    <3>1. \A p : Reading(p).at = now
      OBVIOUS
    <3>2. now \in Int
      BY DEF PathInv
    <3> HIDE DEF Reading
    <3> QED BY <2>2, <3>1, <3>2
  <2> HIDE DEF Reading
  <2>4. new = [i \in 1 .. n |-> Reading(InOrder(b)[i])]
    BY <2>1
  <2>5. new \in Seq(R)
    BY <2>2, <2>4
  <2> HIDE DEF new
  <2> QED BY <2>3, <2>5, Zenon DEF Timed
<1> HIDE DEF new, Read
<1>8. Timed(buffer') /\ Timed(sealed') /\ now' \in Int
  <2>1. Timed(buffer) /\ Timed(sealed) /\ now \in Int
    BY DEF PathInv
  <2>2. Timed(buffer \o new)
    BY <1>7, <2>1, TimedJoined
  <2> QED BY <1>1, <2>1, <2>2
<1>9. chunk' # <<>> => chunk' = encodeChunk(sealed')
  BY <1>1 DEF PathInv
<1> QED BY <1>3, <1>4, <1>6, <1>8, <1>9 DEF PathInv

LEMMA ReadBlock_Inv ==
    ASSUME PathInv, NEW b \in blocks, ReadBlock(b)
    PROVE  PathInv'
<1>1. CASE Emit(b, IF Answers(b) THEN "ok" ELSE "exception")
  <2>1. CASE Answers(b)
    <3>1. Emit(b, "ok") /\ "ok" \in Replies
      BY <1>1, <2>1 DEF Replies
    <3> QED BY <2>1, <3>1, Emit_Inv
  <2>2. CASE ~Answers(b)
    <3>1. Emit(b, "exception") /\ "exception" \in Replies
      BY <1>1, <2>2 DEF Replies
    <3> QED BY <2>2, <3>1, Emit_Inv
  <2> QED BY <2>1, <2>2
<1>2. ASSUME NEW err \in Faults \cup {"expired", "cancelled"}, Emit(b, err) PROVE PathInv'
  <2>1. err \in Replies /\ err # "ok" /\ err # "exception"
    BY DEF Replies, Faults
  <2> QED BY <1>2, <2>1, Emit_Inv
<1> QED BY <1>1, <1>2 DEF ReadBlock

LEMMA Seal_Inv == PathInv /\ Seal => PathInv'
<1> SUFFICES ASSUME PathInv, Seal PROVE PathInv'
  OBVIOUS
<1>1. /\ chunk' = encodeChunk(buffer) /\ sealed' = buffer /\ buffer' = <<>>
      /\ UNCHANGED planVars /\ holes' = holes /\ now' = now /\ polled' = polled /\ test' = test
  BY DEF Seal
<1>2. dps' = dps
  BY <1>1, Zenon DEF planVars
<1>3. PlanInv'
  BY <1>1, SoundKept DEF PathInv, planVars, PlanInv, Apart
<1>4. TestSound' /\ PolledAsDedicated'
  BY <1>1, <1>2, TestKept, PolledKept
<1>5. now' \in Int /\ Timed(buffer') /\ Timed(sealed')
  BY <1>1, TimedEmpty DEF PathInv
<1>6. chunk' = encodeChunk(sealed')
  BY <1>1
<1> QED BY <1>3, <1>4, <1>5, <1>6 DEF PathInv

\* The handler goes on, or is done with a result that TestReadPersists allows.
LEMMA TestDone_Sound ==
    ASSUME dps' = dps, holes' = holes, NEW p, NEW attempts, NEW sent, NEW expired, NEW result,
           TestDone(p, attempts, sent, expired, result),
           sent <= attempts /\ attempts <= Retry + 1,
           \/ result = Dedicated(p)
           \/ attempts \in {0, Retry + 1}
           \/ expired = TRUE
    PROVE  TestSound'
<1>1. /\ test'.pc = "done" /\ test'.point = p /\ test'.attempts = attempts
      /\ test'.sent = sent /\ test'.expired = expired /\ test'.result = result
  BY DEF TestDone
<1>2. Dedicated(p)' = Dedicated(p)
  BY DedicatedKept
<1>3. TestReadPersists'
  BY <1>1, <1>2 DEF TestReadPersists
<1> QED BY <1>1, <1>3 DEF TestSound

Running ==
    [pc : {"read", "reconnect"}, point : Points, attempts : 1 .. (Retry + 1), sent : Nat]

LEMMA TestRuns ==
    ASSUME PathInv, test.pc \in {"read", "reconnect"}
    PROVE  /\ test \in Running /\ test.sent < test.attempts
           /\ test.sent \in Nat /\ test.attempts \in Nat /\ test.attempts >= 1
           /\ test.attempts <= Retry + 1 /\ Retry \in Nat
<1>1. test # NoTest /\ test.pc # "done"
  BY DEF NoTest
<1>2. test \in Running /\ test.sent < test.attempts
  BY <1>1, Zenon DEF PathInv, TestSound, Running
<1>3. Retry \in Nat
  BY PathAssumption
<1> QED BY <1>2, <1>3 DEF Running

LEMMA TestFailed_Sound ==
    ASSUME PathInv, dps' = dps, holes' = holes, test.pc = "read", NEW err,
           TestFailed(err, test.sent + 1)
    PROVE  TestSound'
<1>1. /\ test \in Running /\ test.sent < test.attempts
      /\ test.sent \in Nat /\ test.attempts \in Nat /\ test.attempts >= 1
      /\ test.attempts <= Retry + 1 /\ Retry \in Nat
  BY TestRuns
<1>2. test.sent + 1 <= test.attempts
  BY <1>1
<1>3. CASE TestDone(test.point, test.attempts, test.sent + 1, TRUE, Bad(QualityFromError("expired")))
  BY <1>1, <1>2, <1>3, TestDone_Sound, Zenon
<1>4. CASE /\ Retries(test.attempts)
           /\ test' = [test EXCEPT !.pc = "reconnect", !.attempts = @ + 1, !.sent = test.sent + 1]
  <2>1. test.attempts + 1 \in 1 .. (Retry + 1) /\ test.sent + 1 \in Nat
    BY <1>1, <1>4 DEF Retries
  <2>2. test' \in Running /\ test'.sent = test.sent + 1 /\ test'.attempts = test.attempts + 1
    BY <1>1, <1>4, <2>1, Zenon DEF Running
  <2>3. test'.sent < test'.attempts
    BY <1>1, <2>2
  <2>4. Points' = Points
    BY DEF Points
  <2> QED BY <2>2, <2>3, <2>4 DEF TestSound, Running
<1>5. CASE /\ ~Retries(test.attempts)
           /\ TestDone(test.point, test.attempts, test.sent + 1, FALSE, Bad(QualityFromError(err)))
  <2>1. test.attempts = Retry + 1
    BY <1>1, <1>5 DEF Retries
  <2> QED BY <1>1, <1>2, <1>5, <2>1, TestDone_Sound, Zenon
<1> QED BY <1>3, <1>4, <1>5, Zenon DEF TestFailed

LEMMA Test_Inv == PathInv /\ Test => PathInv'
<1> SUFFICES ASSUME PathInv, Test PROVE PathInv'
  OBVIOUS
<1>1. /\ UNCHANGED planVars /\ holes' = holes /\ now' = now /\ polled' = polled
      /\ buffer' = buffer /\ chunk' = chunk /\ sealed' = sealed
  BY DEF Test
<1>2. dps' = dps
  BY <1>1, Zenon DEF planVars
<1>3. PlanInv'
  BY <1>1, SoundKept DEF PathInv, planVars, PlanInv, Apart
<1>4. PolledAsDedicated'
  BY <1>1, <1>2, PolledKept
<1>5. ASSUME NEW p \in Points, TestStart(p) PROVE TestSound'
  <2>0. Retry \in Nat
    BY PathAssumption
  <2>1. CASE test' = [pc |-> "read", point |-> p, attempts |-> 1, sent |-> 0]
    <3>1. Points' = Points /\ 1 \in 1 .. (Retry + 1)
      BY <1>2, <2>0 DEF Points
    <3>2. test' \in Running /\ test'.sent < test'.attempts
      BY <2>1, <3>1 DEF Running
    <3> QED BY <3>1, <3>2 DEF TestSound, Running
  <2>2. ASSUME NEW err, TestDone(p, 0, 0, FALSE, Bad(QualityFromError(err))) PROVE TestSound'
    <3>1. 0 <= 0 /\ 0 <= Retry + 1
      BY <2>0
    <3> QED BY <1>1, <1>2, <2>2, <3>1, TestDone_Sound, Zenon
  <2> QED BY <1>5, <2>1, <2>2, Zenon DEF TestStart
<1>6. ASSUME TestRead PROVE TestSound'
  <2>1. test.pc = "read"
    BY <1>6 DEF TestRead
  <2>2. /\ test \in Running /\ test.sent < test.attempts
        /\ test.sent \in Nat /\ test.attempts \in Nat
        /\ test.attempts <= Retry + 1 /\ Retry \in Nat
    BY <2>1, TestRuns
  <2>3. CASE TestDone(test.point, test.attempts, test.sent + 1, FALSE, Dedicated(test.point))
    <3>1. test.sent + 1 <= test.attempts
      BY <2>2
    <3> QED BY <1>1, <1>2, <2>2, <2>3, <3>1, TestDone_Sound, Zenon
  <2>4. ASSUME NEW err, TestFailed(err, test.sent + 1) PROVE TestSound'
    BY <1>1, <1>2, <2>1, <2>4, TestFailed_Sound
  <2> QED BY <1>6, <2>3, <2>4, Zenon DEF TestRead
<1>7. ASSUME TestReconnect PROVE TestSound'
  <2>1. test.pc = "reconnect"
    BY <1>7 DEF TestReconnect
  <2>2. /\ test \in Running /\ test.sent < test.attempts
        /\ test.sent \in Nat /\ test.attempts \in Nat /\ test.attempts >= 1
        /\ test.attempts <= Retry + 1 /\ Retry \in Nat
    BY <2>1, TestRuns
  <2>3. Points' = Points
    BY <1>2 DEF Points
  <2>4. CASE test' = [test EXCEPT !.pc = "read"]
    <3>1. test' \in Running /\ test'.sent < test'.attempts
      BY <2>2, <2>4 DEF Running
    <3> QED BY <2>3, <3>1 DEF TestSound, Running
  <2>5. CASE Retries(test.attempts) /\ test' = [test EXCEPT !.attempts = @ + 1]
    <3>1. test.attempts + 1 \in 1 .. (Retry + 1)
      BY <2>2, <2>5 DEF Retries
    <3>2. test' \in Running /\ test'.sent = test.sent /\ test'.attempts = test.attempts + 1
      BY <2>2, <2>5, <3>1 DEF Running
    <3>3. test'.sent < test'.attempts
      BY <2>2, <3>2
    <3> QED BY <2>3, <3>2, <3>3 DEF TestSound, Running
  <2>6. ASSUME ~Retries(test.attempts), NEW err,
               TestDone(test.point, test.attempts, test.sent, FALSE, Bad(QualityFromError(err)))
        PROVE  TestSound'
    <3>1. test.attempts = Retry + 1 /\ test.sent <= test.attempts
      BY <2>2, <2>6 DEF Retries
    <3> QED BY <1>1, <1>2, <2>2, <2>6, <3>1, TestDone_Sound, Zenon
  <2> QED BY <1>7, <2>4, <2>5, <2>6, Zenon DEF TestReconnect
<1>8. TestSound'
  BY <1>5, <1>6, <1>7 DEF Test
<1>9. /\ now' \in Int /\ Timed(buffer') /\ Timed(sealed')
      /\ chunk' # <<>> => chunk' = encodeChunk(sealed')
  BY <1>1 DEF PathInv
<1> QED BY <1>3, <1>4, <1>8, <1>9 DEF PathInv

LEMMA PathInit_Inv == PathInit => PathInv
<1> SUFFICES ASSUME PathInit PROVE PathInv
  OBVIOUS
<1>1. PlanInv
  BY PlanInit_Inv DEF PathInit
<1>2. PolledAsDedicated
  BY DEF PathInit, PolledAsDedicated
<1>3. now \in Int /\ Timed(buffer) /\ Timed(sealed) /\ chunk = <<>>
  BY TimedEmpty DEF PathInit
<1>4. TestSound
  BY DEF PathInit, TestSound
<1> QED BY <1>1, <1>2, <1>3, <1>4 DEF PathInv

LEMMA PathStep_Inv == PathInv /\ [PathNext]_dataVars => PathInv'
<1> SUFFICES ASSUME PathInv, [PathNext]_dataVars PROVE PathInv'
  OBVIOUS
<1>1. CASE BeginPass
  BY <1>1, BeginPass_Inv
<1>2. CASE Plan
  BY <1>2, Plan_Inv
<1>3. ASSUME NEW b \in blocks, ReadBlock(b) PROVE PathInv'
  BY <1>3, ReadBlock_Inv
<1>4. CASE Seal
  BY <1>4, Seal_Inv
<1>5. CASE Test
  BY <1>5, Test_Inv
<1>6. CASE UNCHANGED dataVars
  <2>1. /\ dps' = dps /\ todo' = todo /\ pending' = pending /\ blocks' = blocks /\ done' = done
        /\ holes' = holes /\ now' = now /\ polled' = polled /\ buffer' = buffer
        /\ chunk' = chunk /\ sealed' = sealed /\ test' = test
    BY <1>6, Zenon DEF dataVars, planVars, pathVars
  <2>2. PlanInv'
    BY <2>1, SoundKept DEF PathInv, PlanInv, Apart
  <2>3. TestSound' /\ PolledAsDedicated'
    BY <2>1, TestKept, PolledKept
  <2>4. /\ now' \in Int /\ Timed(buffer') /\ Timed(sealed')
        /\ chunk' # <<>> => chunk' = encodeChunk(sealed')
    BY <2>1 DEF PathInv
  <2> QED BY <2>2, <2>3, <2>4 DEF PathInv
<1> QED BY <1>1, <1>2, <1>3, <1>4, <1>5, <1>6, Zenon DEF PathNext

\* The inductive invariant of the data path.
LEMMA PathInvAlways == PathSpec => []PathInv
BY PathInit_Inv, PathStep_Inv, PTL DEF PathSpec

\* For every device, every set of registers it lacks and every pattern of faults,
\* decodeAndEmit cuts out of the answer for a block what a request for the point
\* alone would have returned; a point that differs shares its block with a
\* register the device lacks, or ends at the top of the address space.
THEOREM PolledIsDedicated == PathSpec => []PolledAsDedicated
BY PathInvAlways, PathGoals, PTL

\* decodeChunk gives back the readings that encodeChunk was given, however many
\* they are and in whatever order their times, and fails on every chunk that is
\* cut short.
THEOREM ChunksDecode == PathSpec => []ChunkRoundTrip
BY PathInvAlways, PathGoals, PTL

\* For every Connection.Retry, a Test Read makes no more than Retry + 1 attempts
\* and no more requests than attempts, and gives up a point that could be read
\* only when they are used up, its time is over, or it never connected.
THEOREM TestReadIsPersistent == PathSpec => []TestReadPersists
BY PathInvAlways, PathGoals, PTL
=============================================================================
