----------------------------- MODULE MCDataPath -----------------------------
(***************************************************************************)
(* A small instance of DataPath.  The addresses are the ones where merging *)
(* changes: next to each other, at the widest gap and one past it, around  *)
(* the limit of a request, and below the top of the address space.         *)
(***************************************************************************)
EXTENDS DataPath

Dp(fc, addr, width, order) == [fc |-> fc, addr |-> addr, width |-> width, order |-> order]

Low ==
    {Dp(3, 0, 2, <<3, 4, 1, 2>>), Dp(3, 1, 1, <<2, 1>>), Dp(3, 10, 4, <<>>),
     Dp(3, 11, 1, <<>>), Dp(4, 0, 1, <<1>>), Dp(1, 0, 1, <<>>)}
High ==
    {Dp(3, 65525, 1, <<>>), Dp(3, 65526, 1, <<2, 1>>), Dp(3, 65527, 1, <<>>),
     Dp(3, 65534, 1, <<>>), Dp(3, 65535, 1, <<>>), Dp(3, 65535, 2, <<>>)}

\* Points as far apart as merging allows, up to the limit of a request or past
\* it.
Long(addr, width) ==
    [p \in 1 .. 12 |-> IF p <= 10 THEN Dp(4, 12 * (p - 1), 4, <<>>)
                       ELSE IF p = 11 THEN Dp(4, 117, 4, <<>>)
                       ELSE Dp(4, addr, width, <<>>)]

\* Points are alike, so they are taken in the order of their addresses.
Ordered(d) == \A p, q \in DOMAIN d : p < q => d[p].addr <= d[q].addr
MCLayouts ==
    {d \in [1 .. 3 -> Low] \cup [1 .. 3 -> High] \cup [1 .. 2 -> Low] : Ordered(d)}
    \cup {Long(121, 4), Long(122, 4), Long(124, 1), Long(125, 1)}

MCHoles == {{}, {5}, {11}}

MCInit == PathInit /\ (dps[1].addr > 0 => holes = {})

\* The pass and the Test Read share the bound on faults only: a behaviour has
\* one or the other.  It ends with the first chunk, which is stored between two
\* passes.  Only small devices have a second pass.
MCNext ==
    /\ PathNext
    /\ passes' = 0 \/ test' = NoTest
    /\ chunk = <<>>
    /\ chunk' # <<>> => done = Points
    /\ passes' = 2 => DOMAIN dps = 1 .. 2

MCSpec == MCInit /\ [][MCNext]_dataVars
=============================================================================
