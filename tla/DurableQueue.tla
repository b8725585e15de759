---------------------------- MODULE DurableQueue ----------------------------
(***************************************************************************)
(* What the Store & Forward queue promises, without its memory, its        *)
(* counters or its threads: a chunk enters once, under a sequence number    *)
(* larger than every earlier one, and leaves once, acknowledged, evicted   *)
(* or discarded.  Acknowledgement and eviction remove from the old end     *)
(* only.  QueueStore implements this module; Delivery is built on it.      *)
(***************************************************************************)
EXTENDS Integers

VARIABLES
    pending,    \* seqs of the chunk rows in queue.db
    nextSeq,    \* the seq AUTOINCREMENT gives to the next row
    acked,      \* seqs removed because the server acknowledged them
    evicted,    \* seqs removed to make room
    discarded   \* seqs removed because their blob could not be decoded

queueVars == <<pending, nextSeq, acked, evicted, discarded>>

QueueInit ==
    /\ pending = {}
    /\ nextSeq = 1
    /\ acked = {}
    /\ evicted = {}
    /\ discarded = {}

\* The chunks a deletion "seq <= s" would remove.
Through(s) == {p \in pending : p <= s}

\* One flush transaction stores k chunks.
Put(k) ==
    /\ pending' = pending \cup nextSeq .. (nextSeq + k - 1)
    /\ nextSeq' = nextSeq + k
    /\ UNCHANGED <<acked, evicted, discarded>>

Acknowledge(s) ==
    /\ pending' = pending \ Through(s)
    /\ acked' = acked \cup Through(s)
    /\ UNCHANGED <<nextSeq, evicted, discarded>>

Evict(s) ==
    /\ pending' = pending \ Through(s)
    /\ evicted' = evicted \cup Through(s)
    /\ UNCHANGED <<nextSeq, acked, discarded>>

Discard(s) ==
    /\ s \in pending
    /\ pending' = pending \ {s}
    /\ discarded' = discarded \cup {s}
    /\ UNCHANGED <<nextSeq, acked, evicted>>

QueueNext ==
    \/ nextSeq' > nextSeq /\ Put(nextSeq' - nextSeq)
    \/ \E s \in pending : Acknowledge(s) \/ Evict(s) \/ Discard(s)

QueueSpec == QueueInit /\ [][QueueNext]_queueVars
=============================================================================
