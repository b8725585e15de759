---------------------------- MODULE MCQueueStore ----------------------------
(***************************************************************************)
(* Small instances of QueueStore.  The second reading is older than the    *)
(* first: pollers of different connections append only roughly in order.   *)
(***************************************************************************)
EXTENDS QueueStore

MCTimeOf == [i \in Readings |-> CASE i = 1 -> 2 [] i = 2 -> 1 [] OTHER -> i]
=============================================================================
