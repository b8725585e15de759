----------------------------- MODULE MCDelivery -----------------------------
(***************************************************************************)
(* Small instances of Delivery.  With MaxReadings = 2 a message has one or *)
(* two chunks, so that messages overlap, and the third chunk overshoots    *)
(* the limit.                                                              *)
(*                                                                         *)
(* The safety run takes three chunks of one queue file with two messages   *)
(* and two acks in flight and a damaged blob, or two chunks with one in    *)
(* flight over a new file, a restart of the server and a broken            *)
(* connection.                                                             *)
(***************************************************************************)
EXTENDS Delivery

MCSize == [s \in 1 .. MaxSeq |-> IF s = 3 THEN 2 ELSE 1]

FewInFlight(net) == Cardinality(net) <= 1 /\ \A m \in net : m.to <= 2

Budget ==
    \/ stream = 1 /\ restarts = 0 /\ breaks = 0
    \/ /\ nextSeq <= 3 /\ damages = 0
       /\ FewInFlight(wire) /\ FewInFlight(acks)
       /\ stored \subseteq Streams \X (1 .. 2)
=============================================================================
