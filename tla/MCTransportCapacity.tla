------------------------- MODULE MCTransportCapacity -------------------------
(* TransportCapacity with batches as large as the capacity or larger, for TLC. *)
EXTENDS TransportCapacity, TLC
CONSTANTS b1, b2, s1

TwoBatches == {b1, b2}
OneStream == {s1}
BatchSizes == b1 :> 3 @@ b2 :> 2
=============================================================================
