--------------------------- MODULE MCEventReplay ---------------------------
(* Streams of up to MaxEvents events over three prices: enough for a two-sided*)
(* book, an order that sweeps a level of it, and the signal of that event.   *)
EXTENDS EventReplay

\* Ids are only compared for equality.
IdSymmetry == Permutations(OrderIds)
=============================================================================
