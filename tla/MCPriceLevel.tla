---------------------------- MODULE MCPriceLevel ----------------------------
(* Two level objects, three order ids: every shape a list of at most three *)
(* nodes can take, on either side of a move.                               *)
EXTENDS PriceLevel

\* Ids are only compared for equality.
IdSymmetry == Permutations(OrderIds)
=============================================================================
