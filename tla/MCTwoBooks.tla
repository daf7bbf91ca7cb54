----------------------------- MODULE MCTwoBooks -----------------------------
(* Orders over three prices in a band of five: three levels on a side, or   *)
(* three orders in one queue, with every removal and modify from either end *)
(* or between; the search of the array for the next best level passes empty *)
(* ones inside the band and runs off both ends of it.                       *)
EXTENDS TwoBooks

\* Ids are only compared for equality.
IdSymmetry == Permutations(OrderIds)
=============================================================================
