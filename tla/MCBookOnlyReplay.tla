-------------------------- MODULE MCBookOnlyReplay --------------------------
(* Streams of four events in which ids come back: an ADD of a resting id,    *)
(* a CANCEL of a missing one, crossed books and no-ops between changes.      *)
EXTENDS BookOnlyReplay

\* Ids are only compared for equality.
IdSymmetry == Permutations(OrderIds)
=============================================================================
