----------------------------- MODULE MCRemoval ------------------------------
(* Two rows of one content, so that every sharing of objects between a         *)
(* removed row and its twin happens, and a row is alone while the other is     *)
(* still to come.                                                              *)
EXTENDS Removal, TLC

CONSTANTS picture, p1, p2

MCPhotos == {p1, p2}
MCContents == {picture}
MCHash == [p \in MCPhotos |-> picture]
Symmetry == Permutations(MCPhotos) \cup Permutations(Hosts)
=============================================================================
