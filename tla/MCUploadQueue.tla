--------------------------- MODULE MCUploadQueue ---------------------------
(* A small instance of UploadQueue: two albums, and an entry c made from the   *)
(* same source as a, which can be queued only once a has been forgotten.       *)
EXTENDS UploadQueue, TLC

CONSTANTS a, b, c, s1, s2, e1, e2, w1, w2

MCSourceOf == [i \in Items |-> IF i = b THEN s2 ELSE s1]
MCMaxSpare == [i \in Items |-> IF i = a THEN 1 ELSE 0]
MCEventOf == [i \in Items |-> IF i = b THEN e2 ELSE e1]
=============================================================================
