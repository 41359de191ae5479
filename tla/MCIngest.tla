------------------------------ MODULE MCIngest ------------------------------
(* Small albums: uploads p1 and p2, a content the scanner matches beside one   *)
(* it does not and one that cannot be decoded.                                 *)
EXTENDS Ingest, TLC

CONSTANTS p1, p2, good, bad, broken, r1, r2
OnePhoto == {p1}
TwoPhotos == {p1, p2}
OneContent == {good}
TwoContents == {good, bad}
BadAndBroken == {good, bad, broken}
Matched == {bad}
Broken == {broken}
OneRequest == {r1}
TwoRequests == {r1, r2}
PhotoSymmetry == Permutations(TwoPhotos)
RequestSymmetry == Permutations(TwoRequests)
=============================================================================
