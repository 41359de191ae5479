------------------------------ MODULE MCSignIn ------------------------------
(* One address, a browser and a phone, and two sign-ins at once.               *)
EXTENDS SignIn, TLC

CONSTANTS web, phone

MCDevices == {web, phone}
Symmetry == Permutations(Reqs) \cup Permutations(Actors) \cup Permutations(Sessions)
=============================================================================
