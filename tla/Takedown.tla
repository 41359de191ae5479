------------------------------ MODULE Takedown ------------------------------
(* What taking photographs down promises, whoever does it and however the      *)
(* handlers interleave: hiding is reversible, a removal is not, nothing is     *)
(* purged that was not taken down first, and a removal request is answered     *)
(* once.                                                                       *)
CONSTANTS Photos, Asked

VARIABLES phase, answer

vars == <<phase, answer>>

Phase == {"none", "shown", "hidden", "down", "gone"}
Answer == {"none", "open", "actioned", "declined"}

Init ==
    /\ phase = [p \in Photos |-> "none"]
    /\ answer = [q \in Asked |-> "none"]

Moves(p, from, to) ==
    /\ phase[p] \in from
    /\ phase' = [phase EXCEPT ![p] = to]
    /\ UNCHANGED answer

Show(p)     == Moves(p, {"none"}, "shown")
Hide(p)     == Moves(p, {"shown"}, "hidden")
Unhide(p)   == Moves(p, {"hidden"}, "shown")
TakeDown(p) == Moves(p, {"shown", "hidden"}, "down")
Purge(p)    == Moves(p, {"down"}, "gone")

Ask(q) ==
    /\ answer[q] = "none"
    /\ answer' = [answer EXCEPT ![q] = "open"]
    /\ UNCHANGED phase

Reply(q, a) ==
    /\ answer[q] = "open"
    /\ answer' = [answer EXCEPT ![q] = a]
    /\ UNCHANGED phase

Next ==
    \/ \E p \in Photos : Show(p) \/ Hide(p) \/ Unhide(p) \/ TakeDown(p) \/ Purge(p)
    \/ \E q \in Asked : Ask(q) \/ \E a \in {"actioned", "declined"} : Reply(q, a)

Spec == Init /\ [][Next]_vars
=============================================================================
