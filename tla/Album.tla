------------------------------- MODULE Album -------------------------------
(* What an album promises of the photographs sent to it, without saying how:   *)
(* each is a draft until it is decided, a draft is decided once and for all,   *)
(* an album shows no content twice and none that the scanner matched.          *)
(* Ingest implements this for one album (services/deriver/src/pipeline.ts and  *)
(* the upload routes of apps/web).                                             *)

CONSTANTS
    Photos,       \* photo rows
    Contents,     \* what a photograph's bytes hash to once stripped
    Bad,          \* contents the scanner matches
    NoContent

VARIABLES
    entry,        \* where each photograph stands
    shows         \* the content an album entry shows

vars == <<entry, shows>>

TypeOK ==
    /\ entry \in [Photos -> {"none", "draft", "shown", "held", "gone"}]
    /\ shows \in [Photos -> Contents \cup {NoContent}]

Init ==
    /\ entry = [p \in Photos |-> "none"]
    /\ shows = [p \in Photos |-> NoContent]

Decide(p, outcome) ==
    /\ entry[p] = "draft"
    /\ entry' = [entry EXCEPT ![p] = outcome]

Start(p) ==
    /\ entry[p] = "none"
    /\ entry' = [entry EXCEPT ![p] = "draft"]
    /\ UNCHANGED shows

Show(p, c) ==
    /\ c \notin Bad
    /\ \A q \in Photos : shows[q] # c
    /\ Decide(p, "shown")
    /\ shows' = [shows EXCEPT ![p] = c]

Hold(p) == Decide(p, "held") /\ UNCHANGED shows

\* Given up by its uploader, or the same photograph as another.
Drop(p) == Decide(p, "gone") /\ UNCHANGED shows

Next ==
    \E p \in Photos :
        \/ Start(p) \/ Hold(p) \/ Drop(p)
        \/ \E c \in Contents : Show(p, c)

Spec == Init /\ [][Next]_vars
=============================================================================
