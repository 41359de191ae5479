CONSTANTS
    p1 = p1
    p2 = p2
    r1 = r1
    r2 = r2
    good = good
    bad = bad
    broken = broken
    None = None
    Photos <- OnePhoto
    Contents <- BadAndBroken
    Bad <- Matched
    Undecodable <- Broken
    Requests <- TwoRequests
    Limit = 1
    Prompt = FALSE
SPECIFICATION Spec
SYMMETRY RequestSymmetry
INVARIANT ShownWasScanned
INVARIANT MatchedStaysHidden
INVARIANT EvidenceFirst
PROPERTY MatchLostOnlyByDeath
CHECK_DEADLOCK FALSE
