CONSTANTS
    p1 = p1
    p2 = p2
    r1 = r1
    r2 = r2
    good = good
    bad = bad
    broken = broken
    None = None
    Photos <- OnePhoto
    Contents <- TwoContents
    Bad <- Matched
    Undecodable = {}
    Requests <- OneRequest
    Limit = 1
    Prompt = TRUE
SPECIFICATION Spec
INVARIANT MatchIsRecorded
CHECK_DEADLOCK FALSE
