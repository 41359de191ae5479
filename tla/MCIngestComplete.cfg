CONSTANTS
    p1 = p1
    p2 = p2
    r1 = r1
    r2 = r2
    good = good
    bad = bad
    broken = broken
    None = None
    Photos <- OnePhoto
    Contents <- OneContent
    Bad = {}
    Undecodable = {}
    Requests <- OneRequest
    Limit = 1
    Prompt = FALSE
SPECIFICATION Spec
PROPERTY CompleteAgainIsSafe
CHECK_DEADLOCK FALSE
