CONSTANTS
    p1 = p1
    p2 = p2
    r1 = r1
    r2 = r2
    good = good
    bad = bad
    broken = broken
    None = None
    Photos <- TwoPhotos
    Contents <- OneContent
    Bad = {}
    Undecodable = {}
    Requests <- OneRequest
    Limit = 1
    Prompt = TRUE
SPECIFICATION FairSpec
PROPERTY Settles
CHECK_DEADLOCK FALSE
