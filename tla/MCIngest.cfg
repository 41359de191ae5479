CONSTANTS
    p1 = p1
    p2 = p2
    r1 = r1
    r2 = r2
    good = good
    bad = bad
    broken = broken
    None = None
    Photos <- TwoPhotos
    Contents <- TwoContents
    Bad <- Matched
    Undecodable = {}
    Requests <- OneRequest
    Limit = 2
    Prompt = TRUE
SPECIFICATION Spec
SYMMETRY PhotoSymmetry
INVARIANT TypeOK
INVARIANT ShownOnce
INVARIANT ShownIsServable
INVARIANT FinalKeysAreScreened
PROPERTY ImplementsAlbum
PROPERTY JobsDecide
CHECK_DEADLOCK FALSE
