SPECIFICATION FairSpec
CONSTANTS
    w1 = w1  w2 = w2
    a = a  b = b  c = c  s1 = s1  s2 = s2  e1 = e1  e2 = e2
    Items = {a, b}
    Sources = {s1, s2}
    Events = {e1, e2}
    SourceOf <- MCSourceOf
    EventOf <- MCEventOf
    Workers = {w1, w2}
    MAX_ATTEMPTS = 2
    MAX_REPRESIGN_ROUNDS = 1
    MAX_FILES_PER_PRESIGN = 2
    MaxSpare <- MCMaxSpare
    Everything = Everything
    NoItem = NoItem
CHECK_DEADLOCK FALSE
INVARIANTS TypeOK DoneMeansStored NoEmptyRowLeft NoSharedWork ExhaustedRests RunNeverStuck
PROPERTIES StoredBytesNotResent PausedTakesNothingUp RunGetsNearer RunEnds
