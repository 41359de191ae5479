SPECIFICATION Spec
CONSTANTS
    a = a  b = b  c = c  s1 = s1  s2 = s2  e1 = e1  e2 = e2
    w1 = w1  w2 = w2
    Items = {a}
    Sources = {s1}
    Events = {e1}
    SourceOf <- MCSourceOf
    EventOf <- MCEventOf
    Workers = {w1}
    MAX_ATTEMPTS = 4
    MAX_REPRESIGN_ROUNDS = 2
    MAX_FILES_PER_PRESIGN = 50
    MaxSpare <- MCMaxSpare
    Everything = Everything
    NoItem = NoItem
CHECK_DEADLOCK FALSE
INVARIANT RetriesRunOut
