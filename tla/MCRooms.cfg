CONSTANTS
  p1 = p1
  p2 = p2
  p3 = p3
  Nobody = Nobody
  People <- MCPeople
  Reqs = {r1, r2}
  MaxPresses = 3
SPECIFICATION Spec
CHECK_DEADLOCK FALSE
INVARIANTS
  TypeOK
  RemovalTakesRight
PROPERTIES
  NobodyWalksIn
  RollIsPassedOn
  RoomIsMended
  OnlyRacesOrphan
