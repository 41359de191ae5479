CONSTANTS
  p1 = p1
  p2 = p2
  picture = picture
  None = None
  Photos <- MCPhotos
  Contents <- MCContents
  Hash <- MCHash
  Asked = {q1}
  Hosts = {h1, h2}
  Reporters = {s1}
  Incidents = {i1}
  Together = 1
  Faulty = FALSE
SPECIFICATION Spec
SYMMETRY Symmetry
CHECK_DEADLOCK FALSE
INVARIANT
  LinksFollowRows
