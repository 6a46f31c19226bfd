CONSTANTS
  p1 = p1
  p2 = p2
  r1 = r1
  r2 = r2
  r3 = r3
  name = name
  filters = filters
  NoRequest = NoRequest
  Pages = {p1, p2}
  Requests = {r1, r2, r3}
  Fields = {name, filters}
  Kinds = {"query", "dashboard"}
SYMMETRY Symmetry
SPECIFICATION Spec
INVARIANTS VersionNamesContent
PROPERTIES NoBlindDashboard ConflictsAreReal
