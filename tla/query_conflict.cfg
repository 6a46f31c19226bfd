CONSTANTS
  p1 = p1
  p2 = p2
  r1 = r1
  r2 = r2
  name = name
  filters = filters
  NoRequest = NoRequest
  Pages = {p1, p2}
  Requests = {r1, r2}
  Fields = {name, filters}
  Kinds = {"query"}
SPECIFICATION Spec
PROPERTIES NoBlindOverwrite
