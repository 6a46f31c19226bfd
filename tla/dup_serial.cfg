CONSTANTS
  c1 = c1
  j1 = j1
  j2 = j2
  j3 = j3
  w1 = w1
  NoJob = NoJob
  Callers = {c1}
  Jobs = {j1,j2,j3}
  Workers = {w1}
  MaxTries = 3
  Events = {}
SPECIFICATION Spec
CHECK_DEADLOCK FALSE
INVARIANTS OneJobPerQuery
