CONSTANTS
  c1 = c1
  c2 = c2
  j1 = j1
  j2 = j2
  w1 = w1
  NoJob = NoJob
  Callers = {c1, c2}
  Jobs = {j1, j2}
  Workers = {w1}
  MaxTries = 2
  Events = {"LockExpiry", "JobExpiry", "Cancel", "Timeout"}
SPECIFICATION Spec
CHECK_DEADLOCK FALSE
SYMMETRY Symmetry
INVARIANTS TypeOK CallerGetsAJob NoJobLost ResultsAreCommitted
PROPERTY NoTakeover
