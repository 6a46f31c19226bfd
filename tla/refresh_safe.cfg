CONSTANTS
  a = a
  b = b
  j1 = j1
  j2 = j2
  Never = Never
  Queries = {1, 2}
  Texts = {a, b}
  InitialText <- SameText
  Params <- LastInvalid
  Interval <- EveryUnit
  Jobs = {j1, j2}
  FailingTexts = {a}
  Overflow = 1
  MaxFailures = 1
  MaxAge = 1
  Events = {"RunManually", "EditText", "LockLoss"}
SPECIFICATION Spec
SYMMETRY JobSymmetry
PROPERTY ThirdStartWaits
