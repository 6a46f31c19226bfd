CONSTANTS
  a = a
  b = b
  j1 = j1
  j2 = j2
  Never = Never
  Queries = {1, 2}
  Texts = {a}
  InitialText <- SameText
  Params <- NoneOrLastInvalid
  Interval <- EveryUnit
  Jobs = {j1}
  FailingTexts = {}
  Overflow = 1
  MaxFailures = 2
  MaxAge = 1
  Events = {"Pass", "EditSchedule", "Empty", "Pause", "Malformed"}
SPECIFICATION FairSpec
PROPERTIES ResultsRefreshed PauseStops PastSchedulesGo
