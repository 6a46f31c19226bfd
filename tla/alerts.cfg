CONSTANTS
  a1 = a1
  w1 = w1
  w2 = w2
  NoRow = NoRow
  Null = Null
  NotYet = NotYet
  Gone = Gone
  NotLoaded = NotLoaded
  Never = Never
  Alerts = {a1}
  Workers = {w1, w2}
  Numbers = {0, 1}
  Options <- SomeOptions
  Rearm = 0
  MaxPending = 1
SPECIFICATION Spec
SYMMETRY Symmetry
INVARIANTS StateIsCurrent SubscribersKnow
PROPERTY RepeatsOnlyRearmed
