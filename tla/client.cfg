CONSTANTS
  w1 = w1
  w2 = w2
  p = p
  q = q
  MaxExecutions = 2
  MaxTryCount = 1
  MaxEdits = 2
  MaxInFlight = 2
  Widgets = {w1, w2}
  MappedWidgets = {w1}
  ParamValues = {p, q}
  MaxLoads = 2
  GridWidgets = {w1, w2}
  Positions = {p, q}
  MaxMoves = 2
  HeightWidgets = {w1, w2}
  MaxCharts = 3
  MaxSeconds = 2
  MaxSaves = 1
  MaxOperations = 5
  MaxItems = 3
  PageSizes = {1, 2}
  MaxFetches = 3
  AlertQueries = {p, q}
  MaxAlertEdits = 1
  MaxAlertRequests = 2
  ParamNames = {w1, w2}
  Entries = {p}
  Tables = {w1, w2, p}
  MaxConditions = 2
  MaxDatasetRequests = 2
SPECIFICATION ClientSpec
CHECK_DEADLOCK FALSE
INVARIANTS ClientTypeOK OnlyTheLastIsShown CleanMeansSaved SpinnersAreBacked ParameterIsShown
  HeightsAreWatched SettingsHaveCharts ShownIsAsked PageInRange AlertIsAsStored ColumnIsOfQuery ParametersAgree
  GraphIsJoined
PROPERTIES ExecutionsEnd DoneIsHeard NewChartIsOnTop
