CONSTANTS
  NoDay = NoDay
  Minute = 2
  Minutes = 3
  Intervals = {1, 3, 7}
  WeekDays <- DailyOrWeekly
  Slots <- AnyTime
  PollEvery = 2
  MaxWait = 1
  Horizon = 130
SPECIFICATION Spec
INVARIANT NotTooLate
PROPERTIES NotTooEarly LateRunsKeepWeekDay
