CONSTANTS
  NoDay = NoDay
  Minute = 2
  Minutes = 3
  Intervals = {7}
  WeekDays = {1}
  Slots = {2}
  PollEvery = 2
  MaxWait = 1
  Horizon = 130
SPECIFICATION Spec
PROPERTY DueOnWeekDay
