--------------------------- MODULE MCScheduleTimes ---------------------------
EXTENDS ScheduleTimes

DailyOrWeekly == {0, 3, NoDay}
AnyTime == 0 .. Minutes - 1
==============================================================================
