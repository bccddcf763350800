SPECIFICATION Spec
CONSTANTS
  DayHours = 2
  HourMinutes = 2
  WeekDays = 3
  MonthDays = 3
  MonthStart <- Starts
  LastDay = 14
  Exprs <- Expressions
  Depth <- Nesting
  Nil = Nil
INVARIANTS TypeOK CheckMeansSchedule
