SPECIFICATION Spec
CONSTANTS
  WidthMinute = 1
  WidthHour = 2
  Monitors <- One
  Interval <- EverySecond
  Offset <- NoOffset
  RollupLag = 1
  PruneLimit = 2
  Outcomes = {"up", "down"}
  MaxTime = 10
  MaxManual = 0
INVARIANTS DowntimeReported
