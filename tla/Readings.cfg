SPECIFICATION FairSpec
CONSTANTS
  WidthMinute = 1
  WidthHour = 2
  Monitors <- One
  Interval <- EverySecond
  Offset <- NoOffset
  RollupLag = 0
  PruneLimit = 1
  Outcomes = {"up", "down"}
  MaxTime = 6
  MaxManual = 1
INVARIANTS AccountedFor EdgesExact
PROPERTIES BucketsFinal FoldedInTheEnd
