SPECIFICATION Spec
CONSTANTS
    PPM = 100
    IntMax = 1000000
    WidthMinute = 1
    WidthHour = 3
    Monitors = {"m1", "m2", "m3"}
    Components = {"c1", "c2"}
    ComponentOf <- TwoAndOne
    Rollup <- Rules
    UserWeight <- Weights
    Scheduled <- Scheduled_split
    MaintenanceLeadTime = 2
    CoverageFloor = 60
    Objectives <- Objectives_two
    Windows = {"w1"}
    Classes = {"planned_maintenance"}
    Readable <- Readable_three
    RollupLag = 0
    Periods <- Periods_cut
    MaxTime = 3
    MaxReports = 1
INVARIANTS
    FiguresExact
    ReportedStays
    UserFigureExact
    MetHonestly
