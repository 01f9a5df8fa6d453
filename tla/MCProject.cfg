\* Two tabs with a handover, a failure, a tab that closes or declines the role;
\* one window with a publication, a replacement, a failure, an outside change.
SPECIFICATION ProjectSpec
CONSTANTS
    a = a
    b = b
    c = c
    None = None
    Tabs <- TwoTabs
    MaxEdits = 2
    MaxAsks = 1
    MaxOpens = 2
    MaxFailures = 1
    Habits <- Mixed
    Projects <- TwoProjects
    WindowEdits = 2
    MaxPublishes = 1
    MaxOutside = 1
    WindowFailures = 1
    MaxReplacements = 2
    WindowHabits <- Types
    Windows <- TwoTabs
    Contents <- OneContents
    Unknown = Unknown
    MaxOps = 0
    RecordOutside = 0
    OutsideRaces = TRUE
SYMMETRY TabsAlike
INVARIANTS TabsTellTheTruth WindowTellsTheTruth
PROPERTIES EditsKept
CHECK_DEADLOCK FALSE
