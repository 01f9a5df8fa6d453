\* Two tabs where nothing fails and nobody declines; one window whose user does
\* not type beside a publication: what is begun ends.
SPECIFICATION FairProjectSpec
CONSTANTS
    a = a
    b = b
    c = c
    None = None
    Tabs <- TwoTabs
    MaxEdits = 1
    MaxAsks = 1
    MaxOpens = 2
    MaxFailures = 0
    Habits <- LateLocks
    Projects <- TwoProjects
    WindowEdits = 2
    MaxPublishes = 1
    MaxOutside = 0
    WindowFailures = 1
    MaxReplacements = 1
    WindowHabits <- NoHabits
    Windows <- TwoTabs
    Contents <- OneContents
    Unknown = Unknown
    MaxOps = 2
    RecordOutside = 0
    OutsideRaces = TRUE
PROPERTIES ProjectProgresses
CHECK_DEADLOCK FALSE
