\* Two windows of one host, a program that ignores the scope; an upgrade of a
\* folder with selections and a draft, a write that fails, a crash, two edits;
\* pages that open a folder, another and one of them again, and pin twice, also
\* while a pin is on its way or after a read that failed.
SPECIFICATION FilesSpec
CONSTANTS
    w1 = w1
    w2 = w2
    c1 = c1
    c2 = c2
    None = None
    Unknown = Unknown
    Windows <- TwoWindows
    Contents <- TwoContents
    MaxOps = 3
    MaxOutside = 1
    OutsideRaces = FALSE
    Drafts <- OneDraft
    MaxEdits = 2
    MaxFailures = 1
    MaxCrashes = 1
    Folders <- TwoFolders
    Slices <- TwoContents
    Damaged = Damaged
    Unread = Unread
    MaxOpens = 3
    MaxChanges = 2
    MaxReads = 2
    PinFailures = 1
    Races = {"failed", "hasty"}
SYMMETRY Symmetric
INVARIANTS StoreSafe FilesKeepWork
PROPERTIES WritesAreFounded FilesKeepFaith
CHECK_DEADLOCK FALSE
