\* Two Saves, edits and a discard between any two steps, a store operation
\* that fails and is tried again, a window that dies at any step.
SPECIFICATION MCSpec
CONSTANTS
    None = None
    Contents <- TwoContents
    MaxSaves = 2
    MaxEdits = 2
    MaxFailures = 1
    MaxTrouble = 2
INVARIANTS RecordsLeadOn NoLostEdit
PROPERTIES PublishedOnce PublicationEnds
CHECK_DEADLOCK FALSE
