\* One folder, one pin, after a read that failed.
SPECIFICATION BaselinesSpec
CONSTANTS
    Folders = {home}
    Slices = {pinned}
    Damaged = Damaged
    Unread = Unread
    MaxOpens = 1
    MaxChanges = 1
    MaxReads = 1
    MaxFailures = 0
    Races = {"failed"}
PROPERTY DamagedFileStands
CHECK_DEADLOCK FALSE
