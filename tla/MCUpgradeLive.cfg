SPECIFICATION FairSpec
CONSTANTS
    A = A
    B = B
    Relays = {0}
    Dialers = {A, B}
    MaxTasks = 3
    INBOX_CAP = 4
PROPERTIES SessionsEnd UpgradeCompletes
CHECK_DEADLOCK FALSE
