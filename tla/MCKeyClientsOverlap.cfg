SPECIFICATION SafeSpec
CONSTANTS
    key1 = key1
    key2 = key2
    s1 = s1
    s2 = s2
    Keys = {key1, key2}
    Refused <- MCRefused
    MaxTime = 4
    MaxFaults = 2
    Senders = {s1, s2}
INVARIANTS
    SyncedIsHeld
\* Once every change has been made and declared nothing is left to do.
CHECK_DEADLOCK FALSE
