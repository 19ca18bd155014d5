SPECIFICATION Spec
CONSTANTS
    s1 = s1
    s2 = s2
    NoSender = NoSender
    Lines = {1, 2, 3}
    Bad = {2}
    Senders = {s1, s2}
    Batch = 2
    MaxFaults = 2
INVARIANTS
    TypeOK
    LocksGuardRows
PROPERTIES
    KeepsDeclaration
    EveryLineCloses
