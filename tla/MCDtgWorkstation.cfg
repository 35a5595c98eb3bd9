SPECIFICATION Spec
CONSTANTS
    a = a
    b = b
    Jobs = {a, b}
    NoWs = NoWs
    Unnamed = Unnamed
    Asked <- AskedValues
    MaxFaults = 1
    MaxRestarts = 1
INVARIANTS
    TypeOK
    LockedOnlyByUnfinished
    WrongPlatenNeedsCompany
    WrongNameNeedsCompany
PROPERTIES
    LockIsReleasedIfServed
\* All jobs may have ended.
CHECK_DEADLOCK FALSE
