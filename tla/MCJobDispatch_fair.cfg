SPECIFICATION FairSpec
CONSTANTS
    Agents = {a1}
    Jobs = {j1, j2}
    NoPrinter = NoPrinter
    NoJob = NoJob
    Types = {"dtf"}
    AgentType <- OneType
    MaxLost = 1
    MaxCrashes = 1
    MaxCancels = 0
CHECK_DEADLOCK FALSE
INVARIANTS
    FirstComeFirstServed
PROPERTIES
    EveryJobCloses
