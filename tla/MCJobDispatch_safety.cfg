SPECIFICATION Spec
CONSTANTS
    Agents = {a1, a2}
    Jobs = {j1}
    NoPrinter = NoPrinter
    NoJob = NoJob
    Types = {"dtf"}
    AgentType <- OneType
    MaxLost = 2
    MaxCrashes = 0
    MaxCancels = 1
SYMMETRY Symmetry
CHECK_DEADLOCK FALSE
INVARIANTS
    TypeOK
    SentMeansSuccess
    ReinjectionIsPaidFor
    StuckOnlyAfterAFault
PROPERTIES
    CancelSticks
    ImplementsLifecycle
