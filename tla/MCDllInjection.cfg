SPECIFICATION Spec
CONSTANTS
    Builds = {"dtf", "uv", "dtf82"}
    MaxInj = 3
    MaxPolls = 1
    Misleading = {2}
    MaxDeaths = 1
    Rooms = {1}
INVARIANTS
    TypeOK
    TwiceOnlyIfThreadsMet
    NeverAnEarlierJob
PROPERTIES
    EveryInjectionReturns
    ImplementsContract
\* All injections may have returned and all threads ended.
CHECK_DEADLOCK FALSE
