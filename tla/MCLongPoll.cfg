SPECIFICATION Spec
CONSTANTS
    Polls = {p1, p2}
    Jobs = {j1, j2}
    Nobody = Nobody
    PoolSize = 2
    Rounds = 2
INVARIANTS
    TypeOK
    SleepsOnlyIfMissed
PROPERTIES
    NobodyWaitsForEver
