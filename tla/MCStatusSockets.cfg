SPECIFICATION Spec
CONSTANT Sockets = {s1, s2, s3}
INVARIANTS
    TypeOK
    ListenersAreListed
PROPERTIES
    EveryLoopServesAll
\* An error may have ended every loop.
CHECK_DEADLOCK FALSE
