SPECIFICATION Spec
CONSTANTS
    MaxAttempts = 5
INVARIANTS
    TypeOK
PROPERTIES
    HeartbeatIfDispatchYields
    IdIsUsedIfDispatchYields
