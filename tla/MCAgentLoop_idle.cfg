SPECIFICATION Spec
CONSTANTS
    MaxAttempts = 5
PROPERTIES
    HeartbeatGoesOn
