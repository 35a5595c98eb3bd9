SPECIFICATION Spec
CONSTANTS
    Requests = {r1, r2}
    Presets <- ThreePresets
    Nothing = Nothing
    Lookalikes = {Other}
    MaxCloses = 1
    MaxCrashes = 1
INVARIANTS
    TypeOK
    TwiceNeedsLostAnswer
    OkMeansDelivered
    ModeIsWhole
    OriginLostNeedsCause
PROPERTIES
    OthersGoOnIfServed
\* All requests may have been served.
CHECK_DEADLOCK FALSE
