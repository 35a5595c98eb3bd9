SPECIFICATION Spec
CONSTANTS
    Requests = {r1, r2}
    Presets <- ThreePresets
    Nothing = Nothing
    Lookalikes = {}
    MaxCloses = 1
    MaxCrashes = 0
PROPERTIES
    FollowsTheWindow
CHECK_DEADLOCK FALSE
