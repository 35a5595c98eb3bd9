SPECIFICATION Spec

CONSTANTS
    a = a
    b = b
    None = None
    Dirs <- MCDirs
    Defaults <- MCDefaults
    Setups <- MCSetups
    MaxChanges = 3

INVARIANTS
    TypeOK
    RankIsRespected
