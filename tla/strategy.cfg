SPECIFICATION Spec
CONSTANTS
    Orb <- Strict
    Gap = 60
    Freq = 20
    Days <- OneDay
    Shapes <- FewShapes
INVARIANT
    SessionLimit
PROPERTIES
    RangeOfThisSession
    RestartRestores
