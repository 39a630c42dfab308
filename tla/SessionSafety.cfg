SPECIFICATION FairSpec
CONSTANTS
    Modes <- Mode
    ChunkLimit = 3
    TimeoutLimit = 2
    NormLower <- MCNormLower
    NormUpper = 11
    Lower = 0
    Upper = 10
    Margin = 1
    Delta = 2
    Actions <- MCActions
    Malformed = Malformed
    StartPositions <- MCStartPositions
    MaxFaults = 2
    InterruptPoints <- MCGuarded
CHECK_DEADLOCK FALSE
INVARIANTS
    TorqueOffOrReported
    CleanExitAtStart
    ReturnFits
    TravelBounded
PROPERTIES
    MotionEnds
    NoJump
