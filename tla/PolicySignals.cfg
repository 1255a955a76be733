\* Two threads that learn, reinforce and clear; one of them may die.
CONSTANTS
    Threads = {t1, t2}
    Messages <- MCMessages
    Confidences = {72, 84}
    Operations = {"observe", "learn", "reinforce", "clear"}
    MaxRequests = 4
    MaxFailures = 1
    NoSignal = NoSignal
    Nothing = Nothing
    Texts <- MCTexts
    ReadThreshold = 50
    CaptureThreshold = 50
SPECIFICATION Spec
SYMMETRY ThreadSymmetry
INVARIANTS
    TypeOK
    CountedAtMostOnce
    NothingLost
    NeverSurerThanTaught
    StableIsRepeated
PROPERTY
    FeedbackPointsTheRightWay
CHECK_DEADLOCK FALSE
