\* One user who complains twice.
CONSTANTS
    Threads = {t1}
    Messages <- MCMessages
    Confidences = {72, 90}
    Operations = {"observe"}
    MaxRequests = 2
    MaxFailures = 0
    NoSignal = NoSignal
    Nothing = Nothing
    Texts <- MCTexts
    ReadThreshold = 50
    CaptureThreshold = 50
SPECIFICATION Spec
INVARIANT ComplaintsNeverStrengthen
CHECK_DEADLOCK FALSE
