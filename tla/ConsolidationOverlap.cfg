\* Two overlapping consolidations of one statement.
CONSTANTS
    Threads = {t1, t2}
    Contents = {like}
    like = like
    avoid = avoid
    revoke = revoke
    weather = weather
    pick = pick
    wording = wording
    deciding = deciding
    Keys <- MCKeys
    NoKey = NoKey
    Claim <- MCClaim
    Similar <- MCSimilar
    Opposed <- MCOpposed
    CreatedAt <- MCCreatedAt
    RecentLimit = 2
    Threshold = 2
    EvidenceWindow = 2
    Operations = {"remember", "consolidate"}
    MaxRequests = 1
    MaxFailures = 0
    Absent = Absent
    NoTrait = NoTrait
SPECIFICATION Spec
INVARIANT RaisedOnlyByRepetition
CHECK_DEADLOCK FALSE
