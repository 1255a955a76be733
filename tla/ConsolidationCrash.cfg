\* A consolidation that dies after it has stored its evidence.
CONSTANTS
    Threads = {t1}
    Contents = {like}
    like = like
    avoid = avoid
    revoke = revoke
    weather = weather
    pick = pick
    wording = wording
    deciding = deciding
    Keys <- MCKeys
    NoKey = NoKey
    Claim <- MCClaim
    Similar <- MCSimilar
    Opposed <- MCOpposed
    CreatedAt <- MCCreatedAt
    RecentLimit = 2
    Threshold = 2
    EvidenceWindow = 2
    Operations = {"remember", "consolidate"}
    MaxRequests = 1
    MaxFailures = 1
    Absent = Absent
    NoTrait = NoTrait
SPECIFICATION Spec
INVARIANT EvidenceReachesTrait
CHECK_DEADLOCK FALSE
