\* A clear under a running consolidation.
CONSTANTS
    Threads = {t1, t2}
    Contents = {like}
    like = like
    avoid = avoid
    revoke = revoke
    weather = weather
    pick = pick
    wording = wording
    deciding = deciding
    Keys <- MCKeys
    NoKey = NoKey
    Claim <- MCClaim
    Similar <- MCSimilar
    Opposed <- MCOpposed
    CreatedAt <- MCCreatedAt
    RecentLimit = 2
    Threshold = 2
    EvidenceWindow = 2
    Operations = {"remember", "clear", "consolidate"}
    MaxRequests = 2
    MaxFailures = 0
    Absent = Absent
    NoTrait = NoTrait
SPECIFICATION Spec
INVARIANT TraitsBackedByEvidence
CHECK_DEADLOCK FALSE
