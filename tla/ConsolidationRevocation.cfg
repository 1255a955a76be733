\* A revocation that reads like a restatement of what it revokes.
CONSTANTS
    Threads = {t1}
    Contents = {like, revoke}
    like = like
    avoid = avoid
    revoke = revoke
    weather = weather
    pick = pick
    wording = wording
    deciding = deciding
    Keys <- MCKeys
    NoKey = NoKey
    Claim <- MCClaim
    Similar <- MCSimilarRevocation
    Opposed <- MCOpposed
    CreatedAt <- MCCreatedAt
    RecentLimit = 2
    Threshold = 2
    EvidenceWindow = 2
    Operations = {"capture", "consolidate"}
    MaxRequests = 2
    MaxFailures = 0
    Absent = Absent
    NoTrait = NoTrait
SPECIFICATION Spec
INVARIANT RevocationReachesProfile
CHECK_DEADLOCK FALSE
