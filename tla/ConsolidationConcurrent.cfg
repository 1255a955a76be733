\* Two threads, one of which may die; nobody clears.
CONSTANTS
    Threads = {t1, t2}
    Contents = {like, pick}
    like = like
    avoid = avoid
    revoke = revoke
    weather = weather
    pick = pick
    wording = wording
    deciding = deciding
    Keys <- MCKeys
    NoKey = NoKey
    Claim <- MCClaim
    Similar <- MCSimilar
    Opposed <- MCOpposed
    CreatedAt <- MCCreatedAt
    RecentLimit = 2
    Threshold = 2
    EvidenceWindow = 2
    Operations = {"remember", "choice", "consolidate"}
    MaxRequests = 3
    MaxFailures = 1
    Absent = Absent
    NoTrait = NoTrait
SPECIFICATION Spec
SYMMETRY ThreadSymmetry
INVARIANTS
    TraitsBackedByEvidence
    MarkedHasEvidence
    CountWithinEvidence
    EvidencedKeysHaveTraits
CHECK_DEADLOCK FALSE
