\* One thread, no failure: the ledger, and what must happen in the end.
CONSTANTS
    Threads = {t1}
    Contents = {like, avoid, revoke, weather, pick}
    like = like
    avoid = avoid
    revoke = revoke
    weather = weather
    pick = pick
    wording = wording
    deciding = deciding
    Keys <- MCKeys
    NoKey = NoKey
    Claim <- MCClaim
    Similar <- MCSimilar
    Opposed <- MCOpposed
    CreatedAt <- MCCreatedAt
    RecentLimit = 2
    Threshold = 2
    EvidenceWindow = 2
    Operations = {"capture", "choice", "clear", "consolidate"}
    MaxRequests = 4
    MaxFailures = 0
    Absent = Absent
    NoTrait = NoTrait
SPECIFICATION FairSpec
INVARIANT TypeOK
PROPERTIES RefinesLedger CandidatesConsolidated
CHECK_DEADLOCK FALSE
