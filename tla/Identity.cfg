\* Two threads, two users, three keys; one request may die.
CONSTANTS
    Users = {alice, bob}
    Keys = {k1, k2, k3}
    Threads = {t1, t2}
    ScopeSets <- MCScopeSets
    Lifetimes = {1, 2}
    Bootstrap = TRUE
    MaxTime = 1
    MaxRequests = 4
    MaxFailures = 1
    NoKey = NoKey
    Nobody = Nobody
    Nothing = Nothing
SYMMETRY MCSymmetry
SPECIFICATION Spec
INVARIANTS
    TypeOK
    GrantedScopesOnly
    EffectsEntitled
    EffectsAudited
PROPERTIES
    DeadKeysStaySilent
CHECK_DEADLOCK FALSE
