\* Four memories of two types, three traits; two writes of other threads.
CONSTANTS
    m1 = m1
    m2 = m2
    m3 = m3
    m4 = m4
    p1 = p1
    p2 = p2
    p3 = p3
    Memories = {m1, m2, m3, m4}
    Types = {"project", "style"}
    TypeOf <- MCTypeOf
    Length <- MCLength
    TextOf <- MCTextOf
    TypeLimit <- MCTypeLimit
    Traits = {p1, p2, p3}
    Profile <- MCProfile
    MaxStability = 2
    ProfileLimit = 1
    StableLimit = 2
    Requests <- MCRequests
    Multiplier = 1
    Header = 1
    Line = 1
    Reserve = 4
    Mark = 1
    MaxWrites = 2
    Nothing = Nothing
SPECIFICATION Spec
INVARIANTS
    TypeOK
    WithinBudget
    NothingMoreFits
    RankRespected
    IntentRespected
    PackageFits
PROPERTIES
    ProfileIsMostStable
CHECK_DEADLOCK FALSE
