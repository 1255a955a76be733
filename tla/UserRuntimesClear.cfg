\* A runtime that has lost the index clears the memory.
CONSTANTS
    t1 = t1
    t2 = t2
    t3 = t3
    s1 = s1
    s2 = s2
    m1 = m1
    m2 = m2
    x1 = x1
    x2 = x2
    Users = {alice, bob}
    Servers = {s1, s2}
    Threads = {t1, t2, t3}
    ServerOf <- MCServerOf
    Runtimes = {r1, r2, r3}
    Memories = {m1, m2}
    Texts = {x1, x2}
    Queries <- MCQueries
    MaxCached = 1
    SearchLimit = 1
    FtsBuiltIn = TRUE
    Earlier <- MCEarlier
    MaxRequests = 3
    MaxErrors = 1
    NoOwner = NoOwner
    NoRuntime = NoRuntime
    NoText = NoText
    Nothing = Nothing
SYMMETRY MCSymmetry
SPECIFICATION Spec
INVARIANTS
    ClearLeavesNothing
CHECK_DEADLOCK FALSE
