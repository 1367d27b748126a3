CONSTANTS
    Slugs = {s1, s2}
    Tasks = {t1, t2, t3, t4}
    Locks = {l1, l2, l3}
    NoLock = NoLock
SPECIFICATION FairSpec
INVARIANTS
    MutualExclusion
    EntriesInUse
PROPERTIES
    IsQueuePerSite
    WaitersAreServed
