CONSTANTS
    t1 = t1  t2 = t2  None = None
    Caller = {t1, t2}
    Main = t1
    MaxTasks = 4
    DepLists <- MCLists
    MayThrow = {1, 3}
    Modulus = 8
    PartialAdds = FALSE
    Followed <- MCFollowed
SPECIFICATION EngineFairSpec
INVARIANTS StartsAfterDependencies RunEndsLast OwnersOutlive ReloadsAlive
PROPERTY RunReturns
CHECK_DEADLOCK FALSE
