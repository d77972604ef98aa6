CONSTANTS
    w1 = w1  w2 = w2  c1 = c1  c2 = c2  f1 = f1  f2 = f2  f3 = f3
    None = None
    Worker = {w1, w2}
    Client = {c1, c2}
    Work = {f1, f2, f3}
    Capacity = 1
    Posts <- MCPosts
SPECIFICATION FairSpec
PROPERTIES AcceptedRuns PostReturns DestructorReturns
CHECK_DEADLOCK FALSE
