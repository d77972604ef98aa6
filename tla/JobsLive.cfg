CONSTANTS
    None = None  Main = Main  Idle = Idle
    c1 = c1  c2 = c2  w1 = w1  w2 = w2  j1 = j1  j2 = j2  r1 = r1  b1 = b1
    Worker = {w1, w2}
    Client = {c1}
    Job = {j1, j2}
    Raw = {}
    Barrier = {}
    TierOf <- AllCompute
    MaxDeps = 1
    Limit = 1
    JobWaits <- MCJobWaits
    Budgets <- MCBudgets
    StoreBuffer = FALSE
SPECIFICATION FairSpec
INVARIANT NoLostJob
PROPERTIES  ConfigureReturns
CHECK_DEADLOCK FALSE
