CONSTANTS
    None = None
    w1 = w1  w2 = w2  c1 = c1  c2 = c2  l1 = l1  l2 = l2  l3 = l3  l4 = l4
    Worker = {w1, w2}
    Client = {c1}
    Loop = {l1, l2, l3, l4}
    Count <- MCCount
    Inner <- MCInner
    MayThrow <- MCMayThrow
SPECIFICATION FairSpec
INVARIANTS NoCopyOutlivesCall EachIndexOnce ErrorReported
PROPERTY CallReturns
CHECK_DEADLOCK FALSE
