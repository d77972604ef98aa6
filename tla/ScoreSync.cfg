CONSTANTS
    p1 = p1  p2 = p2  local = local  r1 = r1  r2 = r2  r3 = r3  c1 = c1  c2 = c2
    None = None
    Players = {p1, p2}
    Local = local
    First = {p1}
    Runs = {r1, r2, r3}
    ScoreOf <- Scores
    MaxScores = 1
    Hidden = {}
    Earlier <- Boards
    Conns = {c1, c2}
    MaxAttempts = 2
    MaxEpochs = 1
    MaxSwitches = 1
SPECIFICATION FairSpec
INVARIANTS CreditFollowsProfile AcceptedOnce AckedIsKept
PROPERTY EveryRequestEnds
CHECK_DEADLOCK FALSE
