--------------------------- MODULE MCJobScheduler ---------------------------
EXTENDS JobInvariant, TLC
CONSTANTS c1, c2, w1, w2, j1, j2, r1, b1

AllCompute == [i \in Item |-> 1]

\* The body of j1 may wait for j2.
MCJobWaits == {<<j1, j2>>}
MCNoWaits == {}

\* A chain of waits, with one raw item before it: EveryReadyJobFinishes fails.
MCWaitChain == {<<r1, j1>>, <<j1, j2>>}

\* Sizes Configure may choose.
MCBudgets == {{w1}, {w1, w2}}
MCNoBudgets == {}

\* Workers are created together and only ever named by quantifiers.
WorkerSymmetry == Permutations(Worker)
=============================================================================
