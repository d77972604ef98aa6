---------------------------- MODULE MCScoreSync ----------------------------
EXTENDS ScoreSync, TLC
CONSTANTS p1, p2, local, r1, r2, r3, c1, c2

\* Earlier runs left p1 a lower score than r1's, and p2 the same.
Scores == (r1 :> 2) @@ (r2 :> 1) @@ (r3 :> 2)
Boards == {<<p1, r2>>, <<p2, r3>>}
=============================================================================
