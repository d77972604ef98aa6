---------------------------- MODULE MCParallelFor ----------------------------
EXTENDS ParallelFor, TLC
CONSTANTS w1, w2, c1, c2, l1, l2, l3, l4

MCCount == (l1 :> 2 @@ l2 :> 2 @@ l3 :> 1 @@ l4 :> 0)
\* Index 0 of l1 runs l2, index 1 l3, which has a single index and stays
\* serial; l4 is empty.
MCInner == (l1 :> (0 :> l2 @@ 1 :> l3) @@ l2 :> (0 :> None @@ 1 :> None)
            @@ l3 :> (0 :> None) @@ l4 :> [i \in {} |-> None])
MCMayThrow == {<<l1, 1>>, <<l2, 0>>, <<l3, 0>>}
==============================================================================
