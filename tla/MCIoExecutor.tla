---------------------------- MODULE MCIoExecutor ----------------------------
EXTENDS IoExecutor
CONSTANTS w1, w2, c1, c2, f1, f2, f3

\* The body of f1 may post f3.
MCPosts == {<<f1, f3>>}
=============================================================================
