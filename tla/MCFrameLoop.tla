----------------------------- MODULE MCFrameLoop -----------------------------
EXTENDS FrameLoop
CONSTANTS i1, i2, i3, i4
=============================================================================
