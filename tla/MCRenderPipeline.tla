--------------------------- MODULE MCRenderPipeline ---------------------------
(* Model checking of RenderPipeline: sizes are interchangeable. *)
EXTENDS RenderPipeline, TLC

Symmetry == Permutations(Extent)
=============================================================================
