--------------------------- MODULE MCBindlessFrames ---------------------------
EXTENDS BindlessFrames, TLC
CONSTANTS t1, t2, t3

TextureSymmetry == Permutations(Texture)
=============================================================================
