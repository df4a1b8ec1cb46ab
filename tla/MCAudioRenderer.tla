--------------------------- MODULE MCAudioRenderer ---------------------------
EXTENDS AudioRendererInv, TLC

FormatSymmetry == Permutations(Format)
=============================================================================
