----------------------------- MODULE MCSwapMem -----------------------------
EXTENDS SwapMem, TLC
CONSTANTS NAddr, NEntry
MCAddr == 1 .. NAddr
MCEntry == 1 .. NEntry
MCSymmetry == Permutations(Frame)
=============================================================================
