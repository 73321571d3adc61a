------------------------------ MODULE MCHolder ------------------------------
EXTENDS HolderSession, TLC
CONSTANTS c1, c2, c3, usb, bt, x360
ConnSymmetry == Permutations(Conns)
=============================================================================
