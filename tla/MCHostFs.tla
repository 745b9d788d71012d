------------------------------ MODULE MCHostFs ------------------------------
EXTENDS HostFs, TLC

NameSymmetry == Permutations(Names)
=============================================================================
