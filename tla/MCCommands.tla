----------------------------- MODULE MCCommands -----------------------------
EXTENDS Commands, TLC

CONSTANTS k1, k2, s1, s2, p1, p2

MCKeys == {k1, k2}
MCSessions == {s1, s2}
MCProfiles == {p1, p2}
MCSymmetry == Permutations(MCKeys) \cup Permutations(MCSessions) \cup Permutations(MCProfiles)
=============================================================================
