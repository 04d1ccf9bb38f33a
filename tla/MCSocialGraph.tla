--------------------------- MODULE MCSocialGraph ---------------------------
EXTENDS SocialGraph, TLC

MCSymmetry == Permutations(Users) \cup Permutations(Workers)
=============================================================================
