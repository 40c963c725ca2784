---------------------------- MODULE MCIpLearning ----------------------------
EXTENDS IpLearning, TLC

MCSymmetry == Permutations(Users) \cup Permutations(States)

=============================================================================
