---------------------------- MODULE MCRaftCluster ----------------------------
\* Small clusters: one namespace, every write to it.
EXTENDS RaftCluster, TLC

CONSTANTS ns, w1, w2

MCNsOf == [w \in Write |-> ns]

WriteSymmetry == Permutations(Write)
=============================================================================
