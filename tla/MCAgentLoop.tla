---------------------------- MODULE MCAgentLoop ----------------------------
EXTENDS AgentLoop, TLC
RunSymmetry == Permutations(Runs)
=============================================================================
