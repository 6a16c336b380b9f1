---------------------------- MODULE MCToolCalls ----------------------------
EXTENDS ToolCalls, TLC
Both == {"late", "user"}
Symm == Permutations(Call)
=============================================================================
