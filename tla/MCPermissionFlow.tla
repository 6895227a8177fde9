-------------------------- MODULE MCPermissionFlow --------------------------
EXTENDS PermissionFlow, TLC

Symmetry == Permutations(Req) \cup Permutations(Tab)
=============================================================================
