---------------------------- MODULE MCTokenStore ----------------------------
(* TokenStore on small instances. *)
EXTENDS TokenStore, TLC

Symmetric == Permutations(Task) \cup Permutations(Token) \cup Permutations(Inode)
=============================================================================
