----------------------------- MODULE MCAdapter ------------------------------
(* Adapter on small instances. *)
EXTENDS Adapter, TLC

Symmetric == Permutations(Call) \cup Permutations(Conn) \cup Permutations(Child)
=============================================================================
