----------------------------- MODULE MCDatabase -----------------------------
(* Database with symmetric operation and iterator slots. *)
EXTENDS DatabaseSession, TLC

Symmetry == Permutations(Op) \cup Permutations(Iter)
=============================================================================
