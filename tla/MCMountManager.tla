--------------------------- MODULE MCMountManager ---------------------------
(* Model-checking instance of MountManager: users and shares are interchangeable. *)
EXTENDS MountManager, TLC

Symmetry == Permutations(Users) \cup Permutations(Sources)
=============================================================================
