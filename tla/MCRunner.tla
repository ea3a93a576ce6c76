------------------------------ MODULE MCRunner ------------------------------
(* Model-checking instance of Runner: clients and run ids are interchangeable. *)
EXTENDS Runner, TLC

Symmetry == Permutations(Clients) \cup Permutations(Runs)
=============================================================================
