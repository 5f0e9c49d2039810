------------------------------ MODULE MCSetup ------------------------------
(* Model-checking instance of Setup: the processes are interchangeable.        *)
EXTENDS Setup, TLC

CONSTANT x1
Symmetry == Permutations(Proc)
=============================================================================
