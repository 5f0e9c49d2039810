---------------------------- MODULE MCHookConfig ----------------------------
(* Model-checking instance of HookConfig: processes, events and programs are   *)
(* interchangeable.                                                            *)
EXTENDS HookConfig, TLC

Symmetry == Permutations(Proc) \cup Permutations(Event) \cup Permutations(Program)
=============================================================================
