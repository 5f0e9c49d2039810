---------------------------- MODULE MCHookInbox ----------------------------
(* Model-checking instance of HookInbox: hooks and records are interchangeable. *)
EXTENDS HookInbox, TLC

Symmetry == Permutations(Hook) \cup Permutations(Record)
=============================================================================
