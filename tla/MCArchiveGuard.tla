---------------------------- MODULE MCArchiveGuard ----------------------------
(* Model-checking instance of ArchiveGuard: artifacts belong to workspace w1. *)
EXTENDS ArchiveGuard

CONSTANT w1
MCWorkspaceOf == [a \in Artifact |-> w1]
=============================================================================
