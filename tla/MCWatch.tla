------------------------------ MODULE MCWatch ------------------------------
(* A small instance of Watch: two records of one tool call, one snapshot.  *)
EXTENDS Watch

CONSTANTS r1, r2, e1

MCKeyOf   == [f \in Finding |-> CASE f \in Record -> "hook" [] f = e1 -> "snapshot"
                                  [] OTHER -> f]
MCKindOf  == [f \in Finding |-> CASE f \in {r1, r2} -> "output" [] f = e1 -> "manifest"
                                  [] f = "coverage" -> "coverage"
                                  [] f = "protection" -> "protection"
                                  [] OTHER -> "hook_coverage"]
MCGroupOf == [f \in Finding |-> CASE f \in Record -> "call" [] f = e1 -> "workspace"
                                  [] f \in {"gap", "unreadable"} -> "inbox" [] OTHER -> f]
MCRankOf  == [f \in Finding |-> CASE f \in Record \cup {"coverage", "protection"} -> 4
                                  [] f = e1 -> 1 [] OTHER -> 3]
MCOrder   == [f \in Finding |-> CASE f = e1 -> 1 [] f = "coverage" -> 2 [] f = "gap" -> 3
                                  [] f = r1 -> 4 [] f = r2 -> 5 [] f = "unreadable" -> 6
                                  [] f = "protection" -> 7]
=============================================================================
