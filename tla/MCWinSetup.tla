----------------------------- MODULE MCWinSetup -----------------------------
EXTENDS WinSetup, TLC

CONSTANTS v1, v2, c1, c2

\* Versions and clients are interchangeable.
Symmetric == Permutations({v1, v2}) \cup Permutations({c1, c2})
=============================================================================
