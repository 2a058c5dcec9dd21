------------------------------ MODULE MCSessions ------------------------------
\* TLC instance of Sessions.
EXTENDS Sessions, TLC

\* No action distinguishes two ids, two sessions or two requests.
Symmetry == Permutations(Ids) \cup Permutations(Sessions) \cup Permutations(Requests)
=============================================================================
