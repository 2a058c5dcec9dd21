---------------------------- MODULE MCBrowserPool ----------------------------
(* Instances of BrowserPool for TLC. *)
EXTENDS BrowserPool, TLC

Symmetry == Permutations(Browsers) \cup Permutations(Requests)
=============================================================================
