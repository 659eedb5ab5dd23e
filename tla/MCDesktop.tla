------------------------------ MODULE MCDesktop ------------------------------
(* Instances of the desktop app for TLC; threads and credentials are alike. *)
EXTENDS Desktop, TLC

Symmetric == Permutations(Pool) \cup Permutations(Keys)
=============================================================================
