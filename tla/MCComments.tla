----------------------------- MODULE MCComments -----------------------------
(* Small instances of Comments. *)
EXTENDS Comments, TLC

Symmetry == Permutations(Threads) \cup Permutations(Nonces) \cup Permutations(Emails \ {AuthorEmail})
=============================================================================
