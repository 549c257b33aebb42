------------------------------ MODULE MCIpTable ------------------------------
(* Small instances of IpTable. *)
EXTENDS IpTable, TLC

\* Addresses and threads are interchangeable: no action orders them.
Symmetry == Permutations(Ips) \cup Permutations(Callers)
=============================================================================
