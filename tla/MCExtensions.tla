---------------------------- MODULE MCExtensions ----------------------------
(* Small instances of Extensions. *)
EXTENDS Extensions

AnyDir == {"absent", "good", "bad"}
=============================================================================
