--------------------------- MODULE MCServerTable ---------------------------
(* Server without TLS: every kind of client of the one plain listener. *)
EXTENDS Server

PlainKinds == {k \in Kind : ~k.tls}
=============================================================================
