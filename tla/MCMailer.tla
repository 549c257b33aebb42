------------------------------ MODULE MCMailer ------------------------------
(* Small instances of Mailer. *)
EXTENDS Mailer

OneRetry == <<1>>
=============================================================================
