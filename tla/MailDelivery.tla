---------------------------- MODULE MailDelivery ----------------------------
(***************************************************************************)
(* What utils/mailer.c promises its callers: a message that was accepted   *)
(* is kept, whatever becomes of the process, until it is reported sent,    *)
(* with at least one copy delivered, or reported failed, after at least    *)
(* MaxAttempts tries.  It may be delivered more than once, never more      *)
(* often than it was tried.                                                *)
(***************************************************************************)
EXTENDS Naturals

CONSTANTS Mails, MaxAttempts

VARIABLES state,    \* "none", "pending", "sent" or "failed"
          tries,    \* how often a message was taken up for sending
          copies    \* how many copies of it the relay accepted

vars == <<state, tries, copies>>

Init ==
    /\ state = [m \in Mails |-> "none"]
    /\ tries = [m \in Mails |-> 0]
    /\ copies = [m \in Mails |-> 0]

\* A message is accepted; one that is settled gives its place to a new one.
Accept(m) ==
    /\ state[m] # "pending"
    /\ state' = [state EXCEPT ![m] = "pending"]
    /\ tries' = [tries EXCEPT ![m] = 0]
    /\ copies' = [copies EXCEPT ![m] = 0]

Try(m) ==
    /\ state[m] = "pending"
    /\ tries' = [tries EXCEPT ![m] = @ + 1]
    /\ UNCHANGED <<state, copies>>

Deliver(m) ==
    /\ state[m] = "pending"
    /\ copies[m] < tries[m]
    /\ copies' = [copies EXCEPT ![m] = @ + 1]
    /\ UNCHANGED <<state, tries>>

ReportSent(m) ==
    /\ state[m] = "pending"
    /\ copies[m] > 0
    /\ state' = [state EXCEPT ![m] = "sent"]
    /\ UNCHANGED <<tries, copies>>

ReportFailed(m) ==
    /\ state[m] = "pending"
    /\ tries[m] >= MaxAttempts
    /\ state' = [state EXCEPT ![m] = "failed"]
    /\ UNCHANGED <<tries, copies>>

Next == \E m \in Mails : \/ Accept(m) \/ Try(m) \/ Deliver(m)
                         \/ ReportSent(m) \/ ReportFailed(m)

Spec == Init /\ [][Next]_vars
=============================================================================
