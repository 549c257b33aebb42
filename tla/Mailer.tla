------------------------------- MODULE Mailer -------------------------------
(***************************************************************************)
(* utils/mailer.c: the collection mail_queue, request handlers that add    *)
(* messages to it, the one sender thread that claims, sends and settles    *)
(* them, mailer_start() and mailer_stop() called by main(), and crashes    *)
(* and restarts of the process, which the collection survives.             *)
(*                                                                         *)
(* Time is left abstract: a message that is to be retried later comes due  *)
(* at some moment (ComeDue), and the 30 s of the sender's wait may be over *)
(* at any moment.                                                          *)
(***************************************************************************)
EXTENDS Naturals, Sequences

CONSTANTS Mails,          \* documents of mail_queue; a settled one may stand
                          \* for a later message
          RetryMinutes,   \* RETRY_MINUTES
          MaxFaults       \* bound on crashes and database errors

ASSUME MailerAssumption ==
    /\ RetryMinutes \in Seq(Nat \ {0})
    /\ MaxFaults \in Nat

MaxAttempts == Len(RetryMinutes) + 1

NoMail == "no mail"
ASSUME NoMailAssumption == NoMail \notin Mails

VARIABLES
    mail,       \* the documents: status, attempts, and wait, the minutes from
                \* the last failure to next_attempt_at, 0 once that is past
    order,      \* the messages whose next_attempt_at is past, oldest first,
                \* queued or being sent
    unsignalled,\* messages inserted by a handler that has not signalled yet
    g_running,
    pc,         \* where the sender thread is, "off" when there is none
    claimed,    \* the message in its hands, or NoMail
    ok,         \* what smtp_send() told it
    notified,   \* g_wake was signalled while the sender waited
    main,       \* where main() is
    copies,     \* copies of each message the relay accepted
    unsure,     \* messages of which a copy was accepted but reported failed
    faults      \* crashes and database errors so far

queueVars == <<mail, order>>
senderVars == <<pc, claimed, ok>>
histVars == <<copies, unsure, faults>>
vars == <<queueVars, unsignalled, g_running, senderVars, notified, main, histVars>>

Fault == faults < MaxFaults /\ faults' = faults + 1
NoFault == UNCHANGED faults

\* The process: its threads run unless it has exited or crashed.
Alive == main \notin {"exited", "crashed"}

Settled(m) == mail[m].status \in {"sent", "failed"}

-----------------------------------------------------------------------------
(* Request handlers: mailer_enqueue().                                     *)

NewMail == [status |-> "queued", attempts |-> 0, wait |-> 0]

\* The insert.  If only its answer is lost the caller is told -1 and nobody
\* is woken, but the message is queued.
Insert(m) ==
    /\ Alive
    /\ mail[m].status = "none" \/ Settled(m)
    /\ m \notin unsignalled
    /\ mail' = [mail EXCEPT ![m] = NewMail]
    /\ order' = Append(order, m)
    /\ copies' = [copies EXCEPT ![m] = 0]
    /\ unsure' = unsure \ {m}
    /\ \/ unsignalled' = unsignalled \cup {m} /\ NoFault
       \/ UNCHANGED unsignalled /\ Fault
    /\ UNCHANGED <<g_running, senderVars, notified, main>>

\* g_wake is signalled: a sender that does not wait misses it.
Signal(m) ==
    /\ Alive
    /\ m \in unsignalled
    /\ unsignalled' = unsignalled \ {m}
    /\ notified' = (notified \/ pc = "waiting")
    /\ UNCHANGED <<queueVars, g_running, senderVars, main, histVars>>

\* next_attempt_at is reached.
ComeDue(m) ==
    /\ mail[m].wait > 0
    /\ mail' = [mail EXCEPT ![m].wait = 0]
    /\ order' = Append(order, m)
    /\ UNCHANGED <<unsignalled, g_running, senderVars, notified, main, histVars>>

-----------------------------------------------------------------------------
(* The sender thread: sender() and send_next().                            *)

RequeueInterrupted ==
    /\ pc = "requeue"
    /\ pc' = "loop"
    /\ \/ /\ mail' = [m \in Mails |-> IF mail[m].status = "sending"
                                      THEN [mail[m] EXCEPT !.status = "queued"] ELSE mail[m]]
          /\ NoFault
       \/ UNCHANGED mail /\ Fault             \* its result is not looked at
    /\ UNCHANGED <<order, unsignalled, g_running, claimed, ok, notified, main, copies, unsure>>

\* The conditions of the two loops.
TestRunning ==
    /\ \/ pc = "loop"  /\ pc' = IF g_running THEN "inner" ELSE "done"
       \/ pc = "inner" /\ pc' = IF g_running THEN "claim" ELSE "lock"
    /\ UNCHANGED <<queueVars, unsignalled, g_running, claimed, ok, notified, main, histVars>>

\* Mutant: any message that is due.
AnyDue(m) == mail[m].status = "queued" /\ mail[m].wait = 0

\* The due message with the oldest next_attempt_at.
NextDue(m) ==
    \E i \in DOMAIN order :
        /\ order[i] = m
        /\ mail[m].status = "queued"
        /\ \A j \in 1..(i - 1) : mail[order[j]].status # "queued"

\* find_and_modify: queued -> sending.  Its answer may be lost.
Claim(m) ==
    /\ pc = "claim"
    /\ NextDue(m)
    /\ mail' = [mail EXCEPT ![m].status = "sending", ![m].attempts = @ + 1]
    /\ \/ pc' = "send" /\ claimed' = m /\ NoFault
       \/ pc' = "lock" /\ UNCHANGED claimed /\ Fault
    /\ UNCHANGED <<order, unsignalled, g_running, ok, notified, main, copies, unsure>>

\* Nothing is due, or the command failed.
ClaimNothing ==
    /\ pc = "claim"
    /\ pc' = "lock"
    /\ \/ (\A m \in Mails : ~NextDue(m)) /\ NoFault
       \/ Fault
    /\ UNCHANGED <<queueVars, unsignalled, g_running, claimed, ok, notified, main, copies, unsure>>

\* The relay takes the message and says so, refuses it, or takes it and is
\* not heard within SEND_TIMEOUT_SECS.
SmtpSend ==
    /\ pc = "send"
    /\ pc' = "settle"
    /\ \E took, heard \in BOOLEAN :
          /\ ok' = (took /\ heard)
          /\ copies' = [copies EXCEPT ![claimed] = IF took THEN @ + 1 ELSE @]
          /\ unsure' = IF took /\ ~heard THEN unsure \cup {claimed} ELSE unsure
    /\ UNCHANGED <<queueVars, unsignalled, g_running, claimed, notified, main, faults>>

\* Mutant: one retry fewer than RETRY_MINUTES has.
GaveUpEarly(n) == n >= MaxAttempts - 1

GaveUp(n) == n >= MaxAttempts

\* Mutant: the attempts are looked at before the result.
OutcomeRetryFirst(d) ==
    IF ~GaveUp(d.attempts)
    THEN [d EXCEPT !.status = "queued", !.wait = RetryMinutes[d.attempts]]
    ELSE [d EXCEPT !.status = IF ok THEN "sent" ELSE "failed"]

Outcome(d) ==
    IF ok THEN [d EXCEPT !.status = "sent"]
    ELSE IF GaveUp(d.attempts) THEN [d EXCEPT !.status = "failed"]
    ELSE [d EXCEPT !.status = "queued", !.wait = RetryMinutes[d.attempts]]

WithoutMail(s, m) == SelectSeq(s, LAMBDA x : x # m)

\* update_one: what became of the message.  If it fails the message stays
\* "sending".
Settle ==
    /\ pc = "settle"
    /\ pc' = "inner"
    /\ claimed' = NoMail
    /\ \/ /\ mail' = [mail EXCEPT ![claimed] = Outcome(@)]
          /\ order' = WithoutMail(order, claimed)
          /\ NoFault
       \/ UNCHANGED queueVars /\ Fault
    /\ UNCHANGED <<unsignalled, g_running, ok, notified, main, copies, unsure>>

Wait ==
    /\ pc = "lock"
    /\ pc' = IF g_running THEN "waiting" ELSE "loop"
    /\ notified' = FALSE
    /\ UNCHANGED <<queueVars, unsignalled, g_running, claimed, ok, main, histVars>>

\* Signalled, or 30 s are over.
Wake ==
    /\ pc = "waiting"
    /\ pc' = "loop"
    /\ UNCHANGED <<queueVars, unsignalled, g_running, claimed, ok, notified, main, histVars>>

Sender ==
    \/ RequeueInterrupted \/ TestRunning \/ ClaimNothing
    \/ \E m \in Mails : Claim(m)
    \/ SmtpSend \/ Settle \/ Wait \/ Wake

-----------------------------------------------------------------------------
(* main(): mailer_start(), mailer_stop(), and the end of the process.      *)

\* A thread that cannot be created leaves the mailer off.
Start ==
    /\ ~Alive
    /\ main' = "up"
    /\ \/ g_running' = TRUE /\ pc' = "requeue" /\ NoFault
       \/ UNCHANGED <<g_running, pc>> /\ Fault
    /\ UNCHANGED <<queueVars, unsignalled, claimed, ok, notified, copies, unsure>>

Stop ==
    /\ main = "up"
    /\ main' = IF g_running THEN "signal" ELSE "stopped"
    /\ g_running' = FALSE
    /\ UNCHANGED <<queueVars, unsignalled, senderVars, notified, histVars>>

StopSignal ==
    /\ main = "signal"
    /\ main' = "join"
    /\ notified' = (notified \/ pc = "waiting")
    /\ UNCHANGED <<queueVars, unsignalled, g_running, senderVars, histVars>>

StopJoin ==
    /\ main = "join"
    /\ pc = "done"
    /\ main' = "stopped"
    /\ pc' = "off"
    /\ UNCHANGED <<queueVars, unsignalled, g_running, claimed, ok, notified, histVars>>

\* What the process had in memory is gone; the collection stays.
Gone ==
    /\ g_running' = FALSE
    /\ pc' = "off"
    /\ claimed' = NoMail
    /\ ok' = FALSE
    /\ notified' = FALSE
    /\ unsignalled' = {}
    /\ UNCHANGED <<queueVars, copies, unsure>>

Exit == main = "stopped" /\ main' = "exited" /\ Gone /\ NoFault
Crash == Alive /\ main' = "crashed" /\ Gone /\ Fault

-----------------------------------------------------------------------------
Init ==
    /\ mail = [m \in Mails |-> [status |-> "none", attempts |-> 0, wait |-> 0]]
    /\ order = <<>>
    /\ unsignalled = {}
    /\ g_running = FALSE
    /\ pc = "off"
    /\ claimed = NoMail
    /\ ok = FALSE
    /\ notified = FALSE
    /\ main = "exited"
    /\ copies = [m \in Mails |-> 0]
    /\ unsure = {}
    /\ faults = 0

Next ==
    \/ \E m \in Mails : Insert(m) \/ Signal(m) \/ ComeDue(m)
    \/ Sender
    \/ Start \/ Stop \/ StopSignal \/ StopJoin \/ Exit \/ Crash

Spec == Init /\ [][Next]_vars

(***************************************************************************)
(* The sender thread goes on: smtp_send() and the wait are bounded by their *)
(* timeouts.  Time passes.  main() goes on with mailer_stop() once it is   *)
(* in it, and the service manager restarts a process that crashed          *)
(* (Restart=on-failure).  No request and no signal has to come.            *)
(***************************************************************************)
Fairness ==
    /\ WF_vars(Sender)
    /\ \A m \in Mails : WF_vars(ComeDue(m))
    /\ WF_vars(StopSignal \/ StopJoin)
    /\ WF_vars(main = "crashed" /\ Start)

FairSpec == Spec /\ Fairness

-----------------------------------------------------------------------------
Pcs == {"off", "requeue", "loop", "inner", "claim", "send", "settle", "lock",
        "waiting", "done"}

TypeOK ==
    /\ mail \in [Mails -> [status : {"none", "queued", "sending", "sent", "failed"},
                           attempts : Nat, wait : Nat]]
    /\ unsignalled \subseteq Mails
    /\ g_running \in BOOLEAN
    /\ pc \in Pcs
    /\ claimed \in Mails \cup {NoMail}
    /\ ok \in BOOLEAN
    /\ notified \in BOOLEAN
    /\ main \in {"up", "signal", "join", "stopped", "exited", "crashed"}
    /\ copies \in [Mails -> Nat]
    /\ unsure \subseteq Mails
    /\ faults \in Nat

\* What the sender holds, and why what it reports is true: a message is marked
\* "sending" and its attempt counted before a copy can go out.
SendInv ==
    /\ (claimed # NoMail) <=> pc \in {"send", "settle"}
    /\ claimed # NoMail => mail[claimed].status = "sending" /\ mail[claimed].attempts > 0
    /\ \A m \in Mails : copies[m] <= mail[m].attempts
    /\ pc = "send" => copies[claimed] < mail[claimed].attempts
    /\ pc = "settle" /\ ok => copies[claimed] > 0

\* A message "sending" that no thread holds: its send was interrupted, or its
\* result could not be stored.
Orphan(m) == mail[m].status = "sending" /\ claimed # m

\* A message goes out twice only when a copy was accepted unheard, or after
\* a crash or a database error.
NoNeedlessCopy == \A m \in Mails : copies[m] > 1 => m \in unsure \/ faults > 0

\* "retrying after 1, 5, 15 and 60 minutes before marking it failed": exactly
\* MaxAttempts tries and no copy reported accepted, but for faults, each of
\* which costs or adds one try at most.
AttemptsBounded ==
    \A m \in Mails :
        /\ mail[m].attempts <= MaxAttempts + faults
        /\ mail[m].status = "failed" => mail[m].attempts >= MaxAttempts
        /\ mail[m].status = "queued" /\ mail[m].attempts > 0 =>
              \/ faults > 0
              \/ mail[m].attempts < MaxAttempts

\* mailer_stop() never waits for the 30 s: when it joins a sender that waits,
\* the sender was signalled.
StopPrompt == main = "join" /\ pc = "waiting" => notified

\* Together: what the sender may claim, send and report, through crashes,
\* lost answers and database errors, and a stop that never sleeps.
MailInv == TypeOK /\ SendInv /\ NoNeedlessCopy /\ AttemptsBounded /\ StopPrompt

\* The collection as its users see it: queued or being sent is pending.
PublicState == [m \in Mails |-> IF mail[m].status \in {"queued", "sending"} THEN "pending"
                                ELSE mail[m].status]
Tries == [m \in Mails |-> mail[m].attempts]

Delivery == INSTANCE MailDelivery WITH state <- PublicState, tries <- Tries

\* What mailer_enqueue() and the queue promise: MailDelivery.
Implements == Delivery!Spec

\* Every message is settled, however much mail comes after it, unless it was
\* orphaned (it waits for the next start) or the mailer was stopped.
MailSettles ==
    \A m \in Mails :
        (mail[m].status = "queued") ~>
            (Settled(m) \/ Orphan(m) \/ (main # "crashed" /\ ~g_running))

\* A message a crash left behind is taken up again, unless something else
\* fails meanwhile.
OrphansRescued ==
    \A m \in Mails, n \in 0..MaxFaults :
        (main = "crashed" /\ Orphan(m) /\ faults = n) ~> (~Orphan(m) \/ faults > n)

\* mailer_stop() returns.
StopReturns == (main = "signal") ~> (main \notin {"signal", "join"})

\* All three: no message and no stop waits for ever.
MailLive == MailSettles /\ OrphansRescued /\ StopReturns
=============================================================================
