---------------------------- MODULE MailerProofs ----------------------------
(***************************************************************************)
(* Proofs about Mailer, for any set of messages, any retry schedule and    *)
(* any number of crashes and database errors.                              *)
(***************************************************************************)
EXTENDS Mailer, TLAPS

MailDoc == [status : {"none", "queued", "sending", "sent", "failed"},
            attempts : Nat, wait : Nat]

\* The inductive invariant: types, what the sender holds, and that a process
\* that is stopping has told the sender so.
StopInv ==
    /\ main \in {"signal", "join", "stopped"} => ~g_running
    /\ StopPrompt

\* A process that is gone left no thread behind.
DownInv == main \in {"exited", "crashed"} => pc = "off"

IInv == TypeOK /\ SendInv /\ StopInv /\ DownInv

\* What becomes of a document that is settled is a document.
LEMMA OutcomeType ==
    ASSUME NEW d \in MailDoc, d.attempts > 0
    PROVE  /\ Outcome(d) \in MailDoc
           /\ Outcome(d).attempts = d.attempts
  <1> USE MailerAssumption
  <1>1. CASE ok
    BY <1>1 DEF Outcome, MailDoc
  <1>2. CASE ~ok /\ GaveUp(d.attempts)
    BY <1>2 DEF Outcome, MailDoc
  <1>3. CASE ~ok /\ ~GaveUp(d.attempts)
    <2>1. d.attempts \in 1..Len(RetryMinutes)
      BY <1>3 DEF GaveUp, MaxAttempts, MailDoc
    <2>2. RetryMinutes[d.attempts] \in Nat
      BY <2>1
    <2> QED
      BY <1>3, <2>2 DEF Outcome, MailDoc
  <1> QED
    BY <1>1, <1>2, <1>3

-----------------------------------------------------------------------------
\* Types.  Only five actions write documents.
LEMMA NextMail == IInv /\ [Next]_vars => mail' \in [Mails -> MailDoc]
  <1> SUFFICES ASSUME IInv, [Next]_vars PROVE mail' \in [Mails -> MailDoc]
    OBVIOUS
  <1> USE DEF queueVars, senderVars, histVars
  <1>0. mail \in [Mails -> MailDoc]
    BY DEF IInv, TypeOK, MailDoc
  <1>1. ASSUME NEW m \in Mails, Insert(m) PROVE mail' \in [Mails -> MailDoc]
    BY <1>0, <1>1 DEF Insert, NewMail, MailDoc
  <1>2. ASSUME NEW m \in Mails, ComeDue(m) PROVE mail' \in [Mails -> MailDoc]
    BY <1>0, <1>2 DEF ComeDue, MailDoc
  <1>3. CASE RequeueInterrupted
    BY <1>0, <1>3 DEF RequeueInterrupted, MailDoc
  <1>4. ASSUME NEW m \in Mails, Claim(m) PROVE mail' \in [Mails -> MailDoc]
    BY <1>0, <1>4 DEF Claim, MailDoc
  <1>5. CASE Settle
    <2>1. claimed \in Mails /\ mail[claimed].attempts > 0
      BY <1>5 DEF Settle, IInv, TypeOK, SendInv
    <2>2. Outcome(mail[claimed]) \in MailDoc
      BY <1>0, <2>1, OutcomeType
    <2> QED
      BY <1>0, <1>5, <2>1, <2>2 DEF Settle
  <1>6. CASE UNCHANGED mail
    BY <1>0, <1>6
  <1> QED
    BY <1>1, <1>2, <1>3, <1>4, <1>5, <1>6
    DEF Next, Sender, Signal, TestRunning, ClaimNothing, SmtpSend, Wait, Wake, Start, Stop,
        StopSignal, StopJoin, Exit, Crash, Gone, vars

LEMMA NextHist ==
    IInv /\ [Next]_vars => /\ copies' \in [Mails -> Nat]
                           /\ unsure' \subseteq Mails
                           /\ unsignalled' \subseteq Mails
                           /\ faults' \in Nat
                           /\ claimed' \in Mails \cup {NoMail}
  <1> SUFFICES ASSUME IInv, [Next]_vars
               PROVE  /\ copies' \in [Mails -> Nat]
                      /\ unsure' \subseteq Mails
                      /\ unsignalled' \subseteq Mails
                      /\ faults' \in Nat
                      /\ claimed' \in Mails \cup {NoMail}
    OBVIOUS
  <1> USE DEF queueVars, senderVars, histVars, NoFault, Fault
  <1>0. /\ copies \in [Mails -> Nat] /\ unsure \subseteq Mails /\ unsignalled \subseteq Mails
        /\ faults \in Nat /\ claimed \in Mails \cup {NoMail}
    BY DEF IInv, TypeOK
  <1>1. ASSUME NEW m \in Mails, Insert(m) \/ Signal(m) \/ ComeDue(m) \/ Claim(m)
        PROVE  /\ copies' \in [Mails -> Nat] /\ unsure' \subseteq Mails
               /\ unsignalled' \subseteq Mails /\ faults' \in Nat
               /\ claimed' \in Mails \cup {NoMail}
    BY <1>0, <1>1 DEF Insert, Signal, ComeDue, Claim
  <1>2. CASE RequeueInterrupted \/ TestRunning \/ ClaimNothing \/ Settle \/ Wait \/ Wake
    BY <1>0, <1>2 DEF RequeueInterrupted, TestRunning, ClaimNothing, Settle, Wait, Wake
  <1>3. CASE SmtpSend
    <2>1. claimed \in Mails
      BY <1>3 DEF SmtpSend, IInv, TypeOK, SendInv
    <2>2. PICK took \in BOOLEAN :
             copies' = [copies EXCEPT ![claimed] = IF took THEN @ + 1 ELSE @]
      BY <1>3 DEF SmtpSend
    <2>3. copies' \in [Mails -> Nat]
      BY <1>0, <2>1, <2>2
    <2>4. unsure' \subseteq unsure \cup {claimed}
      BY <1>3 DEF SmtpSend
    <2> QED
      BY <1>0, <1>3, <2>1, <2>3, <2>4 DEF SmtpSend
  <1>4. CASE Start \/ Stop \/ StopSignal \/ StopJoin \/ Exit \/ Crash
    BY <1>0, <1>4 DEF Start, Stop, StopSignal, StopJoin, Exit, Crash, Gone
  <1>5. CASE UNCHANGED vars
    BY <1>0, <1>5 DEF vars
  <1> QED
    BY <1>1, <1>2, <1>3, <1>4, <1>5 DEF Next, Sender

\* The variables of the process.
ProcessType ==
    /\ g_running \in BOOLEAN
    /\ pc \in Pcs
    /\ ok \in BOOLEAN
    /\ notified \in BOOLEAN
    /\ main \in {"up", "signal", "join", "stopped", "exited", "crashed"}

LEMMA NextProcess == ProcessType /\ [Next]_vars => ProcessType'
  <1> SUFFICES ASSUME ProcessType, [Next]_vars PROVE ProcessType'
    OBVIOUS
  <1> USE DEF queueVars, senderVars, histVars, ProcessType, Pcs
  <1>1. ASSUME NEW m \in Mails, Insert(m) \/ Signal(m) \/ ComeDue(m) \/ Claim(m)
        PROVE  ProcessType'
    BY <1>1, Zenon DEF Insert, Signal, ComeDue, Claim
  <1>2. CASE RequeueInterrupted \/ TestRunning \/ ClaimNothing \/ SmtpSend \/ Settle
    BY <1>2, Zenon DEF RequeueInterrupted, TestRunning, ClaimNothing, SmtpSend, Settle
  <1>3. CASE Wait \/ Wake
    BY <1>3, Zenon DEF Wait, Wake
  <1>4. CASE Start \/ Stop \/ StopSignal \/ StopJoin \/ Exit \/ Crash
    BY <1>4, Zenon DEF Start, Stop, StopSignal, StopJoin, Exit, Crash, Gone
  <1>5. CASE UNCHANGED vars
    BY <1>5, Zenon DEF vars
  <1> QED
    BY <1>1, <1>2, <1>3, <1>4, <1>5 DEF Next, Sender

LEMMA NextType == IInv /\ [Next]_vars => TypeOK'
  <1> SUFFICES ASSUME IInv, [Next]_vars PROVE TypeOK'
    OBVIOUS
  <1>1. ProcessType
    BY Zenon DEF ProcessType, IInv, TypeOK
  <1>2. ProcessType'
    BY <1>1, NextProcess
  <1> QED
    BY <1>2, NextMail, NextHist, Zenon DEF ProcessType, TypeOK, MailDoc

-----------------------------------------------------------------------------
\* The sender's part of the invariant, for steps that leave the sender and its
\* message alone.
LEMMA SendFrame ==
    ASSUME IInv, UNCHANGED <<pc, claimed, ok>>,
           \A n \in Mails : copies'[n] <= mail'[n].attempts,
           claimed # NoMail => /\ mail'[claimed].status = mail[claimed].status
                               /\ mail'[claimed].attempts = mail[claimed].attempts
                               /\ copies'[claimed] = copies[claimed]
    PROVE  SendInv'
  <1>1. pc \in {"send", "settle"} => claimed # NoMail
    BY DEF IInv, SendInv
  <1> QED
    BY <1>1 DEF IInv, SendInv

LEMMA InsertSend == ASSUME NEW m \in Mails, IInv, Insert(m) PROVE SendInv'
  <1> USE DEF senderVars
  <1>1. mail[m].status # "sending" /\ claimed # m
    BY NoMailAssumption DEF Insert, Settled, IInv, SendInv
  <1>2. /\ mail'[m] = NewMail /\ copies'[m] = 0
        /\ \A n \in Mails \ {m} : mail'[n] = mail[n] /\ copies'[n] = copies[n]
    BY DEF Insert, IInv, TypeOK
  <1>3. \A n \in Mails : copies'[n] <= mail'[n].attempts
    BY <1>2 DEF IInv, SendInv, NewMail
  <1>4. claimed # NoMail => mail'[claimed] = mail[claimed] /\ copies'[claimed] = copies[claimed]
    BY <1>1, <1>2 DEF IInv, TypeOK
  <1>5. UNCHANGED <<pc, claimed, ok>>
    BY DEF Insert
  <1> QED
    BY <1>3, <1>4, <1>5, SendFrame

LEMMA ComeDueSend == ASSUME NEW m \in Mails, IInv, ComeDue(m) PROVE SendInv'
  <1> USE DEF senderVars, histVars
  <1>1. mail \in [Mails -> MailDoc] /\ claimed \in Mails \cup {NoMail}
    BY DEF IInv, TypeOK, MailDoc
  <1>2. \A n \in Mails : mail'[n].status = mail[n].status /\ mail'[n].attempts = mail[n].attempts
    BY <1>1 DEF ComeDue, MailDoc
  <1>3. copies' = copies /\ UNCHANGED <<pc, claimed, ok>>
    BY DEF ComeDue
  <1>4. \A n \in Mails : copies'[n] <= mail'[n].attempts
    BY <1>2, <1>3 DEF IInv, SendInv
  <1> QED
    BY <1>1, <1>2, <1>3, <1>4, SendFrame

\* The claim: marked and counted before anything is sent.
LEMMA ClaimSend == ASSUME NEW m \in Mails, IInv, Claim(m) PROVE SendInv'
  <1>1. mail \in [Mails -> MailDoc] /\ copies \in [Mails -> Nat] /\ copies' = copies
    BY DEF IInv, TypeOK, MailDoc, Claim
  <1>2. /\ mail'[m].status = "sending" /\ mail'[m].attempts = mail[m].attempts + 1
        /\ \A n \in Mails \ {m} : mail'[n] = mail[n]
    BY <1>1 DEF Claim, MailDoc
  <1>3. \A n \in Mails : copies[n] <= mail[n].attempts
    BY DEF IInv, SendInv
  <1>4. mail[m].attempts \in Nat /\ copies[m] \in Nat
    BY <1>1 DEF MailDoc
  <1>5. \A n \in Mails : copies'[n] <= mail'[n].attempts
    <2>1. copies'[m] <= mail'[m].attempts
      BY <1>1, <1>2, <1>3, <1>4
    <2> QED
      BY <1>1, <1>2, <1>3, <2>1
  <1>6. CASE pc' = "send" /\ claimed' = m
    <2>1. copies'[m] < mail'[m].attempts /\ mail'[m].attempts > 0
      BY <1>1, <1>2, <1>3, <1>4
    <2> QED
      BY <1>2, <1>5, <1>6, <2>1, NoMailAssumption DEF SendInv
  <1>7. CASE pc' = "lock" /\ UNCHANGED claimed
    <2>1. claimed = NoMail
      BY DEF Claim, IInv, SendInv
    <2> QED
      BY <1>5, <1>7, <2>1 DEF SendInv
  <1> QED
    BY <1>6, <1>7 DEF Claim

LEMMA SmtpSend_Send == IInv /\ SmtpSend => SendInv'
  <1> SUFFICES ASSUME IInv, SmtpSend PROVE SendInv'
    OBVIOUS
  <1> USE DEF queueVars
  <1>1. /\ claimed \in Mails /\ claimed # NoMail
        /\ mail[claimed].status = "sending" /\ mail[claimed].attempts > 0
        /\ copies[claimed] < mail[claimed].attempts
    BY NoMailAssumption DEF SmtpSend, IInv, TypeOK, SendInv
  <1>2. pc' = "settle" /\ mail' = mail /\ claimed' = claimed
    BY DEF SmtpSend
  <1>3. copies \in [Mails -> Nat] /\ mail \in [Mails -> MailDoc]
    BY DEF IInv, TypeOK, MailDoc
  <1>4. PICK took \in BOOLEAN :
           /\ ok' => took
           /\ copies' = [copies EXCEPT ![claimed] = IF took THEN @ + 1 ELSE @]
    BY Zenon DEF SmtpSend
  <1>5. /\ took => copies'[claimed] = copies[claimed] + 1
        /\ ~took => copies'[claimed] = copies[claimed]
        /\ \A n \in Mails \ {claimed} : copies'[n] = copies[n]
    BY <1>1, <1>3, <1>4
  <1>6. copies[claimed] \in Nat /\ mail[claimed].attempts \in Nat
    BY <1>1, <1>3 DEF MailDoc
  <1>7. copies'[claimed] <= mail[claimed].attempts /\ (took => copies'[claimed] > 0)
    BY <1>1, <1>5, <1>6
  <1>8. \A n \in Mails : copies'[n] <= mail[n].attempts
    BY <1>5, <1>7 DEF IInv, SendInv
  <1> QED
    BY <1>1, <1>2, <1>4, <1>7, <1>8 DEF SendInv

LEMMA SettleSend == IInv /\ Settle => SendInv'
  <1> SUFFICES ASSUME IInv, Settle PROVE SendInv'
    OBVIOUS
  <1> USE DEF queueVars
  <1>1. claimed \in Mails /\ mail[claimed].attempts > 0
    BY DEF Settle, IInv, TypeOK, SendInv
  <1>2. mail \in [Mails -> MailDoc] /\ copies' = copies /\ pc' = "inner" /\ claimed' = NoMail
    BY DEF IInv, TypeOK, MailDoc, Settle
  <1>3. Outcome(mail[claimed]).attempts = mail[claimed].attempts
    BY <1>1, <1>2, OutcomeType
  <1>4. \A n \in Mails : mail'[n].attempts = mail[n].attempts
    BY <1>1, <1>2, <1>3 DEF Settle
  <1> QED
    BY <1>2, <1>4 DEF IInv, SendInv

LEMMA RequeueSend == IInv /\ RequeueInterrupted => SendInv'
  <1> SUFFICES ASSUME IInv, RequeueInterrupted PROVE SendInv'
    OBVIOUS
  <1>1. /\ mail \in [Mails -> MailDoc] /\ copies' = copies
        /\ pc' = "loop" /\ claimed' = claimed /\ claimed = NoMail
    BY DEF IInv, TypeOK, MailDoc, SendInv, RequeueInterrupted
  <1>2. \A n \in Mails : mail'[n].attempts = mail[n].attempts
    BY <1>1 DEF RequeueInterrupted, MailDoc
  <1> QED
    BY <1>1, <1>2 DEF IInv, SendInv

LEMMA NextSend == IInv /\ [Next]_vars => SendInv'
  <1> SUFFICES ASSUME IInv, [Next]_vars PROVE SendInv'
    OBVIOUS
  <1> USE DEF queueVars, senderVars, histVars
  <1>1. ASSUME UNCHANGED <<mail, copies>>, claimed' = NoMail,
               pc' \notin {"send", "settle"}
        PROVE  SendInv'
    BY <1>1 DEF IInv, SendInv
  <1>2. ASSUME UNCHANGED <<mail, copies, pc, claimed, ok>> PROVE SendInv'
    BY <1>2 DEF IInv, SendInv
  <1>3. pc \notin {"send", "settle"} => claimed = NoMail
    BY DEF IInv, SendInv
  <1>4. CASE TestRunning \/ ClaimNothing \/ Wait \/ Wake
    BY <1>1, <1>3, <1>4 DEF TestRunning, ClaimNothing, Wait, Wake
  <1>5. CASE Stop \/ StopSignal
    BY <1>2, <1>5 DEF Stop, StopSignal
  <1>6. CASE StopJoin
    BY <1>1, <1>3, <1>6 DEF StopJoin
  <1>7. CASE Exit \/ Crash
    BY <1>1, <1>7 DEF Exit, Crash, Gone
  <1>8. CASE Start
    <2>1. CASE pc' = "requeue"
      <3>1. pc \notin {"send", "settle"}
        BY <1>8 DEF Start, IInv, DownInv, Alive
      <3> QED
        BY <1>1, <1>3, <1>8, <2>1, <3>1 DEF Start
    <2>2. CASE UNCHANGED pc
      BY <1>2, <1>8, <2>2 DEF Start
    <2> QED
      BY <1>8, <2>1, <2>2 DEF Start
  <1>9. ASSUME NEW m \in Mails, Signal(m) PROVE SendInv'
    BY <1>2, <1>9 DEF Signal
  <1>10. CASE UNCHANGED vars
    BY <1>2, <1>10 DEF vars
  <1> QED
    BY <1>4, <1>5, <1>6, <1>7, <1>8, <1>9, <1>10, InsertSend, ComeDueSend, ClaimSend,
       SmtpSend_Send, SettleSend, RequeueSend DEF Next, Sender

-----------------------------------------------------------------------------
LEMMA NextStop == IInv /\ [Next]_vars => StopInv'
  <1> SUFFICES ASSUME IInv, [Next]_vars PROVE StopInv'
    OBVIOUS
  <1> USE DEF queueVars, senderVars, histVars, IInv, StopInv, StopPrompt
  <1>1. ASSUME NEW m \in Mails, Insert(m) \/ Signal(m) \/ ComeDue(m) \/ Claim(m) PROVE StopInv'
    <2>1. CASE Signal(m)
      <3>1. UNCHANGED <<main, g_running, pc>> /\ (notified => notified')
        BY <2>1, Zenon DEF Signal
      <3> QED
        BY <3>1
    <2>2. CASE Insert(m) \/ ComeDue(m)
      BY <2>2 DEF Insert, ComeDue
    <2>3. CASE Claim(m)
      <3>1. UNCHANGED <<main, g_running>> /\ pc' # "waiting"
        BY <2>3 DEF Claim
      <3> QED
        BY <3>1
    <2> QED
      BY <1>1, <2>1, <2>2, <2>3
  <1>2. CASE RequeueInterrupted \/ TestRunning \/ ClaimNothing \/ SmtpSend \/ Settle \/ Wake
    BY <1>2 DEF RequeueInterrupted, TestRunning, ClaimNothing, SmtpSend, Settle, Wake
  <1>3. CASE Wait
    BY <1>3 DEF Wait
  <1>4. CASE Start \/ Stop \/ StopSignal \/ StopJoin
    <2>1. CASE Start
      BY <2>1 DEF Start
    <2>2. CASE Stop
      BY <2>2 DEF Stop
    <2>3. CASE StopSignal
      <3>1. /\ main = "signal" /\ main' = "join" /\ g_running' = g_running /\ pc' = pc
            /\ pc = "waiting" => notified'
        BY <2>3, Zenon DEF StopSignal
      <3> QED
        BY <3>1
    <2>4. CASE StopJoin
      BY <2>4 DEF StopJoin
    <2> QED
      BY <1>4, <2>1, <2>2, <2>3, <2>4
  <1>5. CASE Exit \/ Crash
    BY <1>5 DEF Exit, Crash, Gone
  <1>6. CASE UNCHANGED vars
    BY <1>6 DEF vars
  <1> QED
    BY <1>1, <1>2, <1>3, <1>4, <1>5, <1>6 DEF Next, Sender

LEMMA NextDown == IInv /\ [Next]_vars => DownInv'
  <1> SUFFICES ASSUME IInv, [Next]_vars PROVE DownInv'
    OBVIOUS
  <1> USE DEF queueVars, senderVars, histVars, IInv, DownInv, Alive
  <1>1. ASSUME NEW m \in Mails, Insert(m) \/ Signal(m) \/ ComeDue(m) \/ Claim(m) PROVE DownInv'
    BY <1>1 DEF Insert, Signal, ComeDue, Claim
  <1>2. CASE Sender
    BY <1>2 DEF Sender, RequeueInterrupted, TestRunning, ClaimNothing, Claim, SmtpSend, Settle,
                Wait, Wake
  <1>3. CASE Start \/ Stop \/ StopSignal \/ StopJoin \/ Exit \/ Crash
    BY <1>3 DEF Start, Stop, StopSignal, StopJoin, Exit, Crash, Gone
  <1>4. CASE UNCHANGED vars
    BY <1>4 DEF vars
  <1> QED
    BY <1>1, <1>2, <1>3, <1>4 DEF Next

LEMMA InitInv == Init => IInv
  <1> SUFFICES ASSUME Init PROVE IInv
    OBVIOUS
  <1>1. TypeOK
    BY DEF Init, TypeOK, Pcs
  <1>2. SendInv
    BY DEF Init, SendInv
  <1>3. StopInv /\ DownInv
    BY DEF Init, StopInv, StopPrompt, DownInv
  <1> QED
    BY <1>1, <1>2, <1>3 DEF IInv

\* The invariant on which the theorems below rest.
THEOREM Inductive == Spec => []IInv
  <1>1. IInv /\ [Next]_vars => IInv'
    BY NextType, NextSend, NextStop, NextDown DEF IInv
  <1> QED
    BY <1>1, InitInv, PTL DEF Spec

\* The documents and the variables of the process keep their types: in
\* particular RETRY_MINUTES is never read past its end.
THEOREM TypeCorrect == Spec => []TypeOK
  <1>1. IInv => TypeOK
    BY DEF IInv
  <1> QED
    BY <1>1, Inductive, PTL

\* What the sender reports of a message is true, whatever fails around it.
THEOREM SendHolds == Spec => []SendInv
  <1>1. IInv => SendInv
    BY DEF IInv
  <1> QED
    BY <1>1, Inductive, PTL

\* mailer_stop() never joins a sender that sleeps and was not woken.
THEOREM StopPromptThm == Spec => []StopPrompt
  <1>1. IInv => StopPrompt
    BY DEF IInv, StopInv
  <1> QED
    BY <1>1, Inductive, PTL

-----------------------------------------------------------------------------
(* The queue implements MailDelivery.                                      *)

\* Both views of the collection, message by message.
LEMMA ViewStep ==
    ASSUME IInv, NEW m \in Mails,
           \A n \in Mails \ {m} : mail'[n].status = mail[n].status
                                  /\ mail'[n].attempts = mail[n].attempts
    PROVE  /\ PublicState' = [PublicState EXCEPT ![m] =
                 IF mail'[m].status \in {"queued", "sending"} THEN "pending" ELSE mail'[m].status]
           /\ Tries' = [Tries EXCEPT ![m] = mail'[m].attempts]
  BY DEF PublicState, Tries

LEMMA ViewSame ==
    ASSUME IInv,
           \A n \in Mails : /\ mail'[n].attempts = mail[n].attempts
                            /\ \/ mail'[n].status = mail[n].status
                               \/ {mail[n].status, mail'[n].status} \subseteq {"queued", "sending"}
    PROVE  PublicState' = PublicState /\ Tries' = Tries
  BY DEF PublicState, Tries

\* A step of the mailer is a step of MailDelivery, or none.
LEMMA RefineStep == IInv /\ [Next]_vars => [Delivery!Next]_(Delivery!vars)
  <1> SUFFICES ASSUME IInv, [Next]_vars PROVE [Delivery!Next]_(Delivery!vars)
    OBVIOUS
  <1> USE DEF queueVars, senderVars, histVars
  <1>0. /\ mail \in [Mails -> MailDoc] /\ copies \in [Mails -> Nat]
        /\ claimed \in Mails \cup {NoMail}
    BY DEF IInv, TypeOK, MailDoc
  <1>1. ASSUME PublicState' = PublicState, Tries' = Tries, copies' = copies
        PROVE  [Delivery!Next]_(Delivery!vars)
    BY <1>1 DEF Delivery!vars
  <1>2. ASSUME NEW m \in Mails, Insert(m) PROVE [Delivery!Next]_(Delivery!vars)
    <2>1. mail'[m] = NewMail /\ \A n \in Mails \ {m} : mail'[n] = mail[n]
      BY <1>0, <1>2 DEF Insert
    <2>2. /\ PublicState' = [PublicState EXCEPT ![m] = "pending"]
          /\ Tries' = [Tries EXCEPT ![m] = 0]
      BY <2>1, ViewStep DEF NewMail
    <2>3. PublicState[m] # "pending"
      BY <1>2 DEF Insert, Settled, PublicState
    <2>4. copies' = [copies EXCEPT ![m] = 0]
      BY <1>2 DEF Insert
    <2> QED
      BY <2>2, <2>3, <2>4 DEF Delivery!Next, Delivery!Accept
  <1>3. ASSUME NEW m \in Mails, Claim(m) PROVE [Delivery!Next]_(Delivery!vars)
    <2>1. /\ mail[m].status = "queued" /\ mail'[m].status = "sending"
          /\ mail'[m].attempts = mail[m].attempts + 1
          /\ \A n \in Mails \ {m} : mail'[n] = mail[n]
      BY <1>0, <1>3 DEF Claim, NextDue, MailDoc
    <2>2. /\ PublicState' = [PublicState EXCEPT ![m] = "pending"]
          /\ Tries' = [Tries EXCEPT ![m] = mail[m].attempts + 1]
      BY <2>1, ViewStep
    <2>3. PublicState[m] = "pending" /\ Tries[m] = mail[m].attempts
      BY <2>1 DEF PublicState, Tries
    <2>4. PublicState' = PublicState /\ Tries' = [Tries EXCEPT ![m] = @ + 1]
      BY <2>2, <2>3 DEF PublicState, Tries
    <2>5. copies' = copies
      BY <1>3 DEF Claim
    <2> QED
      BY <2>3, <2>4, <2>5 DEF Delivery!Next, Delivery!Try
  <1>4. CASE SmtpSend
    <2>1. /\ claimed \in Mails /\ mail' = mail
          /\ mail[claimed].status = "sending"
          /\ copies[claimed] < mail[claimed].attempts
      BY <1>0, <1>4 DEF SmtpSend, IInv, SendInv
    <2>2. PublicState' = PublicState /\ Tries' = Tries
      BY <2>1, ViewSame
    <2>3. PublicState[claimed] = "pending" /\ copies[claimed] < Tries[claimed]
      BY <2>1 DEF PublicState, Tries
    <2>4. PICK took \in BOOLEAN :
             copies' = [copies EXCEPT ![claimed] = IF took THEN @ + 1 ELSE @]
      BY <1>4, Zenon DEF SmtpSend
    <2>5. CASE took
      <3>1. copies' = [copies EXCEPT ![claimed] = @ + 1]
        BY <2>4, <2>5
      <3> QED
        BY <2>1, <2>2, <2>3, <3>1 DEF Delivery!Next, Delivery!Deliver
    <2>6. CASE ~took
      <3>1. copies' = copies
        BY <1>0, <2>4, <2>6
      <3> QED
        BY <1>1, <2>2, <3>1
    <2> QED
      BY <2>5, <2>6
  <1>5. CASE Settle
    <2>1. /\ claimed \in Mails /\ mail[claimed].status = "sending" /\ mail[claimed].attempts > 0
          /\ copies' = copies
      BY <1>0, <1>5 DEF Settle, IInv, SendInv
    <2>2. CASE UNCHANGED mail
      BY <1>1, <2>1, <2>2, ViewSame
    <2>3. CASE mail' = [mail EXCEPT ![claimed] = Outcome(mail[claimed])]
      <3>1. /\ mail'[claimed] = Outcome(mail[claimed])
            /\ \A n \in Mails \ {claimed} : mail'[n] = mail[n]
        BY <1>0, <2>1, <2>3
      <3>2. mail'[claimed].attempts = mail[claimed].attempts
        BY <1>0, <2>1, <3>1, OutcomeType
      <3>3. Tries' = Tries
        BY <3>1, <3>2 DEF Tries
      <3>4. PublicState[claimed] = "pending"
        BY <2>1 DEF PublicState
      <3>5. CASE ok
        <4>1. mail'[claimed].status = "sent"
          BY <1>0, <2>1, <3>1, <3>5 DEF Outcome, MailDoc
        <4>2. PublicState' = [PublicState EXCEPT ![claimed] = "sent"]
          BY <2>1, <3>1, <4>1, ViewStep
        <4>3. copies[claimed] > 0
          BY <1>5, <3>5 DEF Settle, IInv, SendInv
        <4> QED
          BY <2>1, <3>3, <3>4, <4>2, <4>3 DEF Delivery!Next, Delivery!ReportSent
      <3>6. CASE ~ok /\ GaveUp(mail[claimed].attempts)
        <4>1. mail'[claimed].status = "failed"
          BY <1>0, <2>1, <3>1, <3>6 DEF Outcome, MailDoc
        <4>2. PublicState' = [PublicState EXCEPT ![claimed] = "failed"]
          BY <2>1, <3>1, <4>1, ViewStep
        <4>3. Tries[claimed] >= MaxAttempts
          BY <2>1, <3>6 DEF GaveUp, Tries
        <4> QED
          BY <2>1, <3>3, <3>4, <4>2, <4>3 DEF Delivery!Next, Delivery!ReportFailed
      <3>7. CASE ~ok /\ ~GaveUp(mail[claimed].attempts)
        <4>1. mail'[claimed].status = "queued"
          BY <1>0, <2>1, <3>1, <3>7 DEF Outcome, MailDoc
        <4> QED
          BY <1>1, <2>1, <3>1, <3>2, <4>1, ViewSame
      <3> QED
        BY <3>5, <3>6, <3>7
    <2> QED
      BY <1>5, <2>2, <2>3 DEF Settle
  <1>6. CASE RequeueInterrupted
    <2>1. \A n \in Mails : /\ mail'[n].attempts = mail[n].attempts
                           /\ \/ mail'[n].status = mail[n].status
                              \/ mail[n].status = "sending" /\ mail'[n].status = "queued"
      BY <1>0, <1>6 DEF RequeueInterrupted, MailDoc
    <2>2. copies' = copies
      BY <1>6 DEF RequeueInterrupted
    <2>3. PublicState' = PublicState /\ Tries' = Tries
      BY <2>1, ViewSame
    <2> QED
      BY <1>1, <2>2, <2>3
  <1>7. ASSUME NEW m \in Mails, ComeDue(m) PROVE [Delivery!Next]_(Delivery!vars)
    <2>1. \A n \in Mails : mail'[n].status = mail[n].status /\ mail'[n].attempts = mail[n].attempts
      BY <1>0, <1>7 DEF ComeDue, MailDoc
    <2> QED
      BY <1>1, <1>7, <2>1, ViewSame DEF ComeDue
  <1>8. CASE UNCHANGED <<mail, copies>>
    BY <1>1, <1>8, ViewSame
  <1> QED
    BY <1>2, <1>3, <1>4, <1>5, <1>6, <1>7, <1>8
    DEF Next, Sender, Signal, TestRunning, ClaimNothing, Wait, Wake, Start, Stop, StopSignal,
        StopJoin, Exit, Crash, Gone, vars

\* A message mailer_enqueue() stored is kept through crashes, lost answers and
\* failed updates until it is truthfully reported sent or failed.
THEOREM MailIsDelivered == Spec => Implements
  <1>1. Init => Delivery!Init
    BY DEF Init, Delivery!Init, PublicState, Tries
  <1> QED
    BY <1>1, Inductive, RefineStep, PTL DEF Spec, Implements, Delivery!Spec
-----------------------------------------------------------------------------
(* Copies and attempts, counted against the faults so far.                 *)

\* The sender thread runs only under a process that started it and has not
\* joined it.
OffInv ==
    /\ main = "stopped" => pc = "off"
    /\ main = "up" /\ ~g_running => pc = "off"
    /\ main \in {"exited", "crashed"} => ~g_running

\* A copy that was accepted is on its way to being reported, or reported, or
\* there is an excuse for not knowing of it.
CopyInv ==
    \A m \in Mails : copies[m] > 0 =>
        m \in unsure \/ faults > 0 \/ mail[m].status = "sent" \/ (pc = "settle" /\ claimed = m /\ ok)

\* A message that will be tried again has a try left; an orphan has one
\* because the fault that orphaned it is counted.
TriesOf(m) ==
    /\ mail[m].attempts <= MaxAttempts + faults
    /\ mail[m].status = "queued" \/ Orphan(m) => mail[m].attempts < MaxAttempts + faults
    /\ mail[m].status = "failed" => mail[m].attempts >= MaxAttempts
TriesInv == \A m \in Mails : TriesOf(m)

MInv == IInv /\ OffInv /\ CopyInv /\ NoNeedlessCopy /\ TriesInv

LEMMA NextOff == IInv /\ OffInv /\ [Next]_vars => OffInv'
  <1> SUFFICES ASSUME IInv, OffInv, [Next]_vars PROVE OffInv'
    OBVIOUS
  <1> USE DEF queueVars, senderVars, histVars, OffInv, Alive
  <1>0. DownInv /\ (main \in {"signal", "join", "stopped"} => ~g_running)
    BY DEF IInv, StopInv
  <1>1. ASSUME NEW m \in Mails, Insert(m) \/ Signal(m) \/ ComeDue(m) PROVE OffInv'
    BY <1>1 DEF Insert, Signal, ComeDue
  <1>2. CASE Sender
    <2>1. pc # "off" /\ UNCHANGED <<main, g_running>>
      BY <1>2 DEF Sender, RequeueInterrupted, TestRunning, ClaimNothing, Claim, SmtpSend, Settle,
                  Wait, Wake
    <2> QED
      BY <2>1
  <1>3. CASE Start
    BY <1>0, <1>3 DEF Start, DownInv
  <1>4. CASE Stop
    BY <1>0, <1>4 DEF Stop
  <1>5. CASE StopSignal \/ StopJoin \/ Exit \/ Crash
    BY <1>0, <1>5 DEF StopSignal, StopJoin, Exit, Crash, Gone
  <1>6. CASE UNCHANGED vars
    BY <1>6 DEF vars
  <1> QED
    BY <1>1, <1>2, <1>3, <1>4, <1>5, <1>6 DEF Next

\* A fault excuses every copy; steps that change no document, copy or sender
\* need no excuse.
LEMMA NextCopy == MInv /\ [Next]_vars => CopyInv' /\ NoNeedlessCopy'
  <1> SUFFICES ASSUME MInv, [Next]_vars PROVE CopyInv' /\ NoNeedlessCopy'
    OBVIOUS
  <1> USE DEF queueVars, senderVars, histVars, NoFault
  <1>0. /\ mail \in [Mails -> MailDoc] /\ copies \in [Mails -> Nat] /\ faults \in Nat
        /\ claimed \in Mails \cup {NoMail} /\ CopyInv /\ NoNeedlessCopy
        /\ (claimed # NoMail) <=> pc \in {"send", "settle"}
    BY DEF MInv, IInv, TypeOK, MailDoc, SendInv
  <1>1. ASSUME Fault PROVE CopyInv' /\ NoNeedlessCopy'
    BY <1>0, <1>1 DEF Fault, CopyInv, NoNeedlessCopy
  <1>2. ASSUME UNCHANGED <<copies, unsure, faults>>,
               \A m \in Mails : mail[m].status = "sent" => mail'[m].status = "sent",
               pc # "settle" \/ UNCHANGED <<pc, claimed, ok>>
        PROVE  CopyInv' /\ NoNeedlessCopy'
    BY <1>0, <1>2 DEF CopyInv, NoNeedlessCopy
  <1>3. ASSUME NEW m \in Mails, Insert(m), ~Fault PROVE CopyInv' /\ NoNeedlessCopy'
    <2>1. claimed # m
      BY <1>3, NoMailAssumption DEF Insert, Settled, MInv, IInv, SendInv
    <2>2. /\ copies'[m] = 0 /\ UNCHANGED <<pc, claimed, ok, faults>>
          /\ \A n \in Mails \ {m} : /\ copies'[n] = copies[n] /\ mail'[n] = mail[n]
                                    /\ n \in unsure => n \in unsure'
      BY <1>0, <1>3 DEF Insert
    <2>3. ASSUME NEW n \in Mails \ {m}
          PROVE  /\ copies'[n] > 0 => \/ n \in unsure' \/ faults' > 0 \/ mail'[n].status = "sent"
                                      \/ (pc' = "settle" /\ claimed' = n /\ ok')
                 /\ copies'[n] > 1 => n \in unsure' \/ faults' > 0
      BY <1>0, <2>2 DEF CopyInv, NoNeedlessCopy
    <2> QED
      BY <2>2, <2>3 DEF CopyInv, NoNeedlessCopy
  <1>4. ASSUME NEW m \in Mails, Claim(m), ~Fault PROVE CopyInv' /\ NoNeedlessCopy'
    <2>1. /\ mail[m].status = "queued" /\ pc = "claim" /\ UNCHANGED <<copies, unsure, faults>>
          /\ \A n \in Mails \ {m} : mail'[n] = mail[n]
      BY <1>0, <1>4 DEF Claim, NextDue
    <2> QED
      BY <1>2, <2>1
  <1>5. ASSUME NEW m \in Mails, Signal(m) \/ ComeDue(m) PROVE CopyInv' /\ NoNeedlessCopy'
    <2>1. \A n \in Mails : mail'[n].status = mail[n].status
      <3>1. CASE Signal(m)
        BY <3>1 DEF Signal
      <3>2. CASE ComeDue(m)
        BY <1>0, <3>2 DEF ComeDue, MailDoc
      <3> QED
        BY <1>5, <3>1, <3>2
    <2>2. UNCHANGED <<copies, unsure, faults, pc, claimed, ok>>
      BY <1>5 DEF Signal, ComeDue
    <2> QED
      BY <1>2, <2>1, <2>2
  <1>6. CASE SmtpSend
    <2>1. /\ claimed \in Mails /\ mail[claimed].status = "sending" /\ pc = "send"
          /\ pc' = "settle" /\ UNCHANGED <<mail, claimed, faults>>
      BY <1>0, <1>6 DEF SmtpSend, MInv, IInv, SendInv
    <2>2. PICK took, heard \in BOOLEAN :
             /\ ok' = (took /\ heard)
             /\ copies' = [copies EXCEPT ![claimed] = IF took THEN @ + 1 ELSE @]
             /\ unsure' = IF took /\ ~heard THEN unsure \cup {claimed} ELSE unsure
      BY <1>6, Zenon DEF SmtpSend
    <2>3. copies[claimed] = 0 \/ claimed \in unsure \/ faults > 0
      BY <1>0, <2>1 DEF CopyInv
    <2>4. unsure \subseteq unsure' /\ (took => ok' \/ claimed \in unsure')
      BY <2>2, Zenon
    <2>5. /\ copies'[claimed] = IF took THEN copies[claimed] + 1 ELSE copies[claimed]
          /\ \A n \in Mails \ {claimed} : copies'[n] = copies[n]
      BY <1>0, <2>1, <2>2
    <2>6. copies[claimed] \in Nat
      BY <1>0, <2>1
    <2>7. /\ copies'[claimed] > 0 => claimed \in unsure' \/ faults' > 0 \/ ok'
          /\ copies'[claimed] > 1 => claimed \in unsure' \/ faults' > 0
      <3>1. CASE claimed \in unsure \/ faults > 0
        BY <2>1, <2>4, <3>1
      <3>2. CASE copies[claimed] = 0
        BY <2>4, <2>5, <3>2
      <3> QED
        BY <2>3, <3>1, <3>2
    <2>8. ASSUME NEW n \in Mails \ {claimed}
          PROVE  /\ copies'[n] > 0 => n \in unsure' \/ faults' > 0 \/ mail'[n].status = "sent"
                 /\ copies'[n] > 1 => n \in unsure' \/ faults' > 0
      BY <1>0, <2>1, <2>4, <2>5 DEF CopyInv, NoNeedlessCopy
    <2> QED
      BY <2>1, <2>7, <2>8 DEF CopyInv, NoNeedlessCopy
  <1>7. CASE Settle /\ ~Fault
    <2>1. /\ claimed \in Mails /\ mail[claimed].status = "sending" /\ mail[claimed].attempts > 0
          /\ mail' = [mail EXCEPT ![claimed] = Outcome(mail[claimed])]
          /\ UNCHANGED <<copies, unsure, faults>>
      BY <1>0, <1>7 DEF Settle, MInv, IInv, SendInv
    <2>2. /\ ok => mail'[claimed].status = "sent"
          /\ \A n \in Mails \ {claimed} : mail'[n] = mail[n]
      BY <1>0, <2>1 DEF Outcome, MailDoc
    <2> QED
      BY <1>0, <2>1, <2>2 DEF CopyInv, NoNeedlessCopy
  <1>8. CASE RequeueInterrupted /\ ~Fault
    <2>1. /\ \A n \in Mails : mail[n].status = "sent" => mail'[n].status = "sent"
          /\ pc = "requeue" /\ UNCHANGED <<copies, unsure, faults>>
      BY <1>0, <1>8 DEF RequeueInterrupted
    <2> QED
      BY <1>2, <2>1
  <1>9. CASE (TestRunning \/ ClaimNothing \/ Wait \/ Wake \/ Start \/ Stop \/ StopSignal) /\ ~Fault
    <2>1. UNCHANGED <<mail, copies, unsure, faults>> /\ (pc # "settle" \/ UNCHANGED <<pc, claimed, ok>>)
      BY <1>9 DEF TestRunning, ClaimNothing, Wait, Wake, Start, Stop, StopSignal, MInv, IInv, DownInv, Alive
    <2> QED
      BY <1>2, <2>1
  <1>10. CASE StopJoin \/ Exit
    <2>1. pc # "settle" /\ UNCHANGED <<mail, copies, unsure, faults>>
      BY <1>10 DEF StopJoin, Exit, Gone, MInv, OffInv
    <2> QED
      BY <1>2, <2>1
  <1>11. CASE Crash
    BY <1>1, <1>11 DEF Crash
  <1>12. CASE UNCHANGED vars
    BY <1>2, <1>12 DEF vars
  <1> QED
    BY <1>1, <1>3, <1>4, <1>5, <1>6, <1>7, <1>8, <1>9, <1>10, <1>11, <1>12 DEF Next, Sender

LEMMA NextTries == MInv /\ [Next]_vars => TriesInv'
  <1> SUFFICES ASSUME MInv, [Next]_vars PROVE TriesInv'
    OBVIOUS
  <1> USE DEF queueVars, senderVars, histVars
  <1>0. /\ mail \in [Mails -> MailDoc] /\ faults \in Nat /\ MaxAttempts \in Nat /\ MaxAttempts > 0
        /\ claimed \in Mails \cup {NoMail} /\ TriesInv
        /\ (claimed # NoMail) <=> pc \in {"send", "settle"}
    BY MailerAssumption DEF MInv, IInv, TypeOK, MailDoc, SendInv, MaxAttempts
  <1>1. \A m \in Mails : mail[m].attempts \in Nat
    BY <1>0 DEF MailDoc
  <1>2. faults' = faults \/ faults' = faults + 1
    BY DEF Next, Sender, Insert, Signal, ComeDue, RequeueInterrupted, TestRunning, Claim, ClaimNothing,
           SmtpSend, Settle, Wait, Wake, Start, Stop, StopSignal, StopJoin, Exit, Crash, vars,
           Fault, NoFault
  \* Documents that keep their attempts, and are no more likely to be tried.
  <1>3. ASSUME NEW m \in Mails, mail'[m].attempts = mail[m].attempts,
               \/ mail'[m].status = "queued" => mail[m].status = "queued" \/ Orphan(m)
               \/ faults' = faults + 1,
               \/ Orphan(m)' => Orphan(m)
               \/ faults' = faults + 1,
               mail'[m].status = "failed" => mail[m].status = "failed"
        PROVE  TriesOf(m)'
    <2>1. /\ mail[m].attempts <= MaxAttempts + faults
          /\ mail[m].status = "queued" \/ Orphan(m) => mail[m].attempts < MaxAttempts + faults
          /\ mail[m].status = "failed" => mail[m].attempts >= MaxAttempts
          /\ mail[m].attempts \in Nat
      BY <1>0, <1>1 DEF TriesInv, TriesOf
    <2>2. CASE faults' = faults + 1
      BY <1>0, <1>3, <2>1, <2>2 DEF TriesOf
    <2>3. CASE faults' = faults
      <3>1. mail'[m].status = "queued" \/ Orphan(m)' => mail[m].status = "queued" \/ Orphan(m)
        BY <1>0, <1>3, <2>3
      <3> QED
        BY <1>3, <2>1, <2>3, <3>1 DEF TriesOf
    <2> QED
      BY <1>2, <2>2, <2>3
  <1>4. ASSUME UNCHANGED mail, claimed' = claimed \/ faults' = faults + 1 PROVE TriesInv'
    <2>1. \A m \in Mails : Orphan(m)' => Orphan(m) \/ faults' = faults + 1
      BY <1>4 DEF Orphan
    <2> QED
      BY <1>3, <1>4, <2>1 DEF TriesInv
  <1>5. ASSUME NEW m \in Mails, Insert(m) PROVE TriesInv'
    <2>1. mail'[m] = NewMail /\ claimed' = claimed /\ \A n \in Mails \ {m} : mail'[n] = mail[n]
      BY <1>0, <1>5 DEF Insert
    <2>2. \A n \in Mails \ {m} : Orphan(n)' => Orphan(n)
      BY <2>1 DEF Orphan
    <2>3. /\ mail'[m].attempts = 0 /\ mail'[m].status = "queued" /\ MaxAttempts + faults' > 0
      BY <1>0, <1>2, <2>1 DEF NewMail
    <2>4. TriesOf(m)'
      BY <1>0, <1>2, <2>3 DEF TriesOf
    <2> QED
      BY <1>3, <2>1, <2>2, <2>4 DEF TriesInv
  <1>6. ASSUME NEW m \in Mails, Claim(m) PROVE TriesInv'
    <2>1. /\ mail[m].status = "queued" /\ pc = "claim" /\ claimed = NoMail
          /\ mail'[m].status = "sending" /\ mail'[m].attempts = mail[m].attempts + 1
          /\ \A n \in Mails \ {m} : mail'[n] = mail[n]
      BY <1>0, <1>6 DEF Claim, NextDue, MailDoc
    <2>2. claimed' = m \/ faults' = faults + 1
      BY <1>6 DEF Claim, Fault
    <2>3. mail[m].attempts < MaxAttempts + faults /\ mail[m].attempts \in Nat
      BY <1>0, <1>1, <2>1 DEF TriesInv, TriesOf
    <2>4. TriesOf(m)'
      BY <1>0, <1>2, <2>1, <2>2, <2>3 DEF TriesOf, Orphan
    <2>5. \A n \in Mails \ {m} : Orphan(n)' => Orphan(n)
      BY <2>1, NoMailAssumption DEF Orphan
    <2> QED
      BY <1>3, <2>1, <2>4, <2>5 DEF TriesInv
  <1>7. CASE Settle
    <2>1. claimed \in Mails /\ mail[claimed].attempts > 0 /\ mail[claimed].status = "sending"
      BY <1>0, <1>7 DEF Settle, MInv, IInv, SendInv
    <2>2. CASE UNCHANGED mail /\ faults' = faults + 1
      BY <1>4, <2>2
    <2>3. CASE mail' = [mail EXCEPT ![claimed] = Outcome(mail[claimed])]
      <3>1. /\ mail'[claimed] = Outcome(mail[claimed])
            /\ \A n \in Mails \ {claimed} : mail'[n] = mail[n]
        BY <1>0, <2>1, <2>3
      <3>2. mail'[claimed].attempts = mail[claimed].attempts
        BY <1>0, <2>1, <3>1, OutcomeType
      <3>3. /\ mail'[claimed].status # "sending"
            /\ mail'[claimed].status = "queued" => mail[claimed].attempts < MaxAttempts
            /\ mail'[claimed].status = "failed" => mail[claimed].attempts >= MaxAttempts
        BY <1>0, <1>1, <2>1, <3>1 DEF Outcome, GaveUp, MailDoc
      <3>4. mail[claimed].attempts <= MaxAttempts + faults /\ mail[claimed].attempts \in Nat
        BY <1>0, <1>1, <2>1 DEF TriesInv, TriesOf
      <3>5. \A n \in Mails : n = claimed => TriesOf(n)'
        <4>1. SUFFICES ASSUME NEW n \in Mails, n = claimed PROVE TriesOf(n)'
          OBVIOUS
        <4>2. mail'[n].status # "sending"
          BY <3>3, <4>1
        <4>3. /\ mail'[n].attempts <= MaxAttempts + faults'
              /\ mail'[n].status = "queued" => mail'[n].attempts < MaxAttempts + faults'
              /\ mail'[n].status = "failed" => mail'[n].attempts >= MaxAttempts
          BY <1>0, <1>2, <3>2, <3>3, <3>4, <4>1
        <4> QED
          BY <4>2, <4>3 DEF TriesOf, Orphan
      <3>6. \A n \in Mails \ {claimed} : Orphan(n)' => Orphan(n)
        BY <3>1 DEF Orphan
      <3>7. ASSUME NEW n \in Mails \ {claimed}
            PROVE  TriesOf(n)'
        BY <1>3, <3>1, <3>6
      <3> QED
        BY <3>5, <3>7 DEF TriesInv
    <2> QED
      BY <1>7, <2>2, <2>3 DEF Settle, Fault
  <1>8. CASE RequeueInterrupted
    <2>1. /\ claimed = NoMail /\ claimed' = claimed
          /\ \A n \in Mails : /\ mail'[n].attempts = mail[n].attempts
                              /\ \/ mail'[n].status = mail[n].status
                                 \/ mail[n].status = "sending" /\ mail'[n].status = "queued"
      BY <1>0, <1>8 DEF RequeueInterrupted, MailDoc
    <2>2. \A n \in Mails : /\ Orphan(n)' => Orphan(n)
                           /\ mail'[n].status = "queued" => mail[n].status = "queued" \/ Orphan(n)
                           /\ mail'[n].status = "failed" => mail[n].status = "failed"
      BY <2>1, NoMailAssumption DEF Orphan
    <2> QED
      BY <1>3, <2>1, <2>2 DEF TriesInv
  <1>9. ASSUME NEW m \in Mails, ComeDue(m) PROVE TriesInv'
    <2>1. /\ claimed' = claimed
          /\ \A n \in Mails : mail'[n].attempts = mail[n].attempts /\ mail'[n].status = mail[n].status
      BY <1>0, <1>9 DEF ComeDue, MailDoc
    <2>2. \A n \in Mails : Orphan(n)' => Orphan(n)
      BY <2>1 DEF Orphan
    <2> QED
      BY <1>3, <2>1, <2>2 DEF TriesInv
  <1>10. CASE Exit \/ Crash
    <2>1. UNCHANGED mail /\ (claimed' = claimed \/ faults' = faults + 1)
      BY <1>0, <1>10 DEF Exit, Crash, Gone, Fault, MInv, OffInv
    <2> QED
      BY <1>4, <2>1
  <1>11. CASE UNCHANGED <<mail, claimed>>
    BY <1>4, <1>11
  <1> QED
    BY <1>5, <1>6, <1>7, <1>8, <1>9, <1>10, <1>11
    DEF Next, Sender, Signal, TestRunning, ClaimNothing, SmtpSend, Wait, Wake, Start, Stop,
        StopSignal, StopJoin, vars

\* No message is sent twice without a reason, none is tried more or given up
\* earlier than RETRY_MINUTES says, but for what crashes and database errors
\* cost, and a stop never sleeps: for any schedule and any number of faults.
THEOREM MailInvThm == Spec => []MailInv
  <1>1. Init => MInv
    <2> SUFFICES ASSUME Init PROVE MInv
      OBVIOUS
    <2>1. MaxAttempts \in Nat /\ MaxAttempts > 0
      BY MailerAssumption DEF MaxAttempts
    <2>2. OffInv /\ CopyInv /\ NoNeedlessCopy
      BY DEF Init, OffInv, CopyInv, NoNeedlessCopy
    <2>3. TriesInv
      <3>1. faults = 0 /\ \A m \in Mails : mail[m].attempts = 0 /\ mail[m].status = "none"
        BY DEF Init
      <3>2. 0 <= MaxAttempts + faults
        BY <2>1, <3>1
      <3>3. ASSUME NEW m \in Mails PROVE TriesOf(m)
        BY <3>1, <3>2 DEF TriesOf, Orphan
      <3> QED
        BY <3>3 DEF TriesInv
    <2> QED
      BY <2>2, <2>3, InitInv DEF MInv
  <1>2. MInv /\ [Next]_vars => MInv'
    BY NextType, NextSend, NextStop, NextDown, NextOff, NextCopy, NextTries DEF MInv, IInv
  <1>3. MInv => MailInv
    <2> SUFFICES ASSUME MInv PROVE MailInv
      OBVIOUS
    <2>1. faults \in Nat /\ MaxAttempts \in Nat
      BY MailerAssumption DEF MInv, IInv, TypeOK, MaxAttempts
    <2>2. AttemptsBounded
      <3>1. \A m \in Mails : mail[m].attempts \in Nat
        BY DEF MInv, IInv, TypeOK
      <3>2. TriesInv
        BY DEF MInv
      <3>3. faults > 0 \/ MaxAttempts + faults = MaxAttempts
        BY <2>1
      <3>4. ASSUME NEW m \in Mails
            PROVE  /\ mail[m].attempts <= MaxAttempts + faults
                   /\ mail[m].status = "failed" => mail[m].attempts >= MaxAttempts
                   /\ mail[m].status = "queued" => faults > 0 \/ mail[m].attempts < MaxAttempts
        <4>1. TriesOf(m)
          BY <3>2 DEF TriesInv
        <4> QED
          BY <3>3, <4>1 DEF TriesOf
      <3> QED
        BY <3>4 DEF AttemptsBounded
    <2> QED
      BY <2>2 DEF MInv, IInv, StopInv, MailInv
  <1> QED
    BY <1>1, <1>2, <1>3, PTL DEF Spec
=============================================================================
