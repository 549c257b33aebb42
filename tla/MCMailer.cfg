CONSTANTS
    Mails = {m1, m2}
    RetryMinutes <- OneRetry
    MaxFaults = 2
SPECIFICATION FairSpec
INVARIANT MailInv
PROPERTIES Implements MailLive
CHECK_DEADLOCK FALSE
