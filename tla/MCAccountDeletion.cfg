\* Two vocals, two tickets, two attempts of each job, one mishap; of a mail, two
\* requests at a time, three deliveries to each environment and one fault.
SPECIFICATION MCSpec
CONSTANTS
    h1 = h1 h2 = h2
    NoVocal = NoVocal
    Vocals = {v1, v2}
    Tickets = {t1, t2}
    CloneTries = 2
    MailTries = 2
    MaxMishaps = 1
    Worlds <- MCWorlds
    Environments <- Deployed
    Slots = {h1, h2}
    Mails <- MCMails
    MaxCount = 2
    MaxBytes = 2
    MaxTotal = 3
    MaxTries = 3
    MaxFaults = 1
INVARIANTS ReadyIsKept FinalIsConfirmed ForwardedOnce
PROPERTIES ChargedVoiceIsSettled TicketIsHandled LeavingIsFinished AddressedIsForwarded
CHECK_DEADLOCK FALSE
