\* Two mails whose recipients together use up the limit; time enough for the
\* window to move, for retries, for expiry and for two cooldowns; a configuration
\* that may name a legacy sender or none at each start.
CONSTANTS
    m1 = m1  m2 = m2
    me = me  NoSender = NoSender
    Messages = {m1, m2}
    Size <- OneAndTwo
    Recipients <- OneAndTwo
    Mailboxes = {me, NoSender}
    MaxMessages = 2
    MaxBytes = 3
    BatchSize = 1
    RecipientLimit = 2
    MaxAge = 1
    Window = 1
    History = 0
    Delays = {1, 2}
    MaxAcks = 0
    MaxTime = 2
SPECIFICATION StoreSpec
VIEW ReadState
INVARIANTS
    StoreInv
    NothingLost
    WithinBudget
PROPERTIES
    CooldownNeverShortened
