\* A mail whose sender stays logged out.
CONSTANTS
    Messages = {m1}
    Workers = {w1, w2}
    Admins = {}
    Mailboxes = {me}
    NoSender = NoSender
    NoMail = NoMail
    Size <- UnitSize
    Recipients <- UnitSize
    MaxMessages = 3
    MaxBytes = 3
    BatchSize = 1
    RecipientLimit = 0
    MaxAge = 9
    Window = 9
    History = 9
    Delays = {1, 2}
    MaxAcks = 0
    MaxTime = 4
    RetryBase = 1
    RetryMax = 2
    MaxAttempts = 2
    ProviderDelays = {0}
    AuthDelay = 1
    ExtraAuthDelay = 2
    Enabled = {"auth"}
SPECIFICATION DeliverySpec
INVARIANTS
    AttemptLimit
