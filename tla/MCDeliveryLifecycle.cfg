\* One mail, two workers, an administrator, every kind of trouble: refinement
\* and, under the fairness of loop and executor, temporal properties.
CONSTANTS
    Messages = {m1}
    Workers = {w1, w2}
    Admins = {a1}
    Mailboxes = {me}
    NoSender = NoSender
    NoMail = NoMail
    Size <- UnitSize
    Recipients <- UnitSize
    MaxMessages = 3
    MaxBytes = 3
    BatchSize = 1
    RecipientLimit = 0
    MaxAge = 0
    Window = 9
    History = 0
    Delays = {1, 2}
    MaxAcks = 1
    MaxTime = 1
    RetryBase = 1
    RetryMax = 2
    MaxAttempts = 1
    ProviderDelays = {0}
    AuthDelay = 1
    ExtraAuthDelay = 2
    Enabled = {"crash", "fault", "cancel", "auth", "throttle", "reject", "ambiguous", "unexpected"}
SPECIFICATION FairDeliverySpec
INVARIANTS
    NoUnacknowledgedDuplicate
    SafeToRetry
    PauseAgrees
PROPERTIES
    LifecycleSpec
    QueueSpec
    AttemptsEnd
    ShutdownEnds
