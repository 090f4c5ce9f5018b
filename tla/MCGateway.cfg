\* Two transactions from the client's command to upstream, two workers, every kind
\* of trouble on either side of the queue.
CONSTANTS
    Messages = {m1, m2}
    Workers = {w1, w2}
    Admins = {}
    Mailboxes = {me}
    NoSender = NoSender
    NoMail = NoMail
    Sentinel = Sentinel
    Size <- UnitSize
    Recipients <- UnitSize
    MaxMessages = 3
    MaxBytes = 3
    BatchSize = 2
    PendingSubmissions = 1
    Mishaps = {"crash", "fault", "disk", "disconnect"}
    RecipientLimit = 0
    MaxAge = 9
    Window = 9
    History = 9
    Delays = {1, 2}
    MaxAcks = 0
    MaxTime = 0
    RetryBase = 1
    RetryMax = 2
    MaxAttempts = 2
    ProviderDelays = {0, 2}
    AuthDelay = 1
    ExtraAuthDelay = 2
    Enabled = {"crash", "fault", "cancel", "auth", "throttle", "reject", "ambiguous", "unexpected"}
SPECIFICATION GatewaySpec
SYMMETRY Symmetry
INVARIANTS
    AnswersHold
    GatewayInv
    LedgerCovers
    CooldownPersists
