\* Three transactions of different sizes for a queue of one place, batches of
\* two and room for two mails of three octets together, every kind of trouble, the fairness of loop and executor.
CONSTANTS
    m1 = m1  m2 = m2  m3 = m3
    Messages = {m1, m2, m3}
    Mailboxes = {me}
    NoSender = NoSender
    Sentinel = Sentinel
    Size <- SizeOf
    Recipients <- UnitSize
    MaxMessages = 2
    MaxBytes = 3
    BatchSize = 2
    PendingSubmissions = 1
    RecipientLimit = 0
    MaxAge = 9
    Window = 9
    History = 9
    Delays = {}
    MaxAcks = 0
    MaxTime = 0
    Mishaps = {"crash", "fault", "disk", "disconnect"}
SPECIFICATION FairIntakeSpec
INVARIANTS
    IntakeInv
    WithinCapacity
    AckImpliesDurable
    DeferredIsNotStored
PROPERTIES
    EveryoneIsAnswered
    CloseEnds
