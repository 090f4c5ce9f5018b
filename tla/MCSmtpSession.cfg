\* Three clients for two connections, a buffer for less than two mails, two
\* transactions in turn or at once.
CONSTANTS
    Clients = {c1, c2, c3}
    Addresses = {a1}
    MaxConnections = 2
    MaxRecipients = 1
    MaxMessageBytes = 2
    MaxBufferBytes = 3
    LineSizes = {1}
    MaxInput = 3
    MaxTransactions = 2
SPECIFICATION FairSmtpSpec
INVARIANTS
    SmtpInv
    NeverTruncated
    TransactionsSeparate
    QuietWhenClosed
PROPERTIES
    BufferComesBack
    ListenerCloses
