\* Two workers, one administrator, a configuration that may change the account,
\* two answers with credentials.
CONSTANTS
    Workers = {w1, w2}
    Admins = {a1}
    Accounts = {"first", "second"}
    NoOne = NoOne
    MaxIssued = 2
SPECIFICATION FairTokensSpec
INVARIANTS
    TokensInv
    PresentsValid
    CountsGenerations
    DisconnectLeavesNothing
PROPERTIES
    CallsEnd
