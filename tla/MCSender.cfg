\* Sign-ins, choices, failed writes, restarts and submissions of two administrators.
SPECIFICATION SenderSpec
CONSTANTS
    ann = ann
    shared = shared
    legacy = legacy
    stranger = stranger
    r1 = r1
    r2 = r2
    other = other
    Legacy = legacy
    Nobody = Nobody
    Absent = Absent
    MaxRecipients = 2
    Admins = {a1, a2}
    Users <- MCUsers
    Customs <- MCCustoms
    Allowed <- MCAllowed
    Raws <- MCRaws
SYMMETRY Symmetry
INVARIANTS
    SenderInv
    FromWasChosen
    RecipientsAreAddressed
