\* README.md:248, of a client without attempts when the limit of all is reached.
SPECIFICATION AdminSpec
CONSTANTS
    near = near
    far = far
    remote = remote
    tab1 = tab1
    tab2 = tab2
    tab3 = tab3
    tab4 = tab4
    Clients = {near, far, remote}
    Tabs = {tab1, tab2, tab3, tab4}
    ClientOf <- MCClientOf
    Window = 1
    ClientLimit = 1
    AllLimit = 2
    SessionLimit = 1
    SessionTime = 1
    FlowTime = 1
    MaxTime = 2
    MaxSessions = 2
    MaxFlows = 2
SYMMETRY Symmetry
INVARIANTS
    RefusalsSayWhen
CHECK_DEADLOCK FALSE
