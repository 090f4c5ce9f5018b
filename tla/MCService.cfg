\* Two processes on one state directory, killed, raising, and losing power.
SPECIFICATION ServiceSpec
CONSTANTS
    Processes = {p1, p2}
    Free = Free
    MaxWrites = 6
SYMMETRY Symmetry
INVARIANTS
    ServiceInv
    UsersCloseFirst
    RecordsSurvive
