SPECIFICATION Spec
CONSTANTS
    Tickets = {t1, t2, t3}
    Artefacts = {p1}
    Unchecked = {b1}
    Unlisted = {q1}
    NoId = NoId
    Size = 3
    Folders <- MCFolders
SYMMETRY TicketSymmetry
CHECK_DEADLOCK FALSE
INVARIANTS TypeOK CycleMeansCycle CycleIsClosed CleanMeansSound
