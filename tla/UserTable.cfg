SPECIFICATION Spec
CONSTANTS
    Jobs = {j1, j2, j3}
    NoData = NoData
    PerPage = 1
    MaxRows = 3
SYMMETRY JobSymmetry
INVARIANTS TypeOK ShownPageIsAsked PagesShowEveryone
