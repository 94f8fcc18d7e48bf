CONSTANTS
    Clients = {p1, p2}
    Requests <- RecordRequests
    Normalise <- MCNormalise
SYMMETRY Symmetry
SPECIFICATION Spec
INVARIANTS
    IndexesAgree
    QueriesFindTheirRecords
PROPERTY Refines
