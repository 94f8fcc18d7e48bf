CONSTANTS
    Clients = {p1}
    Requests <- NestedDomainRequests
    Normalise <- MCNormalise
SPECIFICATION Spec
INVARIANT
    QueriesFindTheirRecords
