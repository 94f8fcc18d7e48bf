CONSTANTS
    Clients = {p1, p2}
    Requests <- VoteRequests
    Normalise <- MCNormalise
SPECIFICATION FairSpec
INVARIANTS
    TypeOK
    AckedMeansStored
    ConflictMeansStored
    QueriesFindTheirRecords
PROPERTIES
    RecordsWriteOnce
    CallsReturn
    Refines
