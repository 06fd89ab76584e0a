SPECIFICATION Spec
CONSTANTS
    None = None
    u1 = u1
    u2 = u2
    n1 = n1
    n2 = n2
    n3 = n3
    Requests = {r1, r2, r3}
    SeedUsers = {u1, u2}
    Names = {n1, n2, n3}
    SeedRow <- MCRow
    Inputs <- MCInputs
    Expiring = {u1}
INVARIANTS
    TokenSpentOnce
    SessionLostOnlyByError
PROPERTIES
    NoAccessAfterDelete
    AdminRemainsUnlessStale
    ColumnsChangeAsAsked
    ImplementsSessions
SYMMETRY Symmetry
