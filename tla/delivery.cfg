SPECIFICATION Spec
CONSTANTS
    None = None
    Ids = {1}
    QuotaIds = {}
    Owner <- AboutFirstUser
    Users = {1}
    Unreachable = {}
    Movers = {}
    Deletable = {1}
    Relays = {a, b}
    Workers = {v, w}
    Copies = {copy}
    CopyOf <- OfFirstEvent
    Batch = 1
    MaxRetry = 1
    MaxFaults = 3
SYMMETRY Symmetry
INVARIANTS
    ExtraMailsWereLost
    NoEventLost
    IInv
PROPERTY
    ImplementsNotices
