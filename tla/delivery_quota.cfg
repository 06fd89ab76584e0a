SPECIFICATION Spec
CONSTANTS
    None = None
    Ids = {1, 2}
    QuotaIds = {2}
    Owner <- AboutFirstUser
    Users = {1, 2, 3}
    Unreachable = {1}
    Movers = {2}
    Deletable = {2}
    Relays = {a, b}
    Workers = {v, w}
    Copies = {}
    CopyOf <- OfFirstEvent
    Batch = 2
    MaxRetry = 1
    MaxFaults = 2
SYMMETRY Symmetry
INVARIANTS
    NoEventLost
    IInv
