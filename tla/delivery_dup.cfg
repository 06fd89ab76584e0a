SPECIFICATION Spec
CONSTANTS
    None = None
    Ids = {2}
    QuotaIds = {2}
    Owner <- AboutFirstUser
    Users = {1, 2}
    Unreachable = {}
    Movers = {}
    Deletable = {}
    Relays = {a}
    Workers = {v}
    Copies = {}
    CopyOf <- OfFirstEvent
    Batch = 1
    MaxRetry = 1
    MaxFaults = 1
INVARIANT
    ExactlyOneMail
