SPECIFICATION LiveSpec
CONSTANTS
    None = None
    Ids = {1, 2}
    QuotaIds = {2}
    Owner <- AboutFirstUser
    Users = {1, 2}
    Unreachable = {}
    Movers = {2}
    Deletable = {}
    Relays = {a, b}
    Workers = {v, w}
    Copies = {}
    CopyOf <- OfFirstEvent
    Batch = 1
    MaxRetry = 1
    MaxFaults = 1
PROPERTY
    EveryEventServed
