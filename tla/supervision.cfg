SPECIFICATION LiveSpec
CONSTANTS
    None = None
    Requests = {r1, r2}
    Students = {s1, s2}
    Deletable = {s1}
    Supervisors = {1, 2}
    SupervisorIds = {1, 2, 3}
    SeedQuota <- MCQuota
    Inputs <- MCInputs
    MaxAttempts = 2
INVARIANTS
    IInv
    CountsExact
    WithinQuota
    NoLostQuotaUpdate
    WaitsLeadUp
PROPERTIES
    SupervisorKept
    ImplementsPlacements
    EveryRequestAnswered
