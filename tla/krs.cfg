SPECIFICATION Spec
CONSTANTS
    None = None
    Requests = {r1, r2}
    Students = {s1, s2}
    Deletable = {}
    Courses = {1, 2, 3}
    CourseIds = {1, 2, 3}
    Credits <- MCCredits
    SeedQuota <- OneSeat
    Quotas = {1}
    MaxCredits = 2
    Inputs <- StudentInputs
    MaxAttempts = 2
    EventIds = {1, 2, 3, 4}
SYMMETRY Symmetry
INVARIANTS
    NeverOversold
    CountMatchesRows
    CreditLimitHolds
    ConstraintNeverFires
    NoWaitCycle
    OutboxTells
PROPERTY
    ImplementsKrs
