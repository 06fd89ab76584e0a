SPECIFICATION Spec
CONSTANTS
    None = None
    Requests = {r1, r2, r3}
    Students = {s1, s2}
    Deletable = {s1}
    Courses = {1}
    CourseIds = {1, 2}
    Credits <- MCCredits
    SeedQuota <- TwoSeats
    Quotas = {1, 2}
    MaxCredits = 1
    Inputs <- AdminInputs
    MaxAttempts = 1
    EventIds = {1, 2, 3}
SYMMETRY RequestSymmetry
INVARIANTS
    NoLostQuotaUpdate
    IInv
PROPERTY
    ImplementsKrs
