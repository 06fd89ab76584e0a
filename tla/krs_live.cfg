SPECIFICATION LiveSpec
CONSTANTS
    None = None
    Requests = {r1, r2}
    Students = {s1, s2}
    Deletable = {}
    Courses = {1, 2}
    CourseIds = {1, 2}
    Credits <- MCCredits
    SeedQuota <- OneSeat
    Quotas = {1}
    MaxCredits = 1
    Inputs <- StudentInputs
    MaxAttempts = 2
    EventIds = {1, 2, 3, 4}
PROPERTY
    EveryRequestAnswered
