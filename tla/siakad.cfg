SPECIFICATION Spec
CONSTANTS
    None = None
    s1 = s1
    s2 = s2
    e1 = e1
    e2 = e2
    e3 = e3
    n1 = n1
    n2 = n2
    n3 = n3
    c1 = c1
    c2 = c2
    y1 = y1
    y2 = y2
    Admin = Admin
    Requests = {r1, r2, r3}
    SeedStudents = {s1, s2}
    SeedRow <- MCRow
    Emails = {e1, e2, e3}
    Nims = {n1, n2, n3}
    Classes = {c1, c2}
    Years = {y1, y2}
    SKS <- MCSKS
    Kuota <- MCKuota
    Limit = 1
    Inputs <- MCInputs
INVARIANTS
    QuotaHolds
    RefusalsWithinLimit
    DeletedStudentsStayOut
PROPERTIES
    CreditExcessOnlyByOverlap
SYMMETRY Symmetry
