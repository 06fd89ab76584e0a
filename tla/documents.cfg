SPECIFICATION Spec
CONSTANTS
    r1 = r1
    r2 = r2
    r3 = r3
    ann = ann
    ben = ben
    cas = cas
    c1 = c1
    n1 = n1
    n2 = n2
    n3 = n3
    p1 = p1
    None = None
    Requests = {r1, r2, r3}
    Users = {ann, ben, cas}
    Role <- MCRole
    Limit = 1
    NIMs = {n1, n2, n3}
    Times = {1, 2}
    SeedStudents <- MCSeedStudents
    MaxProjects = 2
    SeedProjects = {p1}
    SeedPortfolios <- MCSeedPortfolios
    Courses = {c1}
    Ratings = {1, 5}
    MaxReplies = 2
    SeedReviews <- MCSeedReviews
    SeedEnrolled <- MCSeedEnrolled
    Inputs <- MCInputs
    Moving <- MCMoving
    Leaving <- MCLeaving
SYMMETRY Symmetry
INVARIANTS
    CountsAddUp
    ReviewsByParticipants
    RefusalsTrue
    ListedOnce
