------------------------------ MODULE Portfolios ------------------------------
(***************************************************************************)
(* Portfolios of students: documents of MongoDB for rows of PostgreSQL,    *)
(* with no foreign key between them.  A change is one findOneAndUpdate;    *)
(* when it matches nothing, a second query finds the reason.               *)
(***************************************************************************)
EXTENDS Students

CONSTANTS
    MaxProjects,    \* MaxProjectsPerPortfolio
    SeedProjects,   \* projects that are there at the start
    SeedPortfolios  \* documents that are there at the start

\* A project, and a headline, is named after the request that wrote it.
Projects == SeedProjects \cup Requests
Portfolio == [student : Nat, headline : Requests \cup {None}, projects : SUBSET Projects]

PortfolioInput ==
    [op : {"get_portfolio", "upsert_portfolio", "add_project"}, by : Users, student : Nat]
    \cup [op : {"delete_project"}, by : Users, student : Nat, project : Projects]

ASSUME MaxProjectsValid == MaxProjects \in Nat \ {0}
ASSUME ProjectsFinite == IsFiniteSet(SeedProjects) /\ IsFiniteSet(Requests)
ASSUME SeedPortfoliosValid ==
    /\ SeedPortfolios \subseteq Portfolio
    /\ \A p \in SeedPortfolios : Cardinality(p.projects) <= MaxProjects
    /\ \A p, q \in SeedPortfolios : p.student = q.student => p = q

VARIABLES
    portfolios,     \* collection student_portfolios
    found           \* what an AddProject that matched nothing met: the projects
                    \* of the portfolio, or -1 (for the properties)

portfolioVars == <<portfolios, found>>

PortfolioInit ==
    /\ portfolios = SeedPortfolios
    /\ found = [r \in Requests |-> 0]

Of(student) == {p \in portfolios : p.student = student}

Replace(p) == portfolios' = {q \in portfolios : q.student # p.student} \cup {p}

PassPortfolio(r, next) == Goto(r, next) /\ UNCHANGED portfolioVars
RefusePortfolio(r, outcome) == Answer(r, outcome) /\ UNCHANGED portfolioVars

-----------------------------------------------------------------------------
\* The id of a project is known from an answer or from the portfolio.
IssuedProjects ==
    SeedProjects
    \cup {q \in Requests : req[q].op = "add_project" /\ answer[q] = "ok"}
    \cup UNION {p.projects : p \in portfolios}

\* Removing a project does not ask for the student.
ArrivePortfolio(r) ==
    /\ At(r, "Arrive")
    /\ \/ /\ req[r].op \in {"get_portfolio", "upsert_portfolio", "add_project"}
          /\ PassPortfolio(r, "FindOwner")
       \/ /\ req[r].op = "delete_project" /\ req[r].project \in IssuedProjects
          /\ PassPortfolio(r, "DeleteProject")

FindOwner(r) ==
    /\ At(r, "FindOwner")
    /\ IF WithId(req[r].student) = {}
       THEN RefusePortfolio(r, "not_found")
       ELSE PassPortfolio(r, CASE req[r].op = "get_portfolio" -> "FindPortfolio"
                              [] req[r].op = "upsert_portfolio" -> "Upsert"
                              [] req[r].op = "add_project" -> "AddProject")

FindPortfolio(r) ==
    /\ At(r, "FindPortfolio")
    /\ RefusePortfolio(r, IF Of(req[r].student) = {} THEN "portfolio_not_found" ELSE "ok")

\* $setOnInsert gives a new document its empty list, $set the headline to both.
Upsert(r) ==
    LET student == req[r].student
    IN  /\ At(r, "Upsert")
        /\ \/ /\ Of(student) = {}
              /\ Replace([student |-> student, headline |-> r, projects |-> {}])
           \/ \E p \in Of(student) : Replace([p EXCEPT !.headline = r])
        /\ Reply(r)
        /\ UNCHANGED found

\* Mutant: the index in the filter is one too low.
HasSpaceBelow(p) == Cardinality(p.projects) < MaxProjects - 1

\* "projects.19": {$exists: false}
HasSpace(p) == Cardinality(p.projects) < MaxProjects

AddProject(r) ==
    LET student == req[r].student
    IN  /\ At(r, "AddProject")
        /\ \/ \E p \in Of(student) :
                /\ HasSpace(p)
                /\ Replace([p EXCEPT !.projects = @ \cup {r}])
                /\ Reply(r)
                /\ UNCHANGED found
           \/ /\ \A p \in Of(student) : ~HasSpace(p)
              /\ \/ /\ Of(student) = {}
                    /\ found' = [found EXCEPT ![r] = -1]
                 \/ \E p \in Of(student) :
                        found' = [found EXCEPT ![r] = Cardinality(p.projects)]
              /\ Goto(r, "ExplainAdd")
              /\ UNCHANGED portfolios

ExplainAdd(r) ==
    /\ At(r, "ExplainAdd")
    /\ RefusePortfolio(r, IF Of(req[r].student) = {} THEN "portfolio_not_found"
                                                     ELSE "project_limit")

DeleteProject(r) ==
    LET project == req[r].project
    IN  /\ At(r, "DeleteProject")
        /\ \/ \E p \in Of(req[r].student) :
                /\ project \in p.projects
                /\ Replace([p EXCEPT !.projects = @ \ {project}])
                /\ Reply(r)
                /\ UNCHANGED found
           \/ /\ \A p \in Of(req[r].student) : project \notin p.projects
              /\ PassPortfolio(r, "ExplainDelete")

ExplainDelete(r) ==
    /\ At(r, "ExplainDelete")
    /\ RefusePortfolio(r, IF Of(req[r].student) = {} THEN "portfolio_not_found"
                                                     ELSE "project_not_found")

PortfolioStatement(r) ==
    \/ ArrivePortfolio(r) \/ FindOwner(r) \/ FindPortfolio(r) \/ Upsert(r)
    \/ AddProject(r) \/ ExplainAdd(r) \/ DeleteProject(r) \/ ExplainDelete(r)
=============================================================================
