------------------------------- MODULE Service -------------------------------
(***************************************************************************)
(* What the handlers of students, portfolios and reviews share: requests   *)
(* that run one statement after the other, the caller's permissions, and   *)
(* lists that are read page by page, newest first.  A statement against    *)
(* PostgreSQL or MongoDB is one action; nothing spans two of them.         *)
(***************************************************************************)
EXTENDS Integers, FiniteSets, Sequences

CONSTANTS
    Requests,   \* the HTTP requests of a behaviour; a list is read by a series
    Users,      \* who may call
    Role,       \* the role in the access token of a user
    Limit,      \* rows of a page
    None        \* no row, no field, nobody

Roles == {"admin", "staff", "user"}

ASSUME RoleValid == Role \in [Users -> Roles]
ASSUME LimitValid == Limit \in Nat \ {0}

VARIABLES
    users,      \* rows of table users
    req,        \* route, caller, path and body of a request
    pc,         \* its next statement
    answer,     \* its answer
    listed,     \* ids on the pages the client has received
    cursor,     \* the last row on them
    from        \* ids below this one had been issued when the first page was read

shared == <<users, req, pc, answer, listed, cursor, from>>

At(r, statement) == pc[r] = statement

Goto(r, next) ==
    /\ pc' = [pc EXCEPT ![r] = next]
    /\ UNCHANGED <<users, req, answer, listed, cursor, from>>

Answer(r, outcome) ==
    /\ pc' = [pc EXCEPT ![r] = "Done"]
    /\ answer' = [answer EXCEPT ![r] = outcome]
    /\ UNCHANGED <<users, req, listed, cursor, from>>

\* A statement that was executed and its reply, which may get lost on the way.
Reply(r) == \E outcome \in {"ok", "error"} : Answer(r, outcome)

Can(u, permission) ==
    \/ Role[u] = "admin"
    \/ Role[u] = "staff" /\ permission \in {"student:list", "student:read:any", "student:create"}

-----------------------------------------------------------------------------
(* A list is read newest first; of a row, only what it is sorted by counts. *)

Key == [id : Nat, at : Nat]

ASSUME NoneIsFresh == None \notin Users /\ None \notin Key

Newer(x, y) == x.at > y.at \/ (x.at = y.at /\ x.id > y.id)

\* Mutant: only the timestamps are compared.
BeyondByTime(last, x) == IF last = None THEN TRUE ELSE last.at > x.at

\* (created_at, id) < the ones of the last row the client has seen.
Beyond(last, x) == IF last = None THEN TRUE ELSE Newer(last, x)

\* ORDER BY ... LIMIT limit+1: a page in descending order, without a gap, and
\* with everything unless it is full.
IsPage(page, rows) ==
    /\ \A i, j \in DOMAIN page : i < j => Newer(page[i], page[j])
    /\ \A x \in rows :
          \/ \E i \in DOMAIN page : page[i] = x
          \/ Len(page) = Limit + 1 /\ Newer(page[Limit + 1], x)

Pages(rows) == {page \in UNION {[1 .. n -> rows] : n \in 0 .. Limit + 1} : IsPage(page, rows)}

\* The first page: what has been issued so far is what the client can expect.
Begin(r, next, issued) ==
    /\ pc' = [pc EXCEPT ![r] = next]
    /\ from' = [from EXCEPT ![r] = issued]
    /\ UNCHANGED <<users, req, answer, listed, cursor>>

\* The extra row is not sent; it only tells that there is another page, which
\* the client then asks for.
Show(r, page) ==
    LET size == IF Len(page) > Limit THEN Limit ELSE Len(page)
    IN  /\ listed' = [listed EXCEPT ![r] = @ \o [i \in 1 .. size |-> page[i].id]]
        /\ IF Len(page) > Limit
           THEN /\ cursor' = [cursor EXCEPT ![r] = page[Limit]]
                /\ UNCHANGED <<pc, answer>>
           ELSE /\ pc' = [pc EXCEPT ![r] = "Done"]
                /\ answer' = [answer EXCEPT ![r] = "ok"]
                /\ UNCHANGED cursor
        /\ UNCHANGED <<users, req, from>>

ReadPage(r, rows) == \E page \in Pages({x \in rows : Beyond(cursor[r], x)}) : Show(r, page)
=============================================================================
